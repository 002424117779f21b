\* The bound on leaked references (MaxRefs) may refuse every further load.
CHECK_DEADLOCK FALSE
SPECIFICATION FairSpec
CONSTANTS
    p = p
    q = q
    None = None
    Thread = {t1, t2}
    Plan <- MCPlans
    Key = {"ember", "spark"}
    AssetsOf <- MCAssets
    CatalogOf <- MCCatalog
    Trusted <- MCPlans
    Concurrency = 1
    MaxRefs = 2
    MaxIdle = 1
INVARIANT PlansAreSound
 
