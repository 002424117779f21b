--------------------------- MODULE VisualPlanCache ---------------------------
(***************************************************************************)
(* The cache of presentation plans and of the assets they load             *)
(* (skill/presentation_asset_cache.go), used by several goroutines.        *)
(*                                                                         *)
(* Both tables are guarded by one mutex; each action is a critical section *)
(* or a call of the loader, which runs without it.  A plan is loaded by    *)
(* the goroutine that found it missing, with one job per asset, and the    *)
(* others wait on the entry's channel.  Two plans with one digest do not   *)
(* mix: the second is refused before anything is written, so a plan stands *)
(* for its digest here, and an asset, its key and fallback, for its        *)
(* fingerprint.                                                            *)
(***************************************************************************)
EXTENDS Naturals, FiniteSets, Sequences

CONSTANTS
    Thread,         \* goroutines
    Plan,           \* presentation plans
    Key,            \* asset keys
    None,           \* no entry, no key
    AssetsOf,       \* Plan -> set of assets
    CatalogOf,      \* Plan -> catalog
    Trusted,        \* plans whose catalog is trusted and that resolve
    Concurrency,    \* VisualPlanCacheOptions.PreloadConcurrency
    MaxIdle,        \* VisualPlanCacheOptions.MaxIdlePlans
    MaxRefs         \* bound: references to an asset when a load begins

Asset == [key : Key, fallback : Key \cup {None}]
Primary == UNION {AssetsOf[p] : p \in Plan}
Catalog == {CatalogOf[p] : p \in Plan}

ASSUME PlanAssumption ==
    /\ AssetsOf \in [Plan -> SUBSET Asset] /\ Trusted \subseteq Plan
    /\ Concurrency \in Nat \ {0} /\ MaxIdle \in Nat /\ MaxRefs \in Nat
ASSUME FiniteAssumption ==
    IsFiniteSet(Thread) /\ IsFiniteSet(Plan) /\ IsFiniteSet(Key)
ASSUME NoneAssumption == None \notin Nat /\ None \notin Key

VARIABLES
    entries,        \* VisualPlanCache.entries: the live entry of a plan
    plan,           \* the plan entries somebody can still reach
    older,          \* the pairs of loaded entries in the order of lastUsed
    assets,         \* VisualPlanCache.assets: the live entry of a key
    asset,          \* the asset entries somebody can still reach
    loaded,         \* what the loader holds
    pc, mine,       \* per goroutine: where it stands, and its plan entry
    cancelled,      \* its context is done
    job,            \* its preload goroutines, one per asset
    todo,           \* keys it still has to give up, one releaseAssets each
    unloading       \* keys it took out of the table and has to Unload

tables == <<entries, plan, older, assets, asset, loaded>>
locals == <<mine, cancelled, job, todo, unloading>>
vars == <<tables, pc, locals>>

PlanEntry == [of : Plan, ready : BOOLEAN, err : BOOLEAN, refs : Nat, uses : SUBSET Key]
AssetEntry == [of : Asset, ready : BOOLEAN, err : BOOLEAN, refs : Nat,
               alias : Key \cup {None}, as : Key \cup {None}]
NoJob == [pc |-> "none", of |-> None, id |-> None, outer |-> None, as |-> None]

(* What a pointer still leads to; the rest of the heap is forgotten. *)
LivePlans == ({entries[p] : p \in Plan} \cup {mine[t] : t \in Thread}) \ {None}
LoadedPlans == {i \in {entries[p] : p \in Plan} \ {None} : plan[i].ready}
LiveAssets ==
    ({assets[k] : k \in Key} \cup {job[t][a].id : t \in Thread, a \in Primary}
        \cup {job[t][a].outer : t \in Thread, a \in Primary}) \ {None}
Kept(heap, ids) == [i \in ids |-> heap[i]]
Fresh(heap) == CHOOSE i \in 1..(Cardinality(DOMAIN heap) + 1) : i \notin DOMAIN heap
Extended(heap, i, e) == [j \in DOMAIN heap \cup {i} |-> IF j = i THEN e ELSE heap[j]]

TypeOK ==
    /\ entries \in [Plan -> DOMAIN plan \cup {None}]
    /\ DOMAIN plan = LivePlans /\ \A i \in LivePlans : plan[i] \in PlanEntry
    /\ older \subseteq LoadedPlans \X LoadedPlans
    /\ assets \in [Key -> DOMAIN asset \cup {None}]
    /\ DOMAIN asset = LiveAssets /\ \A i \in LiveAssets : asset[i] \in AssetEntry
    /\ loaded \subseteq Key
    /\ pc \in [Thread -> {"idle", "loading", "undo", "waiting", "leased", "releasing"}]
    /\ cancelled \in [Thread -> BOOLEAN]
    /\ unloading \in [Thread -> SUBSET Key]
    /\ todo \in [Thread -> Seq([Key -> Nat])]

Init ==
    /\ entries = [p \in Plan |-> None] /\ plan = <<>> /\ older = {}
    /\ assets = [k \in Key |-> None] /\ asset = <<>> /\ loaded = {}
    /\ pc = [t \in Thread |-> "idle"] /\ mine = [t \in Thread |-> None]
    /\ cancelled = [t \in Thread |-> FALSE]
    /\ job = [t \in Thread |-> [a \in Primary |-> NoJob]]
    /\ todo = [t \in Thread |-> <<>>] /\ unloading = [t \in Thread |-> {}]

Goto(t, where) == pc' = [pc EXCEPT ![t] = where]
Return(t) ==
    /\ Goto(t, "idle") /\ mine' = [mine EXCEPT ![t] = None]
    /\ cancelled' = [cancelled EXCEPT ![t] = FALSE]
Touched(i) ==
    {pair \in older : i \notin {pair[1], pair[2]}} \cup {<<j, i>> : j \in LoadedPlans \ {i}}
Once(keys) == [k \in Key |-> IF k \in keys THEN 1 ELSE 0]

-----------------------------------------------------------------------------
(* Acquire. *)

AcquireCreates(t, p) ==
    /\ pc[t] = "idle" /\ entries[p] = None
    /\ \A i \in DOMAIN asset : asset[i].refs < MaxRefs
    /\ LET i == Fresh(plan) IN
       /\ entries' = [entries EXCEPT ![p] = i]
       /\ mine' = [mine EXCEPT ![t] = i]
       /\ plan' = Extended(plan, i,
              [of |-> p, ready |-> FALSE, err |-> FALSE, refs |-> 1, uses |-> {}])
    /\ job' = [job EXCEPT ![t] = [a \in Primary |->
          IF p \in Trusted /\ a \in AssetsOf[p] THEN [NoJob EXCEPT !.pc = "queued"] ELSE NoJob]]
    /\ Goto(t, "loading")
    /\ UNCHANGED <<older, assets, asset, loaded, cancelled, todo, unloading>>

UnreservedRefs(i) == plan[i].refs       \* seeded bug of Reserved: no reservation
Reserved(i) == plan[i].refs + 1

AcquireShares(t, p) ==
    /\ pc[t] = "idle" /\ entries[p] # None
    /\ plan' = [plan EXCEPT ![entries[p]].refs = Reserved(entries[p])]
    /\ mine' = [mine EXCEPT ![t] = entries[p]]
    /\ Goto(t, "waiting")
    /\ UNCHANGED <<entries, older, assets, asset, loaded, cancelled, job, todo, unloading>>

Less(n) == IF n > 0 THEN n - 1 ELSE 0

AcquireReturns(t) ==
    LET i == mine[t] IN
    /\ pc[t] = "waiting" /\ plan[i].ready
    /\ UNCHANGED entries
    /\ IF plan[i].err
       THEN /\ Return(t) /\ UNCHANGED older
            /\ plan' = Kept([plan EXCEPT ![i].refs = Less(@)], LivePlans')
       ELSE /\ Goto(t, "leased") /\ older' = Touched(i)
            /\ UNCHANGED <<plan, mine, cancelled>>
    /\ UNCHANGED <<assets, asset, loaded, job, todo, unloading>>

(* select takes the context if both are ready; nothing is evicted here. *)
AcquireCancelled(t) ==
    /\ pc[t] = "waiting" /\ cancelled[t]
    /\ Return(t) /\ UNCHANGED entries
    /\ plan' = Kept([plan EXCEPT ![mine[t]].refs = Less(@)], LivePlans')
    /\ UNCHANGED <<older, assets, asset, loaded, job, todo, unloading>>

Cancel(t) ==
    /\ pc[t] \in {"loading", "waiting"} /\ ~cancelled[t]
    /\ cancelled' = [cancelled EXCEPT ![t] = TRUE]
    /\ UNCHANGED <<tables, pc, mine, job, todo, unloading>>

-----------------------------------------------------------------------------
(* preload and acquireAsset: the jobs of a goroutine that loads a plan.     *)

Done(t) == \A a \in Primary : job[t][a].pc \in {"none", "done", "failed"}
Failed(t) == \E a \in Primary : job[t][a].pc = "failed"
ContextDone(t) == cancelled[t] \/ Failed(t)
Tokens(t) == Cardinality({a \in Primary : job[t][a].pc \notin {"none", "queued", "done", "failed"}})

SetJob(t, a, j) == job' = [job EXCEPT ![t][a] = j]
Loaded(as) == [NoJob EXCEPT !.pc = "done", !.as = as]
Aborted == [NoJob EXCEPT !.pc = "failed"]

(* The job looks up x, its own asset or, inside the entry outer of its own  *)
(* asset, the fallback of it.                                               *)
LookUp(t, a, x, outer) ==
    LET i == assets[x.key]
        n == Fresh(asset)
        went(where, id) == [pc |-> where, of |-> x, id |-> id, outer |-> outer, as |-> None]
    IN IF i = None
       THEN /\ assets' = [assets EXCEPT ![x.key] = n]
            /\ asset' = Extended(asset, n, [of |-> x, ready |-> FALSE, err |-> FALSE,
                                            refs |-> 0, alias |-> None, as |-> None])
            /\ SetJob(t, a, went("preload", n))
       ELSE /\ SetJob(t, a, IF asset[i].of = x THEN went("wait", i)
                            ELSE IF outer = None THEN Aborted ELSE went("unaliased", None))
            /\ UNCHANGED <<assets, asset>>

Unchanged(t) == UNCHANGED <<entries, plan, older, pc, mine, cancelled, todo, unloading>>

JobStarts(t, a) ==
    /\ job[t][a].pc = "queued" /\ Tokens(t) < Concurrency
    /\ LookUp(t, a, a, None)
    /\ Unchanged(t) /\ UNCHANGED loaded

JobCancelled(t, a) ==                   \* also while waiting inside a fallback
    LET j == job[t][a] IN
    /\ j.pc \in {"queued", "wait"} /\ ContextDone(t)
    /\ SetJob(t, a, IF j.outer = None THEN Aborted ELSE [j EXCEPT !.pc = "unaliased", !.id = None])
    /\ UNCHANGED assets
    /\ asset' = Kept(asset, LiveAssets')
    /\ Unchanged(t) /\ UNCHANGED loaded

(* The creator records its result and closes the channel of the entry.      *)
Published(i, alias, as) ==
    [asset EXCEPT ![i] = [@ EXCEPT !.ready = TRUE, !.refs = 1, !.alias = alias, !.as = as]]
Refused(i) ==
    /\ assets' = [assets EXCEPT ![asset[i].of.key] = None]
    /\ asset' = Kept([asset EXCEPT ![i] = [@ EXCEPT !.ready = TRUE, !.err = TRUE]], LiveAssets')

PreloadSucceeds(t, a) ==
    LET j == job[t][a] IN
    /\ j.pc = "preload"
    /\ loaded' = loaded \cup {j.of.key}
    /\ SetJob(t, a, IF j.outer = None THEN Loaded(j.of.key) ELSE [j EXCEPT !.pc = "aliased"])
    /\ UNCHANGED assets
    /\ asset' = Kept(Published(j.id, None, j.of.key), LiveAssets')
    /\ Unchanged(t)

HasFallback(x) == x.fallback \notin {None, x.key}

PreloadFallsBack(t, a) ==
    LET j == job[t][a] IN
    /\ j.pc = "preload" /\ HasFallback(j.of)
    /\ LookUp(t, a, [key |-> j.of.fallback, fallback |-> None], j.id)
    /\ Unchanged(t) /\ UNCHANGED loaded

PreloadFails(t, a) ==
    LET j == job[t][a] IN
    /\ j.pc = "preload" /\ ~HasFallback(j.of)
    /\ SetJob(t, a, IF j.outer = None THEN Aborted ELSE [j EXCEPT !.pc = "unaliased", !.id = None])
    /\ Refused(j.id)
    /\ Unchanged(t) /\ UNCHANGED loaded

(* A waiter counts itself when it takes the mutex again; by then the entry  *)
(* may have left the table.                                                 *)
Wakes(t, a) ==
    LET j == job[t][a]
        e == asset[j.id]
    IN
    /\ j.pc = "wait" /\ e.ready
    /\ SetJob(t, a, IF j.outer = None THEN (IF e.err THEN Aborted ELSE Loaded(e.as))
                    ELSE IF e.err THEN [j EXCEPT !.pc = "unaliased", !.id = None]
                    ELSE [j EXCEPT !.pc = "aliased"])
    /\ UNCHANGED assets
    /\ asset' = Kept(IF e.err THEN asset ELSE [asset EXCEPT ![j.id].refs = @ + 1], LiveAssets')
    /\ Unchanged(t) /\ UNCHANGED loaded

FallbackSucceeds(t, a) ==
    LET j == job[t][a] IN
    /\ j.pc = "aliased"
    /\ SetJob(t, a, Loaded(asset[j.id].as))
    /\ UNCHANGED assets
    /\ asset' = Kept(Published(j.outer, j.of.key, asset[j.id].as), LiveAssets')
    /\ Unchanged(t) /\ UNCHANGED loaded

FallbackFails(t, a) ==
    /\ job[t][a].pc = "unaliased"
    /\ SetJob(t, a, Aborted) /\ Refused(job[t][a].outer)
    /\ Unchanged(t) /\ UNCHANGED loaded

JobStep(t, a) ==
    \/ JobStarts(t, a) \/ JobCancelled(t, a) \/ Wakes(t, a)
    \/ PreloadSucceeds(t, a) \/ PreloadFallsBack(t, a) \/ PreloadFails(t, a)
    \/ FallbackSucceeds(t, a) \/ FallbackFails(t, a)

-----------------------------------------------------------------------------
(* load. *)

LoadSucceeds(t) ==
    /\ pc[t] = "loading" /\ Done(t) /\ ~Failed(t) /\ plan[mine[t]].of \in Trusted
    /\ plan' = [plan EXCEPT ![mine[t]] = [@ EXCEPT !.ready = TRUE,
           !.uses = {job[t][a].as : a \in AssetsOf[plan[mine[t]].of]}]]
    /\ older' = Touched(mine[t])
    /\ job' = [job EXCEPT ![t] = [a \in Primary |-> NoJob]]
    /\ Goto(t, "waiting")
    /\ UNCHANGED <<entries, assets, asset, loaded, mine, cancelled, todo, unloading>>

LoadUndoes(t) ==                        \* preload gives up what it loaded
    /\ pc[t] = "loading" /\ Done(t) /\ (Failed(t) \/ plan[mine[t]].of \notin Trusted)
    /\ todo' = [todo EXCEPT ![t] = <<Once({a.key : a \in {b \in Primary : job[t][b].pc = "done"}})>>]
    /\ job' = [job EXCEPT ![t] = [a \in Primary |-> NoJob]]
    /\ Goto(t, "undo")
    /\ UNCHANGED <<tables, mine, cancelled, unloading>>

NotClosed(i) == [plan[i] EXCEPT !.err = TRUE]   \* seeded bug of ClosedWithError
ClosedWithError(i) == [plan[i] EXCEPT !.err = TRUE, !.ready = TRUE]

LoadFails(t) ==
    /\ pc[t] = "undo" /\ todo[t] = <<>> /\ unloading[t] = {}
    /\ plan' = [plan EXCEPT ![mine[t]] = ClosedWithError(mine[t])]
    /\ entries' = [entries EXCEPT ![plan[mine[t]].of] = None]
    /\ Goto(t, "waiting")
    /\ UNCHANGED <<older, assets, asset, loaded, locals>>

-----------------------------------------------------------------------------
(* Release, InvalidateCatalog and releaseAssets. *)

KeysOf(i) == {a.key : a \in AssetsOf[plan[i].of]}

(* The table without the entries out, whose assets t gives up in sequence.  *)
Evict(t, after, used, out, sequence) ==
    /\ entries' = [p \in Plan |-> IF entries[p] \in out THEN None ELSE entries[p]]
    /\ older' = {pair \in used : pair[1] \notin out /\ pair[2] \notin out}
    /\ todo' = [todo EXCEPT ![t] = [n \in 1..Cardinality(out) |-> Once(KeysOf(sequence[n]))]]
    /\ plan' = Kept(after, LivePlans')

(* Members of S used before i, and S with the oldest first. *)
Before(S, used, i) == {j \in S : <<j, i>> \in used}
OldestFirst(S, used) ==
    [n \in 1..Cardinality(S) |-> CHOOSE i \in S : Cardinality(Before(S, used, i)) = n - 1]

Release(t) ==
    LET i == entries[plan[mine[t]].of]
        after == [plan EXCEPT ![i].refs = Less(@)]
        used == Touched(i)
        idle == {e \in {entries[p] : p \in Plan} \ {None} : after[e].refs = 0}
        evicted == {e \in idle : Cardinality({f \in idle : e \in Before(idle, used, f)}) >= MaxIdle}
    IN
    /\ pc[t] = "leased"
    /\ mine' = [mine EXCEPT ![t] = None] /\ cancelled' = [cancelled EXCEPT ![t] = FALSE]
    /\ Goto(t, "releasing")
    /\ IF i = None
       THEN UNCHANGED <<entries, older, todo>> /\ plan' = Kept(plan, LivePlans')
       ELSE Evict(t, after, used, evicted, OldestFirst(evicted, used))
    /\ UNCHANGED <<assets, asset, loaded, job, unloading>>

EntriesOf(c) == {entries[p] : p \in {q \in Plan : CatalogOf[q] = c}} \ {None}

InvalidateCatalog(t, c) ==
    /\ pc[t] = "idle" /\ EntriesOf(c) # {}
    /\ \A i \in EntriesOf(c) : plan[i].ready /\ plan[i].refs = 0
    /\ UNCHANGED <<assets, asset, loaded, mine, cancelled, job, unloading>>
    /\ \E sequence \in [1..Cardinality(EntriesOf(c)) -> EntriesOf(c)] :
          /\ \A i \in EntriesOf(c) : \E n \in DOMAIN sequence : sequence[n] = i
          /\ Evict(t, plan, older, EntriesOf(c), sequence)
    /\ Goto(t, "releasing")

AliasesOf(keys) ==
    [k \in Key |-> Cardinality({d \in keys : asset[assets[d]].alias = k})]

ReleaseAssets(t) ==
    LET count == Head(todo[t])
        held == {k \in Key : count[k] > 0 /\ assets[k] # None}
        dropped == {k \in held : asset[assets[k]].refs <= count[k]}
        aliases == AliasesOf(dropped)
    IN
    /\ pc[t] \in {"undo", "releasing"} /\ unloading[t] = {} /\ todo[t] # <<>>
    /\ UNCHANGED <<entries, plan, older, loaded, pc, mine, cancelled, job>>
    /\ assets' = [k \in Key |-> IF k \in dropped THEN None ELSE assets[k]]
    /\ asset' = Kept([i \in DOMAIN asset |->
           IF \E k \in held \ dropped : assets[k] = i
           THEN [asset[i] EXCEPT !.refs = @ - count[asset[i].of.key]] ELSE asset[i]], LiveAssets')
    /\ unloading' = [unloading EXCEPT ![t] = {asset[assets[k]].as :
           k \in {d \in dropped : asset[assets[d]].alias = None}} \ {None}]
    /\ todo' = [todo EXCEPT ![t] =
           (IF \E k \in Key : aliases[k] > 0 THEN <<aliases>> ELSE <<>>) \o Tail(@)]

Unload(t) ==
    /\ \E k \in unloading[t] :
          /\ loaded' = loaded \ {k}
          /\ unloading' = [unloading EXCEPT ![t] = @ \ {k}]
    /\ UNCHANGED <<entries, plan, older, assets, asset, pc, mine, cancelled, job, todo>>

ReleaseReturns(t) ==
    /\ pc[t] = "releasing" /\ todo[t] = <<>> /\ unloading[t] = {}
    /\ Goto(t, "idle")
    /\ UNCHANGED <<tables, locals>>

Work(t) ==
    \/ AcquireReturns(t) \/ AcquireCancelled(t)
    \/ \E a \in Primary : JobStep(t, a)
    \/ LoadSucceeds(t) \/ LoadUndoes(t) \/ LoadFails(t)
    \/ ReleaseAssets(t) \/ Unload(t) \/ ReleaseReturns(t)

Next ==
    \E t \in Thread :
        \/ \E p \in Plan : AcquireCreates(t, p) \/ AcquireShares(t, p)
        \/ Cancel(t) \/ Release(t)
        \/ \E c \in Catalog : InvalidateCatalog(t, c)
        \/ Work(t)

Spec == Init /\ [][Next]_vars

(* The loader's calls return and goroutines run; nobody has to give up a    *)
(* lease or to cancel.                                                      *)
FairSpec == Spec /\ \A t \in Thread : WF_vars(Work(t))

-----------------------------------------------------------------------------
(* An entry is counted for every goroutine that waits for it or leases it,  *)
(* and stays in the table, and loaded, until the last of them lets go: a    *)
(* reservation is made before the mutex is given up (Acquire, lines         *)
(* 133-135), so that no eviction and no failed neighbour takes it away.     *)
LeaseIsBacked ==
    /\ \A p \in Plan : entries[p] # None =>
          plan[entries[p]].refs = Cardinality({t \in Thread : mine[t] = entries[p]})
    /\ \A t \in Thread : pc[t] = "leased" =>
          entries[plan[mine[t]].of] = mine[t] /\ ~plan[mine[t]].err

(* No plan in use is evicted, closed or counted wrongly.                    *)
PlansAreSound == TypeOK /\ LeaseIsBacked

(* Every Acquire returns, with a lease or an error: jobs that wait for each *)
(* other's assets, for a token or for the plan of another goroutine never   *)
(* wait in a circle, and a failed load wakes them all.                      *)
AcquireEnds ==
    \A t \in Thread :
        pc[t] \in {"loading", "undo", "waiting"} ~> pc[t] \in {"leased", "idle"}
=============================================================================
