----------------------------- MODULE MCJournal -----------------------------
EXTENDS Journal

CONSTANTS gun, song

Both == {gun, song}

Rules == [p \in {gun, song} |->
    IF p = gun
    THEN [mode |-> "ammo", commit |-> 1, cooldown |-> 1, hold |-> 0, maxStock |-> 2, recharge |-> 2, writes |-> FALSE]
    ELSE [mode |-> "hold", commit |-> 0, cooldown |-> 2, hold |-> 2, maxStock |-> 0, recharge |-> 0, writes |-> TRUE]]

Rule == [p \in Program |-> Rules[p]]
Operations == {<<"add", -1>>}
Registrations == {<<2, 1>>}
Bounds == [min |-> 0, max |-> 2, step |-> 2]

=============================================================================
