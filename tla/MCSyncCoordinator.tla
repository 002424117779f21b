------------------------- MODULE MCSyncCoordinator -------------------------
(***************************************************************************)
(* One observer, six scenarios with goroutines, failures and bounds of     *)
(* their own; "scenario" says which of them a behavior is about.           *)
(* Flush: two goroutines flush one view; one also acknowledges, the other  *)
(* resynchronises, recovers; the process may crash.                        *)
(* Scan: one goroutine flushes past a record that the observer may not see *)
(* and resynchronises; packets fail, records are trimmed, the process dies.*)
(* Repair: what writes to Outbox and History without the lock of the view, *)
(* or for all views, beside a flush.                                       *)
(* Life: two goroutines flush and acknowledge two views while a third      *)
(* closes the observer and opens it again.                                 *)
(* View and schema: what the observer is shown, and in which version; the  *)
(* Coordinator calls both filters and neither reads anything of its.       *)
(***************************************************************************)
EXTENDS SyncCoordinator, MCViews

CONSTANTS a, b, c, o, e1, e2, e3

MCOne == {a}
MCPair == {a, b}
MCThree == {a, b, c}
MCObserver == {o}
OneKey == {1}
TwoKeys == {1, 2}
MCEntry == {e1, e2, e3}

StateOnly == <<"state">>
BothTopics == <<"state", "presentation">>

NoRoles == [t \in Thread |-> {}]
FlushRoles == [t \in MCPair |->
    IF t = a THEN {"flush", "ack"} ELSE {"flush", "snapshot", "recover"}]
ScanRoles == [t \in MCOne |-> {"flush", "snapshot"}]
RepairRoles == [t \in MCPair |->
    IF t = a THEN {"flush", "ack"} ELSE {"reconcile", "close", "open"}]
LifeRoles == [t \in MCThree |->
    IF t = c THEN {"close", "open"} ELSE {"flush", "ack"}]
FenceRoles == [t \in Thread |-> IF t = a THEN {"flush"} ELSE {"snapshot", "close"}]

HideSecond == {2}

-----------------------------------------------------------------------------
VARIABLE scenario

Flush == INSTANCE SyncCoordinator WITH
    Thread <- MCPair, Role <- FlushRoles, Topics <- StateOnly, MaxPackets <- 1,
    Faults <- {"visibility", "append", "put"}, MaxSource <- 1
Scan == INSTANCE SyncCoordinator WITH
    Thread <- MCOne, Role <- ScanRoles, Topics <- StateOnly, Faults <- {"put"}
Mend == INSTANCE SyncCoordinator WITH
    Thread <- MCPair, Role <- RepairRoles,
    Faults <- {"put", "drop", "ack"}, MaxSource <- 1
Life == INSTANCE SyncCoordinator WITH
    Role <- LifeRoles, MaxPackets <- 1,
    Faults <- {"drop", "reconcile", "delete"}, MaxSource <- 0, MaxLatest <- 1

observer == <<job, registry>>
OneView == \A v \in View : v[2] # 1 => table'[v] = None

MCInit == /\ scenario \in {"flush", "scan", "repair", "life", "view", "schema"}
          /\ Init /\ job = NoJob /\ registry = Unregistered
MCNext == /\ \/ scenario = "flush" /\ Flush!Next /\ OneView /\ UNCHANGED observer
             \/ scenario = "scan" /\ Scan!Next /\ OneView /\ UNCHANGED observer
             \/ scenario \in {"flush", "scan"} /\ Crash /\ UNCHANGED observer
             \/ scenario = "repair" /\ Mend!Next /\ OneView /\ UNCHANGED observer
             \/ scenario = "life" /\ Life!Next /\ UNCHANGED observer
             \/ scenario = "view" /\ JobNext /\ UNCHANGED <<vars, registry>>
             \/ scenario = "schema" /\ RegistryNext /\ UNCHANGED <<vars, job>>
             \/ scenario = "schema" /\ registry.sealed /\ UNCHANGED <<vars, observer>>
          /\ UNCHANGED scenario

(* A started operation runs, and a mutex that is free again and again is    *)
(* given to each goroutine that waits for it (sync.Mutex does not starve).  *)
MCSpec ==
    /\ MCInit /\ [][MCNext]_<<vars, observer, scenario>>
    /\ \A t \in Thread : /\ WF_vars(scenario = "life" /\ Life!Work(t))
                          /\ SF_vars(scenario = "life" /\ Life!Lock(t))

(* A flush beside snapshots and the end of the observer. *)
FenceSpec == /\ scenario = "flush" /\ Init /\ job = NoJob /\ registry = Unregistered
             /\ [][Next /\ UNCHANGED <<observer, scenario>>]_<<vars, observer, scenario>>

-----------------------------------------------------------------------------
(* Every operation ends: nobody waits for ever for the lock of a view, not  *)
(* even CloseObserver, which needs several at a time.                       *)
EveryOperationEnds ==
    \A t \in Thread : (scenario = "life" /\ pc[t] # "idle") ~> (scenario = "life" => pc[t] = "idle")
=============================================================================
