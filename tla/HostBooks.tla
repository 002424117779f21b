----------------------------- MODULE HostBooks ------------------------------
(***************************************************************************)
(* The two books of the reference host that a program writes: persistent   *)
(* states with resources, and owned entities.  They share the lock of the  *)
(* host, so that their operations do not overlap, but no state.            *)
(***************************************************************************)
EXTENDS HostStates, OwnedEntities

books == <<ledger, owned>>

BooksInit == LedgerInit /\ OwnedInit
BooksNext == \/ LedgerNext /\ UNCHANGED owned
             \/ OwnedNext /\ UNCHANGED ledger
BooksSpec == BooksInit /\ [][BooksNext]_books

(* No sequence of legal calls takes a state, a resource or the number of   *)
(* owned entities out of its bounds (memory_host_state.go:60,              *)
(* memory_host.go:295, memory_host_owned_entity.go:200).                   *)
BooksAreBounded == StatesAreBounded /\ NothingIsOverdrawn /\ WithinCapacities
=============================================================================
