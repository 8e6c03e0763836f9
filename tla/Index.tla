------------------------------- MODULE Index -------------------------------
(***************************************************************************)
(* Requests that keep records and index lists of them in the storage of    *)
(* the host server: the part Pairing and Mailbox have in common.           *)
(*                                                                         *)
(* A request decides on what it has loaded and then carries out several    *)
(* storage operations without any lock; plan holds the ones left.  Any of  *)
(* them may fail, and the server may stop between them.                    *)
(*                                                                         *)
(* addToIndex (server/pairing.go) and removeFromIndex (server/mailbox.go)  *)
(* both read the list and, in a storage operation of its own, write it     *)
(* back.  stored is the list when it is written, read the list as it was   *)
(* read; an absent list is empty.  The order of a list is not modelled.    *)
(***************************************************************************)
EXTENDS Sequences

CONSTANTS
  Users,
  Handlers,
  Faults,     \* whether storage operations fail and the server restarts
  Nil         \* no record

ASSUME FaultsAssumption == Faults \in BOOLEAN

VARIABLES
  plan,       \* the storage operations a handler has left
  loc,        \* the record a handler has in memory
  ids,        \* the index list a handler has read
  overlapped  \* history: whether a request ever began during another

RequestsInit ==
  /\ plan = [h \in Handlers |-> <<>>]
  /\ loc = [h \in Handlers |-> Nil]
  /\ ids = [h \in Handlers |-> {}]
  /\ overlapped = FALSE

Idle(h) == plan[h] = <<>>

(* Handler h takes a request. *)
Begin(h) ==
  /\ Idle(h)
  /\ overlapped' = (overlapped \/ \E g \in Handlers : ~ Idle(g))

(* Handler h carries out the next operation of its plan. *)
Do(h, step) ==
  /\ ~ Idle(h)
  /\ Head(plan[h]) = step
  /\ plan' = [plan EXCEPT ![h] = Tail(@)]
  /\ loc' = IF Tail(plan[h]) = <<>> THEN [loc EXCEPT ![h] = Nil] ELSE loc

(* A storage operation fails, or the server restarts: what a request was   *)
(* still to do is not done.                                                *)
Abandon(hs) ==
  /\ Faults
  /\ \E h \in hs : ~ Idle(h)
  /\ plan' = [h \in Handlers |-> IF h \in hs THEN <<>> ELSE plan[h]]
  /\ loc' = [h \in Handlers |-> IF h \in hs THEN Nil ELSE loc[h]]
  /\ ids' = [h \in Handlers |-> IF h \in hs THEN {} ELSE ids[h]]

-----------------------------------------------------------------------------
(* Mutant of addToIndex: the list read is not carried over. *)
addToIndex_Fresh(stored, read, id) == {id}

(* A list that has the id is not written. *)
addToIndex(stored, read, id) ==
  IF id \in read THEN stored ELSE read \cup {id}

(* An absent list is not written; any other is, even without the id. *)
removeFromIndex(stored, read, id) ==
  IF read = {} THEN stored ELSE read \ {id}

=============================================================================
