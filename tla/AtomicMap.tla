----------------------------- MODULE AtomicMap -----------------------------
(***************************************************************************)
(* What the rest of the program takes storage.Storage to be: a map from    *)
(* keys to entries on which Put, Get and Delete take effect in one step    *)
(* each.  FileStorage is shown to implement it.                            *)
(*                                                                         *)
(* An operation that fails has changed nothing, except that a Delete may   *)
(* report an error after it has deleted.  The end of the process changes   *)
(* nothing either.  A loss of power may take back, per key, whatever has   *)
(* not settled on the disk, or leave it unreadable.                        *)
(***************************************************************************)
CONSTANTS
  Keys, Values, Clients,
  Passes,             \* storage passphrases; NoPass among them: none
  NoPass,
  Absent, Torn,       \* no entry; an entry that cannot be decoded
  NoCall, NotYet      \* a client without operation; one without result

Entry == [val : Values, pass : Passes]

Operation == [op : {"put"}, key : Keys, val : Values]
             \cup [op : {"get", "delete"}, key : Keys]

VARIABLES
  kv,       \* the map
  backlog,  \* what a loss of power may leave under each key
  pass,     \* the passphrase of the running process
  call,     \* the operation of each client
  res       \* its result, from the step in which it takes effect

vars == <<kv, backlog, pass, call, res>>

Init ==
  /\ kv = [k \in Keys |-> Absent]
  /\ backlog = [k \in Keys |-> {Absent}]
  /\ pass \in Passes
  /\ call = [c \in Clients |-> NoCall]
  /\ res = [c \in Clients |-> NotYet]

(* What a Get answers: an entry sealed with another passphrase is refused, *)
(* and shown as it is by a storage without one.                            *)
Reading(e) ==
  CASE e = Absent -> "nil"
    [] e = Torn -> "error"
    [] e \in Entry -> IF e.pass = pass THEN e.val
                      ELSE IF pass = NoPass THEN "raw" ELSE "error"

Invoke(c) ==
  /\ call[c] = NoCall
  /\ \E o \in Operation : call' = [call EXCEPT ![c] = o]
  /\ UNCHANGED <<kv, backlog, pass, res>>

Pending(c) == call[c] # NoCall /\ res[c] = NotYet

(* The operation takes effect. *)
Effect(c) ==
  LET k == call[c].key
      e == [val |-> call[c].val, pass |-> pass]
  IN
  /\ Pending(c)
  /\ \/ /\ call[c].op = "put"
        /\ kv' = [kv EXCEPT ![k] = e]
        /\ backlog' = [backlog EXCEPT ![k] = @ \cup {e, Absent, Torn}]
        /\ res' = [res EXCEPT ![c] = "ok"]
     \/ /\ call[c].op = "delete"
        /\ kv' = [kv EXCEPT ![k] = Absent]
        /\ backlog' = [backlog EXCEPT ![k] = @ \cup {Absent}]
        /\ res' = [res EXCEPT ![c] = "ok"]
     \/ /\ call[c].op = "get"
        /\ res' = [res EXCEPT ![c] = Reading(kv[k])]
        /\ UNCHANGED <<kv, backlog>>
  /\ UNCHANGED <<pass, call>>

Fail(c) ==
  /\ Pending(c) \/ (call[c] # NoCall /\ call[c].op = "delete")
  /\ res' = [res EXCEPT ![c] = "error"]
  /\ UNCHANGED <<kv, backlog, pass, call>>

Return(c) ==
  /\ call[c] # NoCall
  /\ res[c] # NotYet
  /\ call' = [call EXCEPT ![c] = NoCall]
  /\ res' = [res EXCEPT ![c] = NotYet]
  /\ UNCHANGED <<kv, backlog, pass>>

(* What is under the key has reached the disk. *)
Settle(k) ==
  /\ backlog' = [backlog EXCEPT ![k] = {kv[k]}]
  /\ UNCHANGED <<kv, pass, call, res>>

Forget ==
  /\ call' = [c \in Clients |-> NoCall]
  /\ res' = [c \in Clients |-> NotYet]
  /\ pass' \in Passes

Restart == Forget /\ UNCHANGED <<kv, backlog>>

PowerLoss ==
  /\ Forget
  /\ kv' \in [Keys -> UNION {backlog[k] : k \in Keys}]
  /\ \A k \in Keys : kv'[k] \in backlog[k]
  /\ backlog' = [k \in Keys |-> {kv'[k]}]

Next ==
  \/ \E c \in Clients : Invoke(c) \/ Effect(c) \/ Fail(c) \/ Return(c)
  \/ \E k \in Keys : Settle(k)
  \/ Restart
  \/ PowerLoss

Spec == Init /\ [][Next]_vars

=============================================================================
