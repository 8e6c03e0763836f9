------------------------------ MODULE Timebox ------------------------------
(***************************************************************************)
(* Time-locked signatures of the host server (server/timebox.go).          *)
(*                                                                         *)
(* A member of a pair posts a signature; it is kept under its public key,  *)
(* and members of the pair may read it once timeboxDelay has passed since  *)
(* it was posted.  Nothing is locked: a post parses (and takes its time),  *)
(* loads the pair, validates and writes; a get reads the entry, then loads *)
(* the pair, then answers.  Pairs come and go meanwhile.                   *)
(***************************************************************************)
EXTENDS Clock, Host, Validation

CONSTANTS
  Pairs,         \* pair ids
  Members(_),    \* the two users a pair id is made of (pairID)
  Posts,         \* what users post: [pair, pub, hash, sig]
  Deletable,     \* pairs that may be deleted
  timeboxDelay,
  NoEntry, NoCall, NoReply

timeboxEntry == [pair : Pairs, pub : Pubs, hash : Hashes, sig : Sigs,
                 createdAt : 0 .. Horizon]

ASSUME TimeboxAssumption ==
  /\ timeboxDelay \in Nat
  /\ Horizon \in Nat
  /\ \A p \in Pairs : Members(p) # {}
  /\ Posts \subseteq [pair : Pairs, pub : Pubs, hash : Hashes, sig : Sigs]
  /\ Deletable \subseteq Pairs
  /\ NoEntry \notin timeboxEntry

VARIABLES
  box,       \* storage: the entry under each public key
  pairs,     \* storage: the pairs that exist
  stage,     \* where each handler is
  call,      \* what a handler is serving
  stored,    \* history: entries written, each confirmed with available_at
  deleted,   \* history: pairs that were ever deleted
  reply      \* history: the last answer of timeboxGet about an entry

timeboxVars == <<box, pairs, now, stage, call, stored, deleted, reply>>

(* A call in progress; due holds what was stored before a get began. *)
Call == [user : Users, pub : Pubs, hash : Hashes, entry : timeboxEntry,
         due : SUBSET timeboxEntry]

Reply == [to : Users, pub : Pubs, hash : Hashes, entry : timeboxEntry,
          due : SUBSET timeboxEntry, at : 0 .. Horizon,
          outcome : {"forbidden", "invalid", "wait", "signature"}]

TimeboxTypeOK ==
  /\ box \in [Pubs -> timeboxEntry \cup {NoEntry}]
  /\ pairs \subseteq Pairs
  /\ now \in 0 .. Horizon
  /\ stage \in [Handlers -> {"idle", "parsed", "authorized", "read"}]
  /\ call \in [Handlers -> Call \cup {NoCall}]
  /\ stored \subseteq timeboxEntry
  /\ deleted \subseteq Pairs
  /\ reply \in Reply \cup {NoReply}

TimeboxInit ==
  /\ box = [k \in Pubs |-> NoEntry]
  /\ pairs = Pairs
  /\ now = 0
  /\ stage = [h \in Handlers |-> "idle"]
  /\ call = [h \in Handlers |-> NoCall]
  /\ stored = {}
  /\ deleted = {}
  /\ reply = NoReply

(* Mutant of authorizeTimeboxAccess: the caller is not looked up. *)
authorizeTimeboxAccess_AnyCaller(u, p) == p \in pairs

(* authorizeTimeboxAccess: the pair exists and has the caller as member.   *)
(* Whether it was accepted is not looked at.                               *)
authorizeTimeboxAccess(u, p) == p \in pairs /\ u \in Members(p)

EndCall(h) ==
  /\ stage' = [stage EXCEPT ![h] = "idle"]
  /\ call' = [call EXCEPT ![h] = NoCall]

-----------------------------------------------------------------------------
(* timeboxPost. *)

(* A well-formed post is parsed; CreatedAt is taken now. *)
parseTimeboxPost(h) ==
  /\ stage[h] = "idle"
  /\ \E u \in Users, p \in Posts :
       call' = [call EXCEPT ![h] =
         [user |-> u, pub |-> p.pub, hash |-> p.hash, due |-> {},
          entry |-> [pair |-> p.pair, pub |-> p.pub, hash |-> p.hash,
                     sig |-> p.sig, createdAt |-> now]]]
  /\ stage' = [stage EXCEPT ![h] = "parsed"]
  /\ UNCHANGED <<box, pairs, now, stored, deleted, reply>>

(* The pair is loaded, the caller and the signature are checked. *)
Authorize(h) ==
  LET e == call[h].entry IN
  /\ stage[h] = "parsed"
  /\ IF /\ authorizeTimeboxAccess(call[h].user, e.pair)
        /\ Validate(e.pub, e.hash, e.sig) = "valid"
       THEN stage' = [stage EXCEPT ![h] = "authorized"] /\ UNCHANGED call
       ELSE EndCall(h)
  /\ UNCHANGED <<box, pairs, now, stored, deleted, reply>>

(* putTimebox replaces whatever the key held; available_at is answered. *)
putTimebox(h) ==
  LET e == call[h].entry IN
  /\ stage[h] = "authorized"
  /\ box' = [box EXCEPT ![e.pub] = e]
  /\ stored' = stored \cup {e}
  /\ EndCall(h)
  /\ UNCHANGED <<pairs, now, deleted, reply>>

(* A storage error, of either handler: 500 and nothing is written. *)
StorageFails(h) ==
  /\ stage[h] # "idle"
  /\ EndCall(h)
  /\ UNCHANGED <<box, pairs, now, stored, deleted, reply>>

-----------------------------------------------------------------------------
(* timeboxGet. *)

(* getTimebox.  Without an entry the answer is has_signature: false. *)
getTimebox(h) ==
  /\ stage[h] = "idle"
  /\ \E u \in Users, k \in Pubs, x \in Hashes :
       /\ box[k] # NoEntry
       /\ call' = [call EXCEPT ![h] =
            [user |-> u, pub |-> k, hash |-> x, entry |-> box[k],
             due |-> {e \in stored : e.pub = k}]]
  /\ stage' = [stage EXCEPT ![h] = "read"]
  /\ UNCHANGED <<box, pairs, now, stored, deleted, reply>>

(* Mutant of Outcome: ready is tested with the wrong inequality. *)
Outcome_Strict(u, x, e) ==
  IF ~ authorizeTimeboxAccess(u, e.pair) THEN "forbidden"
  ELSE IF Validate(e.pub, x, e.sig) # "valid" THEN "invalid"
  ELSE IF now <= e.createdAt + timeboxDelay THEN "wait" ELSE "signature"

(* What a get by user u for hash x makes of the entry e it has read. *)
Outcome(u, x, e) ==
  IF ~ authorizeTimeboxAccess(u, e.pair) THEN "forbidden"
  ELSE IF Validate(e.pub, x, e.sig) # "valid" THEN "invalid"
  ELSE IF now < e.createdAt + timeboxDelay THEN "wait" ELSE "signature"

timeboxGet(h) ==
  LET c == call[h] IN
  /\ stage[h] = "read"
  /\ reply' = [to |-> c.user, pub |-> c.pub, hash |-> c.hash,
               entry |-> c.entry, due |-> c.due, at |-> now,
               outcome |-> Outcome(c.user, c.hash, c.entry)]
  /\ EndCall(h)
  /\ UNCHANGED <<box, pairs, now, stored, deleted>>

-----------------------------------------------------------------------------
(* pairDelete and pairCreate of server/pairing.go, as far as seen here. *)
Unpair(p) ==
  /\ p \in pairs \cap Deletable
  /\ pairs' = pairs \ {p}
  /\ deleted' = deleted \cup {p}
  /\ UNCHANGED <<box, now, stage, call, stored, reply>>

Repair(p) ==
  /\ p \notin pairs
  /\ pairs' = pairs \cup {p}
  /\ UNCHANGED <<box, now, stage, call, stored, deleted, reply>>

TimeboxTick ==
  /\ now < Horizon
  /\ now' = now + 1
  /\ UNCHANGED <<box, pairs, stage, call, stored, deleted, reply>>

(* The server stops and starts again. *)
TimeboxCrash ==
  /\ \E h \in Handlers : stage[h] # "idle"
  /\ stage' = [h \in Handlers |-> "idle"]
  /\ call' = [h \in Handlers |-> NoCall]
  /\ UNCHANGED <<box, pairs, now, stored, deleted, reply>>

TimeboxNext ==
  \/ \E h \in Handlers :
       \/ parseTimeboxPost(h) \/ Authorize(h) \/ putTimebox(h)
       \/ getTimebox(h) \/ timeboxGet(h) \/ StorageFails(h)
  \/ \E p \in Pairs : Unpair(p) \/ Repair(p)
  \/ TimeboxTick
  \/ TimeboxCrash

TimeboxSpec == TimeboxInit /\ [][TimeboxNext]_timeboxVars

-----------------------------------------------------------------------------
(* The state is well formed, and a signature is handed out only to a       *)
(* member of its pair, only for a hash it verifies for, and never before   *)
(* the delay has passed since a post of that very signature (timeboxPost   *)
(* against timeboxGet).                                                    *)
ReleasesLate ==
  /\ TimeboxTypeOK
  /\ reply # NoReply /\ reply.outcome = "signature" =>
       /\ reply.entry \in stored
       /\ reply.to \in Members(reply.entry.pair)
       /\ Validate(reply.pub, reply.hash, reply.entry.sig) = "valid"
       /\ reply.at >= reply.entry.createdAt + timeboxDelay

(* The reader e was meant for asks for its hash after available_at. *)
Due(e) ==
  /\ e \in reply.due
  /\ reply.to \in Members(e.pair)
  /\ reply.hash = e.hash
  /\ reply.at >= e.createdAt + timeboxDelay

(* Once available_at has come, a member who asks is given the signature,   *)
(* unless the pair was deleted at some time or another post took the key   *)
(* (putTimebox against timeboxGet).                                        *)
PromisesKept ==
  reply # NoReply => \A e \in stored :
     Due(e) => \/ reply.outcome = "signature"
               \/ e.pair \in deleted
               \/ reply.entry # e /\ reply.entry \in stored

=============================================================================
