------------------------------- MODULE Escrow -------------------------------
(***************************************************************************)
(* The escrow of the host server (server/escrow.go).                       *)
(*                                                                         *)
(* Two parties of a swap each deposit, under a common escrow id, a flower: *)
(* the key and hash of the withdrawal they want, and the signature they    *)
(* give to the other side.  The server pollinates crosswise: it releases   *)
(* to each party the other party's signature once both signatures verify   *)
(* for the key and hash of the opposite flower.                            *)
(*                                                                         *)
(* A deposit handler runs under escrowMu: it reads the stored pollination, *)
(* adds its flower, writes the pollination back, and only then validates   *)
(* and answers.  Reads and writes of the storage are separate steps, any   *)
(* of them may fail, and the server may stop between any two of them.      *)
(* escrowCheck takes no lock and reads the storage once.                   *)
(***************************************************************************)
EXTENDS Host, Validation

CONSTANTS
  Nobody,         \* the empty Depositor of flowers stored by old versions
  Ids,            \* escrow ids
  Requests,       \* deposits the users may post
  LegacyFlowers,  \* flowers without a depositor found in the storage
  NoFlower, NoRequest, Free

Flower == [pub : Pubs, hash : Hashes, sig : AnySig,
           depositor : Users \cup {Nobody}]

Request == [id : Ids, pub : Pubs, hash : Hashes, sig : AnySig,
            depositor : Users]

Slots == {"flower1", "flower2"}

ASSUME EscrowAssumption ==
  /\ Nobody \notin Users
  /\ Requests \subseteq Request
  /\ LegacyFlowers \subseteq {f \in Flower : f.depositor = Nobody}
  /\ NoFlower \notin Flower
  /\ NoRequest \notin Request
  /\ Free \notin Handlers

VARIABLES
  store,      \* storage: the pollination under each escrow id
  escrowMu,   \* the handler holding the mutex, or Free
  pc,         \* where each handler is
  req,        \* the request a handler is serving
  loc,        \* the pollination a handler has in memory
  deposits,   \* history: requests whose flower was written to the storage
  released    \* history: the "complete" answers given

vars == <<store, escrowMu, pc, req, loc, deposits, released>>

Pollination == [Slots -> Flower \cup {NoFlower}]

(* getPollination returns nil for an unknown id; every operation treats    *)
(* nil as a pollination with two free slots.                               *)
newPollination == [s \in Slots |-> NoFlower]

Answer == [to : Users, id : Ids, pub : Pubs, hash : Hashes \cup {NoRequest},
           own : AnySig, sig : AnySig]

TypeOK ==
  /\ store \in [Ids -> Pollination]
  /\ escrowMu \in Handlers \cup {Free}
  /\ pc \in [Handlers -> {"idle", "lock", "loaded", "stored"}]
  /\ req \in [Handlers -> Requests \cup {NoRequest}]
  /\ loc \in [Handlers -> Pollination]
  /\ deposits \subseteq Requests
  /\ released \subseteq Answer

Init ==
  /\ store \in [Ids -> {newPollination} \cup
                       {[newPollination EXCEPT !["flower1"] = f] :
                           f \in LegacyFlowers}]
  /\ escrowMu = Free
  /\ pc = [h \in Handlers |-> "idle"]
  /\ req = [h \in Handlers |-> NoRequest]
  /\ loc = [h \in Handlers |-> newPollination]
  /\ deposits = {}
  /\ released = {}

-----------------------------------------------------------------------------
(* Pollination: adding a flower and validating crosswise.                  *)

FlowerOf(r) == [pub |-> r.pub, hash |-> r.hash, sig |-> r.sig,
                depositor |-> r.depositor]

Holds(p, s, pub) == p[s] # NoFlower /\ p[s].pub = pub

(* Mutant of MayReplace: the deposited signature is not protected. *)
MayReplace_AnySig(p, s, f) == p[s].depositor \in {Nobody, f.depositor}

(* Slot s already has this key: only its depositor may post again, and a   *)
(* deposited signature may not change.  The whole flower is replaced.      *)
MayReplace(p, s, f) ==
  /\ p[s].depositor \in {Nobody, f.depositor}
  /\ p[s].sig \in {NoSig, f.sig}

(* Mutant of MayOccupy: the depositor of the first slot is not compared. *)
MayOccupy_AnyDepositor(p, f) ==
  p["flower1"] # NoFlower => p["flower2"] = NoFlower

(* A new key needs a free slot, and its depositor must not hold the first. *)
MayOccupy(p, f) ==
  /\ p["flower1"] # NoFlower =>
        /\ p["flower2"] = NoFlower
        /\ p["flower1"].depositor = Nobody \/ p["flower1"].depositor # f.depositor

(* The slot f goes to.  Keys are looked up in slot order.                  *)
SlotFor(p, f) ==
  IF Holds(p, "flower1", f.pub) THEN "flower1"
  ELSE IF Holds(p, "flower2", f.pub) THEN "flower2"
  ELSE IF p["flower1"] = NoFlower THEN "flower1" ELSE "flower2"

Accepts(p, f) ==
  IF Holds(p, SlotFor(p, f), f.pub)
    THEN MayReplace(p, SlotFor(p, f), f)
    ELSE MayOccupy(p, f)

addFlower(p, f) == [p EXCEPT ![SlotFor(p, f)] = f]

Full(p) == \A s \in Slots : p[s] # NoFlower

(* Mutant of pollinate: only the first flower is validated. *)
pollinate_OneSided(p) ==
  IF ~ Full(p) THEN "invalid"
  ELSE Validate(p["flower1"].pub, p["flower1"].hash, p["flower2"].sig)

(* The verdict of pollinate: both signatures must verify, each under the   *)
(* key and hash of the other flower; a validation error is not a refusal.  *)
pollinate(p) ==
  IF ~ Full(p) THEN "invalid"
  ELSE LET v1 == Validate(p["flower1"].pub, p["flower1"].hash, p["flower2"].sig)
           v2 == Validate(p["flower2"].pub, p["flower2"].hash, p["flower1"].sig)
       IN  IF "error" \in {v1, v2} THEN "error"
           ELSE IF v1 = "valid" /\ v2 = "valid" THEN "valid" ELSE "invalid"

(* The "complete" answer to user u about key pub of pollination p.  A key  *)
(* in neither slot gets an answer without a signature.                     *)
complete(u, id, p, pub) ==
  LET answer(mine, theirs) ==
        [to |-> u, id |-> id, pub |-> pub, hash |-> p[mine].hash,
         own |-> p[mine].sig, sig |-> p[theirs].sig]
  IN  IF p["flower1"].pub = pub THEN answer("flower1", "flower2")
      ELSE IF p["flower2"].pub = pub THEN answer("flower2", "flower1")
      ELSE [to |-> u, id |-> id, pub |-> pub, hash |-> NoRequest,
            own |-> NoSig, sig |-> NoSig]

-----------------------------------------------------------------------------
(* The deposit handler.                                                    *)

(* A request arrives, is parsed, and waits for the mutex. *)
Post(h) ==
  /\ pc[h] = "idle"
  /\ \E r \in Requests : req' = [req EXCEPT ![h] = r]
  /\ pc' = [pc EXCEPT ![h] = "lock"]
  /\ UNCHANGED <<store, escrowMu, loc, deposits, released>>

(* The answer is sent and the deferred Unlock runs. *)
Finish(h) ==
  /\ pc' = [pc EXCEPT ![h] = "idle"]
  /\ req' = [req EXCEPT ![h] = NoRequest]
  /\ loc' = [loc EXCEPT ![h] = newPollination]
  /\ escrowMu' = Free

(* Mutant of LockAndGet: the mutex is not waited for. *)
LockAndGet_Unlocked(h) ==
  /\ pc[h] = "lock"
  /\ escrowMu' = h
  /\ loc' = [loc EXCEPT ![h] = store[req[h].id]]
  /\ pc' = [pc EXCEPT ![h] = "loaded"]
  /\ UNCHANGED <<store, req, deposits, released>>

(* escrowMu.Lock and getPollination. *)
LockAndGet(h) ==
  /\ pc[h] = "lock"
  /\ escrowMu = Free
  /\ escrowMu' = h
  /\ loc' = [loc EXCEPT ![h] = store[req[h].id]]
  /\ pc' = [pc EXCEPT ![h] = "loaded"]
  /\ UNCHANGED <<store, req, deposits, released>>

(* escrowMu.Lock, and the storage cannot be read: 500. *)
GetFails(h) ==
  /\ pc[h] = "lock"
  /\ escrowMu = Free
  /\ Finish(h)
  /\ UNCHANGED <<store, deposits, released>>

(* Mutant of Conflict: the early return does not unlock. *)
Conflict_KeepsLock(h) ==
  /\ pc[h] = "loaded"
  /\ ~ Accepts(loc[h], FlowerOf(req[h]))
  /\ pc' = [pc EXCEPT ![h] = "idle"]
  /\ UNCHANGED <<store, escrowMu, req, loc, deposits, released>>

(* addFlower refuses: 409. *)
Conflict(h) ==
  /\ pc[h] = "loaded"
  /\ ~ Accepts(loc[h], FlowerOf(req[h]))
  /\ Finish(h)
  /\ UNCHANGED <<store, deposits, released>>

(* addFlower and putPollination. *)
Put(h) ==
  LET p == addFlower(loc[h], FlowerOf(req[h])) IN
  /\ pc[h] = "loaded"
  /\ Accepts(loc[h], FlowerOf(req[h]))
  /\ store' = [store EXCEPT ![req[h].id] = p]
  /\ loc' = [loc EXCEPT ![h] = p]
  /\ pc' = [pc EXCEPT ![h] = "stored"]
  /\ deposits' = deposits \cup {req[h]}
  /\ UNCHANGED <<escrowMu, req, released>>

(* The storage cannot be written: 500, and the new pollination is lost. *)
PutFails(h) ==
  /\ pc[h] = "loaded"
  /\ Accepts(loc[h], FlowerOf(req[h]))
  /\ Finish(h)
  /\ UNCHANGED <<store, deposits, released>>

(* Mutant of Respond: two flowers are enough for a release. *)
Respond_Unvalidated(h) ==
  /\ pc[h] = "stored"
  /\ released' = IF Full(loc[h])
                   THEN released \cup {complete(req[h].depositor, req[h].id,
                                                loc[h], req[h].pub)}
                   ELSE released
  /\ Finish(h)
  /\ UNCHANGED <<store, deposits>>

(* pollinate and answer: "complete" with the other party's signature,      *)
(* "pending", or 400 when a signature cannot be validated.                 *)
Respond(h) ==
  /\ pc[h] = "stored"
  /\ released' = IF pollinate(loc[h]) = "valid"
                   THEN released \cup {complete(req[h].depositor, req[h].id,
                                                loc[h], req[h].pub)}
                   ELSE released
  /\ Finish(h)
  /\ UNCHANGED <<store, deposits>>

-----------------------------------------------------------------------------
(* Mutant of escrowCheck: the caller must be the depositor of both slots. *)
escrowCheck_AnySlot(u, id, pub) ==
  LET p == store[id] IN
  /\ Full(p)
  /\ \A s \in Slots : p[s].depositor \in {Nobody, u}
  /\ pollinate(p) = "valid"
  /\ released' = released \cup {complete(u, id, p, pub)}
  /\ UNCHANGED <<store, escrowMu, pc, req, loc, deposits>>

(* escrowCheck: user u polls for key pub.  Only the depositor of the key's *)
(* slot is answered, any user when the slot has no recorded depositor or   *)
(* when the key is in neither slot.  The other outcomes change nothing.    *)
escrowCheck(u, id, pub) ==
  LET p == store[id] IN
  /\ Full(p)
  /\ \A s \in Slots : p[s].pub = pub => p[s].depositor \in {Nobody, u}
  /\ pollinate(p) = "valid"
  /\ released' = released \cup {complete(u, id, p, pub)}
  /\ UNCHANGED <<store, escrowMu, pc, req, loc, deposits>>

(* The server stops and starts again: the storage survives. *)
Crash ==
  /\ \E h \in Handlers : pc[h] # "idle"
  /\ escrowMu' = Free
  /\ pc' = [h \in Handlers |-> "idle"]
  /\ req' = [h \in Handlers |-> NoRequest]
  /\ loc' = [h \in Handlers |-> newPollination]
  /\ UNCHANGED <<store, deposits, released>>

Next ==
  \/ \E h \in Handlers :
        \/ Post(h)
        \/ LockAndGet(h)
        \/ GetFails(h)
        \/ Conflict(h)
        \/ Put(h)
        \/ PutFails(h)
        \/ Respond(h)
  \/ \E u \in Users, id \in Ids, pub \in Pubs : escrowCheck(u, id, pub)
  \/ Crash

Spec == Init /\ [][Next]_vars

(* A goroutine that serves a request is scheduled until it answers; a Go   *)
(* mutex hands itself to a waiter that has starved, hence the strong       *)
(* fairness of locking.  A user polls escrowCheck until it is answered, as *)
(* the protocol asks.  Nobody is obliged to post, and failures and crashes *)
(* need not stop.                                                          *)
Fairness ==
  /\ \A h \in Handlers :
        /\ SF_vars(LockAndGet(h) \/ GetFails(h))
        /\ WF_vars(Conflict(h) \/ Put(h) \/ PutFails(h))
        /\ WF_vars(Respond(h))
  /\ \A u \in Users, id \in Ids, pub \in Pubs : WF_vars(escrowCheck(u, id, pub))

FairSpec == Spec /\ Fairness

-----------------------------------------------------------------------------
(* Safety properties.                                                      *)

Other(s) == IF s = "flower1" THEN "flower2" ELSE "flower1"

(* A deposit that was written with a signature stays: whatever requests    *)
(* race with it, fail, or follow a restart, the escrow keeps that          *)
(* signature and that depositor under that key (the read-modify-write      *)
(* under escrowMu in escrow, the refusals of addFlower).                   *)
DepositsKept ==
  \A r \in deposits : r.sig # NoSig =>
     \E s \in Slots : /\ Holds(store[r.id], s, r.pub)
                      /\ store[r.id][s].sig = r.sig
                      /\ store[r.id][s].depositor = r.depositor

(* Nobody gains a signature without giving one: when a user was answered   *)
(* "complete" with a signature, the escrow holds, now and for good, the    *)
(* user's own signature under the user's key and the released one in the   *)
(* opposite slot (escrow and escrowCheck against addFlower).               *)
ReleasesBacked ==
  \A a \in released : a.sig # NoSig =>
     \E s \in Slots : /\ Holds(store[a.id], s, a.pub)
                      /\ store[a.id][s].sig = a.own
                      /\ a.own # NoSig
                      /\ store[a.id][Other(s)] # NoFlower
                      /\ store[a.id][Other(s)].sig = a.sig

(* A released signature is of use to whoever receives it: it verifies for  *)
(* the key and a hash that this very user deposited, or that an old        *)
(* version of the server stored without a depositor (the crosswise check   *)
(* of pollinate, the caller check of escrowCheck).                         *)
ReleasesUsable ==
  \A a \in released : a.sig # NoSig =>
     /\ Validate(a.pub, a.hash, a.sig) = "valid"
     /\ \/ \E r \in deposits : /\ r.depositor = a.to
                               /\ r.id = a.id
                               /\ r.pub = a.pub
                               /\ r.hash = a.hash
        \/ \E f \in LegacyFlowers : f.pub = a.pub /\ f.hash = a.hash

(* The two slots of an escrow belong to different keys and to different    *)
(* users ("one depositor cannot hold both slots", addFlower).              *)
OneSlotPerDepositor ==
  \A id \in Ids : Full(store[id]) =>
     /\ store[id]["flower1"].pub # store[id]["flower2"].pub
     /\ \/ store[id]["flower1"].depositor = Nobody
        \/ store[id]["flower1"].depositor # store[id]["flower2"].depositor

(* Both or neither: once one user was answered "complete" the pollination  *)
(* stays valid, so that the other side is answered too (escrow against     *)
(* escrowCheck).                                                           *)
BothOrNeither ==
  \A a \in released : pollinate(store[a.id]) = "valid"

(* Clients that repeat a deposit repeat its hash.  BothOrNeither depends   *)
(* on this discipline of the clients: addFlower does not enforce it.       *)
SteadyRequests ==
  /\ \A q, r \in Requests : q.id = r.id /\ q.pub = r.pub => q.hash = r.hash
  /\ \A r \in Requests, f \in LegacyFlowers : r.pub = f.pub => r.hash = f.hash

-----------------------------------------------------------------------------
(* Liveness properties.                                                    *)

(* Every request is answered: no path through the deposit handler leaves   *)
(* escrowMu locked (the deferred Unlock).                                  *)
EveryRequestAnswered ==
  \A h \in Handlers : (pc[h] # "idle") ~> (pc[h] = "idle")

(* The signature of q verifies for what r asks. *)
Serves(q, r) ==
  q.id = r.id /\ q.pub # r.pub /\ Validate(r.pub, r.hash, q.sig) = "valid"

(* Two deposits that serve each other. *)
Matching ==
  {{p[1], p[2]} : p \in {r \in Requests \X Requests : Serves(r[1], r[2]) /\ Serves(r[2], r[1])}}

(* r was answered with the signature of q. *)
Honoured(q, r) ==
  \E a \in released : a.to = r.depositor /\ a.id = r.id /\ a.pub = r.pub /\ a.sig = q.sig

(* Two matching deposits are both honoured, in spite of storage failures   *)
(* and restarts: each depositor ends up with the signature of the other    *)
(* (escrow and escrowCheck together).                                      *)
SwapCompletes ==
  \A swap \in Matching :
     (swap \subseteq deposits) ~> (\A q, r \in swap : q # r => Honoured(q, r))

-----------------------------------------------------------------------------
(* Refinement: an escrow is settled when its stored pollination is valid.  *)

OfferOf(f) == [key |-> f.pub, sig |-> f.sig]

Terms == [id \in Ids |-> IF pollinate(store[id]) = "valid"
                           THEN {OfferOf(store[id][s]) : s \in Slots}
                           ELSE {}]

Collected == {<<a.id, [key |-> a.pub, sig |-> a.own]>> :
                 a \in {b \in released : b.sig # NoSig}}

Exchange == INSTANCE FairExchange WITH
  Swaps <- Ids, Offers <- [key : Pubs, sig : Sigs],
  terms <- Terms, collected <- Collected

(* The escrow implements the fair exchange: settling is one step, terms    *)
(* never change afterwards, and only parties to the terms collect.         *)
ImplementsFairExchange == Exchange!Spec

=============================================================================
