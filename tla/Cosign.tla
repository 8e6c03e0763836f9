------------------------------- MODULE Cosign -------------------------------
(***************************************************************************)
(* Co-signing by the two clients of one account (client/withdrawal.go and  *)
(* client/cosign_history.go).                                              *)
(*                                                                         *)
(* A send computes an incomplete signature with the stored presignature    *)
(* and passes it to the partner; an accept completes it.  Each leaves a    *)
(* goroutine behind that replaces the presignature in a protocol run with  *)
(* the partner, and each records an event in its client's history.  FROST  *)
(* needs no presignature and records nothing.                              *)
(*                                                                         *)
(* A slot holds one request and the rotation it started.  The requests of  *)
(* a client share its storage, histMu and the swaps under cosignMu; the    *)
(* clients share nothing but the relay.  Receiving a message, loading the  *)
(* presignature and using it is one step: what other steps could do in     *)
(* between they can do as well before or after.                            *)
(***************************************************************************)
EXTENDS Integers, Sequences, FiniteSets

CONSTANTS
  Clients,     \* the two clients
  Hashes,      \* transaction hashes
  Swaps,       \* escrow ids, NoSwap not among them
  NoSwap,      \* a request without an escrow id
  Requests,    \* the requests that are made
  Slots,
  MaxPresigs,  \* bound: presignatures generated
  MaxRequests, \* bound: requests made
  HistoryMax,  \* cosignHistoryMax
  MaxFaults,   \* bound: storage errors, restarts and messages lost or
               \*   delivered twice
  None

Algs == {"ecdsa", "frost"}

(* tx: the hash of the transaction the acceptor is shown as tx_data. *)
Request == [op : {"send", "accept", "complete", "broadcast"}, client : Clients, alg : Algs,
            hash : Hashes, tx : Hashes, swap : Swaps \cup {NoSwap}]

ASSUME CosignAssumption ==
  /\ IsFiniteSet(Clients) /\ Cardinality(Clients) = 2
  /\ NoSwap \notin Swaps
  /\ Requests \subseteq Request
  /\ MaxPresigs \in Nat \ {0}
  /\ MaxRequests \in Nat
  /\ HistoryMax \in Nat \ {0}
  /\ MaxFaults \in Nat
  /\ None \notin Slots
  /\ None \notin Request

Event == [role : {"initiator", "acceptor", "broadcast"},
          status : {"sent", "escrow-await", "completed", "broadcast"},
          hash : Hashes, swap : Swaps \cup {NoSwap}]

Stages == {"idle", "receive", "exchange", "record", "write", "answer"}

(* The states of a rotation that has no presignature to save. *)
NoRotation == 0
Running == -1

VARIABLES
  presig,     \* storage: the presignature of each client, 0 if none
  history,    \* storage: the events of each client, newest first
  cosignBusy, \* the swaps each client is accepting for
  histMu,     \* the slot that holds the history lock of each client
  stage,      \* where the request of a slot is
  req,        \* the request of a slot
  list,       \* the history a slot has loaded
  rotation,   \* the rotation of a slot: none, running, or what it is to save
  relay,      \* incomplete signatures on their way
  made,       \* how many requests were made
  faults,     \* how many faults there were
  next,       \* the next presignature to come out of the protocol
  used,       \* history: the hashes each client used a presignature for
  released,   \* history: the signatures given out by accepts
  forgotten,  \* history: the swaps whose record a client cleared, cut off,
              \*   failed to write or failed to read
  raced       \* history: the clients that signed before a rotation ended,
              \*   or lost a rotation to a restart or a storage error

clientVars == <<presig, history, cosignBusy, histMu>>
requestVars == <<stage, req, list>>
envVars == <<relay, made, faults, next>>
historyVars == <<used, released, forgotten, raced>>
vars == <<clientVars, requestVars, rotation, envVars, historyVars>>

TypeOK ==
  /\ presig \in [Clients -> 0 .. MaxPresigs]
  /\ \A c \in Clients : /\ Len(history[c]) <= HistoryMax
                        /\ \A i \in DOMAIN history[c] : history[c][i] \in Event
  /\ cosignBusy \in [Clients -> SUBSET Swaps]
  /\ \A c \in Clients : histMu[c] # None =>
        /\ stage[histMu[c]] = "write"
        /\ req[histMu[c]].client = c
  /\ stage \in [Slots -> Stages]
  /\ req \in [Slots -> Requests \cup {None}]
  /\ \A k \in Slots :
       stage[k] # "idle" \/ rotation[k] # NoRotation => req[k] # None
  /\ rotation \in [Slots -> Running .. MaxPresigs]
  /\ relay \subseteq [to : Clients, hash : Hashes, presig : 1 .. MaxPresigs]
  /\ made \in 0 .. MaxRequests
  /\ faults \in 0 .. MaxFaults
  /\ next \in 1 .. MaxPresigs + 1
  /\ used \subseteq [client : Clients, presig : 1 .. MaxPresigs, hash : Hashes]
  /\ released \subseteq [client : Clients, swap : Swaps, hash : Hashes, alg : Algs]
  /\ forgotten \in [Clients -> SUBSET Swaps]
  /\ raced \subseteq Clients

(* Key generation leaves the same first presignature on both sides. *)
Init ==
  /\ presig = [c \in Clients |-> 1]
  /\ history = [c \in Clients |-> <<>>]
  /\ cosignBusy = [c \in Clients |-> {}]
  /\ histMu = [c \in Clients |-> None]
  /\ stage = [k \in Slots |-> "idle"]
  /\ req = [k \in Slots |-> None]
  /\ list = [k \in Slots |-> <<>>]
  /\ rotation = [k \in Slots |-> NoRotation]
  /\ relay = {}
  /\ made = 0
  /\ faults = 0
  /\ next = 2
  /\ used = {}
  /\ released = {}
  /\ forgotten = [c \in Clients |-> {}]
  /\ raced = {}

Partner(c) == CHOOSE d \in Clients : d # c

Free(k) == stage[k] = "idle" /\ rotation[k] = NoRotation

GoTo(k, s) == stage' = [stage EXCEPT ![k] = s]

MakeRequest == made < MaxRequests /\ made' = made + 1

Begin(k, r) ==
  /\ Free(k)
  /\ MakeRequest
  /\ req' = [req EXCEPT ![k] = r]

Fault == faults < MaxFaults /\ faults' = faults + 1

(* The swaps for which a list of events shows a completed accept. *)
Accepted(events) ==
  {events[i].swap : i \in {j \in DOMAIN events : /\ events[j].role = "acceptor"
                                                 /\ events[j].status = "completed"}}
  \ {NoSwap}

(* The swap an accept is for, if it names one. *)
OwnSwap(r) == IF r.op = "accept" THEN {r.swap} \cap Swaps ELSE {}

(* Client c loses sight of the accepts of some swaps. *)
Forget(c, swaps) == forgotten' = [forgotten EXCEPT ![c] = @ \cup swaps]

(* The request is over and its deferred functions run; its slot is kept    *)
(* while it has a rotation.                                                *)
Finish(k) ==
  /\ GoTo(k, "idle")
  /\ list' = [list EXCEPT ![k] = <<>>]
  /\ req' = IF rotation[k] = NoRotation THEN [req EXCEPT ![k] = None] ELSE req
  /\ cosignBusy' = [cosignBusy EXCEPT ![req[k].client] = @ \ OwnSwap(req[k])]

(* Slot k uses presignature p of client c for hash h and starts            *)
(* rotateECDSAPresign in the background.                                   *)
UsePresig(k, c, p, h) ==
  /\ used' = used \cup {[client |-> c, presig |-> p, hash |-> h]}
  /\ rotation' = [rotation EXCEPT ![k] = Running]
  /\ raced' = IF \E j \in Slots : rotation[j] # NoRotation /\ req[j].client = c
              THEN raced \cup {c} ELSE raced

-----------------------------------------------------------------------------
(* sendWithdrawalTx *)

sendECDSA(k, r) ==
  LET p == presig[r.client]
  IN
  /\ Begin(k, r)
  /\ r.op = "send" /\ r.alg = "ecdsa"
  /\ p # 0
  /\ UsePresig(k, r.client, p, r.hash)
  /\ relay' = relay \cup {[to |-> Partner(r.client), hash |-> r.hash, presig |-> p]}
  /\ GoTo(k, "record")
  /\ UNCHANGED <<clientVars, list, faults, next, released, forgotten>>

sendFROST(k, r) ==
  /\ Begin(k, r)
  /\ r.op = "send" /\ r.alg = "frost"
  /\ GoTo(k, "exchange")
  /\ UNCHANGED <<clientVars, list, rotation, relay, faults, next, historyVars>>

-----------------------------------------------------------------------------
(* acceptWithdrawalTx *)

(* Mutant of mayAccept: the history is searched, the swaps being accepted  *)
(* are not.                                                                *)
mayAccept_NotBusy(r, events) ==
  OwnSwap(r) \cap Accepted(events) = {}

(* One co-sign per swap: none in progress, none completed. *)
mayAccept(r, events) ==
  OwnSwap(r) \cap (cosignBusy[r.client] \cup Accepted(events)) = {}

(* The check and the entry into cosignBusy are made under cosignMu.  A     *)
(* history that cannot be read counts as empty.                            *)
accept(k, r) ==
  /\ Begin(k, r)
  /\ r.op = "accept"
  /\ \/ mayAccept(r, history[r.client]) /\ UNCHANGED <<faults, forgotten>>
     \/ Fault /\ mayAccept(r, <<>>) /\ Forget(r.client, OwnSwap(r))
  /\ cosignBusy' = [cosignBusy EXCEPT ![r.client] = @ \cup OwnSwap(r)]
  /\ GoTo(k, IF r.alg = "ecdsa" THEN "receive" ELSE "exchange")
  /\ UNCHANGED <<presig, history, histMu, list, rotation, relay, next, used,
                 released, raced>>

(* Message m for slot k is taken off the relay, which delivers it again    *)
(* when its acknowledgement is lost.                                       *)
Receive(k, m) ==
  /\ stage[k] = "receive"
  /\ m.to = req[k].client
  /\ m.hash = req[k].hash
  /\ \/ relay' = relay \ {m} /\ UNCHANGED faults
     \/ Fault /\ UNCHANGED relay

(* The transaction is the one shown and both sides used the same           *)
(* presignature: the signature verifies (CMPPreSignOnlineCoSign).          *)
completes(k, m) == m.hash = req[k].tx /\ m.presig = presig[req[k].client]

CoSign(k, m) ==
  /\ Receive(k, m)
  /\ completes(k, m)
  /\ UsePresig(k, req[k].client, m.presig, m.hash)
  /\ GoTo(k, "record")
  /\ UNCHANGED <<clientVars, req, list, made, next, released, forgotten>>

(* The other returns: the transaction is not the one shown, there is no    *)
(* presignature or not the partner's.  Nothing is rotated.                 *)
RefuseMessage(k, m) ==
  /\ Receive(k, m)
  /\ ~ completes(k, m)
  /\ Finish(k)
  /\ UNCHANGED <<presig, history, histMu, rotation, made, next, historyVars>>

(* 90 seconds pass without a message, or a FROST exchange fails. *)
GiveUp(k) ==
  /\ stage[k] \in {"receive", "exchange"}
  /\ Finish(k)
  /\ UNCHANGED <<presig, history, histMu, rotation, envVars, historyVars>>

(* FrostSignTaprootInc on one side and FrostSignTaprootCoSign on the       *)
(* other: the sender is done when its share is out, the acceptor has the   *)
(* signature.                                                              *)
FrostExchange(j, k) ==
  /\ stage[j] = "exchange" /\ req[j].op = "send"
  /\ stage[k] = "exchange" /\ req[k].op = "accept"
  /\ req[j].client # req[k].client
  /\ req[j].hash = req[k].hash
  /\ stage' = [stage EXCEPT ![j] = "answer", ![k] = "answer"]
  /\ UNCHANGED <<clientVars, req, list, rotation, envVars, historyVars>>

-----------------------------------------------------------------------------
(* The history (cosign_history.go) *)

(* completeCosign begins. *)
completeCosign(k, r) ==
  /\ Begin(k, r)
  /\ r.op = "complete"
  /\ GoTo(k, "record")
  /\ UNCHANGED <<clientVars, list, rotation, relay, faults, next, historyVars>>

(* sendTransaction records what it has broadcast, with the hash of the     *)
(* signed transaction.  The rest of it is the subject of Payments.         *)
sendTransaction(k, r) ==
  /\ Begin(k, r)
  /\ r.op = "broadcast"
  /\ GoTo(k, "record")
  /\ UNCHANGED <<clientVars, list, rotation, relay, faults, next, historyVars>>

(* Mutant of loadCosignHistory: the lock is not waited for. *)
loadCosignHistory_Unlocked(k) ==
  LET c == req[k].client
  IN
  /\ stage[k] = "record"
  /\ list' = [list EXCEPT ![k] = history[c]]
  /\ GoTo(k, "write")
  /\ UNCHANGED <<clientVars, req, rotation, envVars, historyVars>>

(* histMu is taken and the events loaded; an error makes them none. *)
loadCosignHistory(k) ==
  LET c == req[k].client
  IN
  /\ stage[k] = "record"
  /\ histMu[c] = None
  /\ histMu' = [histMu EXCEPT ![c] = k]
  /\ \/ list' = [list EXCEPT ![k] = history[c]] /\ UNCHANGED <<faults, forgotten>>
     \/ /\ Fault
        /\ list' = [list EXCEPT ![k] = <<>>]
        /\ Forget(c, Accepted(history[c]))
  /\ GoTo(k, "write")
  /\ UNCHANGED <<presig, history, cosignBusy, req, rotation, relay, made, next,
                 used, released, raced>>

EventOf(r) ==
  [role |-> CASE r.op = "accept" -> "acceptor"
              [] r.op = "send" -> "initiator"
              [] r.op = "broadcast" -> "broadcast",
   status |-> CASE r.op = "accept" -> "completed"
                [] r.op = "broadcast" -> "broadcast"
                [] r.op = "send" /\ r.swap # NoSwap -> "escrow-await"
                [] OTHER -> "sent",
   hash |-> r.hash, swap |-> r.swap]

Completed(ev, h) ==
  IF ev.hash = h /\ ev.role = "initiator"
  THEN [ev EXCEPT !.status = "completed"] ELSE ev

(* The list a request writes back: completeCosign marks events, the others *)
(* put theirs in front.                                                    *)
Updated(r, events) ==
  IF r.op = "complete"
  THEN [i \in DOMAIN events |-> Completed(events[i], r.hash)]
  ELSE <<EventOf(r)>> \o events

Truncated(events) ==
  IF Len(events) > HistoryMax THEN SubSeq(events, 1, HistoryMax) ELSE events

(* The events are written and histMu is released.  The error of the write  *)
(* is dropped.  Without a matching event completeCosign writes nothing.    *)
recordCosign(k) ==
  LET c == req[k].client
      new == Updated(req[k], list[k])
      kept == Truncated(new)
  IN
  /\ stage[k] = "write"
  /\ histMu' = [histMu EXCEPT ![c] = None]
  /\ \/ /\ history' = IF new = list[k] THEN history ELSE [history EXCEPT ![c] = kept]
        /\ Forget(c, Accepted(new) \ Accepted(kept))
        /\ UNCHANGED faults
     \/ /\ Fault
        /\ Forget(c, OwnSwap(req[k]))
        /\ UNCHANGED history
  /\ list' = [list EXCEPT ![k] = <<>>]
  /\ GoTo(k, "answer")
  /\ UNCHANGED <<presig, cosignBusy, req, rotation, relay, made, next, used,
                 released, raced>>

(* The response; that of an accept carries the signature. *)
Answer(k) ==
  LET r == req[k]
  IN
  /\ stage[k] = "answer"
  /\ released' = released \cup
       {[client |-> r.client, swap |-> s, hash |-> r.hash, alg |-> r.alg] :
          s \in OwnSwap(r)}
  /\ Finish(k)
  /\ UNCHANGED <<presig, history, histMu, rotation, envVars, used, forgotten, raced>>

(* clearCosignHistory does not take histMu. *)
clearCosignHistory(c) ==
  /\ MakeRequest
  /\ history[c] # <<>>
  /\ history' = [history EXCEPT ![c] = <<>>]
  /\ Forget(c, Accepted(history[c]))
  /\ UNCHANGED <<presig, cosignBusy, histMu, requestVars, rotation, relay, faults,
                 next, used, released, raced>>

-----------------------------------------------------------------------------
(* rotateECDSAPresign *)

(* CMPPreSign of the two sides of a hash: both end with the new            *)
(* presignature, or one does and the other still waits for the last        *)
(* message.                                                                *)
CMPPreSign(j, k) ==
  /\ rotation[j] = Running /\ rotation[k] = Running
  /\ req[j].client # req[k].client
  /\ req[j].hash = req[k].hash
  /\ next <= MaxPresigs
  /\ next' = next + 1
  /\ \/ rotation' = [rotation EXCEPT ![j] = next, ![k] = next]
     \/ rotation' = [rotation EXCEPT ![j] = next]
  /\ UNCHANGED <<clientVars, requestVars, relay, made, faults, historyVars>>

(* The goroutine of slot k ends with p stored, or with a storage error.    *)
EndRotation(k, p) ==
  LET c == req[k].client
  IN
  /\ \/ presig' = [presig EXCEPT ![c] = p] /\ UNCHANGED <<faults, raced>>
     \/ Fault /\ raced' = raced \cup {c} /\ UNCHANGED presig
  /\ rotation' = [rotation EXCEPT ![k] = NoRotation]
  /\ req' = IF stage[k] = "idle" THEN [req EXCEPT ![k] = None] ELSE req
  /\ UNCHANGED <<history, cosignBusy, histMu, stage, list, relay, made, next, used,
                 released, forgotten>>

(* Mutant of rotationFails: the used presignature is left where it is. *)
rotationFails_Keep(k) ==
  rotation[k] = Running /\ EndRotation(k, presig[req[k].client])

(* No connection, or the protocol fails: the presignature is deleted,      *)
(* whichever is stored by now.                                             *)
rotationFails(k) == rotation[k] = Running /\ EndRotation(k, 0)

(* The new presignature replaces the used one, which a failing write       *)
(* leaves in place.                                                        *)
savePresig(k) == rotation[k] > 0 /\ EndRotation(k, rotation[k])

-----------------------------------------------------------------------------
(* The relay loses a message. *)
Lose(m) ==
  /\ Fault
  /\ relay' = relay \ {m}
  /\ UNCHANGED <<clientVars, requestVars, rotation, made, next, historyVars>>

(* A client process ends: its requests, rotations, locks and cosignBusy    *)
(* are gone, its storage stays.                                            *)
Restart(c) ==
  LET mine == {k \in Slots : req[k] # None /\ req[k].client = c}
  IN
  /\ Fault
  /\ mine # {}
  /\ stage' = [k \in Slots |-> IF k \in mine THEN "idle" ELSE stage[k]]
  /\ req' = [k \in Slots |-> IF k \in mine THEN None ELSE req[k]]
  /\ list' = [k \in Slots |-> IF k \in mine THEN <<>> ELSE list[k]]
  /\ rotation' = [k \in Slots |-> IF k \in mine THEN NoRotation ELSE rotation[k]]
  /\ cosignBusy' = [cosignBusy EXCEPT ![c] = {}]
  /\ histMu' = [histMu EXCEPT ![c] = None]
  /\ raced' = IF \E k \in mine : rotation[k] # NoRotation
              THEN raced \cup {c} ELSE raced
  /\ UNCHANGED <<presig, history, relay, made, next, used, released, forgotten>>

Next ==
  \/ \E k \in Slots, r \in Requests :
       \/ sendECDSA(k, r) \/ sendFROST(k, r) \/ accept(k, r)
       \/ completeCosign(k, r) \/ sendTransaction(k, r)
  \/ \E k \in Slots, m \in relay : CoSign(k, m) \/ RefuseMessage(k, m)
  \/ \E k \in Slots :
       \/ GiveUp(k) \/ loadCosignHistory(k) \/ recordCosign(k) \/ Answer(k)
       \/ rotationFails(k) \/ savePresig(k)
  \/ \E j, k \in Slots : FrostExchange(j, k) \/ CMPPreSign(j, k)
  \/ \E c \in Clients : clearCosignHistory(c) \/ Restart(c)
  \/ \E m \in relay : Lose(m)

Spec == Init /\ [][Next]_vars

-----------------------------------------------------------------------------
Signed(c, s, algs) ==
  {x.hash : x \in {y \in released : y.client = c /\ y.swap = s /\ y.alg \in algs}}

(* A client gives out at most one withdrawal signature per swap ("refusing *)
(* a second signature", acceptWithdrawalTx; "One co-sign per swap [...]    *)
(* Applies to ECDSA and FROST alike"), as long as the record of the first  *)
(* was not cleared, cut off, or lost to a storage error.                   *)
OneCosign ==
  \A c \in Clients : \A s \in Swaps \ forgotten[c] :
    Cardinality(Signed(c, s, Algs)) <= 1

(* The same of ECDSA alone, through concurrent accepts, restarts between   *)
(* signing and recording, and messages delivered twice.                    *)
OneCosignECDSA ==
  \A c \in Clients : \A s \in Swaps \ forgotten[c] :
    Cardinality(Signed(c, s, {"ecdsa"})) <= 1

(* The history is well formed and never too long, and the record of an     *)
(* ECDSA accept whose signature was given out stays in it whatever send,   *)
(* accept, sendTransaction and completeCosign write at the same time       *)
(* (histMu around load and write in recordCosign).                         *)
RecordsKept ==
  /\ TypeOK
  /\ \A c \in Clients : \A s \in Swaps \ forgotten[c] :
       Signed(c, s, {"ecdsa"}) # {} => s \in Accepted(history[c])

(* A client that lets each rotation end before it signs again never uses a *)
(* presignature for two transactions, even when rotations fail             *)
(* ("Presignatures are single-use"; rotateECDSAPresign deletes what it     *)
(* cannot replace).                                                        *)
SingleUse ==
  \A x, y \in used :
    /\ x.client = y.client
    /\ x.presig = y.presig
    /\ x.client \notin raced
    => x.hash = y.hash

(* Between rotations two such clients hold the same presignature, or one   *)
(* of them holds none: a failed rotation never leaves them with different  *)
(* ones, with which no signature could be completed (rotateECDSAPresign).  *)
PresigsAgree ==
  (raced = {} /\ \A k \in Slots : rotation[k] = NoRotation) =>
    \A c, d \in Clients : 0 \in {presig[c], presig[d]} \/ presig[c] = presig[d]

=============================================================================
