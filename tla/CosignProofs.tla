---------------------------- MODULE CosignProofs ----------------------------
(***************************************************************************)
(* Proofs about co-signing, for every set of hashes, swaps, requests and   *)
(* slots, every length of the history and every number of faults.          *)
(***************************************************************************)
EXTENDS Cosign, FiniteSetTheorems, SequenceTheorems, TLAPS

(* What the type invariant leaves open. *)
Types ==
  /\ TypeOK
  /\ history \in [Clients -> Seq(Event)]
  /\ list \in [Slots -> Seq(Event)]
  /\ histMu \in [Clients -> Slots \cup {None}]

-----------------------------------------------------------------------------
LEMMA RequestType ==
  ASSUME NEW r \in Requests
  PROVE  /\ r # None
         /\ r.op \in {"send", "accept", "complete", "broadcast"}
         /\ r.client \in Clients
         /\ r.alg \in Algs
         /\ r.hash \in Hashes
         /\ r.swap \in Swaps \cup {NoSwap}
         /\ OwnSwap(r) \subseteq Swaps
         /\ OwnSwap(r) # {} => r.op = "accept" /\ r.swap \in Swaps /\ OwnSwap(r) = {r.swap}
  BY CosignAssumption DEF Request, OwnSwap

LEMMA PartnerType ==
  ASSUME NEW c \in Clients
  PROVE  Partner(c) \in Clients
<1>1. \E d \in Clients : d # c
  <2>1. CASE \A d \in Clients : d = c
    <3>1. Clients = {c}
      BY <2>1, Zenon
    <3>2. Cardinality({c}) = 1
      BY FS_Singleton, Zenon
    <3> QED
      BY <3>1, <3>2, CosignAssumption
  <2> QED
    BY <2>1, Zenon
<1> QED
  BY <1>1, Zenon DEF Partner

LEMMA EventType ==
  ASSUME NEW r \in Requests, r.op # "complete"
  PROVE  /\ EventOf(r) \in Event
         /\ EventOf(r).swap = r.swap
         /\ r.op = "accept" => EventOf(r).role = "acceptor" /\ EventOf(r).status = "completed"
<1>1. r.op \in {"send", "accept", "broadcast"}
  BY RequestType, Zenon
<1>2. CASE r.op = "send"
  BY <1>2, RequestType, Zenon DEF EventOf, Event
<1>3. CASE r.op = "accept"
  BY <1>3, RequestType, Zenon DEF EventOf, Event
<1>4. CASE r.op = "broadcast"
  BY <1>4, RequestType, Zenon DEF EventOf, Event
<1> QED
  BY <1>1, <1>2, <1>3, <1>4, Zenon

(* The accepts a list shows. *)
LEMMA AcceptedMember ==
  ASSUME NEW events \in Seq(Event), NEW s
  PROVE  s \in Accepted(events) <=>
           /\ s # NoSwap
           /\ \E i \in 1 .. Len(events) : /\ events[i].role = "acceptor"
                                          /\ events[i].status = "completed"
                                          /\ events[i].swap = s
  BY DEF Accepted

LEMMA AcceptedType ==
  ASSUME NEW events \in Seq(Event)
  PROVE  Accepted(events) \subseteq Swaps
<1> SUFFICES ASSUME NEW s \in Accepted(events) PROVE s \in Swaps
  BY Zenon
<1>1. PICK i \in 1 .. Len(events) : s # NoSwap /\ events[i].swap = s
  BY AcceptedMember
<1>2. events[i] \in Event
  BY ElementOfSeq, Zenon
<1> QED
  BY <1>1, <1>2, Zenon DEF Event

(* A request writes a list of events back that shows all accepts it has    *)
(* read, and its own (recordCosign, completeCosign).                       *)
LEMMA UpdatedKeeps ==
  ASSUME NEW r \in Requests, NEW events \in Seq(Event)
  PROVE  /\ Updated(r, events) \in Seq(Event)
         /\ Accepted(events) \cup OwnSwap(r) \subseteq Accepted(Updated(r, events))
         /\ r.op # "complete" => Updated(r, events) # events
<1>1. CASE r.op = "complete"
  <2> DEFINE new == [i \in DOMAIN events |-> Completed(events[i], r.hash)]
  <2>1. \A i \in 1 .. Len(events) : /\ Completed(events[i], r.hash) \in Event
                                    /\ Completed(events[i], r.hash).role = events[i].role
                                    /\ Completed(events[i], r.hash).swap = events[i].swap
                                    /\ events[i].role = "acceptor" => Completed(events[i], r.hash) = events[i]
    <3> SUFFICES ASSUME NEW i \in 1 .. Len(events)
                 PROVE  /\ Completed(events[i], r.hash) \in Event
                        /\ Completed(events[i], r.hash).role = events[i].role
                        /\ Completed(events[i], r.hash).swap = events[i].swap
                        /\ events[i].role = "acceptor" => Completed(events[i], r.hash) = events[i]
      BY Zenon
    <3>1. events[i] \in Event
      BY ElementOfSeq, Zenon
    <3> QED
      BY <3>1, Zenon DEF Completed, Event
  <2>2. new \in Seq(Event) /\ Len(new) = Len(events)
        /\ \A i \in 1 .. Len(events) : new[i] = Completed(events[i], r.hash)
    BY <2>1
  <2>3. Updated(r, events) = new /\ OwnSwap(r) = {}
    BY <1>1, Zenon DEF Updated, OwnSwap
  <2> HIDE DEF new
  <2>4. Accepted(events) \subseteq Accepted(new)
    BY <2>1, <2>2, AcceptedMember
  <2> QED
    BY <1>1, <2>2, <2>3, <2>4, Zenon
<1>2. CASE r.op # "complete"
  <2> DEFINE e == EventOf(r)
  <2> DEFINE new == <<e>> \o events
  <2>1. /\ e \in Event /\ e.swap = r.swap
        /\ r.op = "accept" => e.role = "acceptor" /\ e.status = "completed"
    BY <1>2, EventType, Zenon
  <2> HIDE DEF e
  <2>2. /\ new \in Seq(Event) /\ Len(new) = Len(events) + 1 /\ new[1] = e
        /\ \A i \in 1 .. Len(events) : new[i + 1] = events[i]
    BY <2>1
  <2>3. Updated(r, events) = new
    BY <1>2, Zenon DEF Updated, e
  <2> HIDE DEF new
  <2>4. Len(events) \in Nat
    OBVIOUS
  <2>5. ASSUME NEW s \in Accepted(events) PROVE s \in Accepted(new)
    <3>1. PICK i \in 1 .. Len(events) : /\ events[i].role = "acceptor"
                                        /\ events[i].status = "completed"
                                        /\ events[i].swap = s
      BY AcceptedMember
    <3>2. s # NoSwap
      BY AcceptedMember, Zenon
    <3>3. i + 1 \in 1 .. Len(new) /\ new[i + 1] = events[i]
      BY <2>2, <2>4
    <3> QED
      BY <2>2, <3>1, <3>2, <3>3, AcceptedMember, SMTT(30)
  <2>6. ASSUME NEW s \in OwnSwap(r) PROVE s \in Accepted(new)
    <3>1. r.op = "accept" /\ s = r.swap /\ s # NoSwap
      BY CosignAssumption, Zenon DEF OwnSwap
    <3>2. 1 \in 1 .. Len(new)
      BY <2>2, <2>4
    <3> QED
      BY <2>1, <2>2, <3>1, <3>2, AcceptedMember, Zenon
  <2>7. new # events
    BY <2>2, <2>4
  <2> QED
    BY <2>2, <2>3, <2>5, <2>6, <2>7, Zenon
<1> QED
  BY <1>1, <1>2, Zenon

LEMMA TruncatedType ==
  ASSUME NEW events \in Seq(Event)
  PROVE  Truncated(events) \in Seq(Event) /\ Len(Truncated(events)) <= HistoryMax
  BY CosignAssumption DEF Truncated

(* The end of a request. *)
LEMMA FinishType ==
  ASSUME Types, NEW k \in Slots, stage[k] \notin {"idle", "write"}, Finish(k)
  PROVE  /\ req[k] \in Requests /\ req[k].client \in Clients
         /\ stage' = [stage EXCEPT ![k] = "idle"]
         /\ stage' \in [Slots -> Stages]
         /\ list' \in [Slots -> Seq(Event)]
         /\ req' \in [Slots -> Requests \cup {None}]
         /\ cosignBusy' \in [Clients -> SUBSET Swaps]
         /\ \A j \in Slots : stage'[j] # "idle" => req'[j] = req[j]
         /\ \A j \in Slots : rotation[j] # NoRotation => req'[j] = req[j]
         /\ \A j \in Slots : stage'[j] # "idle" \/ rotation[j] # NoRotation => req'[j] # None
         /\ \A c \in Clients : histMu[c] # None =>
               stage'[histMu[c]] = "write" /\ req'[histMu[c]].client = c
<1>1. req[k] \in Requests /\ req[k].client \in Clients
  BY RequestType DEF Types, TypeOK
<1>2. /\ stage' = [stage EXCEPT ![k] = "idle"]
      /\ stage' \in [Slots -> Stages]
      /\ list' \in [Slots -> Seq(Event)]
  BY DEF Finish, GoTo, Types, TypeOK, Stages
<1>3. req' \in [Slots -> Requests \cup {None}]
  BY Zenon DEF Finish, Types, TypeOK
<1>4. cosignBusy' \in [Clients -> SUBSET Swaps]
  BY <1>1, Zenon DEF Finish, Types, TypeOK
<1>5. \A j \in Slots : j # k => req'[j] = req[j] /\ stage'[j] = stage[j]
  BY <1>2, Zenon DEF Finish, Types, TypeOK
<1>6. stage'[k] = "idle" /\ (rotation[k] # NoRotation => req'[k] = req[k])
  BY <1>2, Zenon DEF Finish, Types, TypeOK
<1>7. /\ \A j \in Slots : stage'[j] # "idle" => req'[j] = req[j] /\ stage[j] # "idle"
      /\ \A j \in Slots : rotation[j] # NoRotation => req'[j] = req[j]
  BY <1>5, <1>6, Zenon
<1>8. \A j \in Slots : stage'[j] # "idle" \/ rotation[j] # NoRotation => req'[j] # None
  BY <1>7, Zenon DEF Types, TypeOK
<1>9. ASSUME NEW c \in Clients, histMu[c] # None
      PROVE  stage'[histMu[c]] = "write" /\ req'[histMu[c]].client = c
  <2>1. histMu[c] \in Slots /\ stage[histMu[c]] = "write" /\ req[histMu[c]].client = c
    BY <1>9, Zenon DEF Types, TypeOK
  <2> QED
    BY <2>1, <1>5, Zenon
<1> QED
  BY <1>1, <1>2, <1>3, <1>4, <1>7, <1>8, <1>9, Zenon

(* Requests that begin. *)
LEMMA BeginTypes ==
  ASSUME Types, NEW k \in Slots, NEW r \in Requests,
         \/ sendECDSA(k, r) \/ sendFROST(k, r) \/ accept(k, r)
         \/ completeCosign(k, r) \/ sendTransaction(k, r)
  PROVE  Types'
<1> USE DEF NoRotation, Running
<1>1. /\ stage[k] = "idle" /\ rotation[k] = NoRotation
      /\ req' = [req EXCEPT ![k] = r]
      /\ made' \in 0 .. MaxRequests
      /\ history' = history /\ histMu' = histMu /\ list' = list /\ presig' = presig
      /\ next' = next /\ released' = released
  BY CosignAssumption DEF sendECDSA, sendFROST, accept, completeCosign, sendTransaction,
     Begin, Free, MakeRequest, clientVars, historyVars, Types, TypeOK
<1>2. r.client \in Clients /\ r.hash \in Hashes /\ r # None /\ OwnSwap(r) \subseteq Swaps
  BY RequestType, Zenon
<1>3. \E s \in Stages \ {"idle"} : stage' = [stage EXCEPT ![k] = s]
  BY Zenon DEF sendECDSA, sendFROST, accept, completeCosign, sendTransaction, GoTo, Stages
<1>4. /\ stage' \in [Slots -> Stages]
      /\ req' \in [Slots -> Requests \cup {None}]
      /\ \A j \in Slots : j # k => stage'[j] = stage[j] /\ req'[j] = req[j]
      /\ req'[k] = r
  BY <1>1, <1>3, Zenon DEF Types, TypeOK
<1>5. \A c \in Clients : histMu'[c] # None =>
         stage'[histMu'[c]] = "write" /\ req'[histMu'[c]].client = c
  BY <1>1, <1>4, Zenon DEF Types, TypeOK
<1>6. /\ rotation' \in [Slots -> Running .. MaxPresigs]
      /\ \A j \in Slots : j # k => rotation'[j] = rotation[j]
      /\ used' \subseteq [client : Clients, presig : 1 .. MaxPresigs, hash : Hashes]
      /\ raced' \subseteq Clients
      /\ relay' \subseteq [to : Clients, hash : Hashes, presig : 1 .. MaxPresigs]
  <2>1. CASE sendECDSA(k, r)
    <3>1. presig[r.client] \in 1 .. MaxPresigs
      BY <1>2, <2>1, CosignAssumption DEF sendECDSA, Types, TypeOK
    <3> QED
      BY <1>2, <2>1, <3>1, PartnerType, CosignAssumption, SMTT(30) DEF sendECDSA, UsePresig, Types, TypeOK
  <2>2. CASE sendFROST(k, r) \/ accept(k, r) \/ completeCosign(k, r) \/ sendTransaction(k, r)
    BY <2>2, Zenon DEF sendFROST, accept, completeCosign, sendTransaction, historyVars, Types, TypeOK
  <2> QED
    BY <2>1, <2>2, Zenon
<1>7. /\ cosignBusy' \in [Clients -> SUBSET Swaps]
      /\ forgotten' \in [Clients -> SUBSET Swaps]
      /\ faults' \in 0 .. MaxFaults
  <2>1. CASE accept(k, r)
    <3>1. cosignBusy' = [cosignBusy EXCEPT ![r.client] = @ \cup OwnSwap(r)]
      BY <2>1, Zenon DEF accept
    <3>2. \/ faults' = faults /\ forgotten' = forgotten
          \/ /\ faults < MaxFaults /\ faults' = faults + 1
             /\ forgotten' = [forgotten EXCEPT ![r.client] = @ \cup OwnSwap(r)]
      BY <2>1, Zenon DEF accept, Fault, Forget
    <3>3. cosignBusy' \in [Clients -> SUBSET Swaps]
      BY <1>2, <3>1, Zenon DEF Types, TypeOK
    <3>4. forgotten' \in [Clients -> SUBSET Swaps]
      BY <1>2, <3>2, ZenonT(30) DEF Types, TypeOK
    <3>5. faults' \in 0 .. MaxFaults
      BY <3>2, CosignAssumption DEF Types, TypeOK
    <3> QED
      BY <3>3, <3>4, <3>5, Zenon
  <2>2. CASE sendECDSA(k, r) \/ sendFROST(k, r) \/ completeCosign(k, r) \/ sendTransaction(k, r)
    BY <2>2, Zenon DEF sendECDSA, sendFROST, completeCosign, sendTransaction, clientVars, historyVars, Types, TypeOK
  <2> QED
    BY <2>1, <2>2, Zenon
<1>8. \A j \in Slots : stage'[j] # "idle" \/ rotation'[j] # NoRotation => req'[j] # None
  BY <1>2, <1>4, <1>6, Zenon DEF Types, TypeOK
<1> QED
  BY <1>1, <1>4, <1>5, <1>6, <1>7, <1>8, Zenon DEF Types, TypeOK

(* Requests that receive a message, give up or answer. *)
LEMMA MessageTypes ==
  ASSUME Types, NEW k \in Slots, NEW m \in relay,
         CoSign(k, m) \/ RefuseMessage(k, m)
  PROVE  Types'
<1> USE DEF NoRotation, Running
<1>1. /\ stage[k] = "receive"
      /\ relay' \subseteq relay
      /\ faults' \in 0 .. MaxFaults
      /\ history' = history /\ histMu' = histMu /\ presig' = presig
      /\ next' = next /\ made' = made /\ released' = released /\ forgotten' = forgotten
  BY CosignAssumption, SMTT(30) DEF CoSign, RefuseMessage, Receive, Fault, clientVars, historyVars, Types, TypeOK
<1>2. CASE CoSign(k, m)
  <2>1. /\ req[k] \in Requests /\ req[k].client \in Clients /\ req[k] # None
        /\ m.presig \in 1 .. MaxPresigs /\ m.hash \in Hashes
    BY <1>1, RequestType DEF Types, TypeOK
  <2>2. /\ stage' = [stage EXCEPT ![k] = "record"]
        /\ req' = req /\ list' = list /\ cosignBusy' = cosignBusy
        /\ rotation' = [rotation EXCEPT ![k] = Running]
    BY <1>2, Zenon DEF CoSign, GoTo, UsePresig, clientVars
  <2>3. /\ used' \subseteq [client : Clients, presig : 1 .. MaxPresigs, hash : Hashes]
        /\ raced' \subseteq Clients
    BY <1>2, <2>1, SMTT(30) DEF CoSign, UsePresig, Types, TypeOK
  <2>4. /\ stage' \in [Slots -> Stages]
        /\ rotation' \in [Slots -> Running .. MaxPresigs]
        /\ \A j \in Slots : j # k => stage'[j] = stage[j] /\ rotation'[j] = rotation[j]
    BY <2>2, CosignAssumption DEF Stages, Types, TypeOK
  <2> QED
    BY <1>1, <2>1, <2>2, <2>3, <2>4, Zenon DEF Types, TypeOK
<1>3. CASE RefuseMessage(k, m)
  <2>1. Finish(k) /\ rotation' = rotation /\ used' = used /\ raced' = raced
    BY <1>3, Zenon DEF RefuseMessage, historyVars
  <2> QED
    BY <1>1, <2>1, FinishType, Zenon DEF Types, TypeOK
<1> QED
  BY <1>2, <1>3, Zenon

(* Requests that give up, exchange, answer, and the steps of the history. *)
LEMMA RequestTypes ==
  ASSUME Types, NEW k \in Slots,
         GiveUp(k) \/ Answer(k) \/ \E j \in Slots : FrostExchange(j, k)
  PROVE  Types'
<1>1. CASE GiveUp(k)
  <2>1. /\ stage[k] \notin {"idle", "write"} /\ Finish(k)
        /\ UNCHANGED <<presig, history, histMu, rotation, envVars, historyVars>>
    BY <1>1, Zenon DEF GiveUp
  <2> QED
    BY <2>1, FinishType, SMTT(30) DEF Types, TypeOK, envVars, historyVars
<1>2. CASE Answer(k)
  <2>1. /\ stage[k] \notin {"idle", "write"} /\ Finish(k)
        /\ UNCHANGED <<presig, history, histMu, rotation, envVars, used, forgotten, raced>>
    BY <1>2, Zenon DEF Answer
  <2>2. req[k] \in Requests
    BY <2>1, FinishType, Zenon
  <2>3. released' \subseteq [client : Clients, swap : Swaps, hash : Hashes, alg : Algs]
    BY <1>2, <2>2, RequestType, SMTT(30) DEF Answer, Types, TypeOK
  <2> QED
    BY <2>1, <2>3, FinishType, Zenon DEF Types, TypeOK, envVars
<1>3. ASSUME NEW j \in Slots, FrostExchange(j, k) PROVE Types'
  <2>1. /\ stage[j] = "exchange" /\ stage[k] = "exchange"
        /\ stage' = [stage EXCEPT ![j] = "answer", ![k] = "answer"]
        /\ UNCHANGED <<clientVars, req, list, rotation, envVars, historyVars>>
    BY <1>3, Zenon DEF FrostExchange
  <2>2. /\ stage' \in [Slots -> Stages]
        /\ \A i \in Slots : stage'[i] = stage[i] \/ (stage'[i] = "answer" /\ stage[i] = "exchange")
    BY <2>1, Zenon DEF Types, TypeOK, Stages
  <2>3. \A c \in Clients : histMu[c] # None => stage'[histMu[c]] = "write"
    BY <2>2 DEF Types, TypeOK
  <2>4. \A i \in Slots : stage'[i] # "idle" \/ rotation[i] # NoRotation => req[i] # None
    BY <2>2, Zenon DEF Types, TypeOK
  <2> QED
    BY <2>1, <2>2, <2>3, <2>4, ZenonT(60) DEF Types, TypeOK, clientVars, envVars, historyVars
<1> QED
  BY <1>1, <1>2, <1>3, Zenon

LEMMA HistoryTypes ==
  ASSUME Types, NEW k \in Slots, loadCosignHistory(k) \/ recordCosign(k)
  PROVE  Types'
<1> DEFINE c == req[k].client
<1>1. stage[k] \in {"record", "write"}
  BY Zenon DEF loadCosignHistory, recordCosign
<1>2. req[k] \in Requests /\ c \in Clients /\ OwnSwap(req[k]) \subseteq Swaps
  BY <1>1, RequestType DEF Types, TypeOK
<1>3. history[c] \in Seq(Event) /\ list[k] \in Seq(Event)
  BY <1>2, Zenon DEF Types
<1>4. CASE loadCosignHistory(k)
  <2>1. /\ stage[k] = "record" /\ histMu[c] = None
        /\ histMu' = [histMu EXCEPT ![c] = k]
        /\ stage' = [stage EXCEPT ![k] = "write"]
        /\ UNCHANGED <<presig, history, cosignBusy, req, rotation, relay, made, next,
                       used, released, raced>>
    BY <1>4, Zenon DEF loadCosignHistory, GoTo
  <2>2. \/ list' = [list EXCEPT ![k] = history[c]] /\ faults' = faults /\ forgotten' = forgotten
        \/ /\ faults < MaxFaults /\ faults' = faults + 1
           /\ list' = [list EXCEPT ![k] = <<>>]
           /\ forgotten' = [forgotten EXCEPT ![c] = @ \cup Accepted(history[c])]
    BY <1>4, Zenon DEF loadCosignHistory, Fault, Forget
  <2>3. Accepted(history[c]) \subseteq Swaps
    BY <1>3, AcceptedType, Zenon
  <2> HIDE DEF c
  <2>4. list' \in [Slots -> Seq(Event)]
    <3>1. <<>> \in Seq(Event)
      OBVIOUS
    <3>2. list \in [Slots -> Seq(Event)]
      BY Zenon DEF Types
    <3>3. \A e \in Seq(Event) : [list EXCEPT ![k] = e] \in [Slots -> Seq(Event)]
      BY <3>2, Zenon
    <3> QED
      BY <1>3, <2>2, <3>1, <3>3, Zenon
  <2>5. forgotten' \in [Clients -> SUBSET Swaps]
    BY <1>2, <2>2, <2>3, ZenonT(60) DEF Types, TypeOK
  <2>6. faults' \in 0 .. MaxFaults
    BY <2>2, CosignAssumption DEF Types, TypeOK
  <2>7. /\ stage' \in [Slots -> Stages] /\ stage'[k] = "write"
        /\ \A i \in Slots : i # k => stage'[i] = stage[i]
        /\ histMu' \in [Clients -> Slots \cup {None}] /\ histMu'[c] = k
        /\ \A d \in Clients : d # c => histMu'[d] = histMu[d]
    BY <1>2, <2>1, Zenon DEF Types, TypeOK, Stages
  <2>8. \A d \in Clients : histMu'[d] # None =>
           stage'[histMu'[d]] = "write" /\ req[histMu'[d]].client = d
    BY <2>7, ZenonT(60) DEF Types, TypeOK, c
  <2>9. \A i \in Slots : stage'[i] # "idle" \/ rotation[i] # NoRotation => req[i] # None
    BY <2>1, <2>7, Zenon DEF Types, TypeOK
  <2> QED
    BY <2>1, <2>4, <2>5, <2>6, <2>7, <2>8, <2>9, Zenon DEF Types, TypeOK
<1>5. CASE recordCosign(k)
  <2> DEFINE new == Updated(req[k], list[k])
  <2> DEFINE kept == Truncated(new)
  <2>1. /\ stage[k] = "write"
        /\ histMu' = [histMu EXCEPT ![c] = None]
        /\ list' = [list EXCEPT ![k] = <<>>]
        /\ stage' = [stage EXCEPT ![k] = "answer"]
        /\ UNCHANGED <<presig, cosignBusy, req, rotation, relay, made, next, used,
                       released, raced>>
    BY <1>5, Zenon DEF recordCosign, GoTo
  <2>2. \/ /\ history' = IF new = list[k] THEN history ELSE [history EXCEPT ![c] = kept]
           /\ forgotten' = [forgotten EXCEPT ![c] = @ \cup (Accepted(new) \ Accepted(kept))]
           /\ faults' = faults
        \/ /\ faults < MaxFaults /\ faults' = faults + 1
           /\ forgotten' = [forgotten EXCEPT ![c] = @ \cup OwnSwap(req[k])]
           /\ history' = history
    BY <1>5, Zenon DEF recordCosign, Fault, Forget
  <2>3. new \in Seq(Event)
    BY <1>2, <1>3, UpdatedKeeps, Zenon
  <2>4. kept \in Seq(Event) /\ Len(kept) <= HistoryMax
    BY <2>3, TruncatedType, Zenon
  <2>5. Accepted(new) \subseteq Swaps
    BY <2>3, AcceptedType, Zenon
  <2> HIDE DEF c, new, kept
  <2>6. history' \in [Clients -> Seq(Event)] /\ \A d \in Clients : Len(history'[d]) <= HistoryMax
    BY <1>2, <2>2, <2>4, ZenonT(30) DEF Types, TypeOK
  <2>7. forgotten' \in [Clients -> SUBSET Swaps]
    BY <1>2, <2>2, <2>5, ZenonT(60) DEF Types, TypeOK
  <2>8. faults' \in 0 .. MaxFaults
    BY <2>2, CosignAssumption DEF Types, TypeOK
  <2>9. /\ stage' \in [Slots -> Stages] /\ stage'[k] = "answer"
        /\ \A i \in Slots : i # k => stage'[i] = stage[i]
        /\ histMu' \in [Clients -> Slots \cup {None}] /\ histMu'[c] = None
        /\ \A d \in Clients : d # c => histMu'[d] = histMu[d]
        /\ list' \in [Slots -> Seq(Event)]
    BY <1>2, <2>1 DEF Types, TypeOK, Stages
  <2>10. ASSUME NEW d \in Clients, histMu'[d] # None
         PROVE  stage'[histMu'[d]] = "write" /\ req[histMu'[d]].client = d
    <3>1. d # c /\ histMu'[d] = histMu[d]
      BY <2>9, <2>10, Zenon
    <3>2. histMu[d] \in Slots /\ stage[histMu[d]] = "write" /\ req[histMu[d]].client = d
      BY <2>10, <3>1, Zenon DEF Types, TypeOK
    <3>3. histMu[d] # k
      BY <3>1, <3>2, Zenon DEF c
    <3> QED
      BY <2>9, <3>1, <3>2, <3>3, Zenon
  <2>11. \A i \in Slots : stage'[i] # "idle" \/ rotation[i] # NoRotation => req[i] # None
    BY <2>1, <2>9, Zenon DEF Types, TypeOK
  <2>12. \A d \in Clients : \A i \in DOMAIN history'[d] : history'[d][i] \in Event
    BY <2>6, SMTT(30)
  <2> QED
    BY <2>1, <2>6, <2>7, <2>8, <2>9, <2>10, <2>11, <2>12, Zenon DEF Types, TypeOK
<1> QED
  BY <1>4, <1>5, Zenon

(* Rotations. *)
LEMMA RotationTypes ==
  ASSUME Types, NEW k \in Slots,
         rotationFails(k) \/ savePresig(k) \/ \E j \in Slots : CMPPreSign(j, k)
  PROVE  Types'
<1> USE DEF NoRotation, Running
<1>1. ASSUME NEW p \in 0 .. MaxPresigs, rotation[k] # NoRotation, EndRotation(k, p) PROVE Types'
  <2> DEFINE c == req[k].client
  <2>1. req[k] \in Requests /\ c \in Clients
    BY <1>1, RequestType, SMTT(30) DEF Types, TypeOK
  <2>2. /\ rotation' = [rotation EXCEPT ![k] = NoRotation]
        /\ req' = IF stage[k] = "idle" THEN [req EXCEPT ![k] = None] ELSE req
        /\ UNCHANGED <<history, cosignBusy, histMu, stage, list, relay, made, next, used,
                       released, forgotten>>
        /\ \/ presig' = [presig EXCEPT ![c] = p] /\ faults' = faults /\ raced' = raced
           \/ /\ faults < MaxFaults /\ faults' = faults + 1
              /\ raced' = raced \cup {c} /\ presig' = presig
    BY <1>1, Zenon DEF EndRotation, Fault
  <2> HIDE DEF c
  <2>3. presig' \in [Clients -> 0 .. MaxPresigs] /\ faults' \in 0 .. MaxFaults /\ raced' \subseteq Clients
    <3>1. /\ presig \in [Clients -> 0 .. MaxPresigs]
          /\ faults \in 0 .. MaxFaults
          /\ raced \subseteq Clients
      BY Zenon DEF Types, TypeOK
    <3>2. faults < MaxFaults => faults + 1 \in 0 .. MaxFaults
      BY <3>1, CosignAssumption
    <3>3. presig' \in [Clients -> 0 .. MaxPresigs]
      BY <2>2, <3>1, Zenon
    <3> QED
      BY <2>1, <2>2, <3>1, <3>2, <3>3, Zenon
  <2>4. /\ rotation' \in [Slots -> Running .. MaxPresigs] /\ rotation'[k] = NoRotation
        /\ req' \in [Slots -> Requests \cup {None}]
        /\ \A j \in Slots : j # k => rotation'[j] = rotation[j] /\ req'[j] = req[j]
        /\ stage[k] # "idle" => req'[k] = req[k]
    BY <2>2, CosignAssumption DEF Types, TypeOK
  <2>5. \A d \in Clients : histMu[d] # None =>
           stage[histMu[d]] = "write" /\ req'[histMu[d]].client = d
    BY <2>4, ZenonT(30) DEF Types, TypeOK
  <2>6. \A i \in Slots : stage[i] # "idle" \/ rotation'[i] # NoRotation => req'[i] # None
    BY <2>4, Zenon DEF Types, TypeOK
  <2> QED
    BY <2>2, <2>3, <2>4, <2>5, <2>6, Zenon DEF Types, TypeOK
<1>2. CASE rotationFails(k)
  BY <1>1, <1>2, CosignAssumption DEF rotationFails
<1>3. CASE savePresig(k)
  <2>1. rotation[k] > 0 /\ rotation[k] \in 0 .. MaxPresigs /\ EndRotation(k, rotation[k])
    BY <1>3, CosignAssumption DEF savePresig, Types, TypeOK
  <2> QED
    BY <1>1, <2>1
<1>4. ASSUME NEW j \in Slots, CMPPreSign(j, k) PROVE Types'
  <2>1. /\ rotation[j] = Running /\ rotation[k] = Running
        /\ next <= MaxPresigs /\ next' = next + 1
        /\ \/ rotation' = [rotation EXCEPT ![j] = next, ![k] = next]
           \/ rotation' = [rotation EXCEPT ![j] = next]
        /\ UNCHANGED <<clientVars, requestVars, relay, made, faults, historyVars>>
    BY <1>4, Zenon DEF CMPPreSign
  <2>2. next \in 1 .. MaxPresigs /\ next' \in 1 .. MaxPresigs + 1
    BY <2>1, CosignAssumption DEF Types, TypeOK
  <2>3. /\ rotation' \in [Slots -> Running .. MaxPresigs]
        /\ \A i \in Slots : rotation'[i] # NoRotation => rotation[i] # NoRotation
    <3>1. next \in Running .. MaxPresigs /\ rotation \in [Slots -> Running .. MaxPresigs]
      BY <2>2, CosignAssumption DEF Types, TypeOK
    <3>2. rotation' \in [Slots -> Running .. MaxPresigs]
      BY <2>1, <3>1, Zenon
    <3>3. \A i \in Slots : i \notin {j, k} => rotation'[i] = rotation[i]
      BY <2>1, <3>1, Zenon
    <3> QED
      BY <2>1, <3>2, <3>3
  <2>4. \A i \in Slots : stage[i] # "idle" \/ rotation'[i] # NoRotation => req[i] # None
    BY <2>3, Zenon DEF Types, TypeOK
  <2> QED
    BY <2>1, <2>2, <2>3, <2>4, SMTT(30) DEF Types, TypeOK, clientVars, requestVars, historyVars
<1> QED
  BY <1>2, <1>3, <1>4, Zenon

(* What happens to a client from outside. *)
LEMMA EnvironmentTypes ==
  ASSUME Types,
         \/ \E c \in Clients : clearCosignHistory(c) \/ Restart(c)
         \/ \E m \in relay : Lose(m)
  PROVE  Types'
<1>1. ASSUME NEW c \in Clients, clearCosignHistory(c) PROVE Types'
  <2>1. /\ history' = [history EXCEPT ![c] = <<>>]
        /\ forgotten' = [forgotten EXCEPT ![c] = @ \cup Accepted(history[c])]
        /\ made < MaxRequests /\ made' = made + 1
        /\ UNCHANGED <<presig, cosignBusy, histMu, requestVars, rotation, relay, faults,
                       next, used, released, raced>>
    BY <1>1, Zenon DEF clearCosignHistory, MakeRequest, Forget
  <2>2. Accepted(history[c]) \subseteq Swaps
    BY AcceptedType, Zenon DEF Types
  <2>3. forgotten' \in [Clients -> SUBSET Swaps]
    BY <2>1, <2>2, Zenon DEF Types, TypeOK
  <2>4. history' \in [Clients -> Seq(Event)]
    <3>1. <<>> \in Seq(Event) /\ history \in [Clients -> Seq(Event)]
      BY DEF Types
    <3> QED
      BY <2>1, <3>1, Zenon
  <2>5. \A d \in Clients : Len(history'[d]) <= HistoryMax /\ \A i \in DOMAIN history'[d] : history'[d][i] \in Event
    <3>1. \A d \in Clients : history'[d] = history[d] \/ history'[d] = <<>>
      BY <2>1, Zenon DEF Types
    <3>2. \A d \in Clients : Len(history'[d]) <= HistoryMax
      <4>1. Len(<<>>) <= HistoryMax
        BY CosignAssumption
      <4>2. \A d \in Clients : Len(history[d]) <= HistoryMax
        BY Zenon DEF Types, TypeOK
      <4> QED
        BY <3>1, <4>1, <4>2, Zenon
    <3>3. \A d \in Clients : \A i \in DOMAIN history'[d] : history'[d][i] \in Event
      BY <2>4
    <3> QED
      BY <3>2, <3>3, Zenon
  <2>6. made' \in 0 .. MaxRequests
    BY <2>1, CosignAssumption DEF Types, TypeOK
  <2> QED
    BY <2>1, <2>3, <2>4, <2>5, <2>6, SMTT(30) DEF Types, TypeOK, requestVars
<1>2. ASSUME NEW m \in relay, Lose(m) PROVE Types'
  <2>1. /\ faults < MaxFaults /\ faults' = faults + 1 /\ relay' = relay \ {m}
        /\ UNCHANGED <<clientVars, requestVars, rotation, made, next, historyVars>>
    BY <1>2, Zenon DEF Lose, Fault
  <2>2. faults' \in 0 .. MaxFaults
    BY <2>1, CosignAssumption, SMTT(30) DEF Types, TypeOK
  <2> QED
    BY <2>1, <2>2, Zenon DEF Types, TypeOK, clientVars, requestVars, historyVars
<1>3. ASSUME NEW c \in Clients, Restart(c) PROVE Types'
  <2> DEFINE mine == {k \in Slots : req[k] # None /\ req[k].client = c}
  <2>1. /\ stage' = [k \in Slots |-> IF k \in mine THEN "idle" ELSE stage[k]]
        /\ req' = [k \in Slots |-> IF k \in mine THEN None ELSE req[k]]
        /\ list' = [k \in Slots |-> IF k \in mine THEN <<>> ELSE list[k]]
        /\ rotation' = [k \in Slots |-> IF k \in mine THEN NoRotation ELSE rotation[k]]
        /\ cosignBusy' = [cosignBusy EXCEPT ![c] = {}]
        /\ histMu' = [histMu EXCEPT ![c] = None]
        /\ raced' = IF \E k \in mine : rotation[k] # NoRotation THEN raced \cup {c} ELSE raced
        /\ UNCHANGED <<presig, history, relay, made, next, used, released, forgotten>>
        /\ faults < MaxFaults /\ faults' = faults + 1
    BY <1>3, Zenon DEF Restart, Fault
  <2>2. /\ faults' \in 0 .. MaxFaults
        /\ cosignBusy' \in [Clients -> SUBSET Swaps]
        /\ raced' \subseteq Clients
        /\ rotation' \in [Slots -> Running .. MaxPresigs]
        /\ stage' \in [Slots -> Stages]
        /\ req' \in [Slots -> Requests \cup {None}]
    BY <2>1, CosignAssumption, SMTT(30) DEF Types, TypeOK, Stages, NoRotation, Running
  <2>3. list' \in [Slots -> Seq(Event)]
    <3>1. \A k \in Slots : list[k] \in Seq(Event)
      BY Zenon DEF Types
    <3>2. <<>> \in Seq(Event)
      OBVIOUS
    <3> HIDE DEF mine
    <3> QED
      BY <2>1, <3>1, <3>2, Zenon
  <2>4. histMu' \in [Clients -> Slots \cup {None}]
    BY <2>1, Zenon DEF Types
  <2>5. ASSUME NEW d \in Clients, histMu'[d] # None
        PROVE  stage'[histMu'[d]] = "write" /\ req'[histMu'[d]].client = d
    <3>1. d # c /\ histMu'[d] = histMu[d]
      BY <2>1, <2>5, Zenon DEF Types
    <3>2. histMu[d] \in Slots /\ stage[histMu[d]] = "write" /\ req[histMu[d]].client = d
      BY <2>5, <3>1, Zenon DEF Types, TypeOK
    <3>3. histMu[d] \notin mine
      BY <3>1, <3>2, Zenon
    <3> QED
      BY <2>1, <3>1, <3>2, <3>3, Zenon
  <2>6. \A i \in Slots : stage'[i] # "idle" \/ rotation'[i] # NoRotation => req'[i] # None
    BY <2>1, Zenon DEF Types, TypeOK
  <2> QED
    BY <2>1, <2>2, <2>3, <2>4, <2>5, <2>6, Zenon DEF Types, TypeOK
<1> QED
  BY <1>1, <1>2, <1>3, Zenon

LEMMA InitTypes ==
  ASSUME Init
  PROVE  Types
<1>1. <<>> \in Seq(Event)
  OBVIOUS
<1>2. \A c \in Clients : history[c] = <<>>
  BY Zenon DEF Init
<1>3. \A c \in Clients : Len(history[c]) = 0 /\ DOMAIN history[c] = {}
  BY <1>2
<1>4. \A c \in Clients : Len(history[c]) <= HistoryMax
  BY <1>3, CosignAssumption
<1>5. history \in [Clients -> Seq(Event)] /\ list \in [Slots -> Seq(Event)]
  BY <1>1, Zenon DEF Init
<1> QED
  BY <1>3, <1>4, <1>5, CosignAssumption DEF Init, Types, TypeOK, Stages, NoRotation, Running

LEMMA NextTypes ==
  ASSUME Types, [Next]_vars
  PROVE  Types'
<1>1. CASE UNCHANGED vars
  BY <1>1, Zenon DEF Types, TypeOK, vars, clientVars, requestVars, envVars, historyVars
<1>2. CASE Next
  BY <1>2, BeginTypes, MessageTypes, RequestTypes, HistoryTypes, RotationTypes, EnvironmentTypes, SMTT(30)
     DEF Next
<1> QED
  BY <1>1, <1>2, SMTT(30)


-----------------------------------------------------------------------------
(* What the types say, in the form the other proofs use. *)
LEMMA Shapes ==
  ASSUME Types
  PROVE  /\ presig \in [Clients -> 0 .. MaxPresigs]
         /\ history \in [Clients -> Seq(Event)]
         /\ cosignBusy \in [Clients -> SUBSET Swaps]
         /\ histMu \in [Clients -> Slots \cup {None}]
         /\ stage \in [Slots -> Stages]
         /\ req \in [Slots -> Requests \cup {None}]
         /\ list \in [Slots -> Seq(Event)]
         /\ rotation \in [Slots -> Running .. MaxPresigs]
         /\ forgotten \in [Clients -> SUBSET Swaps]
         /\ next \in Nat /\ next >= 1
<1>1. next \in 1 .. MaxPresigs + 1
  BY Zenon DEF Types, TypeOK
<1> QED
  BY <1>1, CosignAssumption DEF Types, TypeOK

LEMMA ClientOf ==
  ASSUME Types, NEW k \in Slots, stage[k] # "idle" \/ rotation[k] # NoRotation
  PROVE  /\ req[k] \in Requests /\ req[k] # None
         /\ req[k].client \in Clients
         /\ OwnSwap(req[k]) \subseteq Swaps
<1>1. req[k] \in Requests
  BY Zenon DEF Types, TypeOK
<1> QED
  BY <1>1, RequestType, Zenon

LEMMA PastShapes ==
  ASSUME Types
  PROVE  /\ \A m \in relay : m.hash \in Hashes /\ m.presig # 0
         /\ \A x \in used : x.presig \in Nat /\ x.presig # 0
         /\ \A x \in released : x.client \in Clients
  BY DEF Types, TypeOK

-----------------------------------------------------------------------------
(* Presignatures are used once.                                            *)

Rotates(c) == \E k \in Slots : rotation[k] # NoRotation /\ req[k].client = c

(* Client c has signed with presignature p. *)
Used(c, p) == \E x \in used : x.client = c /\ x.presig = p

(* The presignatures in use have come out of the protocol. *)
NextInv ==
  /\ \A c \in Clients : presig[c] < next
  /\ \A k \in Slots : rotation[k] < next
  /\ \A x \in used : x.presig < next

(* A stored presignature that was used is about to be replaced by one that *)
(* was not.                                                                *)
FreshInv ==
  \A c \in Clients \ raced :
    /\ Used(c, presig[c]) => Rotates(c)
    /\ \A k \in Slots : rotation[k] > 0 /\ req[k].client = c => ~ Used(c, rotation[k])

PresigInv == Types /\ NextInv /\ FreshInv /\ SingleUse

(* Slot k signs h with the presignature of client c. *)
Uses(k, c, h) ==
  /\ UsePresig(k, c, presig[c], h)
  /\ presig[c] # 0
  /\ rotation[k] # NoRotation => req[k].client = c
  /\ req'[k].client = c
  /\ \A j \in Slots : rotation[j] # NoRotation /\ j # k => req'[j] = req[j]
  /\ UNCHANGED <<presig, next>>

(* Nothing happens to presignatures. *)
Leaves ==
  /\ UNCHANGED <<presig, next, rotation, used, raced>>
  /\ \A j \in Slots : rotation[j] # NoRotation => req'[j] = req[j]

LEMMA LeavesKeeps ==
  ASSUME PresigInv, Types', Leaves
  PROVE  PresigInv'
<1>1. NextInv' /\ SingleUse'
  BY Zenon DEF PresigInv, NextInv, SingleUse, Leaves
<1>2. \A c \in Clients : Rotates(c) => Rotates(c)'
  BY Zenon DEF Rotates, Leaves
<1>3. \A c, p : Used(c, p)' <=> Used(c, p)
  BY Zenon DEF Used, Leaves
<1>4. \A k \in Slots : rotation[k] > 0 => rotation[k] # NoRotation
  BY DEF NoRotation
<1>5. FreshInv'
  <2> SUFFICES ASSUME NEW c \in Clients \ raced
               PROVE  /\ Used(c, presig[c]) => Rotates(c)'
                      /\ \A k \in Slots : rotation[k] > 0 /\ req'[k].client = c => ~ Used(c, rotation[k])
    BY <1>3 DEF FreshInv, Leaves, Used
  <2> QED
    BY <1>2, <1>4, Zenon DEF PresigInv, FreshInv, Leaves
<1> QED
  BY <1>1, <1>5, Zenon DEF PresigInv

LEMMA UsesKeeps ==
  ASSUME PresigInv, Types', NEW k \in Slots, NEW c \in Clients, NEW h \in Hashes, Uses(k, c, h)
  PROVE  PresigInv'
<1> DEFINE p == presig[c]
<1> DEFINE u == [client |-> c, presig |-> p, hash |-> h]
<1> USE DEF NoRotation, Running
<1>1. /\ used' = used \cup {u} /\ p # 0 /\ presig' = presig /\ next' = next
      /\ rotation' = [rotation EXCEPT ![k] = Running]
      /\ raced' = IF Rotates(c) THEN raced \cup {c} ELSE raced
  BY Zenon DEF Uses, UsePresig, Rotates
<1>2. /\ p \in 1 .. MaxPresigs /\ p < next /\ next \in Nat /\ next >= 1
  BY <1>1, CosignAssumption, Shapes DEF PresigInv, NextInv
<1>3. /\ rotation'[k] = Running /\ \A j \in Slots : j # k => rotation'[j] = rotation[j]
  BY <1>1, Shapes, Zenon DEF PresigInv
<1>4. u.client = c /\ u.presig = p /\ u.hash = h
  BY Zenon
<1> HIDE DEF p, u
<1>5. NextInv'
  <2>1. \A j \in Slots : rotation'[j] < next
    BY <1>2, <1>3 DEF PresigInv, NextInv
  <2>2. \A x \in used' : x.presig < next
    BY <1>1, <1>2, <1>4, Zenon DEF PresigInv, NextInv
  <2> QED
    BY <1>1, <2>1, <2>2, Zenon DEF PresigInv, NextInv
<1>6. \A d, q : Used(d, q)' <=> Used(d, q) \/ (d = c /\ q = p)
  BY <1>1, <1>4, Zenon DEF Used
<1>7. Rotates(c)'
  BY <1>3 DEF Rotates, Uses
<1>8. \A d \in Clients : Rotates(d) => Rotates(d)'
  <2> SUFFICES ASSUME NEW d \in Clients, NEW j \in Slots, rotation[j] # NoRotation, req[j].client = d
               PROVE  Rotates(d)'
    BY Zenon DEF Rotates
  <2>1. CASE j = k
    BY <1>7, <2>1, Zenon DEF Uses
  <2>2. CASE j # k
    BY <1>3, <2>2, Zenon DEF Rotates, Uses
  <2> QED
    BY <2>1, <2>2, SMTT(30)
<1>9. ASSUME c \notin raced' PROVE ~ Rotates(c) /\ ~ Used(c, p)
  BY <1>1, <1>9, Zenon DEF PresigInv, FreshInv, p
<1>10. FreshInv'
  <2> SUFFICES ASSUME NEW d \in Clients \ raced'
               PROVE  /\ Used(d, presig[d])' => Rotates(d)'
                      /\ \A j \in Slots : rotation'[j] > 0 /\ req'[j].client = d => ~ Used(d, rotation[j])'
    BY <1>1, Zenon DEF FreshInv
  <2>1. d \notin raced
    BY <1>1, SMTT(30)
  <2>2. CASE d = c
    <3>1. \A j \in Slots : rotation'[j] > 0 => j # k /\ rotation[j] # NoRotation
      BY <1>3
    <3>2. \A j \in Slots : rotation'[j] > 0 => req'[j].client # c
      BY <1>9, <2>2, <3>1, Zenon DEF Rotates, Uses
    <3> QED
      BY <1>7, <2>2, <3>2, Zenon
  <2>3. CASE d # c
    <3>1. Used(d, presig[d]) => Rotates(d)
      BY <2>1, Zenon DEF PresigInv, FreshInv
    <3>2. ASSUME NEW j \in Slots, rotation'[j] > 0, req'[j].client = d PROVE ~ Used(d, rotation'[j])
      <4>1. j # k /\ rotation'[j] = rotation[j] /\ rotation[j] # NoRotation
        BY <1>3, <3>2, SMTT(30)
      <4>2. req[j].client = d
        BY <3>2, <4>1, Zenon DEF Uses
      <4> QED
        BY <2>1, <3>2, <4>1, <4>2, Zenon DEF PresigInv, FreshInv
    <3> QED
      BY <1>1, <1>6, <1>8, <2>3, <3>1, <3>2, Zenon
  <2> QED
    BY <2>2, <2>3, SMTT(30)
<1>11. SingleUse'
  <2> SUFFICES ASSUME NEW x \in used', NEW y \in used', x.client = y.client, x.presig = y.presig,
                      x.client \notin raced'
               PROVE  x.hash = y.hash
    BY Zenon DEF SingleUse
  <2>1. x.client \notin raced
    BY <1>1, Zenon
  <2>2. CASE x \in used /\ y \in used
    BY <2>1, <2>2, Zenon DEF PresigInv, SingleUse
  <2>3. CASE x = u /\ y = u
    BY <2>3, Zenon
  <2>4. CASE \/ x = u /\ y \in used
             \/ y = u /\ x \in used
    BY <1>4, <1>9, <2>4, Zenon DEF Used
  <2> QED
    BY <1>1, <2>2, <2>3, <2>4, Zenon
<1> QED
  BY <1>5, <1>10, <1>11, Zenon DEF PresigInv

LEMMA EndRotationKeeps ==
  ASSUME PresigInv, Types', NEW k \in Slots, rotationFails(k) \/ savePresig(k)
  PROVE  PresigInv'
<1> DEFINE c == req[k].client
<1> USE DEF NoRotation, Running
<1>1. rotation[k] # NoRotation /\ c \in Clients
  BY ClientOf DEF rotationFails, savePresig, PresigInv
<1>2. PICK p : EndRotation(k, p) /\ (p = 0 \/ (rotation[k] > 0 /\ p = rotation[k]))
  BY Zenon DEF rotationFails, savePresig
<1>3. /\ rotation' = [rotation EXCEPT ![k] = NoRotation]
      /\ used' = used /\ next' = next
      /\ \/ presig' = [presig EXCEPT ![c] = p] /\ raced' = raced
         \/ raced' = raced \cup {c} /\ presig' = presig
      /\ req' = IF stage[k] = "idle" THEN [req EXCEPT ![k] = None] ELSE req
  BY <1>2, Zenon DEF EndRotation
<1> HIDE DEF c
<1>4. /\ rotation'[k] = NoRotation
      /\ \A j \in Slots : j # k => rotation'[j] = rotation[j] /\ req'[j] = req[j]
  BY <1>3, Shapes, Zenon DEF PresigInv
<1>5. p < next /\ next \in Nat /\ next >= 1
  BY <1>2, Shapes, SMTT(30) DEF PresigInv, NextInv
<1>6. /\ \A d \in Clients : d # c => presig'[d] = presig[d]
      /\ presig'[c] = p \/ (c \in raced' /\ presig'[c] = presig[c])
      /\ raced \subseteq raced'
  BY <1>1, <1>3, Shapes, Zenon DEF PresigInv
<1>7. NextInv'
  <2>1. \A j \in Slots : rotation'[j] < next
    BY <1>4, <1>5 DEF PresigInv, NextInv
  <2>2. \A d \in Clients : presig'[d] < next
    BY <1>5, <1>6, Zenon DEF PresigInv, NextInv
  <2> QED
    BY <1>3, <2>1, <2>2, Zenon DEF PresigInv, NextInv
<1>8. \A d, q : Used(d, q)' <=> Used(d, q)
  BY <1>3, Zenon DEF Used
<1>9. \A d \in Clients : d # c /\ Rotates(d) => Rotates(d)'
  BY <1>4, Zenon DEF Rotates, c
<1>10. ASSUME c \notin raced PROVE ~ Used(c, p)
  <2>1. CASE p = 0
    BY <2>1, PastShapes, Zenon DEF Used, PresigInv
  <2>2. CASE rotation[k] > 0 /\ p = rotation[k]
    BY <1>1, <1>10, <2>2, SMTT(30) DEF PresigInv, FreshInv, c
  <2> QED
    BY <1>2, <2>1, <2>2, Zenon
<1>11. FreshInv'
  <2> SUFFICES ASSUME NEW d \in Clients \ raced'
               PROVE  /\ Used(d, presig'[d]) => Rotates(d)'
                      /\ \A j \in Slots : rotation'[j] > 0 /\ req'[j].client = d => ~ Used(d, rotation'[j])
    BY <1>3, Zenon DEF FreshInv, Used
  <2>1. d \notin raced
    BY <1>6, Zenon
  <2>2. Used(d, presig'[d]) => Rotates(d)'
    <3>1. CASE d = c
      BY <1>6, <1>10, <2>1, <3>1, Zenon
    <3>2. CASE d # c
      BY <1>6, <1>9, <2>1, <3>2, Zenon DEF PresigInv, FreshInv
    <3> QED
      BY <3>1, <3>2, Zenon
  <2>3. ASSUME NEW j \in Slots, rotation'[j] > 0, req'[j].client = d PROVE ~ Used(d, rotation'[j])
    <3>1. j # k
      BY <1>4, <2>3, SMTT(30)
    <3> QED
      BY <1>4, <2>1, <2>3, <3>1, Zenon DEF PresigInv, FreshInv
  <2> QED
    BY <2>2, <2>3, Zenon
<1>12. SingleUse'
  BY <1>3, <1>6, Zenon DEF PresigInv, SingleUse
<1> QED
  BY <1>7, <1>11, <1>12, Zenon DEF PresigInv

LEMMA PreSignKeeps ==
  ASSUME PresigInv, Types', NEW j \in Slots, NEW k \in Slots, CMPPreSign(j, k)
  PROVE  PresigInv'
<1> USE DEF NoRotation, Running
<1>1. /\ rotation[j] = Running /\ rotation[k] = Running /\ next' = next + 1
      /\ \/ rotation' = [rotation EXCEPT ![j] = next, ![k] = next]
         \/ rotation' = [rotation EXCEPT ![j] = next]
      /\ presig' = presig /\ req' = req /\ used' = used /\ raced' = raced
  BY Zenon DEF CMPPreSign, clientVars, requestVars, historyVars
<1>2. next \in Nat /\ next >= 1 /\ rotation \in [Slots -> Running .. MaxPresigs]
  BY Shapes, Zenon DEF PresigInv
<1>3. \A i \in Slots : /\ rotation'[i] = rotation[i] \/ rotation'[i] = next
                       /\ rotation[i] # NoRotation => rotation'[i] # NoRotation
  <2>1. \A i \in Slots : rotation'[i] = rotation[i] \/ rotation'[i] = next
    BY <1>1, <1>2, Zenon
  <2> QED
    BY <1>2, <2>1
<1>4. /\ presig \in [Clients -> 0 .. MaxPresigs]
      /\ \A x \in used : x.presig \in Nat
  BY Shapes, PastShapes, Zenon DEF PresigInv
<1>5. NextInv'
  <2>1. \A c \in Clients : presig[c] < next + 1
    BY <1>2, <1>4 DEF PresigInv, NextInv
  <2>2. \A i \in Slots : rotation'[i] < next + 1
    BY <1>2, <1>3 DEF PresigInv, NextInv
  <2>3. \A x \in used : x.presig \in Nat /\ x.presig < next
    BY <1>4, Zenon DEF PresigInv, NextInv
  <2>4. \A x \in used : x.presig < next + 1
    BY <1>2, <2>3
  <2> QED
    BY <1>1, <2>1, <2>2, <2>4, Zenon DEF NextInv
<1>6. \A c \in Clients : ~ Used(c, next)
  <2>1. \A x \in used : x.presig \in Nat /\ x.presig < next
    BY <1>4, Zenon DEF PresigInv, NextInv
  <2> QED
    BY <1>2, <2>1 DEF Used
<1>7. \A c \in Clients : Rotates(c) => Rotates(c)'
  BY <1>1, <1>3, Zenon DEF Rotates
<1>8. FreshInv'
  <2> SUFFICES ASSUME NEW c \in Clients \ raced
               PROVE  /\ Used(c, presig[c]) => Rotates(c)'
                      /\ \A i \in Slots : rotation'[i] > 0 /\ req[i].client = c => ~ Used(c, rotation'[i])
    BY <1>1, Zenon DEF FreshInv, Used
  <2> QED
    BY <1>3, <1>6, <1>7, Zenon DEF PresigInv, FreshInv
<1>9. SingleUse'
  BY <1>1, Zenon DEF PresigInv, SingleUse
<1> QED
  BY <1>5, <1>8, <1>9, Zenon DEF PresigInv

LEMMA RestartPresigs ==
  ASSUME PresigInv, Types', NEW c \in Clients, Restart(c)
  PROVE  PresigInv'
<1> DEFINE mine == {k \in Slots : req[k] # None /\ req[k].client = c}
<1> USE DEF NoRotation, Running
<1>1. /\ req' = [k \in Slots |-> IF k \in mine THEN None ELSE req[k]]
      /\ rotation' = [k \in Slots |-> IF k \in mine THEN NoRotation ELSE rotation[k]]
      /\ raced' = IF \E k \in mine : rotation[k] # NoRotation THEN raced \cup {c} ELSE raced
      /\ presig' = presig /\ next' = next /\ used' = used
  BY Zenon DEF Restart
<1>2. \A k \in Slots : rotation[k] # NoRotation => req[k] # None
  BY ClientOf, Zenon DEF PresigInv
<1>3. \A k \in Slots : \/ k \in mine /\ rotation'[k] = NoRotation
                       \/ k \notin mine /\ rotation'[k] = rotation[k] /\ req'[k] = req[k]
  BY <1>1, Zenon
<1>4. Rotates(c) => c \in raced'
  BY <1>1, <1>2, SMTT(30) DEF Rotates
<1>5. \A d \in Clients : d # c /\ Rotates(d) => Rotates(d)'
  BY <1>3, Zenon DEF Rotates
<1>6. raced \subseteq raced'
  BY <1>1, Zenon
<1>7. NextInv'
  <2>1. \A k \in Slots : rotation'[k] < next
    <3>1. next \in Nat /\ next >= 1
      BY Shapes, Zenon DEF PresigInv
    <3>2. \A k \in Slots : rotation[k] < next
      BY Zenon DEF PresigInv, NextInv
    <3>3. NoRotation < next
      BY <3>1
    <3> HIDE DEF mine
    <3> QED
      BY <1>3, <3>2, <3>3, Zenon
  <2> QED
    BY <1>1, <2>1, Zenon DEF PresigInv, NextInv
<1>8. FreshInv'
  <2> SUFFICES ASSUME NEW d \in Clients \ raced'
               PROVE  /\ Used(d, presig[d]) => Rotates(d)'
                      /\ \A i \in Slots : rotation'[i] > 0 /\ req'[i].client = d => ~ Used(d, rotation'[i])
    BY <1>1, Zenon DEF FreshInv, Used
  <2>1. d \notin raced
    BY <1>6, Zenon
  <2>2. Used(d, presig[d]) => Rotates(d)'
    BY <1>4, <1>5, <2>1, Zenon DEF PresigInv, FreshInv
  <2>3. \A i \in Slots : rotation'[i] > 0 => rotation'[i] = rotation[i] /\ req'[i] = req[i]
    BY <1>3
  <2> QED
    BY <2>1, <2>2, <2>3, Zenon DEF PresigInv, FreshInv
<1>9. SingleUse'
  BY <1>1, <1>6, Zenon DEF PresigInv, SingleUse
<1> QED
  BY <1>7, <1>8, <1>9, Zenon DEF PresigInv

LEMMA UseKinds ==
  ASSUME PresigInv, NEW k \in Slots,
         \/ \E r \in Requests : sendECDSA(k, r)
         \/ \E m \in relay : CoSign(k, m)
  PROVE  \E c \in Clients, h \in Hashes : Uses(k, c, h)
<1>1. ASSUME NEW r \in Requests, sendECDSA(k, r) PROVE Uses(k, r.client, r.hash)
  <2>1. /\ rotation[k] = NoRotation /\ req' = [req EXCEPT ![k] = r]
        /\ presig[r.client] # 0 /\ UsePresig(k, r.client, presig[r.client], r.hash)
        /\ UNCHANGED <<presig, next>>
    BY <1>1, Zenon DEF sendECDSA, Begin, Free, clientVars
  <2>2. req'[k] = r /\ \A j \in Slots : j # k => req'[j] = req[j]
    BY <2>1, Shapes, Zenon DEF PresigInv
  <2> QED
    BY <2>1, <2>2, Zenon DEF Uses
<1>2. ASSUME NEW m \in relay, CoSign(k, m) PROVE Uses(k, req[k].client, m.hash)
  <2>1. /\ UsePresig(k, req[k].client, m.presig, m.hash) /\ m.presig = presig[req[k].client]
        /\ UNCHANGED <<presig, next, req>>
    BY <1>2, Zenon DEF CoSign, completes, clientVars
  <2>2. m.presig # 0
    BY PastShapes, Zenon DEF PresigInv
  <2> QED
    BY <2>1, <2>2, Zenon DEF Uses
<1>3. \A r \in Requests : r.client \in Clients /\ r.hash \in Hashes
  BY RequestType, Zenon
<1>4. \A m \in relay : m.hash \in Hashes
  BY PastShapes, Zenon DEF PresigInv
<1>5. ASSUME NEW m \in relay, CoSign(k, m) PROVE req[k].client \in Clients
  BY <1>5, ClientOf, Zenon DEF CoSign, Receive, PresigInv
<1> QED
  BY <1>1, <1>2, <1>3, <1>4, <1>5, Zenon

LEMMA LeaveKinds ==
  ASSUME PresigInv,
         \/ UNCHANGED vars
         \/ \E k \in Slots, r \in Requests :
              sendFROST(k, r) \/ accept(k, r) \/ completeCosign(k, r) \/ sendTransaction(k, r)
         \/ \E k \in Slots, m \in relay : RefuseMessage(k, m)
         \/ \E k \in Slots : GiveUp(k) \/ loadCosignHistory(k) \/ recordCosign(k) \/ Answer(k)
         \/ \E j, k \in Slots : FrostExchange(j, k)
         \/ \E c \in Clients : clearCosignHistory(c)
         \/ \E m \in relay : Lose(m)
  PROVE  Leaves
<1>1. CASE UNCHANGED vars
  BY <1>1, Zenon DEF Leaves, vars, clientVars, requestVars, envVars, historyVars
<1>2. ASSUME NEW k \in Slots, NEW r \in Requests,
             sendFROST(k, r) \/ accept(k, r) \/ completeCosign(k, r) \/ sendTransaction(k, r)
      PROVE  Leaves
  <2>1. /\ rotation[k] = NoRotation /\ req' = [req EXCEPT ![k] = r]
        /\ UNCHANGED <<presig, next, rotation, used, raced>>
    BY <1>2, Zenon DEF sendFROST, accept, completeCosign, sendTransaction, Begin, Free, clientVars,
                historyVars
  <2>2. \A j \in Slots : j # k => req'[j] = req[j]
    BY <2>1, Shapes, Zenon DEF PresigInv
  <2> QED
    BY <2>1, <2>2, Zenon DEF Leaves
<1>3. ASSUME NEW k \in Slots, Finish(k), UNCHANGED <<presig, next, rotation, used, raced>>
      PROVE  Leaves
  BY <1>3, Shapes, Zenon DEF Finish, Leaves, PresigInv
<1>4. ASSUME NEW k \in Slots, GiveUp(k) \/ Answer(k) \/ \E m \in relay : RefuseMessage(k, m)
      PROVE  Leaves
  BY <1>3, <1>4, Zenon DEF GiveUp, Answer, RefuseMessage, envVars, historyVars
<1>5. ASSUME NEW k \in Slots, loadCosignHistory(k) \/ recordCosign(k) PROVE Leaves
  BY <1>5, Zenon DEF loadCosignHistory, recordCosign, Leaves
<1>6. ASSUME NEW j \in Slots, NEW k \in Slots, FrostExchange(j, k) PROVE Leaves
  BY <1>6, Zenon DEF FrostExchange, Leaves, clientVars, envVars, historyVars
<1>7. ASSUME NEW c \in Clients, clearCosignHistory(c) PROVE Leaves
  BY <1>7, Zenon DEF clearCosignHistory, Leaves, requestVars
<1>8. ASSUME NEW m \in relay, Lose(m) PROVE Leaves
  BY <1>8, Zenon DEF Lose, Leaves, clientVars, requestVars, historyVars
<1> QED
  BY <1>1, <1>2, <1>4, <1>5, <1>6, <1>7, <1>8, Zenon

(* The invariant is inductive. *)
LEMMA PresigInvariance == Spec => []PresigInv
<1>1. Init => PresigInv
  <2>1. SUFFICES ASSUME Init PROVE NextInv /\ FreshInv /\ SingleUse
    BY InitTypes, Zenon DEF PresigInv
  <2>2. NextInv
    BY <2>1, SMTT(30) DEF Init, NextInv, NoRotation
  <2> QED
    BY <2>1, <2>2, Zenon DEF Init, FreshInv, SingleUse, Used, NoRotation
<1>2. PresigInv /\ [Next]_vars => PresigInv'
  <2> SUFFICES ASSUME PresigInv, [Next]_vars PROVE PresigInv'
    BY Zenon
  <2>1. Types'
    BY NextTypes, Zenon DEF PresigInv
  <2>2. CASE \/ UNCHANGED vars
             \/ \E k \in Slots, r \in Requests :
                  sendFROST(k, r) \/ accept(k, r) \/ completeCosign(k, r) \/ sendTransaction(k, r)
             \/ \E k \in Slots, m \in relay : RefuseMessage(k, m)
             \/ \E k \in Slots : GiveUp(k) \/ loadCosignHistory(k) \/ recordCosign(k) \/ Answer(k)
             \/ \E j, k \in Slots : FrostExchange(j, k)
             \/ \E c \in Clients : clearCosignHistory(c)
             \/ \E m \in relay : Lose(m)
    BY <2>1, <2>2, LeaveKinds, LeavesKeeps, Zenon
  <2>3. CASE \/ \E k \in Slots, r \in Requests : sendECDSA(k, r)
             \/ \E k \in Slots, m \in relay : CoSign(k, m)
    BY <2>1, <2>3, UseKinds, UsesKeeps, Zenon
  <2>4. CASE \E k \in Slots : rotationFails(k) \/ savePresig(k)
    BY <2>1, <2>4, EndRotationKeeps, Zenon
  <2>5. CASE \E j, k \in Slots : CMPPreSign(j, k)
    BY <2>1, <2>5, PreSignKeeps, Zenon
  <2>6. CASE \E c \in Clients : Restart(c)
    BY <2>1, <2>6, RestartPresigs, Zenon
  <2> QED
    BY <2>2, <2>3, <2>4, <2>5, <2>6, Zenon DEF Next
<1> QED
  BY <1>1, <1>2, PTL DEF Spec

(* Unless it signs while a rotation is under way or loses one to a restart *)
(* or a storage error, a client never uses a presignature for two          *)
(* transactions: rotateECDSAPresign replaces or deletes it.                *)
THEOREM PresigsUsedOnce == Spec => []SingleUse
<1>1. PresigInv => SingleUse
  BY Zenon DEF PresigInv
<1> QED
  BY PresigInvariance, <1>1, PTL

-----------------------------------------------------------------------------
(* The clients' presignatures agree.                                       *)

(* Two clients that let each rotation end have at most one each.  What     *)
(* both are to save is the same, and a client that is done has saved it or *)
(* deleted what it had.                                                    *)
OneRotation ==
  \A j, k \in Slots :
    /\ rotation[j] # NoRotation /\ rotation[k] # NoRotation
    /\ req[j].client = req[k].client
    => j = k

OneToSave ==
  \A j, k \in Slots : rotation[j] > 0 /\ rotation[k] > 0 => rotation[j] = rotation[k]

SavedAgree ==
  \A k \in Slots, d \in Clients :
    rotation[k] > 0 /\ ~ Rotates(d) => presig[d] \in {0, rotation[k]}

StoredAgree ==
  \A c, d \in Clients : ~ Rotates(c) /\ ~ Rotates(d) =>
    0 \in {presig[c], presig[d]} \/ presig[c] = presig[d]

AgreeInv == raced = {} => OneRotation /\ OneToSave /\ SavedAgree /\ StoredAgree

LEMMA TwoClients ==
  ASSUME NEW a \in Clients, NEW b \in Clients, a # b, NEW c \in Clients
  PROVE  c = a \/ c = b
<1>1. /\ IsFiniteSet({a} \cup {b}) /\ Cardinality({a} \cup {b}) = 2
      /\ {a} \cup {b} \in SUBSET Clients
  <2>1. IsFiniteSet({a}) /\ Cardinality({a}) = 1
    BY FS_Singleton, Zenon
  <2>2. /\ IsFiniteSet({a} \cup {b})
        /\ Cardinality({a} \cup {b}) = IF b \in {a} THEN Cardinality({a}) ELSE Cardinality({a}) + 1
    BY <2>1, FS_AddElement, Zenon
  <2> QED
    BY <2>1, <2>2
<1>2. Clients = {a} \cup {b}
  BY <1>1, FS_Subset, CosignAssumption, Zenon
<1> QED
  BY <1>2, Zenon

(* As long as rotations stay as they are, so does the agreement. *)
LEMMA SameRotations ==
  ASSUME PresigInv, AgreeInv, raced' = raced, presig' = presig,
         \A k \in Slots : rotation'[k] = rotation[k],
         \A k \in Slots : rotation[k] # NoRotation => req'[k] = req[k]
  PROVE  AgreeInv'
<1>1. \A d \in Clients : Rotates(d)' <=> Rotates(d)
  BY Zenon DEF Rotates
<1>2. (OneRotation => OneRotation') /\ (OneToSave => OneToSave')
  BY Zenon DEF OneRotation, OneToSave
<1>3. (SavedAgree => SavedAgree') /\ (StoredAgree => StoredAgree')
  BY <1>1, Zenon DEF SavedAgree, StoredAgree
<1> QED
  BY <1>2, <1>3, Zenon DEF AgreeInv

LEMMA UsesAgree ==
  ASSUME PresigInv, AgreeInv, NEW k \in Slots, NEW c \in Clients, NEW h \in Hashes, Uses(k, c, h)
  PROVE  AgreeInv'
<1> SUFFICES ASSUME raced' = {}
             PROVE  AgreeInv'
  BY Zenon DEF AgreeInv
<1>1. /\ rotation' = [rotation EXCEPT ![k] = Running] /\ presig' = presig
      /\ raced' = IF Rotates(c) THEN raced \cup {c} ELSE raced
  BY Zenon DEF Uses, UsePresig, Rotates
<1>2. ~ Rotates(c) /\ raced = {}
  BY <1>1, Zenon
<1>3. rotation'[k] = Running /\ \A j \in Slots \ {k} : rotation'[j] = rotation[j]
  BY <1>1, Shapes, Zenon DEF PresigInv
<1>4. Running # NoRotation /\ ~ Running > 0
  BY DEF Running, NoRotation
<1>5. /\ req'[k].client = c /\ (rotation[k] # NoRotation => req[k].client = c)
      /\ \A j \in Slots \ {k} : rotation[j] # NoRotation => req'[j] = req[j]
  BY Zenon DEF Uses
<1>6. \A j \in Slots \ {k} : rotation'[j] # NoRotation =>
         rotation[j] # NoRotation /\ req'[j] = req[j] /\ req[j].client # c
  BY <1>2, <1>3, <1>5, Zenon DEF Rotates
<1>7. \A d \in Clients : ~ Rotates(d)' => ~ Rotates(d)
  <2> SUFFICES ASSUME NEW d \in Clients, NEW j \in Slots, rotation[j] # NoRotation, req[j].client = d
               PROVE  Rotates(d)'
    BY Zenon DEF Rotates
  <2>1. j # k
    BY <1>2, <1>5, Zenon DEF Rotates
  <2> QED
    BY <1>3, <1>5, <2>1, Zenon DEF Rotates
<1>8. OneRotation'
  BY <1>2, <1>5, <1>6, Zenon DEF AgreeInv, OneRotation
<1>9. \A j \in Slots : rotation'[j] > 0 => rotation'[j] = rotation[j]
  BY <1>3, <1>4, Zenon
<1>10. OneToSave'
  BY <1>2, <1>9, Zenon DEF AgreeInv, OneToSave
<1>11. SavedAgree'
  BY <1>1, <1>2, <1>7, <1>9, Zenon DEF AgreeInv, SavedAgree
<1>12. StoredAgree'
  BY <1>1, <1>2, <1>7, Zenon DEF AgreeInv, StoredAgree
<1> QED
  BY <1>8, <1>10, <1>11, <1>12, Zenon DEF AgreeInv

LEMMA EndRotationAgree ==
  ASSUME PresigInv, AgreeInv, NEW k \in Slots, rotationFails(k) \/ savePresig(k)
  PROVE  AgreeInv'
<1> DEFINE c == req[k].client
<1> SUFFICES ASSUME raced' = {}
             PROVE  AgreeInv'
  BY Zenon DEF AgreeInv
<1>1. rotation[k] # NoRotation /\ c \in Clients
  BY ClientOf DEF rotationFails, savePresig, PresigInv, NoRotation, Running
<1>2. PICK p : EndRotation(k, p) /\ (p = 0 \/ (rotation[k] > 0 /\ p = rotation[k]))
  BY Zenon DEF rotationFails, savePresig
<1>3. /\ rotation' = [rotation EXCEPT ![k] = NoRotation]
      /\ presig' = [presig EXCEPT ![c] = p] /\ raced = {}
      /\ req' = IF stage[k] = "idle" THEN [req EXCEPT ![k] = None] ELSE req
  BY <1>2, Zenon DEF EndRotation
<1> HIDE DEF c
<1>4. /\ rotation'[k] = NoRotation
      /\ \A j \in Slots \ {k} : rotation'[j] = rotation[j] /\ req'[j] = req[j]
      /\ presig'[c] = p /\ \A d \in Clients \ {c} : presig'[d] = presig[d]
  BY <1>1, <1>3, Shapes, Zenon DEF PresigInv
<1>5. ~ NoRotation > 0
  BY DEF NoRotation
<1>6. \A d \in Clients \ {c} : ~ Rotates(d)' => ~ Rotates(d)
  BY <1>4, Zenon DEF Rotates, c
<1>7. OneRotation'
  <2>1. \A j \in Slots : rotation'[j] # NoRotation =>
           rotation[j] # NoRotation /\ req'[j] = req[j]
    BY <1>4, Zenon
  <2>2. OneRotation
    BY <1>3, Zenon DEF AgreeInv
  <2> QED
    BY <2>1, <2>2, Zenon DEF OneRotation
<1>8. OneToSave'
  <2>1. \A j \in Slots : rotation'[j] > 0 => rotation'[j] = rotation[j]
    BY <1>4, <1>5, Zenon
  <2> QED
    BY <1>3, <2>1, Zenon DEF AgreeInv, OneToSave
<1>9. ASSUME NEW j \in Slots, NEW d \in Clients, rotation'[j] > 0, ~ Rotates(d)'
      PROVE  presig'[d] \in {0, rotation'[j]}
  <2>1. j # k /\ rotation'[j] = rotation[j]
    BY <1>4, <1>5, <1>9, Zenon
  <2>2. CASE d = c
    BY <1>2, <1>3, <1>4, <1>9, <2>1, <2>2, Zenon DEF AgreeInv, OneToSave
  <2>3. CASE d # c
    BY <1>3, <1>4, <1>6, <1>9, <2>1, <2>3, Zenon DEF AgreeInv, SavedAgree
  <2> QED
    BY <2>2, <2>3, Zenon
<1>10. ASSUME NEW d \in Clients \ {c}, ~ Rotates(d)' PROVE presig[d] = 0 \/ p = 0 \/ p = presig[d]
  <2>1. ~ Rotates(d)
    BY <1>6, <1>10, Zenon
  <2> QED
    BY <1>2, <1>3, <2>1, Zenon DEF AgreeInv, SavedAgree
<1>11. ASSUME NEW a \in Clients, NEW d \in Clients, ~ Rotates(a)', ~ Rotates(d)'
       PROVE  0 \in {presig'[a], presig'[d]} \/ presig'[a] = presig'[d]
  <2>1. CASE a = c /\ d = c
    BY <2>1, Zenon
  <2>2. CASE a = c /\ d # c
    BY <1>4, <1>10, <1>11, <2>2, Zenon
  <2>3. CASE a # c /\ d = c
    BY <1>4, <1>10, <1>11, <2>3, Zenon
  <2>4. CASE a # c /\ d # c
    <3>1. ~ Rotates(a) /\ ~ Rotates(d) /\ presig'[a] = presig[a] /\ presig'[d] = presig[d]
      BY <1>4, <1>6, <1>11, <2>4, Zenon
    <3> QED
      BY <1>3, <3>1, Zenon DEF AgreeInv, StoredAgree
  <2> QED
    BY <2>1, <2>2, <2>3, <2>4, Zenon
<1> QED
  BY <1>7, <1>8, <1>9, <1>11, Zenon DEF AgreeInv, SavedAgree, StoredAgree

LEMMA PreSignAgree ==
  ASSUME PresigInv, AgreeInv, NEW j \in Slots, NEW k \in Slots, CMPPreSign(j, k)
  PROVE  AgreeInv'
<1> SUFFICES ASSUME raced = {}
             PROVE  AgreeInv'
  BY Zenon DEF AgreeInv, CMPPreSign, historyVars
<1>1. /\ rotation[j] = Running /\ rotation[k] = Running
      /\ \/ rotation' = [rotation EXCEPT ![j] = next, ![k] = next]
         \/ rotation' = [rotation EXCEPT ![j] = next]
      /\ presig' = presig /\ req' = req /\ raced' = raced
      /\ req[j].client # req[k].client
  BY Zenon DEF CMPPreSign, clientVars, requestVars, historyVars
<1>2. Running # NoRotation /\ ~ Running > 0 /\ next # NoRotation
  BY Shapes DEF Running, NoRotation, PresigInv
<1>3. /\ rotation'[j] \in {Running, next} /\ rotation'[k] \in {Running, next}
      /\ \A i \in Slots \ {j, k} : rotation'[i] = rotation[i]
  BY <1>1, Shapes, Zenon DEF PresigInv
<1>4. req[j].client \in Clients /\ req[k].client \in Clients
  BY <1>1, <1>2, ClientOf, Zenon DEF PresigInv
<1>5. \A i \in Slots : rotation[i] # NoRotation => i = j \/ i = k
  <2> SUFFICES ASSUME NEW i \in Slots, rotation[i] # NoRotation PROVE i = j \/ i = k
    BY Zenon
  <2>1. req[i].client \in Clients
    BY ClientOf, Zenon DEF PresigInv
  <2>2. req[i].client = req[j].client \/ req[i].client = req[k].client
    BY <1>1, <1>4, <2>1, TwoClients, ZenonT(30)
  <2> QED
    BY <1>1, <1>2, <2>2, Zenon DEF AgreeInv, OneRotation
<1>6. \A i \in Slots : rotation'[i] # NoRotation => i = j \/ i = k
  BY <1>3, <1>5, Zenon
<1>7. \A i \in Slots : rotation'[i] > 0 => rotation'[i] = next
  <2>1. ~ NoRotation > 0
    BY DEF NoRotation
  <2> QED
    BY <1>2, <1>3, <1>6, <2>1, Zenon
<1>8. \A d \in Clients : Rotates(d)'
  <2>1. rotation'[j] # NoRotation /\ rotation'[k] # NoRotation
    BY <1>2, <1>3, Zenon
  <2>2. Rotates(req[j].client)' /\ Rotates(req[k].client)'
    BY <1>1, <2>1, Zenon DEF Rotates
  <2>3. \A d \in Clients : d = req[j].client \/ d = req[k].client
    BY <1>1, <1>4, TwoClients, Zenon
  <2>4. ASSUME NEW d \in Clients PROVE Rotates(d)'
    <3>1. CASE d = req[j].client
      BY <2>1, <3>1, <1>1, Zenon DEF Rotates
    <3>2. CASE d = req[k].client
      BY <2>1, <3>2, <1>1, Zenon DEF Rotates
    <3> QED
      BY <2>3, <3>1, <3>2, Zenon
  <2> QED
    BY <2>4, Zenon
<1>9. OneRotation' /\ OneToSave' /\ SavedAgree' /\ StoredAgree'
  BY <1>1, <1>6, <1>7, <1>8, Zenon DEF OneRotation, OneToSave, SavedAgree, StoredAgree
<1> QED
  BY <1>9, Zenon DEF AgreeInv

(* Unless a client signs while a rotation is under way or loses one to a   *)
(* restart or a storage error, a failed rotation never leaves the two with *)
(* different presignatures (rotateECDSAPresign deletes what it does not    *)
(* replace).                                                               *)
THEOREM PresignaturesAgree == Spec => []PresigsAgree
<1>1. Init => AgreeInv
  <2> SUFFICES ASSUME Init PROVE AgreeInv
    BY Zenon
  <2>1. (\A k \in Slots : rotation[k] = NoRotation) /\ (\A c \in Clients : presig[c] = 1)
        /\ ~ NoRotation > 0
    BY DEF Init, NoRotation
  <2> QED
    BY <2>1, Zenon DEF AgreeInv, OneRotation, OneToSave, SavedAgree, StoredAgree
<1>2. PresigInv /\ AgreeInv /\ [Next]_vars => AgreeInv'
  <2> SUFFICES ASSUME PresigInv, AgreeInv, [Next]_vars PROVE AgreeInv'
    BY Zenon
  <2>1. CASE \/ UNCHANGED vars
             \/ \E k \in Slots, r \in Requests :
                  sendFROST(k, r) \/ accept(k, r) \/ completeCosign(k, r) \/ sendTransaction(k, r)
             \/ \E k \in Slots, m \in relay : RefuseMessage(k, m)
             \/ \E k \in Slots : GiveUp(k) \/ loadCosignHistory(k) \/ recordCosign(k) \/ Answer(k)
             \/ \E j, k \in Slots : FrostExchange(j, k)
             \/ \E c \in Clients : clearCosignHistory(c)
             \/ \E m \in relay : Lose(m)
    <3>1. Leaves
      BY <2>1, LeaveKinds, Zenon
    <3> QED
      BY <3>1, SameRotations, Zenon DEF Leaves
  <2>2. CASE \/ \E k \in Slots, r \in Requests : sendECDSA(k, r)
             \/ \E k \in Slots, m \in relay : CoSign(k, m)
    BY <2>2, UseKinds, UsesAgree, Zenon
  <2>3. CASE \E k \in Slots : rotationFails(k) \/ savePresig(k)
    BY <2>3, EndRotationAgree, Zenon
  <2>4. CASE \E j, k \in Slots : CMPPreSign(j, k)
    BY <2>4, PreSignAgree, Zenon
  <2>5. ASSUME NEW c \in Clients, Restart(c) PROVE AgreeInv'
    <3> DEFINE mine == {k \in Slots : req[k] # None /\ req[k].client = c}
    <3> SUFFICES ASSUME raced' = {} PROVE AgreeInv'
      BY Zenon DEF AgreeInv
    <3>1. /\ req' = [k \in Slots |-> IF k \in mine THEN None ELSE req[k]]
          /\ rotation' = [k \in Slots |-> IF k \in mine THEN NoRotation ELSE rotation[k]]
          /\ raced' = IF \E k \in mine : rotation[k] # NoRotation THEN raced \cup {c} ELSE raced
          /\ presig' = presig
      BY <2>5, Zenon DEF Restart
    <3>2. raced' = raced /\ \A k \in mine : rotation[k] = NoRotation
      BY <3>1, Zenon
    <3>3. \A k \in Slots : /\ rotation'[k] = rotation[k]
                           /\ rotation[k] # NoRotation => req'[k] = req[k]
      BY <3>1, <3>2, Zenon
    <3> QED
      BY <3>1, <3>2, <3>3, SameRotations, Zenon
  <2> QED
    BY <2>1, <2>2, <2>3, <2>4, <2>5, Zenon DEF Next
<1>3. AgreeInv => PresigsAgree
  BY Zenon DEF AgreeInv, StoredAgree, PresigsAgree, Rotates
<1> QED
  BY PresigInvariance, <1>1, <1>2, <1>3, PTL DEF Spec

-----------------------------------------------------------------------------
(***************************************************************************)
(* Proofs that co-signing gives out one ECDSA signature per swap and keeps *)
(* its record, for every set of hashes, swaps, requests and slots, every   *)
(* length of the history and every number of faults.                       *)
(***************************************************************************)

(* One co-sign per swap.                                                   *)

(* Client c has given out an ECDSA signature for swap s. *)
Out(c, s) == \E x \in released : x.client = c /\ x.swap = s /\ x.alg = "ecdsa"

(* A request that writes the history holds the lock of its client. *)
LockInv ==
  \A k \in Slots : stage[k] = "write" => histMu[req[k].client] = k

(* Only FROST requests wait for an exchange. *)
StageInv ==
  \A k \in Slots : stage[k] = "exchange" => req[k].alg = "frost"

(* The swap of an accept in progress is in cosignBusy, and no two accepts  *)
(* in progress of a client are for the same.                               *)
BusyInv ==
  \A k \in Slots : stage[k] # "idle" =>
    /\ OwnSwap(req[k]) \subseteq cosignBusy[req[k].client]
    /\ \A j \in Slots : stage[j] # "idle" /\ j # k /\ req[j].client = req[k].client =>
         OwnSwap(req[j]) \cap OwnSwap(req[k]) = {}

(* What a request writes back shows the accepts the history shows. *)
ReadInv ==
  \A k \in Slots : stage[k] = "write" =>
    Accepted(history[req[k].client]) \subseteq Accepted(list[k]) \cup forgotten[req[k].client]

(* An ECDSA accept is recorded when it is answered. *)
AnswerInv ==
  \A k \in Slots : stage[k] = "answer" /\ req[k].alg = "ecdsa" =>
    OwnSwap(req[k]) \subseteq Accepted(history[req[k].client]) \cup forgotten[req[k].client]

(* No signature is out for the swap of an accept in progress. *)
FirstInv ==
  \A k \in Slots : stage[k] # "idle" =>
    \A s \in OwnSwap(req[k]) \ forgotten[req[k].client] : ~ Out(req[k].client, s)

RecordInv ==
  \A c \in Clients : \A s \in Swaps \ forgotten[c] : Out(c, s) => s \in Accepted(history[c])

OneHash ==
  \A x, y \in released :
    /\ x.alg = "ecdsa" /\ y.alg = "ecdsa"
    /\ x.client = y.client /\ x.swap = y.swap
    /\ x.swap \notin forgotten[x.client]
    => x.hash = y.hash

CosignInv ==
  /\ Types
  /\ LockInv /\ StageInv /\ BusyInv /\ ReadInv
  /\ AnswerInv /\ FirstInv /\ RecordInv /\ OneHash

(* The accepts of a client stay in its history or are forgotten. *)
Remembers ==
  \A c \in Clients : /\ forgotten[c] \subseteq forgotten'[c]
                     /\ Accepted(history[c]) \subseteq Accepted(history'[c]) \cup forgotten'[c]

(* No request begins and none is answered. *)
Quiet ==
  /\ Remembers
  /\ released' = released
  /\ \A k \in Slots : stage'[k] # "idle" => stage[k] # "idle" /\ req'[k] = req[k]

LEMMA QuietKeeps ==
  ASSUME CosignInv, Quiet
  PROVE  FirstInv' /\ RecordInv' /\ OneHash'
<1>0. \A k \in Slots : stage[k] # "idle" => req[k].client \in Clients
  BY ClientOf, Zenon DEF CosignInv
<1>1. \A c, s : Out(c, s)' <=> Out(c, s)
  BY Zenon DEF Quiet, Out
<1>2. FirstInv'
  BY <1>0, <1>1, Zenon DEF CosignInv, Quiet, Remembers, FirstInv
<1>3. RecordInv'
  BY <1>1, Zenon DEF CosignInv, Quiet, Remembers, RecordInv
<1>4. \A x \in released : x.client \in Clients
  BY PastShapes, Zenon DEF CosignInv
<1>5. OneHash'
  BY <1>4 DEF CosignInv, Quiet, Remembers, OneHash
<1> QED
  BY <1>2, <1>3, <1>5, Zenon

-----------------------------------------------------------------------------
(* The kinds of steps, as far as the invariant is concerned. *)

(* A request begins. *)
Begins(k, r) ==
  /\ stage[k] = "idle"
  /\ stage'[k] \in {"receive", "exchange", "record"}
  /\ stage'[k] = "exchange" => r.alg = "frost"
  /\ req'[k] = r
  /\ \A j \in Slots : j # k => stage'[j] = stage[j] /\ req'[j] = req[j]
  /\ OwnSwap(r) \cap cosignBusy[r.client] = {}
  /\ OwnSwap(r) \cap Accepted(history[r.client]) \subseteq forgotten'[r.client]
  /\ cosignBusy'[r.client] = cosignBusy[r.client] \cup OwnSwap(r)
  /\ \A c \in Clients : /\ cosignBusy[c] \subseteq cosignBusy'[c]
                        /\ forgotten[c] \subseteq forgotten'[c]
  /\ UNCHANGED <<history, histMu, list, released>>

(* A request ends, with or without an answer. *)
Ends(k) ==
  /\ stage[k] \notin {"idle", "write"}
  /\ stage'[k] = "idle"
  /\ \A j \in Slots : j # k => /\ stage'[j] = stage[j]
                               /\ req'[j] = req[j]
                               /\ list'[j] = list[j]
  /\ cosignBusy'[req[k].client] = cosignBusy[req[k].client] \ OwnSwap(req[k])
  /\ \A c \in Clients : c # req[k].client => cosignBusy'[c] = cosignBusy[c]
  /\ \/ released' = released
     \/ /\ stage[k] = "answer"
        /\ released' = released \cup
             {[client |-> req[k].client, swap |-> s, hash |-> req[k].hash, alg |-> req[k].alg] :
                s \in OwnSwap(req[k])}
  /\ UNCHANGED <<history, histMu, forgotten>>

(* Requests go on without the history, or nothing happens to them. *)
Moves ==
  /\ \A k \in Slots : stage'[k] # "idle" =>
       /\ stage[k] # "idle"
       /\ req'[k] = req[k]
       /\ \/ stage'[k] = stage[k]
          \/ stage'[k] = "record"
          \/ stage[k] = "exchange" /\ stage'[k] = "answer"
  /\ UNCHANGED <<history, histMu, list, cosignBusy, forgotten, released>>

LEMMA BeginsKeeps ==
  ASSUME CosignInv, Types', NEW k \in Slots, NEW r \in Requests, Begins(k, r)
  PROVE  CosignInv'
<1>0. /\ \A j \in Slots : stage[j] # "idle" => req[j].client \in Clients
      /\ r.client \in Clients /\ OwnSwap(r) \subseteq Swaps
  BY ClientOf, RequestType, Zenon DEF CosignInv
<1>1. LockInv'
  BY Zenon DEF CosignInv, LockInv, Begins
<1>2. StageInv'
  BY Zenon DEF CosignInv, StageInv, Begins
<1>3. BusyInv'
  <2>1. \A j \in Slots : j # k /\ stage'[j] # "idle" =>
          /\ stage[j] # "idle" /\ req'[j] = req[j] /\ req[j].client \in Clients
          /\ OwnSwap(req[j]) \subseteq cosignBusy[req[j].client]
    BY <1>0, Zenon DEF CosignInv, BusyInv, Begins
  <2>2. \A j \in Slots : j # k /\ stage'[j] # "idle" /\ req[j].client = r.client =>
          OwnSwap(req[j]) \cap OwnSwap(r) = {}
    BY <2>1, Zenon DEF Begins
  <2>3. \A i, j \in Slots : stage[i] # "idle" /\ stage[j] # "idle" /\ i # j /\ req[i].client = req[j].client =>
          OwnSwap(req[i]) \cap OwnSwap(req[j]) = {}
    BY Zenon DEF CosignInv, BusyInv
  <2>4. \A j \in Slots : stage'[j] # "idle" => OwnSwap(req'[j]) \subseteq cosignBusy'[req'[j].client]
    BY <1>0, <2>1, Zenon DEF Begins
  <2>5. \A i, j \in Slots : stage'[i] # "idle" /\ stage'[j] # "idle" /\ i # j /\ req'[i].client = req'[j].client =>
          OwnSwap(req'[i]) \cap OwnSwap(req'[j]) = {}
    <3> SUFFICES ASSUME NEW i \in Slots, NEW j \in Slots, stage'[i] # "idle", stage'[j] # "idle",
                        i # j, req'[i].client = req'[j].client
                 PROVE  OwnSwap(req'[i]) \cap OwnSwap(req'[j]) = {}
      BY Zenon
    <3>1. req'[k] = r /\ \A l \in Slots : l # k => stage'[l] = stage[l] /\ req'[l] = req[l]
      BY Zenon DEF Begins
    <3>2. CASE i = k
      <4>1. stage[j] # "idle" /\ req'[j] = req[j] /\ j # k /\ req'[i] = r
        BY <3>1, <3>2, Zenon
      <4>2. OwnSwap(req[j]) \cap OwnSwap(r) = {}
        BY <2>2, <4>1, Zenon
      <4> QED
        BY <4>1, <4>2, Zenon
    <3>3. CASE j = k
      <4>1. stage[i] # "idle" /\ req'[i] = req[i] /\ i # k /\ req'[j] = r
        BY <3>1, <3>3, Zenon
      <4>2. OwnSwap(req[i]) \cap OwnSwap(r) = {}
        BY <2>2, <4>1, Zenon
      <4> QED
        BY <4>1, <4>2, Zenon
    <3>4. CASE i # k /\ j # k
      <4>1. stage[i] # "idle" /\ req'[i] = req[i] /\ stage[j] # "idle" /\ req'[j] = req[j]
        BY <3>1, <3>4, Zenon
      <4> QED
        BY <2>3, <4>1, Zenon
    <3> QED
      BY <3>2, <3>3, <3>4, Zenon
  <2> QED
    BY <2>4, <2>5, Zenon DEF BusyInv, OwnSwap
<1>4. ReadInv'
  BY <1>0, ZenonT(30) DEF CosignInv, ReadInv, Begins
<1>5. AnswerInv'
  BY <1>0, ZenonT(30) DEF CosignInv, AnswerInv, Begins
<1>6. \A c, s : Out(c, s)' <=> Out(c, s)
  BY Zenon DEF Begins, Out
<1>7. FirstInv'
  BY <1>0, <1>6, Zenon DEF CosignInv, FirstInv, RecordInv, Begins
<1>8. RecordInv' /\ OneHash'
  <2>1. \A x \in released : x.client \in Clients
    BY PastShapes, Zenon DEF CosignInv
  <2>2. RecordInv'
    BY <1>6, Zenon DEF CosignInv, RecordInv, Begins
  <2>3. OneHash'
    BY <2>1 DEF CosignInv, OneHash, Begins
  <2> QED
    BY <2>2, <2>3, Zenon
<1> QED
  BY <1>1, <1>2, <1>3, <1>4, <1>5, <1>7, <1>8, Zenon DEF CosignInv

LEMMA EndsKeeps ==
  ASSUME CosignInv, Types', NEW k \in Slots, Ends(k)
  PROVE  CosignInv'
<1>0. /\ \A j \in Slots : stage[j] # "idle" => req[j].client \in Clients
      /\ req[k] \in Requests /\ req[k].client \in Clients /\ OwnSwap(req[k]) \subseteq Swaps
  BY ClientOf, Zenon DEF CosignInv, Ends
<1>1. LockInv'
  BY DEF CosignInv, LockInv, Ends
<1>2. StageInv'
  BY Zenon DEF CosignInv, StageInv, Ends
<1>3. BusyInv'
  <2>1. \A j \in Slots : stage'[j] # "idle" =>
          /\ j # k /\ stage[j] # "idle" /\ req'[j] = req[j] /\ req[j].client \in Clients
          /\ OwnSwap(req[j]) \subseteq cosignBusy[req[j].client]
    BY <1>0, Zenon DEF CosignInv, BusyInv, Ends
  <2>2. \A i, j \in Slots : stage[i] # "idle" /\ stage[j] # "idle" /\ i # j /\ req[i].client = req[j].client =>
          OwnSwap(req[i]) \cap OwnSwap(req[j]) = {}
    BY Zenon DEF CosignInv, BusyInv
  <2>3. \A j \in Slots : stage'[j] # "idle" /\ req[j].client = req[k].client =>
          OwnSwap(req[j]) \cap OwnSwap(req[k]) = {}
    BY <2>1, <2>2, Zenon DEF Ends
  <2>4. \A j \in Slots : stage'[j] # "idle" => OwnSwap(req[j]) \subseteq cosignBusy'[req[j].client]
    <3> SUFFICES ASSUME NEW j \in Slots, stage'[j] # "idle"
                 PROVE  OwnSwap(req[j]) \subseteq cosignBusy'[req[j].client]
      BY Zenon
    <3>1. req[j].client \in Clients /\ OwnSwap(req[j]) \subseteq cosignBusy[req[j].client]
      BY <2>1, Zenon
    <3>2. CASE req[j].client = req[k].client
      <4>1. OwnSwap(req[j]) \cap OwnSwap(req[k]) = {}
        BY <2>3, <3>2, Zenon
      <4>2. cosignBusy'[req[j].client] = cosignBusy[req[j].client] \ OwnSwap(req[k])
        BY <3>2, Zenon DEF Ends
      <4> QED
        BY <3>1, <4>1, <4>2, Zenon
    <3>3. CASE req[j].client # req[k].client
      <4>1. cosignBusy'[req[j].client] = cosignBusy[req[j].client]
        BY <3>1, <3>3, ZenonT(30) DEF Ends
      <4> QED
        BY <3>1, <4>1, Zenon
    <3> QED
      BY <3>2, <3>3, Zenon
  <2> QED
    BY <2>1, <2>2, <2>4 DEF BusyInv, OwnSwap
<1>4. ReadInv'
  BY <1>0, ZenonT(30) DEF CosignInv, ReadInv, Ends
<1>5. AnswerInv'
  BY <1>0, ZenonT(30) DEF CosignInv, AnswerInv, Ends
<1>6. \A c \in Clients : \A s \in Swaps : Out(c, s)' =>
         \/ Out(c, s)
         \/ /\ stage[k] = "answer" /\ req[k].alg = "ecdsa"
            /\ c = req[k].client /\ s \in OwnSwap(req[k])
  <2>1. \A x \in released' :
          \/ x \in released
          \/ stage[k] = "answer" /\ \E y \in OwnSwap(req[k]) :
               x = [client |-> req[k].client, swap |-> y, hash |-> req[k].hash, alg |-> req[k].alg]
    <3>1. \/ released' = released
          \/ /\ stage[k] = "answer"
             /\ released' = released \cup
                  {[client |-> req[k].client, swap |-> s, hash |-> req[k].hash, alg |-> req[k].alg] :
                     s \in OwnSwap(req[k])}
      BY Zenon DEF Ends
    <3> SUFFICES ASSUME NEW x \in released', x \notin released
                 PROVE  stage[k] = "answer" /\ \E y \in OwnSwap(req[k]) :
                          x = [client |-> req[k].client, swap |-> y, hash |-> req[k].hash, alg |-> req[k].alg]
      BY Zenon
    <3>2. /\ stage[k] = "answer"
          /\ x \in {[client |-> req[k].client, swap |-> s, hash |-> req[k].hash, alg |-> req[k].alg] :
                     s \in OwnSwap(req[k])}
      BY <3>1, Zenon
    <3> QED
      BY <3>2, Zenon
  <2> SUFFICES ASSUME NEW c \in Clients, NEW s \in Swaps, Out(c, s)'
               PROVE  \/ Out(c, s)
                      \/ /\ stage[k] = "answer" /\ req[k].alg = "ecdsa"
                         /\ c = req[k].client /\ s \in OwnSwap(req[k])
    BY Zenon
  <2>2. PICK x \in released' : x.client = c /\ x.swap = s /\ x.alg = "ecdsa"
    BY Zenon DEF Out
  <2>3. CASE x \in released
    BY <2>2, <2>3, Zenon DEF Out
  <2>4. CASE x \notin released
    <3>1. PICK y \in OwnSwap(req[k]) :
            x = [client |-> req[k].client, swap |-> y, hash |-> req[k].hash, alg |-> req[k].alg]
      BY <2>1, <2>4, Zenon
    <3>2. stage[k] = "answer"
      BY <2>1, <2>4, Zenon
    <3> QED
      BY <2>2, <3>1, <3>2, Zenon
  <2> QED
    BY <2>3, <2>4, Zenon
<1>7. FirstInv'
  <2> SUFFICES ASSUME NEW j \in Slots, stage'[j] # "idle", NEW c, c = req[j].client,
                      NEW s \in OwnSwap(req[j]) \ forgotten[c], Out(c, s)'
               PROVE  FALSE
    BY <1>0, Zenon DEF FirstInv, Ends, OwnSwap
  <2>1. j # k /\ stage[j] # "idle"
    BY Zenon DEF Ends
  <2>2. req[j].client \in Clients /\ s \in Swaps
    BY <1>0, <2>1, ClientOf, Zenon DEF CosignInv
  <2>3. ~ Out(req[j].client, s)
    BY <2>1, Zenon DEF CosignInv, FirstInv
  <2>4. req[j].client = req[k].client /\ s \in OwnSwap(req[k])
    BY <1>6, <2>2, <2>3, ZenonT(30)
  <2> QED
    BY <2>1, <2>4, Zenon DEF CosignInv, BusyInv, Ends
<1>8. RecordInv'
  <2>1. stage[k] = "answer" /\ req[k].alg = "ecdsa" =>
          OwnSwap(req[k]) \subseteq Accepted(history[req[k].client]) \cup forgotten[req[k].client]
    BY Zenon DEF CosignInv, AnswerInv
  <2>2. forgotten' = forgotten /\ history' = history
    BY Zenon DEF Ends
  <2>3. \A c \in Clients : \A s \in Swaps \ forgotten[c] : Out(c, s)' => s \in Accepted(history[c])
    BY <1>6, <2>1, Zenon DEF CosignInv, RecordInv
  <2> QED
    BY <2>2, <2>3 DEF RecordInv, Accepted
<1>9. OneHash'
  <2> SUFFICES ASSUME NEW x \in released', NEW y \in released',
                      x.alg = "ecdsa", y.alg = "ecdsa", x.client = y.client, x.swap = y.swap,
                      x.swap \notin forgotten[x.client]
               PROVE  x.hash = y.hash
    BY Zenon DEF OneHash, Ends
  <2>1. CASE x \in released /\ y \in released
    BY <2>1, Zenon DEF CosignInv, OneHash
  <2>2. ASSUME NEW z \in released' \ released
        PROVE  /\ z.client = req[k].client /\ z.hash = req[k].hash /\ z.swap \in OwnSwap(req[k])
    BY <2>2 DEF Ends
  <2>3. ASSUME NEW z \in released', z.client = req[k].client, z.swap \in OwnSwap(req[k]),
               z.alg = "ecdsa", z.swap \notin forgotten[req[k].client]
        PROVE  z \notin released
    BY <2>3, Zenon DEF CosignInv, FirstInv, Out, Ends
  <2>4. CASE x \notin released \/ y \notin released
    <3>1. x.client = req[k].client /\ x.swap \in OwnSwap(req[k])
      BY <2>2, <2>4, Zenon
    <3>2. x \notin released /\ y \notin released
      BY <2>3, <3>1, Zenon
    <3> QED
      BY <2>2, <3>2, Zenon
  <2> QED
    BY <2>1, <2>4, Zenon
<1> QED
  BY <1>1, <1>2, <1>3, <1>4, <1>5, <1>7, <1>8, <1>9, Zenon DEF CosignInv

LEMMA MovesKeeps ==
  ASSUME CosignInv, Types', Moves
  PROVE  CosignInv'
<1>0. \A j \in Slots : stage[j] # "idle" => req[j].client \in Clients
  BY ClientOf, Zenon DEF CosignInv
<1>1. LockInv' /\ StageInv'
  BY Zenon DEF CosignInv, LockInv, StageInv, Moves
<1>2. BusyInv'
  BY DEF CosignInv, BusyInv, Moves, OwnSwap
<1>3. ReadInv'
  BY ZenonT(30) DEF CosignInv, ReadInv, Moves
<1>4. AnswerInv'
  <2> SUFFICES ASSUME NEW k \in Slots, stage'[k] = "answer", req'[k].alg = "ecdsa"
               PROVE  (OwnSwap(req[k]) \subseteq Accepted(history[req[k].client]) \cup forgotten[req[k].client])'
    BY Zenon DEF AnswerInv
  <2>1. req'[k] = req[k] /\ stage[k] = "answer"
    BY Zenon DEF CosignInv, StageInv, Moves
  <2> QED
    BY <2>1 DEF CosignInv, AnswerInv, Moves, Accepted, OwnSwap
<1>5. Quiet
  BY Zenon DEF Quiet, Remembers, Moves
<1> QED
  BY <1>1, <1>2, <1>3, <1>4, <1>5, QuietKeeps, Zenon DEF CosignInv

LEMMA LoadKeeps ==
  ASSUME CosignInv, Types', NEW k \in Slots, loadCosignHistory(k)
  PROVE  CosignInv'
<1> DEFINE c == req[k].client
<1>1. /\ stage[k] = "record" /\ histMu[c] = None
      /\ histMu' = [histMu EXCEPT ![c] = k]
      /\ stage' = [stage EXCEPT ![k] = "write"]
      /\ history' = history /\ cosignBusy' = cosignBusy /\ req' = req /\ released' = released
      /\ \/ list' = [list EXCEPT ![k] = history[c]] /\ forgotten' = forgotten
         \/ /\ list' = [list EXCEPT ![k] = <<>>]
            /\ forgotten' = [forgotten EXCEPT ![c] = @ \cup Accepted(history[c])]
  BY Zenon DEF loadCosignHistory, GoTo, Forget
<1>2. /\ \A j \in Slots : stage[j] # "idle" => req[j].client \in Clients
      /\ c \in Clients
  BY <1>1, ClientOf, Zenon DEF CosignInv
<1> HIDE DEF c
<1>3. /\ stage'[k] = "write" /\ histMu'[c] = k
      /\ \A j \in Slots : j # k => stage'[j] = stage[j] /\ list'[j] = list[j]
      /\ \A d \in Clients : d # c => histMu'[d] = histMu[d]
  BY <1>1, <1>2, Shapes, Zenon DEF CosignInv
<1>4. \A d \in Clients : forgotten[d] \subseteq forgotten'[d]
  <2>1. forgotten \in [Clients -> SUBSET Swaps]
    BY Shapes, Zenon DEF CosignInv
  <2>2. \A z : \A d \in Clients : forgotten[d] \subseteq [forgotten EXCEPT ![c] = @ \cup z][d]
    BY <2>1, <1>2, Zenon
  <2> QED
    BY <1>1, <2>2, Zenon
<1>5. Accepted(history[c]) \subseteq Accepted(list'[k]) \cup forgotten'[c]
  BY <1>1, <1>2, Shapes, Zenon DEF CosignInv
<1>6. LockInv'
  <2> SUFFICES ASSUME NEW j \in Slots, stage'[j] = "write" PROVE histMu'[req[j].client] = j
    BY <1>1, Zenon DEF LockInv
  <2>1. CASE j = k
    BY <1>3, <2>1, Zenon DEF c
  <2>2. CASE j # k
    <3>1. stage[j] = "write" /\ histMu[req[j].client] = j /\ req[j].client \in Clients
      BY <1>2, <1>3, <2>2, Zenon DEF CosignInv, LockInv
    <3>2. req[j].client # c
      BY <1>1, <3>1, CosignAssumption, Zenon
    <3> QED
      BY <1>3, <3>1, <3>2, Zenon
  <2> QED
    BY <2>1, <2>2, Zenon
<1>7. StageInv'
  BY <1>1, <1>3, Zenon DEF CosignInv, StageInv
<1>8. BusyInv'
  BY <1>1, <1>3 DEF CosignInv, BusyInv, OwnSwap
<1>9. ReadInv'
  <2> SUFFICES ASSUME NEW j \in Slots, stage'[j] = "write"
               PROVE  Accepted(history[req[j].client]) \subseteq Accepted(list'[j]) \cup forgotten'[req[j].client]
    BY <1>1, Zenon DEF ReadInv
  <2>1. CASE j = k
    BY <1>5, <2>1, Zenon DEF c
  <2>2. CASE j # k
    BY <1>2, <1>3, <1>4, <2>2, Zenon DEF CosignInv, ReadInv
  <2> QED
    BY <2>1, <2>2, Zenon
<1>10. AnswerInv'
  <2> SUFFICES ASSUME NEW j \in Slots, stage'[j] = "answer", req[j].alg = "ecdsa"
               PROVE  OwnSwap(req[j]) \subseteq Accepted(history[req[j].client]) \cup forgotten'[req[j].client]
    BY <1>1, Zenon DEF AnswerInv
  <2>1. j # k /\ stage[j] = "answer"
    BY <1>3, Zenon
  <2> QED
    BY <1>2, <1>4, <2>1, Zenon DEF CosignInv, AnswerInv
<1>11. Quiet
  BY <1>1, <1>3, <1>4, Zenon DEF Quiet, Remembers
<1> QED
  BY <1>6, <1>7, <1>8, <1>9, <1>10, <1>11, QuietKeeps, SMTT(30) DEF CosignInv

(* Truncation is the only loss when a list is written back. *)
LEMMA RecordKeeps ==
  ASSUME CosignInv, Types', NEW k \in Slots, recordCosign(k)
  PROVE  CosignInv'
<1> DEFINE c == req[k].client
<1> DEFINE new == Updated(req[k], list[k])
<1> DEFINE kept == Truncated(new)
<1>1. /\ stage[k] = "write"
      /\ histMu' = [histMu EXCEPT ![c] = None]
      /\ list' = [list EXCEPT ![k] = <<>>]
      /\ stage' = [stage EXCEPT ![k] = "answer"]
      /\ cosignBusy' = cosignBusy /\ req' = req /\ released' = released
      /\ \/ /\ history' = IF new = list[k] THEN history ELSE [history EXCEPT ![c] = kept]
            /\ forgotten' = [forgotten EXCEPT ![c] = @ \cup (Accepted(new) \ Accepted(kept))]
         \/ /\ forgotten' = [forgotten EXCEPT ![c] = @ \cup OwnSwap(req[k])]
            /\ history' = history
  BY Zenon DEF recordCosign, GoTo, Forget
<1>2. /\ \A j \in Slots : stage[j] # "idle" => req[j].client \in Clients
      /\ c \in Clients /\ req[k] \in Requests /\ list[k] \in Seq(Event)
  BY <1>1, ClientOf, Shapes, Zenon DEF CosignInv
<1>3. /\ Accepted(list[k]) \cup OwnSwap(req[k]) \subseteq Accepted(new)
      /\ new = list[k] => req[k].op = "complete"
  BY <1>2, UpdatedKeeps, Zenon
<1>4. OwnSwap(req[k]) # {} => req[k].op = "accept"
  BY <1>2, RequestType, SMTT(30)
<1>5. Accepted(history[c]) \subseteq Accepted(list[k]) \cup forgotten[c]
  BY <1>1, Zenon DEF CosignInv, ReadInv
<1>6. /\ forgotten \in [Clients -> SUBSET Swaps]
      /\ \A d \in Clients : history \in [Clients -> Seq(Event)]
  BY Shapes, Zenon DEF CosignInv
<1> HIDE DEF c, new, kept
<1>7. /\ stage'[k] = "answer" /\ histMu'[c] = None
      /\ \A j \in Slots : j # k => stage'[j] = stage[j] /\ list'[j] = list[j]
      /\ \A d \in Clients : d # c => histMu'[d] = histMu[d]
  BY <1>1, <1>2, Shapes, Zenon DEF CosignInv
<1>8. /\ \A d \in Clients : d # c => history'[d] = history[d] /\ forgotten'[d] = forgotten[d]
      /\ \/ /\ new = list[k] /\ history'[c] = history[c] /\ forgotten[c] \subseteq forgotten'[c]
         \/ /\ history'[c] = kept
            /\ forgotten'[c] = forgotten[c] \cup (Accepted(new) \ Accepted(kept))
         \/ /\ history'[c] = history[c]
            /\ forgotten'[c] = forgotten[c] \cup OwnSwap(req[k])
  BY <1>1, <1>2, <1>6, Zenon
<1>9. /\ forgotten[c] \subseteq forgotten'[c]
      /\ Accepted(history[c]) \subseteq Accepted(history'[c]) \cup forgotten'[c]
      /\ OwnSwap(req[k]) \subseteq Accepted(history'[c]) \cup forgotten'[c]
  BY <1>3, <1>4, <1>5, <1>8, SMTT(30)
<1>10. Quiet
  BY <1>1, <1>7, <1>8, <1>9, SMTT(30) DEF Quiet, Remembers
<1>11. \A j \in Slots : stage'[j] = "write" => j # k /\ stage[j] = "write" /\ req[j].client # c
  BY <1>1, <1>7, SMTT(30) DEF CosignInv, LockInv, c
<1>12. LockInv'
  BY <1>1, <1>2, <1>7, <1>11, SMTT(30) DEF CosignInv, LockInv
<1>13. StageInv'
  BY <1>1, <1>7, Zenon DEF CosignInv, StageInv
<1>14. BusyInv'
  BY <1>1, <1>7 DEF CosignInv, BusyInv, OwnSwap
<1>15. ReadInv'
  <2> SUFFICES ASSUME NEW j \in Slots, stage'[j] = "write"
               PROVE  Accepted(history'[req[j].client]) \subseteq Accepted(list'[j]) \cup forgotten'[req[j].client]
    BY <1>1, Zenon DEF ReadInv
  <2>1. j # k /\ stage[j] = "write" /\ req[j].client # c /\ req[j].client \in Clients
    BY <1>2, <1>11, Zenon
  <2> QED
    BY <1>7, <1>8, <2>1, Zenon DEF CosignInv, ReadInv
<1>16. AnswerInv'
  <2> SUFFICES ASSUME NEW j \in Slots, stage'[j] = "answer", req[j].alg = "ecdsa"
               PROVE  OwnSwap(req[j]) \subseteq Accepted(history'[req[j].client]) \cup forgotten'[req[j].client]
    BY <1>1, Zenon DEF AnswerInv
  <2>1. CASE j = k
    BY <1>9, <2>1, Zenon DEF c
  <2>2. CASE j # k
    <3>1. stage[j] = "answer" /\ req[j].client \in Clients
      BY <1>2, <1>7, <2>2, SMTT(30)
    <3>2. OwnSwap(req[j]) \subseteq Accepted(history[req[j].client]) \cup forgotten[req[j].client]
      BY <3>1, Zenon DEF CosignInv, AnswerInv
    <3> QED
      BY <1>10, <3>1, <3>2, ZenonT(30) DEF Quiet, Remembers
  <2> QED
    BY <2>1, <2>2, ZenonT(30)
<1> QED
  BY <1>10, <1>12, <1>13, <1>14, <1>15, <1>16, QuietKeeps, Zenon DEF CosignInv

LEMMA ClearKeeps ==
  ASSUME CosignInv, Types', NEW c \in Clients, clearCosignHistory(c)
  PROVE  CosignInv'
<1>1. /\ history' = [history EXCEPT ![c] = <<>>]
      /\ forgotten' = [forgotten EXCEPT ![c] = @ \cup Accepted(history[c])]
      /\ cosignBusy' = cosignBusy /\ histMu' = histMu /\ stage' = stage /\ req' = req
      /\ list' = list /\ released' = released
  BY Zenon DEF clearCosignHistory, Forget, requestVars
<1>2. \A j \in Slots : stage[j] # "idle" => req[j].client \in Clients
  BY ClientOf, Zenon DEF CosignInv
<1>3. /\ \A d \in Clients : d # c => history'[d] = history[d] /\ forgotten'[d] = forgotten[d]
      /\ history'[c] = <<>> /\ forgotten'[c] = forgotten[c] \cup Accepted(history[c])
  BY <1>1, Shapes, Zenon DEF CosignInv
<1>4. Accepted(<<>>) = {}
  BY DEF Accepted
<1>5. Quiet
  BY <1>1, <1>3, <1>4, Zenon DEF Quiet, Remembers
<1>6. LockInv' /\ StageInv'
  BY <1>1, Zenon DEF CosignInv, LockInv, StageInv
<1>7. BusyInv'
  BY <1>1, Zenon DEF CosignInv, BusyInv, OwnSwap
<1>8. ReadInv'
  <2> SUFFICES ASSUME NEW j \in Slots, stage[j] = "write"
               PROVE  Accepted(history'[req[j].client]) \subseteq Accepted(list[j]) \cup forgotten'[req[j].client]
    BY <1>1, Zenon DEF ReadInv
  <2> QED
    BY <1>2, <1>3, <1>4, Zenon DEF CosignInv, ReadInv
<1>9. AnswerInv'
  <2> SUFFICES ASSUME NEW j \in Slots, stage[j] = "answer", req[j].alg = "ecdsa"
               PROVE  OwnSwap(req[j]) \subseteq Accepted(history'[req[j].client]) \cup forgotten'[req[j].client]
    BY <1>1, Zenon DEF AnswerInv
  <2>1. OwnSwap(req[j]) \subseteq Accepted(history[req[j].client]) \cup forgotten[req[j].client]
    BY Zenon DEF CosignInv, AnswerInv
  <2> QED
    BY <1>2, <1>5, <2>1, Zenon DEF Quiet, Remembers
<1> QED
  BY <1>5, <1>6, <1>7, <1>8, <1>9, QuietKeeps, Zenon DEF CosignInv

LEMMA RestartKeeps ==
  ASSUME CosignInv, Types', NEW c \in Clients, Restart(c)
  PROVE  CosignInv'
<1> DEFINE mine == {k \in Slots : req[k] # None /\ req[k].client = c}
<1>1. /\ stage' = [k \in Slots |-> IF k \in mine THEN "idle" ELSE stage[k]]
      /\ req' = [k \in Slots |-> IF k \in mine THEN None ELSE req[k]]
      /\ list' = [k \in Slots |-> IF k \in mine THEN <<>> ELSE list[k]]
      /\ cosignBusy' = [cosignBusy EXCEPT ![c] = {}]
      /\ histMu' = [histMu EXCEPT ![c] = None]
      /\ history' = history /\ released' = released /\ forgotten' = forgotten
  BY Zenon DEF Restart
<1>2. \A j \in Slots : stage[j] # "idle" => req[j].client \in Clients /\ req[j] # None
  BY ClientOf, Zenon DEF CosignInv
<1>3. \A j \in Slots : stage'[j] # "idle" =>
        /\ stage'[j] = stage[j] /\ req'[j] = req[j] /\ list'[j] = list[j]
        /\ req[j].client # c /\ req[j].client \in Clients
        /\ histMu'[req[j].client] = histMu[req[j].client]
        /\ cosignBusy'[req[j].client] = cosignBusy[req[j].client]
  BY <1>1, <1>2, Shapes, Zenon DEF CosignInv
<1>4. Quiet
  BY <1>1, <1>3, Zenon DEF Quiet, Remembers
<1>5. LockInv' /\ StageInv'
  <2>1. LockInv'
    BY <1>3, ZenonT(30) DEF CosignInv, LockInv
  <2>2. StageInv'
    BY <1>3, Zenon DEF CosignInv, StageInv
  <2> QED
    BY <2>1, <2>2, Zenon
<1>6. BusyInv'
  <2>1. \A i, j \in Slots : stage[i] # "idle" /\ stage[j] # "idle" /\ i # j /\ req[i].client = req[j].client =>
          OwnSwap(req[i]) \cap OwnSwap(req[j]) = {}
    BY Zenon DEF CosignInv, BusyInv
  <2>2. \A j \in Slots : stage'[j] # "idle" => OwnSwap(req[j]) \subseteq cosignBusy'[req[j].client]
    BY <1>3, Zenon DEF CosignInv, BusyInv
  <2> QED
    BY <1>3, <2>1, <2>2 DEF BusyInv, OwnSwap
<1>7. ReadInv'
  BY <1>1, <1>3, ZenonT(60) DEF CosignInv, ReadInv
<1>8. AnswerInv'
  <2> SUFFICES ASSUME NEW j \in Slots, stage'[j] = "answer", req'[j].alg = "ecdsa"
               PROVE  OwnSwap(req'[j]) \subseteq Accepted(history'[req'[j].client]) \cup forgotten'[req'[j].client]
    BY Zenon DEF AnswerInv
  <2>1. stage[j] = "answer" /\ req'[j] = req[j]
    BY <1>3, Zenon
  <2>2. OwnSwap(req[j]) \subseteq Accepted(history[req[j].client]) \cup forgotten[req[j].client]
    BY <2>1, Zenon DEF CosignInv, AnswerInv
  <2> QED
    BY <1>1, <2>1, <2>2, Zenon
<1> QED
  BY <1>4, <1>5, <1>6, <1>7, <1>8, QuietKeeps, Zenon DEF CosignInv

(* Every step is of one of these kinds. *)
LEMMA BeginKinds ==
  ASSUME CosignInv, NEW k \in Slots, NEW r \in Requests,
         \/ sendECDSA(k, r) \/ sendFROST(k, r) \/ accept(k, r)
         \/ completeCosign(k, r) \/ sendTransaction(k, r)
  PROVE  Begins(k, r)
<1>1. /\ stage[k] = "idle"
      /\ req' = [req EXCEPT ![k] = r]
      /\ UNCHANGED <<history, histMu, list, released>>
      /\ r.client \in Clients
  BY RequestType, Zenon
     DEF sendECDSA, sendFROST, accept, completeCosign, sendTransaction, Begin, Free,
         clientVars, historyVars
<1>2. PICK s \in {"receive", "exchange", "record"} :
         stage' = [stage EXCEPT ![k] = s] /\ (s = "exchange" => r.alg = "frost")
  <2>1. CASE accept(k, r)
    <3>1. r.alg \in {"ecdsa", "frost"}
      BY RequestType, Zenon DEF Algs
    <3> QED
      BY <2>1, <3>1, Zenon DEF accept, GoTo
  <2>2. CASE ~ accept(k, r)
    BY <2>2, Zenon DEF sendECDSA, sendFROST, completeCosign, sendTransaction, GoTo
  <2> QED
    BY <2>1, <2>2, Zenon
<1>3. /\ stage'[k] = s /\ req'[k] = r
      /\ \A j \in Slots : j # k => stage'[j] = stage[j] /\ req'[j] = req[j]
  BY <1>1, <1>2, Shapes, Zenon DEF CosignInv
<1>4. CASE ~ accept(k, r)
  <2>1. OwnSwap(r) = {} /\ cosignBusy' = cosignBusy /\ forgotten' = forgotten
    BY <1>4, Zenon DEF sendECDSA, sendFROST, completeCosign, sendTransaction, OwnSwap,
                clientVars, historyVars
  <2> QED
    BY <1>1, <1>2, <1>3, <2>1, Zenon DEF Begins
<1>5. CASE accept(k, r)
  <2>1. /\ cosignBusy' = [cosignBusy EXCEPT ![r.client] = @ \cup OwnSwap(r)]
        /\ \/ /\ OwnSwap(r) \cap (cosignBusy[r.client] \cup Accepted(history[r.client])) = {}
              /\ forgotten' = forgotten
           \/ /\ OwnSwap(r) \cap (cosignBusy[r.client] \cup Accepted(<<>>)) = {}
              /\ forgotten' = [forgotten EXCEPT ![r.client] = @ \cup OwnSwap(r)]
    BY <1>5, Zenon DEF accept, mayAccept, Forget
  <2>2. /\ cosignBusy'[r.client] = cosignBusy[r.client] \cup OwnSwap(r)
        /\ \A c \in Clients : cosignBusy[c] \subseteq cosignBusy'[c]
    BY <1>1, <2>1, Shapes, Zenon DEF CosignInv
  <2>3. /\ \A c \in Clients : forgotten[c] \subseteq forgotten'[c]
        /\ OwnSwap(r) \cap cosignBusy[r.client] = {}
        /\ OwnSwap(r) \cap Accepted(history[r.client]) \subseteq forgotten'[r.client]
    <3>1. forgotten \in [Clients -> SUBSET Swaps]
      BY Shapes, Zenon DEF CosignInv
    <3>2. CASE /\ OwnSwap(r) \cap (cosignBusy[r.client] \cup Accepted(history[r.client])) = {}
               /\ forgotten' = forgotten
      BY <3>2, Zenon
    <3>3. CASE forgotten' = [forgotten EXCEPT ![r.client] = @ \cup OwnSwap(r)]
      <4>1. /\ \A c \in Clients : forgotten[c] \subseteq forgotten'[c]
            /\ OwnSwap(r) \subseteq forgotten'[r.client]
        BY <1>1, <3>1, <3>3, Zenon
      <4> QED
        BY <2>1, <4>1, Zenon
    <3> QED
      BY <2>1, <3>2, <3>3, Zenon
  <2> QED
    BY <1>1, <1>2, <1>3, <2>2, <2>3, Zenon DEF Begins
<1> QED
  BY <1>4, <1>5, Zenon

LEMMA EndKinds ==
  ASSUME CosignInv, NEW k \in Slots,
         \/ \E m \in relay : RefuseMessage(k, m)
         \/ GiveUp(k) \/ Answer(k)
  PROVE  Ends(k)
<1>1. /\ stage[k] \notin {"idle", "write"}
      /\ Finish(k)
      /\ UNCHANGED <<history, histMu, forgotten>>
      /\ \/ released' = released
         \/ /\ stage[k] = "answer"
            /\ released' = released \cup
                 {[client |-> req[k].client, swap |-> s, hash |-> req[k].hash, alg |-> req[k].alg] :
                    s \in OwnSwap(req[k])}
  BY Zenon DEF RefuseMessage, Receive, GiveUp, Answer, historyVars
<1>2. req[k].client \in Clients
  BY <1>1, ClientOf, Zenon DEF CosignInv
<1>3. /\ stage'[k] = "idle"
      /\ \A j \in Slots : j # k => stage'[j] = stage[j] /\ req'[j] = req[j] /\ list'[j] = list[j]
  BY <1>1, Shapes, Zenon DEF Finish, GoTo, CosignInv
<1>4. /\ cosignBusy'[req[k].client] = cosignBusy[req[k].client] \ OwnSwap(req[k])
      /\ \A c \in Clients : c # req[k].client => cosignBusy'[c] = cosignBusy[c]
  BY <1>1, <1>2, Shapes, Zenon DEF Finish, CosignInv
<1> QED
  BY <1>1, <1>3, <1>4, ZenonT(60) DEF Ends

LEMMA MoveKinds ==
  ASSUME CosignInv,
         \/ UNCHANGED vars
         \/ \E k \in Slots, m \in relay : CoSign(k, m)
         \/ \E k \in Slots : rotationFails(k) \/ savePresig(k)
         \/ \E j, k \in Slots : FrostExchange(j, k) \/ CMPPreSign(j, k)
         \/ \E m \in relay : Lose(m)
  PROVE  Moves
<1> USE Shapes DEF CosignInv
<1>1. CASE UNCHANGED vars
  BY <1>1, Zenon DEF Moves, vars, clientVars, requestVars, historyVars
<1>2. ASSUME NEW k \in Slots, NEW m \in relay, CoSign(k, m) PROVE Moves
  <2>1. /\ stage[k] = "receive" /\ stage' = [stage EXCEPT ![k] = "record"]
        /\ UNCHANGED <<clientVars, req, list, released, forgotten>>
    BY <1>2, Zenon DEF CoSign, Receive, GoTo
  <2> QED
    BY <2>1, Zenon DEF Moves, clientVars
<1>3. ASSUME NEW k \in Slots, NEW p, EndRotation(k, p) PROVE Moves
  <2>1. /\ req' = IF stage[k] = "idle" THEN [req EXCEPT ![k] = None] ELSE req
        /\ UNCHANGED <<history, cosignBusy, histMu, stage, list, released, forgotten>>
    BY <1>3, Zenon DEF EndRotation
  <2> QED
    BY <2>1, Zenon DEF Moves
<1>4. ASSUME NEW j \in Slots, NEW k \in Slots, FrostExchange(j, k) PROVE Moves
  <2>1. /\ stage[j] = "exchange" /\ stage[k] = "exchange"
        /\ stage' = [stage EXCEPT ![j] = "answer", ![k] = "answer"]
        /\ UNCHANGED <<clientVars, req, list, historyVars>>
    BY <1>4, Zenon DEF FrostExchange
  <2>2. \A i \in Slots : stage'[i] = stage[i] \/ (stage[i] = "exchange" /\ stage'[i] = "answer")
    BY <2>1, Zenon
  <2> QED
    BY <2>1, <2>2, Zenon DEF Moves, clientVars, historyVars
<1>5. ASSUME NEW j \in Slots, NEW k \in Slots, CMPPreSign(j, k) PROVE Moves
  BY <1>5, Zenon DEF CMPPreSign, Moves, clientVars, requestVars, historyVars
<1>6. ASSUME NEW m \in relay, Lose(m) PROVE Moves
  BY <1>6, Zenon DEF Lose, Moves, clientVars, requestVars, historyVars
<1> QED
  BY <1>1, <1>2, <1>3, <1>4, <1>5, <1>6, SMTT(30) DEF rotationFails, savePresig

LEMMA InitCosignInv ==
  ASSUME Init
  PROVE  CosignInv
<1>1. Types
  BY InitTypes, Zenon
<1> QED
  BY <1>1, Zenon DEF Init, CosignInv, LockInv, StageInv, BusyInv, ReadInv, AnswerInv, FirstInv,
              RecordInv, OneHash, Out

LEMMA NextCosignInv ==
  ASSUME CosignInv, [Next]_vars
  PROVE  CosignInv'
<1>1. Types'
  BY NextTypes, Zenon DEF CosignInv
<1>2. CASE UNCHANGED vars
  BY <1>1, <1>2, MoveKinds, MovesKeeps, Zenon
<1>3. CASE \E k \in Slots, r \in Requests :
             \/ sendECDSA(k, r) \/ sendFROST(k, r) \/ accept(k, r)
             \/ completeCosign(k, r) \/ sendTransaction(k, r)
  BY <1>1, <1>3, BeginKinds, BeginsKeeps, Zenon
<1>4. CASE \/ \E k \in Slots, m \in relay : RefuseMessage(k, m)
           \/ \E k \in Slots : GiveUp(k) \/ Answer(k)
  BY <1>1, <1>4, EndKinds, EndsKeeps, Zenon
<1>5. CASE \/ \E k \in Slots, m \in relay : CoSign(k, m)
           \/ \E k \in Slots : rotationFails(k) \/ savePresig(k)
           \/ \E j, k \in Slots : FrostExchange(j, k) \/ CMPPreSign(j, k)
           \/ \E m \in relay : Lose(m)
  BY <1>1, <1>5, MoveKinds, MovesKeeps, Zenon
<1>6. CASE \E k \in Slots : loadCosignHistory(k) \/ recordCosign(k)
  BY <1>1, <1>6, LoadKeeps, RecordKeeps, Zenon
<1>7. CASE \E c \in Clients : clearCosignHistory(c) \/ Restart(c)
  BY <1>1, <1>7, ClearKeeps, RestartKeeps, Zenon
<1> QED
  BY <1>2, <1>3, <1>4, <1>5, <1>6, <1>7, Zenon DEF Next

(* The invariant holds in every state. *)
THEOREM CosignInvariance == Spec => []CosignInv
  BY InitCosignInv, NextCosignInv, PTL DEF Spec

(* At most one ECDSA signature is given out per client and swap whose      *)
(* record is not forgotten: acceptWithdrawalTx checks cosignBusy and the   *)
(* history before it signs, and answers after recordCosign.                *)
THEOREM OneSignature == Spec => []OneCosignECDSA
<1>1. CosignInv => OneCosignECDSA
  <2> SUFFICES ASSUME CosignInv, NEW c \in Clients, NEW s \in Swaps \ forgotten[c]
               PROVE  Cardinality(Signed(c, s, {"ecdsa"})) <= 1
    BY Zenon DEF OneCosignECDSA
  <2>1. \A g, h \in Signed(c, s, {"ecdsa"}) : g = h
    BY Zenon DEF Signed, CosignInv, OneHash
  <2>2. CASE Signed(c, s, {"ecdsa"}) = {}
    BY <2>2, FS_EmptySet
  <2>3. ASSUME NEW h \in Signed(c, s, {"ecdsa"}) PROVE Cardinality(Signed(c, s, {"ecdsa"})) <= 1
    <3>1. Signed(c, s, {"ecdsa"}) = {h}
      BY <2>1, Zenon
    <3>2. Cardinality({h}) = 1
      BY FS_Singleton, Zenon
    <3> QED
      BY <3>1, <3>2
  <2> QED
    BY <2>2, <2>3, Zenon
<1> QED
  BY <1>1, CosignInvariance, PTL

(* The record of an ECDSA accept whose signature was given out stays in    *)
(* the history, which is well formed and within its limit (recordCosign).  *)
THEOREM RecordsStay == Spec => []RecordsKept
<1>1. CosignInv => RecordsKept
  BY Zenon DEF CosignInv, Types, RecordInv, Out, RecordsKept, Signed
<1> QED
  BY <1>1, CosignInvariance, PTL

=============================================================================
