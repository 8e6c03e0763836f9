---------------------------- MODULE ServerProofs ----------------------------
(***************************************************************************)
(* Proofs about the host server: the session registry, login and the       *)
(* timebox, which share its clock, and the escrow.                         *)
(***************************************************************************)
EXTENDS Session, Login, Timebox, Escrow, SequenceTheorems, TLAPS

-----------------------------------------------------------------------------
(***************************************************************************)
(* Proofs about the session registry, for every set of sessions, every     *)
(* TTL, and every number of restarts.                                      *)
(*                                                                         *)
(* The properties speak of answers, the code decides on entries.  Live     *)
(* ties them: every answer ok = true of this run that is not older than    *)
(* TTL has its entry, renewed no earlier than the answer, and every entry  *)
(* comes from such an answer.                                              *)
(***************************************************************************)

Live ==
  /\ \A id \in SessionIds : m[id] # NoSession =>
        /\ m[id].at <= now
        /\ [op |-> m[id].status, id |-> id, at |-> m[id].at, run |-> run] \in won
  /\ \A a \in won :
        /\ a.at <= now
        /\ a.run <= run
        /\ a.run = run /\ now - a.at <= TTL =>
              /\ Is(m, a.id, a.op)
              /\ a.at <= m[a.id].at

SessionInv == SessionTypeOK /\ Live /\ OneWinner /\ RefusalsJustified

(* The initial state satisfies the invariant. *)
LEMMA SessionInitInv == SessionInit => SessionInv
  BY SessionAssumption
  DEF SessionInit, SessionInv, SessionTypeOK, Live, OneWinner, RefusalsJustified,
      newSessionRegistry, Is

(* Pruning keeps the entries that are not older than TTL, unchanged, and   *)
(* adds none (prune).                                                      *)
LEMMA PruneKeeps ==
  ASSUME SessionTypeOK, NEW id \in SessionIds
  PROVE  /\ prune(m) \in [SessionIds -> sessionEntry \cup {NoSession}]
         /\ prune(m)[id] # NoSession => prune(m)[id] = m[id]
         /\ m[id] # NoSession /\ now - m[id].at <= TTL => prune(m)[id] = m[id]
         /\ prune(m)[id] # NoSession => now - m[id].at <= TTL
  BY SessionAssumption DEF SessionTypeOK, prune, sessionEntry

(* claim and cancel preserve the invariant: the two are one decision with  *)
(* the roles of the statuses exchanged.                                    *)
LEMMA DecideStep ==
  ASSUME SessionInv, NEW id \in SessionIds, NEW op \in Statuses,
         NEW opposite \in Statuses, op # opposite, Decide(id, op, opposite)
  PROVE  SessionInv'
<1> DEFINE r == prune(m)
<1> DEFINE v == [op |-> op, id |-> id, at |-> now, run |-> run]
<1>0. /\ SessionTypeOK /\ Live /\ OneWinner /\ RefusalsJustified
      /\ now' = now /\ run' = run
      /\ now \in Int /\ TTL \in Int /\ run \in Int
  BY SessionAssumption DEF SessionInv, Decide, SessionTypeOK
<1>1. v \in Verdict
  BY <1>0, Zenon DEF Verdict, SessionTypeOK
<1>2. /\ r \in [SessionIds -> sessionEntry \cup {NoSession}]
      /\ \A i \in SessionIds :
           /\ r[i] # NoSession => r[i] = m[i] /\ now - m[i].at <= TTL
           /\ m[i] # NoSession /\ now - m[i].at <= TTL => r[i] = m[i]
  BY <1>0, PruneKeeps, Zenon
<1>3. \A a \in won : /\ a \in Verdict
                     /\ a.id \in SessionIds /\ a.at \in Int /\ a.run \in Int
                     /\ a.op \in Statuses
  BY <1>0, SessionAssumption DEF SessionTypeOK, Verdict
<1>4. \A i \in SessionIds : m[i] # NoSession => m[i].at \in Int /\ m[i].status \in Statuses
  BY <1>0, SessionAssumption DEF SessionTypeOK, sessionEntry
<1>5. \A a \in won : a.run = run /\ now - a.at <= TTL =>
         /\ r[a.id] = m[a.id] /\ Is(r, a.id, a.op) /\ a.at <= r[a.id].at
  BY <1>0, <1>2, <1>3, <1>4 DEF Live, Is
<1>6. CASE Is(r, id, opposite)
  <2>0. m' = r /\ refused' = refused \cup {v} /\ won' = won
    BY <1>6, Zenon DEF Decide, verdict
  <2>1. SessionTypeOK'
    BY <1>0, <1>1, <1>2, <2>0, Zenon DEF SessionTypeOK
  <2>2. Live'
    BY <1>0, <1>2, <1>3, <1>5, <2>0, Zenon DEF Live, Is
  <2>3. OneWinner'
    BY <1>0, <2>0, Zenon DEF OneWinner, Opposite
  <2>4. RefusalsJustified'
    <3> DEFINE b == [op |-> m[id].status, id |-> id, at |-> m[id].at, run |-> run]
    <3>1. r[id] # NoSession /\ r[id] = m[id] /\ m[id].status = opposite
          /\ now - m[id].at <= TTL
      BY <1>2, <1>6, Zenon DEF Is
    <3>2. b \in won /\ m[id].at <= now /\ m[id].at \in Int
      BY <1>0, <1>4, <3>1, Zenon DEF Live
    <3>3. Opposite(v, b) /\ v.run = b.run /\ b.at <= v.at /\ v.at - b.at <= TTL
      BY <3>1, <3>2, Zenon DEF Opposite
    <3> QED
      BY <1>0, <2>0, <3>2, <3>3, Zenon DEF RefusalsJustified
  <2> QED
    BY <2>1, <2>2, <2>3, <2>4, Zenon DEF SessionInv
<1>7. CASE ~ Is(r, id, opposite)
  <2>0. /\ m' = [r EXCEPT ![id] = [status |-> op, at |-> now]]
        /\ won' = won \cup {v} /\ refused' = refused
    BY <1>7, Zenon DEF Decide, verdict
  <2>1. SessionTypeOK'
    BY <1>0, <1>1, <1>2, <2>0, Zenon DEF SessionTypeOK, sessionEntry
  <2>2. m'[id] = [status |-> op, at |-> now]
        /\ [status |-> op, at |-> now] \in sessionEntry
        /\ m'[id] # NoSession
        /\ \A i \in SessionIds \ {id} : m'[i] = r[i]
    BY <1>0, <1>2, <2>0, SessionAssumption DEF SessionTypeOK, sessionEntry
  <2>3. \A a \in won : a.id = id /\ a.run = run /\ now - a.at <= TTL => a.op = op
    BY <1>3, <1>5, <1>7, Zenon DEF Is, Statuses
  <2>4. Live'
    <3>1. ASSUME NEW i \in SessionIds, m'[i] # NoSession
          PROVE  /\ m'[i].at <= now
                 /\ [op |-> m'[i].status, id |-> i, at |-> m'[i].at, run |-> run] \in won'
      BY <1>0, <1>2, <2>0, <2>2, <3>1 DEF Live
    <3>2. ASSUME NEW a \in won'
          PROVE  /\ a.at <= now /\ a.run <= run
                 /\ a.run = run /\ now - a.at <= TTL =>
                       /\ Is(m', a.id, a.op)
                       /\ a.at <= m'[a.id].at
      <4>1. CASE a = v
        BY <1>0, <2>2, <4>1 DEF Is
      <4>2. CASE a \in won /\ a.id = id
        BY <1>0, <1>3, <2>2, <2>3, <4>2 DEF Live, Is
      <4>3. CASE a \in won /\ a.id # id
        BY <1>0, <1>3, <1>5, <2>2, <4>3, Zenon DEF Live, Is
      <4> QED
        BY <2>0, <4>1, <4>2, <4>3, Zenon
    <3> QED
      BY <1>0, <3>1, <3>2, Zenon DEF Live, Is
  <2>5. OneWinner'
    <3>1. \A a \in won : Opposite(a, v) /\ a.run = v.run =>
             a.at - v.at > TTL \/ v.at - a.at > TTL
      BY <1>0, <1>3, <2>3 DEF Opposite
    <3>2. \A a \in won : Opposite(v, a) /\ a.run = v.run =>
             a.at - v.at > TTL \/ v.at - a.at > TTL
      BY <3>1, Zenon DEF Opposite
    <3>3. ~ Opposite(v, v)
      BY Zenon DEF Opposite
    <3> QED
      BY <1>0, <2>0, <3>1, <3>2, <3>3 DEF OneWinner, Opposite
  <2>6. RefusalsJustified'
    BY <1>0, <2>0, Zenon DEF RefusalsJustified, Opposite
  <2> QED
    BY <2>1, <2>4, <2>5, <2>6, Zenon DEF SessionInv
<1> QED
  BY <1>6, <1>7, Zenon

(* Time passing only makes answers older, and a restart starts a run of    *)
(* its own: neither can break the invariant (SessionTick, SessionRestart).               *)
LEMMA SessionEnvironmentStep ==
  ASSUME SessionInv, SessionTick \/ SessionRestart \/ UNCHANGED sessionVars
  PROVE  SessionInv'
<1>1. SessionTypeOK /\ Live /\ OneWinner /\ RefusalsJustified
  BY Zenon DEF SessionInv
<1>2. won \subseteq Verdict /\ now \in Int /\ run \in Int /\ TTL \in Int
  BY <1>1, SessionAssumption DEF SessionTypeOK
<1>3. CASE SessionTick
  <2>1. SessionTypeOK'
    BY <1>1, <1>3, SessionAssumption DEF SessionTypeOK, SessionTick
  <2>2. Live'
    BY <1>1, <1>2, <1>3, SessionAssumption DEF Live, SessionTick, Is, SessionTypeOK, Verdict, sessionEntry
  <2> QED
    BY <1>1, <1>3, <2>1, <2>2, Zenon DEF SessionInv, SessionTick, OneWinner, RefusalsJustified, Opposite
<1>4. CASE SessionRestart
  <2>1. SessionTypeOK'
    BY <1>1, <1>4, SessionAssumption DEF SessionTypeOK, SessionRestart, newSessionRegistry
  <2>2. Live'
    BY <1>1, <1>2, <1>4, SessionAssumption DEF Live, SessionRestart, Is, SessionTypeOK, Verdict, newSessionRegistry
  <2> QED
    BY <1>1, <1>4, <2>1, <2>2, Zenon DEF SessionInv, SessionRestart, OneWinner, RefusalsJustified, Opposite
<1>5. CASE UNCHANGED sessionVars
  BY <1>1, <1>5, Zenon DEF SessionInv, sessionVars, SessionTypeOK, Live, OneWinner, RefusalsJustified, Opposite, Is
<1> QED
  BY <1>3, <1>4, <1>5, Zenon

(* The invariant is inductive. *)
THEOREM SessionInvariance == SessionSpec => []SessionInv
<1>1. SessionInv /\ [SessionNext]_sessionVars => SessionInv'
  BY DecideStep, SessionEnvironmentStep, Zenon DEF SessionNext, claim, cancel, Statuses
<1> QED
  BY SessionInitInv, <1>1, PTL DEF SessionSpec

(* A claim and a cancel of one session never both win within 15 minutes of *)
(* one server run (claim and cancel).                                      *)
THEOREM SessionOneWinner == SessionSpec => []OneWinner
<1>1. SessionInv => OneWinner
  BY Zenon DEF SessionInv
<1> QED
  BY SessionInvariance, <1>1, PTL

(* Every refusal has a recent opposite winner (prune, claim and cancel).   *)
THEOREM SessionRefusals == SessionSpec => []RefusalsJustified
<1>1. SessionInv => RefusalsJustified
  BY Zenon DEF SessionInv
<1> QED
  BY SessionInvariance, <1>1, PTL

-----------------------------------------------------------------------------
(***************************************************************************)
(* Proofs about login, for every set of addresses and of requests, every   *)
(* time to live and every number of nonces.                                *)
(*                                                                         *)
(* A nonce is in one place at a time: not yet issued, in the store, with   *)
(* the one request that took it from there, or spent.  What makes a login  *)
(* fresh is true of it in the store and goes with it.                      *)
(***************************************************************************)

(* The nonce in the store is the newest of its address, and unspent. *)
NonceStoreInv ==
  \A a \in Addresses : nonces[a] # NoNonce =>
     LET n == nonces[a].nonce IN
     /\ n <= Len(issued)
     /\ issued[n].address = a
     /\ nonces[a].expiresAt = issued[n].at + nonceTTL
     /\ \A k \in n + 1 .. Len(issued) : issued[k].address # a
     /\ logins[n] = 0
     /\ \A h \in LoginHandlers : verified[h] # NoLogin => verified[h].nonce # n

(* x, a request or a token, has a nonce of its address that was verified   *)
(* in time, when it was the newest.                                        *)
Fresh(x) ==
  /\ x.nonce <= Len(issued)
  /\ x.upto <= Len(issued)
  /\ issued[x.nonce].address = x.address
  /\ x.at - issued[x.nonce].at <= nonceTTL
  /\ \A k \in x.nonce + 1 .. x.upto : issued[k].address # x.address

(* Requests past Verify are fresh, and each has its nonce for itself. *)
RequestsInv ==
  \A h \in LoginHandlers : verified[h] # NoLogin =>
     /\ Fresh(verified[h])
     /\ verified[h].at <= now
     /\ verified[h].signature \in signed \cup {NoSignature}
     /\ logins[verified[h].nonce] = 0
     /\ \A g \in LoginHandlers \ {h} : verified[g] # NoLogin => verified[g].nonce # verified[h].nonce

TokensInv ==
  \A t \in tokens : Fresh(t) /\ t.at <= now /\ <<t.address, t.nonce>> \in signed

(* Nonces not yet issued have not been used. *)
UnusedInv == \A n \in Nonces : n > Len(issued) => logins[n] = 0

LoginInv ==
  /\ LoginTypeOK
  /\ NonceStoreInv
  /\ RequestsInv
  /\ TokensInv
  /\ UnusedInv
  /\ LoginOnce
  /\ AccessBacked

(* The initial state satisfies the invariant. *)
LEMMA LoginInitInv == LoginInit => LoginInv
  BY LoginAssumption
  DEF LoginInit, LoginInv, LoginTypeOK, NonceStoreInv, RequestsInv, TokensInv, UnusedInv,
      LoginOnce, AccessBacked, NewNonceStore, Nonces

(* Every nonce issued has its record. *)
LEMMA IssuedType ==
  ASSUME LoginInv, NEW n \in 1 .. Len(issued)
  PROVE  issued[n] \in [address : Addresses, at : 0 .. Horizon]
  BY ElementOfSeq, Zenon DEF LoginInv, LoginTypeOK

(* A nonce is appended to those issued, which stay as they are (Generate). *)
LEMMA IssuedGrows ==
  ASSUME LoginInv, NEW a \in Addresses, authNonce(a)
  PROVE  /\ issued' \in Seq([address : Addresses, at : 0 .. Horizon])
         /\ Len(issued') = Len(issued) + 1
         /\ Len(issued) \in Nat
         /\ Len(issued) < MaxNonces
         /\ \A k \in 1 .. Len(issued) : issued'[k] = issued[k]
         /\ issued'[Len(issued) + 1] = [address |-> a, at |-> now]
  BY LoginAssumption DEF LoginInv, LoginTypeOK, authNonce

(* What was fresh stays fresh: only its own past counts. *)
LEMMA FreshStays ==
  ASSUME LoginInv, NEW a \in Addresses, authNonce(a),
         NEW x, x.nonce \in Nonces, x.upto \in 0 .. MaxNonces, Fresh(x)
  PROVE  Fresh(x)'
<1>1. /\ Len(issued') = Len(issued) + 1
      /\ Len(issued) \in Nat
      /\ \A k \in 1 .. Len(issued) : issued'[k] = issued[k]
  BY IssuedGrows, Zenon
<1>2. /\ x.nonce \in 1 .. Len(issued) /\ x.upto \in Int
      /\ x.upto <= Len(issued)
  BY <1>1, LoginAssumption DEF Fresh, Nonces
<1>3. \A k \in x.nonce + 1 .. x.upto : k \in 1 .. Len(issued)
  BY <1>1, <1>2
<1> QED
  BY <1>1, <1>2, <1>3, SMTT(30) DEF Fresh

(* authNonce preserves the invariant: the new nonce is nobody's, and the   *)
(* one it replaces in the store is gone.                                   *)
LEMMA NonceStep ==
  ASSUME LoginInv, NEW a \in Addresses, authNonce(a)
  PROVE  LoginInv'
<1>1. /\ now' = now /\ verified' = verified /\ signed' = signed /\ logins' = logins
      /\ tokens' = tokens /\ accesses' = accesses
      /\ nonces' = [nonces EXCEPT ![a] = [nonce |-> Len(issued) + 1,
                                          expiresAt |-> now + nonceTTL]]
  BY Zenon DEF authNonce
<1>g. /\ issued' \in Seq([address : Addresses, at : 0 .. Horizon])
      /\ Len(issued') = Len(issued) + 1
      /\ Len(issued) \in Nat
      /\ Len(issued) < MaxNonces
      /\ \A k \in 1 .. Len(issued) : issued'[k] = issued[k]
      /\ issued'[Len(issued) + 1] = [address |-> a, at |-> now]
  BY IssuedGrows, Zenon
<1>2. LoginTypeOK'
  <2>1. [nonce |-> Len(issued) + 1, expiresAt |-> now + nonceTTL] \in nonceEntry
    BY <1>g, LoginAssumption DEF LoginInv, LoginTypeOK, nonceEntry, Nonces
  <2> QED
    BY <1>1, <2>1, <1>g, LoginAssumption, SMTT(30) DEF LoginInv, LoginTypeOK
<1>3. NonceStoreInv'
  <2> SUFFICES ASSUME NEW b \in Addresses, nonces'[b] # NoNonce
               PROVE  LET n == nonces'[b].nonce IN
                      /\ n <= Len(issued')
                      /\ issued'[n].address = b
                      /\ nonces'[b].expiresAt = issued'[n].at + nonceTTL
                      /\ \A k \in n + 1 .. Len(issued') : issued'[k].address # b
                      /\ logins'[n] = 0
                      /\ \A h \in LoginHandlers : verified'[h] # NoLogin => verified'[h].nonce # n
    BY Zenon DEF NonceStoreInv
  <2>1. CASE b = a
    <3>1. nonces'[b] = [nonce |-> Len(issued) + 1, expiresAt |-> now + nonceTTL]
      BY <1>1, <2>1, Zenon DEF LoginInv, LoginTypeOK
    <3>2. logins'[Len(issued) + 1] = 0
      BY <1>1, <1>g, LoginAssumption DEF LoginInv, UnusedInv, Nonces
    <3>3. \A h \in LoginHandlers : verified'[h] # NoLogin => verified'[h].nonce # Len(issued) + 1
      BY <1>1, <1>g DEF LoginInv, LoginTypeOK, RequestsInv, Fresh, LoginRequest, Nonces
    <3> QED
      BY <2>1, <3>1, <3>2, <3>3, <1>g DEF LoginInv, LoginTypeOK
  <2>2. CASE b # a
    <3>1. nonces'[b] = nonces[b] /\ nonces[b] \in nonceEntry
      BY <1>1, <2>2, Zenon DEF LoginInv, LoginTypeOK
    <3>2. PICK n \in 1 .. Len(issued) :
            /\ n = nonces[b].nonce
            /\ issued[n].address = b
            /\ nonces[b].expiresAt = issued[n].at + nonceTTL
            /\ \A k \in n + 1 .. Len(issued) : issued[k].address # b
            /\ logins[n] = 0
            /\ \A h \in LoginHandlers : verified[h] # NoLogin => verified[h].nonce # n
      <4>1. nonces[b].nonce \in 1 .. MaxNonces /\ nonces[b] # NoNonce
        BY <3>1, Zenon DEF nonceEntry, Nonces
      <4>2. nonces[b].nonce <= Len(issued)
        BY <4>1, Zenon DEF LoginInv, NonceStoreInv
      <4>3. nonces[b].nonce \in 1 .. Len(issued)
        BY <1>g, <4>1, <4>2, LoginAssumption
      <4> QED
        BY <4>1, <4>3, Zenon DEF LoginInv, NonceStoreInv
    <3>3. issued'[n] = issued[n]
      BY <1>g, Zenon
    <3>4. ASSUME NEW k \in n + 1 .. Len(issued') PROVE issued'[k].address # b
      <4>1. CASE k \in n + 1 .. Len(issued)
        <5>1. issued'[k] = issued[k]
          BY <1>g, <4>1
        <5> QED
          BY <3>2, <4>1, <5>1, Zenon
      <4>2. CASE k = Len(issued) + 1
        BY <1>g, <2>2, <4>2
      <4> QED
        <5>1. Len(issued) \in Nat /\ Len(issued') = Len(issued) + 1
          BY <1>g, Zenon
        <5>2. k \in n + 1 .. Len(issued) \/ k = Len(issued) + 1
          BY <5>1
        <5> QED
          BY <4>1, <4>2, <5>2, Zenon
    <3> QED
      BY <1>1, <1>g, <3>1, <3>2, <3>3, <3>4, SMTT(30)
  <2> QED
    BY <2>1, <2>2, Zenon
<1>4. RequestsInv'
  <2>1. ASSUME NEW h \in LoginHandlers, verified[h] # NoLogin PROVE Fresh(verified[h])'
    BY <1>1, <2>1, FreshStays, Zenon DEF LoginInv, LoginTypeOK, RequestsInv, LoginRequest
  <2> QED
    BY <1>1, <2>1, Zenon DEF LoginInv, RequestsInv
<1>5. TokensInv'
  <2>1. ASSUME NEW t \in tokens PROVE Fresh(t)'
    BY <1>1, <2>1, FreshStays, Zenon DEF LoginInv, LoginTypeOK, TokensInv, Token
  <2> QED
    BY <1>1, <2>1, Zenon DEF LoginInv, TokensInv
<1>6. UnusedInv' /\ LoginOnce' /\ AccessBacked'
  BY <1>1, <1>g DEF LoginInv, UnusedInv, LoginOnce, AccessBacked, Nonces
<1> QED
  BY <1>2, <1>3, <1>4, <1>5, <1>6, Zenon DEF LoginInv

(* Verify preserves the invariant: the nonce leaves the store, for the     *)
(* request or for good.                                                    *)
LEMMA VerifyStep ==
  ASSUME LoginInv, NEW h \in LoginHandlers, VerifyNonce(h)
  PROVE  LoginInv'
<1>1. PICK a \in Addresses, n \in Nonces, s \in signed \cup {NoSignature} :
        /\ nonces[a] # NoNonce
        /\ nonces' = [nonces EXCEPT ![a] = NoNonce]
        /\ verified' = IF now <= nonces[a].expiresAt /\ nonces[a].nonce = n
                    THEN [verified EXCEPT ![h] =
                            [address |-> a, nonce |-> n, signature |-> s,
                             at |-> now, upto |-> Len(issued)]]
                    ELSE verified
  BY Zenon DEF VerifyNonce, consume
<1>2. /\ verified[h] = NoLogin
      /\ now' = now /\ issued' = issued /\ signed' = signed /\ logins' = logins
      /\ tokens' = tokens /\ accesses' = accesses
  BY Zenon DEF VerifyNonce
<1> DEFINE r == [address |-> a, nonce |-> n, signature |-> s,
                 at |-> now, upto |-> Len(issued)]
<1>3. r \in LoginRequest
  BY <1>1, LoginAssumption DEF LoginInv, LoginTypeOK, LoginRequest
<1>4. LoginTypeOK'
  BY <1>1, <1>2, <1>3, Zenon DEF LoginInv, LoginTypeOK
<1>5. \A b \in Addresses : nonces'[b] # NoNonce => b # a /\ nonces'[b] = nonces[b]
  BY <1>1, Zenon DEF LoginInv, LoginTypeOK
<1>6. \A b \in Addresses \ {a} : nonces[b] # NoNonce =>
         nonces[b].nonce # nonces[a].nonce
  BY <1>1 DEF LoginInv, NonceStoreInv
<1>7. CASE verified' = verified
  <2>1. NonceStoreInv'
    BY <1>2, <1>5, <1>7 DEF LoginInv, NonceStoreInv
  <2>2. RequestsInv' /\ TokensInv' /\ UnusedInv' /\ LoginOnce' /\ AccessBacked'
    BY <1>2, <1>7, ZenonT(30) DEF LoginInv, RequestsInv, TokensInv, UnusedInv, LoginOnce, AccessBacked, Fresh
  <2> QED
    BY <1>4, <2>1, <2>2, Zenon DEF LoginInv
<1>8. CASE /\ now <= nonces[a].expiresAt /\ nonces[a].nonce = n
           /\ verified' = [verified EXCEPT ![h] = r]
  <2>1. /\ verified'[h] = r
        /\ \A g \in LoginHandlers \ {h} : verified'[g] = verified[g]
    BY <1>8, Zenon DEF LoginInv, LoginTypeOK
  <2>2. /\ n <= Len(issued)
        /\ issued[n].address = a
        /\ nonces[a].expiresAt = issued[n].at + nonceTTL
        /\ \A k \in n + 1 .. Len(issued) : issued[k].address # a
        /\ logins[n] = 0
        /\ \A g \in LoginHandlers : verified[g] # NoLogin => verified[g].nonce # n
    BY <1>1, <1>8, Zenon DEF LoginInv, NonceStoreInv
  <2>3. Fresh(r)
    <3>1. issued[n] \in [address : Addresses, at : 0 .. Horizon]
      <4>1. n \in 1 .. Len(issued)
        BY <2>2, LoginAssumption, SMTT(30) DEF LoginInv, LoginTypeOK, Nonces
      <4> QED
        BY <4>1, IssuedType, Zenon
    <3> QED
      BY <1>8, <2>2, <3>1, LoginAssumption, SMTT(30) DEF Fresh, LoginInv, LoginTypeOK
  <2>4. NonceStoreInv'
    <3> SUFFICES ASSUME NEW b \in Addresses, nonces'[b] # NoNonce,
                        NEW g \in LoginHandlers, verified'[g] # NoLogin
                 PROVE  verified'[g].nonce # nonces[b].nonce
      BY <1>2, <1>5, SMTT(30) DEF LoginInv, NonceStoreInv
    <3> QED
      BY <1>5, <1>6, <1>8, <2>1, SMTT(30) DEF LoginInv, NonceStoreInv
  <2>5. RequestsInv'
    <3>1. \A g \in LoginHandlers : verified'[g] # NoLogin => Fresh(verified[g])'
      <4> HIDE DEF r
      <4>1. Fresh(verified[h])'
        BY <1>2, <2>1, <2>3, Zenon DEF Fresh
      <4>2. ASSUME NEW g \in LoginHandlers \ {h}, verified'[g] # NoLogin
            PROVE  Fresh(verified[g])'
        <5>1. verified'[g] = verified[g] /\ Fresh(verified[g])
          BY <2>1, <4>2, Zenon DEF LoginInv, RequestsInv
        <5> QED
          BY <1>2, <5>1, Zenon DEF Fresh
      <4> QED
        BY <4>1, <4>2, Zenon
    <3>2. now \in Int
      BY DEF LoginInv, LoginTypeOK
    <3> QED
      BY <1>1, <1>2, <2>1, <2>2, <3>1, <3>2, SMTT(30) DEF LoginInv, RequestsInv
  <2>6. TokensInv' /\ UnusedInv' /\ LoginOnce' /\ AccessBacked'
    BY <1>2, Zenon DEF LoginInv, TokensInv, UnusedInv, LoginOnce, AccessBacked, Fresh
  <2> QED
    BY <1>4, <2>4, <2>5, <2>6, Zenon DEF LoginInv
<1> QED
  BY <1>1, <1>7, <1>8, Zenon

(* Issue preserves the invariant: the nonce of the request is spent. *)
LEMMA IssueStep ==
  ASSUME LoginInv, NEW h \in LoginHandlers, Issue(h)
  PROVE  LoginInv'
<1> DEFINE r == verified[h]
<1> DEFINE t == [address |-> r.address, nonce |-> r.nonce, at |-> r.at,
                 upto |-> r.upto, expiresAt |-> now + tokenTTL]
<1>1. /\ r # NoLogin
      /\ verified' = [verified EXCEPT ![h] = NoLogin]
      /\ nonces' = nonces /\ now' = now /\ issued' = issued
      /\ signed' = signed /\ accesses' = accesses
  BY Zenon DEF Issue
<1>2. r \in LoginRequest
  BY <1>1, Zenon DEF LoginInv, LoginTypeOK
<1>3. \A g \in LoginHandlers : verified'[g] # NoLogin => g # h /\ verified'[g] = verified[g]
  BY <1>1, Zenon DEF LoginInv, LoginTypeOK
<1>4. CASE UNCHANGED <<tokens, logins>>
  <2>1. LoginTypeOK'
    BY <1>1, <1>4, Zenon DEF LoginInv, LoginTypeOK
  <2>2. NonceStoreInv' /\ RequestsInv'
    BY <1>1, <1>3, <1>4 DEF LoginInv, NonceStoreInv, RequestsInv, Fresh
  <2> QED
    BY <1>1, <1>4, <2>1, <2>2, Zenon
    DEF LoginInv, TokensInv, UnusedInv, LoginOnce, AccessBacked, Fresh
<1>5. CASE /\ r.signature = <<r.address, r.nonce>>
           /\ tokens' = tokens \cup {t}
           /\ logins' = [logins EXCEPT ![r.nonce] = @ + 1]
  <2>1. /\ r.nonce \in Nonces /\ logins[r.nonce] = 0
        /\ logins'[r.nonce] = 1
        /\ \A n \in Nonces \ {r.nonce} : logins'[n] = logins[n]
        /\ logins' \in [Nonces -> Nat]
    BY <1>1, <1>2, <1>5 DEF LoginInv, LoginTypeOK, RequestsInv, LoginRequest
  <2>2. t \in Token
    BY <1>2, LoginAssumption DEF LoginInv, LoginTypeOK, Token, LoginRequest
  <2>3. LoginTypeOK'
    BY <1>1, <1>5, <2>1, <2>2, Zenon DEF LoginInv, LoginTypeOK
  <2>4. NonceStoreInv'
    <3>1. \A a \in Addresses : nonces[a] # NoNonce =>
             nonces[a].nonce \in Nonces \ {r.nonce}
      BY <1>1, SMTT(30) DEF LoginInv, LoginTypeOK, NonceStoreInv, nonceEntry
    <3> QED
      BY <1>1, <1>3, <2>1, <3>1, SMTT(30) DEF LoginInv, NonceStoreInv
  <2>5. RequestsInv'
    <3>1. \A g \in LoginHandlers \ {h} : verified[g] # NoLogin =>
             verified[g].nonce \in Nonces \ {r.nonce}
      BY <1>1, Zenon DEF LoginInv, LoginTypeOK, RequestsInv, LoginRequest
    <3> QED
      BY <1>1, <1>3, <2>1, <3>1 DEF LoginInv, RequestsInv, Fresh
  <2>6. TokensInv'
    <3>1. Fresh(r) /\ r.at <= now /\ r.signature \in signed \cup {NoSignature}
      BY <1>1, Zenon DEF LoginInv, RequestsInv
    <3>2. <<r.address, r.nonce>> \in signed
      BY <1>2, <1>5, <3>1, LoginAssumption DEF LoginRequest, Signature
    <3>3. Fresh(t)
      BY <3>1, Zenon DEF Fresh
    <3>4. \A u \in tokens \cup {t} : Fresh(u) /\ u.at <= now /\ <<u.address, u.nonce>> \in signed
      <4>1. t.at = r.at /\ t.address = r.address /\ t.nonce = r.nonce
        BY Zenon
      <4>2. \A u \in tokens : Fresh(u) /\ u.at <= now /\ <<u.address, u.nonce>> \in signed
        BY Zenon DEF LoginInv, TokensInv
      <4>3. t.at <= now /\ <<t.address, t.nonce>> \in signed
        BY <3>1, <3>2, <4>1, Zenon
      <4> HIDE DEF t
      <4> QED
        BY <3>3, <4>2, <4>3, Zenon
    <3>5. \A u : Fresh(u) => Fresh(u)'
      BY <1>1, Zenon DEF Fresh
    <3> QED
      BY <1>1, <1>5, <3>4, <3>5, Zenon DEF TokensInv
  <2>7. UnusedInv'
    <3>1. r.nonce <= Len(issued)
      BY <1>1, Zenon DEF LoginInv, RequestsInv, Fresh
    <3>2. Len(issued) \in Nat /\ r.nonce \in Nat
      BY <2>1 DEF LoginInv, LoginTypeOK, Nonces
    <3> QED
      BY <1>1, <2>1, <3>1, <3>2 DEF LoginInv, UnusedInv, Nonces
  <2>8. LoginOnce'
    BY <2>1 DEF LoginInv, LoginOnce
  <2>9. AccessBacked'
    BY <1>1, <1>5, Zenon DEF LoginInv, AccessBacked
  <2> QED
    BY <2>3, <2>4, <2>5, <2>6, <2>7, <2>8, <2>9, Zenon DEF LoginInv
<1> QED
  BY <1>4, <1>5, Zenon DEF Issue

(* The other steps preserve the invariant. *)
LEMMA LoginOtherSteps ==
  ASSUME LoginInv,
         \/ \E n \in Nonces : Sign(n)
         \/ \E t \in tokens : Middleware(t)
         \/ Cleanup \/ LoginTick \/ LoginRestart \/ UNCHANGED loginVars
  PROVE  LoginInv'
<1>1. ASSUME NEW n \in Nonces, Sign(n) PROVE LoginInv'
  <2>1. <<issued[n].address, n>> \in Signature
    <3>1. n \in 1 .. Len(issued)
      BY <1>1, LoginAssumption DEF LoginInv, LoginTypeOK, Sign, Nonces
    <3> QED
      BY <3>1, IssuedType, Zenon DEF Signature
  <2>2. LoginTypeOK'
    BY <1>1, <2>1, ZenonT(30) DEF LoginInv, LoginTypeOK, Sign
  <2> QED
    BY <1>1, <2>2 DEF Sign, LoginInv, NonceStoreInv, RequestsInv, TokensInv, UnusedInv,
                      LoginOnce, AccessBacked, Fresh
<1>2. ASSUME NEW t \in tokens, Middleware(t) PROVE LoginInv'
  <2>1. t \in Token /\ t.at <= now
    BY Zenon DEF LoginInv, LoginTypeOK, TokensInv
  <2>2. LoginTypeOK'
    BY <1>2, <2>1, SMTT(30) DEF LoginInv, LoginTypeOK, Middleware, Token
  <2>3. AccessBacked'
    <3> SUFFICES ASSUME NEW x \in accesses'
                 PROVE  \E u \in tokens : u.address = x.address /\ u.at <= x.at /\ x.at < u.expiresAt
      BY <1>2, Zenon DEF AccessBacked, Middleware
    <3>1. CASE x \in accesses
      BY <3>1, Zenon DEF LoginInv, AccessBacked
    <3>2. CASE x = [address |-> t.address, at |-> now]
      BY <1>2, <2>1, <3>2, Zenon DEF Middleware
    <3> QED
      BY <1>2, <3>1, <3>2, Zenon DEF Middleware
  <2> QED
    BY <1>2, <2>2, <2>3 DEF Middleware, LoginInv, NonceStoreInv, RequestsInv, TokensInv,
                            UnusedInv, LoginOnce, Fresh
<1>3. ASSUME Cleanup PROVE LoginInv'
  <2>1. \A a \in Addresses : nonces'[a] = NoNonce \/ nonces'[a] = nonces[a]
    BY <1>3, Zenon DEF Cleanup
  <2>2. LoginTypeOK'
    BY <1>3, Zenon DEF LoginInv, LoginTypeOK, Cleanup
  <2>3. NonceStoreInv'
    BY <1>3, <2>1, Zenon DEF Cleanup, LoginInv, NonceStoreInv
  <2> QED
    BY <1>3, <2>2, <2>3, SMTT(30) DEF Cleanup, LoginInv, RequestsInv, TokensInv, UnusedInv,
                            LoginOnce, AccessBacked, Fresh
<1>4. ASSUME LoginTick PROVE LoginInv'
  <2>1. LoginTypeOK'
    BY <1>4, LoginAssumption DEF LoginInv, LoginTypeOK, LoginTick
  <2>2. /\ \A h \in LoginHandlers : verified[h] # NoLogin => verified[h].at \in Nat
        /\ \A t \in tokens : t.at \in Nat
        /\ now \in Nat
    BY LoginAssumption, SMTT(30) DEF LoginInv, LoginTypeOK, LoginRequest, Token
  <2>3. RequestsInv' /\ TokensInv'
    BY <1>4, <2>2 DEF LoginTick, LoginInv, RequestsInv, TokensInv, Fresh
  <2> QED
    BY <1>4, <2>1, <2>3, Zenon DEF LoginTick, LoginInv, NonceStoreInv, UnusedInv, LoginOnce, AccessBacked
<1>5. ASSUME LoginRestart PROVE LoginInv'
  <2>1. LoginTypeOK' /\ NonceStoreInv' /\ RequestsInv'
    BY <1>5, SMTT(30) DEF LoginRestart, NewNonceStore, LoginInv, LoginTypeOK, NonceStoreInv, RequestsInv
  <2> QED
    BY <1>5, <2>1, Zenon DEF LoginRestart, LoginInv, TokensInv, UnusedInv, LoginOnce, AccessBacked, Fresh
<1>6. ASSUME UNCHANGED loginVars PROVE LoginInv'
  <2>1. UNCHANGED <<nonces, now, verified, issued, signed, logins, tokens, accesses>>
    BY <1>6, Zenon DEF loginVars
  <2>2. LoginTypeOK' /\ UnusedInv' /\ LoginOnce' /\ AccessBacked'
    BY <2>1, Zenon DEF LoginInv, LoginTypeOK, UnusedInv, LoginOnce, AccessBacked
  <2>3. NonceStoreInv'
    BY <2>1, Zenon DEF LoginInv, NonceStoreInv
  <2>4. RequestsInv' /\ TokensInv'
    BY <2>1, ZenonT(30) DEF LoginInv, RequestsInv, TokensInv, Fresh
  <2> QED
    BY <2>2, <2>3, <2>4, Zenon DEF LoginInv
<1> QED
  BY <1>1, <1>2, <1>3, <1>4, <1>5, <1>6, Zenon

(* The invariant is inductive. *)
THEOREM LoginInvariance == LoginSpec => []LoginInv
<1>1. LoginInv /\ [LoginNext]_loginVars => LoginInv'
  BY NonceStep, VerifyStep, IssueStep, LoginOtherSteps, Zenon DEF LoginNext
<1> QED
  BY LoginInitInv, <1>1, PTL DEF LoginSpec

(* A nonce logs in at most once (Verify deletes it under the mutex). *)
THEOREM NonceUsedOnce == LoginSpec => []LoginOnce
<1>1. LoginInv => LoginOnce
  BY Zenon DEF LoginInv
<1> QED
  BY LoginInvariance, <1>1, PTL

(* A token was earned with the newest nonce of its address, in time and    *)
(* with the signature of that address (Generate, Verify, VerifySignature). *)
THEOREM TokensEarned == LoginSpec => []LoginFresh
<1>1. LoginInv => LoginFresh
  BY Zenon DEF LoginInv, TokensInv, Fresh, LoginFresh
<1> QED
  BY LoginInvariance, <1>1, PTL

(* Whoever is let through owns a token that was valid then (Middleware). *)
THEOREM AccessesBacked == LoginSpec => []AccessBacked
<1>1. LoginInv => AccessBacked
  BY Zenon DEF LoginInv
<1> QED
  BY LoginInvariance, <1>1, PTL

-----------------------------------------------------------------------------
(***************************************************************************)
(* Proofs about the timebox, for every set of users, pairs, posts and      *)
(* requests and every delay.                                               *)
(*                                                                         *)
(* A get answers from an entry it has read earlier, for a pair it loads    *)
(* later.  This is safe because an entry never changes: whatever was read  *)
(* was posted, verified and dated, and a later post is another entry.      *)
(***************************************************************************)

(* What is stored was posted under its key, and verified. *)
BoxInv ==
  /\ \A k \in Pubs : box[k] # NoEntry => box[k] \in stored /\ box[k].pub = k
  /\ \A e \in stored : Validate(e.pub, e.hash, e.sig) = "valid"

(* A post that is about to be written was verified; a get has read what    *)
(* was stored.                                                             *)
CallInv ==
  \A h \in Handlers :
     /\ stage[h] # "idle" => call[h] \in Call
     /\ stage[h] = "authorized" =>
          Validate(call[h].entry.pub, call[h].entry.hash, call[h].entry.sig) = "valid"
     /\ stage[h] = "read" => /\ call[h].entry \in stored
                          /\ call[h].entry.pub = call[h].pub
                          /\ call[h].due \subseteq stored

(* A pair that is not there was deleted. *)
PairsInv == Pairs \ pairs \subseteq deleted

ReplyInv == reply # NoReply => reply.due \subseteq stored

TimeboxInv ==
  /\ ReleasesLate
  /\ PromisesKept
  /\ BoxInv
  /\ CallInv
  /\ PairsInv
  /\ ReplyInv

(* The initial state satisfies the invariant. *)
LEMMA TimeboxInitInv == TimeboxInit => TimeboxInv
  BY TimeboxAssumption
  DEF TimeboxInit, TimeboxInv, TimeboxTypeOK, ReleasesLate, PromisesKept, BoxInv, CallInv, PairsInv, ReplyInv

(* What is true of the last answer stays true of it. *)
LEMMA ReplyStays ==
  ASSUME TimeboxInv, TimeboxTypeOK', reply' = reply, stored \subseteq stored', deleted \subseteq deleted'
  PROVE  ReleasesLate' /\ PromisesKept' /\ ReplyInv'
<1>1. ReleasesLate' /\ ReplyInv'
  BY Zenon DEF TimeboxInv, ReleasesLate, ReplyInv
<1>2. PromisesKept'
  <2> SUFFICES ASSUME reply # NoReply, NEW e \in stored', Due(e)
               PROVE  \/ reply.outcome = "signature"
                      \/ e.pair \in deleted'
                      \/ reply.entry # e /\ reply.entry \in stored'
    BY Zenon DEF PromisesKept, Due
  <2>1. e \in stored
    BY Zenon DEF Due, TimeboxInv, ReplyInv
  <2> QED
    BY <2>1, Zenon DEF TimeboxInv, PromisesKept
<1> QED
  BY <1>1, <1>2, Zenon

(* The end of a call. *)
LEMMA FinishCalls ==
  ASSUME TimeboxInv, NEW h \in Handlers, EndCall(h), stored \subseteq stored'
  PROVE  /\ stage' \in [Handlers -> {"idle", "parsed", "authorized", "read"}]
         /\ call' \in [Handlers -> Call \cup {NoCall}]
         /\ CallInv'
<1>1. /\ stage' \in [Handlers -> {"idle", "parsed", "authorized", "read"}]
      /\ call' \in [Handlers -> Call \cup {NoCall}]
      /\ stage'[h] = "idle"
      /\ \A g \in Handlers \ {h} : stage'[g] = stage[g] /\ call'[g] = call[g]
  BY Zenon DEF TimeboxInv, ReleasesLate, TimeboxTypeOK, EndCall
<1>2. CallInv'
  BY <1>1, Zenon DEF TimeboxInv, CallInv
<1> QED
  BY <1>1, <1>2, Zenon

(* timeboxPost up to its write: what is dated is now, what is let through  *)
(* is valid.                                                               *)
LEMMA TimeboxPostSteps ==
  ASSUME TimeboxInv, NEW h \in Handlers, parseTimeboxPost(h) \/ Authorize(h) \/ StorageFails(h)
  PROVE  TimeboxInv'
<1>1. UNCHANGED <<box, pairs, now, stored, deleted, reply>>
  BY Zenon DEF parseTimeboxPost, Authorize, StorageFails
<1>2. TimeboxTypeOK' /\ CallInv'
  <2>1. CASE parseTimeboxPost(h)
    <3>1. PICK u \in Users, p \in Posts :
            call' = [call EXCEPT ![h] =
              [user |-> u, pub |-> p.pub, hash |-> p.hash, due |-> {},
               entry |-> [pair |-> p.pair, pub |-> p.pub, hash |-> p.hash,
                          sig |-> p.sig, createdAt |-> now]]]
      BY <2>1, Zenon DEF parseTimeboxPost
    <3> DEFINE e == [pair |-> p.pair, pub |-> p.pub, hash |-> p.hash,
                     sig |-> p.sig, createdAt |-> now]
    <3> DEFINE c == [user |-> u, pub |-> p.pub, hash |-> p.hash, due |-> {}, entry |-> e]
    <3>2. e \in timeboxEntry
      BY TimeboxAssumption, Zenon DEF TimeboxInv, ReleasesLate, TimeboxTypeOK, timeboxEntry
    <3>3. c \in Call
      BY <3>2, TimeboxAssumption, Zenon DEF Call
    <3> HIDE DEF c
    <3>4. /\ stage' = [stage EXCEPT ![h] = "parsed"]
          /\ call' = [call EXCEPT ![h] = c]
      BY <2>1, <3>1, Zenon DEF parseTimeboxPost, c
    <3> QED
      BY <1>1, <3>3, <3>4, Zenon DEF TimeboxInv, ReleasesLate, TimeboxTypeOK, CallInv
  <2>2. CASE Authorize(h)
    <3>1. CASE /\ stage[h] = "parsed" /\ stage' = [stage EXCEPT ![h] = "authorized"] /\ call' = call
               /\ Validate(call[h].entry.pub, call[h].entry.hash, call[h].entry.sig) = "valid"
      BY <1>1, <3>1, Zenon DEF TimeboxInv, ReleasesLate, TimeboxTypeOK, CallInv
    <3>2. CASE EndCall(h)
      BY <1>1, <3>2, FinishCalls, Zenon DEF TimeboxInv, ReleasesLate, TimeboxTypeOK
    <3> QED
      BY <2>2, <3>1, <3>2, Zenon DEF Authorize
  <2>3. CASE StorageFails(h)
    BY <1>1, <2>3, FinishCalls, Zenon DEF StorageFails, TimeboxInv, ReleasesLate, TimeboxTypeOK
  <2> QED
    BY <2>1, <2>2, <2>3, Zenon
<1>3. BoxInv' /\ PairsInv'
  BY <1>1, Zenon DEF TimeboxInv, BoxInv, PairsInv
<1> QED
  BY <1>1, <1>2, <1>3, ReplyStays, Zenon DEF TimeboxInv

(* The write of a post: the old entry is gone from the key, and stays in   *)
(* the hands of those who have read it.                                    *)
LEMMA PutTimeboxStep ==
  ASSUME TimeboxInv, NEW h \in Handlers, putTimebox(h)
  PROVE  TimeboxInv'
<1> DEFINE e == call[h].entry
<1>1. /\ stage[h] = "authorized"
      /\ box' = [box EXCEPT ![e.pub] = e]
      /\ stored' = stored \cup {e}
      /\ EndCall(h)
      /\ UNCHANGED <<pairs, now, deleted, reply>>
  BY Zenon DEF putTimebox
<1>2. /\ e \in timeboxEntry /\ e.pub \in Pubs
      /\ Validate(e.pub, e.hash, e.sig) = "valid"
  BY <1>1, Zenon DEF TimeboxInv, CallInv, Call, timeboxEntry
<1> HIDE DEF e
<1>3. TimeboxTypeOK' /\ CallInv'
  BY <1>1, <1>2, FinishCalls, Zenon DEF TimeboxInv, ReleasesLate, TimeboxTypeOK
<1>4. BoxInv'
  BY <1>1, <1>2, Zenon DEF TimeboxInv, ReleasesLate, TimeboxTypeOK, BoxInv
<1>5. PairsInv'
  BY <1>1, Zenon DEF TimeboxInv, PairsInv
<1> QED
  BY <1>1, <1>3, <1>4, <1>5, ReplyStays, Zenon DEF TimeboxInv

(* getTimebox: what is read was stored. *)
LEMMA GetTimeboxStep ==
  ASSUME TimeboxInv, NEW h \in Handlers, getTimebox(h)
  PROVE  TimeboxInv'
<1>1. /\ stage' = [stage EXCEPT ![h] = "read"]
      /\ UNCHANGED <<box, pairs, now, stored, deleted, reply>>
  BY Zenon DEF getTimebox
<1>2. PICK u \in Users, k \in Pubs, x \in Hashes :
        /\ box[k] # NoEntry
        /\ call' = [call EXCEPT ![h] =
             [user |-> u, pub |-> k, hash |-> x, entry |-> box[k],
              due |-> {e \in stored : e.pub = k}]]
  BY Zenon DEF getTimebox
<1> DEFINE c == [user |-> u, pub |-> k, hash |-> x, entry |-> box[k],
                 due |-> {e \in stored : e.pub = k}]
<1>3. /\ c \in Call /\ c.entry \in stored /\ c.entry.pub = c.pub
      /\ c.due \subseteq stored
  BY <1>2, Zenon DEF TimeboxInv, ReleasesLate, TimeboxTypeOK, BoxInv, Call
<1> HIDE DEF c
<1>4. call' = [call EXCEPT ![h] = c]
  BY <1>2, Zenon DEF c
<1>5. TimeboxTypeOK' /\ CallInv'
  BY <1>1, <1>3, <1>4, Zenon DEF TimeboxInv, ReleasesLate, TimeboxTypeOK, CallInv
<1>6. BoxInv' /\ PairsInv'
  BY <1>1, Zenon DEF TimeboxInv, BoxInv, PairsInv
<1> QED
  BY <1>1, <1>5, <1>6, ReplyStays, Zenon DEF TimeboxInv

(* timeboxGet: the answer. *)
LEMMA TimeboxGetStep ==
  ASSUME TimeboxInv, NEW h \in Handlers, timeboxGet(h)
  PROVE  TimeboxInv'
<1> DEFINE c == call[h]
<1> DEFINE o == Outcome(c.user, c.hash, c.entry)
<1> DEFINE r == [to |-> c.user, pub |-> c.pub, hash |-> c.hash,
                 entry |-> c.entry, due |-> c.due, at |-> now, outcome |-> o]
<1>1. /\ stage[h] = "read"
      /\ reply' = r
      /\ EndCall(h)
      /\ UNCHANGED <<box, pairs, now, stored, deleted>>
  BY Zenon DEF timeboxGet
<1>2. /\ c \in Call /\ c.entry \in stored /\ c.entry.pub = c.pub
      /\ c.due \subseteq stored
  BY <1>1, ZenonT(30) DEF TimeboxInv, CallInv
<1>3. /\ c.entry.createdAt \in Int /\ now \in Int /\ timeboxDelay \in Int
      /\ c.entry.pair \in Pairs
  <2>1. c.entry \in timeboxEntry /\ now \in 0 .. Horizon
    BY <1>2, Zenon DEF TimeboxInv, ReleasesLate, TimeboxTypeOK
  <2>2. c.entry.createdAt \in 0 .. Horizon /\ c.entry.pair \in Pairs
    <3> HIDE DEF c
    <3> QED
      BY <2>1, Zenon DEF timeboxEntry
  <2> HIDE DEF c
  <2> QED
    BY <2>1, <2>2, TimeboxAssumption
<1>4. o \in {"forbidden", "invalid", "wait", "signature"}
  BY ZenonT(30) DEF Outcome
<1>5. o = "signature" => /\ c.user \in Members(c.entry.pair)
                         /\ Validate(c.entry.pub, c.hash, c.entry.sig) = "valid"
                         /\ now >= c.entry.createdAt + timeboxDelay
  <2>1. o = "signature" => /\ authorizeTimeboxAccess(c.user, c.entry.pair)
                           /\ Validate(c.entry.pub, c.hash, c.entry.sig) = "valid"
                           /\ ~ (now < c.entry.createdAt + timeboxDelay)
    BY Zenon DEF Outcome
  <2>2. ~ (now < c.entry.createdAt + timeboxDelay) => now >= c.entry.createdAt + timeboxDelay
    BY <1>3
  <2>3. QED
    BY <2>1, <2>2, Zenon DEF authorizeTimeboxAccess
<1>6. /\ c.user \in Members(c.entry.pair)
      /\ c.hash = c.entry.hash
      /\ now >= c.entry.createdAt + timeboxDelay
      => o = "signature" \/ c.entry.pair \in deleted
  BY <1>2, <1>3 DEF Outcome, authorizeTimeboxAccess, TimeboxInv, PairsInv, BoxInv
<1> HIDE DEF o
<1>7. r \in Reply
  BY <1>2, <1>4, Zenon DEF TimeboxInv, ReleasesLate, TimeboxTypeOK, Reply, Call
<1>8. TimeboxTypeOK' /\ CallInv'
  BY <1>1, <1>7, FinishCalls, Zenon DEF TimeboxInv, ReleasesLate, TimeboxTypeOK
<1>9. /\ r.to = c.user /\ r.pub = c.pub /\ r.hash = c.hash /\ r.entry = c.entry
      /\ r.due = c.due /\ r.at = now /\ r.outcome = o
  BY Zenon
<1> HIDE DEF r, c
<1>10. ReleasesLate'
  BY <1>1, <1>2, <1>5, <1>8, <1>9, Zenon DEF ReleasesLate
<1>11. PromisesKept'
  BY <1>1, <1>2, <1>6, <1>9, Zenon DEF PromisesKept, Due
<1>12. BoxInv' /\ PairsInv' /\ ReplyInv'
  BY <1>1, <1>2, <1>9, Zenon DEF TimeboxInv, BoxInv, PairsInv, ReplyInv
<1> QED
  BY <1>8, <1>10, <1>11, <1>12, Zenon DEF TimeboxInv

(* Pairs that come and go, the clock and restarts. *)
LEMMA TimeboxOtherSteps ==
  ASSUME TimeboxInv,
         \/ \E p \in Pairs : Unpair(p) \/ Repair(p)
         \/ TimeboxTick \/ TimeboxCrash \/ UNCHANGED timeboxVars
  PROVE  TimeboxInv'
<1>1. reply' = reply /\ stored' = stored /\ box' = box /\ deleted \subseteq deleted'
  BY Zenon DEF Unpair, Repair, TimeboxTick, TimeboxCrash, timeboxVars
<1>2. TimeboxTypeOK'
  BY TimeboxAssumption DEF TimeboxInv, ReleasesLate, TimeboxTypeOK, Unpair, Repair, TimeboxTick, TimeboxCrash, timeboxVars
<1>3. CallInv'
  BY Zenon DEF TimeboxInv, CallInv, Unpair, Repair, TimeboxTick, TimeboxCrash, timeboxVars
<1>4. PairsInv'
  BY Zenon DEF TimeboxInv, PairsInv, Unpair, Repair, TimeboxTick, TimeboxCrash, timeboxVars
<1>5. BoxInv'
  BY <1>1, Zenon DEF TimeboxInv, BoxInv
<1> QED
  BY <1>1, <1>2, <1>3, <1>4, <1>5, ReplyStays, Zenon DEF TimeboxInv

(* The invariant is inductive. *)
THEOREM TimeboxInvariance == TimeboxSpec => []TimeboxInv
<1>1. TimeboxInv /\ [TimeboxNext]_timeboxVars => TimeboxInv'
  BY TimeboxPostSteps, PutTimeboxStep, GetTimeboxStep, TimeboxGetStep, TimeboxOtherSteps, Zenon DEF TimeboxNext
<1> QED
  BY TimeboxInitInv, <1>1, PTL DEF TimeboxSpec

(* No signature leaves early, to a stranger or for another hash            *)
(* (timeboxGet).                                                           *)
THEOREM NeverEarly == TimeboxSpec => []ReleasesLate
<1>1. TimeboxInv => ReleasesLate
  BY Zenon DEF TimeboxInv
<1> QED
  BY TimeboxInvariance, <1>1, PTL

(* Once it is due, a member who asks is given the signature, unless its    *)
(* pair was deleted or another post took its key (putTimebox, timeboxGet). *)
THEOREM DueGiven == TimeboxSpec => []PromisesKept
<1>1. TimeboxInv => PromisesKept
  BY Zenon DEF TimeboxInv
<1> QED
  BY TimeboxInvariance, <1>1, PTL

-----------------------------------------------------------------------------
(***************************************************************************)
(* Proofs about Escrow, for every set of users, ids, keys, handlers and    *)
(* requests.                                                               *)
(*                                                                         *)
(* The argument: escrowMu makes the copy of a handler equal to what is     *)
(* stored until the handler has answered (HandlersInv), so a write only    *)
(* ever extends the stored pollination: slots keep their key, their        *)
(* signature once there is one, and their depositor once there is one.     *)
(***************************************************************************)

(* q differs from p only by filling what p left open. *)
Extends(p, q) ==
  \A s \in Slots : p[s] # NoFlower =>
     /\ q[s] # NoFlower
     /\ q[s].pub = p[s].pub
     /\ p[s].sig # NoSig => q[s].sig = p[s].sig
     /\ p[s].depositor # Nobody => q[s].depositor = p[s].depositor

(* Slots fill up in order and hold different keys. *)
WellFormed(p) ==
  /\ p["flower1"] = NoFlower => p["flower2"] = NoFlower
  /\ Full(p) => p["flower1"].pub # p["flower2"].pub

StoreInv == \A id \in Ids : WellFormed(store[id])

(* Where a stored flower comes from. *)
FlowersInv ==
  \A id \in Ids, s \in Slots : store[id][s] # NoFlower =>
     \/ store[id][s] \in LegacyFlowers
     \/ \E r \in deposits : r.id = id /\ store[id][s] = FlowerOf(r)

(* A handler past the lock holds it, and works on what is stored. *)
HandlersInv ==
  \A h \in Handlers :
     /\ pc[h] # "idle" => req[h] \in Requests
     /\ pc[h] \in {"loaded", "stored"} =>
           escrowMu = h /\ loc[h] = store[req[h].id]
     /\ pc[h] = "stored" =>
           \E s \in Slots : loc[h][s] = FlowerOf(req[h])
     /\ pc[h] = "stored" => req[h] \in deposits

(* HandlersInv with the types of what belongs to the handlers. *)
HandlersOK ==
  /\ escrowMu \in Handlers \cup {Free}
  /\ pc \in [Handlers -> {"idle", "lock", "loaded", "stored"}]
  /\ req \in [Handlers -> Requests \cup {NoRequest}]
  /\ loc \in [Handlers -> Pollination]
  /\ HandlersInv

EscrowInv ==
  /\ TypeOK
  /\ StoreInv
  /\ FlowersInv
  /\ HandlersInv
  /\ DepositsKept
  /\ ReleasesBacked
  /\ ReleasesUsable

-----------------------------------------------------------------------------
(* Facts about the operators.                                              *)

(* The flower of a request is a flower with a depositor. *)
LEMMA FlowerOfType ==
  ASSUME NEW r \in Requests
  PROVE  /\ r \in Request
         /\ FlowerOf(r) \in Flower
         /\ FlowerOf(r) # NoFlower
         /\ FlowerOf(r).depositor \in Users
         /\ r.id \in Ids
  BY EscrowAssumption DEF FlowerOf, Request, Flower

(* The flower of a request carries its key, hash, signature and depositor. *)
LEMMA FlowerOfFields ==
  ASSUME NEW r
  PROVE  /\ FlowerOf(r).pub = r.pub /\ FlowerOf(r).hash = r.hash
         /\ FlowerOf(r).sig = r.sig /\ FlowerOf(r).depositor = r.depositor
  BY Zenon DEF FlowerOf

(* addFlower, when it accepts, extends the pollination and puts the flower *)
(* into one of its slots.                                                  *)
LEMMA AddFlowerExtends ==
  ASSUME NEW p \in Pollination, WellFormed(p),
         NEW f \in Flower, f.depositor # Nobody, Accepts(p, f)
  PROVE  /\ addFlower(p, f) \in Pollination
         /\ WellFormed(addFlower(p, f))
         /\ Extends(p, addFlower(p, f))
         /\ SlotFor(p, f) \in Slots
         /\ addFlower(p, f)[SlotFor(p, f)] = f
         /\ \A s \in Slots : s # SlotFor(p, f) => addFlower(p, f)[s] = p[s]
<1> DEFINE t == SlotFor(p, f)
           q == addFlower(p, f)
<1>1. t \in Slots
  BY Zenon DEF SlotFor, Slots
<1>2. f # NoFlower
  BY EscrowAssumption, Zenon
<1>3. q \in Pollination
  BY <1>1, Zenon DEF addFlower, Pollination
<1>4. q[t] = f /\ \A s \in Slots : s # t => q[s] = p[s]
  BY <1>1, Zenon DEF addFlower, Pollination
<1>5. Extends(p, q)
  <2> SUFFICES ASSUME NEW s \in Slots, p[s] # NoFlower
               PROVE  /\ q[s] # NoFlower
                      /\ q[s].pub = p[s].pub
                      /\ p[s].sig # NoSig => q[s].sig = p[s].sig
                      /\ p[s].depositor # Nobody => q[s].depositor = p[s].depositor
    BY Zenon DEF Extends
  <2>1. CASE s # t
    BY <2>1, <1>4, Zenon
  <2>2. CASE s = t
    <3>1. Holds(p, t, f.pub)
      BY <2>2, Zenon DEF Accepts, MayOccupy, SlotFor, Holds, Slots
    <3>2. MayReplace(p, t, f)
      BY <3>1, Zenon DEF Accepts
    <3>3. QED
      BY <3>1, <3>2, <2>2, <1>2, <1>4, Zenon DEF MayReplace, Holds
  <2>3. QED
    BY <2>1, <2>2, Zenon
<1>6. WellFormed(q)
  <2>1. q["flower1"] = NoFlower => q["flower2"] = NoFlower
    BY <1>1, <1>2, <1>4, Zenon DEF WellFormed, SlotFor, Holds, Slots
  <2>2. ASSUME Full(q) PROVE q["flower1"].pub # q["flower2"].pub
    <3>1. CASE Full(p)
      BY <3>1, <1>5, Zenon DEF Extends, Full, WellFormed, Slots
    <3>2. CASE ~ Full(p)
      BY <3>2, <2>2, <1>2, <1>4, Zenon DEF Full, WellFormed, SlotFor, Holds, Slots
    <3>3. QED
      BY <3>1, <3>2, Zenon
  <2>3. QED
    BY <2>1, <2>2, Zenon DEF WellFormed
<1>7. QED
  BY <1>1, <1>3, <1>4, <1>5, <1>6, Zenon

(* Each slot holds the new flower or what it held before. *)
LEMMA AddFlowerSlots ==
  ASSUME NEW p \in Pollination, WellFormed(p),
         NEW f \in Flower, f.depositor # Nobody, Accepts(p, f), NEW s \in Slots
  PROVE  addFlower(p, f)[s] \in {f, p[s]}
<1>1. /\ addFlower(p, f)[SlotFor(p, f)] = f
      /\ s # SlotFor(p, f) => addFlower(p, f)[s] = p[s]
  BY AddFlowerExtends, Zenon
<1>2. QED
  BY <1>1, Zenon

(* A valid pollination has two flowers, with signatures. *)
LEMMA ValidPollination ==
  ASSUME NEW p \in Pollination, pollinate(p) = "valid"
  PROVE  /\ Full(p)
         /\ Validate(p["flower1"].pub, p["flower1"].hash, p["flower2"].sig) = "valid"
         /\ Validate(p["flower2"].pub, p["flower2"].hash, p["flower1"].sig) = "valid"
         /\ p["flower1"] \in Flower /\ p["flower1"].sig \in Sigs
         /\ p["flower2"] \in Flower /\ p["flower2"].sig \in Sigs
<1>1. Full(p)
  BY Zenon DEF pollinate
<1>2. /\ Validate(p["flower1"].pub, p["flower1"].hash, p["flower2"].sig) = "valid"
      /\ Validate(p["flower2"].pub, p["flower2"].hash, p["flower1"].sig) = "valid"
  BY <1>1, Zenon DEF pollinate
<1>3. p["flower1"] \in Flower /\ p["flower2"] \in Flower
  BY <1>1, Zenon DEF Full, Pollination, Slots
<1>4. \A pub \in Pubs, hash \in Hashes : Validate(pub, hash, NoSig) # "valid"
  BY ValidationAssumption, Zenon DEF Validate
<1>5. QED
  BY <1>1, <1>2, <1>3, <1>4, Zenon DEF Flower, AnySig

-----------------------------------------------------------------------------
(* Steps.                                                                  *)

(* Every step leaves the stored pollinations alone or is the write of a    *)
(* deposit that addFlower accepted on the pollination stored before.       *)
LEMMA StoreStep ==
  ASSUME EscrowInv, [Next]_vars
  PROVE  \/ store' = store /\ deposits' = deposits
         \/ \E h \in Handlers :
              /\ Put(h)
              /\ pc[h] = "loaded"
              /\ req[h] \in Requests
              /\ req[h].id \in Ids
              /\ loc[h] = store[req[h].id]
              /\ Accepts(store[req[h].id], FlowerOf(req[h]))
              /\ store' = [store EXCEPT ![req[h].id] =
                              addFlower(store[req[h].id], FlowerOf(req[h]))]
              /\ deposits' = deposits \cup {req[h]}
<1>1. CASE UNCHANGED vars
  BY <1>1, Zenon DEF vars
<1>2. CASE Next
  <2>1. CASE \E h \in Handlers : Put(h)
    <3> PICK h \in Handlers : Put(h)
      BY <2>1, Zenon
    <3>1. pc[h] = "loaded" /\ req[h] \in Requests /\ loc[h] = store[req[h].id]
      BY Zenon DEF Put, EscrowInv, HandlersInv
    <3>2. req[h].id \in Ids
      BY <3>1, FlowerOfType, Zenon
    <3>3. QED
      BY <3>1, <3>2, Zenon DEF Put
  <2>2. CASE Crash \/ \E u \in Users, id \in Ids, pub \in Pubs : escrowCheck(u, id, pub)
    BY <2>2, Zenon DEF Crash, escrowCheck
  <2>3. CASE \E h \in Handlers : \/ Post(h) \/ LockAndGet(h) \/ GetFails(h)
                                 \/ Conflict(h) \/ PutFails(h) \/ Respond(h)
    BY <2>3, Zenon DEF Post, LockAndGet, GetFails, Conflict, PutFails, Respond
  <2>4. QED
    BY <1>2, <2>1, <2>2, <2>3, Zenon DEF Next
<1>3. QED
  BY <1>1, <1>2, Zenon

(* Every step extends every stored pollination, and deposits only grow. *)
LEMMA StepExtends ==
  ASSUME EscrowInv, [Next]_vars
  PROVE  /\ store' \in [Ids -> Pollination]
         /\ StoreInv'
         /\ \A id \in Ids : Extends(store[id], store'[id])
         /\ deposits \subseteq deposits'
<1>1. CASE store' = store /\ deposits' = deposits
  BY <1>1, Zenon DEF EscrowInv, TypeOK, StoreInv, Extends
<1>2. CASE \E h \in Handlers :
              /\ req[h] \in Requests
              /\ req[h].id \in Ids
              /\ Accepts(store[req[h].id], FlowerOf(req[h]))
              /\ store' = [store EXCEPT ![req[h].id] =
                              addFlower(store[req[h].id], FlowerOf(req[h]))]
              /\ deposits' = deposits \cup {req[h]}
  <2> PICK h \in Handlers :
              /\ req[h] \in Requests
              /\ req[h].id \in Ids
              /\ Accepts(store[req[h].id], FlowerOf(req[h]))
              /\ store' = [store EXCEPT ![req[h].id] =
                              addFlower(store[req[h].id], FlowerOf(req[h]))]
              /\ deposits' = deposits \cup {req[h]}
    BY <1>2, Zenon
  <2> DEFINE p == store[req[h].id]
             f == FlowerOf(req[h])
  <2>1. p \in Pollination /\ WellFormed(p)
    BY Zenon DEF EscrowInv, TypeOK, StoreInv
  <2>2. f \in Flower /\ f.depositor # Nobody
    BY FlowerOfType, EscrowAssumption, Zenon
  <2> HIDE DEF f
  <2>3. /\ addFlower(p, f) \in Pollination
        /\ WellFormed(addFlower(p, f))
        /\ Extends(p, addFlower(p, f))
    BY <2>1, <2>2, AddFlowerExtends, Zenon DEF f
  <2>4. store \in [Ids -> Pollination]
    BY Zenon DEF EscrowInv, TypeOK
  <2>5. \A id \in Ids : store'[id] = IF id = req[h].id THEN addFlower(p, f) ELSE store[id]
    BY <2>4, Zenon DEF f
  <2> HIDE DEF p
  <2>6. store' \in [Ids -> Pollination]
    BY <2>3, <2>4, Zenon DEF p, f
  <2>7. StoreInv'
    BY <2>3, <2>5, Zenon DEF EscrowInv, StoreInv
  <2>8. \A id \in Ids : Extends(store[id], store'[id])
    <3> TAKE id \in Ids
    <3>1. CASE id = req[h].id
      BY <3>1, <2>3, <2>5, Zenon DEF p
    <3>2. CASE id # req[h].id
      BY <3>2, <2>5, Zenon DEF Extends
    <3>3. QED
      BY <3>1, <3>2, ZenonT(30)
  <2>9. QED
    BY <2>6, <2>7, <2>8, Zenon
<1>3. QED
  BY <1>1, <1>2, StoreStep, Zenon

(* What a "complete" answer says. *)
LEMMA CompleteAnswer ==
  ASSUME NEW p \in Pollination, pollinate(p) = "valid",
         NEW u \in Users, NEW id \in Ids, NEW pub \in Pubs
  PROVE  /\ complete(u, id, p, pub) \in Answer
         /\ complete(u, id, p, pub).to = u
         /\ complete(u, id, p, pub).id = id
         /\ complete(u, id, p, pub).pub = pub
         /\ complete(u, id, p, pub).sig # NoSig =>
              \E s \in Slots :
                 /\ p[s] # NoFlower
                 /\ p[s].pub = pub
                 /\ p[s].hash = complete(u, id, p, pub).hash
                 /\ p[s].sig = complete(u, id, p, pub).own
                 /\ p[s].sig # NoSig
                 /\ p[Other(s)] # NoFlower
                 /\ p[Other(s)].sig = complete(u, id, p, pub).sig
                 /\ Validate(pub, p[s].hash, p[Other(s)].sig) = "valid"
<1> DEFINE f1 == p["flower1"]
           f2 == p["flower2"]
<1>1. /\ Full(p)
      /\ Validate(f1.pub, f1.hash, f2.sig) = "valid"
      /\ Validate(f2.pub, f2.hash, f1.sig) = "valid"
      /\ f1 \in Flower /\ f1.sig \in Sigs
      /\ f2 \in Flower /\ f2.sig \in Sigs
  BY ValidPollination, Zenon
<1>2. NoSig \notin Sigs /\ NoSig \in AnySig /\ Sigs \subseteq AnySig
  BY ValidationAssumption, Zenon DEF AnySig
<1>3. f1 # NoFlower /\ f2 # NoFlower
  BY <1>1, Zenon DEF Full, Slots
<1>4. f1.hash \in Hashes /\ f2.hash \in Hashes
  BY <1>1, Zenon DEF Flower
<1> HIDE DEF f1, f2
<1>5. CASE f1.pub = pub
  <2>1. complete(u, id, p, pub) =
          [to |-> u, id |-> id, pub |-> pub, hash |-> f1.hash,
           own |-> f1.sig, sig |-> f2.sig]
    BY <1>5, Zenon DEF complete, f1, f2
  <2>2. complete(u, id, p, pub) \in Answer
    BY <2>1, <1>1, <1>2, <1>4 DEF Answer
  <2>3. Other("flower1") = "flower2" /\ "flower1" \in Slots
    BY Zenon DEF Other, Slots
  <2>4. QED
    BY <2>1, <2>2, <2>3, <1>1, <1>2, <1>3, <1>5 DEF f1, f2
<1>6. CASE f1.pub # pub /\ f2.pub = pub
  <2>1. complete(u, id, p, pub) =
          [to |-> u, id |-> id, pub |-> pub, hash |-> f2.hash,
           own |-> f2.sig, sig |-> f1.sig]
    BY <1>6, Zenon DEF complete, f1, f2
  <2>2. complete(u, id, p, pub) \in Answer
    BY <2>1, <1>1, <1>2, <1>4 DEF Answer
  <2>3. Other("flower2") = "flower1" /\ "flower2" \in Slots
    BY Zenon DEF Other, Slots
  <2>4. QED
    BY <2>1, <2>2, <2>3, <1>1, <1>2, <1>3, <1>6 DEF f1, f2
<1>7. CASE f1.pub # pub /\ f2.pub # pub
  <2>1. complete(u, id, p, pub) =
          [to |-> u, id |-> id, pub |-> pub, hash |-> NoRequest,
           own |-> NoSig, sig |-> NoSig]
    BY <1>7, Zenon DEF complete, f1, f2
  <2>2. complete(u, id, p, pub) \in Answer
    BY <2>1, <1>2 DEF Answer
  <2>3. QED
    BY <2>1, <2>2
<1>8. QED
  BY <1>5, <1>6, <1>7, Zenon

(* Every new answer is about a stored pollination that is valid, and goes  *)
(* to the depositor of the key's slot if it has one.                       *)
LEMMA ReleaseStep ==
  ASSUME EscrowInv, [Next]_vars
  PROVE  \/ released' = released
         \/ \E u \in Users, id \in Ids, pub \in Pubs :
              /\ released' = released \cup {complete(u, id, store[id], pub)}
              /\ pollinate(store[id]) = "valid"
              /\ store' = store /\ deposits' = deposits
              /\ \A s \in Slots : store[id][s].pub = pub =>
                                    store[id][s].depositor \in {Nobody, u}
<1>1. CASE \E h \in Handlers : Respond(h)
  <2> PICK h \in Handlers : Respond(h)
    BY <1>1, Zenon
  <2>1. /\ pc[h] = "stored" /\ store' = store /\ deposits' = deposits
        /\ req[h] \in Requests /\ loc[h] = store[req[h].id]
    BY Zenon DEF Respond, EscrowInv, HandlersInv
  <2>2. req[h].id \in Ids /\ req[h].pub \in Pubs /\ req[h].depositor \in Users
    BY <2>1, FlowerOfType, Zenon DEF Request
  <2>3. CASE pollinate(loc[h]) # "valid"
    BY <2>3, Zenon DEF Respond
  <2>4. CASE pollinate(loc[h]) = "valid"
    <3> DEFINE p == store[req[h].id]
    <3>1. Full(p) /\ WellFormed(p)
      BY <2>1, <2>2, <2>4, ValidPollination, Zenon DEF EscrowInv, TypeOK, StoreInv
    <3>2. PICK t \in Slots : p[t] = FlowerOf(req[h])
      BY <2>1, ZenonT(30) DEF EscrowInv, HandlersInv
    <3>3. p[t].pub = req[h].pub /\ p[t].depositor = req[h].depositor
      BY <3>2, FlowerOfFields, Zenon
    <3>4. \A s \in Slots : p[s].pub = req[h].pub =>
                             p[s].depositor \in {Nobody, req[h].depositor}
      BY <3>1, <3>3, Zenon DEF WellFormed, Slots
    <3>5. released' = released \cup {complete(req[h].depositor, req[h].id, p, req[h].pub)}
      BY <2>1, <2>4, Zenon DEF Respond
    <3>6. QED
      BY <2>1, <2>2, <2>4, <3>4, <3>5
  <2>5. QED
    BY <2>3, <2>4, Zenon
<1>2. CASE \E u \in Users, id \in Ids, pub \in Pubs : escrowCheck(u, id, pub)
  BY <1>2 DEF escrowCheck
<1>3. CASE UNCHANGED vars \/ Crash
  BY <1>3, Zenon DEF vars, Crash
<1>4. CASE \E h \in Handlers : \/ Post(h) \/ LockAndGet(h) \/ GetFails(h)
                               \/ Conflict(h) \/ PutFails(h) \/ Put(h)
  BY <1>4, Zenon DEF Post, LockAndGet, GetFails, Conflict, PutFails, Put
<1>5. QED
  BY <1>1, <1>2, <1>3, <1>4, Zenon DEF Next

(* Handlers keep their exclusive, up-to-date copy. *)
LEMMA HandlersStep ==
  ASSUME EscrowInv, [Next]_vars
  PROVE  HandlersOK'
<1> USE DEF EscrowInv, TypeOK, HandlersOK
<1>0. newPollination \in Pollination /\ Free \notin Handlers
  BY EscrowAssumption, Zenon DEF newPollination, Pollination
<1>1. CASE UNCHANGED vars
  BY <1>1, Zenon DEF vars, HandlersInv
<1>2. ASSUME NEW h \in Handlers, Post(h) PROVE  HandlersOK'
  BY <1>2 DEF Post, HandlersInv
<1>3. ASSUME NEW h \in Handlers, LockAndGet(h) PROVE  HandlersOK'
  <2>1. req[h] \in Requests /\ req[h].id \in Ids
    BY <1>3, FlowerOfType, Zenon DEF LockAndGet, HandlersInv
  <2>2. \A g \in Handlers : pc[g] \notin {"loaded", "stored"}
    BY <1>0, <1>3, Zenon DEF LockAndGet, HandlersInv
  <2>3. QED
    BY <1>3, <2>1, <2>2, Zenon DEF LockAndGet, HandlersInv
<1>4. ASSUME NEW h \in Handlers, Finish(h), store' = store, deposits' = deposits,
             \A g \in Handlers : g # h => pc[g] \notin {"loaded", "stored"}
      PROVE  HandlersOK'
  BY <1>0, <1>4, Zenon DEF Finish, HandlersInv
<1>5. ASSUME NEW h \in Handlers, GetFails(h) PROVE  HandlersOK'
  BY <1>0, <1>4, <1>5, Zenon DEF GetFails, HandlersInv
<1>6. ASSUME NEW h \in Handlers, Conflict(h) \/ PutFails(h) \/ Respond(h)
      PROVE  HandlersOK'
  BY <1>4, <1>6, Zenon DEF Conflict, PutFails, Respond, HandlersInv
<1>7. ASSUME NEW h \in Handlers, Put(h) PROVE  HandlersOK'
  <2> DEFINE p == loc[h]
             f == FlowerOf(req[h])
  <2>1. req[h] \in Requests /\ req[h].id \in Ids /\ p = store[req[h].id]
    BY <1>7, FlowerOfType, Zenon DEF Put, HandlersInv
  <2>2. p \in Pollination /\ WellFormed(p) /\ f \in Flower /\ f.depositor # Nobody
    BY <2>1, FlowerOfType, EscrowAssumption, Zenon DEF StoreInv
  <2>3. \A g \in Handlers : g # h => pc[g] \notin {"loaded", "stored"}
    BY <1>7, Zenon DEF Put, HandlersInv
  <2> HIDE DEF p, f
  <2>4. /\ addFlower(p, f) \in Pollination
        /\ \E s \in Slots : addFlower(p, f)[s] = f
    BY <1>7, <2>2, AddFlowerExtends, Zenon DEF Put, p, f
  <2>5. /\ store' = [store EXCEPT ![req[h].id] = addFlower(p, f)]
        /\ loc' = [loc EXCEPT ![h] = addFlower(p, f)]
        /\ pc' = [pc EXCEPT ![h] = "stored"]
        /\ deposits' = deposits \cup {req[h]}
        /\ escrowMu' = escrowMu /\ req' = req /\ escrowMu = h
    BY <1>7, Zenon DEF Put, HandlersInv, p, f
  <2>6. QED
    BY <2>1, <2>3, <2>4, <2>5, Zenon DEF HandlersInv, f
<1>8. CASE \E u \in Users, id \in Ids, pub \in Pubs : escrowCheck(u, id, pub)
  BY <1>8, Zenon DEF escrowCheck, HandlersInv
<1>9. CASE Crash
  BY <1>0, <1>9, Zenon DEF Crash, HandlersInv
<1>10. QED
  BY <1>1, <1>2, <1>3, <1>5, <1>6, <1>7, <1>8, <1>9, Zenon DEF Next

(* Stored flowers stay traceable to a deposit or to an old version. *)
LEMMA FlowersStep ==
  ASSUME EscrowInv, [Next]_vars
  PROVE  FlowersInv'
<1>1. CASE store' = store /\ deposits' = deposits
  BY <1>1, Zenon DEF EscrowInv, FlowersInv
<1>2. ASSUME NEW h \in Handlers,
             req[h] \in Requests, req[h].id \in Ids,
             Accepts(store[req[h].id], FlowerOf(req[h])),
             store' = [store EXCEPT ![req[h].id] =
                         addFlower(store[req[h].id], FlowerOf(req[h]))],
             deposits' = deposits \cup {req[h]}
      PROVE  FlowersInv'
  <2> DEFINE p == store[req[h].id]
             f == FlowerOf(req[h])
  <2>1. p \in Pollination /\ WellFormed(p) /\ f \in Flower /\ f.depositor # Nobody
    BY <1>2, FlowerOfType, EscrowAssumption, ZenonT(30) DEF EscrowInv, TypeOK, StoreInv
  <2>2. \A s \in Slots : addFlower(p, f)[s] \in {f, p[s]}
    <3> HIDE DEF p, f
    <3>1. Accepts(p, f)
      BY <1>2, Zenon DEF p, f
    <3>2. QED
      BY <2>1, <3>1, AddFlowerSlots, Zenon
  <2>3. \A id \in Ids, s \in Slots :
           store'[id][s] = store[id][s] \/ (id = req[h].id /\ store'[id][s] = f)
    BY <1>2, <2>2, Zenon DEF EscrowInv, TypeOK
  <2>4. QED
    BY <1>2, <2>3 DEF EscrowInv, FlowersInv
<1>3. QED
  BY <1>1, <1>2, StoreStep, Zenon

(* What was deposited with a signature stays deposited. *)
LEMMA DepositsStep ==
  ASSUME EscrowInv, [Next]_vars
  PROVE  deposits' \subseteq Requests /\ DepositsKept'
<1>1. deposits \subseteq Requests
  BY Zenon DEF EscrowInv, TypeOK
<1>2. ASSUME NEW r \in deposits, r.sig # NoSig
      PROVE  \E s \in Slots : /\ Holds(store'[r.id], s, r.pub)
                              /\ store'[r.id][s].sig = r.sig
                              /\ store'[r.id][s].depositor = r.depositor
  <2>1. r.id \in Ids /\ r.depositor # Nobody
    BY <1>1, EscrowAssumption, Zenon DEF Request
  <2>2. PICK s \in Slots : /\ Holds(store[r.id], s, r.pub)
                           /\ store[r.id][s].sig = r.sig
                           /\ store[r.id][s].depositor = r.depositor
    BY <1>2, Zenon DEF EscrowInv, DepositsKept
  <2>3. Extends(store[r.id], store'[r.id])
    BY <2>1, StepExtends, Zenon
  <2>4. QED
    BY <1>2, <2>1, <2>2, <2>3, Zenon DEF Extends, Holds
<1>3. CASE deposits' = deposits
  BY <1>1, <1>2, <1>3, SMTT(30) DEF DepositsKept
<1>4. ASSUME NEW h \in Handlers,
             req[h] \in Requests, req[h].id \in Ids,
             Accepts(store[req[h].id], FlowerOf(req[h])),
             store' = [store EXCEPT ![req[h].id] =
                         addFlower(store[req[h].id], FlowerOf(req[h]))],
             deposits' = deposits \cup {req[h]}
      PROVE  deposits' \subseteq Requests /\ DepositsKept'
  <2> DEFINE p == store[req[h].id]
             f == FlowerOf(req[h])
  <2>1. p \in Pollination /\ WellFormed(p) /\ f \in Flower /\ f.depositor # Nobody
        /\ f # NoFlower
    BY <1>4, FlowerOfType, EscrowAssumption, Zenon DEF EscrowInv, TypeOK, StoreInv
  <2>2. store'[req[h].id] = addFlower(p, f)
    BY <1>4, Zenon DEF EscrowInv, TypeOK
  <2>3. \E s \in Slots : addFlower(p, f)[s] = f
    <3> HIDE DEF p, f
    <3>1. Accepts(p, f)
      BY <1>4, Zenon DEF p, f
    <3>2. QED
      BY <2>1, <3>1, AddFlowerExtends, Zenon
  <2>4. f.pub = req[h].pub /\ f.sig = req[h].sig /\ f.depositor = req[h].depositor
    BY Zenon DEF FlowerOf
  <2>5. \E s \in Slots : /\ Holds(store'[req[h].id], s, req[h].pub)
                         /\ store'[req[h].id][s].sig = req[h].sig
                         /\ store'[req[h].id][s].depositor = req[h].depositor
    BY <2>1, <2>2, <2>3, <2>4, Zenon DEF Holds
  <2>6. QED
    BY <1>1, <1>2, <1>4, <2>5, Zenon DEF DepositsKept
<1>5. QED
  BY <1>3, <1>4, StoreStep, Zenon

(* What was released stays backed by the escrow. *)
LEMMA ReleasesStep ==
  ASSUME EscrowInv, [Next]_vars
  PROVE  released' \subseteq Answer /\ ReleasesBacked' /\ ReleasesUsable'
<1>0. /\ released \subseteq Answer
      /\ \A id \in Ids : store[id] \in Pollination
  BY Zenon DEF EscrowInv, TypeOK
<1>1. ASSUME NEW a \in released, a.sig # NoSig
      PROVE  \E s \in Slots : /\ Holds(store'[a.id], s, a.pub)
                              /\ store'[a.id][s].sig = a.own
                              /\ a.own # NoSig
                              /\ store'[a.id][Other(s)] # NoFlower
                              /\ store'[a.id][Other(s)].sig = a.sig
  <2>1. a.id \in Ids
    BY <1>0, Zenon DEF Answer
  <2>2. PICK s \in Slots : /\ Holds(store[a.id], s, a.pub)
                           /\ store[a.id][s].sig = a.own
                           /\ a.own # NoSig
                           /\ store[a.id][Other(s)] # NoFlower
                           /\ store[a.id][Other(s)].sig = a.sig
    BY <1>1, Zenon DEF EscrowInv, ReleasesBacked
  <2>3. Extends(store[a.id], store'[a.id]) /\ Other(s) \in Slots
    BY <2>1, StepExtends, Zenon DEF Other, Slots
  <2>4. QED
    BY <1>1, <2>2, <2>3, Zenon DEF Extends, Holds
<1>2. CASE released' = released
  <2>1. ReleasesBacked'
    BY <1>1, <1>2, Zenon DEF ReleasesBacked
  <2>2. ReleasesUsable'
    BY <1>2, StepExtends, Zenon DEF EscrowInv, ReleasesUsable
  <2>3. QED
    BY <1>0, <1>2, <2>1, <2>2, Zenon
<1>3. ASSUME NEW u \in Users, NEW id \in Ids, NEW pub \in Pubs,
             released' = released \cup {complete(u, id, store[id], pub)},
             pollinate(store[id]) = "valid",
             store' = store, deposits' = deposits,
             \A s \in Slots : store[id][s].pub = pub =>
                               store[id][s].depositor \in {Nobody, u}
      PROVE  released' \subseteq Answer /\ ReleasesBacked' /\ ReleasesUsable'
  <2> DEFINE a == complete(u, id, store[id], pub)
  <2> HIDE DEF a
  <2>1. /\ a \in Answer /\ a.to = u /\ a.id = id /\ a.pub = pub
        /\ a.sig # NoSig =>
              \E s \in Slots :
                 /\ store[id][s] # NoFlower
                 /\ store[id][s].pub = pub
                 /\ store[id][s].hash = a.hash
                 /\ store[id][s].sig = a.own
                 /\ store[id][s].sig # NoSig
                 /\ store[id][Other(s)] # NoFlower
                 /\ store[id][Other(s)].sig = a.sig
                 /\ Validate(pub, store[id][s].hash, store[id][Other(s)].sig) = "valid"
    BY <1>0, <1>3, CompleteAnswer DEF a
  <2>2. released' = released \cup {a}
    BY <1>3, ZenonT(30) DEF a
  <2>3. ReleasesBacked'
    BY <1>1, <1>3, <2>1, <2>2 DEF ReleasesBacked, Holds
  <2>4. ASSUME a.sig # NoSig
        PROVE  /\ Validate(a.pub, a.hash, a.sig) = "valid"
               /\ \/ \E r \in deposits : /\ r.depositor = a.to
                                         /\ r.id = a.id
                                         /\ r.pub = a.pub
                                         /\ r.hash = a.hash
                  \/ \E f \in LegacyFlowers : f.pub = a.pub /\ f.hash = a.hash
    <3>1. PICK s \in Slots :
                 /\ store[id][s] # NoFlower
                 /\ store[id][s].pub = pub
                 /\ store[id][s].hash = a.hash
                 /\ Validate(pub, a.hash, a.sig) = "valid"
      BY <2>1, <2>4, Zenon
    <3>2. CASE store[id][s] \in LegacyFlowers
      BY <2>1, <3>1, <3>2, Zenon
    <3>3. CASE \E r \in deposits : r.id = id /\ store[id][s] = FlowerOf(r)
      <4> PICK r \in deposits : r.id = id /\ store[id][s] = FlowerOf(r)
        BY <3>3, Zenon
      <4>1. r.depositor \in Users /\ r.depositor # Nobody
        BY EscrowAssumption, SMTT(30) DEF EscrowInv, TypeOK, Request
      <4>2. r.pub = pub /\ r.hash = a.hash /\ r.depositor = store[id][s].depositor
        BY <3>1, FlowerOfFields, Zenon
      <4>3. r.depositor = u
        BY <1>3, <3>1, <4>1, <4>2, Zenon
      <4>4. QED
        BY <2>1, <3>1, <4>2, <4>3, Zenon
    <3>4. QED
      BY <3>1, <3>2, <3>3, Zenon DEF EscrowInv, FlowersInv
  <2>5. ReleasesUsable'
    BY <1>3, <2>2, <2>4, Zenon DEF EscrowInv, ReleasesUsable
  <2>6. QED
    BY <1>0, <2>1, <2>2, <2>3, <2>5, ZenonT(30)
<1>4. QED
  BY <1>2, <1>3, ReleaseStep

(* Initially only old flowers are stored, one per escrow at most. *)
LEMMA EscrowInitInv == Init => EscrowInv
<1> SUFFICES ASSUME Init PROVE EscrowInv
  BY Zenon
<1>1. /\ newPollination \in Pollination
      /\ \A f \in LegacyFlowers : [newPollination EXCEPT !["flower1"] = f] \in Pollination
  BY EscrowAssumption, Zenon DEF newPollination, Pollination, Slots
<1>2. TypeOK
  BY <1>1 DEF Init, TypeOK
<1>3. \A id \in Ids : /\ store[id]["flower2"] = NoFlower
                      /\ store[id]["flower1"] \in LegacyFlowers \cup {NoFlower}
  BY DEF Init, newPollination, Slots
<1>4. StoreInv
  BY <1>3, Zenon DEF StoreInv, WellFormed, Full, Slots
<1>5. FlowersInv
  BY <1>3, Zenon DEF FlowersInv, Slots
<1>6. HandlersInv
  BY Zenon DEF Init, HandlersInv
<1>7. DepositsKept /\ ReleasesBacked /\ ReleasesUsable
  BY Zenon DEF Init, DepositsKept, ReleasesBacked, ReleasesUsable
<1>8. QED
  BY <1>2, <1>4, <1>5, <1>6, <1>7, Zenon DEF EscrowInv

-----------------------------------------------------------------------------
(* Theorems.                                                               *)

(* The inductive invariant holds of every reachable state. *)
THEOREM EscrowInvariance == Spec => []EscrowInv
<1>1. EscrowInv /\ [Next]_vars => EscrowInv'
  <2> SUFFICES ASSUME EscrowInv, [Next]_vars PROVE EscrowInv'
    BY Zenon
  <2>1. TypeOK'
    BY HandlersStep, StepExtends, DepositsStep, ReleasesStep, Zenon DEF TypeOK, HandlersOK
  <2>2. QED
    BY <2>1, HandlersStep, StepExtends, FlowersStep, DepositsStep, ReleasesStep, Zenon
    DEF EscrowInv, HandlersOK
<1>2. QED
  BY <1>1, EscrowInitInv, PTL DEF Spec

(* The types declared for the state of the escrow are respected. *)
THEOREM EscrowTypeCorrect == Spec => []TypeOK
  BY EscrowInvariance, PTL DEF EscrowInv

(* No interleaving of deposits, storage failures and restarts loses or     *)
(* alters a signature once written by escrow.                              *)
THEOREM DepositsSafe == Spec => []DepositsKept
  BY EscrowInvariance, PTL DEF EscrowInv

(* Whoever was given a signature by escrow or escrowCheck has given one,   *)
(* and both stay in the escrow.                                            *)
THEOREM ReleasesSafe == Spec => []ReleasesBacked
  BY EscrowInvariance, PTL DEF EscrowInv

(* Every signature given out verifies for a transaction its receiver       *)
(* deposited (or for a flower of an old version).                          *)
THEOREM ReleasesSound == Spec => []ReleasesUsable
  BY EscrowInvariance, PTL DEF EscrowInv

-----------------------------------------------------------------------------
(* Clients that do not change the hash of a deposit.                       *)

(* With steady requests a write keeps the hash of a filled slot. *)
LEMMA SteadyHash ==
  ASSUME SteadyRequests, EscrowInv, [Next]_vars,
         NEW id \in Ids, NEW s \in Slots, store[id][s] # NoFlower
  PROVE  store'[id][s].hash = store[id][s].hash
<1>1. CASE store' = store
  BY <1>1, Zenon
<1>2. ASSUME NEW h \in Handlers,
             req[h] \in Requests, req[h].id \in Ids,
             Accepts(store[req[h].id], FlowerOf(req[h])),
             store' = [store EXCEPT ![req[h].id] =
                         addFlower(store[req[h].id], FlowerOf(req[h]))]
      PROVE  store'[id][s].hash = store[id][s].hash
  <2> DEFINE p == store[req[h].id]
             f == FlowerOf(req[h])
  <2>1. p \in Pollination /\ WellFormed(p) /\ f \in Flower /\ f.depositor # Nobody
    BY <1>2, FlowerOfType, EscrowAssumption, Zenon DEF EscrowInv, TypeOK, StoreInv
  <2>2. f.pub = req[h].pub /\ f.hash = req[h].hash
    BY Zenon DEF FlowerOf
  <2>3. store' [id] = IF id = req[h].id THEN addFlower(p, f) ELSE store[id]
    BY <1>2, Zenon DEF EscrowInv, TypeOK
  <2> HIDE DEF f
  <2>4. addFlower(p, f)[s] \in {f, p[s]}
    <3> HIDE DEF p
    <3>1. Accepts(p, f)
      BY <1>2, Zenon DEF p, f
    <3>2. QED
      BY <2>1, <3>1, AddFlowerSlots, Zenon
  <2>5. CASE id = req[h].id /\ store'[id][s] = f
    <3>1. store[id][s].pub = req[h].pub
      BY <2>2, <2>5, StepExtends, Zenon DEF Extends
    <3>2. CASE store[id][s] \in LegacyFlowers
      BY <1>2, <2>2, <2>5, <3>1, <3>2, ZenonT(30) DEF SteadyRequests
    <3>3. CASE \E r \in deposits : r.id = id /\ store[id][s] = FlowerOf(r)
      <4> PICK r \in deposits : r.id = id /\ store[id][s] = FlowerOf(r)
        BY <3>3, ZenonT(30)
      <4>1. r \in Requests /\ r.pub = req[h].pub /\ store[id][s].hash = r.hash
        BY <3>1, FlowerOfFields, Zenon DEF EscrowInv, TypeOK
      <4>2. QED
        BY <1>2, <2>2, <2>5, <4>1 DEF SteadyRequests
    <3>4. QED
      BY <3>2, <3>3, Zenon DEF EscrowInv, FlowersInv
  <2>6. QED
    BY <2>3, <2>4, <2>5
<1>3. QED
  BY <1>1, <1>2, StoreStep, Zenon

(* A valid pollination stays valid, with the same keys and signatures. *)
LEMMA ValidStays ==
  ASSUME SteadyRequests, EscrowInv, [Next]_vars,
         NEW id \in Ids, pollinate(store[id]) = "valid"
  PROVE  /\ pollinate(store'[id]) = "valid"
         /\ \A s \in Slots : OfferOf(store'[id][s]) = OfferOf(store[id][s])
<1> DEFINE p == store[id]
           q == store'[id]
<1>1. p \in Pollination
  BY Zenon DEF EscrowInv, TypeOK
<1>2. /\ Full(p)
      /\ Validate(p["flower1"].pub, p["flower1"].hash, p["flower2"].sig) = "valid"
      /\ Validate(p["flower2"].pub, p["flower2"].hash, p["flower1"].sig) = "valid"
      /\ \A s \in Slots : p[s].sig # NoSig
  BY <1>1, ValidPollination, ValidationAssumption, Zenon DEF Slots
<1>3. \A s \in Slots : p[s] # NoFlower
  BY <1>2, Zenon DEF Full
<1>4. \A s \in Slots : /\ q[s] # NoFlower
                       /\ q[s].pub = p[s].pub
                       /\ q[s].sig = p[s].sig
                       /\ q[s].hash = p[s].hash
  BY <1>2, <1>3, StepExtends, SteadyHash, Zenon DEF Extends
<1>5. "flower1" \in Slots /\ "flower2" \in Slots
  BY Zenon DEF Slots
<1>6. \A s \in Slots : OfferOf(q[s]) = OfferOf(p[s])
  BY <1>4, Zenon DEF OfferOf
<1> HIDE DEF p, q
<1>7. Full(q)
  BY <1>4, Zenon DEF Full
<1>8. pollinate(q) = "valid"
  BY <1>2, <1>4, <1>5, <1>7, Zenon DEF pollinate
<1>9. QED
  BY <1>6, <1>8, Zenon DEF p, q

(* Both or neither, when clients repeat deposits with the same hash: after *)
(* the first "complete" answer of escrow or escrowCheck the escrow stays   *)
(* ready to answer the other side.                                         *)
THEOREM SteadyBothOrNeither ==
  ASSUME SteadyRequests
  PROVE  Spec => []BothOrNeither
<1>1. Init => BothOrNeither
  BY Zenon DEF Init, BothOrNeither
<1>2. EscrowInv /\ BothOrNeither /\ [Next]_vars => BothOrNeither'
  <2> SUFFICES ASSUME EscrowInv, BothOrNeither, [Next]_vars PROVE BothOrNeither'
    BY Zenon
  <2>1. \A a \in released : a.id \in Ids
    BY Zenon DEF EscrowInv, TypeOK, Answer
  <2>2. \A a \in released : pollinate(store'[a.id]) = "valid"
    BY <2>1, ValidStays, Zenon DEF BothOrNeither
  <2>3. CASE released' = released
    BY <2>2, <2>3, Zenon DEF BothOrNeither
  <2>4. ASSUME NEW u \in Users, NEW id \in Ids, NEW pub \in Pubs,
               released' = released \cup {complete(u, id, store[id], pub)},
               pollinate(store[id]) = "valid", store' = store
        PROVE  BothOrNeither'
    <3>1. complete(u, id, store[id], pub).id = id
      BY <2>4, CompleteAnswer DEF EscrowInv, TypeOK
    <3>2. QED
      BY <2>2, <2>4, <3>1, ZenonT(30) DEF BothOrNeither
  <2>5. QED
    BY <2>3, <2>4, ReleaseStep, Zenon
<1>3. QED
  BY <1>1, <1>2, EscrowInvariance, PTL DEF Spec

(* Without flowers of old versions in the storage, addFlower never lets    *)
(* one user hold both slots of an escrow.                                  *)
THEOREM SlotsApart ==
  ASSUME LegacyFlowers = {}
  PROVE  Spec => []OneSlotPerDepositor
<1>1. Init => OneSlotPerDepositor
  BY SMTT(30) DEF Init, OneSlotPerDepositor, Full, newPollination, Slots
<1>2. EscrowInv /\ OneSlotPerDepositor /\ [Next]_vars => OneSlotPerDepositor'
  <2> SUFFICES ASSUME EscrowInv, OneSlotPerDepositor, [Next]_vars,
                      NEW id \in Ids, Full(store'[id])
               PROVE  /\ store'[id]["flower1"].pub # store'[id]["flower2"].pub
                      /\ \/ store'[id]["flower1"].depositor = Nobody
                         \/ store'[id]["flower1"].depositor # store'[id]["flower2"].depositor
    BY Zenon DEF OneSlotPerDepositor
  <2>1. store'[id]["flower1"].pub # store'[id]["flower2"].pub
    BY StepExtends, Zenon DEF StoreInv, WellFormed
  <2>2. \A s \in Slots : store[id][s] # NoFlower => store[id][s].depositor # Nobody
    <3> TAKE s \in Slots
    <3> HAVE store[id][s] # NoFlower
    <3>1. PICK r \in deposits : store[id][s] = FlowerOf(r)
      BY Zenon DEF EscrowInv, FlowersInv
    <3>2. r \in Requests
      BY Zenon DEF EscrowInv, TypeOK
    <3>3. QED
      BY <3>1, <3>2, FlowerOfType, EscrowAssumption, Zenon
  <2>3. CASE Full(store[id])
    <3>1. \A s \in Slots : store'[id][s].depositor = store[id][s].depositor
      BY <2>2, <2>3, StepExtends, Zenon DEF Extends, Full
    <3>2. QED
      BY <2>1, <2>3, <3>1, Zenon DEF OneSlotPerDepositor, Slots
  <2>4. CASE ~ Full(store[id]) /\ store' # store
    <3>1. PICK h \in Handlers :
              /\ req[h] \in Requests
              /\ req[h].id \in Ids
              /\ Accepts(store[req[h].id], FlowerOf(req[h]))
              /\ store' = [store EXCEPT ![req[h].id] =
                              addFlower(store[req[h].id], FlowerOf(req[h]))]
      BY <2>4, StoreStep, Zenon
    <3> DEFINE p == store[id]
               f == FlowerOf(req[h])
    <3>2. id = req[h].id
      BY <2>4, <3>1, Zenon DEF EscrowInv, TypeOK
    <3>3. store'[id] = addFlower(p, f)
      BY <3>1, <3>2, Zenon DEF EscrowInv, TypeOK
    <3>4. p \in Pollination /\ WellFormed(p) /\ f \in Flower /\ f.depositor # Nobody
          /\ Accepts(p, f)
      BY <3>1, <3>2, FlowerOfType, EscrowAssumption, Zenon DEF EscrowInv, TypeOK, StoreInv
    <3> HIDE DEF p, f
    <3>5. /\ SlotFor(p, f) \in Slots
          /\ addFlower(p, f)[SlotFor(p, f)] = f
          /\ \A s \in Slots : s # SlotFor(p, f) => addFlower(p, f)[s] = p[s]
      BY <3>4, AddFlowerExtends, Zenon
    <3>6. p["flower2"] = NoFlower
      BY <2>4, <3>4 DEF WellFormed, Full, Slots, p
    <3>7. SlotFor(p, f) = "flower2"
      BY <2>1, <3>3, <3>5, <3>6, SMTT(30) DEF Full, Slots
    <3>8. p["flower1"] # NoFlower /\ MayOccupy(p, f)
      BY <3>4, <3>5, <3>6, <3>7, Zenon DEF SlotFor, Accepts, Holds
    <3>9. p["flower1"].depositor # f.depositor
      BY <2>2, <3>8, Zenon DEF MayOccupy, Slots, p
    <3>10. QED
      BY <2>1, <3>3, <3>5, <3>7, <3>9, Zenon DEF Slots
  <2>5. QED
    BY <2>3, <2>4, Zenon
<1>3. QED
  BY <1>1, <1>2, EscrowInvariance, PTL DEF Spec

-----------------------------------------------------------------------------
(* Refinement.                                                             *)

(* A settled escrow is an exchange of two offers of different keys. *)
LEMMA SettledTerms ==
  ASSUME NEW p \in Pollination, WellFormed(p), pollinate(p) = "valid"
  PROVE  \E a, b \in [key : Pubs, sig : Sigs] :
            /\ a.key # b.key
            /\ {OfferOf(p[s]) : s \in Slots} = {a, b}
<1>1. /\ Full(p)
      /\ p["flower1"] \in Flower /\ p["flower1"].sig \in Sigs
      /\ p["flower2"] \in Flower /\ p["flower2"].sig \in Sigs
  BY ValidPollination, Zenon
<1>2. p["flower1"].pub # p["flower2"].pub
  BY <1>1, Zenon DEF WellFormed
<1>3. /\ OfferOf(p["flower1"]) \in [key : Pubs, sig : Sigs]
      /\ OfferOf(p["flower2"]) \in [key : Pubs, sig : Sigs]
      /\ OfferOf(p["flower1"]).key # OfferOf(p["flower2"]).key
  BY <1>1, <1>2, Zenon DEF OfferOf, Flower
<1>4. {OfferOf(p[s]) : s \in Slots} = {OfferOf(p["flower1"]), OfferOf(p["flower2"])}
  BY Zenon DEF Slots
<1>5. QED
  BY <1>3, <1>4, Zenon

(* A step of the escrow settles an exchange, collects an offer, or leaves  *)
(* the exchanges alone.                                                    *)
LEMMA ExchangeStep ==
  ASSUME SteadyRequests, EscrowInv, [Next]_vars
  PROVE  [Exchange!Next]_(Exchange!exchangeVars)
<1>1. \A id \in Ids : pollinate(store[id]) = "valid" => Terms'[id] = Terms[id]
  <2> TAKE id \in Ids
  <2> HAVE pollinate(store[id]) = "valid"
  <2>1. pollinate(store'[id]) = "valid"
    BY ValidStays, Zenon
  <2>2. \A s \in Slots : OfferOf(store'[id][s]) = OfferOf(store[id][s])
    BY ValidStays, Zenon
  <2>3. {OfferOf(store'[id][s]) : s \in Slots} = {OfferOf(store[id][s]) : s \in Slots}
    BY <2>2, Zenon
  <2>4. QED
    BY <2>1, <2>3, Zenon DEF Terms
<1>2. CASE released' = released
  <2>1. Collected' = Collected
    BY <1>2, Zenon DEF Collected
  <2>2. CASE store' = store
    <3>1. Terms' = Terms
      BY <2>2, Zenon DEF Terms
    <3>2. QED
      BY <2>1, <3>1, Zenon DEF Exchange!exchangeVars
  <2>3. ASSUME NEW i \in Ids, \A id \in Ids : id # i => store'[id] = store[id]
        PROVE  [Exchange!Next]_(Exchange!exchangeVars)
    <3>1. \A id \in Ids : id # i => Terms'[id] = Terms[id]
      BY <2>3, Zenon DEF Terms
    <3>2. CASE Terms'[i] = Terms[i]
      <4>1. Terms' = Terms
        BY <3>1, <3>2, Zenon DEF Terms
      <4>2. QED
        BY <2>1, <4>1, Zenon DEF Exchange!exchangeVars
    <3>3. CASE Terms'[i] # Terms[i]
      <4>1. pollinate(store[i]) # "valid"
        BY <1>1, <3>3, Zenon
      <4>2. Terms[i] = {}
        BY <4>1, Zenon DEF Terms
      <4>3. pollinate(store'[i]) = "valid"
        BY <3>3, <4>2, Zenon DEF Terms
      <4>4. Terms'[i] = {OfferOf(store'[i][s]) : s \in Slots}
        BY <4>3, Zenon DEF Terms
      <4>5. store'[i] \in Pollination /\ WellFormed(store'[i])
        BY StepExtends, Zenon DEF StoreInv
      <4>6. PICK a, b \in [key : Pubs, sig : Sigs] : a.key # b.key /\ Terms'[i] = {a, b}
        BY <4>3, <4>4, <4>5, SettledTerms
      <4>7. Terms' = [Terms EXCEPT ![i] = {a, b}]
        <5>1. Terms' = [id \in Ids |-> Terms'[id]] /\ Terms = [id \in Ids |-> Terms[id]]
          BY Zenon DEF Terms
        <5>2. QED
          BY <3>1, <4>6, <5>1, Zenon
      <4>8. Exchange!Settle(i)
        BY <2>1, <4>2, <4>6, <4>7, Zenon DEF Exchange!Settle
      <4>9. QED
        BY <4>8, Zenon DEF Exchange!Next
    <3>4. QED
      BY <3>2, <3>3, Zenon
  <2>4. CASE \E h \in Handlers :
               /\ req[h].id \in Ids
               /\ store' = [store EXCEPT ![req[h].id] =
                               addFlower(store[req[h].id], FlowerOf(req[h]))]
    <3> PICK h \in Handlers :
               /\ req[h].id \in Ids
               /\ store' = [store EXCEPT ![req[h].id] =
                               addFlower(store[req[h].id], FlowerOf(req[h]))]
      BY <2>4, Zenon
    <3>1. \A id \in Ids : id # req[h].id => store'[id] = store[id]
      BY Zenon DEF EscrowInv, TypeOK
    <3>2. QED
      BY <2>3, <3>1, Zenon
  <2>5. QED
    BY <2>2, <2>4, StoreStep, Zenon
<1>3. ASSUME NEW u \in Users, NEW id \in Ids, NEW pub \in Pubs,
             released' = released \cup {complete(u, id, store[id], pub)},
             pollinate(store[id]) = "valid", store' = store
      PROVE  [Exchange!Next]_(Exchange!exchangeVars)
  <2> DEFINE a == complete(u, id, store[id], pub)
             offer == [key |-> pub, sig |-> a.own]
  <2>1. Terms' = Terms
    BY <1>3, ZenonT(30) DEF Terms
  <2>2. /\ a.id = id /\ a.pub = pub
        /\ a.sig # NoSig =>
              \E s \in Slots : store[id][s].pub = pub /\ store[id][s].sig = a.own
    BY <1>3, CompleteAnswer DEF EscrowInv, TypeOK
  <2> HIDE DEF a
  <2>3. released' = released \cup {a}
    BY <1>3, Zenon DEF a
  <2>4. CASE a.sig = NoSig
    <3>1. Collected' = Collected
      BY <2>3, <2>4, Zenon DEF Collected
    <3>2. QED
      BY <2>1, <3>1, SMTT(30) DEF Exchange!exchangeVars
  <2>5. CASE a.sig # NoSig
    <3>1. Collected' = Collected \cup {<<id, offer>>}
      BY <2>2, <2>3, <2>5, Zenon DEF Collected
    <3>2. offer \in Terms[id]
      <4>1. PICK s \in Slots : store[id][s].pub = pub /\ store[id][s].sig = a.own
        BY <2>2, <2>5, Zenon
      <4>2. OfferOf(store[id][s]) = offer
        BY <4>1, Zenon DEF OfferOf
      <4>3. Terms[id] = {OfferOf(store[id][t]) : t \in Slots}
        BY <1>3, Zenon DEF Terms
      <4>4. QED
        BY <4>2, <4>3, Zenon
    <3>3. Exchange!Collect(id)
      BY <2>1, <3>1, <3>2, Zenon DEF Exchange!Collect
    <3>4. QED
      BY <3>3, Zenon DEF Exchange!Next
  <2>6. QED
    BY <2>4, <2>5, Zenon
<1>4. QED
  BY <1>2, <1>3, ReleaseStep, Zenon

(* The escrow implements the fair exchange when clients repeat deposits    *)
(* with the same hash: pollinate settles in one step and for good, and     *)
(* only the parties of a settled exchange collect.                         *)
THEOREM Refinement ==
  ASSUME SteadyRequests
  PROVE  Spec => ImplementsFairExchange
<1>1. Init => Exchange!Init
  <2> SUFFICES ASSUME Init PROVE Exchange!Init
    BY ZenonT(30)
  <2>1. \A id \in Ids : store[id]["flower2"] = NoFlower
    BY ZenonT(30) DEF Init, newPollination, Slots
  <2>2. \A id \in Ids : pollinate(store[id]) # "valid"
    BY <2>1, Zenon DEF pollinate, Full, Slots
  <2>3. Terms = [id \in Ids |-> {}]
    BY <2>2, Zenon DEF Terms
  <2>4. Collected = {}
    BY Zenon DEF Init, Collected
  <2>5. QED
    BY <2>3, <2>4, Zenon DEF Exchange!Init
<1>2. EscrowInv /\ [Next]_vars => [Exchange!Next]_(Exchange!exchangeVars)
  BY ExchangeStep, Zenon
<1>3. QED
  BY <1>1, <1>2, EscrowInvariance, PTL DEF Spec, ImplementsFairExchange, Exchange!Spec

=============================================================================
