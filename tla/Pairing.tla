------------------------------ MODULE Pairing ------------------------------
(***************************************************************************)
(* Pairs of users of the host server (server/pairing.go).                  *)
(*                                                                         *)
(* A pair is a record under an id made of its two addresses, and an entry  *)
(* in the index of each of them.  A request loads the pair and decides;    *)
(* its storage operations are carried out as Index says.                   *)
(***************************************************************************)
EXTENDS Index, FiniteSets

CONSTANT PairIds   \* ids of the pairs users ask for

Pair == {p \in [initiator : Users, partner : Users,
                status : {"pending", "accepted"}] : p.initiator # p.partner}

ASSUME PairingAssumption ==
  /\ \A id \in PairIds : id \subseteq Users /\ Cardinality(id) = 2
  /\ Nil \notin Pair

(* pairID: both orders of the two addresses give one id. *)
pairID(p) == {p.initiator, p.partner}

storePair == <<"putPair", "readInitiator", "addInitiator",
               "readPartner", "addPartner">>

(* Mutant of deletePair: the pair goes before its index entries. *)
deletePair_PairFirst == <<"deletePair", "readInitiator", "removeInitiator",
                          "readPartner", "removePartner">>

deletePair == <<"readInitiator", "removeInitiator",
                "readPartner", "removePartner", "deletePair">>

PairingSteps == {"putPair", "deletePair", "readInitiator", "addInitiator",
                 "removeInitiator", "readPartner", "addPartner", "removePartner"}

VARIABLES
  pairs,      \* storage: the pair under each id
  index,      \* storage: the ids listed for each user
  doomed,     \* history: pairs a delete has loaded since they were put
  created,    \* history: pairs stored in full, and not doomed
  gone,       \* history: pairs whose deletion was confirmed, until re-created
  consents    \* history: <<user, id>> of the accepts that were carried out

pairingVars == <<pairs, index, plan, loc, ids, doomed, created, gone, consents,
                 overlapped>>

PairingTypeOK ==
  /\ pairs \in [PairIds -> Pair \cup {Nil}]
  /\ index \in [Users -> SUBSET PairIds]
  /\ \A h \in Handlers : /\ \A i \in DOMAIN plan[h] : plan[h][i] \in PairingSteps
                         /\ plan[h] # <<>> => loc[h] \in Pair
  /\ \A id \in PairIds : pairs[id] # Nil => pairID(pairs[id]) = id
  /\ ids \in [Handlers -> SUBSET PairIds]
  /\ created \subseteq PairIds
  /\ doomed \subseteq PairIds
  /\ gone \subseteq PairIds
  /\ consents \subseteq Users \X PairIds
  /\ overlapped \in BOOLEAN

PairingInit ==
  /\ pairs = [id \in PairIds |-> Nil]
  /\ index = [u \in Users |-> {}]
  /\ created = {}
  /\ doomed = {}
  /\ gone = {}
  /\ consents = {}
  /\ RequestsInit

-----------------------------------------------------------------------------
(* The handlers: each loads the pair and decides.  A request that is       *)
(* refused or finds its work done changes nothing.                         *)

(* Mutant of pairCreate: an existing pair is stored again. *)
pairCreate_Again(h, u, v) ==
  /\ Begin(h)
  /\ u # v
  /\ {u, v} \in PairIds
  /\ loc' = [loc EXCEPT ![h] =
               [initiator |-> u, partner |-> v, status |-> "pending"]]
  /\ plan' = [plan EXCEPT ![h] = storePair]
  /\ UNCHANGED <<pairs, index, ids, doomed, created, gone, consents>>

(* User u asks for a pair with another user v.  An existing pair is        *)
(* returned as it is.                                                      *)
pairCreate(h, u, v) ==
  /\ Begin(h)
  /\ u # v
  /\ {u, v} \in PairIds
  /\ pairs[{u, v}] = Nil
  /\ loc' = [loc EXCEPT ![h] =
               [initiator |-> u, partner |-> v, status |-> "pending"]]
  /\ plan' = [plan EXCEPT ![h] = storePair]
  /\ UNCHANGED <<pairs, index, ids, doomed, created, gone, consents>>

(* Mutant of pairAccept: either member may accept. *)
pairAccept_AnyMember(h, u, id) ==
  /\ Begin(h)
  /\ pairs[id] # Nil
  /\ u \in id
  /\ pairs[id].status = "pending"
  /\ loc' = [loc EXCEPT ![h] = [pairs[id] EXCEPT !.status = "accepted"]]
  /\ plan' = [plan EXCEPT ![h] = <<"putPair">>]
  /\ consents' = consents \cup {<<u, id>>}
  /\ UNCHANGED <<pairs, index, ids, doomed, created, gone>>

(* Only the partner accepts, and only once. *)
pairAccept(h, u, id) ==
  /\ Begin(h)
  /\ pairs[id] # Nil
  /\ pairs[id].partner = u
  /\ pairs[id].status = "pending"
  /\ loc' = [loc EXCEPT ![h] = [pairs[id] EXCEPT !.status = "accepted"]]
  /\ plan' = [plan EXCEPT ![h] = <<"putPair">>]
  /\ consents' = consents \cup {<<u, id>>}
  /\ UNCHANGED <<pairs, index, ids, doomed, created, gone>>

(* A member deletes the pair; if it is gone already that is confirmed. *)
pairDelete(h, u, id) ==
  /\ Begin(h)
  /\ IF pairs[id] = Nil
       THEN /\ gone' = gone \cup {id}
            /\ UNCHANGED <<plan, loc, doomed, created>>
       ELSE /\ u \in id
            /\ loc' = [loc EXCEPT ![h] = pairs[id]]
            /\ plan' = [plan EXCEPT ![h] = deletePair]
            /\ created' = created \ {id}
            /\ doomed' = doomed \cup {id}
            /\ UNCHANGED gone
  /\ UNCHANGED <<pairs, index, ids, consents>>

(* pairPending: the pairs user u is shown. *)
pairPending(u) == {id \in index[u] : pairs[id] # Nil}

-----------------------------------------------------------------------------
(* The storage operations of a plan. *)

(* A create puts a pending pair, an accept an accepted one. *)
PutPair(h) ==
  LET p == loc[h] IN
  /\ Do(h, "putPair")
  /\ pairs' = [pairs EXCEPT ![pairID(p)] = p]
  /\ IF p.status = "pending"
       THEN gone' = gone \ {pairID(p)} /\ doomed' = doomed \ {pairID(p)}
       ELSE UNCHANGED <<gone, doomed>>
  /\ UNCHANGED <<index, ids, created, consents, overlapped>>

(* The last operation of deletePair; the deletion is confirmed. *)
DeletePair(h) ==
  /\ Do(h, "deletePair")
  /\ pairs' = [pairs EXCEPT ![pairID(loc[h])] = Nil]
  /\ gone' = gone \cup {pairID(loc[h])}
  /\ UNCHANGED <<index, ids, doomed, created, consents, overlapped>>

ReadIndex(h) ==
  /\ \/ Do(h, "readInitiator") /\ ids' = [ids EXCEPT ![h] = index[loc[h].initiator]]
     \/ Do(h, "readPartner") /\ ids' = [ids EXCEPT ![h] = index[loc[h].partner]]
  /\ UNCHANGED <<pairs, index, doomed, created, gone, consents, overlapped>>

Add(h, u) == index' = [index EXCEPT ![u] = addToIndex(@, ids[h], pairID(loc[h]))]

Remove(h, u) ==
  index' = [index EXCEPT ![u] = removeFromIndex(@, ids[h], pairID(loc[h]))]

WriteIndex(h) ==
  /\ \/ Do(h, "addInitiator") /\ Add(h, loc[h].initiator)
     \/ Do(h, "removeInitiator") /\ Remove(h, loc[h].initiator)
     \/ Do(h, "removePartner") /\ Remove(h, loc[h].partner)
  /\ ids' = [ids EXCEPT ![h] = {}]
  /\ UNCHANGED <<pairs, doomed, created, gone, consents, overlapped>>

(* The last operation of storePair; the pair is confirmed. *)
AddPartner(h) ==
  /\ Do(h, "addPartner")
  /\ Add(h, loc[h].partner)
  /\ created' = created \cup ({pairID(loc[h])} \ doomed)
  /\ ids' = [ids EXCEPT ![h] = {}]
  /\ UNCHANGED <<pairs, doomed, gone, consents, overlapped>>

(* Requests end early, because of an error or a restart. *)
AbandonPairs(hs) ==
  /\ Abandon(hs)
  /\ UNCHANGED <<pairs, index, doomed, created, gone, consents, overlapped>>

PairingNext ==
  \/ \E h \in Handlers, u \in Users :
       \/ \E v \in Users : pairCreate(h, u, v)
       \/ \E id \in PairIds : pairAccept(h, u, id) \/ pairDelete(h, u, id)
  \/ \E h \in Handlers :
       \/ PutPair(h) \/ DeletePair(h) \/ ReadIndex(h) \/ WriteIndex(h)
       \/ AddPartner(h) \/ AbandonPairs({h})
  \/ AbandonPairs(Handlers)

PairingSpec == PairingInit /\ [][PairingNext]_pairingVars

-----------------------------------------------------------------------------
(* Nobody is paired without asking: a pair is accepted only if its partner *)
(* accepted it, whatever requests race to write the pair (pairAccept       *)
(* against pairCreate).                                                    *)
Consent ==
  \A id \in PairIds : pairs[id] # Nil /\ pairs[id].status = "accepted" =>
     <<pairs[id].partner, id>> \in consents

(* The state is well formed, and pairs and index agree while requests do   *)
(* not overlap, in spite of failures and restarts: the index lists no pair *)
(* that is not there (a pair is put before it is indexed and unindexed     *)
(* before it is deleted, storePair and deletePair), a pair that was        *)
(* confirmed and that nobody is deleting is shown to both of its members,  *)
(* and one whose deletion was confirmed is gone until it is created again  *)
(* (pairPending, pairDelete).                                              *)
PairsAsConfirmed ==
  /\ PairingTypeOK
  /\ ~ overlapped =>
       /\ \A u \in Users : index[u] = pairPending(u)
       /\ \A id \in created : \A u \in id : id \in pairPending(u)
       /\ \A id \in gone : pairs[id] = Nil

(* While requests do not overlap, an accepted pair stays accepted until it *)
(* is deleted (pairCreate on an existing pair).                            *)
AcceptedStays ==
  [][\A id \in PairIds :
       /\ ~ overlapped
       /\ pairs[id] # Nil
       /\ pairs[id].status = "accepted"
       /\ pairs'[id] # Nil
       => pairs'[id].status = "accepted"]_pairs

=============================================================================
