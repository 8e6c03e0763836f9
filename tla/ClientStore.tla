---------------------------- MODULE ClientStore ----------------------------
(***************************************************************************)
(* What a client keeps besides the co-sign history: its owner              *)
(* (client/auth.go), its accounts (client/keygen_ecdsa.go,                 *)
(* client/keygen_frost.go, client/accounts.go) and the lists of exchanges  *)
(* and aliases (client/exchange.go, client/aliases.go).                    *)
(*                                                                         *)
(* No lock guards any of it.  A request passes ownerGuard and then carries *)
(* out the storage operations of its plan one by one, interleaved with     *)
(* those of other requests.  Two stored values are tied together: the      *)
(* owner of a client that has accounts is the user they were made for, and *)
(* only else the user the first login has bound.                           *)
(***************************************************************************)
EXTENDS Integers, Sequences

CONSTANTS
  Users,
  ECDSAAccounts, FROSTAccounts,  \* network and index of an account
  Ids, Values,                   \* the entries of a list
  Requests,                      \* the requests that are made
  Slots,
  MaxRequests,                   \* bound: requests made
  MaxFaults,                     \* bound: storage errors and restarts
  None

Accounts == ECDSAAccounts \cup FROSTAccounts

Lists == {"exchanges", "aliases"}

Parts == {"conf", "presig", "meta"}

(* The presignature is a part of ECDSA accounts only. *)
PartsOf(a) == IF a \in ECDSAAccounts THEN Parts ELSE {"conf", "meta"}

(* Keys are numbered; 0 stands for a part that is not stored. *)
Keys == 1 .. MaxRequests

(* target: an account, a list, or the owner; id: the user a key is made    *)
(* for, or an entry; value: the value of an entry, None to remove it.      *)
Request ==
  [op : {"login"}, user : Users, target : {"owner"}, id : {None}, value : {None}]
  \cup [op : {"keygen"}, user : Users, target : Accounts, id : Users, value : {None}]
  \cup [op : {"delete"}, user : Users, target : Accounts, id : {None}, value : {None}]
  \cup [op : {"upsert", "update"}, user : Users, target : Lists, id : Ids,
        value : Values \cup {None}]

ASSUME ClientStoreAssumption ==
  /\ ECDSAAccounts \cap FROSTAccounts = {}
  /\ Accounts \cap (Lists \cup {"owner"}) = {}
  /\ Requests \subseteq Request
  /\ None \notin Users \cup Values
  /\ MaxRequests \in Nat
  /\ MaxFaults \in Nat

VARIABLES
  accounts,  \* storage: the key each part of an account belongs to
  madeFor,   \* the user (PairMyID) a key was made for
  bound,     \* storage: the owner bound by a login
  lists,     \* storage: the value of each entry of each list
  tokens,    \* the users that hold a token of this client
  plan,      \* the storage operations a slot has left
  req,       \* the request of a slot
  key,       \* the key a slot has generated
  list,      \* the list a slot has loaded
  made,      \* how many requests were made
  faults,    \* how many faults there were
  confirmed, \* history: the key of each account whose generation was confirmed
  intended,  \* history: what the requests have written into the lists
  disturbed  \* history: what overlapping requests, storage errors, or key
             \*   generations over a listed account have touched

storage == <<accounts, madeFor, bound, lists>>
slotVars == <<plan, req, key, list>>
historyVars == <<confirmed, intended, disturbed>>
vars == <<storage, tokens, slotVars, made, faults, historyVars>>

Entries == [Ids -> Values \cup {None}]

TypeOK ==
  /\ accounts \in [Accounts -> [Parts -> {0} \cup Keys]]
  /\ \A a \in FROSTAccounts : accounts[a]["presig"] = 0
  /\ madeFor \in [Keys -> Users \cup {None}]
  /\ \A a \in Accounts, p \in Parts : accounts[a][p] # 0 => madeFor[accounts[a][p]] # None
  /\ bound \in Users \cup {None}
  /\ lists \in [Lists -> Entries]
  /\ tokens \subseteq Users
  /\ \A k \in Slots : plan[k] # <<>> => req[k] \in Requests
  /\ key \in [Slots -> {0} \cup Keys]
  /\ list \in [Slots -> Entries \cup {None}]
  /\ made \in 0 .. MaxRequests
  /\ faults \in 0 .. MaxFaults
  /\ confirmed \in [Accounts -> {0} \cup Keys]
  /\ intended \in [Lists -> Entries]
  /\ disturbed \subseteq Accounts \cup Lists \cup {"owner"}

NoAccount == [p \in Parts |-> 0]

NoEntries == [i \in Ids |-> None]

Init ==
  /\ accounts = [a \in Accounts |-> NoAccount]
  /\ madeFor = [n \in Keys |-> None]
  /\ bound = None
  /\ lists = [l \in Lists |-> NoEntries]
  /\ tokens = {}
  /\ plan = [k \in Slots |-> <<>>]
  /\ req = [k \in Slots |-> None]
  /\ key = [k \in Slots |-> 0]
  /\ list = [k \in Slots |-> None]
  /\ made = 0
  /\ faults = 0
  /\ confirmed = [a \in Accounts |-> 0]
  /\ intended = [l \in Lists |-> NoEntries]
  /\ disturbed = {}

-----------------------------------------------------------------------------
(* listAccounts, getAccount: an account is there when its metadata is. *)
Listed(a) == accounts[a]["meta"] # 0

(* The users the listed accounts were made for; the first one found is the *)
(* identity.                                                               *)
keyIdentity == {madeFor[accounts[a]["meta"]] : a \in {b \in Accounts : Listed(b)}}

(* Mutant of owner: the accounts alone decide. *)
owner_KeysOnly == IF keyIdentity # {} THEN keyIdentity ELSE {None}

(* The owner, as the set of what may be found; {None} if there is none.    *)
owner == IF keyIdentity # {} THEN keyIdentity ELSE {bound}

Idle(k) == plan[k] = <<>>

Fault == faults < MaxFaults /\ faults' = faults + 1

Busy(t) == \E k \in Slots : ~ Idle(k) /\ req[k].target = t

(* Slot k takes request r with the operations of its plan. *)
Begin(k, r, steps, spoilt) ==
  /\ Idle(k)
  /\ made < MaxRequests
  /\ made' = made + 1
  /\ req' = [req EXCEPT ![k] = r]
  /\ plan' = [plan EXCEPT ![k] = steps]
  /\ disturbed' = disturbed \cup spoilt
                  \cup (IF Busy(r.target) THEN {r.target} ELSE {})

(* The request of slot k is over. *)
EndSlot(k) ==
  /\ plan' = [plan EXCEPT ![k] = <<>>]
  /\ req' = [req EXCEPT ![k] = None]
  /\ key' = [key EXCEPT ![k] = 0]
  /\ list' = [list EXCEPT ![k] = None]

Do(k, step) ==
  /\ ~ Idle(k)
  /\ Head(plan[k]) = step
  /\ plan' = [plan EXCEPT ![k] = Tail(@)]
  /\ UNCHANGED <<req, key, list>>

(* An operation succeeds, or fails and spoils what it was for. *)
Succeeds == UNCHANGED <<faults, disturbed>>
Fails(k) == Fault /\ disturbed' = disturbed \cup {req[k].target}

-----------------------------------------------------------------------------
(* authLogin, once the nonce and the signature are accepted (Login): the   *)
(* owner is read; none is found also when it cannot be read.               *)
authLogin(k, r) ==
  /\ r.op = "login"
  /\ \/ /\ r.user \in owner
        /\ Begin(k, r, <<"token">>, {}) /\ UNCHANGED faults
     \/ /\ owner = {None}
        /\ Begin(k, r, <<"bind", "token">>, {}) /\ UNCHANGED faults
     \/ /\ Fault
        /\ Begin(k, r, <<"bind", "token">>, {"owner"})
  /\ UNCHANGED <<storage, tokens, key, list, confirmed, intended>>

bindOwner(k) ==
  /\ \/ Do(k, "bind") /\ bound' = req[k].user /\ Succeeds
     \/ /\ ~ Idle(k) /\ Head(plan[k]) = "bind"
        /\ EndSlot(k) /\ UNCHANGED bound /\ Fails(k)
  /\ UNCHANGED <<accounts, madeFor, lists, tokens, made, confirmed, intended>>

GenerateToken(k) ==
  /\ ~ Idle(k) /\ Head(plan[k]) = "token"
  /\ tokens' = tokens \cup {req[k].user}
  /\ EndSlot(k)
  /\ UNCHANGED <<storage, made, faults, historyVars>>

(* Every other request needs a token and, once there is an owner, that the *)
(* caller is the owner; an owner that cannot be read lets anyone pass.     *)
ownerGuard(r) ==
  /\ r.user \in tokens
  /\ \/ owner \cap {r.user, None} # {} /\ UNCHANGED faults
     \/ Fault

-----------------------------------------------------------------------------
(* Accounts *)

(* Mutant of keygenPlan: the metadata is saved before the shares. *)
keygenPlan_MetaFirst(a) ==
  IF a \in ECDSAAccounts THEN <<"meta", "conf", "presig", "confirm">>
                         ELSE <<"meta", "conf", "confirm">>

keygenPlan(a) ==
  IF a \in ECDSAAccounts THEN <<"conf", "presig", "meta", "confirm">>
                         ELSE <<"conf", "meta", "confirm">>

(* The key is generated with the partner before anything is saved.         *)
(* Nothing asks whether the account exists, or whether the user it is made *)
(* for is the caller.                                                      *)
Keygen(k, r) ==
  LET n == made + 1
  IN
  /\ r.op = "keygen"
  /\ ownerGuard(r)
  /\ Begin(k, r, keygenPlan(r.target),
           (IF Listed(r.target) THEN {r.target} ELSE {})
           \cup (IF r.id # r.user THEN {"owner"} ELSE {}))
  /\ key' = [key EXCEPT ![k] = n]
  /\ madeFor' = [madeFor EXCEPT ![n] = r.id]
  /\ UNCHANGED <<accounts, bound, lists, tokens, list, confirmed, intended>>

keygenECDSA(k, r) == r.target \in ECDSAAccounts /\ Keygen(k, r)

keygenFROST(k, r) == r.target \in FROSTAccounts /\ Keygen(k, r)

(* A part is saved.  An error ends the request, unless it is the           *)
(* metadata's.                                                             *)
savePart(k, p) ==
  LET a == req[k].target
  IN
  /\ \/ /\ Do(k, p)
        /\ accounts' = [accounts EXCEPT ![a][p] = key[k]]
        /\ Succeeds
     \/ /\ p = "meta"
        /\ Do(k, p) /\ UNCHANGED accounts /\ Fails(k)
     \/ /\ p # "meta"
        /\ ~ Idle(k) /\ Head(plan[k]) = p
        /\ EndSlot(k) /\ UNCHANGED accounts /\ Fails(k)
  /\ UNCHANGED <<madeFor, bound, lists, tokens, made, confirmed, intended>>

Delete == [conf |-> "deleteConf", presig |-> "deletePresig", meta |-> "deleteMeta"]

deletePlan == <<Delete.meta, Delete.conf, Delete.presig, "confirm">>

deleteAccount(k, r) ==
  /\ r.op = "delete"
  /\ ownerGuard(r)
  /\ Listed(r.target)
  /\ Begin(k, r, deletePlan, {})
  /\ confirmed' = [confirmed EXCEPT ![r.target] = 0]
  /\ UNCHANGED <<storage, tokens, key, list, intended>>

(* A part is deleted; an error is passed over. *)
deletePart(k, p) ==
  /\ Do(k, Delete[p])
  /\ \/ accounts' = [accounts EXCEPT ![req[k].target][p] = 0] /\ Succeeds
     \/ UNCHANGED accounts /\ Fails(k)
  /\ UNCHANGED <<madeFor, bound, lists, tokens, made, confirmed, intended>>

-----------------------------------------------------------------------------
(* Exchanges and aliases *)

changeList(k, r) ==
  /\ r.op \in {"upsert", "update"}
  /\ ownerGuard(r)
  /\ Begin(k, r, <<"load", "save", "confirm">>, {})
  /\ UNCHANGED <<storage, tokens, key, list, confirmed, intended>>

(* createExchange and upsertExchange, deleteExchange (no value),           *)
(* updateExchange.                                                         *)
changeExchanges(k, r) == r.target = "exchanges" /\ changeList(k, r)

(* setAlias, deleteAlias (no value). *)
changeAliases(k, r) == r.target = "aliases" /\ r.op = "upsert" /\ changeList(k, r)

(* An error ends the request (loadExchanges), or makes the list empty      *)
(* (loadAliases).                                                          *)
loadList(k) ==
  LET l == req[k].target
      load(found) == /\ plan' = [plan EXCEPT ![k] = Tail(@)]
                     /\ list' = [list EXCEPT ![k] = found]
                     /\ UNCHANGED <<req, key>>
  IN
  /\ ~ Idle(k) /\ Head(plan[k]) = "load"
  /\ \/ load(lists[l]) /\ Succeeds
     \/ l = "exchanges" /\ EndSlot(k) /\ Fails(k)
     \/ l = "aliases" /\ load(NoEntries) /\ Fails(k)
  /\ UNCHANGED <<storage, tokens, made, confirmed, intended>>

(* Mutant of changed: the other entries are dropped. *)
changed_Only(r, found) == [NoEntries EXCEPT ![r.id] = r.value]

changed(r, found) == [found EXCEPT ![r.id] = r.value]

(* updateExchange finds its exchange in the list or ends.  The error of a  *)
(* save ends a request on exchanges and is dropped for aliases.            *)
saveList(k) ==
  LET r == req[k]
      l == r.target
      missing == r.op = "update" /\ list[k][r.id] = None
  IN
  /\ ~ Idle(k) /\ Head(plan[k]) = "save"
  /\ \/ missing /\ EndSlot(k) /\ UNCHANGED <<lists, intended>> /\ Succeeds
     \/ /\ ~ missing
        /\ lists' = [lists EXCEPT ![l] = changed(r, list[k])]
        /\ intended' = [intended EXCEPT ![l][r.id] = r.value]
        /\ Do(k, "save") /\ Succeeds
     \/ /\ ~ missing
        /\ IF l = "exchanges" THEN EndSlot(k) ELSE Do(k, "save")
        /\ UNCHANGED <<lists, intended>> /\ Fails(k)
  /\ UNCHANGED <<accounts, madeFor, bound, tokens, made, confirmed>>

-----------------------------------------------------------------------------
(* The request is answered with success. *)
Confirm(k) ==
  /\ ~ Idle(k) /\ Head(plan[k]) = "confirm"
  /\ confirmed' = IF req[k].op = "keygen"
                  THEN [confirmed EXCEPT ![req[k].target] = key[k]] ELSE confirmed
  /\ EndSlot(k)
  /\ UNCHANGED <<storage, tokens, made, faults, intended, disturbed>>

(* The process ends.  Tokens stay good unless their secret was made up at  *)
(* the start (clientSecret).                                               *)
Restart ==
  /\ Fault
  /\ plan' = [k \in Slots |-> <<>>]
  /\ req' = [k \in Slots |-> None]
  /\ key' = [k \in Slots |-> 0]
  /\ list' = [k \in Slots |-> None]
  /\ tokens' \in {tokens, {}}
  /\ UNCHANGED <<storage, made, historyVars>>

Next ==
  \/ \E k \in Slots, r \in Requests :
       \/ authLogin(k, r) \/ keygenECDSA(k, r) \/ keygenFROST(k, r)
       \/ deleteAccount(k, r) \/ changeExchanges(k, r) \/ changeAliases(k, r)
  \/ \E k \in Slots :
       \/ bindOwner(k) \/ GenerateToken(k) \/ loadList(k) \/ saveList(k) \/ Confirm(k)
       \/ \E p \in Parts : savePart(k, p) \/ deletePart(k, p)
  \/ Restart

Spec == Init /\ [][Next]_vars

-----------------------------------------------------------------------------
(* Once a client has an owner it keeps it, through logins, key             *)
(* generations, deletions of accounts and restarts ("a fresh client binds  *)
(* to the first successful login", authLogin), as long as first logins do  *)
(* not overlap, the owner can be read, and keys are made for the caller.   *)
OwnerKept ==
  [][ (owner # {None} /\ "owner" \notin disturbed') => owner' = owner ]_vars

(* The state is well formed and accounts are whole.  A listed account can  *)
(* sign: all its parts are there and belong to the listed key, even when   *)
(* the client ends amid a key generation or a deletion (keygenECDSA and    *)
(* keygenFROST save the metadata last, deleteAccount removes it first).    *)
(* An account whose generation was confirmed stays listed under its key    *)
(* until its deletion begins.                                              *)
AccountsWhole ==
  /\ TypeOK
  /\ \A a \in Accounts \ disturbed :
       /\ Listed(a) => \A p \in PartsOf(a) : accounts[a][p] = accounts[a]["meta"]
       /\ confirmed[a] # 0 => accounts[a]["meta"] = confirmed[a]

(* While the requests on a list do not overlap and none fails, every entry *)
(* is as the last request on it left it, whichever other entries changed   *)
(* since (loadExchanges and saveExchanges, loadAliases and saveAliases).   *)
ListsKept == \A l \in Lists \ disturbed : lists[l] = intended[l]

=============================================================================
