------------------------- MODULE ClientStoreProofs -------------------------
(***************************************************************************)
(* Proofs about ClientStore, for all users, accounts, lists and requests,  *)
(* any number of slots, of requests and of faults.                         *)
(*                                                                         *)
(* The argument: the step a request is about to take decides what is left  *)
(* of its plan (SlotInv).  As long as an account, a list or the owner is   *)
(* not disturbed one request at a time is on it (Alone), and the step that *)
(* request is at decides what is stored of the account (Reached), whether  *)
(* the list it has loaded is still the stored one, and who is bound.       *)
(***************************************************************************)
EXTENDS ClientStore, TLAPS

(* The step a slot is about to take. *)
At(k) == Head(plan[k])

On(k, t) == ~ Idle(k) /\ req[k].target = t

Steps == {"bind", "token", "conf", "presig", "meta", "deleteMeta", "deleteConf",
          "deletePresig", "load", "save", "confirm"}

(* The steps of a request. *)
StepsOf(r) ==
  CASE r.op = "login" -> {"bind", "token"}
    [] r.op = "keygen" -> PartsOf(r.target) \cup {"confirm"}
    [] r.op = "delete" -> {"deleteMeta", "deleteConf", "deletePresig", "confirm"}
    [] OTHER -> {"load", "save", "confirm"}

(* What is left of a plan on target t after step s. *)
Rest(t, s) ==
  CASE s = "bind" -> <<"token">>
    [] s = "conf" -> IF t \in ECDSAAccounts THEN <<"presig", "meta", "confirm">>
                                            ELSE <<"meta", "confirm">>
    [] s = "presig" -> <<"meta", "confirm">>
    [] s = "meta" -> <<"confirm">>
    [] s = "deleteMeta" -> <<"deleteConf", "deletePresig", "confirm">>
    [] s = "deleteConf" -> <<"deletePresig", "confirm">>
    [] s = "deletePresig" -> <<"confirm">>
    [] s = "load" -> <<"save", "confirm">>
    [] s = "save" -> <<"confirm">>
    [] OTHER -> <<>>

RestsOf(t) == {Rest(t, s) : s \in Steps}

(* The plans requests begin with, and what may be left of them. *)
Plans ==
  {<<"bind", "token">>, deletePlan, <<"load", "save", "confirm">>}
  \cup {keygenPlan(a) : a \in Accounts}
  \cup UNION {RestsOf(t) : t \in Accounts \cup Lists \cup {"owner"}}

SlotInv(k) ==
  ~ Idle(k) => /\ req[k] \in Requests
               /\ At(k) \in StepsOf(req[k])
               /\ Tail(plan[k]) = Rest(req[k].target, At(k))
               /\ req[k].op = "keygen" => key[k] # 0
               /\ At(k) = "save" => list[k] \in Entries

(* Keys that are stored or held were generated. *)
KeyInv ==
  /\ \A a \in Accounts, p \in Parts : accounts[a][p] <= made
  /\ \A k \in Slots : key[k] <= made /\ (key[k] # 0 => madeFor[key[k]] # None)

StoreTypes ==
  /\ accounts \in [Accounts -> [Parts -> {0} \cup Keys]]
  /\ \A a \in FROSTAccounts : accounts[a]["presig"] = 0
  /\ madeFor \in [Keys -> Users \cup {None}]
  /\ \A a \in Accounts, p \in Parts : accounts[a][p] # 0 => madeFor[accounts[a][p]] # None

ListTypes ==
  /\ lists \in [Lists -> Entries]
  /\ intended \in [Lists -> Entries]

OwnerTypes ==
  /\ bound \in Users \cup {None}
  /\ tokens \subseteq Users

SlotTypes ==
  /\ plan \in [Slots -> Plans]
  /\ req \in [Slots -> Requests \cup {None}]
  /\ key \in [Slots -> {0} \cup Keys]
  /\ list \in [Slots -> Entries \cup {None}]

OtherTypes ==
  /\ made \in 0 .. MaxRequests
  /\ faults \in 0 .. MaxFaults
  /\ confirmed \in [Accounts -> {0} \cup Keys]
  /\ disturbed \subseteq Accounts \cup Lists \cup {"owner"}

Types == StoreTypes /\ ListTypes /\ OwnerTypes /\ SlotTypes /\ OtherTypes

Alone ==
  \A t \in Accounts \cup Lists \cup {"owner"} : t \notin disturbed =>
     \A j, k \in Slots : On(j, t) /\ On(k, t) => j = k

(* The parts a key generation has saved before step s. *)
Saved(s) ==
  CASE s = "presig" -> {"conf"}
    [] s = "meta" -> {"conf", "presig"}
    [] s = "confirm" -> Parts
    [] OTHER -> {}

(* What the request on an account has reached. *)
Reached(k, a) ==
  /\ confirmed[a] = 0
  /\ req[k].op = "delete" /\ At(k) # "deleteMeta" => accounts[a]["meta"] = 0
  /\ req[k].op = "keygen" =>
       /\ \A p \in PartsOf(a) \cap Saved(At(k)) : accounts[a][p] = key[k]
       /\ At(k) # "confirm" => accounts[a]["meta"] = 0

WholeAccount(a) ==
  /\ Listed(a) => \A p \in PartsOf(a) : accounts[a][p] = accounts[a]["meta"]
  /\ confirmed[a] # 0 => accounts[a]["meta"] = confirmed[a]

AccountInv(a) ==
  a \notin disturbed =>
     /\ WholeAccount(a)
     /\ \A k \in Slots : On(k, a) => Reached(k, a)

ListInv(l) ==
  l \notin disturbed =>
     /\ lists[l] = intended[l]
     /\ \A k \in Slots : On(k, l) /\ At(k) = "save" => list[k] = lists[l]

OwnerInv ==
  "owner" \notin disturbed =>
     /\ \A n \in Keys : madeFor[n] \in {None, bound}
     /\ tokens \subseteq {bound}
     /\ \A k \in Slots : On(k, "owner") =>
           bound = IF At(k) = "bind" THEN None ELSE req[k].user

IInv ==
  /\ Types
  /\ \A k \in Slots : SlotInv(k)
  /\ KeyInv
  /\ Alone
  /\ \A a \in Accounts : AccountInv(a)
  /\ \A l \in Lists : ListInv(l)
  /\ OwnerInv

-----------------------------------------------------------------------------
(* What a request asks for. *)
LEMMA RequestType ==
  ASSUME NEW r \in Requests
  PROVE  /\ r.op \in {"login", "keygen", "delete", "upsert", "update"}
         /\ r.user \in Users
         /\ r.op = "login" => r.target = "owner"
         /\ r.op = "keygen" => r.target \in Accounts /\ r.id \in Users
         /\ r.op = "delete" => r.target \in Accounts
         /\ r.op \in {"upsert", "update"} =>
              r.target \in Lists /\ r.id \in Ids /\ r.value \in Values \cup {None}
<1>1. r \in Request
  BY ClientStoreAssumption, Zenon
<1>2. QED
  BY <1>1, Zenon DEF Request

(* Accounts, lists and the owner are different targets. *)
LEMMA Targets ==
  /\ Accounts \cap Lists = {}
  /\ "owner" \notin Accounts
  /\ "owner" \notin Lists
<1>1. "owner" \notin Lists
  BY Zenon DEF Lists
<1>2. QED
  BY <1>1, ClientStoreAssumption, Zenon

(* What the step of a request tells of it. *)
LEMMA StepOf ==
  ASSUME NEW r \in Requests, NEW s \in StepsOf(r)
  PROVE  /\ s \in {"bind", "token"} <=> r.op = "login"
         /\ s \in Parts => /\ r.op = "keygen"
                           /\ r.target \in Accounts
                           /\ s \in PartsOf(r.target)
         /\ s \in {"deleteMeta", "deleteConf", "deletePresig"} =>
              r.op = "delete" /\ r.target \in Accounts
         /\ s \in {"load", "save"} => r.op \in {"upsert", "update"} /\ r.target \in Lists
         /\ s = "confirm" => r.op # "login"
<1>1. CASE r.op = "login"
  BY <1>1, Zenon DEF StepsOf, Parts
<1>2. CASE r.op = "keygen"
  <2>1. s \in PartsOf(r.target) \cup {"confirm"}
    BY <1>2, Zenon DEF StepsOf
  <2>2. s \in {"conf", "presig", "meta", "confirm"}
    BY <2>1, Zenon DEF PartsOf, Parts
  <2>3. s # "confirm" => s \in PartsOf(r.target)
    BY <2>1, Zenon
  <2>4. r.target \in Accounts
    BY <1>2, RequestType, Zenon
  <2>5. QED
    BY <1>2, <2>2, <2>3, <2>4, Zenon DEF Parts
<1>3. CASE r.op = "delete"
  <2>1. r.target \in Accounts
    BY <1>3, RequestType, Zenon
  <2>2. QED
    BY <1>3, <2>1, Zenon DEF StepsOf, Parts
<1>4. CASE r.op \in {"upsert", "update"}
  <2>1. r.target \in Lists
    BY <1>4, RequestType, Zenon
  <2>2. QED
    BY <1>4, <2>1, Zenon DEF StepsOf, Parts
<1>5. QED
  BY <1>1, <1>2, <1>3, <1>4, RequestType, Zenon

(* The step after a step. *)
After(t, s, n) ==
  /\ Rest(t, s) # <<>>
  /\ Head(Rest(t, s)) = n
  /\ Tail(Rest(t, s)) = Rest(t, n)

LEMMA StepAfter ==
  ASSUME NEW t
  PROVE  /\ After(t, "bind", "token")
         /\ t \in ECDSAAccounts => After(t, "conf", "presig")
         /\ t \notin ECDSAAccounts => After(t, "conf", "meta")
         /\ After(t, "presig", "meta")
         /\ After(t, "meta", "confirm")
         /\ After(t, "deleteMeta", "deleteConf")
         /\ After(t, "deleteConf", "deletePresig")
         /\ After(t, "deletePresig", "confirm")
         /\ After(t, "load", "save")
         /\ After(t, "save", "confirm")
         /\ Rest(t, "token") = <<>>
         /\ Rest(t, "confirm") = <<>>
<1>1. After(t, "bind", "token")
  BY DEF After, Rest
<1>2. t \in ECDSAAccounts => After(t, "conf", "presig")
  BY DEF After, Rest
<1>3. t \notin ECDSAAccounts => After(t, "conf", "meta")
  BY DEF After, Rest
<1>4. After(t, "presig", "meta") /\ After(t, "meta", "confirm")
  BY DEF After, Rest
<1>5. After(t, "deleteMeta", "deleteConf") /\ After(t, "deleteConf", "deletePresig")
  BY DEF After, Rest
<1>6. After(t, "deletePresig", "confirm")
  BY DEF After, Rest
<1>7. After(t, "load", "save") /\ After(t, "save", "confirm")
  BY DEF After, Rest
<1>8. Rest(t, "token") = <<>> /\ Rest(t, "confirm") = <<>>
  BY Zenon DEF Rest
<1>9. QED
  BY <1>1, <1>2, <1>3, <1>4, <1>5, <1>6, <1>7, <1>8, Zenon

(* The plans requests begin with. *)
Starts(t, steps, s) ==
  steps # <<>> /\ Head(steps) = s /\ Tail(steps) = Rest(t, s)

LEMMA PlanStarts ==
  ASSUME NEW t
  PROVE  /\ Starts(t, <<"token">>, "token")
         /\ Starts(t, <<"bind", "token">>, "bind")
         /\ Starts(t, keygenPlan(t), "conf")
         /\ Starts(t, deletePlan, "deleteMeta")
         /\ Starts(t, <<"load", "save", "confirm">>, "load")
<1>1. Starts(t, <<"token">>, "token")
  BY DEF Starts, Rest
<1>2. Starts(t, <<"bind", "token">>, "bind")
  BY DEF Starts, Rest
<1>3. Starts(t, keygenPlan(t), "conf")
  BY DEF Starts, Rest, keygenPlan
<1>4. Starts(t, deletePlan, "deleteMeta")
  <2>1. deletePlan = <<"deleteMeta", "deleteConf", "deletePresig", "confirm">>
    BY Zenon DEF deletePlan, Delete
  <2>2. QED
    BY <2>1 DEF Starts, Rest
<1>5. Starts(t, <<"load", "save", "confirm">>, "load")
  BY DEF Starts, Rest
<1>6. QED
  BY <1>1, <1>2, <1>3, <1>4, <1>5, Zenon

-----------------------------------------------------------------------------
(* What a step leaves alone. *)

Others(k) ==
  \A j \in Slots : j # k => /\ plan'[j] = plan[j] /\ req'[j] = req[j]
                            /\ key'[j] = key[j] /\ list'[j] = list[j]

(* Slot k goes on with its request, ends it, or begins one. *)
Moves(k) ==
  /\ Others(k)
  /\ disturbed \subseteq disturbed'
  /\ \/ Idle(k)'
     \/ ~ Idle(k) /\ req'[k] = req[k]
     \/ Busy(req'[k].target) => req'[k].target \in disturbed'

LEMMA RequestTarget ==
  ASSUME NEW r \in Requests
  PROVE  r.target \in Accounts \cup Lists \cup {"owner"}
  BY RequestType, Zenon

LEMMA StepName ==
  ASSUME NEW r \in Requests, NEW s \in StepsOf(r)
  PROVE  s \in Steps
<1>1. CASE r.op = "keygen"
  <2>1. s \in PartsOf(r.target) \cup {"confirm"}
    BY <1>1, Zenon DEF StepsOf
  <2>2. QED
    BY <2>1, Zenon DEF PartsOf, Parts, Steps
<1>2. CASE r.op = "login"
  BY <1>2, Zenon DEF StepsOf, Steps
<1>3. CASE r.op = "delete"
  BY <1>3, Zenon DEF StepsOf, Steps
<1>4. CASE r.op \in {"upsert", "update"}
  BY <1>4, Zenon DEF StepsOf, Steps
<1>5. QED
  BY <1>1, <1>2, <1>3, <1>4, RequestType, Zenon

LEMMA RestPlan ==
  ASSUME NEW t \in Accounts \cup Lists \cup {"owner"}, NEW s \in Steps
  PROVE  Rest(t, s) \in Plans
<1>1. Rest(t, s) \in RestsOf(t)
  BY Zenon DEF RestsOf
<1>2. Rest(t, s) \in UNION {RestsOf(x) : x \in Accounts \cup Lists \cup {"owner"}}
  BY <1>1, Zenon
<1>3. QED
  BY <1>2, Zenon DEF Plans

LEMMA DoStep ==
  ASSUME IInv, NEW k \in Slots, NEW s, Do(k, s)
  PROVE  /\ ~ Idle(k) /\ At(k) = s
         /\ req[k] \in Requests /\ s \in StepsOf(req[k])
         /\ plan' \in [Slots -> Plans]
         /\ plan'[k] = Rest(req[k].target, s)
         /\ Others(k)
         /\ UNCHANGED <<req, key, list>>
<1>1. ~ Idle(k) /\ At(k) = s /\ UNCHANGED <<req, key, list>>
  BY Zenon DEF Do, At
<1>2. /\ req[k] \in Requests /\ s \in StepsOf(req[k])
      /\ Tail(plan[k]) = Rest(req[k].target, s)
  BY <1>1, Zenon DEF IInv, SlotInv
<1>3. Rest(req[k].target, s) \in Plans
  BY <1>2, RequestTarget, StepName, RestPlan, Zenon
<1>4. plan \in [Slots -> Plans]
  BY Zenon DEF IInv, Types, SlotTypes
<1>5. plan' = [plan EXCEPT ![k] = Rest(req[k].target, s)]
  BY <1>2, <1>4, Zenon DEF Do
<1>6. /\ plan' \in [Slots -> Plans] /\ plan'[k] = Rest(req[k].target, s)
      /\ \A j \in Slots : j # k => plan'[j] = plan[j]
  BY <1>3, <1>4, <1>5, Zenon
<1>7. QED
  BY <1>1, <1>2, <1>6, Zenon DEF Others

LEMMA NoPlan == <<>> \in Plans
<1>1. Rest("owner", "token") = <<>> /\ "token" \in Steps
  BY StepAfter, Zenon DEF Steps
<1>2. QED
  BY <1>1, RestPlan, Zenon

LEMMA EndStep ==
  ASSUME IInv, NEW k \in Slots, EndSlot(k)
  PROVE  /\ Idle(k)' /\ Others(k)
         /\ plan' \in [Slots -> Plans]
         /\ req' \in [Slots -> Requests \cup {None}]
         /\ key' \in [Slots -> {0} \cup Keys]
         /\ list' \in [Slots -> Entries \cup {None}]
         /\ key'[k] = 0
<1>1. /\ plan \in [Slots -> Plans]
      /\ req \in [Slots -> Requests \cup {None}]
      /\ key \in [Slots -> {0} \cup Keys]
      /\ list \in [Slots -> Entries \cup {None}]
  BY Zenon DEF IInv, Types, SlotTypes, OtherTypes
<1>2. /\ plan' = [plan EXCEPT ![k] = <<>>]
      /\ req' = [req EXCEPT ![k] = None]
      /\ key' = [key EXCEPT ![k] = 0]
      /\ list' = [list EXCEPT ![k] = None]
  BY Zenon DEF EndSlot
<1>3. plan' \in [Slots -> Plans] /\ plan'[k] = <<>>
  BY <1>1, <1>2, NoPlan, Zenon
<1>4. req' \in [Slots -> Requests \cup {None}]
  BY <1>1, <1>2, Zenon
<1>5. key' \in [Slots -> {0} \cup Keys] /\ key'[k] = 0
  BY <1>1, <1>2, Zenon
<1>6. list' \in [Slots -> Entries \cup {None}]
  BY <1>1, <1>2, Zenon
<1>7. Others(k)
  BY <1>1, <1>2, Zenon DEF Others
<1>8. QED
  BY <1>3, <1>4, <1>5, <1>6, <1>7, Zenon DEF Idle

LEMMA BeginStep ==
  ASSUME IInv, NEW k \in Slots, NEW r \in Requests, NEW steps \in Plans, NEW s,
         NEW spoilt \in SUBSET (Accounts \cup Lists \cup {"owner"}),
         Begin(k, r, steps, spoilt), Starts(r.target, steps, s)
  PROVE  /\ Idle(k) /\ ~ Idle(k)'
         /\ At(k)' = s /\ Tail(plan'[k]) = Rest(r.target, s)
         /\ req'[k] = r
         /\ plan' \in [Slots -> Plans]
         /\ req' \in [Slots -> Requests \cup {None}]
         /\ \A j \in Slots : j # k => plan'[j] = plan[j] /\ req'[j] = req[j]
         /\ disturbed' \subseteq Accounts \cup Lists \cup {"owner"}
         /\ disturbed \subseteq disturbed'
         /\ spoilt \subseteq disturbed'
         /\ Busy(r.target) => r.target \in disturbed'
         /\ made < MaxRequests /\ made' = made + 1
<1>1. /\ plan \in [Slots -> Plans]
      /\ req \in [Slots -> Requests \cup {None}]
      /\ disturbed \subseteq Accounts \cup Lists \cup {"owner"}
  BY Zenon DEF IInv, Types, SlotTypes, OtherTypes
<1>2. /\ Idle(k)
      /\ made < MaxRequests /\ made' = made + 1
      /\ req' = [req EXCEPT ![k] = r]
      /\ plan' = [plan EXCEPT ![k] = steps]
      /\ disturbed' = disturbed \cup spoilt
                      \cup (IF Busy(r.target) THEN {r.target} ELSE {})
  BY Zenon DEF Begin
<1>3. /\ plan' \in [Slots -> Plans] /\ plan'[k] = steps
      /\ \A j \in Slots : j # k => plan'[j] = plan[j]
  BY <1>1, <1>2, Zenon
<1>4. /\ req' \in [Slots -> Requests \cup {None}] /\ req'[k] = r
      /\ \A j \in Slots : j # k => req'[j] = req[j]
  BY <1>1, <1>2, Zenon
<1>5. /\ disturbed \subseteq disturbed' /\ spoilt \subseteq disturbed'
      /\ Busy(r.target) => r.target \in disturbed'
  BY <1>2, Zenon
<1>6. disturbed' \subseteq Accounts \cup Lists \cup {"owner"}
  BY <1>1, <1>2, RequestTarget, Zenon
<1>7. ~ Idle(k)' /\ At(k)' = s /\ Tail(plan'[k]) = Rest(r.target, s)
  BY <1>3, Zenon DEF Idle, At, Starts
<1>8. QED
  BY <1>2, <1>3, <1>4, <1>5, <1>6, <1>7, Zenon

(* The other slots. *)
LEMMA SlotsKept ==
  ASSUME IInv, NEW k \in Slots, Others(k), SlotInv(k)'
  PROVE  \A j \in Slots : SlotInv(j)'
<1> SUFFICES ASSUME NEW j \in Slots, j # k PROVE SlotInv(j)'
  BY Zenon
<1>1. SlotInv(j) /\ plan'[j] = plan[j] /\ req'[j] = req[j] /\ key'[j] = key[j]
      /\ list'[j] = list[j]
  BY Zenon DEF IInv, Others
<1>2. QED
  BY <1>1, Zenon DEF SlotInv, Idle, At

LEMMA OnKept ==
  ASSUME NEW k \in Slots, Others(k), NEW j \in Slots, j # k, NEW t
  PROVE  /\ On(j, t)' <=> On(j, t)
         /\ At(j)' = At(j)
  BY Zenon DEF Others, On, Idle, At

LEMMA AloneKept ==
  ASSUME IInv, NEW k \in Slots, Moves(k)
  PROVE  Alone'
<1> SUFFICES ASSUME NEW t \in Accounts \cup Lists \cup {"owner"}, t \notin disturbed',
                    NEW i \in Slots, NEW j \in Slots, On(i, t)', On(j, t)', i # j
             PROVE  FALSE
  BY Zenon DEF Alone
<1>1. t \notin disturbed /\ Others(k)
  BY Zenon DEF Moves
<1>2. \A x \in Slots : x # k => (On(x, t)' <=> On(x, t))
  BY <1>1, OnKept, Zenon
<1>3. ~ (On(i, t) /\ On(j, t))
  BY <1>1, Zenon DEF IInv, Alone
<1>4. PICK x \in Slots : x # k /\ On(x, t)
  BY <1>2, Zenon
<1>5. On(k, t)' /\ ~ On(k, t)
  BY <1>2, <1>3, Zenon
<1>6. Busy(t)
  BY <1>4, Zenon DEF Busy, On
<1>7. QED
  BY <1>5, <1>6, Zenon DEF Moves, On

(* A step that changes no account, no key and no confirmation. *)
LEMMA AccountsKept ==
  ASSUME IInv, NEW k \in Slots, Moves(k), UNCHANGED <<accounts, confirmed>>,
         \A a \in Accounts : On(k, a)' /\ a \notin disturbed' => Reached(k, a)'
  PROVE  \A a \in Accounts : AccountInv(a)'
<1> SUFFICES ASSUME NEW a \in Accounts, a \notin disturbed'
             PROVE  /\ WholeAccount(a)'
                    /\ \A j \in Slots : On(j, a)' => Reached(j, a)'
  BY Zenon DEF AccountInv
<1>1. Others(k) /\ a \notin disturbed
  BY Zenon DEF Moves
<1>2. WholeAccount(a) /\ \A j \in Slots : On(j, a) => Reached(j, a)
  BY <1>1, Zenon DEF IInv, AccountInv
<1>3. WholeAccount(a)'
  BY <1>2, Zenon DEF WholeAccount, Listed
<1>4. ASSUME NEW j \in Slots, j # k, On(j, a)' PROVE Reached(j, a)'
  <2>1. On(j, a) /\ At(j)' = At(j)
    BY <1>1, <1>4, OnKept, Zenon
  <2>2. Reached(j, a) /\ req'[j] = req[j] /\ key'[j] = key[j]
    BY <1>1, <1>2, <1>4, <2>1, Zenon DEF Others
  <2>3. QED
    BY <2>1, <2>2, Zenon DEF Reached
<1>5. QED
  BY <1>3, <1>4, Zenon

(* A step of the only request on account a. *)
LEMMA AccountStep ==
  ASSUME IInv, NEW k \in Slots, Moves(k), NEW a \in Accounts, On(k, a),
         \A b \in Accounts : b # a => accounts'[b] = accounts[b] /\ confirmed'[b] = confirmed[b],
         req'[k] = req[k] \/ Idle(k)',
         a \notin disturbed' => WholeAccount(a)' /\ (On(k, a)' => Reached(k, a)')
  PROVE  \A b \in Accounts : AccountInv(b)'
<1> SUFFICES ASSUME NEW b \in Accounts, b \notin disturbed'
             PROVE  /\ WholeAccount(b)'
                    /\ \A j \in Slots : On(j, b)' => Reached(j, b)'
  BY Zenon DEF AccountInv
<1>1. Others(k) /\ b \notin disturbed
  BY Zenon DEF Moves
<1>2. WholeAccount(b) /\ \A j \in Slots : On(j, b) => Reached(j, b)
  BY <1>1, Zenon DEF IInv, AccountInv
<1>3. CASE b = a
  <2>1. ASSUME NEW j \in Slots, j # k, On(j, b)' PROVE FALSE
    <3>1. On(j, a)
      BY <1>1, <1>3, <2>1, OnKept, Zenon
    <3>2. QED
      BY <1>1, <1>3, <2>1, <3>1, Zenon DEF IInv, Alone
  <2>2. QED
    BY <1>3, <2>1, Zenon
<1>4. CASE b # a
  <2>1. accounts'[b] = accounts[b] /\ confirmed'[b] = confirmed[b]
    BY <1>4, Zenon
  <2>2. WholeAccount(b)'
    BY <1>2, <2>1, Zenon DEF WholeAccount, Listed
  <2>3. ~ On(k, b)'
    BY <1>4, Zenon DEF On
  <2>4. ASSUME NEW j \in Slots, j # k, On(j, b)' PROVE Reached(j, b)'
    <3>1. On(j, b) /\ At(j)' = At(j)
      BY <1>1, <2>4, OnKept, Zenon
    <3>2. Reached(j, b) /\ req'[j] = req[j] /\ key'[j] = key[j]
      BY <1>1, <1>2, <2>4, <3>1, Zenon DEF Others
    <3>3. QED
      BY <2>1, <3>1, <3>2, Zenon DEF Reached
  <2>5. QED
    BY <2>2, <2>3, <2>4, Zenon
<1>5. QED
  BY <1>3, <1>4, Zenon

(* A step that changes no list. *)
LEMMA ListsUnchanged ==
  ASSUME IInv, NEW k \in Slots, Moves(k), UNCHANGED <<lists, intended>>,
         \A l \in Lists : On(k, l)' /\ At(k)' = "save" /\ l \notin disturbed' =>
                             list'[k] = lists[l]
  PROVE  \A l \in Lists : ListInv(l)'
<1> SUFFICES ASSUME NEW l \in Lists, l \notin disturbed'
             PROVE  /\ lists'[l] = intended'[l]
                    /\ \A j \in Slots : On(j, l)' /\ At(j)' = "save" => list'[j] = lists'[l]
  BY Zenon DEF ListInv
<1>1. Others(k) /\ l \notin disturbed
  BY Zenon DEF Moves
<1>2. /\ lists[l] = intended[l]
      /\ \A j \in Slots : On(j, l) /\ At(j) = "save" => list[j] = lists[l]
  BY <1>1, Zenon DEF IInv, ListInv
<1>3. ASSUME NEW j \in Slots, j # k, On(j, l)', At(j)' = "save" PROVE list'[j] = lists[l]
  <2>1. On(j, l) /\ At(j) = "save"
    BY <1>1, <1>3, OnKept, Zenon
  <2>2. QED
    BY <1>1, <1>2, <1>3, <2>1, Zenon DEF Others
<1>4. QED
  BY <1>2, <1>3, Zenon

(* A step that does not concern the owner. *)
LEMMA OwnerUnchanged ==
  ASSUME IInv, NEW k \in Slots, Moves(k), UNCHANGED <<madeFor, bound, tokens>>,
         On(k, "owner")' => /\ "owner" \notin disturbed' =>
                                 bound = IF At(k)' = "bind" THEN None ELSE req'[k].user
  PROVE  OwnerInv'
<1> SUFFICES ASSUME "owner" \notin disturbed'
             PROVE  /\ \A n \in Keys : madeFor'[n] \in {None, bound'}
                    /\ tokens' \subseteq {bound'}
                    /\ \A j \in Slots : On(j, "owner")' =>
                          bound' = IF At(j)' = "bind" THEN None ELSE req'[j].user
  BY Zenon DEF OwnerInv
<1>1. Others(k) /\ "owner" \notin disturbed
  BY Zenon DEF Moves
<1>2. /\ \A n \in Keys : madeFor[n] \in {None, bound}
      /\ tokens \subseteq {bound}
      /\ \A j \in Slots : On(j, "owner") =>
            bound = IF At(j) = "bind" THEN None ELSE req[j].user
  BY <1>1, Zenon DEF IInv, OwnerInv
<1>3. ASSUME NEW j \in Slots, j # k, On(j, "owner")'
      PROVE  bound = IF At(j)' = "bind" THEN None ELSE req'[j].user
  <2>1. On(j, "owner") /\ At(j)' = At(j) /\ req'[j] = req[j]
    BY <1>1, <1>3, OnKept, Zenon DEF Others
  <2>2. QED
    BY <1>2, <2>1, Zenon
<1>4. QED
  BY <1>2, <1>3, Zenon

(* A step that stores and generates no key. *)
LEMMA KeysKept ==
  ASSUME IInv, NEW k \in Slots, Others(k), UNCHANGED <<accounts, madeFor>>,
         made' \in {made, made + 1}, key'[k] \in {0, key[k]}
  PROVE  KeyInv'
<1>1. made \in Nat /\ made' \in Nat /\ made <= made'
  BY ClientStoreAssumption DEF IInv, Types, OtherTypes
<1>2. ASSUME NEW n \in {0} \cup Keys, n <= made PROVE n <= made'
  BY <1>1, <1>2, ClientStoreAssumption DEF Keys
<1>3. ASSUME NEW a \in Accounts, NEW p \in Parts PROVE accounts'[a][p] <= made'
  <2>1. accounts[a][p] \in {0} \cup Keys /\ accounts[a][p] <= made
    BY Zenon DEF IInv, Types, StoreTypes, KeyInv
  <2>2. QED
    BY <1>2, <2>1, Zenon
<1>4. ASSUME NEW j \in Slots
      PROVE  key'[j] <= made' /\ (key'[j] # 0 => madeFor'[key'[j]] # None)
  <2>1. /\ key[j] \in {0} \cup Keys /\ key[j] <= made
        /\ key[j] # 0 => madeFor[key[j]] # None
    BY Zenon DEF IInv, Types, SlotTypes, KeyInv
  <2>2. key'[j] \in {0, key[j]}
    BY Zenon DEF Others
  <2>3. 0 <= made'
    BY <1>1
  <2>4. QED
    BY <1>2, <2>1, <2>2, <2>3, Zenon
<1>5. QED
  BY <1>3, <1>4, Zenon DEF KeyInv

-----------------------------------------------------------------------------
(* What all steps of a request have in common. *)

LEMMA FaultType ==
  ASSUME IInv, Fault \/ UNCHANGED faults
  PROVE  faults' \in 0 .. MaxFaults
  BY ClientStoreAssumption DEF IInv, Types, OtherTypes, Fault

LEMMA NextStepOf ==
  ASSUME NEW r \in Requests, NEW s \in StepsOf(r), Rest(r.target, s) # <<>>
  PROVE  /\ Head(Rest(r.target, s)) \in StepsOf(r)
         /\ Tail(Rest(r.target, s)) = Rest(r.target, Head(Rest(r.target, s)))
         /\ Head(Rest(r.target, s)) = "save" => s = "load"
<1> DEFINE t == r.target
<1>1. SUFFICES \E n \in StepsOf(r) : After(t, s, n) /\ (n = "save" => s = "load")
  BY Zenon DEF After
<1>2. CASE r.op = "login"
  <2>1. StepsOf(r) = {"bind", "token"}
    BY <1>2, Zenon DEF StepsOf
  <2>2. s = "bind"
    BY <2>1, StepAfter, Zenon
  <2>3. QED
    BY <2>1, <2>2, StepAfter, Zenon
<1>3. CASE r.op = "keygen"
  <2>1. StepsOf(r) = PartsOf(t) \cup {"confirm"}
    BY <1>3, Zenon DEF StepsOf
  <2>2. CASE t \in ECDSAAccounts
    <3>1. StepsOf(r) = {"conf", "presig", "meta", "confirm"}
      BY <2>1, <2>2, Zenon DEF PartsOf, Parts
    <3>2. s \in {"conf", "presig", "meta"}
      BY <3>1, StepAfter, Zenon
    <3>3. QED
      BY <2>2, <3>1, <3>2, StepAfter, Zenon
  <2>3. CASE t \notin ECDSAAccounts
    <3>1. StepsOf(r) = {"conf", "meta", "confirm"}
      BY <2>1, <2>3, Zenon DEF PartsOf
    <3>2. s \in {"conf", "meta"}
      BY <3>1, StepAfter, Zenon
    <3>3. QED
      BY <2>3, <3>1, <3>2, StepAfter, Zenon
  <2>4. QED
    BY <2>2, <2>3, Zenon
<1>4. CASE r.op = "delete"
  <2>1. StepsOf(r) = {"deleteMeta", "deleteConf", "deletePresig", "confirm"}
    BY <1>4, Zenon DEF StepsOf
  <2>2. s \in {"deleteMeta", "deleteConf", "deletePresig"}
    BY <2>1, StepAfter, Zenon
  <2>3. QED
    BY <2>1, <2>2, StepAfter, Zenon
<1>5. CASE r.op \in {"upsert", "update"}
  <2>1. StepsOf(r) = {"load", "save", "confirm"}
    BY <1>5, Zenon DEF StepsOf
  <2>2. s \in {"load", "save"}
    BY <2>1, StepAfter, Zenon
  <2>3. QED
    BY <2>1, <2>2, StepAfter, Zenon
<1>6. QED
  BY <1>2, <1>3, <1>4, <1>5, RequestType, Zenon

(* A request begins, other than a key generation. *)
LEMMA BeginBasics ==
  ASSUME IInv, NEW k \in Slots, NEW r \in Requests, NEW steps \in Plans,
         NEW s \in StepsOf(r),
         NEW spoilt \in SUBSET (Accounts \cup Lists \cup {"owner"}),
         Begin(k, r, steps, spoilt), Starts(r.target, steps, s),
         r.op # "keygen", s # "save",
         UNCHANGED <<storage, tokens, key, list, intended>>,
         Fault \/ UNCHANGED faults,
         confirmed' \in [Accounts -> {0} \cup Keys]
  PROVE  /\ Types' /\ (\A j \in Slots : SlotInv(j)') /\ KeyInv' /\ Alone' /\ Moves(k)
         /\ ~ Idle(k)' /\ req'[k] = r /\ At(k)' = s
         /\ Busy(r.target) => r.target \in disturbed'
         /\ disturbed \cup spoilt \subseteq disturbed'
<1>1. /\ Idle(k) /\ ~ Idle(k)'
      /\ At(k)' = s /\ Tail(plan'[k]) = Rest(r.target, s)
      /\ req'[k] = r
      /\ plan' \in [Slots -> Plans]
      /\ req' \in [Slots -> Requests \cup {None}]
      /\ \A j \in Slots : j # k => plan'[j] = plan[j] /\ req'[j] = req[j]
      /\ disturbed' \subseteq Accounts \cup Lists \cup {"owner"}
      /\ disturbed \subseteq disturbed'
      /\ spoilt \subseteq disturbed'
      /\ Busy(r.target) => r.target \in disturbed'
      /\ made < MaxRequests /\ made' = made + 1
  BY BeginStep, Zenon
<1>2. made' \in 0 .. MaxRequests
  BY <1>1, ClientStoreAssumption DEF IInv, Types, OtherTypes
<1>3. /\ UNCHANGED <<accounts, madeFor, bound, lists, tokens, key, list, intended>>
  BY Zenon DEF storage
<1>4. faults' \in 0 .. MaxFaults
  BY FaultType, Zenon
<1>5. Types'
  <2>1. StoreTypes /\ ListTypes /\ OwnerTypes /\ SlotTypes
    BY Zenon DEF IInv, Types
  <2>2. StoreTypes'
    BY <1>3, <2>1, Zenon DEF StoreTypes
  <2>3. ListTypes' /\ OwnerTypes'
    BY <1>3, <2>1, Zenon DEF ListTypes, OwnerTypes
  <2>4. SlotTypes'
    BY <1>1, <1>3, <2>1, Zenon DEF SlotTypes
  <2>5. OtherTypes'
    BY <1>1, <1>2, <1>4, Zenon DEF OtherTypes
  <2>6. QED
    BY <2>2, <2>3, <2>4, <2>5, Zenon DEF Types
<1>6. Others(k)
  BY <1>1, <1>3, Zenon DEF Others
<1>7. SlotInv(k)'
  BY <1>1, Zenon DEF SlotInv
<1>8. \A j \in Slots : SlotInv(j)'
  BY <1>6, <1>7, SlotsKept, Zenon
<1>9. KeyInv'
  BY <1>1, <1>3, <1>6, KeysKept, Zenon
<1>10. Moves(k)
  BY <1>1, <1>6, Zenon DEF Moves
<1>11. Alone'
  BY <1>10, AloneKept, Zenon
<1>12. QED
  BY <1>1, <1>5, <1>8, <1>9, <1>10, <1>11, Zenon

(* A request goes on or ends. *)
LEMMA StepBasics ==
  ASSUME IInv, NEW k \in Slots, NEW s, ~ Idle(k), At(k) = s,
         (Do(k, s) /\ s # "load") \/ EndSlot(k),
         Succeeds \/ Fails(k), UNCHANGED made
  PROVE  /\ (\A j \in Slots : SlotInv(j)') /\ Alone' /\ SlotTypes' /\ Moves(k)
         /\ req[k] \in Requests /\ s \in StepsOf(req[k])
         /\ made' \in 0 .. MaxRequests
         /\ faults' \in 0 .. MaxFaults
         /\ disturbed' \subseteq Accounts \cup Lists \cup {"owner"}
         /\ key'[k] \in {0, key[k]}
         /\ Idle(k)' \/ (req'[k] = req[k] /\ key'[k] = key[k] /\ list'[k] = list[k])
         /\ Idle(k)' \/ plan'[k] = Rest(req[k].target, s)
         /\ Idle(k)' \/ At(k)' # "save"
         /\ Fails(k) => req[k].target \in disturbed'
<1>1. /\ SlotInv(k) /\ req[k] \in Requests /\ s \in StepsOf(req[k])
      /\ req[k].target \in Accounts \cup Lists \cup {"owner"}
  <2>1. SlotInv(k) /\ req[k] \in Requests /\ s \in StepsOf(req[k])
    BY Zenon DEF IInv, SlotInv
  <2>2. QED
    BY <2>1, RequestTarget, Zenon
<1>2. SlotTypes /\ OtherTypes
  BY Zenon DEF IInv, Types
<1>3. /\ disturbed \subseteq disturbed'
      /\ disturbed' \subseteq Accounts \cup Lists \cup {"owner"}
      /\ Fails(k) => req[k].target \in disturbed'
  BY <1>1, <1>2, Zenon DEF Succeeds, Fails, OtherTypes
<1>4. faults' \in 0 .. MaxFaults /\ made' \in 0 .. MaxRequests
  BY <1>2, FaultType, Zenon DEF Succeeds, Fails, OtherTypes
<1>5. ASSUME Do(k, s), s # "load"
      PROVE  /\ SlotTypes' /\ Others(k) /\ SlotInv(k)'
             /\ req'[k] = req[k] /\ key'[k] = key[k] /\ list'[k] = list[k]
             /\ plan'[k] = Rest(req[k].target, s)
             /\ Idle(k)' \/ At(k)' # "save"
  <2>1. /\ plan' \in [Slots -> Plans]
        /\ plan'[k] = Rest(req[k].target, s)
        /\ Others(k)
        /\ UNCHANGED <<req, key, list>>
    BY <1>5, DoStep, Zenon
  <2>2. SlotTypes'
    BY <1>2, <2>1, Zenon DEF SlotTypes
  <2>3. ASSUME ~ Idle(k)'
        PROVE  /\ At(k)' \in StepsOf(req[k]) /\ At(k)' # "save"
               /\ Tail(plan'[k]) = Rest(req[k].target, At(k)')
    <3>1. Rest(req[k].target, s) # <<>>
      BY <2>1, <2>3, Zenon DEF Idle
    <3>2. /\ Head(Rest(req[k].target, s)) \in StepsOf(req[k])
          /\ Tail(Rest(req[k].target, s)) =
                Rest(req[k].target, Head(Rest(req[k].target, s)))
          /\ Head(Rest(req[k].target, s)) # "save"
      BY <1>1, <1>5, <3>1, NextStepOf, Zenon
    <3>3. QED
      BY <2>1, <3>2, Zenon DEF At
  <2>4. SlotInv(k)'
    BY <1>1, <2>1, <2>3, Zenon DEF SlotInv
  <2>5. QED
    BY <2>1, <2>2, <2>3, <2>4, Zenon
<1>6. ASSUME EndSlot(k)
      PROVE  SlotTypes' /\ Others(k) /\ SlotInv(k)' /\ Idle(k)' /\ key'[k] = 0
  BY <1>6, EndStep, Zenon DEF SlotTypes, SlotInv
<1>7. SlotTypes' /\ Others(k) /\ SlotInv(k)'
  BY <1>5, <1>6, Zenon
<1>8. \A j \in Slots : SlotInv(j)'
  BY <1>7, SlotsKept, Zenon
<1>9. Moves(k)
  BY <1>3, <1>5, <1>6, Zenon DEF Moves
<1>10. Alone'
  BY <1>9, AloneKept, Zenon
<1>11. key'[k] \in {0, key[k]}
  BY <1>5, <1>6, Zenon
<1>12. QED
  BY <1>1, <1>3, <1>4, <1>5, <1>6, <1>7, <1>8, <1>9, <1>10, <1>11, Zenon

-----------------------------------------------------------------------------
(* Logins. *)

(* While the owner is not disturbed it is who is bound, whatever accounts  *)
(* there are.                                                              *)
LEMMA OwnerIsBound ==
  ASSUME IInv, "owner" \notin disturbed
  PROVE  owner = {bound}
<1>1. ASSUME NEW x \in keyIdentity PROVE x = bound
  <2>1. PICK a \in Accounts : Listed(a) /\ x = madeFor[accounts[a]["meta"]]
    BY <1>1, Zenon DEF keyIdentity
  <2>2. "meta" \in Parts
    BY Zenon DEF Parts
  <2>3. accounts[a]["meta"] \in Keys /\ madeFor[accounts[a]["meta"]] # None
    BY <2>1, <2>2, Zenon DEF IInv, Types, StoreTypes, Listed
  <2>4. \A n \in Keys : madeFor[n] \in {None, bound}
    BY Zenon DEF IInv, OwnerInv
  <2>5. QED
    BY <2>1, <2>3, <2>4, Zenon
<1>2. keyIdentity # {} => keyIdentity = {bound}
  BY <1>1, Zenon
<1>3. QED
  BY <1>2, Zenon DEF owner

LEMMA LoginPlans ==
  /\ <<"token">> \in Plans
  /\ <<"bind", "token">> \in Plans
<1>1. Rest("owner", "bind") = <<"token">>
  BY Zenon DEF Rest
<1>2. "bind" \in Steps /\ "owner" \in Accounts \cup Lists \cup {"owner"}
  BY Zenon DEF Steps
<1>3. <<"token">> \in Plans
  BY <1>1, <1>2, RestPlan, Zenon
<1>4. QED
  BY <1>3, Zenon DEF Plans

LEMMA LoginInv ==
  ASSUME IInv, NEW k \in Slots, NEW r \in Requests, authLogin(k, r)
  PROVE  IInv'
<1>1. r.op = "login" /\ r.target = "owner" /\ StepsOf(r) = {"bind", "token"}
  <2>1. r.op = "login"
    BY Zenon DEF authLogin
  <2>2. r.target = "owner"
    BY <2>1, RequestType, Zenon
  <2>3. StepsOf(r) = {"bind", "token"}
    BY <2>1, Zenon DEF StepsOf
  <2>4. QED
    BY <2>1, <2>2, <2>3, Zenon
<1>2. UNCHANGED <<storage, tokens, key, list, confirmed, intended>>
  BY Zenon DEF authLogin
<1>3. confirmed' \in [Accounts -> {0} \cup Keys]
  BY <1>2, Zenon DEF IInv, Types, OtherTypes
<1>4. PICK s \in {"bind", "token"}, steps \in Plans,
           spoilt \in SUBSET (Accounts \cup Lists \cup {"owner"}) :
         /\ Begin(k, r, steps, spoilt)
         /\ Starts(r.target, steps, s)
         /\ Fault \/ UNCHANGED faults
         /\ s = "token" => r.user \in owner
         /\ s = "bind" => owner = {None} \/ "owner" \in spoilt
  <2>1. {} \in SUBSET (Accounts \cup Lists \cup {"owner"})
    BY Zenon
  <2>2. {"owner"} \in SUBSET (Accounts \cup Lists \cup {"owner"})
    BY Zenon
  <2>3. CASE r.user \in owner /\ Begin(k, r, <<"token">>, {}) /\ UNCHANGED faults
    BY <2>1, <2>3, LoginPlans, PlanStarts, Zenon
  <2>4. CASE owner = {None} /\ Begin(k, r, <<"bind", "token">>, {}) /\ UNCHANGED faults
    BY <2>1, <2>4, LoginPlans, PlanStarts, Zenon
  <2>5. CASE Fault /\ Begin(k, r, <<"bind", "token">>, {"owner"})
    BY <2>2, <2>5, LoginPlans, PlanStarts, Zenon
  <2>6. QED
    BY <2>3, <2>4, <2>5, Zenon DEF authLogin
<1>5. /\ Types' /\ (\A j \in Slots : SlotInv(j)') /\ KeyInv' /\ Alone' /\ Moves(k)
      /\ req'[k] = r /\ At(k)' = s
      /\ disturbed \cup spoilt \subseteq disturbed'
  BY <1>1, <1>2, <1>3, <1>4, BeginBasics, Zenon
<1>6. UNCHANGED <<accounts, madeFor, bound, lists>>
  BY <1>2, Zenon DEF storage
<1>7. \A t \in Accounts \cup Lists : ~ On(k, t)'
  BY <1>1, <1>5, Targets, Zenon DEF On
<1>8. \A a \in Accounts : AccountInv(a)'
  BY <1>2, <1>5, <1>6, <1>7, AccountsKept, Zenon
<1>9. \A l \in Lists : ListInv(l)'
  BY <1>2, <1>5, <1>6, <1>7, ListsUnchanged, Zenon
<1>10. ASSUME "owner" \notin disturbed'
       PROVE  bound = IF At(k)' = "bind" THEN None ELSE req'[k].user
  <2>1. "owner" \notin disturbed /\ "owner" \notin spoilt
    BY <1>5, <1>10, Zenon
  <2>2. owner = {bound}
    BY <2>1, OwnerIsBound, Zenon
  <2>3. QED
    BY <1>4, <1>5, <2>1, <2>2, Zenon
<1>11. OwnerInv'
  BY <1>2, <1>5, <1>6, <1>10, OwnerUnchanged, Zenon
<1>12. QED
  BY <1>5, <1>8, <1>9, <1>11, Zenon DEF IInv

LEMMA BindInv ==
  ASSUME IInv, NEW k \in Slots, bindOwner(k)
  PROVE  IInv'
<1>1. /\ ~ Idle(k) /\ At(k) = "bind"
      /\ (Do(k, "bind") /\ "bind" # "load") \/ EndSlot(k)
      /\ Succeeds \/ Fails(k)
      /\ UNCHANGED <<accounts, madeFor, lists, tokens, made, confirmed, intended>>
      /\ (bound' = req[k].user /\ Do(k, "bind")) \/ (bound' = bound /\ EndSlot(k) /\ Fails(k))
  BY Zenon DEF bindOwner, Do, At
<1>2. /\ (\A j \in Slots : SlotInv(j)') /\ Alone' /\ SlotTypes' /\ Moves(k)
      /\ req[k] \in Requests /\ "bind" \in StepsOf(req[k])
      /\ made' \in 0 .. MaxRequests
      /\ faults' \in 0 .. MaxFaults
      /\ disturbed' \subseteq Accounts \cup Lists \cup {"owner"}
      /\ key'[k] \in {0, key[k]}
      /\ Idle(k)' \/ (req'[k] = req[k] /\ key'[k] = key[k] /\ list'[k] = list[k])
      /\ Idle(k)' \/ plan'[k] = Rest(req[k].target, "bind")
      /\ Fails(k) => req[k].target \in disturbed'
  BY <1>1, StepBasics, Zenon
<1>3. req[k].op = "login" /\ req[k].target = "owner" /\ req[k].user \in Users
  BY <1>2, StepOf, RequestType, Zenon
<1>4. Types'
  <2>1. StoreTypes /\ ListTypes /\ OwnerTypes /\ OtherTypes
    BY Zenon DEF IInv, Types
  <2>2. StoreTypes' /\ ListTypes'
    BY <1>1, <2>1, Zenon DEF StoreTypes, ListTypes
  <2>3. OwnerTypes'
    BY <1>1, <1>3, <2>1, Zenon DEF OwnerTypes
  <2>4. OtherTypes'
    BY <1>1, <1>2, <2>1, Zenon DEF OtherTypes
  <2>5. QED
    BY <1>2, <2>2, <2>3, <2>4, Zenon DEF Types
<1>5. KeyInv'
  BY <1>1, <1>2, KeysKept, Zenon DEF Moves
<1>6. \A t \in Accounts \cup Lists : ~ On(k, t)'
  BY <1>2, <1>3, Targets, Zenon DEF On
<1>7. \A a \in Accounts : AccountInv(a)'
  BY <1>1, <1>2, <1>6, AccountsKept, Zenon
<1>8. \A l \in Lists : ListInv(l)'
  BY <1>1, <1>2, <1>6, ListsUnchanged, Zenon
<1>9. OwnerInv'
  <2> SUFFICES ASSUME "owner" \notin disturbed' PROVE OwnerInv'
    BY Zenon DEF OwnerInv
  <2>1. Others(k) /\ "owner" \notin disturbed
    BY <1>2, Zenon DEF Moves
  <2>2. bound' = req[k].user /\ Do(k, "bind") /\ ~ Idle(k)'
    <3>1. bound' = req[k].user /\ Do(k, "bind")
      BY <1>1, <1>2, <1>3, Zenon
    <3>2. plan'[k] = Rest("owner", "bind")
      BY <1>3, <3>1, DoStep, Zenon
    <3>3. QED
      BY <3>1, <3>2, StepAfter, Zenon DEF After, Idle
  <2>3. At(k)' = "token"
    BY <1>2, <1>3, <2>2, StepAfter, ZenonT(30) DEF After, At
  <2>4. bound = None
    BY <1>1, <1>3, <2>1, Zenon DEF IInv, OwnerInv, On
  <2>5. \A n \in Keys : madeFor'[n] = None
    BY <1>1, <2>1, <2>4, Zenon DEF IInv, OwnerInv
  <2>6. tokens' = {}
    <3>1. tokens \subseteq {None} /\ tokens \subseteq Users
      BY <2>1, <2>4, Zenon DEF IInv, OwnerInv, Types, OwnerTypes
    <3>2. None \notin Users
      BY ClientStoreAssumption, Zenon
    <3>3. QED
      BY <1>1, <3>1, <3>2, Zenon
  <2>7. ASSUME NEW j \in Slots, j # k PROVE ~ On(j, "owner")'
    <3>1. On(k, "owner")
      BY <1>1, <1>3, Zenon DEF On
    <3>2. ~ On(j, "owner")
      BY <2>1, <2>7, <3>1, Zenon DEF IInv, Alone
    <3>3. QED
      BY <2>1, <2>7, <3>2, OnKept, Zenon
  <2>8. req'[k] = req[k]
    BY <1>2, <2>2, Zenon
  <2>9. QED
    BY <2>2, <2>3, <2>5, <2>6, <2>7, <2>8, Zenon DEF OwnerInv
<1>10. QED
  BY <1>2, <1>4, <1>5, <1>7, <1>8, <1>9, Zenon DEF IInv

LEMMA TokenInv ==
  ASSUME IInv, NEW k \in Slots, GenerateToken(k)
  PROVE  IInv'
<1>1. /\ ~ Idle(k) /\ At(k) = "token" /\ EndSlot(k) /\ Succeeds
      /\ tokens' = tokens \cup {req[k].user}
      /\ UNCHANGED <<accounts, madeFor, bound, lists, made, confirmed, intended>>
  BY Zenon DEF GenerateToken, At, Succeeds, storage, historyVars
<1>2. /\ (\A j \in Slots : SlotInv(j)') /\ Alone' /\ SlotTypes' /\ Moves(k)
      /\ req[k] \in Requests /\ "token" \in StepsOf(req[k])
      /\ made' \in 0 .. MaxRequests
      /\ faults' \in 0 .. MaxFaults
      /\ disturbed' \subseteq Accounts \cup Lists \cup {"owner"}
      /\ key'[k] \in {0, key[k]}
  BY <1>1, StepBasics, Zenon
<1>3. Idle(k)'
  BY <1>1, EndStep, Zenon
<1>4. req[k].op = "login" /\ req[k].target = "owner" /\ req[k].user \in Users
  BY <1>2, StepOf, RequestType, Zenon
<1>5. Types'
  <2>1. StoreTypes /\ ListTypes /\ OwnerTypes /\ OtherTypes
    BY Zenon DEF IInv, Types
  <2>2. StoreTypes' /\ ListTypes'
    BY <1>1, <2>1, Zenon DEF StoreTypes, ListTypes
  <2>3. OwnerTypes'
    BY <1>1, <1>4, <2>1, Zenon DEF OwnerTypes
  <2>4. OtherTypes'
    BY <1>1, <1>2, <2>1, Zenon DEF OtherTypes
  <2>5. QED
    BY <1>2, <2>2, <2>3, <2>4, Zenon DEF Types
<1>6. KeyInv'
  BY <1>1, <1>2, KeysKept, Zenon DEF Moves
<1>7. \A t : ~ On(k, t)'
  BY <1>3, Zenon DEF On
<1>8. \A a \in Accounts : AccountInv(a)'
  BY <1>1, <1>2, <1>7, AccountsKept, Zenon
<1>9. \A l \in Lists : ListInv(l)'
  BY <1>1, <1>2, <1>7, ListsUnchanged, Zenon
<1>10. OwnerInv'
  <2> SUFFICES ASSUME "owner" \notin disturbed' PROVE OwnerInv'
    BY Zenon DEF OwnerInv
  <2>1. Others(k) /\ "owner" \notin disturbed
    BY <1>2, Zenon DEF Moves
  <2>2. bound = req[k].user
    BY <1>1, <1>4, <2>1, Zenon DEF IInv, OwnerInv, On
  <2>3. ASSUME NEW j \in Slots PROVE ~ On(j, "owner")'
    <3>1. On(k, "owner")
      BY <1>1, <1>4, Zenon DEF On
    <3>2. j # k => ~ On(j, "owner")
      BY <2>1, <3>1, Zenon DEF IInv, Alone
    <3>3. QED
      BY <1>7, <2>1, <3>2, OnKept, Zenon
  <2>4. /\ \A n \in Keys : madeFor[n] \in {None, bound}
        /\ tokens \subseteq {bound}
    BY <2>1, Zenon DEF IInv, OwnerInv
  <2>5. QED
    BY <1>1, <2>2, <2>3, <2>4, Zenon DEF OwnerInv
<1>11. QED
  BY <1>2, <1>5, <1>6, <1>8, <1>9, <1>10, Zenon DEF IInv

-----------------------------------------------------------------------------
(* Exchanges and aliases. *)

LEMMA ListPlan ==
  /\ <<"load", "save", "confirm">> \in Plans
  /\ {} \in SUBSET (Accounts \cup Lists \cup {"owner"})
  BY Zenon DEF Plans

LEMMA ChangeInv ==
  ASSUME IInv, NEW k \in Slots, NEW r \in Requests, changeList(k, r)
  PROVE  IInv'
<1>1. /\ r.op \in {"upsert", "update"} /\ r.op # "keygen"
      /\ r.target \in Lists /\ "load" \in StepsOf(r)
  <2>1. r.op \in {"upsert", "update"}
    BY Zenon DEF changeList
  <2>2. r.target \in Lists
    BY <2>1, RequestType, Zenon
  <2>3. "load" \in StepsOf(r)
    BY <2>1, Zenon DEF StepsOf
  <2>4. QED
    BY <2>1, <2>2, <2>3, Zenon
<1>2. /\ UNCHANGED <<storage, tokens, key, list, confirmed, intended>>
      /\ Begin(k, r, <<"load", "save", "confirm">>, {})
      /\ Fault \/ UNCHANGED faults
  BY Zenon DEF changeList, ownerGuard
<1>3. confirmed' \in [Accounts -> {0} \cup Keys]
  BY <1>2, Zenon DEF IInv, Types, OtherTypes
<1>4. Starts(r.target, <<"load", "save", "confirm">>, "load")
  BY PlanStarts, Zenon
<1>5. /\ Types' /\ (\A j \in Slots : SlotInv(j)') /\ KeyInv' /\ Alone' /\ Moves(k)
      /\ req'[k] = r /\ At(k)' = "load"
  BY <1>1, <1>2, <1>3, <1>4, ListPlan, BeginBasics, Zenon
<1>6. UNCHANGED <<accounts, madeFor, bound, lists>>
  BY <1>2, Zenon DEF storage
<1>7. \A t \in Accounts \cup {"owner"} : ~ On(k, t)'
  BY <1>1, <1>5, Targets, Zenon DEF On
<1>8. \A a \in Accounts : AccountInv(a)'
  BY <1>2, <1>5, <1>6, <1>7, AccountsKept, Zenon
<1>9. \A l \in Lists : ListInv(l)'
  BY <1>2, <1>5, <1>6, ListsUnchanged, Zenon
<1>10. OwnerInv'
  BY <1>2, <1>5, <1>6, <1>7, OwnerUnchanged, Zenon
<1>11. QED
  BY <1>5, <1>8, <1>9, <1>10, Zenon DEF IInv

(* The list is loaded. *)
LEMMA LoadedInv ==
  ASSUME IInv, NEW k \in Slots, ~ Idle(k), At(k) = "load", NEW found \in Entries,
         plan' = [plan EXCEPT ![k] = Tail(@)],
         list' = [list EXCEPT ![k] = found],
         UNCHANGED <<req, key, storage, tokens, made, confirmed, intended>>,
         Succeeds \/ Fails(k),
         found = lists[req[k].target] \/ Fails(k)
  PROVE  IInv'
<1>1. /\ req[k] \in Requests /\ "load" \in StepsOf(req[k])
      /\ Tail(plan[k]) = Rest(req[k].target, "load")
  BY Zenon DEF IInv, SlotInv
<1>2. req[k].op \in {"upsert", "update"} /\ req[k].target \in Lists
  BY <1>1, StepOf, Zenon
<1>3. StoreTypes /\ ListTypes /\ OwnerTypes /\ SlotTypes /\ OtherTypes
  BY Zenon DEF IInv, Types
<1>4. UNCHANGED <<accounts, madeFor, bound, lists>>
  BY Zenon DEF storage
<1>5. /\ disturbed \subseteq disturbed'
      /\ disturbed' \subseteq Accounts \cup Lists \cup {"owner"}
      /\ Fails(k) => req[k].target \in disturbed'
      /\ faults' \in 0 .. MaxFaults
  BY <1>2, <1>3, FaultType, Zenon DEF Succeeds, Fails, OtherTypes
<1>6. Rest(req[k].target, "load") \in Plans
  BY <1>2, RestPlan, Zenon DEF Steps
<1>7. /\ plan' \in [Slots -> Plans]
      /\ plan'[k] = Rest(req[k].target, "load")
      /\ \A j \in Slots : j # k => plan'[j] = plan[j]
  <2>1. plan' = [plan EXCEPT ![k] = Rest(req[k].target, "load")]
    BY <1>1, <1>3, Zenon DEF SlotTypes
  <2>2. QED
    BY <1>3, <1>6, <2>1, Zenon DEF SlotTypes
<1>8. /\ list' \in [Slots -> Entries \cup {None}]
      /\ list'[k] = found
      /\ \A j \in Slots : j # k => list'[j] = list[j]
  BY <1>3, Zenon DEF SlotTypes
<1>9. Others(k) /\ Moves(k)
  BY <1>5, <1>7, <1>8, Zenon DEF Others, Moves
<1>10. Types'
  <2>1. StoreTypes' /\ ListTypes' /\ OwnerTypes'
    BY <1>3, <1>4, Zenon DEF StoreTypes, ListTypes, OwnerTypes
  <2>2. SlotTypes'
    BY <1>3, <1>7, <1>8, Zenon DEF SlotTypes
  <2>3. OtherTypes'
    BY <1>3, <1>5, Zenon DEF OtherTypes
  <2>4. QED
    BY <2>1, <2>2, <2>3, Zenon DEF Types
<1>11. /\ ~ Idle(k)' /\ At(k)' = "save"
       /\ Tail(plan'[k]) = Rest(req[k].target, "save")
  BY <1>7, StepAfter, ZenonT(30) DEF After, Idle, At
<1>12. SlotInv(k)'
  <2>1. "save" \in StepsOf(req[k]) /\ req[k].op # "keygen"
    BY <1>2, Zenon DEF StepsOf
  <2>2. QED
    BY <1>1, <1>8, <1>11, <2>1, Zenon DEF SlotInv
<1>13. \A j \in Slots : SlotInv(j)'
  BY <1>9, <1>12, SlotsKept, Zenon
<1>14. Alone'
  BY <1>9, AloneKept, Zenon
<1>15. KeyInv'
  BY <1>4, <1>9, KeysKept, Zenon
<1>16. \A t \in Accounts \cup {"owner"} : ~ On(k, t)'
  BY <1>2, Targets, Zenon DEF On
<1>17. \A a \in Accounts : AccountInv(a)'
  BY <1>4, <1>9, <1>16, AccountsKept, Zenon
<1>18. ASSUME NEW l \in Lists, On(k, l)', l \notin disturbed' PROVE list'[k] = lists[l]
  BY <1>5, <1>8, <1>18, Zenon DEF On
<1>19. \A l \in Lists : ListInv(l)'
  BY <1>4, <1>9, <1>18, ListsUnchanged, Zenon
<1>20. OwnerInv'
  BY <1>4, <1>9, <1>16, OwnerUnchanged, Zenon
<1>21. QED
  BY <1>10, <1>13, <1>14, <1>15, <1>17, <1>19, <1>20, Zenon DEF IInv

(* A request on a list ends, or goes on after a save. *)
LEMMA ListStepInv ==
  ASSUME IInv, NEW k \in Slots, NEW s \in {"load", "save"}, ~ Idle(k), At(k) = s,
         (Do(k, s) /\ s # "load") \/ EndSlot(k), Succeeds \/ Fails(k),
         UNCHANGED <<accounts, madeFor, bound, tokens, made, confirmed>>,
         lists' \in [Lists -> Entries], intended' \in [Lists -> Entries],
         \A l \in Lists : l # req[k].target =>
            lists'[l] = lists[l] /\ intended'[l] = intended[l],
         req[k].target \notin disturbed' =>
            lists'[req[k].target] = intended'[req[k].target]
  PROVE  IInv'
<1>1. /\ (\A j \in Slots : SlotInv(j)') /\ Alone' /\ SlotTypes' /\ Moves(k)
      /\ req[k] \in Requests /\ s \in StepsOf(req[k])
      /\ made' \in 0 .. MaxRequests
      /\ faults' \in 0 .. MaxFaults
      /\ disturbed' \subseteq Accounts \cup Lists \cup {"owner"}
      /\ key'[k] \in {0, key[k]}
      /\ Idle(k)' \/ req'[k] = req[k]
      /\ Idle(k)' \/ At(k)' # "save"
  BY StepBasics, Zenon
<1>2. req[k].target \in Lists
  BY <1>1, StepOf, Zenon
<1>3. Types'
  <2>1. StoreTypes /\ OwnerTypes /\ OtherTypes
    BY Zenon DEF IInv, Types
  <2>2. StoreTypes' /\ OwnerTypes'
    BY <2>1, Zenon DEF StoreTypes, OwnerTypes
  <2>3. ListTypes'
    BY Zenon DEF ListTypes
  <2>4. OtherTypes'
    BY <1>1, <2>1, Zenon DEF OtherTypes
  <2>5. QED
    BY <1>1, <2>2, <2>3, <2>4, Zenon DEF Types
<1>4. KeyInv'
  BY <1>1, KeysKept, Zenon DEF Moves
<1>5. \A t \in Accounts \cup {"owner"} : ~ On(k, t)'
  BY <1>1, <1>2, Targets, Zenon DEF On
<1>6. \A a \in Accounts : AccountInv(a)'
  BY <1>1, <1>5, AccountsKept, Zenon
<1>7. OwnerInv'
  BY <1>1, <1>5, OwnerUnchanged, Zenon
<1>8. ASSUME NEW l \in Lists PROVE ListInv(l)'
  <2> SUFFICES ASSUME l \notin disturbed' PROVE ListInv(l)'
    BY Zenon DEF ListInv
  <2>1. Others(k) /\ l \notin disturbed
    BY <1>1, Zenon DEF Moves
  <2>2. /\ lists[l] = intended[l]
        /\ \A j \in Slots : On(j, l) /\ At(j) = "save" => list[j] = lists[l]
    BY <2>1, Zenon DEF IInv, ListInv
  <2>3. ASSUME NEW j \in Slots, On(j, l)', At(j)' = "save" PROVE list'[j] = lists'[l]
    <3>1. j # k
      BY <1>1, <2>3, Zenon DEF On
    <3>2. On(j, l) /\ At(j) = "save" /\ list'[j] = list[j]
      BY <2>1, <2>3, <3>1, OnKept, Zenon DEF Others
    <3>3. ~ On(k, l)
      BY <2>1, <3>1, <3>2, Zenon DEF IInv, Alone
    <3>4. l # req[k].target
      BY <3>3, Zenon DEF On
    <3>5. QED
      BY <2>2, <3>2, <3>4, Zenon
  <2>4. lists'[l] = intended'[l]
    BY <2>2, Zenon
  <2>5. QED
    BY <2>3, <2>4, Zenon DEF ListInv
<1>9. QED
  BY <1>1, <1>3, <1>4, <1>6, <1>7, <1>8, Zenon DEF IInv

LEMMA LoadInv ==
  ASSUME IInv, NEW k \in Slots, loadList(k)
  PROVE  IInv'
<1>1. /\ ~ Idle(k) /\ At(k) = "load"
      /\ UNCHANGED <<storage, tokens, made, confirmed, intended>>
      /\ \/ \E found \in {lists[req[k].target], NoEntries} :
              /\ plan' = [plan EXCEPT ![k] = Tail(@)]
              /\ list' = [list EXCEPT ![k] = found]
              /\ UNCHANGED <<req, key>>
              /\ Succeeds \/ Fails(k)
              /\ found = lists[req[k].target] \/ Fails(k)
         \/ EndSlot(k) /\ Fails(k)
  BY Zenon DEF loadList, At
<1>2. req[k].target \in Lists
  <2>1. req[k] \in Requests /\ "load" \in StepsOf(req[k])
    BY <1>1, Zenon DEF IInv, SlotInv
  <2>2. QED
    BY <2>1, StepOf, Zenon
<1>3. ListTypes
  BY Zenon DEF IInv, Types
<1>4. lists[req[k].target] \in Entries /\ NoEntries \in Entries
  BY <1>2, <1>3, Zenon DEF ListTypes, NoEntries, Entries
<1>5. CASE EndSlot(k) /\ Fails(k)
  <2>1. /\ UNCHANGED <<accounts, madeFor, bound, lists, intended>>
        /\ lists' \in [Lists -> Entries] /\ intended' \in [Lists -> Entries]
    BY <1>1, <1>3, Zenon DEF storage, ListTypes
  <2>2. req[k].target \in disturbed'
    BY <1>5, Zenon DEF Fails
  <2>3. QED
    BY <1>1, <1>5, <2>1, <2>2, ListStepInv, Zenon
<1>6. CASE ~ (EndSlot(k) /\ Fails(k))
  BY <1>1, <1>4, <1>6, LoadedInv, Zenon
<1>7. QED
  BY <1>5, <1>6, Zenon

LEMMA SaveInv ==
  ASSUME IInv, NEW k \in Slots, saveList(k)
  PROVE  IInv'
<1> DEFINE r == req[k]
           l == req[k].target
<1>1. /\ ~ Idle(k) /\ At(k) = "save"
      /\ UNCHANGED <<accounts, madeFor, bound, tokens, made, confirmed>>
  BY Zenon DEF saveList, At
<1>2. \/ EndSlot(k) /\ Succeeds /\ UNCHANGED <<lists, intended>>
      \/ Do(k, "save") /\ Succeeds /\ lists' = [lists EXCEPT ![l] = changed(r, list[k])]
            /\ intended' = [intended EXCEPT ![l][r.id] = r.value]
      \/ (EndSlot(k) \/ Do(k, "save")) /\ Fails(k) /\ UNCHANGED <<lists, intended>>
  BY Zenon DEF saveList
<1>3. /\ r \in Requests /\ "save" \in StepsOf(r) /\ list[k] \in Entries
  BY <1>1, Zenon DEF IInv, SlotInv
<1>4. r.op \in {"upsert", "update"} /\ l \in Lists
  BY <1>3, StepOf, Zenon
<1>5. r.id \in Ids /\ r.value \in Values \cup {None}
  BY <1>3, <1>4, RequestType, Zenon
<1>6. lists \in [Lists -> Entries] /\ intended \in [Lists -> Entries]
  BY Zenon DEF IInv, Types, ListTypes
<1>7. l \notin disturbed => lists[l] = intended[l] /\ list[k] = lists[l]
  BY <1>1, <1>4, Zenon DEF IInv, ListInv, On
<1>8. CASE UNCHANGED <<lists, intended>> /\ EndSlot(k) /\ Succeeds
  <2>1. l \notin disturbed' => lists'[l] = intended'[l]
    BY <1>7, <1>8, Zenon DEF Succeeds
  <2>2. QED
    BY <1>1, <1>6, <1>8, <2>1, ListStepInv, Zenon
<1>9. CASE UNCHANGED <<lists, intended>> /\ (EndSlot(k) \/ Do(k, "save")) /\ Fails(k)
  <2>1. l \in disturbed'
    BY <1>9, Zenon DEF Fails
  <2>2. (Do(k, "save") /\ "save" # "load") \/ EndSlot(k)
    BY <1>9, Zenon
  <2>3. QED
    BY <1>1, <1>6, <1>9, <2>1, <2>2, ListStepInv, Zenon
<1>10. CASE /\ Do(k, "save") /\ Succeeds
            /\ lists' = [lists EXCEPT ![l] = changed(r, list[k])]
            /\ intended' = [intended EXCEPT ![l][r.id] = r.value]
  <2>1. changed(r, list[k]) \in Entries
    BY <1>3, <1>5, Zenon DEF changed, Entries
  <2>2. /\ lists' \in [Lists -> Entries]
        /\ lists'[l] = changed(r, list[k])
        /\ \A x \in Lists : x # l => lists'[x] = lists[x]
    BY <1>4, <1>6, <1>10, <2>1, Zenon
  <2>3. [intended[l] EXCEPT ![r.id] = r.value] \in Entries
    <3>1. intended[l] \in Entries
      BY <1>4, <1>6, Zenon
    <3>2. QED
      BY <1>5, <3>1, Zenon DEF Entries
  <2>4. intended' = [intended EXCEPT ![l] = [intended[l] EXCEPT ![r.id] = r.value]]
    BY <1>4, <1>6, <1>10, Zenon
  <2>5. /\ intended' \in [Lists -> Entries]
        /\ intended'[l] = [intended[l] EXCEPT ![r.id] = r.value]
        /\ \A x \in Lists : x # l => intended'[x] = intended[x]
    BY <1>4, <1>6, <2>3, <2>4, Zenon
  <2>6. l \notin disturbed' => lists'[l] = intended'[l]
    BY <1>7, <1>10, <2>2, <2>5, Zenon DEF Succeeds, changed
  <2>7. (Do(k, "save") /\ "save" # "load") \/ EndSlot(k)
    BY <1>10, Zenon
  <2>8. QED
    BY <1>1, <1>10, <2>2, <2>5, <2>6, <2>7, ListStepInv, Zenon
<1>11. QED
  BY <1>2, <1>8, <1>9, <1>10, Zenon

-----------------------------------------------------------------------------
(* Accounts. *)

(* A request on account a begins. *)
LEMMA AccountBegin ==
  ASSUME IInv, NEW k \in Slots, Moves(k), NEW a \in Accounts, req'[k].target = a,
         Busy(a) => a \in disturbed', UNCHANGED accounts, Idle(k),
         \A b \in Accounts : b # a => confirmed'[b] = confirmed[b],
         a \notin disturbed' => WholeAccount(a)' /\ Reached(k, a)'
  PROVE  \A b \in Accounts : AccountInv(b)'
<1> SUFFICES ASSUME NEW b \in Accounts, b \notin disturbed'
             PROVE  /\ WholeAccount(b)'
                    /\ \A j \in Slots : On(j, b)' => Reached(j, b)'
  BY Zenon DEF AccountInv
<1>1. Others(k) /\ b \notin disturbed
  BY Zenon DEF Moves
<1>2. WholeAccount(b) /\ \A j \in Slots : On(j, b) => Reached(j, b)
  BY <1>1, Zenon DEF IInv, AccountInv
<1>3. CASE b = a
  <2>1. ASSUME NEW j \in Slots, j # k, On(j, b)' PROVE FALSE
    <3>1. On(j, a)
      BY <1>1, <1>3, <2>1, OnKept, Zenon
    <3>2. QED
      BY <1>3, <3>1, Zenon DEF Busy, On
  <2>2. QED
    BY <1>3, <2>1, Zenon
<1>4. CASE b # a
  <2>1. confirmed'[b] = confirmed[b]
    BY <1>4, Zenon
  <2>2. WholeAccount(b)'
    BY <1>2, <2>1, Zenon DEF WholeAccount, Listed
  <2>3. ~ On(k, b)'
    BY <1>4, Zenon DEF On
  <2>4. ASSUME NEW j \in Slots, j # k, On(j, b)' PROVE Reached(j, b)'
    <3>1. On(j, b) /\ At(j)' = At(j)
      BY <1>1, <2>4, OnKept, Zenon
    <3>2. Reached(j, b) /\ req'[j] = req[j] /\ key'[j] = key[j]
      BY <1>1, <1>2, <2>4, <3>1, Zenon DEF Others
    <3>3. QED
      BY <2>1, <3>1, <3>2, Zenon DEF Reached
  <2>5. QED
    BY <2>2, <2>3, <2>4, Zenon
<1>5. QED
  BY <1>3, <1>4, Zenon

LEMMA DeletePlan ==
  /\ deletePlan \in Plans
  /\ {} \in SUBSET (Accounts \cup Lists \cup {"owner"})
  BY Zenon DEF Plans

LEMMA DeleteInv ==
  ASSUME IInv, NEW k \in Slots, NEW r \in Requests, deleteAccount(k, r)
  PROVE  IInv'
<1> DEFINE a == r.target
<1>1. /\ r.op = "delete" /\ r.op # "keygen"
      /\ a \in Accounts /\ "deleteMeta" \in StepsOf(r)
  <2>1. r.op = "delete"
    BY Zenon DEF deleteAccount
  <2>2. a \in Accounts
    BY <2>1, RequestType, Zenon
  <2>3. "deleteMeta" \in StepsOf(r)
    BY <2>1, Zenon DEF StepsOf
  <2>4. QED
    BY <2>1, <2>2, <2>3, Zenon
<1>2. /\ UNCHANGED <<storage, tokens, key, list, intended>>
      /\ confirmed' = [confirmed EXCEPT ![a] = 0]
      /\ Begin(k, r, deletePlan, {})
      /\ Fault \/ UNCHANGED faults
  BY Zenon DEF deleteAccount, ownerGuard
<1>3. /\ confirmed' \in [Accounts -> {0} \cup Keys]
      /\ confirmed'[a] = 0
      /\ \A b \in Accounts : b # a => confirmed'[b] = confirmed[b]
  <2>1. confirmed \in [Accounts -> {0} \cup Keys]
    BY Zenon DEF IInv, Types, OtherTypes
  <2>2. QED
    BY <1>1, <1>2, <2>1, Zenon
<1>4. Starts(r.target, deletePlan, "deleteMeta")
  BY PlanStarts, Zenon
<1>5. Idle(k)
  BY <1>2, Zenon DEF Begin
<1>6. /\ Types' /\ (\A j \in Slots : SlotInv(j)') /\ KeyInv' /\ Alone' /\ Moves(k)
      /\ req'[k] = r /\ At(k)' = "deleteMeta"
      /\ Busy(a) => a \in disturbed'
  BY <1>1, <1>2, <1>3, <1>4, DeletePlan, BeginBasics, Zenon
<1>7. UNCHANGED <<accounts, madeFor, bound, lists>>
  BY <1>2, Zenon DEF storage
<1>8. \A t \in Lists \cup {"owner"} : ~ On(k, t)'
  BY <1>1, <1>6, Targets, Zenon DEF On
<1>9. a \notin disturbed' => WholeAccount(a)' /\ Reached(k, a)'
  <2> SUFFICES ASSUME a \notin disturbed' PROVE WholeAccount(a)' /\ Reached(k, a)'
    BY Zenon
  <2>1. WholeAccount(a)
    BY <1>1, <1>6, Zenon DEF IInv, AccountInv, Moves
  <2>2. WholeAccount(a)'
    BY <1>3, <1>7, <2>1, Zenon DEF WholeAccount, Listed
  <2>3. Reached(k, a)'
    BY <1>1, <1>3, <1>6, Zenon DEF Reached
  <2>4. QED
    BY <2>2, <2>3, Zenon
<1>10. \A b \in Accounts : AccountInv(b)'
  BY <1>1, <1>3, <1>5, <1>6, <1>7, <1>9, AccountBegin, Zenon
<1>11. \A l \in Lists : ListInv(l)'
  BY <1>2, <1>6, <1>7, <1>8, ListsUnchanged, Zenon
<1>12. OwnerInv'
  BY <1>2, <1>6, <1>7, <1>8, OwnerUnchanged, Zenon
<1>13. QED
  BY <1>6, <1>10, <1>11, <1>12, Zenon DEF IInv

LEMMA KeygenInv ==
  ASSUME IInv, NEW k \in Slots, NEW r \in Requests, Keygen(k, r)
  PROVE  IInv'
<1> DEFINE a == r.target
           n == made + 1
           spoilt == (IF Listed(a) THEN {a} ELSE {})
                     \cup (IF r.id # r.user THEN {"owner"} ELSE {})
<1>1. /\ r.op = "keygen" /\ a \in Accounts /\ "conf" \in StepsOf(r) /\ r.id \in Users
  <2>1. r.op = "keygen"
    BY Zenon DEF Keygen
  <2>2. a \in Accounts /\ r.id \in Users
    BY <2>1, RequestType, Zenon
  <2>3. "conf" \in StepsOf(r)
    BY <2>1, Zenon DEF StepsOf, PartsOf, Parts
  <2>4. QED
    BY <2>1, <2>2, <2>3, Zenon
<1>2. /\ r.user \in tokens
      /\ Fault \/ UNCHANGED faults
      /\ Begin(k, r, keygenPlan(a), spoilt)
      /\ key' = [key EXCEPT ![k] = n]
      /\ madeFor' = [madeFor EXCEPT ![n] = r.id]
      /\ UNCHANGED <<accounts, bound, lists, tokens, list, confirmed, intended>>
  BY Zenon DEF Keygen, ownerGuard
<1>3. spoilt \in SUBSET (Accounts \cup Lists \cup {"owner"})
  BY <1>1, Zenon
<1>4. keygenPlan(a) \in Plans
  BY <1>1, Zenon DEF Plans
<1>5. Starts(a, keygenPlan(a), "conf")
  BY PlanStarts, Zenon
<1> HIDE DEF spoilt
<1>6. /\ Idle(k) /\ ~ Idle(k)'
      /\ At(k)' = "conf" /\ Tail(plan'[k]) = Rest(a, "conf")
      /\ req'[k] = r
      /\ plan' \in [Slots -> Plans]
      /\ req' \in [Slots -> Requests \cup {None}]
      /\ \A j \in Slots : j # k => plan'[j] = plan[j] /\ req'[j] = req[j]
      /\ disturbed' \subseteq Accounts \cup Lists \cup {"owner"}
      /\ disturbed \subseteq disturbed'
      /\ spoilt \subseteq disturbed'
      /\ Busy(a) => a \in disturbed'
      /\ made < MaxRequests /\ made' = made + 1
  BY <1>2, <1>3, <1>4, <1>5, BeginStep, Zenon
<1>7. /\ n \in Keys /\ n # 0 /\ made' = n /\ made' \in 0 .. MaxRequests
      /\ \A x \in {0} \cup Keys : x <= made => x <= made' /\ x # n
  BY <1>6, ClientStoreAssumption DEF IInv, Types, OtherTypes, Keys
<1>8. n <= n
  BY ClientStoreAssumption DEF IInv, Types, OtherTypes
<1> HIDE DEF n
<1>9. StoreTypes /\ ListTypes /\ OwnerTypes /\ SlotTypes /\ OtherTypes
  BY Zenon DEF IInv, Types
<1>10. None \notin Users
  BY ClientStoreAssumption, Zenon
<1>11. /\ madeFor' \in [Keys -> Users \cup {None}]
       /\ madeFor'[n] = r.id
       /\ \A x \in Keys : x # n => madeFor'[x] = madeFor[x]
       /\ \A x \in Keys : madeFor[x] # None => madeFor'[x] # None
  <2>1. madeFor \in [Keys -> Users \cup {None}]
    BY <1>9, Zenon DEF StoreTypes
  <2>2. madeFor' \in [Keys -> Users \cup {None}]
    BY <1>1, <1>2, <2>1, Zenon
  <2>3. /\ madeFor'[n] = r.id
        /\ \A x \in Keys : x # n => madeFor'[x] = madeFor[x]
    BY <1>2, <1>7, <2>1, Zenon
  <2>4. QED
    BY <1>1, <1>10, <2>2, <2>3, Zenon
<1>12. /\ key' \in [Slots -> {0} \cup Keys] /\ key'[k] = n
       /\ \A j \in Slots : j # k => key'[j] = key[j]
  BY <1>2, <1>7, <1>9, Zenon DEF SlotTypes
<1>13. Types'
  <2>1. StoreTypes'
    <3>1. ASSUME NEW x \in Accounts, NEW p \in Parts, accounts[x][p] # 0
          PROVE  madeFor'[accounts[x][p]] # None
      <4>1. accounts[x][p] \in Keys /\ madeFor[accounts[x][p]] # None
        BY <1>9, <3>1, Zenon DEF StoreTypes
      <4>2. QED
        BY <1>11, <4>1, Zenon
    <3>2. /\ accounts' = accounts
          /\ accounts \in [Accounts -> [Parts -> {0} \cup Keys]]
          /\ \A x \in FROSTAccounts : accounts[x]["presig"] = 0
      BY <1>2, <1>9, Zenon DEF StoreTypes
    <3>3. QED
      BY <1>11, <3>1, <3>2, Zenon DEF StoreTypes
  <2>2. ListTypes' /\ OwnerTypes'
    BY <1>2, <1>9, Zenon DEF ListTypes, OwnerTypes
  <2>3. SlotTypes'
    BY <1>2, <1>6, <1>9, <1>12, Zenon DEF SlotTypes
  <2>4. faults' \in 0 .. MaxFaults
    BY <1>2, FaultType, Zenon
  <2>5. OtherTypes'
    BY <1>2, <1>6, <1>7, <1>9, <2>4, Zenon DEF OtherTypes
  <2>6. QED
    BY <2>1, <2>2, <2>3, <2>5, Zenon DEF Types
<1>14. Others(k) /\ Moves(k)
  BY <1>2, <1>6, <1>12, Zenon DEF Others, Moves
<1>15. SlotInv(k)'
  BY <1>1, <1>6, <1>7, <1>12, Zenon DEF SlotInv
<1>16. \A j \in Slots : SlotInv(j)'
  BY <1>14, <1>15, SlotsKept, Zenon
<1>17. Alone'
  BY <1>14, AloneKept, Zenon
<1>18. KeyInv'
  <2>1. ASSUME NEW x \in Accounts, NEW p \in Parts PROVE accounts'[x][p] <= made'
    <3>1. accounts[x][p] \in {0} \cup Keys /\ accounts[x][p] <= made
      BY <1>9, Zenon DEF StoreTypes, IInv, KeyInv
    <3>2. QED
      BY <1>2, <1>7, <3>1, Zenon
  <2>2. ASSUME NEW j \in Slots
        PROVE  key'[j] <= made' /\ (key'[j] # 0 => madeFor'[key'[j]] # None)
    <3>1. CASE j = k
      BY <1>1, <1>7, <1>8, <1>10, <1>11, <1>12, <3>1, Zenon
    <3>2. CASE j # k
      <4>1. /\ key[j] \in {0} \cup Keys /\ key[j] <= made
            /\ key[j] # 0 => madeFor[key[j]] # None
        BY <1>9, Zenon DEF SlotTypes, IInv, KeyInv
      <4>2. QED
        BY <1>7, <1>11, <1>12, <3>2, <4>1, Zenon
    <3>3. QED
      BY <3>1, <3>2, Zenon
  <2>3. QED
    BY <2>1, <2>2, Zenon DEF KeyInv
<1>19. a \notin disturbed' => WholeAccount(a)' /\ Reached(k, a)'
  <2> SUFFICES ASSUME a \notin disturbed' PROVE WholeAccount(a)' /\ Reached(k, a)'
    BY Zenon
  <2>1. WholeAccount(a)
    BY <1>1, <1>6, Zenon DEF IInv, AccountInv
  <2>2. accounts[a]["meta"] = 0
    BY <1>6, Zenon DEF spoilt, Listed
  <2>3. confirmed[a] = 0
    BY <2>1, <2>2, Zenon DEF WholeAccount
  <2>4. WholeAccount(a)'
    BY <1>2, <2>2, <2>3, Zenon DEF WholeAccount, Listed
  <2>5. Saved("conf") = {}
    BY Zenon DEF Saved
  <2>6. Reached(k, a)'
    BY <1>1, <1>2, <1>6, <2>2, <2>3, <2>5, Zenon DEF Reached
  <2>7. QED
    BY <2>4, <2>6, Zenon
<1>20. \A b \in Accounts : AccountInv(b)'
  BY <1>1, <1>2, <1>6, <1>14, <1>19, AccountBegin, Zenon
<1>21. \A t \in Lists \cup {"owner"} : ~ On(k, t)'
  BY <1>1, <1>6, Targets, Zenon DEF On
<1>22. \A l \in Lists : ListInv(l)'
  BY <1>2, <1>14, <1>21, ListsUnchanged, Zenon
<1>23. OwnerInv'
  <2> SUFFICES ASSUME "owner" \notin disturbed' PROVE OwnerInv'
    BY Zenon DEF OwnerInv
  <2>1. "owner" \notin disturbed /\ r.id = r.user
    BY <1>6, Zenon DEF spoilt
  <2>2. /\ \A x \in Keys : madeFor[x] \in {None, bound}
        /\ tokens \subseteq {bound}
        /\ \A j \in Slots : On(j, "owner") =>
              bound = IF At(j) = "bind" THEN None ELSE req[j].user
    BY <2>1, Zenon DEF IInv, OwnerInv
  <2>3. r.id = bound
    BY <1>2, <2>1, <2>2, Zenon
  <2>4. \A x \in Keys : madeFor'[x] \in {None, bound}
    BY <1>11, <2>2, <2>3, Zenon
  <2>5. ASSUME NEW j \in Slots, On(j, "owner")'
        PROVE  bound = IF At(j)' = "bind" THEN None ELSE req'[j].user
    <3>1. j # k
      BY <1>21, <2>5, Zenon
    <3>2. On(j, "owner") /\ At(j)' = At(j) /\ req'[j] = req[j]
      BY <1>14, <2>5, <3>1, OnKept, Zenon DEF Others
    <3>3. QED
      BY <2>2, <3>2, Zenon
  <2>6. QED
    BY <1>2, <2>2, <2>4, <2>5, Zenon DEF OwnerInv
<1>24. QED
  BY <1>13, <1>16, <1>17, <1>18, <1>20, <1>22, <1>23, Zenon DEF IInv

(* A part of an account is set. *)
SetPart(a, p, n) == [accounts EXCEPT ![a][p] = n]

LEMMA PartSet ==
  ASSUME StoreTypes, KeyInv, NEW a \in Accounts, NEW p \in Parts,
         NEW n \in {0} \cup Keys,
         n # 0 => madeFor[n] # None /\ p \in PartsOf(a),
         accounts' = SetPart(a, p, n), UNCHANGED madeFor
  PROVE  /\ StoreTypes'
         /\ accounts'[a][p] = n
         /\ \A q \in Parts : q # p => accounts'[a][q] = accounts[a][q]
         /\ \A b \in Accounts : b # a => accounts'[b] = accounts[b]
<1> DEFINE row == [accounts[a] EXCEPT ![p] = n]
<1>1. accounts \in [Accounts -> [Parts -> {0} \cup Keys]]
  BY Zenon DEF StoreTypes
<1>2. accounts[a] \in [Parts -> {0} \cup Keys]
  BY <1>1, Zenon
<1>3. /\ row \in [Parts -> {0} \cup Keys] /\ row[p] = n
      /\ \A q \in Parts : q # p => row[q] = accounts[a][q]
  BY <1>2, Zenon
<1>4. accounts' = [accounts EXCEPT ![a] = row]
  BY <1>1, Zenon DEF SetPart
<1> HIDE DEF row
<1>5. /\ accounts' \in [Accounts -> [Parts -> {0} \cup Keys]]
      /\ accounts'[a] = row
      /\ \A b \in Accounts : b # a => accounts'[b] = accounts[b]
  BY <1>1, <1>3, <1>4, Zenon
<1>6. ASSUME NEW b \in FROSTAccounts PROVE accounts'[b]["presig"] = 0
  <2>1. b \in Accounts /\ b \notin ECDSAAccounts
    BY ClientStoreAssumption, Zenon DEF Accounts
  <2>2. b = a /\ p = "presig" => n = 0
    BY <2>1, Zenon DEF PartsOf
  <2>3. accounts[b]["presig"] = 0 /\ "presig" \in Parts
    BY Zenon DEF StoreTypes, Parts
  <2>4. QED
    BY <1>3, <1>5, <2>1, <2>2, <2>3, ZenonT(30)
<1>7. ASSUME NEW b \in Accounts, NEW q \in Parts, accounts'[b][q] # 0
      PROVE  madeFor'[accounts'[b][q]] # None
  <2>1. CASE b = a /\ q = p
    BY <1>3, <1>5, <1>7, <2>1, Zenon
  <2>2. CASE ~ (b = a /\ q = p)
    <3>1. accounts'[b][q] = accounts[b][q]
      <4>1. CASE b = a
        BY <1>3, <1>5, <2>2, <4>1, Zenon
      <4>2. CASE b # a
        BY <1>5, <4>2, Zenon
      <4>3. QED
        BY <4>1, <4>2, Zenon
    <3>2. QED
      BY <1>7, <3>1, Zenon DEF StoreTypes
  <2>3. QED
    BY <2>1, <2>2, Zenon
<1>8. madeFor' \in [Keys -> Users \cup {None}]
  BY Zenon DEF StoreTypes
<1>9. StoreTypes'
  BY <1>5, <1>6, <1>7, <1>8, Zenon DEF StoreTypes
<1>10. QED
  BY <1>3, <1>5, <1>9, Zenon

(* A step on a part of the account of a request. *)
LEMMA PartInv ==
  ASSUME IInv, NEW k \in Slots, NEW s \in Steps, ~ Idle(k), At(k) = s,
         s # "load", Do(k, s) \/ EndSlot(k), Succeeds \/ Fails(k),
         UNCHANGED <<madeFor, bound, lists, tokens, made, confirmed, intended>>,
         NEW a \in Accounts, req[k].target = a, NEW p \in Parts,
         NEW n, n \in {0, key[k]}, n # 0 => p \in PartsOf(a),
         accounts' = SetPart(a, p, n) \/ UNCHANGED accounts,
         a \notin disturbed' => WholeAccount(a)' /\ (On(k, a)' => Reached(k, a)')
  PROVE  IInv'
<1>1. (Do(k, s) /\ s # "load") \/ EndSlot(k)
  BY Zenon
<1>2. /\ (\A j \in Slots : SlotInv(j)') /\ Alone' /\ SlotTypes' /\ Moves(k)
      /\ made' \in 0 .. MaxRequests
      /\ faults' \in 0 .. MaxFaults
      /\ disturbed' \subseteq Accounts \cup Lists \cup {"owner"}
      /\ key'[k] \in {0, key[k]}
      /\ Idle(k)' \/ req'[k] = req[k]
  BY <1>1, StepBasics
<1>3. StoreTypes /\ ListTypes /\ OwnerTypes /\ OtherTypes /\ KeyInv
  BY Zenon DEF IInv, Types
<1>4. n \in {0} \cup Keys /\ n <= made /\ (n # 0 => madeFor[n] # None)
  <2>1. key[k] \in {0} \cup Keys /\ key[k] <= made /\ (key[k] # 0 => madeFor[key[k]] # None)
    BY Zenon DEF IInv, Types, SlotTypes, KeyInv
  <2>2. 0 <= made
    BY <1>3, ClientStoreAssumption DEF OtherTypes
  <2>3. QED
    BY <2>1, <2>2, Zenon
<1>5. /\ StoreTypes'
      /\ \A b \in Accounts : b # a => accounts'[b] = accounts[b]
      /\ \A b \in Accounts, q \in Parts : accounts'[b][q] \in {n, accounts[b][q]}
  <2>1. CASE accounts' = SetPart(a, p, n)
    <3>1. UNCHANGED madeFor
      BY Zenon
    <3>2. /\ StoreTypes'
          /\ accounts'[a][p] = n
          /\ \A q \in Parts : q # p => accounts'[a][q] = accounts[a][q]
          /\ \A b \in Accounts : b # a => accounts'[b] = accounts[b]
      BY <1>3, <1>4, <2>1, <3>1, PartSet, Zenon
    <3>3. QED
      BY <3>2, Zenon
  <2>2. CASE UNCHANGED accounts
    BY <1>3, <2>2, Zenon DEF StoreTypes
  <2>3. QED
    BY <2>1, <2>2, Zenon
<1>6. Types'
  <2>1. ListTypes' /\ OwnerTypes'
    BY <1>3, Zenon DEF ListTypes, OwnerTypes
  <2>2. OtherTypes'
    BY <1>2, <1>3, Zenon DEF OtherTypes
  <2>3. QED
    BY <1>2, <1>5, <2>1, <2>2, Zenon DEF Types
<1>7. KeyInv'
  <2>1. \A b \in Accounts, q \in Parts : accounts'[b][q] <= made'
    BY <1>3, <1>4, <1>5, Zenon DEF KeyInv
  <2>2. ASSUME NEW j \in Slots
        PROVE  key'[j] <= made' /\ (key'[j] # 0 => madeFor'[key'[j]] # None)
    <3>1. key'[j] \in {0, key[j]}
      BY <1>2, Zenon DEF Moves, Others
    <3>2. 0 <= made'
      BY <1>3, ClientStoreAssumption DEF OtherTypes
    <3>3. QED
      BY <1>3, <3>1, <3>2, Zenon DEF KeyInv
  <2>3. QED
    BY <2>1, <2>2, Zenon DEF KeyInv
<1>8. \A b \in Accounts : AccountInv(b)'
  <2>1. On(k, a)
    BY Zenon DEF On
  <2>2. QED
    BY <1>2, <1>5, <2>1, AccountStep, Zenon
<1>9. \A t \in Lists \cup {"owner"} : ~ On(k, t)'
  BY <1>2, Targets, Zenon DEF On
<1>10. \A l \in Lists : ListInv(l)'
  BY <1>2, <1>9, ListsUnchanged, Zenon
<1>11. OwnerInv'
  BY <1>2, <1>9, OwnerUnchanged, Zenon
<1>12. QED
  BY <1>2, <1>6, <1>7, <1>8, <1>10, <1>11, Zenon DEF IInv

LEMMA SavePartInv ==
  ASSUME IInv, NEW k \in Slots, NEW p \in Parts, savePart(k, p)
  PROVE  IInv'
<1>1. /\ ~ Idle(k) /\ At(k) = p
      /\ Do(k, p) \/ EndSlot(k)
      /\ Succeeds \/ Fails(k)
      /\ UNCHANGED <<madeFor, bound, lists, tokens, made, confirmed, intended>>
      /\ \/ accounts' = [accounts EXCEPT ![req[k].target][p] = key[k]] /\ Do(k, p)
         \/ UNCHANGED accounts /\ Fails(k)
  BY Zenon DEF savePart, Do, At
<1>2. p \in Steps /\ p # "load"
  BY Zenon DEF Parts, Steps
<1>3. req[k] \in Requests /\ p \in StepsOf(req[k])
  BY <1>1, Zenon DEF IInv, SlotInv
<1>4. PICK a \in Accounts : /\ a = req[k].target /\ p \in PartsOf(a)
                            /\ req[k].op = "keygen"
  BY <1>3, StepOf, Zenon
<1>5. \/ accounts' = SetPart(a, p, key[k]) /\ Do(k, p)
      \/ UNCHANGED accounts /\ Fails(k)
  BY <1>1, <1>4, Zenon DEF SetPart
<1>6. a \notin disturbed' => WholeAccount(a)' /\ (On(k, a)' => Reached(k, a)')
  <2> SUFFICES ASSUME a \notin disturbed'
               PROVE  WholeAccount(a)' /\ Reached(k, a)'
    BY Zenon
  <2>1. accounts' = SetPart(a, p, key[k]) /\ Do(k, p)
    BY <1>4, <1>5, Zenon DEF Fails
  <2>2. a \notin disturbed
    BY <1>1, Zenon DEF Succeeds, Fails
  <2>3. Reached(k, a)
    BY <1>1, <1>4, <2>2, Zenon DEF IInv, AccountInv, On
  <2>4. /\ confirmed[a] = 0
        /\ \A q \in PartsOf(a) \cap Saved(p) : accounts[a][q] = key[k]
        /\ accounts[a]["meta"] = 0
    BY <1>1, <1>4, <2>3, Zenon DEF Reached, Parts
  <2>5. /\ accounts'[a][p] = key[k]
        /\ \A q \in Parts : q # p => accounts'[a][q] = accounts[a][q]
    <3>1. StoreTypes /\ KeyInv
      BY Zenon DEF IInv, Types
    <3>2. key[k] \in {0} \cup Keys /\ (key[k] # 0 => madeFor[key[k]] # None)
      BY Zenon DEF IInv, Types, SlotTypes, KeyInv
    <3>3. QED
      BY <1>1, <1>4, <2>1, <3>1, <3>2, PartSet, ZenonT(30)
  <2>6. plan'[k] = Rest(a, p) /\ req'[k] = req[k] /\ key'[k] = key[k]
    BY <1>4, <2>1, DoStep, Zenon
  <2>7. PartsOf(a) \subseteq Parts /\ "meta" \in Parts
    BY Zenon DEF PartsOf, Parts
  <2>8. \A q \in PartsOf(a) : (q \in Saved(p) \/ q = p) => accounts'[a][q] = key[k]
    BY <2>4, <2>5, <2>7, Zenon
  <2>9. p # "meta" => accounts'[a]["meta"] = 0
    BY <2>4, <2>5, <2>7, Zenon
  <2>10. /\ \A q \in PartsOf(a) \cap Saved(At(k)') : q \in Saved(p) \/ q = p
         /\ At(k)' # "confirm" => p # "meta"
    <3>1. CASE p = "conf" /\ a \in ECDSAAccounts
      <4>1. At(k)' = "presig" /\ Saved("presig") = {"conf"}
        BY <2>6, <3>1, StepAfter, Zenon DEF After, At, Saved
      <4>2. QED
        BY <3>1, <4>1, Zenon
    <3>2. CASE p = "conf" /\ a \notin ECDSAAccounts
      <4>1. At(k)' = "meta"
        BY <2>6, <3>2, StepAfter, Zenon DEF After, At
      <4>2. Saved("meta") = {"conf", "presig"} /\ PartsOf(a) = {"conf", "meta"}
        BY <3>2, Zenon DEF Saved, PartsOf
      <4>3. QED
        BY <3>2, <4>1, <4>2, Zenon
    <3>3. CASE p = "presig"
      <4>1. At(k)' = "meta"
        BY <2>6, <3>3, StepAfter, Zenon DEF After, At
      <4>2. Saved("meta") = {"conf", "presig"} /\ Saved("presig") = {"conf"}
        BY Zenon DEF Saved
      <4>3. QED
        BY <3>3, <4>1, <4>2, Zenon
    <3>4. CASE p = "meta"
      <4>1. At(k)' = "confirm"
        BY <2>6, <3>4, StepAfter, Zenon DEF After, At
      <4>2. Saved("meta") = {"conf", "presig"} /\ Saved("confirm") = {"conf", "presig", "meta"}
        BY Zenon DEF Saved, Parts
      <4>3. QED
        BY <3>4, <4>1, <4>2, Zenon
    <3>5. QED
      BY <3>1, <3>2, <3>3, <3>4, Zenon DEF Parts
  <2>11. Reached(k, a)'
    <3>1. \A q \in PartsOf(a) \cap Saved(At(k)') : accounts'[a][q] = key'[k]
      BY <2>6, <2>8, <2>10, Zenon
    <3>2. At(k)' # "confirm" => accounts'[a]["meta"] = 0
      BY <2>9, <2>10, Zenon
    <3>3. confirmed'[a] = 0 /\ req'[k].op = "keygen"
      BY <1>1, <1>4, <2>4, <2>6, Zenon
    <3>4. QED
      BY <3>1, <3>2, <3>3, Zenon DEF Reached
  <2>12. WholeAccount(a)'
    <3>1. confirmed'[a] = 0
      BY <1>1, <2>4, Zenon
    <3>2. CASE p # "meta"
      BY <2>9, <3>1, <3>2, Zenon DEF WholeAccount, Listed
    <3>3. CASE p = "meta"
      <4>1. \A q \in PartsOf(a) : q \in Saved("meta") \/ q = "meta"
        BY Zenon DEF Saved, PartsOf, Parts
      <4>2. QED
        BY <2>5, <2>8, <3>1, <3>3, <4>1, Zenon DEF WholeAccount, Listed
    <3>4. QED
      BY <3>2, <3>3, Zenon
  <2>13. QED
    BY <2>11, <2>12, Zenon
<1>7. accounts' = SetPart(a, p, key[k]) \/ UNCHANGED accounts
  BY <1>5, Zenon
<1>8. QED
  BY <1>1, <1>2, <1>4, <1>6, <1>7, PartInv, Zenon

LEMMA DeletePartInv ==
  ASSUME IInv, NEW k \in Slots, NEW p \in Parts, deletePart(k, p)
  PROVE  IInv'
<1> DEFINE s == Delete[p]
<1>1. /\ s \in {"deleteMeta", "deleteConf", "deletePresig"}
      /\ s = "deleteMeta" <=> p = "meta"
      /\ s \in Steps /\ s # "load"
  BY DEF Delete, Parts, Steps
<1> HIDE DEF s
<1>2. /\ Do(k, s) /\ ~ Idle(k) /\ At(k) = s
      /\ Succeeds \/ Fails(k)
      /\ UNCHANGED <<madeFor, bound, lists, tokens, made, confirmed, intended>>
      /\ \/ accounts' = [accounts EXCEPT ![req[k].target][p] = 0]
         \/ UNCHANGED accounts /\ Fails(k)
  BY Zenon DEF deletePart, Do, At, s
<1>3. req[k] \in Requests /\ s \in StepsOf(req[k])
  BY <1>2, Zenon DEF IInv, SlotInv
<1>4. PICK a \in Accounts : a = req[k].target /\ req[k].op = "delete"
  BY <1>1, <1>3, StepOf, Zenon
<1>5. \/ accounts' = SetPart(a, p, 0)
      \/ UNCHANGED accounts /\ Fails(k)
  BY <1>2, <1>4, Zenon DEF SetPart
<1>6. a \notin disturbed' => WholeAccount(a)' /\ (On(k, a)' => Reached(k, a)')
  <2> SUFFICES ASSUME a \notin disturbed'
               PROVE  WholeAccount(a)' /\ Reached(k, a)'
    BY Zenon
  <2>1. accounts' = SetPart(a, p, 0)
    BY <1>4, <1>5, Zenon DEF Fails
  <2>2. a \notin disturbed
    BY <1>2, Zenon DEF Succeeds, Fails
  <2>3. Reached(k, a)
    BY <1>2, <1>4, <2>2, Zenon DEF IInv, AccountInv, On
  <2>4. confirmed'[a] = 0 /\ (s # "deleteMeta" => accounts[a]["meta"] = 0)
    BY <1>2, <1>4, <2>3, Zenon DEF Reached
  <2>5. /\ accounts'[a][p] = 0
        /\ \A q \in Parts : q # p => accounts'[a][q] = accounts[a][q]
    <3>1. StoreTypes /\ KeyInv
      BY Zenon DEF IInv, Types
    <3>2. 0 \in {0} \cup Keys /\ UNCHANGED madeFor
      BY <1>2, Zenon
    <3>3. QED
      BY <2>1, <3>1, <3>2, PartSet, Zenon
  <2>6. accounts'[a]["meta"] = 0
    BY <1>1, <2>4, <2>5, Zenon DEF Parts
  <2>7. req'[k].op = "delete"
    BY <1>2, <1>4, Zenon DEF Do
  <2>8. Reached(k, a)'
    BY <2>4, <2>6, <2>7, Zenon DEF Reached
  <2>9. WholeAccount(a)'
    BY <2>4, <2>6, Zenon DEF WholeAccount, Listed
  <2>10. QED
    BY <2>8, <2>9, Zenon
<1>7. accounts' = SetPart(a, p, 0) \/ UNCHANGED accounts
  BY <1>5, Zenon
<1>8. 0 \in {0, key[k]}
  BY Zenon
<1>9. QED
  BY <1>1, <1>2, <1>4, <1>6, <1>7, <1>8, PartInv, Zenon

-----------------------------------------------------------------------------
(* The end of a request, and of the client. *)

LEMMA ConfirmInv ==
  ASSUME IInv, NEW k \in Slots, Confirm(k)
  PROVE  IInv'
<1>1. /\ ~ Idle(k) /\ At(k) = "confirm" /\ EndSlot(k) /\ Succeeds
      /\ UNCHANGED <<accounts, madeFor, bound, lists, tokens, made, intended>>
  BY Zenon DEF Confirm, At, Succeeds, storage
<1>2. /\ (\A j \in Slots : SlotInv(j)') /\ Alone' /\ SlotTypes' /\ Moves(k)
      /\ req[k] \in Requests /\ "confirm" \in StepsOf(req[k])
      /\ made' \in 0 .. MaxRequests
      /\ faults' \in 0 .. MaxFaults
      /\ disturbed' \subseteq Accounts \cup Lists \cup {"owner"}
      /\ key'[k] \in {0, key[k]}
  BY <1>1, StepBasics, Zenon
<1>3. Idle(k)'
  BY <1>1, EndStep, Zenon
<1>4. StoreTypes /\ ListTypes /\ OwnerTypes /\ SlotTypes /\ OtherTypes
  BY Zenon DEF IInv, Types
<1>5. confirmed \in [Accounts -> {0} \cup Keys] /\ key[k] \in {0} \cup Keys
  BY <1>4, Zenon DEF OtherTypes, SlotTypes
<1>6. confirmed' \in [Accounts -> {0} \cup Keys]
  <2>1. CASE req[k].op = "keygen"
    <3>1. confirmed' = [confirmed EXCEPT ![req[k].target] = key[k]]
      BY <2>1, Zenon DEF Confirm
    <3>2. QED
      BY <1>5, <3>1, Zenon
  <2>2. CASE req[k].op # "keygen"
    BY <1>5, <2>2, Zenon DEF Confirm
  <2>3. QED
    BY <2>1, <2>2, Zenon
<1>7. Types'
  <2>1. StoreTypes' /\ ListTypes'
    BY <1>1, <1>4, Zenon DEF StoreTypes, ListTypes
  <2>2. OwnerTypes'
    BY <1>1, <1>4, Zenon DEF OwnerTypes
  <2>3. OtherTypes'
    BY <1>1, <1>2, <1>6, Zenon DEF OtherTypes
  <2>4. QED
    BY <1>2, <2>1, <2>2, <2>3, Zenon DEF Types
<1>8. KeyInv'
  BY <1>1, <1>2, KeysKept, Zenon DEF Moves
<1>9. \A t : ~ On(k, t)'
  BY <1>3, Zenon DEF On
<1>10. \A a \in Accounts : AccountInv(a)'
  <2>1. CASE req[k].op # "keygen"
    <3>1. UNCHANGED <<accounts, confirmed>>
      BY <1>1, <2>1, Zenon DEF Confirm
    <3>2. QED
      BY <1>2, <1>9, <3>1, AccountsKept, Zenon
  <2>2. CASE req[k].op = "keygen"
    <3>1. PICK a \in Accounts : a = req[k].target
      BY <1>2, <2>2, RequestType, Zenon
    <3>2. On(k, a)
      BY <1>1, <3>1, Zenon DEF On
    <3>3. confirmed' = [confirmed EXCEPT ![a] = key[k]]
      BY <2>2, <3>1, Zenon DEF Confirm
    <3>4. /\ confirmed'[a] = key[k]
          /\ \A b \in Accounts : b # a => confirmed'[b] = confirmed[b]
      BY <1>5, <3>3, Zenon
    <3>5. \A b \in Accounts : b # a => accounts'[b] = accounts[b] /\ confirmed'[b] = confirmed[b]
      BY <1>1, <3>4, Zenon
    <3>6. ASSUME a \notin disturbed' PROVE WholeAccount(a)'
      <4>1. a \notin disturbed
        BY <1>1, <3>6, Zenon DEF Succeeds
      <4>2. WholeAccount(a) /\ Reached(k, a)
        BY <3>2, <4>1, Zenon DEF IInv, AccountInv
      <4>3. "meta" \in PartsOf(a) \cap Saved("confirm")
        BY Zenon DEF PartsOf, Saved, Parts
      <4>4. accounts[a]["meta"] = key[k]
        BY <1>1, <2>2, <4>2, <4>3, Zenon DEF Reached
      <4>5. QED
        BY <1>1, <3>4, <4>2, <4>4, Zenon DEF WholeAccount, Listed
    <3>7. a \notin disturbed' => WholeAccount(a)' /\ (On(k, a)' => Reached(k, a)')
      BY <1>9, <3>6, Zenon
    <3>8. QED
      BY <1>2, <1>3, <3>2, <3>5, <3>7, AccountStep, Zenon
  <2>3. QED
    BY <2>1, <2>2, Zenon
<1>11. \A l \in Lists : ListInv(l)'
  BY <1>1, <1>2, <1>9, ListsUnchanged, Zenon
<1>12. OwnerInv'
  BY <1>1, <1>2, <1>9, OwnerUnchanged, Zenon
<1>13. QED
  BY <1>2, <1>7, <1>8, <1>10, <1>11, <1>12, Zenon DEF IInv

LEMMA RestartInv ==
  ASSUME IInv, Restart
  PROVE  IInv'
<1>1. /\ Fault
      /\ plan' = [k \in Slots |-> <<>>] /\ req' = [k \in Slots |-> None]
      /\ key' = [k \in Slots |-> 0] /\ list' = [k \in Slots |-> None]
      /\ tokens' \in {tokens, {}}
      /\ UNCHANGED <<accounts, madeFor, bound, lists, made, confirmed, intended, disturbed>>
  BY Zenon DEF Restart, storage, historyVars
<1>2. \A k \in Slots : Idle(k)' /\ key'[k] = 0
  BY <1>1, Zenon DEF Idle
<1>3. \A k \in Slots : \A t : ~ On(k, t)'
  BY <1>2, Zenon DEF On
<1>4. /\ StoreTypes /\ ListTypes /\ OwnerTypes /\ OtherTypes /\ KeyInv /\ OwnerInv
      /\ \A a \in Accounts : AccountInv(a)
      /\ \A l \in Lists : ListInv(l)
  BY Zenon DEF IInv, Types
<1>5. Types'
  <2>1. StoreTypes' /\ ListTypes'
    BY <1>1, <1>4, Zenon DEF StoreTypes, ListTypes
  <2>2. OwnerTypes'
    BY <1>1, <1>4, Zenon DEF OwnerTypes
  <2>3. SlotTypes'
    BY <1>1, NoPlan, Zenon DEF SlotTypes
  <2>4. faults' \in 0 .. MaxFaults
    BY <1>1, FaultType, Zenon
  <2>5. OtherTypes'
    BY <1>1, <1>4, <2>4, Zenon DEF OtherTypes
  <2>6. QED
    BY <2>1, <2>2, <2>3, <2>5, Zenon DEF Types
<1>6. \A k \in Slots : SlotInv(k)'
  BY <1>2, Zenon DEF SlotInv
<1>7. KeyInv'
  <2>1. 0 <= made
    BY <1>4, ClientStoreAssumption DEF OtherTypes
  <2>2. QED
    BY <1>1, <1>2, <1>4, <2>1, Zenon DEF KeyInv
<1>8. Alone'
  BY <1>3, Zenon DEF Alone
<1>9. \A a \in Accounts : AccountInv(a)'
  BY <1>1, <1>3, <1>4, Zenon DEF AccountInv, WholeAccount, Listed
<1>10. \A l \in Lists : ListInv(l)'
  BY <1>1, <1>3, <1>4, Zenon DEF ListInv
<1>11. OwnerInv'
  BY <1>1, <1>3, <1>4, Zenon DEF OwnerInv
<1>12. QED
  BY <1>5, <1>6, <1>7, <1>8, <1>9, <1>10, <1>11, Zenon DEF IInv

LEMMA InitInv ==
  ASSUME Init
  PROVE  IInv
<1>1. /\ accounts = [a \in Accounts |-> NoAccount] /\ madeFor = [n \in Keys |-> None]
      /\ bound = None /\ lists = [l \in Lists |-> NoEntries] /\ tokens = {}
      /\ plan = [k \in Slots |-> <<>>] /\ req = [k \in Slots |-> None]
      /\ key = [k \in Slots |-> 0] /\ list = [k \in Slots |-> None]
      /\ made = 0 /\ faults = 0
      /\ confirmed = [a \in Accounts |-> 0]
      /\ intended = [l \in Lists |-> NoEntries] /\ disturbed = {}
  BY Zenon DEF Init
<1>2. NoAccount \in [Parts -> {0} \cup Keys] /\ \A p \in Parts : NoAccount[p] = 0
  BY Zenon DEF NoAccount
<1>3. \A a \in Accounts, p \in Parts : accounts[a][p] = 0
  BY <1>1, <1>2, Zenon
<1>4. \A k \in Slots : Idle(k) /\ key[k] = 0
  BY <1>1, Zenon DEF Idle
<1>5. \A k \in Slots : \A t : ~ On(k, t)
  BY <1>4, Zenon DEF On
<1>6. Types
  <2>1. accounts \in [Accounts -> [Parts -> {0} \cup Keys]]
    BY <1>1, <1>2, Zenon
  <2>2. \A a \in FROSTAccounts : accounts[a]["presig"] = 0
    BY <1>3, Zenon DEF Accounts, Parts
  <2>3. StoreTypes
    BY <1>1, <1>3, <2>1, <2>2, Zenon DEF StoreTypes
  <2>4. NoEntries \in Entries
    BY Zenon DEF NoEntries, Entries
  <2>5. ListTypes
    BY <1>1, <2>4, Zenon DEF ListTypes
  <2>6. OwnerTypes
    BY <1>1, Zenon DEF OwnerTypes
  <2>7. SlotTypes
    BY <1>1, NoPlan, Zenon DEF SlotTypes
  <2>8. 0 \in 0 .. MaxRequests /\ 0 \in 0 .. MaxFaults
    BY ClientStoreAssumption
  <2>9. OtherTypes
    BY <1>1, <2>8, Zenon DEF OtherTypes
  <2>10. QED
    BY <2>3, <2>5, <2>6, <2>7, <2>9, Zenon DEF Types
<1>7. \A k \in Slots : SlotInv(k)
  BY <1>4, Zenon DEF SlotInv
<1>8. KeyInv
  <2>1. 0 <= 0
    OBVIOUS
  <2>2. QED
    BY <1>1, <1>3, <1>4, <2>1, Zenon DEF KeyInv
<1>9. Alone
  BY <1>5, Zenon DEF Alone
<1>10. ASSUME NEW a \in Accounts PROVE AccountInv(a)
  <2>1. accounts[a]["meta"] = 0 /\ confirmed[a] = 0
    BY <1>1, <1>3, Zenon DEF Parts
  <2>2. QED
    BY <1>5, <2>1, Zenon DEF AccountInv, WholeAccount, Listed
<1>11. \A l \in Lists : ListInv(l)
  BY <1>1, <1>5, Zenon DEF ListInv
<1>12. OwnerInv
  BY <1>1, <1>5, Zenon DEF OwnerInv
<1>13. QED
  BY <1>6, <1>7, <1>8, <1>9, <1>10, <1>11, <1>12, Zenon DEF IInv

LEMMA StutterInv ==
  ASSUME IInv, UNCHANGED vars
  PROVE  IInv'
<1>1. UNCHANGED <<accounts, madeFor, bound, lists, tokens, plan, req, key, list, made,
                  faults, confirmed, intended, disturbed>>
  BY Zenon DEF vars, storage, slotVars, historyVars
<1>2. Types'
  BY <1>1, Zenon DEF IInv, Types, StoreTypes, ListTypes, OwnerTypes, SlotTypes, OtherTypes
<1>3. \A k \in Slots : Idle(k)' = Idle(k) /\ At(k)' = At(k) /\ \A t : On(k, t)' = On(k, t)
  BY <1>1, Zenon DEF Idle, At, On
<1>4. \A k \in Slots : SlotInv(k)'
  BY <1>1, <1>3, Zenon DEF IInv, SlotInv
<1>5. KeyInv' /\ Alone'
  BY <1>1, <1>3, Zenon DEF IInv, KeyInv, Alone
<1>6. ASSUME NEW a \in Accounts PROVE AccountInv(a)'
  <2>1. AccountInv(a)
    BY Zenon DEF IInv
  <2>2. WholeAccount(a)' = WholeAccount(a)
    BY <1>1, Zenon DEF WholeAccount, Listed
  <2>3. \A k \in Slots : Reached(k, a) => Reached(k, a)'
    BY <1>1, <1>3, Zenon DEF Reached
  <2>4. QED
    BY <1>1, <1>3, <2>1, <2>2, <2>3, Zenon DEF AccountInv
<1>7. (\A l \in Lists : ListInv(l)') /\ OwnerInv'
  BY <1>1, <1>3, Zenon DEF IInv, ListInv, OwnerInv
<1>8. QED
  BY <1>2, <1>4, <1>5, <1>6, <1>7, Zenon DEF IInv

LEMMA NextInv ==
  ASSUME IInv, [Next]_vars
  PROVE  IInv'
<1>1. ASSUME NEW k \in Slots, NEW r \in Requests, authLogin(k, r) PROVE IInv'
  BY <1>1, LoginInv, Zenon
<1>2. ASSUME NEW k \in Slots, NEW r \in Requests,
             keygenECDSA(k, r) \/ keygenFROST(k, r)
      PROVE  IInv'
  BY <1>2, KeygenInv, Zenon DEF keygenECDSA, keygenFROST
<1>3. ASSUME NEW k \in Slots, NEW r \in Requests, deleteAccount(k, r) PROVE IInv'
  BY <1>3, DeleteInv, Zenon
<1>4. ASSUME NEW k \in Slots, NEW r \in Requests,
             changeExchanges(k, r) \/ changeAliases(k, r)
      PROVE  IInv'
  BY <1>4, ChangeInv, Zenon DEF changeExchanges, changeAliases
<1>5. ASSUME NEW k \in Slots,
             bindOwner(k) \/ GenerateToken(k) \/ loadList(k) \/ saveList(k) \/ Confirm(k)
      PROVE  IInv'
  BY <1>5, BindInv, TokenInv, LoadInv, SaveInv, ConfirmInv, Zenon
<1>6. ASSUME NEW k \in Slots, NEW p \in Parts, savePart(k, p) \/ deletePart(k, p)
      PROVE  IInv'
  BY <1>6, SavePartInv, DeletePartInv, Zenon
<1>7. ASSUME Restart PROVE IInv'
  BY <1>7, RestartInv, Zenon
<1>8. ASSUME UNCHANGED vars PROVE IInv'
  BY <1>8, StutterInv, Zenon
<1>9. QED
  BY <1>1, <1>2, <1>3, <1>4, <1>5, <1>6, <1>7, <1>8, Zenon DEF Next

-----------------------------------------------------------------------------
(* The inductive invariant holds: the plans are cut short, never mixed up, *)
(* and what is stored is what the request at work has reached.             *)
THEOREM ClientStoreInvariance == Spec => []IInv
<1>1. Init => IInv
  BY InitInv, Zenon
<1>2. IInv /\ [Next]_vars => IInv'
  BY NextInv, Zenon
<1>3. QED
  BY <1>1, <1>2, PTL DEF Spec

(* A listed account is whole whenever the client ends or a request fails,  *)
(* and a confirmed one stays listed under its key until it is deleted      *)
(* (keygenECDSA, keygenFROST, deleteAccount), whatever other requests are  *)
(* at work on other accounts.                                              *)
THEOREM ListedAccountsWhole == Spec => []AccountsWhole
<1>1. IInv => AccountsWhole
  <2> SUFFICES ASSUME IInv PROVE AccountsWhole
    BY Zenon
  <2>1. StoreTypes /\ ListTypes /\ OwnerTypes /\ SlotTypes /\ OtherTypes
    BY Zenon DEF IInv, Types
  <2>2. \A k \in Slots : plan[k] # <<>> => req[k] \in Requests
    BY Zenon DEF IInv, SlotInv, Idle
  <2>3. TypeOK
    BY <2>1, <2>2, Zenon DEF TypeOK, StoreTypes, ListTypes, OwnerTypes, SlotTypes, OtherTypes
  <2>4. \A a \in Accounts \ disturbed : WholeAccount(a)
    BY Zenon DEF IInv, AccountInv
  <2>5. QED
    BY <2>3, <2>4, Zenon DEF AccountsWhole, WholeAccount
<1>2. QED
  BY <1>1, ClientStoreInvariance, PTL

(* Requests on a list that neither overlap nor fail lose no entry of it    *)
(* (loadExchanges and saveExchanges, loadAliases and saveAliases).         *)
THEOREM ListEntriesKept == Spec => []ListsKept
<1>1. IInv => ListsKept
  BY Zenon DEF IInv, ListInv, ListsKept
<1>2. QED
  BY <1>1, ClientStoreInvariance, PTL

(* A client keeps its owner (authLogin, ownerGuard): while logins do not   *)
(* overlap, the owner can be read and keys are made for the caller, the    *)
(* owner is who was bound, with and without accounts.                      *)
THEOREM OwnerStays == Spec => OwnerKept
<1>1. IInv /\ "owner" \notin disturbed => owner = {bound}
  BY OwnerIsBound, Zenon
<1>2. (IInv /\ "owner" \notin disturbed => owner = {bound})'
  BY <1>1, PTL
<1>3. ASSUME IInv, IInv', [Next]_vars, owner # {None}, "owner" \notin disturbed'
      PROVE  owner' = owner
  <2>1. disturbed \subseteq disturbed'
    <3>1. \A k \in Slots, r \in Requests : \A steps, spoilt :
             Begin(k, r, steps, spoilt) => disturbed \subseteq disturbed'
      BY Zenon DEF Begin
    <3>2. \A k \in Slots : Succeeds \/ Fails(k) => disturbed \subseteq disturbed'
      BY Zenon DEF Succeeds, Fails
    <3>3. ASSUME NEW k \in Slots, NEW r \in Requests,
                 \/ authLogin(k, r) \/ Keygen(k, r) \/ deleteAccount(k, r)
                 \/ changeList(k, r)
          PROVE  disturbed \subseteq disturbed'
      BY <3>1, <3>3, Zenon DEF authLogin, Keygen, deleteAccount, changeList
    <3>4. ASSUME NEW k \in Slots,
                 \/ bindOwner(k) \/ loadList(k) \/ saveList(k)
                 \/ \E p \in Parts : savePart(k, p) \/ deletePart(k, p)
          PROVE  disturbed \subseteq disturbed'
      BY <3>2, <3>4, Zenon DEF bindOwner, loadList, saveList, savePart, deletePart
    <3>5. ASSUME (\E k \in Slots : GenerateToken(k) \/ Confirm(k)) \/ Restart \/ UNCHANGED vars
          PROVE  disturbed \subseteq disturbed'
      BY <3>5, Zenon DEF GenerateToken, Confirm, Restart, vars, historyVars
    <3>6. QED
      BY <1>3, <3>3, <3>4, <3>5, Zenon
         DEF Next, keygenECDSA, keygenFROST, changeExchanges, changeAliases
  <2>2. owner = {bound} /\ owner' = {bound'}
    <3>1. owner = {bound}
      BY <1>3, <2>1, OwnerIsBound, Zenon
    <3>2. owner' = {bound'}
      BY <1>3, <1>2, Zenon
    <3>3. QED
      BY <3>1, <3>2, Zenon
  <2>3. bound # None
    BY <1>3, <2>2, Zenon
  <2>4. ASSUME NEW k \in Slots, bindOwner(k) PROVE UNCHANGED bound
    <3>1. ~ Idle(k) /\ At(k) = "bind"
      BY <2>4, Zenon DEF bindOwner, Do, At
    <3>2. req[k] \in Requests /\ "bind" \in StepsOf(req[k])
      BY <1>3, <3>1, Zenon DEF IInv, SlotInv
    <3>3. On(k, "owner")
      BY <3>1, <3>2, StepOf, RequestType, Zenon DEF On
    <3>4. bound = None
      BY <1>3, <2>1, <3>1, <3>3, Zenon DEF IInv, OwnerInv
    <3>5. QED
      BY <2>3, <3>4, Zenon
  <2>5. UNCHANGED bound
    BY <1>3, <2>4, ZenonT(30) DEF Next, vars, storage, authLogin, keygenECDSA, keygenFROST,
       Keygen, deleteAccount, changeExchanges, changeAliases, changeList,
       GenerateToken, loadList, saveList, Confirm, savePart, deletePart, Restart
  <2>6. QED
    BY <2>2, <2>5, Zenon
<1>4. IInv /\ IInv' /\ [Next]_vars =>
        [(owner # {None} /\ "owner" \notin disturbed') => owner' = owner]_vars
  BY <1>3, Zenon
<1>5. QED
  BY <1>4, ClientStoreInvariance, PTL DEF Spec, OwnerKept
=============================================================================
