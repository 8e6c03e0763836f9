--------------------------- MODULE PaymentsProofs ---------------------------
(***************************************************************************)
(* Proofs about Payments, for all requests, prices and amounts, any number *)
(* of calls, of transactions and of faults.                                *)
(*                                                                         *)
(* The argument: signatures are of drafts only (SigInv), so a node accepts *)
(* nothing that was not drafted (ChainInv).  The nonce of a call and of a  *)
(* draft is the first one that was free: all smaller ones belong to other  *)
(* drafts (Filled) and, until something fails, to transactions that are    *)
(* mined or waiting (Placed).                                              *)
(***************************************************************************)
EXTENDS Payments, FiniteSetTheorems, TLAPS

Addresses == {Token} \cup {r.to : r \in Requests}

EthTx == [nonce : Nat, to : Addresses, value : Nat, gas : Nat, price : Nat,
          data : [to : Addresses, amount : Nat]]

BtcTx == [to : Addresses, amount : Nat, inputs : SUBSET Coins]

Draft == [req : Requests, tx : EthTx \cup BtcTx, chain : Nat, clear : BOOLEAN]

Sig == [tx : EthTx \cup BtcTx, chain : Nat]

(* The calls, by what they are at. *)
IdleJob == [pc : {"idle"}]
NonceJob == [pc : {"nonce"}, req : Requests, nonce : Nat, clear : BOOLEAN]
FieldsJob == [pc : {"fields"}, req : Requests, nonce : Nat, price : Nat, chain : Nat, sig : Sig]
EthBuilt == [pc : {"built"}, net : {"eth"}, tx : EthTx, chain : Nat, sig : Sig]
BtcBuilt == [pc : {"built"}, net : {"btc"}, tx : BtcTx, chain : Nat, sig : Sig]
EthSent == [pc : {"sent"}, net : {"eth"}, tx : EthTx]
BtcSent == [pc : {"sent"}, net : {"btc"}, tx : BtcTx]
WaitingJob == [pc : {"waiting"}, expected : Expected]
AnsweredJob == [pc : {"answered"}, sufficient : BOOLEAN, timedOut : BOOLEAN, enough : BOOLEAN]

Jobs == IdleJob \cup NonceJob \cup FieldsJob \cup EthBuilt \cup BtcBuilt
        \cup EthSent \cup BtcSent \cup WaitingJob \cup AnsweredJob

ChainTypes ==
  /\ price \in Prices
  /\ mined \in Seq(EthTx)
  /\ pool \subseteq EthTx
  /\ coins \subseteq Coins
  /\ funds \in Nat
  /\ accepted \subseteq EthTx \cup BtcTx

ClientTypes ==
  /\ job \in [Calls -> Jobs]
  /\ drafts \in Seq(Draft)
  /\ sigs \subseteq Sig
  /\ faults \in 0 .. MaxFaults

(* A draft is what newTransaction makes of its request, or NewTX. *)
DraftInv ==
  \A i \in DOMAIN drafts :
     IF drafts[i].req.net = "eth"
       THEN /\ drafts[i].tx \in EthTx
            /\ drafts[i].tx = newTransaction(drafts[i].req, drafts[i].tx.nonce, drafts[i].tx.price)
            /\ drafts[i].chain > 0
       ELSE drafts[i].tx \in BtcTx /\ drafts[i].chain = 0

Drafted(tx) == \E i \in OnEthereum : drafts[i].tx = tx

SigInv ==
  \A s \in sigs : \E i \in DOMAIN drafts : s = Hash(drafts[i].tx, drafts[i].chain)

ChainInv ==
  /\ \A t \in pool : Drafted(t) /\ t.nonce >= Len(mined)
  /\ \A t, u \in pool : t.nonce = u.nonce => t = u
  /\ \A n \in DOMAIN mined : Drafted(mined[n]) /\ mined[n].nonce = n - 1

LogInv ==
  \A e \in log : \/ \E tx \in accepted : e = [tx |-> tx]
                 \/ e = [from |-> "account"] /\ \E tx \in accepted : tx \in BtcTx

(* The nonces below n belong to drafts. *)
Filled(n) == \A m \in 0 .. n - 1 : \E i \in OnEthereum : drafts[i].tx.nonce = m

(* Nonce m is that of a transaction that is mined or waiting. *)
Placed(m) == m < Len(mined) \/ \E t \in pool : t.nonce = m

PlacedBelow(n) == faults = 0 => \A m \in 0 .. n - 1 : Placed(m)

NonceInv ==
  \A i \in OnEthereum :
     /\ Filled(drafts[i].tx.nonce)
     /\ drafts[i].tx.nonce < MaxDrafts
     /\ PlacedBelow(drafts[i].tx.nonce)

AcceptedInv ==
  faults = 0 => \A tx \in accepted : tx \in EthTx => Placed(tx.nonce)

ClearInv ==
  \A i, j \in OnEthereum :
     i < j /\ drafts[j].clear => drafts[i].tx.nonce < drafts[j].tx.nonce

(* Nonce n is above those of the drafts. *)
Above(n) == \A i \in OnEthereum : drafts[i].tx.nonce < n

NonceOK(j) ==
  /\ j.req.net = "eth"
  /\ Filled(j.nonce)
  /\ j.nonce < MaxDrafts
  /\ PlacedBelow(j.nonce)
  /\ j.clear => Above(j.nonce)

JobInv(j) ==
  /\ j.pc \in {"fields", "built"} => j.sig \in sigs
  /\ j.pc = "sent" => j.tx \in accepted
  /\ j.pc = "nonce" => NonceOK(j)
  /\ j.pc = "answered" /\ j.sufficient => j.enough /\ ~ j.timedOut

IInv ==
  /\ ChainTypes /\ ClientTypes /\ Made <= MaxDrafts
  /\ DraftInv /\ SigInv /\ ChainInv /\ LogInv
  /\ NonceInv /\ AcceptedInv /\ ClearInv
  /\ \A c \in Calls : JobInv(job[c])

-----------------------------------------------------------------------------
(* Requests and transactions. *)

LEMMA RequestFacts ==
  ASSUME NEW r \in Requests
  PROVE  /\ r.net \in {"eth", "btc"}
         /\ r.amount \in Nat /\ r.amount > 0
         /\ r.chain \in Nat /\ r.gas \in Nat /\ r.token \in BOOLEAN
         /\ r.to \in Addresses
<1>1. /\ r.net \in {"eth", "btc"} /\ r.amount \in 1 .. (Word \div 2) - 1
      /\ r.chain \in Nat /\ r.gas \in Nat /\ r.token \in BOOLEAN
  BY PaymentsAssumption, Zenon
<1>2. Word \div 2 \in Int
  BY PaymentsAssumption
<1>3. r.amount \in Nat /\ r.amount > 0
  BY <1>1, <1>2
<1>4. r.to \in Addresses
  BY Zenon DEF Addresses
<1>5. QED
  BY <1>1, <1>3, <1>4, Zenon

LEMMA DefaultType ==
  ASSUME NEW n \in Nat, NEW d \in Nat \ {0}
  PROVE  orDefault(n, d) \in Nat /\ orDefault(n, d) > 0
  BY DEF orDefault

LEMMA PriceType == Prices \subseteq Nat
  BY PaymentsAssumption, Zenon

LEMMA NewTransactionType ==
  ASSUME NEW r \in Requests, NEW n \in Nat, NEW p \in Nat
  PROVE  /\ newTransaction(r, n, p) \in EthTx
         /\ newTransaction(r, n, p).nonce = n
         /\ newTransaction(r, n, p).price = p
<1>1. orDefault(r.gas, DefaultGas(TRUE)) \in Nat /\ orDefault(r.gas, DefaultGas(FALSE)) \in Nat
  <2>1. DefaultGas(TRUE) \in Nat \ {0} /\ DefaultGas(FALSE) \in Nat \ {0}
    BY DEF DefaultGas
  <2>2. QED
    BY <2>1, RequestFacts, DefaultType, Zenon
<1>2. r.to \in Addresses /\ Token \in Addresses /\ r.amount \in Nat /\ 0 \in Nat
  BY RequestFacts, Zenon DEF Addresses
<1> DEFINE g == orDefault(r.gas, DefaultGas(TRUE))
           h == orDefault(r.gas, DefaultGas(FALSE))
<1>3. g \in Nat /\ h \in Nat
  BY <1>1, Zenon
<1>4. newTransaction(r, n, p) =
        IF r.token
          THEN [nonce |-> n, to |-> Token, value |-> 0, gas |-> g, price |-> p,
                data |-> [to |-> r.to, amount |-> r.amount]]
          ELSE [nonce |-> n, to |-> r.to, value |-> r.amount, gas |-> h, price |-> p,
                data |-> [to |-> Token, amount |-> 0]]
  BY Zenon DEF newTransaction, erc20TransferData, NoData
<1> HIDE DEF g, h
<1>5. QED
  BY <1>2, <1>3, <1>4 DEF EthTx

(* Transaction tx pays what request r asks for and what decodeTx shows. *)
Pays(tx, r) ==
  /\ Effect(tx) = decodeTx(tx)
  /\ Effect(tx) = [token |-> r.token, contract |-> Token, to |-> r.to, amount |-> r.amount]

LEMMA DraftPays ==
  ASSUME NEW r \in Requests, NEW n \in Nat, NEW p \in Nat
  PROVE  Pays(newTransaction(r, n, p), r)
<1> DEFINE tx == newTransaction(r, n, p)
<1>1. r.amount > 0 /\ r.amount \in Nat /\ r.token \in BOOLEAN
  BY RequestFacts, Zenon
<1>2. CASE r.token
  <2>1. tx.to = Token /\ tx.data = [to |-> r.to, amount |-> r.amount]
    BY <1>2, Zenon DEF newTransaction, erc20TransferData
  <2>2. tx.data # NoData
    <3>1. tx.data.amount = r.amount /\ NoData.amount = 0
      BY <2>1 DEF NoData
    <3>2. QED
      BY <1>1, <3>1
  <2>3. tx.data.to = r.to /\ tx.data.amount = r.amount
    BY <2>1
  <2> HIDE DEF tx
  <2>4. r.token = TRUE
    BY <1>2, Zenon
  <2>5. QED
    BY <2>1, <2>2, <2>3, <2>4, Zenon DEF Pays, Effect, decodeTx, tx
<1>3. CASE ~ r.token
  <2>1. tx.to = r.to /\ tx.data = NoData /\ tx.value = r.amount
    BY <1>3, Zenon DEF newTransaction
  <2> HIDE DEF tx
  <2>2. r.token = FALSE
    BY <1>1, <1>3, Zenon
  <2>3. QED
    BY <2>1, <2>2, Zenon DEF Pays, Effect, decodeTx, tx
<1>4. QED
  BY <1>2, <1>3, Zenon

LEMMA TxsApart ==
  ASSUME NEW t \in EthTx, NEW u \in BtcTx
  PROVE  t # u
<1>1. "nonce" \in DOMAIN t
  BY Zenon DEF EthTx
<1>2. "nonce" \notin DOMAIN u
  BY Zenon DEF BtcTx
<1>3. QED
  BY <1>1, <1>2, Zenon

(* A balance cut to an int64 is never more than the balance. *)
LEMMA CutBalance ==
  ASSUME NEW n \in Nat
  PROVE  Int64(n) \in Int /\ Int64(n) <= n
<1>1. Word \in Nat /\ Word > 0 /\ Word \div 2 \in Int
  BY PaymentsAssumption
<1>2. n % Word \in 0 .. Word - 1 /\ n % Word <= n
  BY <1>1
<1>3. QED
  BY <1>1, <1>2 DEF Int64

-----------------------------------------------------------------------------
(* Numbers. *)

LEMMA LeastElement ==
  ASSUME NEW S \in SUBSET Nat, S # {}
  PROVE  Min(S) \in S /\ \A y \in S : Min(S) <= y
<1> DEFINE R == {ss \in Nat \X Nat : ss[1] < ss[2]}
<1>1. IsWellFoundedOn(R, Nat)
  BY NatLessThanWellFounded, Zenon DEF OpToRel
<1>2. ASSUME NEW x \in Nat, NEW y \in Nat, y < x PROVE <<y, x>> \in R
  BY <1>2, Zenon
<1> HIDE DEF R
<1>3. S \subseteq Nat
  BY Zenon
<1>4. PICK x \in S : \A y \in S : ~ (<<y, x>> \in R)
  BY <1>1, <1>3, WFMin, Zenon
<1>5. \A y \in S : ~ (y < x)
  BY <1>2, <1>3, <1>4, Zenon
<1>6. \A y \in S : x <= y
  BY <1>3, <1>5
<1>7. QED
  BY <1>6, Zenon DEF Min

(* As many nonces as belong to drafts, so many drafts there are. *)
LEMMA NonceCount ==
  ASSUME drafts \in Seq(Draft), NEW a \in Nat, NEW b \in Int,
         \A m \in a .. b : \E i \in DOMAIN drafts : drafts[i].tx.nonce = m
  PROVE  b - a + 1 <= Len(drafts)
<1> DEFINE f == [m \in a .. b |-> CHOOSE i \in DOMAIN drafts : drafts[i].tx.nonce = m]
<1>1. \A m \in a .. b : f[m] \in DOMAIN drafts /\ drafts[f[m]].tx.nonce = m
  BY Zenon
<1>2. f \in [a .. b -> DOMAIN drafts]
  BY <1>1, Zenon
<1>3. DOMAIN drafts = 1 .. Len(drafts) /\ Len(drafts) \in Nat
  OBVIOUS
<1> DEFINE A == a .. b
           B == 1 .. Len(drafts)
<1>4. IsFiniteSet(A) /\ Cardinality(A) = IF a > b THEN 0 ELSE b - a + 1
  <2>1. a \in Int
    OBVIOUS
  <2>2. QED
    BY <2>1, FS_Interval, Zenon
<1>5. IsFiniteSet(B) /\ Cardinality(B) = Len(drafts)
  <2>1. 1 \in Int /\ Len(drafts) \in Int
    BY <1>3
  <2>2. IsFiniteSet(B) /\ Cardinality(B) = IF 1 > Len(drafts) THEN 0 ELSE Len(drafts) - 1 + 1
    BY <2>1, FS_Interval, Zenon
  <2>3. QED
    BY <1>3, <2>2
<1>6. SUFFICES ASSUME b - a + 1 > Len(drafts) PROVE FALSE
  BY <1>3
<1>7. Cardinality(B) < Cardinality(A)
  BY <1>3, <1>4, <1>5, <1>6
<1>8. f \in [A -> B] /\ \A m \in A : drafts[f[m]].tx.nonce = m
  BY <1>1, <1>2, <1>3, Zenon
<1> HIDE DEF f, A, B
<1>9. IsFiniteSet(A) /\ IsFiniteSet(B) /\ f \in [A -> B]
  BY <1>4, <1>5, <1>8, Zenon
<1>10. \E x, y \in A : x # y /\ f[x] = f[y]
  BY <1>7, <1>9, FS_PigeonHole
<1>11. QED
  BY <1>8, <1>10, Zenon
-----------------------------------------------------------------------------
(* The calls. *)

LEMMA JobFacts ==
  ASSUME NEW j \in Jobs
  PROVE  /\ j.pc \in {"idle", "nonce", "fields", "built", "sent", "waiting", "answered"}
         /\ j.pc = "nonce" => j \in NonceJob
         /\ j.pc = "fields" => j \in FieldsJob
         /\ j.pc = "built" => j \in EthBuilt \cup BtcBuilt
         /\ j.pc = "sent" => j \in EthSent \cup BtcSent
         /\ j.pc = "waiting" => j \in WaitingJob
         /\ j.pc = "answered" => j \in AnsweredJob
<1>1. j \in IdleJob => j.pc = "idle"
  BY Zenon DEF IdleJob
<1>2. j \in NonceJob => j.pc = "nonce"
  BY Zenon DEF NonceJob
<1>3. j \in FieldsJob => j.pc = "fields"
  BY Zenon DEF FieldsJob
<1>4. j \in EthBuilt \cup BtcBuilt => j.pc = "built"
  BY Zenon DEF EthBuilt, BtcBuilt
<1>5. j \in EthSent \cup BtcSent => j.pc = "sent"
  BY Zenon DEF EthSent, BtcSent
<1>6. j \in WaitingJob => j.pc = "waiting"
  BY Zenon DEF WaitingJob
<1>7. j \in AnsweredJob => j.pc = "answered"
  BY Zenon DEF AnsweredJob
<1>8. QED
  BY <1>1, <1>2, <1>3, <1>4, <1>5, <1>6, <1>7, Zenon DEF Jobs

IdleNow == [pc |-> "idle"]

LEMMA IdleFacts == IdleNow \in Jobs /\ JobInv(IdleNow) /\ IdleNow.pc = "idle"
<1>1. IdleNow.pc = "idle"
  BY Zenon DEF IdleNow
<1>2. IdleNow \in IdleJob
  BY Zenon DEF IdleNow, IdleJob
<1>3. QED
  BY <1>1, <1>2, Zenon DEF JobInv, Jobs

(* The calls that have a nonce. *)
Holders == {c \in Calls : job[c].pc = "nonce"}

LEMMA HoldersFinite ==
  /\ IsFiniteSet(Holders)
  /\ Cardinality(Holders) \in Nat
<1>1. Holders \in SUBSET Calls /\ IsFiniteSet(Calls)
  BY PaymentsAssumption, Zenon DEF Holders
<1>2. IsFiniteSet(Holders)
  BY <1>1, FS_Subset, Zenon
<1>3. QED
  BY <1>2, FS_CardinalityType, Zenon

LEMMA HoldersFiniteNext ==
  /\ IsFiniteSet(Holders')
  /\ Cardinality(Holders') \in Nat
<1>1. Holders' \in SUBSET Calls /\ IsFiniteSet(Calls)
  BY PaymentsAssumption, Zenon DEF Holders
<1>2. IsFiniteSet(Holders')
  BY <1>1, FS_Subset, Zenon
<1>3. QED
  BY <1>2, FS_CardinalityType, Zenon

LEMMA MadeHolders == Made = Len(drafts) + Cardinality(Holders)
  BY Zenon DEF Made, Holders

(* Fewer calls have a nonce. *)
LEMMA MadeLess ==
  ASSUME IInv, UNCHANGED drafts, Holders' \subseteq Holders
  PROVE  Made' <= MaxDrafts
<1>1. IsFiniteSet(Holders) /\ Cardinality(Holders) \in Nat /\ Cardinality(Holders') \in Nat
  BY HoldersFinite, HoldersFiniteNext, Zenon
<1>2. Cardinality(Holders') <= Cardinality(Holders)
  BY <1>1, FS_Subset, Zenon
<1>3. Made <= MaxDrafts /\ Len(drafts) \in Nat /\ MaxDrafts \in Nat
  <2>1. Made <= MaxDrafts /\ drafts \in Seq(Draft)
    BY Zenon DEF IInv, ClientTypes
  <2>2. QED
    BY <2>1, PaymentsAssumption
<1>4. Made = Len(drafts) + Cardinality(Holders) /\ Made' = Len(drafts') + Cardinality(Holders')
  BY Zenon DEF Made, Holders
<1>5. QED
  BY <1>1, <1>2, <1>3, <1>4

(* A call takes a nonce. *)
LEMMA MadeOneMore ==
  ASSUME IInv, NEW c \in Calls, Made < MaxDrafts, UNCHANGED drafts,
         c \notin Holders, Holders' \subseteq Holders \cup {c}
  PROVE  Made' <= MaxDrafts
<1>1. IsFiniteSet(Holders) /\ Cardinality(Holders) \in Nat /\ Cardinality(Holders') \in Nat
  BY HoldersFinite, HoldersFiniteNext, Zenon
<1>2. /\ IsFiniteSet(Holders \cup {c})
      /\ Cardinality(Holders \cup {c}) = Cardinality(Holders) + 1
  BY <1>1, FS_AddElement, Zenon
<1>3. Cardinality(Holders') <= Cardinality(Holders \cup {c})
  BY <1>2, FS_Subset, Zenon
<1>4. Len(drafts) \in Nat /\ MaxDrafts \in Nat
  <2>1. drafts \in Seq(Draft)
    BY Zenon DEF IInv, ClientTypes
  <2>2. QED
    BY <2>1, PaymentsAssumption
<1>5. Made = Len(drafts) + Cardinality(Holders) /\ Made' = Len(drafts') + Cardinality(Holders')
  BY Zenon DEF Made, Holders
<1>6. QED
  BY <1>1, <1>2, <1>3, <1>4, <1>5

(* A call turns its nonce into a draft. *)
LEMMA MadeDraft ==
  ASSUME IInv, NEW c \in Holders, Len(drafts') = Len(drafts) + 1,
         Holders' \subseteq Holders \ {c}
  PROVE  Made' <= MaxDrafts
<1>1. IsFiniteSet(Holders) /\ Cardinality(Holders) \in Nat /\ Cardinality(Holders') \in Nat
  BY HoldersFinite, HoldersFiniteNext, Zenon
<1>2. /\ IsFiniteSet(Holders \ {c})
      /\ Cardinality(Holders \ {c}) = Cardinality(Holders) - 1
  BY <1>1, FS_RemoveElement, Zenon
<1>3. Cardinality(Holders') <= Cardinality(Holders \ {c})
  BY <1>2, FS_Subset, Zenon
<1>4. Made <= MaxDrafts /\ Len(drafts) \in Nat /\ MaxDrafts \in Nat
  <2>1. Made <= MaxDrafts /\ drafts \in Seq(Draft)
    BY Zenon DEF IInv, ClientTypes
  <2>2. QED
    BY <2>1, PaymentsAssumption
<1>5. Made = Len(drafts) + Cardinality(Holders) /\ Made' = Len(drafts') + Cardinality(Holders')
  BY Zenon DEF Made, Holders
<1>6. QED
  BY <1>1, <1>2, <1>3, <1>4, <1>5

(* A draft without a nonce. *)
LEMMA MadeOther ==
  ASSUME IInv, Made < MaxDrafts, Len(drafts') = Len(drafts) + 1, Holders' = Holders
  PROVE  Made' <= MaxDrafts
<1>1. Cardinality(Holders) \in Nat
  BY HoldersFinite, Zenon
<1>2. Len(drafts) \in Nat /\ MaxDrafts \in Nat
  <2>1. drafts \in Seq(Draft)
    BY Zenon DEF IInv, ClientTypes
  <2>2. QED
    BY <2>1, PaymentsAssumption
<1>3. Made = Len(drafts) + Cardinality(Holders) /\ Made' = Len(drafts') + Cardinality(Holders')
  BY Zenon DEF Made, Holders
<1>4. QED
  BY <1>1, <1>2, <1>3

LEMMA DraftsBound ==
  ASSUME IInv
  PROVE  Len(drafts) \in Nat /\ Len(drafts) <= MaxDrafts /\ Len(drafts) <= Made /\ Made \in Nat
<1>1. Cardinality(Holders) \in Nat
  BY HoldersFinite, Zenon
<1>2. Made <= MaxDrafts /\ Len(drafts) \in Nat /\ MaxDrafts \in Nat
  <2>1. Made <= MaxDrafts /\ drafts \in Seq(Draft)
    BY Zenon DEF IInv, ClientTypes
  <2>2. QED
    BY <2>1, PaymentsAssumption
<1>3. Made = Len(drafts) + Cardinality(Holders)
  BY Zenon DEF Made, Holders
<1>4. QED
  BY <1>1, <1>2, <1>3
-----------------------------------------------------------------------------
(* Nonces. *)

LEMMA SequenceFacts ==
  ASSUME IInv
  PROVE  /\ DOMAIN drafts = 1 .. Len(drafts) /\ Len(drafts) \in Nat
         /\ DOMAIN mined = 1 .. Len(mined) /\ Len(mined) \in Nat
         /\ \A i \in DOMAIN drafts : drafts[i] \in Draft
         /\ \A n \in DOMAIN mined : mined[n] \in EthTx
<1>1. drafts \in Seq(Draft) /\ mined \in Seq(EthTx)
  BY Zenon DEF IInv, ChainTypes, ClientTypes
<1>2. QED
  BY <1>1

LEMMA EthereumDrafts ==
  ASSUME IInv, NEW i \in OnEthereum
  PROVE  /\ i \in DOMAIN drafts /\ i \in Nat
         /\ drafts[i] \in Draft /\ drafts[i].req \in Requests
         /\ drafts[i].req.net = "eth"
         /\ drafts[i].tx \in EthTx /\ drafts[i].tx.nonce \in Nat /\ drafts[i].tx.price \in Nat
         /\ drafts[i].chain \in Nat /\ drafts[i].chain > 0
<1>1. i \in DOMAIN drafts /\ drafts[i].req.net = "eth" /\ DraftInv
  BY Zenon DEF OnEthereum, IInv
<1>2. drafts[i].tx \in EthTx /\ drafts[i].chain > 0
  BY <1>1, Zenon DEF DraftInv
<1>3. drafts[i] \in Draft /\ i \in Nat
  BY <1>1, SequenceFacts
<1>4. drafts[i].req \in Requests /\ drafts[i].chain \in Nat
  BY <1>3, Zenon DEF Draft
<1>5. drafts[i].tx.nonce \in Nat /\ drafts[i].tx.price \in Nat
  BY <1>2, Zenon DEF EthTx
<1>6. QED
  BY <1>1, <1>2, <1>3, <1>4, <1>5, Zenon

LEMMA PoolFacts ==
  ASSUME IInv, NEW t \in pool
  PROVE  t \in EthTx /\ t.nonce \in Nat /\ t.price \in Nat /\ Drafted(t) /\ t.nonce >= Len(mined)
<1>1. t \in EthTx /\ Drafted(t) /\ t.nonce >= Len(mined)
  BY Zenon DEF IInv, ChainTypes, ChainInv
<1>2. QED
  BY <1>1, Zenon DEF EthTx

(* A nonce that is placed belongs to a draft. *)
LEMMA PlacedDrafted ==
  ASSUME IInv, NEW m \in Nat, Placed(m)
  PROVE  \E i \in OnEthereum : drafts[i].tx.nonce = m
<1>1. CASE m < Len(mined)
  <2> DEFINE n == m + 1
  <2>1. n \in DOMAIN mined /\ n - 1 = m
    BY <1>1, SequenceFacts
  <2> HIDE DEF n
  <2>2. Drafted(mined[n]) /\ mined[n].nonce = m
    BY <2>1, Zenon DEF IInv, ChainInv
  <2>3. QED
    BY <2>2, Zenon DEF Drafted
<1>2. CASE \E t \in pool : t.nonce = m
  BY <1>2, PoolFacts, Zenon DEF Drafted
<1>3. QED
  BY <1>1, <1>2, Zenon DEF Placed

LEMMA FilledBound ==
  ASSUME IInv, NEW n \in Nat, Filled(n)
  PROVE  n <= Len(drafts)
<1>1. \A m \in 0 .. n - 1 : \E i \in DOMAIN drafts : drafts[i].tx.nonce = m
  BY Zenon DEF Filled, OnEthereum
<1>2. drafts \in Seq(Draft) /\ 0 \in Nat /\ n - 1 \in Int
  BY DEF IInv, ClientTypes
<1>3. n - 1 - 0 + 1 <= Len(drafts)
  BY <1>1, <1>2, NonceCount, Zenon
<1>4. QED
  BY <1>3, SequenceFacts

(* The nonce a node suggests is the first one that is not placed. *)
LEMMA PendingFacts ==
  ASSUME IInv
  PROVE  /\ PendingNonce \in Nat
         /\ \A m \in 0 .. PendingNonce - 1 : Placed(m)
         /\ ~ Placed(PendingNonce)
         /\ Filled(PendingNonce)
         /\ PendingNonce <= Len(drafts)
<1> DEFINE top == Len(mined) + MaxDrafts + 1
           S == {n \in Len(mined) .. top : \A t \in pool : t.nonce # n}
           P == PendingNonce
<1>1. Len(mined) \in Nat /\ MaxDrafts \in Nat /\ Len(drafts) \in Nat /\ Len(drafts) <= MaxDrafts
  BY SequenceFacts, DraftsBound, PaymentsAssumption, Zenon
<1>2. S # {}
  <2>1. SUFFICES ASSUME S = {} PROVE FALSE
    BY Zenon
  <2>2. ASSUME NEW m \in Len(mined) .. top
        PROVE  \E i \in DOMAIN drafts : drafts[i].tx.nonce = m
    <3>1. PICK t \in pool : t.nonce = m
      BY <2>1, <2>2, Zenon
    <3>2. QED
      BY <3>1, PoolFacts, Zenon DEF Drafted, OnEthereum
  <2>3. drafts \in Seq(Draft) /\ top \in Int
    BY <1>1 DEF IInv, ClientTypes
  <2> HIDE DEF top
  <2>4. top - Len(mined) + 1 <= Len(drafts)
    BY <1>1, <2>2, <2>3, NonceCount, Zenon
  <2>5. QED
    BY <1>1, <2>4 DEF top
<1>3. S \in SUBSET Nat
  BY <1>1
<1>4. P = Min(S)
  BY Zenon DEF PendingNonce
<1> HIDE DEF S, P
<1>5. P \in S /\ \A y \in S : P <= y
  BY <1>2, <1>3, <1>4, LeastElement, Zenon
<1>6. P \in Nat /\ P <= top /\ top \in Nat
  BY <1>1, <1>3, <1>5 DEF S
<1>7. ASSUME NEW m \in 0 .. P - 1
      PROVE  Placed(m) /\ m \in Nat
  <2>1. m \in Nat /\ m < P
    BY <1>6, <1>7
  <2>2. m \notin S
    BY <1>5, <1>6, <2>1
  <2>3. m < Len(mined) \/ m \in Len(mined) .. top
    BY <1>1, <1>6, <2>1
  <2>4. QED
    BY <2>1, <2>2, <2>3, Zenon DEF S, Placed
<1>8. Filled(P)
  BY <1>7, PlacedDrafted, Zenon DEF Filled
<1>9. P <= Len(drafts)
  BY <1>6, <1>8, FilledBound, Zenon
<1>10. ~ Placed(P)
  <2>1. P >= Len(mined) /\ \A t \in pool : t.nonce # P
    BY <1>5 DEF S
  <2>2. ~ (P < Len(mined))
    BY <1>1, <1>6, <2>1
  <2>3. QED
    BY <2>1, <2>2, Zenon DEF Placed
<1>11. QED
  BY <1>6, <1>7, <1>8, <1>9, <1>10, Zenon DEF P
-----------------------------------------------------------------------------
(* Steps that leave the drafts alone. *)

PlacedStays == \A m \in Int : Placed(m) => Placed(m)'

LEMMA BelowStays ==
  ASSUME NEW n, PlacedStays, faults' = faults \/ faults' # 0, PlacedBelow(n)
  PROVE  PlacedBelow(n)'
<1>1. \A m \in 0 .. n - 1 : m \in Int
  OBVIOUS
<1>2. QED
  BY <1>1, Zenon DEF PlacedStays, PlacedBelow

(* What is not about the chain follows from the drafts. *)
LEMMA DraftsStay ==
  ASSUME IInv, UNCHANGED <<drafts, sigs>>
  PROVE  /\ DraftInv' /\ SigInv' /\ ClearInv'
         /\ OnEthereum' = OnEthereum
         /\ \A tx : Drafted(tx) => Drafted(tx)'
         /\ \A n : Filled(n) => Filled(n)'
         /\ \A n : Above(n) => Above(n)'
<1>1. drafts' = drafts /\ sigs' = sigs
  BY Zenon
<1>2. OnEthereum' = OnEthereum
  BY <1>1, Zenon DEF OnEthereum
<1>3. DraftInv'
  BY <1>1, Zenon DEF IInv, DraftInv
<1>4. SigInv'
  BY <1>1, Zenon DEF IInv, SigInv
<1>5. ClearInv'
  BY <1>1, <1>2, Zenon DEF IInv, ClearInv
<1>6. QED
  BY <1>1, <1>2, <1>3, <1>4, <1>5, Zenon DEF Drafted, Filled, Above

LEMMA JobStays ==
  ASSUME IInv, NEW k, JobInv(k), drafts' = drafts, sigs \subseteq sigs',
         accepted \subseteq accepted', PlacedStays \/ faults' # 0,
         faults' = faults \/ faults' # 0
  PROVE  JobInv(k)'
<1>1. OnEthereum' = OnEthereum
  BY Zenon DEF OnEthereum
<1>2. \A n : (Filled(n) => Filled(n)') /\ (Above(n) => Above(n)')
  BY <1>1, Zenon DEF Filled, Above
<1>3. \A n : PlacedBelow(n) => PlacedBelow(n)'
  <2>1. CASE PlacedStays
    BY <2>1, BelowStays, Zenon
  <2>2. CASE faults' # 0
    BY <2>2, Zenon DEF PlacedBelow
  <2>3. QED
    BY <2>1, <2>2, Zenon
<1>4. NonceOK(k) => NonceOK(k)'
  BY <1>2, <1>3, Zenon DEF NonceOK
<1>5. QED
  BY <1>4, Zenon DEF JobInv

LEMMA ChainStep ==
  ASSUME IInv, UNCHANGED <<drafts, sigs>>, LogInv',
         faults' = faults \/ faults' # 0, faults' \in 0 .. MaxFaults,
         PlacedStays \/ faults' # 0,
         ChainTypes', job' \in [Calls -> Jobs], Made' <= MaxDrafts,
         ChainInv', accepted \subseteq accepted', AcceptedInv',
         \A c \in Calls : JobInv(job[c])'
  PROVE  IInv'
<1>1. drafts' = drafts /\ sigs' = sigs
  BY Zenon
<1>2. ClientTypes'
  BY <1>1, Zenon DEF IInv, ClientTypes
<1>3. DraftInv' /\ SigInv' /\ ClearInv' /\ OnEthereum' = OnEthereum
      /\ \A n : Filled(n) => Filled(n)'
  BY <1>1, DraftsStay, Zenon
<1>4. \A n : PlacedBelow(n) => PlacedBelow(n)'
  <2>1. CASE PlacedStays
    BY <2>1, BelowStays, Zenon
  <2>2. CASE faults' # 0
    BY <2>2, Zenon DEF PlacedBelow
  <2>3. QED
    BY <2>1, <2>2, Zenon
<1>5. NonceInv'
  BY <1>1, <1>3, <1>4, Zenon DEF IInv, NonceInv
<1>6. QED
  BY <1>2, <1>3, <1>5, Zenon DEF IInv

LEMMA LogStays ==
  ASSUME IInv, UNCHANGED log, accepted \subseteq accepted'
  PROVE  LogInv'
  BY Zenon DEF IInv, LogInv

LEMMA SamePlaced ==
  ASSUME UNCHANGED chain
  PROVE  PlacedStays
  BY Zenon DEF chain, PlacedStays, Placed

(* A call moves on. *)
LEMMA JobMoves ==
  ASSUME IInv, NEW c \in Calls, NEW j \in Jobs, Goto(c, j), JobInv(j),
         UNCHANGED <<chain, drafts, sigs, accepted, faults>>,
         LogInv', Made' <= MaxDrafts
  PROVE  IInv'
<1>1. /\ UNCHANGED <<chain, drafts, sigs, accepted, faults>>
      /\ drafts' = drafts /\ sigs' = sigs /\ accepted' = accepted /\ faults' = faults
      /\ price' = price /\ mined' = mined /\ pool' = pool /\ coins' = coins /\ funds' = funds
  BY Zenon DEF chain
<1>2. PlacedStays
  BY <1>1, SamePlaced, Zenon
<1>3. job' = [job EXCEPT ![c] = j] /\ job \in [Calls -> Jobs]
  BY Zenon DEF Goto, IInv, ClientTypes
<1>4. job' \in [Calls -> Jobs]
  BY <1>3, Zenon
<1>5. ChainTypes' /\ faults' \in 0 .. MaxFaults
  BY <1>1, Zenon DEF IInv, ChainTypes, ClientTypes
<1>6. OnEthereum' = OnEthereum /\ \A tx : Drafted(tx) => Drafted(tx)'
  BY <1>1, Zenon DEF OnEthereum, Drafted
<1>7. ChainInv'
  BY <1>1, <1>6, Zenon DEF IInv, ChainInv
<1>8. AcceptedInv'
  BY <1>1, Zenon DEF IInv, AcceptedInv, Placed
<1>9. ASSUME NEW d \in Calls
      PROVE  JobInv(job[d])'
  <2>1. PICK k : k = job'[d]
    BY Zenon
  <2>2. JobInv(k)
    <3>1. d = c => job'[d] = j
      BY <1>3, Zenon
    <3>2. d # c => job'[d] = job[d]
      BY <1>3, Zenon
    <3>3. JobInv(job[d])
      BY Zenon DEF IInv
    <3>4. QED
      BY <2>1, <3>1, <3>2, <3>3, Zenon
  <2>3. JobInv(k)'
    BY <1>1, <1>2, <2>2, JobStays, Zenon
  <2>4. QED
    BY <2>1, <2>3, Zenon
<1>10. QED
  BY <1>1, <1>2, <1>4, <1>5, <1>7, <1>8, <1>9, ChainStep, Zenon

LEMMA FewerHolders ==
  ASSUME IInv, NEW c \in Calls, NEW j, Goto(c, j), j.pc # "nonce"
  PROVE  Holders' \subseteq Holders
<1>1. job' = [job EXCEPT ![c] = j] /\ job \in [Calls -> Jobs]
  BY Zenon DEF Goto, IInv, ClientTypes
<1>2. QED
  BY <1>1, Zenon DEF Holders

(* A call moves on, and has no nonce. *)
LEMMA JobMovesOn ==
  ASSUME IInv, NEW c \in Calls, NEW j \in Jobs, Goto(c, j), JobInv(j), j.pc # "nonce",
         UNCHANGED <<chain, drafts, sigs, log, accepted, faults>>
  PROVE  IInv'
<1>1. UNCHANGED <<chain, drafts, sigs, accepted, faults>> /\ log' = log
      /\ accepted \subseteq accepted' /\ drafts' = drafts
  BY Zenon
<1>2. LogInv'
  BY <1>1, LogStays, Zenon
<1>3. Made' <= MaxDrafts
  BY <1>1, FewerHolders, MadeLess, Zenon
<1>4. QED
  BY <1>1, <1>2, <1>3, JobMoves, Zenon

(* A call ends. *)
LEMMA JobEnds ==
  ASSUME IInv, NEW c \in Calls, Return(c),
         UNCHANGED <<chain, drafts, sigs, log, accepted, faults>>
  PROVE  IInv'
<1>1. Goto(c, IdleNow)
  BY Zenon DEF Return, IdleNow
<1>2. IdleNow.pc # "nonce" /\ IdleNow \in Jobs /\ JobInv(IdleNow)
  <2>1. IdleNow.pc = "idle"
    BY IdleFacts, Zenon
  <2>2. QED
    BY <2>1, IdleFacts, Zenon
<1>3. QED
  BY <1>1, <1>2, JobMovesOn, Zenon
-----------------------------------------------------------------------------
(* One lemma for each action: it preserves the invariant. *)

(* When all drafts are with the node, the nonce it suggests is new. *)
LEMMA ClearAbove ==
  ASSUME IInv, Clear
  PROVE  Above(PendingNonce)
<1> DEFINE P == PendingNonce
<1>1. P \in Nat /\ ~ Placed(P)
  BY PendingFacts, Zenon
<1>2. SUFFICES ASSUME NEW i \in OnEthereum PROVE drafts[i].tx.nonce < P
  BY Zenon DEF Above
<1>3. i \in DOMAIN drafts /\ drafts[i].tx \in EthTx /\ drafts[i].tx.nonce \in Nat
  BY EthereumDrafts, Zenon
<1>4. faults = 0 /\ drafts[i].tx \in accepted
  BY <1>3, Zenon DEF Clear
<1>5. Placed(drafts[i].tx.nonce)
  BY <1>3, <1>4, Zenon DEF IInv, AcceptedInv
<1>6. \A m \in 0 .. drafts[i].tx.nonce - 1 : Placed(m)
  BY <1>4, Zenon DEF IInv, NonceInv, PlacedBelow
<1> DEFINE n == drafts[i].tx.nonce
<1>7. n \in Nat /\ Placed(n) /\ \A m \in 0 .. n - 1 : Placed(m)
  BY <1>3, <1>5, <1>6, Zenon
<1> HIDE DEF n, P
<1>8. P \notin 0 .. n - 1 /\ P # n
  BY <1>1, <1>7, Zenon
<1>9. n < P
  BY <1>1, <1>7, <1>8
<1>10. QED
  BY <1>9, Zenon DEF n, P

LEMMA CreateEthereumStep ==
  ASSUME IInv, NEW c \in Calls, NEW r \in Requests, createEthereumTxHash(c, r)
  PROVE  IInv'
<1> DEFINE P == PendingNonce
           j == [pc |-> "nonce", req |-> r, nonce |-> P, clear |-> Clear]
<1>1. /\ job[c].pc = "idle" /\ r.net = "eth" /\ Made < MaxDrafts /\ Goto(c, j)
      /\ UNCHANGED <<chain, drafts, sigs, log, accepted, faults>>
  BY Zenon DEF createEthereumTxHash, Idle
<1>2. P \in Nat /\ Filled(P) /\ P <= Len(drafts) /\ \A m \in 0 .. P - 1 : Placed(m)
  BY PendingFacts, Zenon
<1>3. P < MaxDrafts
  BY <1>1, <1>2, DraftsBound, PaymentsAssumption
<1>4. Clear => Above(P)
  BY ClearAbove, Zenon
<1>5. Clear \in BOOLEAN
  BY Zenon DEF Clear
<1> HIDE DEF P
<1>6. j \in NonceJob
  BY <1>2, <1>5, Zenon DEF NonceJob
<1>7. j.pc = "nonce" /\ j.req = r /\ j.nonce = P /\ j.clear = Clear
  BY Zenon
<1> HIDE DEF j
<1>8. NonceOK(j)
  BY <1>1, <1>2, <1>3, <1>4, <1>7, Zenon DEF NonceOK, PlacedBelow
<1>9. j \in Jobs /\ JobInv(j)
  <2>1. j.pc \notin {"fields", "built"} /\ j.pc # "sent" /\ j.pc # "answered"
    BY <1>7, Zenon
  <2>2. QED
    BY <1>6, <1>8, <2>1, Zenon DEF Jobs, JobInv
<1>10. /\ UNCHANGED <<chain, drafts, sigs, accepted, faults>> /\ log' = log
       /\ accepted \subseteq accepted' /\ drafts' = drafts
  BY <1>1, Zenon
<1>11. c \notin Holders /\ Holders' \subseteq Holders \cup {c}
  <2>1. job' = [job EXCEPT ![c] = j] /\ job \in [Calls -> Jobs]
    BY <1>1, Zenon DEF Goto, IInv, ClientTypes
  <2>2. job[c].pc # "nonce"
    BY <1>1, Zenon
  <2>3. QED
    BY <2>1, <2>2, Zenon DEF Holders
<1>12. Made' <= MaxDrafts
  BY <1>1, <1>10, <1>11, MadeOneMore, Zenon
<1>13. LogInv'
  BY <1>10, LogStays, Zenon
<1>14. QED
  BY <1>1, <1>9, <1>10, <1>12, <1>13, JobMoves, Zenon

LEMMA SigFacts ==
  ASSUME IInv, NEW s \in sigs
  PROVE  s \in Sig
  BY Zenon DEF IInv, ClientTypes

LEMMA BuiltInv ==
  ASSUME NEW j, j.pc = "built" \/ j.pc = "fields", j.sig \in sigs
  PROVE  JobInv(j) /\ j.pc # "nonce"
<1>1. j.pc # "nonce" /\ j.pc # "sent" /\ j.pc # "answered"
  BY Zenon
<1>2. QED
  BY <1>1, Zenon DEF JobInv

LEMMA SendTxDataStep ==
  ASSUME IInv, NEW c \in Calls, NEW i \in OnEthereum, NEW s \in sigs, NEW ch \in Nat,
         SendTxData(c, i, s, ch)
  PROVE  IInv'
<1> DEFINE tx == drafts[i].tx
           cc == orDefault(ch, 1)
           j == [pc |-> "built", net |-> "eth", tx |-> tx, chain |-> cc, sig |-> s]
<1>1. Goto(c, j) /\ UNCHANGED <<chain, drafts, sigs, log, accepted, faults>>
  BY Zenon DEF SendTxData
<1>2. tx \in EthTx /\ s \in Sig
  BY EthereumDrafts, SigFacts, Zenon
<1>3. cc \in Nat
  BY Zenon DEF orDefault
<1> HIDE DEF tx, cc
<1>4. j \in EthBuilt /\ j.pc = "built" /\ j.sig = s
  BY <1>2, <1>3, Zenon DEF EthBuilt
<1> HIDE DEF j
<1>5. j \in Jobs /\ JobInv(j) /\ j.pc # "nonce"
  BY <1>4, BuiltInv, Zenon DEF Jobs
<1>6. QED
  BY <1>1, <1>5, JobMovesOn, Zenon

LEMMA SendFieldsStep ==
  ASSUME IInv, NEW c \in Calls, NEW i \in OnEthereum, NEW s \in sigs, NEW ch \in Nat,
         NEW given \in Nat, SendFields(c, i, s, ch, given)
  PROVE  IInv'
<1> DEFINE r == drafts[i].req
           n == Len(mined) + 1
           cc == orDefault(ch, 1)
           j == [pc |-> "fields", req |-> r, nonce |-> n, price |-> given,
                 chain |-> cc, sig |-> s]
<1>1. Goto(c, j) /\ UNCHANGED <<chain, drafts, sigs, log, accepted, faults>>
  BY Zenon DEF SendFields
<1>2. r \in Requests /\ s \in Sig
  BY EthereumDrafts, SigFacts, Zenon
<1>3. cc \in Nat /\ n \in Nat
  BY SequenceFacts DEF orDefault
<1> HIDE DEF r, n, cc
<1>4. j \in FieldsJob /\ j.pc = "fields" /\ j.sig = s
  BY <1>2, <1>3, Zenon DEF FieldsJob
<1> HIDE DEF j
<1>5. j \in Jobs /\ JobInv(j) /\ j.pc # "nonce"
  BY <1>4, BuiltInv, Zenon DEF Jobs
<1>6. QED
  BY <1>1, <1>5, JobMovesOn, Zenon

LEMMA RebuildStep ==
  ASSUME IInv, NEW c \in Calls, RebuildTx(c)
  PROVE  IInv'
<1> DEFINE r == job[c].req
           g == orDefault(r.gas, DefaultGas(FALSE))
           p == orDefault(job[c].price, price)
           tx == [nonce |-> job[c].nonce, to |-> r.to, value |-> r.amount,
                  gas |-> g, price |-> p, data |-> NoData]
           j == [pc |-> "built", net |-> "eth", tx |-> tx,
                 chain |-> job[c].chain, sig |-> job[c].sig]
<1>1. /\ job[c].pc = "fields" /\ Goto(c, j)
      /\ UNCHANGED <<chain, drafts, sigs, log, accepted, faults>>
  BY Zenon DEF RebuildTx
<1>2. job[c] \in Jobs /\ JobInv(job[c])
  BY Zenon DEF IInv, ClientTypes
<1>3. job[c] \in FieldsJob
  BY <1>1, <1>2, JobFacts, Zenon
<1>4. /\ r \in Requests /\ job[c].nonce \in Nat /\ job[c].price \in Nat
      /\ job[c].chain \in Nat /\ job[c].sig \in Sig
  BY <1>3, Zenon DEF FieldsJob
<1>5. /\ job[c].sig \in sigs
  BY <1>1, <1>2, Zenon DEF JobInv
<1>6. g \in Nat
  <2>1. DefaultGas(FALSE) \in Nat \ {0}
    BY DEF DefaultGas
  <2>2. r.gas \in Nat
    BY <1>4, RequestFacts, Zenon
  <2>3. QED
    BY <2>1, <2>2, DefaultType, Zenon
<1>7. p \in Nat
  <2>1. price \in Nat
    BY PriceType, Zenon DEF IInv, ChainTypes
  <2>2. QED
    BY <1>4, <2>1, Zenon DEF orDefault
<1>8. r.to \in Addresses /\ r.amount \in Nat /\ NoData \in [to : Addresses, amount : Nat]
  BY <1>4, RequestFacts, Zenon DEF NoData, Addresses
<1> HIDE DEF r, g, p
<1>9. tx \in EthTx
  BY <1>4, <1>6, <1>7, <1>8, Zenon DEF EthTx
<1> HIDE DEF tx
<1>10. j \in EthBuilt /\ j.pc = "built" /\ j.sig = job[c].sig
  BY <1>4, <1>9, Zenon DEF EthBuilt
<1> HIDE DEF j
<1>11. j \in Jobs /\ JobInv(j) /\ j.pc # "nonce"
  BY <1>5, <1>10, BuiltInv, Zenon DEF Jobs
<1>12. QED
  BY <1>1, <1>11, JobMovesOn, Zenon

LEMMA NewTXType ==
  ASSUME NEW r \in Requests, NEW inputs \in SUBSET Coins
  PROVE  NewTX(r, inputs) \in BtcTx
  BY RequestFacts, Zenon DEF NewTX, BtcTx

LEMMA SendBitcoinStep ==
  ASSUME IInv, NEW c \in Calls, NEW i \in DOMAIN drafts \ OnEthereum, NEW s \in sigs,
         SendBitcoin(c, i, s)
  PROVE  IInv'
<1>1. PICK inputs \in (SUBSET coins) \ {{}} :
        Goto(c, [pc |-> "built", net |-> "btc", tx |-> NewTX(drafts[i].req, inputs),
                 chain |-> 0, sig |-> s])
  BY Zenon DEF SendBitcoin
<1> DEFINE tx == NewTX(drafts[i].req, inputs)
           j == [pc |-> "built", net |-> "btc", tx |-> tx, chain |-> 0, sig |-> s]
<1>2. Goto(c, j) /\ UNCHANGED <<chain, drafts, sigs, log, accepted, faults>>
  BY <1>1, Zenon DEF SendBitcoin
<1>3. inputs \in SUBSET Coins
  BY <1>1, Zenon DEF IInv, ChainTypes
<1>4. drafts[i].req \in Requests
  <2>1. drafts[i] \in Draft
    BY SequenceFacts, Zenon
  <2>2. QED
    BY <2>1, Zenon DEF Draft
<1>5. tx \in BtcTx /\ s \in Sig
  BY <1>3, <1>4, NewTXType, SigFacts, Zenon
<1> HIDE DEF tx
<1>6. j \in BtcBuilt /\ j.pc = "built" /\ j.sig = s
  BY <1>5, Zenon DEF BtcBuilt
<1> HIDE DEF j
<1>7. j \in Jobs /\ JobInv(j) /\ j.pc # "nonce"
  BY <1>6, BuiltInv, Zenon DEF Jobs
<1>8. QED
  BY <1>2, <1>7, JobMovesOn, Zenon

LEMMA HashInjective ==
  ASSUME NEW t, NEW u, NEW a, NEW b, Hash(t, a) = Hash(u, b)
  PROVE  t = u /\ a = b
<1>1. Hash(t, a).tx = t /\ Hash(t, a).chain = a /\ Hash(u, b).tx = u /\ Hash(u, b).chain = b
  BY Zenon DEF Hash
<1>2. QED
  BY <1>1, Zenon

(* What a node accepts on Ethereum was drafted there. *)
LEMMA AcceptedDrafted ==
  ASSUME IInv, NEW t, Hash(t, 1) \in sigs
  PROVE  Drafted(t)
<1>1. PICK i \in DOMAIN drafts : Hash(t, 1) = Hash(drafts[i].tx, drafts[i].chain)
  BY Zenon DEF IInv, SigInv
<1>2. drafts[i].tx = t /\ drafts[i].chain = 1
  BY <1>1, HashInjective
<1>3. drafts[i].req.net = "eth"
  <2>1. drafts[i].chain # 0
    BY <1>2
  <2>2. QED
    BY <1>1, <2>1, Zenon DEF IInv, DraftInv
<1>4. QED
  BY <1>1, <1>2, <1>3, Zenon DEF Drafted, OnEthereum

(* A call that a node has answered. *)
LEMMA AnsweredJobs ==
  ASSUME IInv, NEW c \in Calls, NEW j \in Jobs, Goto(c, j),
         j.pc = "idle" \/ (j.pc = "sent" /\ j.tx \in accepted'),
         accepted \subseteq accepted', UNCHANGED <<drafts, sigs, faults>>, PlacedStays
  PROVE  /\ job' \in [Calls -> Jobs]
         /\ \A d \in Calls : JobInv(job[d])'
         /\ Made' <= MaxDrafts
<1>1. job' = [job EXCEPT ![c] = j] /\ job \in [Calls -> Jobs]
  BY Zenon DEF Goto, IInv, ClientTypes
<1>2. job' \in [Calls -> Jobs]
  BY <1>1, Zenon
<1>3. j.pc # "nonce" /\ j.pc \notin {"fields", "built"} /\ j.pc # "answered"
      /\ (j.pc = "sent" => j.tx \in accepted')
  BY Zenon
<1>4. drafts' = drafts /\ sigs \subseteq sigs' /\ faults' = faults
  BY Zenon
<1>5. Made' <= MaxDrafts
  BY <1>3, <1>4, FewerHolders, MadeLess, Zenon
<1>6. ASSUME NEW d \in Calls
      PROVE  JobInv(job[d])'
  <2>1. PICK k : k = job'[d]
    BY Zenon
  <2>2. CASE d = c
    <3>1. k = j
      BY <1>1, <2>1, <2>2, Zenon
    <3>2. JobInv(k)'
      BY <1>3, <3>1, Zenon DEF JobInv
    <3>3. QED
      BY <2>1, <3>2, Zenon
  <2>3. CASE d # c
    <3>1. k = job[d] /\ JobInv(job[d])
      BY <1>1, <2>1, <2>3, Zenon DEF IInv
    <3>2. JobInv(k)'
      BY <1>4, <3>1, JobStays, Zenon
    <3>3. QED
      BY <2>1, <3>2, Zenon
  <2>4. QED
    BY <2>2, <2>3, Zenon
<1>7. QED
  BY <1>2, <1>5, <1>6, Zenon

LEMMA EthereumAccepts ==
  ASSUME IInv, NEW c \in Calls, NEW t \in EthTx, Drafted(t), t.nonce >= Len(mined),
         accepted' = accepted \cup {t},
         pool' = {u \in pool : u.nonce # t.nonce} \cup {t}, coins' = coins,
         NEW j \in Jobs, Goto(c, j),
         j.pc = "idle" \/ (j.pc = "sent" /\ j.tx = t),
         UNCHANGED <<price, mined, funds, drafts, sigs, log, faults>>
  PROVE  IInv'
<1>1. /\ price' = price /\ mined' = mined /\ funds' = funds /\ drafts' = drafts
      /\ sigs' = sigs /\ log' = log /\ faults' = faults /\ UNCHANGED <<drafts, sigs, faults>>
      /\ accepted \subseteq accepted' /\ t \in accepted'
  BY Zenon
<1>2. PlacedStays
  <2>1. ASSUME NEW m \in Int, NEW u \in pool, u.nonce = m
        PROVE  \E v \in pool' : v.nonce = m
    BY <2>1, Zenon
  <2>2. QED
    BY <1>1, <2>1, Zenon DEF PlacedStays, Placed
<1>3. job' \in [Calls -> Jobs] /\ Made' <= MaxDrafts /\ \A d \in Calls : JobInv(job[d])'
  <2>1. j.pc = "idle" \/ (j.pc = "sent" /\ j.tx \in accepted')
    BY <1>1, Zenon
  <2>2. QED
    BY <1>1, <1>2, <2>1, AnsweredJobs, Zenon
<1>4. ChainTypes' /\ faults' \in 0 .. MaxFaults
  BY <1>1, Zenon DEF IInv, ChainTypes, ClientTypes
<1>5. \A tx : Drafted(tx) => Drafted(tx)'
  BY <1>1, DraftsStay, Zenon
<1>6. ChainInv'
  <2>1. \A u \in pool' : Drafted(u)' /\ u.nonce >= Len(mined')
    BY <1>1, <1>5, Zenon DEF IInv, ChainInv
  <2>2. \A u, v \in pool' : u.nonce = v.nonce => u = v
    BY Zenon DEF IInv, ChainInv
  <2>3. \A n \in DOMAIN mined' : Drafted(mined[n])' /\ mined'[n].nonce = n - 1
    BY <1>1, <1>5, Zenon DEF IInv, ChainInv
  <2>4. QED
    BY <2>1, <2>2, <2>3, Zenon DEF ChainInv
<1>7. AcceptedInv'
  <2>1. Placed(t.nonce)'
    BY Zenon DEF Placed
  <2>2. ASSUME faults = 0, NEW tx \in accepted, tx \in EthTx
        PROVE  Placed(tx.nonce)'
    <3>1. Placed(tx.nonce) /\ tx.nonce \in Int
      BY <2>2 DEF IInv, AcceptedInv, EthTx
    <3>2. QED
      BY <1>2, <3>1, Zenon DEF PlacedStays
  <2>3. QED
    BY <1>1, <2>1, <2>2, Zenon DEF AcceptedInv
<1>8. LogInv'
  BY <1>1, LogStays, Zenon
<1>9. QED
  BY <1>1, <1>2, <1>3, <1>4, <1>6, <1>7, <1>8, ChainStep, Zenon

LEMMA BitcoinAccepts ==
  ASSUME IInv, NEW c \in Calls, NEW t \in BtcTx,
         accepted' = accepted \cup {t}, pool' = pool, coins' \subseteq coins,
         NEW j \in Jobs, Goto(c, j),
         j.pc = "idle" \/ (j.pc = "sent" /\ j.tx = t),
         UNCHANGED <<price, mined, funds, drafts, sigs, log, faults>>
  PROVE  IInv'
<1>1. /\ price' = price /\ mined' = mined /\ funds' = funds /\ drafts' = drafts
      /\ sigs' = sigs /\ log' = log /\ faults' = faults /\ UNCHANGED <<drafts, sigs, faults>>
      /\ accepted \subseteq accepted' /\ t \in accepted'
  BY Zenon
<1>2. PlacedStays
  BY <1>1, Zenon DEF PlacedStays, Placed
<1>3. job' \in [Calls -> Jobs] /\ Made' <= MaxDrafts /\ \A d \in Calls : JobInv(job[d])'
  <2>1. j.pc = "idle" \/ (j.pc = "sent" /\ j.tx \in accepted')
    BY <1>1, Zenon
  <2>2. QED
    BY <1>1, <1>2, <2>1, AnsweredJobs, Zenon
<1>4. ChainTypes' /\ faults' \in 0 .. MaxFaults
  BY <1>1, Zenon DEF IInv, ChainTypes, ClientTypes
<1>5. \A tx : Drafted(tx) => Drafted(tx)'
  BY <1>1, DraftsStay, Zenon
<1>6. ChainInv'
  BY <1>1, <1>5, Zenon DEF IInv, ChainInv
<1>7. AcceptedInv'
  <2>1. t \notin EthTx
    BY TxsApart, Zenon
  <2>2. \A m : Placed(m) => Placed(m)'
    BY <1>1, Zenon DEF Placed
  <2>3. QED
    BY <1>1, <2>1, <2>2, Zenon DEF IInv, AcceptedInv
<1>8. LogInv'
  BY <1>1, LogStays, Zenon
<1>9. QED
  BY <1>1, <1>2, <1>3, <1>4, <1>6, <1>7, <1>8, ChainStep, Zenon

LEMMA SentFacts ==
  ASSUME NEW net, NEW t, (net = "eth" /\ t \in EthTx) \/ (net = "btc" /\ t \in BtcTx)
  PROVE  LET j == [pc |-> "sent", net |-> net, tx |-> t]
         IN  j \in Jobs /\ j.pc = "sent" /\ j.tx = t /\ j.net = net
<1> DEFINE j == [pc |-> "sent", net |-> net, tx |-> t]
<1>1. j \in EthSent \cup BtcSent /\ j.pc = "sent" /\ j.tx = t /\ j.net = net
  BY Zenon DEF EthSent, BtcSent
<1> HIDE DEF j
<1>2. j \in Jobs
  BY <1>1, Zenon DEF Jobs
<1>3. QED
  BY <1>1, <1>2, Zenon DEF j

LEMMA SendTransactionStep ==
  ASSUME IInv, NEW c \in Calls, SendTransaction(c)
  PROVE  IInv'
<1> DEFINE net == job[c].net
           t == job[c].tx
           j == [pc |-> "sent", net |-> net, tx |-> t]
<1>1. job[c] \in Jobs /\ JobInv(job[c]) /\ job[c].pc = "built"
  BY Zenon DEF IInv, ClientTypes, SendTransaction
<1>2. job[c] \in EthBuilt \cup BtcBuilt
  BY <1>1, JobFacts, Zenon
<1>3. (net = "eth" /\ t \in EthTx) \/ (net = "btc" /\ t \in BtcTx)
  BY <1>2, Zenon DEF EthBuilt, BtcBuilt
<1>4. job[c].sig \in sigs
  BY <1>1, Zenon DEF JobInv
<1>5. j \in Jobs /\ j.pc = "sent" /\ j.tx = t
  BY <1>3, SentFacts, Zenon
<1>6. IdleNow \in Jobs /\ IdleNow.pc = "idle"
  BY IdleFacts, Zenon
<1>7. UNCHANGED <<price, mined, funds, drafts, sigs, log, faults>>
  BY Zenon DEF SendTransaction
<1>8. CASE ~ Accepts(job[c])
  <2>1. Return(c) /\ UNCHANGED <<accepted, pool, coins>>
    BY <1>8, Zenon DEF SendTransaction
  <2>2. UNCHANGED <<chain, drafts, sigs, log, accepted, faults>>
    BY <1>7, <2>1, Zenon DEF chain
  <2>3. QED
    BY <2>1, <2>2, JobEnds, Zenon
<1>9. CASE Accepts(job[c])
  <2>1. /\ accepted' = accepted \cup {t}
        /\ \/ net = "eth" /\ pool' = {u \in pool : u.nonce # t.nonce} \cup {t} /\ coins' = coins
           \/ net # "eth" /\ coins' = coins \ t.inputs /\ pool' = pool
        /\ Goto(c, j) \/ Goto(c, IdleNow)
    BY <1>9, Zenon DEF SendTransaction, Return, IdleNow
  <2>2. PICK k \in Jobs : Goto(c, k) /\ (k.pc = "idle" \/ (k.pc = "sent" /\ k.tx = t))
    BY <1>5, <1>6, <2>1, Zenon
  <2>3. CASE net = "eth"
    <3>1. job[c].sig = Hash(t, job[c].chain) /\ job[c].chain = 1 /\ t.nonce >= Len(mined)
      BY <1>9, <2>3, Zenon DEF Accepts
    <3>2. Hash(t, 1) \in sigs
      BY <1>4, <3>1, Zenon
    <3> HIDE DEF t, net
    <3>3. Drafted(t)
      BY <3>2, AcceptedDrafted, Zenon
    <3>4. t \in EthTx
      BY <1>3, <2>3, Zenon
    <3>5. QED
      BY <1>7, <2>1, <2>2, <2>3, <3>1, <3>3, <3>4, EthereumAccepts, Zenon
  <2>4. CASE net # "eth"
    <3> HIDE DEF t, net
    <3>1. t \in BtcTx /\ coins' \subseteq coins /\ pool' = pool
      BY <1>3, <2>1, <2>4, Zenon
    <3>2. QED
      BY <1>7, <2>1, <2>2, <3>1, BitcoinAccepts, Zenon
  <2>5. QED
    BY <2>3, <2>4, Zenon
<1>10. QED
  BY <1>8, <1>9, Zenon

LEMMA RecordStep ==
  ASSUME IInv, NEW c \in Calls, recordCosign(c)
  PROVE  IInv'
<1> DEFINE t == job[c].tx
<1>1. job[c] \in Jobs /\ JobInv(job[c]) /\ job[c].pc = "sent"
  BY Zenon DEF IInv, ClientTypes, recordCosign
<1>2. job[c] \in EthSent \cup BtcSent
  BY <1>1, JobFacts, Zenon
<1>3. job[c].net = "eth" \/ t \in BtcTx
  BY <1>2, Zenon DEF EthSent, BtcSent
<1>4. t \in accepted
  BY <1>1, Zenon DEF JobInv
<1>5. UNCHANGED <<chain, drafts, sigs, accepted, faults>> /\ accepted' = accepted
      /\ drafts' = drafts /\ Goto(c, IdleNow)
  BY Zenon DEF recordCosign, Return, IdleNow
<1>6. LogInv'
  <2>1. \A e \in log' : \/ e \in log
                        \/ e = [tx |-> t]
                        \/ e = [from |-> "account"] /\ t \in BtcTx
    BY <1>3, Zenon DEF recordCosign
  <2> HIDE DEF t
  <2>2. QED
    BY <1>4, <1>5, <2>1, Zenon DEF IInv, LogInv
<1>7. IdleNow \in Jobs /\ JobInv(IdleNow) /\ IdleNow.pc = "idle"
  BY IdleFacts, Zenon
<1>8. IdleNow.pc # "nonce"
  BY <1>7, Zenon
<1>9. Made' <= MaxDrafts
  BY <1>5, <1>8, FewerHolders, MadeLess, Zenon
<1>10. QED
  BY <1>5, <1>6, <1>7, <1>9, JobMoves, Zenon

LEMMA AnswerStep ==
  ASSUME IInv, NEW c \in Calls, NEW e \in Int, NEW b \in BOOLEAN, NEW late \in BOOLEAN,
         Answer(c, e, b, late), b => Int64(funds) >= e /\ ~ late,
         UNCHANGED <<chain, drafts, sigs, log, accepted, faults>>
  PROVE  IInv'
<1> DEFINE enough == funds >= e
           j == [pc |-> "answered", sufficient |-> b, timedOut |-> late, enough |-> enough]
<1>1. Goto(c, j)
  BY Zenon DEF Answer
<1>2. funds \in Nat
  BY Zenon DEF IInv, ChainTypes
<1>3. Int64(funds) \in Int /\ Int64(funds) <= funds
  BY <1>2, CutBalance, Zenon
<1>4. b => enough
  BY <1>2, <1>3
<1>5. enough \in BOOLEAN
  BY <1>2
<1> HIDE DEF enough
<1>6. j \in AnsweredJob /\ j.pc = "answered"
  BY <1>5, Zenon DEF AnsweredJob
<1>7. j.sufficient = b /\ j.timedOut = late /\ j.enough = enough
  BY Zenon
<1> HIDE DEF j
<1>8. j.sufficient => j.enough /\ ~ j.timedOut
  BY <1>4, <1>7, Zenon
<1>9. j.pc # "nonce" /\ j.pc # "sent" /\ j.pc \notin {"fields", "built"}
  BY <1>6, Zenon
<1>10. j \in Jobs /\ JobInv(j)
  BY <1>6, <1>8, <1>9, Zenon DEF Jobs, JobInv
<1>11. QED
  BY <1>1, <1>9, <1>10, JobMovesOn, Zenon

LEMMA ExpectedInt == Expected \subseteq Int
<1>1. Expected \subseteq 0 .. (Word \div 2) - 1
  BY PaymentsAssumption, Zenon
<1>2. QED
  BY <1>1

LEMMA CheckBalanceStep ==
  ASSUME IInv, NEW c \in Calls, NEW e \in Expected, checkBalance(c, e)
  PROVE  IInv'
<1> DEFINE b == Int64(funds) >= e
<1>1. Answer(c, e, b, FALSE) /\ UNCHANGED <<chain, drafts, sigs, log, accepted, faults>>
  BY Zenon DEF checkBalance
<1>2. e \in Int /\ FALSE \in BOOLEAN /\ (b => Int64(funds) >= e /\ ~ FALSE)
  BY ExpectedInt, Zenon
<1>3. b \in BOOLEAN
  <2>1. Int64(funds) \in Int
    BY CutBalance, Zenon DEF IInv, ChainTypes
  <2>2. QED
    BY <1>2, <2>1
<1> HIDE DEF b
<1>4. QED
  BY <1>1, <1>2, <1>3, AnswerStep, Zenon

LEMMA WaitForBalanceStep ==
  ASSUME IInv, NEW c \in Calls, NEW e \in Expected, waitForBalance(c, e)
  PROVE  IInv'
<1> DEFINE j == [pc |-> "waiting", expected |-> e]
<1>1. Goto(c, j) /\ UNCHANGED <<chain, drafts, sigs, log, accepted, faults>>
  BY Zenon DEF waitForBalance
<1>2. j \in WaitingJob /\ j.pc = "waiting"
  BY Zenon DEF WaitingJob
<1> HIDE DEF j
<1>3. j.pc # "nonce" /\ j.pc # "sent" /\ j.pc # "answered" /\ j.pc \notin {"fields", "built"}
  BY <1>2, Zenon
<1>4. j \in Jobs /\ JobInv(j)
  BY <1>2, <1>3, Zenon DEF Jobs, JobInv
<1>5. QED
  BY <1>1, <1>3, <1>4, JobMovesOn, Zenon

LEMMA WaitingFacts ==
  ASSUME IInv, NEW c \in Calls, job[c].pc = "waiting"
  PROVE  job[c].expected \in Int
<1>1. job[c] \in WaitingJob
  BY JobFacts, Zenon DEF IInv, ClientTypes
<1>2. job[c].expected \in Expected
  BY <1>1, Zenon DEF WaitingJob
<1>3. QED
  BY <1>2, ExpectedInt, Zenon

LEMMA PollStep ==
  ASSUME IInv, NEW c \in Calls, Poll(c) \/ TimeOut(c)
  PROVE  IInv'
<1>1. /\ job[c].pc = "waiting"
      /\ UNCHANGED <<chain, drafts, sigs, log, accepted, faults>>
  BY Zenon DEF Poll, TimeOut
<1> DEFINE e == job[c].expected
<1>2. e \in Int /\ TRUE \in BOOLEAN /\ FALSE \in BOOLEAN
  BY <1>1, WaitingFacts, Zenon
<1>3. CASE Poll(c)
  <2>1. Answer(c, e, TRUE, FALSE) /\ (TRUE => Int64(funds) >= e /\ ~ FALSE)
    BY <1>3, Zenon DEF Poll
  <2> HIDE DEF e
  <2>2. QED
    BY <1>1, <1>2, <2>1, AnswerStep, Zenon
<1>4. CASE TimeOut(c)
  <2>1. Answer(c, e, FALSE, TRUE) /\ (FALSE => Int64(funds) >= e /\ ~ TRUE)
    BY <1>4, Zenon DEF TimeOut
  <2> HIDE DEF e
  <2>2. QED
    BY <1>1, <1>2, <2>1, AnswerStep, Zenon
<1>5. QED
  BY <1>3, <1>4, Zenon

LEMMA ReturnStep ==
  ASSUME IInv, NEW c \in Calls, Respond(c) \/ NodeError(c)
  PROVE  IInv'
<1>1. Return(c) /\ UNCHANGED <<chain, drafts, sigs, log, accepted, faults>>
  BY Zenon DEF Respond, NodeError
<1>2. QED
  BY <1>1, JobEnds, Zenon

(* The calls, when only the chain moves. *)
LEMMA CallsStay ==
  ASSUME IInv, UNCHANGED <<job, drafts, sigs, log, accepted>>,
         PlacedStays \/ faults' # 0, faults' = faults \/ faults' # 0
  PROVE  /\ job' \in [Calls -> Jobs]
         /\ \A d \in Calls : JobInv(job[d])'
         /\ Made' <= MaxDrafts
         /\ LogInv'
<1>1. /\ job' = job /\ drafts' = drafts /\ sigs \subseteq sigs' /\ log' = log
      /\ accepted \subseteq accepted'
  BY Zenon
<1>2. job' \in [Calls -> Jobs] /\ Holders' \subseteq Holders
  BY <1>1, Zenon DEF IInv, ClientTypes, Holders
<1>3. ASSUME NEW d \in Calls
      PROVE  JobInv(job[d])'
  <2>1. PICK k : k = job[d]
    BY Zenon
  <2>2. JobInv(k)'
    <3>1. JobInv(k)
      BY <2>1, Zenon DEF IInv
    <3>2. QED
      BY <1>1, <3>1, JobStays, Zenon
  <2>3. k = job'[d]
    BY <1>1, <2>1, Zenon
  <2>4. QED
    BY <2>2, <2>3, Zenon
<1>4. Made' <= MaxDrafts
  BY <1>1, <1>2, MadeLess, Zenon
<1>5. LogInv'
  BY <1>1, LogStays, Zenon
<1>6. QED
  BY <1>2, <1>3, <1>4, <1>5, Zenon

LEMMA PriceMovesStep ==
  ASSUME IInv, PriceMoves
  PROVE  IInv'
<1>1. /\ UNCHANGED <<job, drafts, sigs, log, accepted>> /\ UNCHANGED <<drafts, sigs>>
      /\ mined' = mined /\ pool' = pool /\ coins' = coins /\ funds' = funds
      /\ faults' = faults /\ accepted' = accepted /\ drafts' = drafts /\ price' \in Prices
      /\ accepted \subseteq accepted'
  BY Zenon DEF PriceMoves
<1>2. \A m : Placed(m) => Placed(m)'
  BY <1>1, Zenon DEF Placed
<1>3. PlacedStays
  BY <1>2, Zenon DEF PlacedStays
<1>4. ChainTypes' /\ faults' \in 0 .. MaxFaults
  BY <1>1, Zenon DEF IInv, ChainTypes, ClientTypes
<1>5. \A tx : Drafted(tx) => Drafted(tx)'
  BY <1>1, DraftsStay, Zenon
<1>6. ChainInv'
  BY <1>1, <1>5, Zenon DEF IInv, ChainInv
<1>7. AcceptedInv'
  BY <1>1, <1>2, Zenon DEF IInv, AcceptedInv
<1>8. QED
  BY <1>1, <1>3, <1>4, <1>6, <1>7, CallsStay, ChainStep, Zenon

LEMMA MineStep ==
  ASSUME IInv, Mine
  PROVE  IInv'
<1>1. PICK t \in pool : /\ t.nonce = Len(mined) /\ mined' = Append(mined, t)
                        /\ pool' = pool \ {t}
                        /\ funds' = IF t.to = Recipient THEN funds + t.value ELSE funds
  BY Zenon DEF Mine
<1>2. /\ UNCHANGED <<job, drafts, sigs, log, accepted>> /\ UNCHANGED <<drafts, sigs>>
      /\ price' = price /\ coins' = coins /\ faults' = faults /\ accepted' = accepted
      /\ drafts' = drafts /\ accepted \subseteq accepted'
  BY Zenon DEF Mine
<1>3. t \in EthTx /\ Drafted(t) /\ t.value \in Nat
  <2>1. t \in EthTx /\ Drafted(t)
    BY PoolFacts, Zenon
  <2>2. QED
    BY <2>1, Zenon DEF EthTx
<1>4. mined \in Seq(EthTx) /\ funds \in Nat
  BY Zenon DEF IInv, ChainTypes
<1>5. /\ mined' \in Seq(EthTx) /\ Len(mined) \in Nat /\ Len(mined') = Len(mined) + 1
      /\ \A n \in DOMAIN mined' : \/ n \in DOMAIN mined /\ mined'[n] = mined[n]
                                  \/ n = Len(mined) + 1 /\ mined'[n] = t
  BY <1>1, <1>3, <1>4
<1>6. funds' \in Nat
  BY <1>1, <1>3, <1>4
<1>7. ChainTypes' /\ faults' \in 0 .. MaxFaults
  BY <1>1, <1>2, <1>5, <1>6, Zenon DEF IInv, ChainTypes, ClientTypes
<1>8. \A tx : Drafted(tx) => Drafted(tx)'
  BY <1>2, DraftsStay, Zenon
<1>9. ChainInv'
  <2>1. ASSUME NEW u \in pool'
        PROVE  Drafted(u)' /\ u.nonce >= Len(mined')
    <3>1. u \in pool /\ u # t
      BY <1>1, <2>1, Zenon
    <3>2. u.nonce # t.nonce
      BY <3>1, Zenon DEF IInv, ChainInv
    <3>3. Drafted(u) /\ u.nonce \in Nat /\ u.nonce >= Len(mined)
      BY <3>1, PoolFacts, Zenon
    <3>4. u.nonce >= Len(mined')
      BY <1>1, <1>5, <3>2, <3>3
    <3>5. QED
      BY <1>8, <3>3, <3>4, Zenon
  <2>2. \A u, v \in pool' : u.nonce = v.nonce => u = v
    BY <1>1, Zenon DEF IInv, ChainInv
  <2>3. ASSUME NEW n \in DOMAIN mined'
        PROVE  Drafted(mined[n])' /\ mined'[n].nonce = n - 1
    <3>1. CASE n \in DOMAIN mined /\ mined'[n] = mined[n]
      <4>1. PICK u : u = mined'[n]
        BY Zenon
      <4>2. Drafted(u) /\ u.nonce = n - 1
        BY <3>1, <4>1, Zenon DEF IInv, ChainInv
      <4>3. Drafted(u)'
        BY <1>8, <4>2, Zenon
      <4>4. QED
        BY <4>1, <4>2, <4>3, Zenon
    <3>2. CASE n = Len(mined) + 1 /\ mined'[n] = t
      <4>1. Drafted(t)'
        BY <1>3, <1>8, Zenon
      <4>2. t.nonce = n - 1
        BY <1>1, <1>5, <3>2
      <4>3. QED
        BY <3>2, <4>1, <4>2, Zenon
    <3>3. QED
      BY <1>5, <3>1, <3>2, Zenon
  <2>4. QED
    BY <2>1, <2>2, <2>3, Zenon DEF ChainInv
<1>10. ASSUME NEW m \in Int, Placed(m)
       PROVE  Placed(m)'
  <2>1. CASE m < Len(mined) \/ m = Len(mined)
    <3>1. m < Len(mined')
      BY <1>5, <2>1
    <3>2. QED
      BY <3>1, Zenon DEF Placed
  <2>2. CASE m # Len(mined) /\ \E u \in pool : u.nonce = m
    BY <1>1, <2>2, Zenon DEF Placed
  <2>3. QED
    BY <1>10, <2>1, <2>2, Zenon DEF Placed
<1>11. PlacedStays
  BY <1>10, Zenon DEF PlacedStays
<1>12. AcceptedInv'
  <2>1. ASSUME faults = 0, NEW tx \in accepted, tx \in EthTx
        PROVE  Placed(tx.nonce)'
    <3>1. Placed(tx.nonce) /\ tx.nonce \in Int
      BY <2>1 DEF IInv, AcceptedInv, EthTx
    <3>2. QED
      BY <1>10, <3>1, Zenon
  <2>2. QED
    BY <1>2, <2>1, Zenon DEF AcceptedInv
<1>13. QED
  BY <1>2, <1>7, <1>9, <1>11, <1>12, CallsStay, ChainStep, Zenon

LEMMA FaultFacts ==
  ASSUME IInv, Fault
  PROVE  faults' # 0 /\ faults' \in 0 .. MaxFaults
<1>1. faults \in 0 .. MaxFaults /\ MaxFaults \in Nat
  BY PaymentsAssumption, Zenon DEF IInv, ClientTypes
<1>2. QED
  BY <1>1 DEF Fault

LEMMA RestartStep ==
  ASSUME IInv, Restart
  PROVE  IInv'
<1>1. /\ job' = [c \in Calls |-> IdleNow] /\ UNCHANGED <<drafts, sigs>>
      /\ price' = price /\ mined' = mined /\ pool' = pool /\ coins' = coins
      /\ funds' = funds /\ drafts' = drafts /\ log' = log /\ accepted' = accepted
      /\ accepted \subseteq accepted'
  BY Zenon DEF Restart, IdleNow, chain
<1>2. faults' # 0 /\ faults' \in 0 .. MaxFaults
  BY FaultFacts, Zenon DEF Restart
<1>3. IdleNow \in Jobs /\ IdleNow.pc = "idle"
  BY IdleFacts, Zenon
<1>4. job' \in [Calls -> Jobs]
  BY <1>1, <1>3, Zenon
<1>5. IdleNow.pc # "nonce" /\ IdleNow.pc # "sent" /\ IdleNow.pc # "answered"
      /\ IdleNow.pc \notin {"fields", "built"}
  BY <1>3, Zenon
<1>6. ASSUME NEW d \in Calls
      PROVE  JobInv(job[d])'
  <2>1. job'[d] = IdleNow
    BY <1>1, Zenon
  <2>2. QED
    BY <1>5, <2>1, Zenon DEF JobInv
<1>7. Holders' \subseteq Holders
  BY <1>1, <1>5, Zenon DEF Holders
<1>8. Made' <= MaxDrafts
  BY <1>1, <1>7, MadeLess, Zenon
<1>9. ChainTypes'
  BY <1>1, Zenon DEF IInv, ChainTypes
<1>10. \A tx : Drafted(tx) => Drafted(tx)'
  BY <1>1, DraftsStay, Zenon
<1>11. ChainInv'
  BY <1>1, <1>10, Zenon DEF IInv, ChainInv
<1>12. AcceptedInv'
  BY <1>2, Zenon DEF AcceptedInv
<1>13. LogInv'
  BY <1>1, LogStays, Zenon
<1>14. QED
  BY <1>1, <1>2, <1>4, <1>6, <1>8, <1>9, <1>11, <1>12, <1>13, ChainStep, Zenon

LEMMA EvictStep ==
  ASSUME IInv, Evict
  PROVE  IInv'
<1>1. /\ UNCHANGED <<job, drafts, sigs, log, accepted>> /\ UNCHANGED <<drafts, sigs>>
      /\ price' = price /\ mined' = mined /\ coins' = coins /\ funds' = funds
      /\ drafts' = drafts /\ accepted' = accepted /\ accepted \subseteq accepted'
      /\ pool' \subseteq pool
  BY Zenon DEF Evict
<1>2. faults' # 0 /\ faults' \in 0 .. MaxFaults
  BY FaultFacts, Zenon DEF Evict
<1>3. ChainTypes'
  BY <1>1, Zenon DEF IInv, ChainTypes
<1>4. \A tx : Drafted(tx) => Drafted(tx)'
  BY <1>1, DraftsStay, Zenon
<1>5. ChainInv'
  BY <1>1, <1>4, Zenon DEF IInv, ChainInv
<1>6. AcceptedInv'
  BY <1>2, Zenon DEF AcceptedInv
<1>7. QED
  BY <1>1, <1>2, <1>3, <1>5, <1>6, CallsStay, ChainStep, Zenon

LEMMA CoSignStep ==
  ASSUME IInv, NEW i \in DOMAIN drafts, CoSign(i)
  PROVE  IInv'
<1> DEFINE h == Hash(drafts[i].tx, drafts[i].chain)
<1>1. /\ sigs' = sigs \cup {h} /\ sigs \subseteq sigs' /\ drafts' = drafts /\ job' = job
      /\ price' = price /\ mined' = mined /\ pool' = pool /\ coins' = coins
      /\ funds' = funds /\ log' = log /\ accepted' = accepted /\ faults' = faults
      /\ accepted \subseteq accepted' /\ UNCHANGED chain
  BY Zenon DEF CoSign, chain
<1>2. h \in Sig
  <2>1. drafts[i] \in Draft
    BY SequenceFacts, Zenon
  <2>2. drafts[i].tx \in EthTx \cup BtcTx /\ drafts[i].chain \in Nat
    BY <2>1, Zenon DEF Draft
  <2>3. QED
    BY <2>2, Zenon DEF Hash, Sig
<1> HIDE DEF h
<1>3. ChainTypes' /\ ClientTypes'
  BY <1>1, <1>2, Zenon DEF IInv, ChainTypes, ClientTypes
<1>4. OnEthereum' = OnEthereum
  BY <1>1, Zenon DEF OnEthereum
<1>5. \A n : (Drafted(n) => Drafted(n)') /\ (Filled(n) => Filled(n)')
            /\ (PlacedBelow(n) => PlacedBelow(n)')
  BY <1>1, <1>4, Zenon DEF Drafted, Filled, PlacedBelow, Placed
<1>6. DraftInv' /\ ClearInv'
  BY <1>1, <1>4, Zenon DEF IInv, DraftInv, ClearInv
<1>7. SigInv'
  <2>1. ASSUME NEW s \in sigs'
        PROVE  \E k \in DOMAIN drafts : s = Hash(drafts[k].tx, drafts[k].chain)
    BY <1>1, <2>1, Zenon DEF IInv, SigInv, h
  <2>2. QED
    BY <1>1, <2>1, Zenon DEF SigInv
<1>8. ChainInv'
  BY <1>1, <1>5, Zenon DEF IInv, ChainInv
<1>9. LogInv'
  BY <1>1, LogStays, Zenon
<1>10. NonceInv'
  BY <1>1, <1>4, <1>5, Zenon DEF IInv, NonceInv
<1>11. AcceptedInv'
  BY <1>1, Zenon DEF IInv, AcceptedInv, Placed
<1>12. Made' <= MaxDrafts
  <2>1. Holders' \subseteq Holders
    BY <1>1, Zenon DEF Holders
  <2>2. QED
    BY <1>1, <2>1, MadeLess, Zenon
<1>13. ASSUME NEW d \in Calls
       PROVE  JobInv(job[d])'
  <2>1. PICK k : k = job[d]
    BY Zenon
  <2>2. JobInv(k)
    BY <2>1, Zenon DEF IInv
  <2>3. JobInv(k)'
    BY <1>1, <2>2, SamePlaced, JobStays, Zenon
  <2>4. k = job'[d]
    BY <1>1, <2>1, Zenon
  <2>5. QED
    BY <2>3, <2>4, Zenon
<1>14. QED
  BY <1>3, <1>6, <1>7, <1>8, <1>9, <1>10, <1>11, <1>12, <1>13, Zenon DEF IInv

(* One more draft. *)
LEMMA DraftsGrow ==
  ASSUME IInv, NEW d \in Draft, drafts' = Append(drafts, d)
  PROVE  /\ drafts' \in Seq(Draft)
         /\ Len(drafts') = Len(drafts) + 1
         /\ \A i \in DOMAIN drafts :
              i \in DOMAIN drafts' /\ drafts'[i] = drafts[i] /\ i < Len(drafts) + 1
         /\ \A i \in DOMAIN drafts' :
              i \in DOMAIN drafts \/ (i = Len(drafts) + 1 /\ drafts'[i] = d)
         /\ Len(drafts) + 1 \in DOMAIN drafts' /\ drafts'[Len(drafts) + 1] = d
<1>1. drafts \in Seq(Draft)
  BY Zenon DEF IInv, ClientTypes
<1>2. QED
  BY <1>1

DraftOK(d) ==
  IF d.req.net = "eth"
    THEN /\ d.tx \in EthTx
         /\ d.tx = newTransaction(d.req, d.tx.nonce, d.tx.price)
         /\ d.chain > 0
         /\ Filled(d.tx.nonce) /\ d.tx.nonce < MaxDrafts /\ PlacedBelow(d.tx.nonce)
         /\ d.clear => Above(d.tx.nonce)
    ELSE d.tx \in BtcTx /\ d.chain = 0

LEMMA DraftStep ==
  ASSUME IInv, NEW d \in Draft, drafts' = Append(drafts, d), DraftOK(d),
         UNCHANGED <<chain, sigs, log, accepted, faults>>,
         job' \in [Calls -> Jobs], Made' <= MaxDrafts,
         \A c \in Calls : JobInv(job[c])'
  PROVE  IInv'
<1> DEFINE top == Len(drafts) + 1
<1>1. /\ sigs' = sigs /\ price' = price /\ mined' = mined /\ pool' = pool /\ coins' = coins
      /\ funds' = funds /\ log' = log /\ accepted' = accepted /\ faults' = faults
      /\ accepted \subseteq accepted'
  BY Zenon DEF chain
<1>2. /\ drafts' \in Seq(Draft)
      /\ \A i \in DOMAIN drafts : i \in DOMAIN drafts' /\ drafts'[i] = drafts[i] /\ i < top
      /\ \A i \in DOMAIN drafts' : i \in DOMAIN drafts \/ (i = top /\ drafts'[i] = d)
      /\ top \in DOMAIN drafts' /\ drafts'[top] = d
  BY DraftsGrow, Zenon
<1>3. Len(drafts) \in Nat /\ DOMAIN drafts = 1 .. Len(drafts)
  BY SequenceFacts, Zenon
<1>4. \A i \in DOMAIN drafts : ~ (top < i) /\ i # top
  BY <1>3
<1>5. ~ (top < top)
  BY <1>3
<1> HIDE DEF top
<1>6. ChainTypes' /\ ClientTypes'
  BY <1>1, <1>2, Zenon DEF IInv, ChainTypes, ClientTypes
<1>7. /\ \A i \in OnEthereum : i \in OnEthereum'
      /\ \A i \in OnEthereum' : \/ i \in OnEthereum /\ drafts'[i] = drafts[i]
                                \/ i = top /\ drafts'[i] = d /\ d.req.net = "eth"
  BY <1>2, Zenon DEF OnEthereum
<1>8. \A i \in OnEthereum : i \in DOMAIN drafts /\ drafts'[i] = drafts[i]
  BY <1>2, Zenon DEF OnEthereum
<1>9. \A n : /\ Drafted(n) => Drafted(n)'
             /\ Filled(n) => Filled(n)'
             /\ PlacedBelow(n) => PlacedBelow(n)'
  BY <1>1, <1>7, <1>8, Zenon DEF Drafted, Filled, PlacedBelow, Placed
<1>10. DraftInv'
  <2>1. ASSUME NEW i \in DOMAIN drafts'
        PROVE  IF drafts'[i].req.net = "eth"
                 THEN /\ drafts'[i].tx \in EthTx
                      /\ drafts'[i].tx = newTransaction(drafts'[i].req, drafts'[i].tx.nonce, drafts'[i].tx.price)
                      /\ drafts'[i].chain > 0
                 ELSE drafts'[i].tx \in BtcTx /\ drafts'[i].chain = 0
    <3>1. CASE i \in DOMAIN drafts
      <4>1. drafts'[i] = drafts[i]
        BY <1>2, <3>1, Zenon
      <4>2. QED
        BY <3>1, <4>1, Zenon DEF IInv, DraftInv
    <3>2. CASE drafts'[i] = d
      BY <3>2, Zenon DEF DraftOK
    <3>3. QED
      BY <1>2, <3>1, <3>2, Zenon
  <2>2. QED
    BY <2>1, Zenon DEF DraftInv
<1>11. SigInv'
  BY <1>1, <1>2, Zenon DEF IInv, SigInv
<1>12. ChainInv'
  BY <1>1, <1>9, Zenon DEF IInv, ChainInv
<1>13. LogInv'
  BY <1>1, LogStays, Zenon
<1>14. NonceInv'
  <2>1. ASSUME NEW n, Filled(n), n < MaxDrafts, PlacedBelow(n)
        PROVE  Filled(n)' /\ n < MaxDrafts /\ PlacedBelow(n)'
    BY <1>9, <2>1, Zenon
  <2>2. ASSUME NEW i \in OnEthereum'
        PROVE  /\ Filled(drafts[i].tx.nonce)' /\ drafts'[i].tx.nonce < MaxDrafts
               /\ PlacedBelow(drafts[i].tx.nonce)'
    <3>1. PICK n : n = drafts'[i].tx.nonce
      BY Zenon
    <3>2. Filled(n) /\ n < MaxDrafts /\ PlacedBelow(n)
      <4>1. CASE i \in OnEthereum /\ drafts'[i] = drafts[i]
        BY <3>1, <4>1, Zenon DEF IInv, NonceInv
      <4>2. CASE drafts'[i] = d /\ d.req.net = "eth"
        BY <3>1, <4>2, Zenon DEF DraftOK
      <4>3. QED
        BY <1>7, <4>1, <4>2, Zenon
    <3>3. Filled(n)' /\ n < MaxDrafts /\ PlacedBelow(n)'
      BY <2>1, <3>2, Zenon
    <3>4. QED
      BY <3>1, <3>3, Zenon
  <2>3. QED
    BY <2>2, Zenon DEF NonceInv
<1>15. ClearInv'
  <2>1. ASSUME NEW i \in OnEthereum', NEW j \in OnEthereum', i < j, drafts'[j].clear
        PROVE  drafts'[i].tx.nonce < drafts'[j].tx.nonce
    <3>1. CASE i \in OnEthereum /\ j \in OnEthereum
      BY <1>8, <2>1, <3>1, Zenon DEF IInv, ClearInv
    <3>2. CASE i \in OnEthereum /\ j = top /\ drafts'[j] = d /\ d.req.net = "eth"
      <4>1. Above(d.tx.nonce)
        BY <2>1, <3>2, Zenon DEF DraftOK
      <4>2. QED
        BY <1>8, <3>2, <4>1, Zenon DEF Above
    <3>3. i # top
      BY <1>4, <1>5, <1>7, <1>8, <2>1, Zenon
    <3>4. QED
      BY <1>7, <3>1, <3>2, <3>3, Zenon
  <2>2. QED
    BY <2>1, Zenon DEF ClearInv
<1>16. AcceptedInv'
  BY <1>1, Zenon DEF IInv, AcceptedInv, Placed
<1>17. QED
  BY <1>6, <1>10, <1>11, <1>12, <1>13, <1>14, <1>15, <1>16, Zenon DEF IInv

(* A call keeps its nonce while a draft is added. *)
LEMMA JobOvertaken ==
  ASSUME IInv, NEW d \in Draft, drafts' = Append(drafts, d),
         UNCHANGED <<chain, sigs, log, accepted, faults>>,
         NEW k, JobInv(k), d.req.net # "eth" \/ k.pc # "nonce" \/ ~ k.clear
  PROVE  JobInv(k)'
<1>1. /\ sigs' = sigs /\ mined' = mined /\ pool' = pool
      /\ accepted' = accepted /\ faults' = faults
  BY Zenon DEF chain
<1>2. /\ \A i \in DOMAIN drafts : i \in DOMAIN drafts' /\ drafts'[i] = drafts[i]
      /\ \A i \in DOMAIN drafts' : i \in DOMAIN drafts \/ drafts'[i] = d
  BY DraftsGrow, Zenon
<1>3. \A i \in OnEthereum : i \in OnEthereum' /\ drafts'[i] = drafts[i]
  BY <1>2, Zenon DEF OnEthereum
<1>4. d.req.net # "eth" => \A i \in OnEthereum' : i \in OnEthereum
  BY <1>2, Zenon DEF OnEthereum
<1>5. \A n : (Filled(n) => Filled(n)') /\ (PlacedBelow(n) => PlacedBelow(n)')
  BY <1>1, <1>3, Zenon DEF Filled, PlacedBelow, Placed
<1>6. d.req.net # "eth" => \A n : Above(n) => Above(n)'
  BY <1>3, <1>4, Zenon DEF Above
<1>7. k.pc = "nonce" => NonceOK(k)'
  BY <1>5, <1>6, Zenon DEF JobInv, NonceOK
<1>8. QED
  BY <1>1, <1>7, Zenon DEF JobInv

LEMMA CreateBitcoinStep ==
  ASSUME IInv, NEW c \in Calls, NEW r \in Requests, createBitcoinTxHash(c, r)
  PROVE  IInv'
<1>1. PICK inputs \in (SUBSET coins) \ {{}} :
        drafts' = Append(drafts, [req |-> r, tx |-> NewTX(r, inputs), chain |-> 0, clear |-> FALSE])
  BY Zenon DEF createBitcoinTxHash
<1> DEFINE tx == NewTX(r, inputs)
           d == [req |-> r, tx |-> tx, chain |-> 0, clear |-> FALSE]
<1>2. r.net = "btc" /\ Made < MaxDrafts /\ job' = job
      /\ UNCHANGED <<chain, sigs, log, accepted, faults>>
  BY Zenon DEF createBitcoinTxHash
<1>3. drafts' = Append(drafts, d)
  BY <1>1, Zenon
<1>4. tx \in BtcTx
  <2>1. inputs \in SUBSET Coins
    BY <1>1, Zenon DEF IInv, ChainTypes
  <2>2. QED
    BY <2>1, NewTXType, Zenon
<1> HIDE DEF tx
<1>5. d \in Draft /\ d.req = r /\ d.tx = tx /\ d.chain = 0
  BY <1>4, Zenon DEF Draft
<1> HIDE DEF d
<1>6. d.req.net # "eth"
  BY <1>2, <1>5, Zenon
<1>7. DraftOK(d)
  BY <1>4, <1>5, <1>6, Zenon DEF DraftOK
<1>8. ASSUME NEW e \in Calls
      PROVE  JobInv(job[e])'
  <2>1. PICK k : k = job[e]
    BY Zenon
  <2>2. JobInv(k)
    BY <2>1, Zenon DEF IInv
  <2>3. JobInv(k)'
    BY <1>2, <1>3, <1>5, <1>6, <2>2, JobOvertaken, Zenon
  <2>4. k = job'[e]
    BY <1>2, <2>1, Zenon
  <2>5. QED
    BY <2>3, <2>4, Zenon
<1>9. Made' <= MaxDrafts
  <2>1. Holders' = Holders
    BY <1>2, Zenon DEF Holders
  <2>2. Len(drafts') = Len(drafts) + 1
    BY <1>3, <1>5, DraftsGrow, Zenon
  <2>3. QED
    BY <1>2, <2>1, <2>2, MadeOther, Zenon
<1>10. job' \in [Calls -> Jobs]
  BY <1>2, Zenon DEF IInv, ClientTypes
<1>11. QED
  BY <1>2, <1>3, <1>5, <1>7, <1>8, <1>9, <1>10, DraftStep, Zenon

LEMMA OvertakenFacts ==
  ASSUME NEW k \in Jobs, JobInv(k)
  PROVE  /\ Overtaken(k) \in Jobs /\ JobInv(Overtaken(k))
         /\ Overtaken(k).pc = k.pc
         /\ Overtaken(k).pc # "nonce" \/ ~ Overtaken(k).clear
<1>1. CASE k.pc # "nonce"
  BY <1>1, Zenon DEF Overtaken
<1>2. CASE k.pc = "nonce"
  <2> DEFINE o == [k EXCEPT !.clear = FALSE]
  <2>1. Overtaken(k) = o
    BY <1>2, Zenon DEF Overtaken
  <2>2. k \in NonceJob
    BY <1>2, JobFacts, Zenon
  <2>3. o \in NonceJob /\ o.pc = k.pc /\ o.req = k.req /\ o.nonce = k.nonce /\ ~ o.clear
    BY <2>2, Zenon DEF NonceJob
  <2> HIDE DEF o
  <2>4. NonceOK(o)
    BY <1>2, <2>3, Zenon DEF JobInv, NonceOK
  <2>5. o.pc # "sent" /\ o.pc # "answered" /\ o.pc \notin {"fields", "built"}
    BY <1>2, <2>3, Zenon
  <2>6. o \in Jobs /\ JobInv(o)
    BY <2>3, <2>4, <2>5, Zenon DEF Jobs, JobInv
  <2>7. QED
    BY <2>1, <2>3, <2>6, Zenon
<1>3. QED
  BY <1>1, <1>2, Zenon

LEMMA SuggestGasPriceStep ==
  ASSUME IInv, NEW c \in Calls, SuggestGasPrice(c)
  PROVE  IInv'
<1> DEFINE r == job[c].req
           n == job[c].nonce
           tx == newTransaction(r, n, price)
           ch == orDefault(r.chain, 1)
           d == [req |-> r, tx |-> tx, chain |-> ch, clear |-> job[c].clear]
<1>1. /\ job[c].pc = "nonce" /\ drafts' = Append(drafts, d)
      /\ job' = [e \in Calls |-> IF e = c THEN IdleNow ELSE Overtaken(job[e])]
      /\ UNCHANGED <<chain, sigs, log, accepted, faults>>
  BY Zenon DEF SuggestGasPrice, IdleNow
<1>2. \A e \in Calls : job[e] \in Jobs /\ JobInv(job[e])
  BY Zenon DEF IInv, ClientTypes
<1>3. job[c] \in NonceJob /\ NonceOK(job[c])
  BY <1>1, <1>2, JobFacts, Zenon DEF JobInv
<1>4. r \in Requests /\ n \in Nat /\ job[c].clear \in BOOLEAN
  BY <1>3, Zenon DEF NonceJob
<1> HIDE DEF r, n
<1>5. price \in Nat
  BY PriceType, Zenon DEF IInv, ChainTypes
<1>6. tx \in EthTx /\ tx.nonce = n /\ tx.price = price
  BY <1>4, <1>5, NewTransactionType, ZenonT(30)
<1>7. ch \in Nat /\ ch > 0
  <2>1. r.chain \in Nat /\ 1 \in Nat \ {0}
    BY <1>4, RequestFacts
  <2>2. QED
    BY <2>1, DefaultType, Zenon
<1>8. tx = newTransaction(r, tx.nonce, tx.price)
  BY <1>6, Zenon
<1> HIDE DEF tx, ch
<1>9. /\ d \in Draft /\ d.req = r /\ d.tx = tx /\ d.chain = ch
      /\ d.clear = job[c].clear
  BY <1>4, <1>6, <1>7, Zenon DEF Draft
<1> HIDE DEF d
<1>10. DraftOK(d)
  <2>1. r.net = "eth" /\ Filled(n) /\ n < MaxDrafts /\ PlacedBelow(n)
        /\ (job[c].clear => Above(n))
    BY <1>3, Zenon DEF NonceOK, r, n
  <2>2. QED
    BY <1>6, <1>7, <1>8, <1>9, <2>1, Zenon DEF DraftOK
<1>11. IdleNow \in Jobs /\ JobInv(IdleNow) /\ IdleNow.pc = "idle"
  BY IdleFacts, Zenon
<1>12. IdleNow.pc # "nonce"
  BY <1>11, Zenon
<1>13. \A e \in Calls : /\ job'[e] \in Jobs /\ JobInv(job'[e])
                        /\ job'[e].pc # "nonce" \/ ~ job'[e].clear
                        /\ job'[e].pc = "nonce" => e # c /\ job[e].pc = "nonce"
  <2>1. job'[c] = IdleNow
    BY <1>1, Zenon
  <2>2. ASSUME NEW e \in Calls, e # c
        PROVE  job'[e] = Overtaken(job[e])
    BY <1>1, <2>2, Zenon
  <2>3. QED
    BY <1>2, <1>11, <1>12, <2>1, <2>2, OvertakenFacts, ZenonT(30)
<1>14. job' \in [Calls -> Jobs]
  BY <1>1, <1>13, Zenon
<1>15. ASSUME NEW e \in Calls
       PROVE  JobInv(job[e])'
  <2>1. PICK k : k = job'[e]
    BY Zenon
  <2>2. JobInv(k) /\ (k.pc # "nonce" \/ ~ k.clear)
    BY <1>13, <2>1, Zenon
  <2>3. JobInv(k)'
    BY <1>1, <1>9, <2>2, JobOvertaken, Zenon
  <2>4. QED
    BY <2>1, <2>3, Zenon
<1>16. Made' <= MaxDrafts
  <2>1. c \in Holders /\ Holders' \subseteq Holders \ {c}
    BY <1>1, <1>13, Zenon DEF Holders
  <2>2. Len(drafts') = Len(drafts) + 1
    BY <1>1, <1>9, DraftsGrow, Zenon
  <2>3. QED
    BY <2>1, <2>2, MadeDraft, Zenon
<1>17. QED
  BY <1>1, <1>9, <1>10, <1>14, <1>15, <1>16, DraftStep, Zenon

LEMMA StutterStep ==
  ASSUME IInv, UNCHANGED vars
  PROVE  IInv'
<1>1. /\ price' = price /\ mined' = mined /\ pool' = pool /\ coins' = coins
      /\ funds' = funds /\ job' = job /\ drafts' = drafts /\ sigs' = sigs
      /\ log' = log /\ accepted' = accepted /\ faults' = faults
  BY Zenon DEF vars
<1>2. /\ UNCHANGED <<job, drafts, sigs, log, accepted>> /\ UNCHANGED <<drafts, sigs>>
      /\ UNCHANGED chain /\ accepted \subseteq accepted'
  BY <1>1, Zenon DEF chain
<1>3. ChainTypes' /\ faults' \in 0 .. MaxFaults
  BY <1>1, Zenon DEF IInv, ChainTypes, ClientTypes
<1>4. \A tx : Drafted(tx) => Drafted(tx)'
  BY <1>2, DraftsStay, Zenon
<1>5. ChainInv'
  BY <1>1, <1>4, Zenon DEF IInv, ChainInv
<1>6. AcceptedInv'
  BY <1>1, Zenon DEF IInv, AcceptedInv, Placed
<1>7. QED
  BY <1>1, <1>2, <1>3, <1>5, <1>6, SamePlaced, CallsStay, ChainStep, Zenon

LEMMA MakeStep ==
  ASSUME IInv, NEW c \in Calls, Make(c)
  PROVE  IInv'
  BY CreateEthereumStep, CreateBitcoinStep, Zenon DEF Make

LEMMA SendStep ==
  ASSUME IInv, NEW c \in Calls, Send(c)
  PROVE  IInv'
<1>1. PICK s \in sigs :
        \/ \E i \in OnEthereum : \E ch \in {0, drafts[i].req.chain} :
             \/ SendTxData(c, i, s, ch)
             \/ \E given \in {0, drafts[i].tx.price} : SendFields(c, i, s, ch, given)
        \/ \E i \in DOMAIN drafts \ OnEthereum : SendBitcoin(c, i, s)
  BY Zenon DEF Send
<1>2. ASSUME NEW i \in OnEthereum
      PROVE  {0, drafts[i].req.chain} \subseteq Nat /\ {0, drafts[i].tx.price} \subseteq Nat
  <2>1. drafts[i].req \in Requests /\ drafts[i].tx.price \in Nat
    BY EthereumDrafts, Zenon
  <2>2. drafts[i].req.chain \in Nat
    BY <2>1, RequestFacts, Zenon
  <2>3. QED
    BY <2>1, <2>2
<1>3. QED
  BY <1>1, <1>2, SendTxDataStep, SendFieldsStep, SendBitcoinStep, Zenon

LEMMA BalanceStep ==
  ASSUME IInv, NEW c \in Calls, Balance(c)
  PROVE  IInv'
  BY CheckBalanceStep, WaitForBalanceStep, Zenon DEF Balance

LEMMA InitInv ==
  ASSUME Init
  PROVE  IInv
<1>1. /\ price \in Prices /\ mined = <<>> /\ pool = {} /\ coins = Coins /\ funds \in Funds
      /\ job = [c \in Calls |-> IdleNow] /\ drafts = <<>> /\ sigs = {} /\ log = {}
      /\ accepted = {} /\ faults = 0
  BY Zenon DEF Init, IdleNow
<1>2. IdleNow \in Jobs /\ JobInv(IdleNow) /\ IdleNow.pc = "idle"
  BY IdleFacts, Zenon
<1>3. funds \in Nat /\ faults \in 0 .. MaxFaults
  BY <1>1, PaymentsAssumption
<1>4. mined \in Seq(EthTx) /\ drafts \in Seq(Draft) /\ DOMAIN drafts = {} /\ DOMAIN mined = {}
      /\ Len(drafts) = 0
  BY <1>1
<1>5. ChainTypes /\ ClientTypes
  BY <1>1, <1>2, <1>3, <1>4, Zenon DEF ChainTypes, ClientTypes
<1>6. OnEthereum = {}
  BY <1>4, Zenon DEF OnEthereum
<1>7. DraftInv /\ SigInv /\ ChainInv /\ LogInv
  BY <1>1, <1>4, Zenon DEF DraftInv, SigInv, ChainInv, LogInv
<1>8. NonceInv /\ AcceptedInv /\ ClearInv
  BY <1>1, <1>6, Zenon DEF NonceInv, AcceptedInv, ClearInv
<1>9. \A c \in Calls : JobInv(job[c])
  BY <1>1, <1>2, Zenon
<1>10. Made <= MaxDrafts
  <2>1. IdleNow.pc # "nonce"
    BY <1>2, Zenon
  <2>2. Holders = {}
    BY <1>1, <2>1, Zenon DEF Holders
  <2>3. Made = Len(drafts) + Cardinality({}) /\ Cardinality({}) = 0
    BY <2>2, MadeHolders, FS_EmptySet, Zenon
  <2>4. QED
    BY <1>4, <2>3, PaymentsAssumption
<1>11. QED
  BY <1>5, <1>7, <1>8, <1>9, <1>10, Zenon DEF IInv

(* The inductive invariant holds, however calls of the handlers of         *)
(* client/tx.go, client/send_tx.go and client/balance.go overlap, fail and *)
(* restart.                                                                *)
THEOREM PaymentsInvariance == Spec => []IInv
<1>1. Init => IInv
  BY InitInv, Zenon
<1>2. IInv /\ [Next]_vars => IInv'
  <2> SUFFICES ASSUME IInv, [Next]_vars PROVE IInv'
    BY Zenon
  <2>1. ASSUME NEW c \in Calls,
               \/ Make(c) \/ SuggestGasPrice(c)
               \/ Send(c) \/ RebuildTx(c) \/ SendTransaction(c) \/ recordCosign(c)
        PROVE  IInv'
    BY <2>1, MakeStep, SuggestGasPriceStep, SendStep, RebuildStep,
       SendTransactionStep, RecordStep, Zenon
  <2>2. ASSUME NEW c \in Calls,
               Balance(c) \/ Poll(c) \/ TimeOut(c) \/ Respond(c) \/ NodeError(c)
        PROVE  IInv'
    BY <2>2, BalanceStep, PollStep, ReturnStep, Zenon
  <2>3. ASSUME NEW i \in DOMAIN drafts, CoSign(i)
        PROVE  IInv'
    BY <2>3, CoSignStep, Zenon
  <2>4. CASE Mine
    BY <2>4, MineStep, Zenon
  <2>5. CASE PriceMoves
    BY <2>5, PriceMovesStep, Zenon
  <2>6. CASE Restart
    BY <2>6, RestartStep, Zenon
  <2>7. CASE Evict
    BY <2>7, EvictStep, Zenon
  <2>8. CASE UNCHANGED vars
    BY <2>8, StutterStep, Zenon
  <2>9. QED
    BY <2>1, <2>2, <2>3, <2>4, <2>5, <2>6, <2>7, <2>8, Zenon DEF Next
<1>3. QED
  BY <1>1, <1>2, PTL DEF Spec

(* Whatever goes into a block was made by createTxHash for a request, and  *)
(* moves what that request asks for and what decodeTx showed to the one    *)
(* who signed it, in ether or in tokens, also when sendTransaction makes   *)
(* the transaction again from its fields.                                  *)
THEOREM PaymentsAsShown == Spec => []PaidAsShown
<1>1. IInv => PaidAsShown
  <2> SUFFICES ASSUME IInv, NEW n \in DOMAIN mined
               PROVE  \E i \in OnEthereum :
                        LET r == drafts[i].req IN
                        /\ mined[n] = drafts[i].tx
                        /\ Effect(mined[n]) = decodeTx(drafts[i].tx)
                        /\ Effect(mined[n]) = [token |-> r.token, contract |-> Token,
                                               to |-> r.to, amount |-> r.amount]
    BY Zenon DEF PaidAsShown
  <2>1. PICK i \in OnEthereum : drafts[i].tx = mined[n]
    BY Zenon DEF IInv, ChainInv, Drafted
  <2> DEFINE r == drafts[i].req
             tx == drafts[i].tx
  <2>2. r \in Requests /\ tx.nonce \in Nat /\ tx.price \in Nat /\ i \in DOMAIN drafts
        /\ r.net = "eth"
    BY EthereumDrafts, Zenon
  <2>3. tx = newTransaction(r, tx.nonce, tx.price)
    BY <2>2, Zenon DEF IInv, DraftInv
  <2> HIDE DEF r, tx
  <2>4. Pays(tx, r)
    BY <2>2, <2>3, DraftPays, Zenon
  <2>5. QED
    BY <2>1, <2>4, Zenon DEF Pays, r, tx
<1>2. QED
  BY <1>1, PaymentsInvariance, PTL

(* The nonces that createEthereumTxHash takes from PendingNonceAt do their *)
(* work: a transaction made when all earlier ones are with the node        *)
(* competes with none of them, and without failures no accepted payment    *)
(* waits behind a nonce that no payment has.                               *)
THEOREM NoncesOrdered == Spec => []NoncesInOrder
<1>1. IInv => NoncesInOrder
  <2> SUFFICES ASSUME IInv PROVE NoncesInOrder
    BY Zenon
  <2>1. TypeOK
    <3>1. price \in Prices /\ coins \subseteq Coins /\ funds \in Nat /\ faults \in 0 .. MaxFaults
      BY Zenon DEF IInv, ChainTypes, ClientTypes
    <3>2. \A c \in Calls : job[c].pc \in
            {"idle", "nonce", "fields", "built", "sent", "waiting", "answered"}
      BY JobFacts, Zenon DEF IInv, ClientTypes
    <3>3. Len(drafts) <= MaxDrafts
      BY DraftsBound, Zenon
    <3>4. \A i \in OnEthereum : drafts[i].chain > 0 /\ drafts[i].tx.nonce < MaxDrafts
      BY EthereumDrafts, Zenon DEF IInv, NonceInv
    <3>5. /\ \A n \in DOMAIN mined : mined[n].nonce = n - 1
          /\ \A t \in pool : t.nonce >= Len(mined)
      BY Zenon DEF IInv, ChainInv
    <3>6. QED
      BY <3>1, <3>2, <3>3, <3>4, <3>5, Zenon DEF TypeOK
  <2>2. ASSUME faults = 0, NEW t \in pool, NEW n \in Len(mined) .. t.nonce
        PROVE  \E u \in pool : u.nonce = n
    <3>1. CASE n = t.nonce
      BY <3>1, Zenon
    <3>2. CASE n # t.nonce
      <4>1. Len(mined) \in Nat /\ t.nonce \in Nat /\ Drafted(t)
        BY SequenceFacts, PoolFacts, Zenon
      <4>2. n \in 0 .. t.nonce - 1 /\ ~ (n < Len(mined))
        BY <2>2, <3>2, <4>1
      <4>3. PlacedBelow(t.nonce)
        BY <4>1, Zenon DEF IInv, NonceInv, Drafted
      <4>4. Placed(n)
        BY <2>2, <4>2, <4>3, Zenon DEF PlacedBelow
      <4>5. QED
        BY <4>2, <4>4, Zenon DEF Placed
    <3>3. QED
      BY <3>1, <3>2, Zenon
  <2>3. ClearInv
    BY Zenon DEF IInv
  <2>4. QED
    BY <2>1, <2>2, <2>3, Zenon DEF NoncesInOrder, ClearInv
<1>2. QED
  BY <1>1, PaymentsInvariance, PTL

(* What recordCosign writes into the history after SendTransaction was     *)
(* accepted by a node, on Bitcoin also, where the record names no          *)
(* transaction.                                                            *)
THEOREM BroadcastsBacked == Spec => []RecordsBacked
<1>1. IInv => RecordsBacked
  <2> SUFFICES ASSUME IInv, NEW e \in log
               PROVE  \E tx \in accepted :
                        \/ e = [tx |-> tx]
                        \/ e = [from |-> "account"] /\ tx \notin {drafts[i].tx : i \in OnEthereum}
    BY Zenon DEF RecordsBacked
  <2>1. CASE \E tx \in accepted : e = [tx |-> tx]
    BY <2>1, Zenon
  <2>2. CASE e = [from |-> "account"] /\ \E tx \in accepted : tx \in BtcTx
    <3>1. PICK tx \in accepted : tx \in BtcTx
      BY <2>2, Zenon
    <3>2. tx \notin {drafts[i].tx : i \in OnEthereum}
      BY <3>1, EthereumDrafts, TxsApart, Zenon
    <3>3. QED
      BY <2>2, <3>2, Zenon
  <2>3. QED
    BY <2>1, <2>2, Zenon DEF IInv, LogInv
<1>2. QED
  BY <1>1, PaymentsInvariance, PTL

(* checkBalance and waitForBalance never say that there is enough when     *)
(* there was not, although Int64 cuts the balance: what is left of a       *)
(* number is never more than the number.                                   *)
THEOREM SufficientMeansEnough == Spec => []SufficientIsTrue
<1>1. IInv => SufficientIsTrue
  BY Zenon DEF IInv, JobInv, SufficientIsTrue
<1>2. QED
  BY <1>1, PaymentsInvariance, PTL

-----------------------------------------------------------------------------
(***************************************************************************)
(* The encodings of signatures, for every prime order of the group.        *)
(*                                                                         *)
(* The argument is modulo the order.  Multiplying by a scalar is injective *)
(* on the scalars, since the order divides no product of two of them; it   *)
(* is therefore onto, and inverses exist.  Negating S together with the    *)
(* point R, as SigEthereum does by flipping v, leaves S * R, from which    *)
(* the key is computed.                                                    *)
(***************************************************************************)

(* a and b differ by a multiple of the order. *)
Congruent(a, b) == \E z \in Int : a - b = Order * z

LEMMA OrderFacts == Order \in Nat /\ Order > 2 /\ Order \in Int
  BY SignaturesAssumption

LEMMA Division ==
  ASSUME NEW a \in Int, NEW d \in Nat, d > 0
  PROVE  /\ a \div d \in Int /\ a % d \in 0 .. d - 1 /\ a % d \in Int
         /\ a = d * (a \div d) + (a % d)
OBVIOUS

LEMMA SmallMultiple ==
  ASSUME NEW d \in Nat, NEW z \in Int, d > 0, d * z < d, -d < d * z
  PROVE  z = 0
<1>1. ASSUME z >= 1 PROVE FALSE
  BY <1>1
<1>2. ASSUME z <= -1 PROVE FALSE
  BY <1>2
<1>3. QED
  BY <1>1, <1>2

LEMMA Remainder ==
  ASSUME NEW a \in Int, NEW r \in 0 .. Order - 1, Congruent(a, r)
  PROVE  a % Order = r
<1>1. PICK z \in Int : a - r = Order * z
  BY Zenon DEF Congruent
<1>2. /\ a \div Order \in Int /\ a % Order \in 0 .. Order - 1
      /\ a = Order * (a \div Order) + (a % Order)
  BY OrderFacts, Division
<1> DEFINE q == a \div Order
           s == a % Order
<1> HIDE DEF q, s
<1>3. q \in Int /\ s \in 0 .. Order - 1 /\ a = Order * q + s
  BY <1>2, Zenon DEF q, s
<1>4. Order * (z - q) = s - r
  BY <1>1, <1>3, OrderFacts
<1>5. s - r < Order /\ -Order < s - r
  BY <1>3, OrderFacts
<1>6. z - q = 0
  BY <1>3, <1>4, <1>5, SmallMultiple, OrderFacts
<1>7. s = r
  BY <1>3, <1>4, <1>6, OrderFacts
<1>8. QED
  BY <1>7, Zenon DEF s

LEMMA CongruentFacts ==
  ASSUME NEW a \in Int, NEW b \in Int, NEW c \in Int, Congruent(a, b)
  PROVE  /\ Congruent(b, a)
         /\ Congruent(a + c, b + c)
         /\ Congruent(a * c, b * c)
         /\ Congruent(c * a, c * b)
         /\ Congruent(b, c) => Congruent(a, c)
<1>1. PICK z \in Int : a - b = Order * z
  BY Zenon DEF Congruent
<1>2. Congruent(b, a)
  <2>1. -z \in Int /\ b - a = Order * (-z)
    BY <1>1, OrderFacts
  <2>2. QED
    BY <2>1, Zenon DEF Congruent
<1>3. Congruent(a + c, b + c)
  <2>1. (a + c) - (b + c) = Order * z
    BY <1>1, OrderFacts
  <2>2. QED
    BY <2>1, Zenon DEF Congruent
<1>4. Congruent(a * c, b * c) /\ Congruent(c * a, c * b)
  <2>1. z * c \in Int /\ a * c - b * c = Order * (z * c)
    <3>1. a * c - b * c = (a - b) * c
      OBVIOUS
    <3>2. (a - b) * c = (Order * z) * c
      BY <1>1, Zenon
    <3>3. (Order * z) * c = Order * (z * c) /\ z * c \in Int
      BY OrderFacts
    <3>4. QED
      BY <3>1, <3>2, <3>3, Zenon
  <2>2. a * c = c * a /\ b * c = c * b
    OBVIOUS
  <2>3. QED
    BY <2>1, <2>2, Zenon DEF Congruent
<1>5. ASSUME Congruent(b, c) PROVE Congruent(a, c)
  <2>1. PICK y \in Int : b - c = Order * y
    BY <1>5, Zenon DEF Congruent
  <2>2. z + y \in Int /\ a - c = Order * (z + y)
    BY <1>1, <2>1, OrderFacts
  <2>3. QED
    BY <2>2, Zenon DEF Congruent
<1>6. QED
  BY <1>2, <1>3, <1>4, <1>5, Zenon

LEMMA CongruentTrans ==
  ASSUME NEW a \in Int, NEW b \in Int, NEW c \in Int, Congruent(a, b), Congruent(b, c)
  PROVE  Congruent(a, c)
BY CongruentFacts, Zenon

LEMMA CongruentTimes ==
  ASSUME NEW a \in Int, NEW b \in Int, NEW c \in Int, Congruent(a, b)
  PROVE  Congruent(a * c, b * c) /\ Congruent(c * a, c * b)
BY CongruentFacts, Zenon

LEMMA CongruentRemainder ==
  ASSUME NEW a \in Int
  PROVE  Congruent(a, a % Order) /\ a % Order \in 0 .. Order - 1 /\ a % Order \in Int
<1>1. /\ a \div Order \in Int /\ a % Order \in 0 .. Order - 1 /\ a % Order \in Int
      /\ a = Order * (a \div Order) + (a % Order)
  BY OrderFacts, Division
<1>2. a - (a % Order) = Order * (a \div Order)
  BY <1>1, OrderFacts
<1>3. QED
  BY <1>1, <1>2, Zenon DEF Congruent

(* The order is prime: it divides no product of two scalars. *)
LEMMA NoZeroDivisors ==
  ASSUME NEW k \in Scalars, NEW b \in Scalars
  PROVE  (k * b) % Order # 0
<1> DEFINE T == {d \in Scalars : (k * d) % Order = 0}
<1> SUFFICES ASSUME (k * b) % Order = 0 PROVE FALSE
  BY Zenon
<1>1. T \subseteq Nat /\ T # {}
  BY DEF Scalars
<1> DEFINE d == Min(T)
<1>2. d \in T /\ \A y \in T : d <= y
  <2> HIDE DEF T, d
  <2> QED
    BY <1>1, LeastElement, Zenon DEF d
<1> HIDE DEF d
<1>3. /\ d \in Nat /\ d >= 1 /\ d <= Order - 1 /\ (k * d) % Order = 0
      /\ k \in Nat /\ k >= 1 /\ k <= Order - 1
  BY <1>2, OrderFacts DEF Scalars
<1>4. d # 1
  <2>1. Congruent(k, k)
    <3>1. 0 \in Int /\ k - k = Order * 0
      BY <1>3, OrderFacts
    <3>2. QED
      BY <3>1, Zenon DEF Congruent
  <2>2. k % Order = k
    BY <1>3, <2>1, Remainder, OrderFacts
  <2>3. k * 1 = k
    BY <1>3
  <2>4. QED
    BY <1>3, <2>2, <2>3
<1> DEFINE r == Order % d
           u == Order \div d
<1>5. r # 0
  BY <1>3, <1>4, SignaturesAssumption, SMTT(30)
<1>6. u \in Int /\ r \in 0 .. d - 1 /\ Order = d * u + r
  BY <1>3, OrderFacts, Division
<1> HIDE DEF r, u
<1>7. r \in Scalars /\ r < d
  BY <1>3, <1>5, <1>6 DEF Scalars
<1>8. Congruent(k * r, 0)
  <2>1. PICK z \in Int : (k * d) - 0 = Order * z
    <3>1. k * d \in Int
      BY <1>3
    <3>2. Congruent(k * d, 0)
      BY <1>3, <3>1, CongruentRemainder, Zenon
    <3>3. QED
      BY <3>2, Zenon DEF Congruent
  <2>2. k * r = Order * k - (k * d) * u
    <3>1. r = Order - d * u
      BY <1>3, <1>6, OrderFacts
    <3>2. k * (Order - d * u) = Order * k - (k * d) * u
      BY <1>3, <1>6, OrderFacts
    <3>3. QED
      BY <3>1, <3>2, Zenon
  <2>3. k * r = Order * (k - z * u) /\ k - z * u \in Int
    <3>1. (k * d) * u = Order * (z * u)
      <4>1. k * d = Order * z
        BY <1>3, <2>1
      <4>2. (Order * z) * u = Order * (z * u)
        BY <1>6, OrderFacts
      <4>3. QED
        BY <4>1, <4>2, Zenon
    <3>2. Order * k - Order * (z * u) = Order * (k - z * u) /\ k - z * u \in Int
      BY <1>3, <1>6, OrderFacts
    <3>3. QED
      BY <2>2, <3>1, <3>2, Zenon
  <2>4. k * r - 0 = Order * (k - z * u)
    BY <1>3, <1>7, <2>3 DEF Scalars
  <2>5. QED
    BY <2>3, <2>4, Zenon DEF Congruent
<1>9. (k * r) % Order = 0
  <2>1. k * r \in Int /\ 0 \in 0 .. Order - 1
    BY <1>3, <1>6, OrderFacts
  <2>2. QED
    BY <1>8, <2>1, Remainder, Zenon
<1>10. r \in T
  BY <1>7, <1>9, Zenon
<1>11. d <= r
  BY <1>2, <1>10, Zenon
<1>12. QED
  BY <1>3, <1>6, <1>7, <1>11

(* Every scalar has an inverse: multiplying by it moves no two scalars to  *)
(* one place, so some scalar is moved to 1.                                *)
LEMMA InverseExists ==
  ASSUME NEW k \in Scalars
  PROVE  \E b \in Scalars : (k * b) % Order = 1
<1> DEFINE f == [b \in Scalars |-> (k * b) % Order]
<1>1. \A b \in Scalars : b \in Int /\ b \in Nat /\ k * b \in Int
  BY OrderFacts DEF Scalars
<1>2. ASSUME NEW b \in Scalars PROVE (k * b) % Order \in Scalars
  <2>1. (k * b) % Order \in 0 .. Order - 1
    BY <1>1, CongruentRemainder, Zenon
  <2>2. (k * b) % Order # 0
    BY NoZeroDivisors, Zenon
  <2>3. QED
    BY <2>1, <2>2, OrderFacts DEF Scalars
<1>3. ASSUME NEW b \in Scalars, NEW c \in Scalars, b < c, (k * b) % Order = (k * c) % Order
      PROVE  FALSE
  <2>1. /\ k \in Int /\ b \in Int /\ c \in Int /\ k * b \in Int /\ k * c \in Int
        /\ c - b \in Scalars /\ c - b \in Int /\ k * (c - b) \in Int
    BY <1>1, <1>3, OrderFacts DEF Scalars
  <2>2. Congruent(k * c, k * b)
    <3>1. /\ Congruent(k * c, (k * c) % Order) /\ Congruent(k * b, (k * c) % Order)
          /\ (k * c) % Order \in Int
      BY <1>3, <2>1, CongruentRemainder, SMTT(30)
    <3>2. Congruent((k * c) % Order, k * b)
      BY <2>1, <3>1, CongruentFacts
    <3>3. QED
      BY <2>1, <3>1, <3>2, CongruentFacts, SMTT(30)
  <2>3. PICK z \in Int : k * c - k * b = Order * z
    BY <2>2, Zenon DEF Congruent
  <2>4. k * (c - b) - 0 = Order * z
    BY <2>1, <2>3
  <2>5. Congruent(k * (c - b), 0)
    BY <2>4, Zenon DEF Congruent
  <2>6. (k * (c - b)) % Order = 0
    BY <2>1, <2>5, Remainder, OrderFacts
  <2>7. QED
    BY <2>1, <2>6, NoZeroDivisors, Zenon
<1>4. f \in Injection(Scalars, Scalars)
  <2>1. f \in [Scalars -> Scalars]
    BY <1>2, Zenon
  <2>2. ASSUME NEW b \in Scalars, NEW c \in Scalars, f[b] = f[c] PROVE b = c
    <3>1. (k * b) % Order = (k * c) % Order
      BY <2>2, Zenon
    <3>2. b \in Int /\ c \in Int
      BY <1>1, Zenon
    <3>3. b = c \/ b < c \/ c < b
      BY <3>2
    <3>4. QED
      BY <1>3, <3>1, <3>3, Zenon
  <2>3. QED
    BY <2>1, <2>2, Zenon DEF Injection, IsInjective
<1>5. IsFiniteSet(Scalars)
  BY FS_Interval, OrderFacts DEF Scalars
<1>6. f \in Surjection(Scalars, Scalars)
  <2> HIDE DEF f
  <2> QED
    BY <1>4, <1>5, FS_Injection, Zenon
<1>7. 1 \in Scalars
  BY OrderFacts DEF Scalars
<1>8. PICK b \in Scalars : f[b] = 1
  <2> HIDE DEF f
  <2> QED
    BY <1>6, <1>7, Zenon DEF Surjection
<1>9. QED
  BY <1>8, Zenon

LEMMA InvertedFacts ==
  ASSUME NEW k \in Scalars
  PROVE  /\ Inverted(k) \in Scalars /\ Inverted(k) \in Int /\ k \in Int
         /\ Congruent(k * Inverted(k), 1)
<1>1. Inverted(k) \in Scalars /\ (k * Inverted(k)) % Order = 1
  BY InverseExists, Zenon DEF Inverted
<1>2. k \in Int /\ Inverted(k) \in Int /\ k * Inverted(k) \in Int
  BY <1>1 DEF Scalars
<1>3. Congruent(k * Inverted(k), 1)
  BY <1>1, <1>2, CongruentRemainder, Zenon
<1>4. QED
  BY <1>1, <1>2, <1>3, Zenon

(* The two halves of the scalars, and what the encodings of a point do. *)
LEMMA HalfFacts ==
  ASSUME NEW a \in Scalars
  PROVE  /\ a \in Int /\ Negate(a) = Order - a /\ Negate(a) \in Scalars
         /\ IsOverHalfOrder(a) <=> ~ IsOverHalfOrder(Negate(a))
         /\ Negate(Negate(a)) = a
<1>1. \A x \in Scalars : x \in Int /\ Negate(x) = Order - x
  <2> TAKE x \in Scalars
  <2>1. x \in Int /\ Order - x \in 0 .. Order - 1 /\ Order - x \in Int
    BY OrderFacts DEF Scalars
  <2>2. Congruent(Order - x, Order - x)
    <3>1. 0 \in Int /\ (Order - x) - (Order - x) = Order * 0
      BY <2>1, OrderFacts
    <3>2. QED
      BY <3>1, Zenon DEF Congruent
  <2>3. (Order - x) % Order = Order - x
    BY <2>1, <2>2, Remainder, Zenon
  <2>4. QED
    BY <2>1, <2>3, Zenon DEF Negate
<1>2. Order - a \in Scalars /\ Order - (Order - a) = a
  BY <1>1, OrderFacts DEF Scalars
<1> DEFINE h == Order \div 2
<1>3. h \in Int /\ Order = 2 * h + 1
  <2>1. Order % 2 # 0
    BY SignaturesAssumption
  <2>2. h \in Int /\ Order % 2 \in 0 .. 1 /\ Order = 2 * h + (Order % 2)
    BY OrderFacts
  <2>3. Order % 2 = 1
    BY <2>1, <2>2
  <2>4. QED
    BY <2>2, <2>3, Zenon
<1> HIDE DEF h
<1>4. a > h <=> ~ (Order - a > h)
  BY <1>1, <1>3, OrderFacts
<1>5. QED
  BY <1>1, <1>2, <1>4, Zenon DEF IsOverHalfOrder, h

LEMMA PointFacts ==
  ASSUME NEW k \in Scalars
  PROVE  /\ XCoordinate(k) \in Scalars /\ Parity(k) \in {0, 1}
         /\ Point(XCoordinate(k), Parity(k)) = k
         /\ Point(XCoordinate(k), 1 - Parity(k)) = Negate(k)
<1>1. CASE IsOverHalfOrder(k)
  <2>1. XCoordinate(k) = Negate(k) /\ Parity(k) = 1 /\ 1 - Parity(k) = 0
    BY <1>1 DEF XCoordinate, Parity
  <2>2. Negate(k) \in Scalars /\ Negate(Negate(k)) = k
    BY HalfFacts, Zenon
  <2>3. /\ Point(XCoordinate(k), Parity(k)) = Negate(Negate(k))
        /\ Point(XCoordinate(k), 1 - Parity(k)) = Negate(k)
    BY <2>1 DEF Point
  <2>4. QED
    BY <2>1, <2>2, <2>3, Zenon
<1>2. CASE ~ IsOverHalfOrder(k)
  <2>1. XCoordinate(k) = k /\ Parity(k) = 0 /\ 1 - Parity(k) = 1
    BY <1>2 DEF XCoordinate, Parity
  <2>2. QED
    BY <2>1, HalfFacts DEF Point
<1>3. QED
  BY <1>1, <1>2, Zenon

(* What the escrow keeps is the signature. *)
LEMMA SigBytes ==
  ASSUME NEW R \in Scalars, NEW S
  PROVE  FromSigByte(GetSigByte([R |-> R, S |-> S])) = [R |-> R, S |-> S]
<1>1. Parity(R) \in {0, 1} /\ (2 + Parity(R)) - 2 = Parity(R) /\ Point(XCoordinate(R), Parity(R)) = R
  BY PointFacts
<1>2. QED
  BY <1>1, Zenon DEF FromSigByte, GetSigByte

(* Negating both S and R leaves their product. *)
LEMMA NegatedProduct ==
  ASSUME NEW a \in Int, NEW b \in Int
  PROVE  Congruent((Order - a) * (Order - b), a * b)
<1>1. (Order - a) * (Order - b) = Order * (Order - a - b) + a * b
  <2>1. (Order - a) * (Order - b) = (Order - a) * Order - (Order - a) * b
    BY OrderFacts
  <2>2. (Order - a) * Order = Order * Order - Order * a /\ (Order - a) * b = Order * b - a * b
    BY OrderFacts
  <2>3. Order * (Order - a - b) = Order * Order - Order * a - Order * b
    BY OrderFacts
  <2>4. QED
    BY <2>1, <2>2, <2>3, OrderFacts
<1>2. (Order - a) * (Order - b) - a * b = Order * (Order - a - b) /\ Order - a - b \in Int
  BY <1>1, OrderFacts
<1>3. QED
  BY <1>2, Zenon DEF Congruent

(* The encoding for Ethereum has its s in the lower half, and s times the  *)
(* point it stands for is S times R.                                       *)
LEMMA EthereumFacts ==
  ASSUME NEW R \in Scalars, NEW S \in Scalars
  PROVE  LET e == SigEthereum([R |-> R, S |-> S])
         IN  /\ e.r = XCoordinate(R) /\ ~ IsOverHalfOrder(e.s)
             /\ e.s \in Int /\ Point(e.r, e.v) \in Int
             /\ Congruent(e.s * Point(e.r, e.v), S * R)
<1> DEFINE e == SigEthereum([R |-> R, S |-> S])
<1>1. R \in Int /\ S \in Int /\ S * R \in Int
  BY DEF Scalars
<1>2. CASE IsOverHalfOrder(S)
  <2>1. e.r = XCoordinate(R) /\ e.s = Negate(S) /\ e.v = 1 - Parity(R)
    BY <1>2, Zenon DEF SigEthereum
  <2>2. Point(e.r, e.v) = Order - R /\ e.s = Order - S /\ ~ IsOverHalfOrder(e.s)
    BY <1>2, <2>1, PointFacts, HalfFacts
  <2>3. QED
    BY <1>1, <2>1, <2>2, NegatedProduct, OrderFacts, SMTT(30)
<1>3. CASE ~ IsOverHalfOrder(S)
  <2>1. e.r = XCoordinate(R) /\ e.s = S /\ e.v = Parity(R)
    BY <1>3, Zenon DEF SigEthereum
  <2>2. Point(e.r, e.v) = R
    BY <2>1, PointFacts, Zenon
  <2>3. S * R - S * R = Order * 0
    BY <1>1, OrderFacts
  <2>4. Congruent(S * R, S * R)
    BY <2>3 DEF Congruent
  <2>5. QED
    BY <1>1, <1>3, <2>1, <2>2, <2>4, SMTT(30)
<1>4. QED
  BY <1>2, <1>3, Zenon

(* Every signature that exists is, after both encodings, one by its key    *)
(* (GetSigByte, sigToEthereum).                                            *)
LEMMA EncodingsCorrect == EncodingsAgree
<1> SUFFICES ASSUME NEW key \in Scalars, NEW k \in Scalars, NEW m \in Scalars,
                    Signature(key, k, m).S # 0
             PROVE  Recovered(m, sigToEthereum(GetSigByte(Signature(key, k, m)))) = key
  BY Zenon DEF EncodingsAgree
<1> DEFINE x == XCoordinate(k)
           ik == Inverted(k)
           ix == Inverted(x)
           w == m + x * key
           S == (ik * w) % Order
           e == SigEthereum([R |-> k, S |-> S])
           p == e.s * Point(e.r, e.v)
<1>1. /\ key \in Int /\ k \in Int /\ m \in Int /\ x \in Int /\ ik \in Int /\ ix \in Int
      /\ x \in Scalars /\ Congruent(k * ik, 1) /\ Congruent(x * ix, 1)
      /\ Negate(m) = Order - m
  BY PointFacts, InvertedFacts, HalfFacts, Zenon
<1>2. Signature(key, k, m) = [R |-> k, S |-> S]
  BY Zenon DEF Signature
<1> HIDE DEF x, ik, ix
<1>3. x * key \in Int /\ w \in Int /\ ik * w \in Int /\ k * (ik * w) \in Int
  BY <1>1
<1>4. S \in Scalars /\ S \in Int /\ Congruent(S, ik * w)
  <2>1. /\ S \in 0 .. Order - 1 /\ S \in Int /\ Congruent(ik * w, S) /\ S # 0
    BY <1>2, <1>3, CongruentRemainder
  <2>2. S \in Scalars
    BY <2>1, OrderFacts, SMTT(30) DEF Scalars
  <2>3. QED
    BY <1>3, <2>1, <2>2, CongruentFacts, SMTT(30)
<1>5. sigToEthereum(GetSigByte(Signature(key, k, m))) = e
  BY <1>2, SigBytes, Zenon DEF sigToEthereum
<1> HIDE DEF w, S
<1>6. /\ e.r = x /\ ~ IsOverHalfOrder(e.s) /\ p \in Int /\ Congruent(p, S * k)
  <2>1. /\ e.r = XCoordinate(k) /\ ~ IsOverHalfOrder(e.s)
        /\ e.s \in Int /\ Point(e.r, e.v) \in Int
        /\ Congruent(p, S * k)
    BY <1>4, EthereumFacts, Zenon
  <2>2. p \in Int
    BY <2>1
  <2>3. QED
    BY <2>1, <2>2, Zenon DEF x
<1>7. Recovered(m, e) = (ix * (p + (Order - m))) % Order
  BY <1>1, <1>6, Zenon DEF Recovered, ix
<1> HIDE DEF e, p
<1>8. Congruent(p, w)
  <2>1. S * k \in Int /\ (ik * w) * k \in Int /\ k * ik \in Int /\ (k * ik) * w \in Int /\ 1 * w = w
    BY <1>1, <1>3, <1>4
  <2>2. Congruent(S * k, (ik * w) * k)
    BY <1>1, <1>3, <1>4, CongruentTimes, Zenon
  <2>3. (ik * w) * k = (k * ik) * w
    BY <1>1, <1>3
  <2>4. Congruent((k * ik) * w, w)
    <3>1. 1 \in Int
      OBVIOUS
    <3>2. Congruent((k * ik) * w, 1 * w)
      BY <1>1, <1>3, <2>1, <3>1, CongruentTimes, Zenon
    <3>3. QED
      BY <2>1, <3>2, Zenon
  <2>5. Congruent(S * k, w)
    BY <1>3, <2>1, <2>2, <2>3, <2>4, CongruentTrans, Zenon
  <2>6. QED
    BY <1>3, <1>6, <2>1, <2>5, CongruentTrans, Zenon
<1>9. Congruent(p + (Order - m), x * key)
  <2>1. Order - m \in Int /\ p + (Order - m) \in Int /\ w + (Order - m) \in Int
    BY <1>1, <1>3, <1>6, OrderFacts
  <2>2. Congruent(p + (Order - m), w + (Order - m))
    BY <1>3, <1>6, <1>8, <2>1, CongruentFacts, Zenon
  <2>3. (w + (Order - m)) - x * key = Order * 1
    BY <1>1, <1>3, OrderFacts DEF w
  <2>4. Congruent(w + (Order - m), x * key)
    BY <2>3 DEF Congruent
  <2>5. QED
    BY <1>3, <2>1, <2>2, <2>4, CongruentTrans, Zenon
<1>10. Congruent(ix * (p + (Order - m)), key)
  <2>1. /\ p + (Order - m) \in Int /\ ix * (p + (Order - m)) \in Int /\ ix * (x * key) \in Int
        /\ x * ix \in Int /\ (x * ix) * key \in Int /\ 1 * key = key
    BY <1>1, <1>3, <1>6, OrderFacts
  <2>2. Congruent(ix * (p + (Order - m)), ix * (x * key))
    BY <1>1, <1>3, <1>9, <2>1, CongruentTimes, Zenon
  <2>3. ix * (x * key) = (x * ix) * key
    BY <1>1
  <2>4. Congruent((x * ix) * key, key)
    <3>1. 1 \in Int
      OBVIOUS
    <3>2. Congruent((x * ix) * key, 1 * key)
      BY <1>1, <2>1, <3>1, CongruentTimes, Zenon
    <3>3. QED
      BY <2>1, <3>2, Zenon
  <2>5. QED
    BY <1>1, <2>1, <2>2, <2>3, <2>4, CongruentTrans, Zenon
<1>11. (ix * (p + (Order - m))) % Order = key
  <2>1. key \in 0 .. Order - 1 /\ ix * (p + (Order - m)) \in Int
    BY <1>1, <1>6, OrderFacts DEF Scalars
  <2>2. QED
    BY <1>10, <2>1, Remainder, Zenon
<1>12. QED
  BY <1>5, <1>7, <1>11, Zenon

(* A signature of a payment is usable on Ethereum after both encodings     *)
(* (GetSigByte, sigToEthereum).                                            *)
THEOREM EncodedSignaturesUsable == Spec => []SignaturesUsable
<1>1. SignaturesUsable
  BY EncodingsCorrect, Zenon DEF SignaturesUsable
<1>2. QED
  BY <1>1, PTL

=============================================================================
