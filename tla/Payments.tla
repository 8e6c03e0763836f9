------------------------------ MODULE Payments ------------------------------
(***************************************************************************)
(* Payments from a shared account, with the chains they go to:             *)
(* createTxHash and decodeTx (client/tx.go, client/erc20.go),              *)
(* sendTransaction (client/send_tx.go), sigToEthereum (client/sig.go), and *)
(* the balance of the recipient (client/balance.go).                       *)
(*                                                                         *)
(* A call of a handler is a sequence of requests to a node; other calls,   *)
(* blocks and the gas price move between them.  The co-signing itself is   *)
(* the subject of Cosign; here a draft is signed in one step.              *)
(***************************************************************************)
EXTENDS Integers, Sequences, FiniteSets, FiniteSetsExt, Signatures

CONSTANTS
  Calls,       \* handlers that may run at the same time
  Requests,    \* bodies of createTxHash
  Token,       \* the contract of an ERC-20 token
  Recipient,   \* the address whose balance is asked for
  Prices,      \* gas prices
  Coins,       \* unspent outputs of the account on Bitcoin
  Funds,       \* what the recipient may own at first
  Expected,    \* amounts asked for by checkBalance and waitForBalance
  Word,        \* how many numbers an int64 can hold, 2^64
  MaxDrafts,   \* bound: transactions made
  MaxFaults    \* bound: failures of nodes and clients

ASSUME PaymentsAssumption ==
  /\ IsFiniteSet(Calls)
  /\ Word \in Nat \ {0} /\ Word % 2 = 0
  /\ MaxDrafts \in Nat /\ MaxFaults \in Nat
  /\ Prices \subseteq Nat \ {0}
  /\ Funds \subseteq Nat
  /\ Expected \subseteq 0 .. (Word \div 2) - 1
  /\ \A r \in Requests :
       /\ r.net \in {"eth", "btc"} /\ r.amount \in 1 .. (Word \div 2) - 1
       /\ r.chain \in Nat /\ r.gas \in Nat /\ r.token \in BOOLEAN

VARIABLES
  price,     \* suggested gas price
  mined,     \* Ethereum: transactions of the account in blocks, by nonce
  pool,      \* and those waiting
  coins,     \* Bitcoin: outputs of the account still unspent
  funds,     \* native balance of the recipient
  job,       \* calls in progress
  drafts,    \* answers of createTxHash, oldest first
  sigs,      \* hashes signed by both parties
  log,       \* broadcasts recorded in the history
  accepted,  \* history: what a node has accepted
  faults

vars == <<price, mined, pool, coins, funds, job, drafts, sigs, log, accepted, faults>>
chain == <<price, mined, pool, coins, funds>>

Init ==
  /\ price \in Prices
  /\ mined = <<>>
  /\ pool = {}
  /\ coins = Coins
  /\ funds \in Funds
  /\ job = [c \in Calls |-> [pc |-> "idle"]]
  /\ drafts = <<>>
  /\ sigs = {}
  /\ log = {}
  /\ accepted = {}
  /\ faults = 0

Goto(c, j) == job' = [job EXCEPT ![c] = j]

Idle(c) == job[c].pc = "idle"
Return(c) == Goto(c, [pc |-> "idle"])

-----------------------------------------------------------------------------
(* Transactions. *)

NoData == [to |-> Token, amount |-> 0]

erc20TransferData(to, amount) == [to |-> to, amount |-> amount]

orDefault(n, d) == IF n = 0 THEN d ELSE n

(* The gas of a transfer, of tokens or of ether. *)
DefaultGas(token) == IF token THEN 65000 ELSE 21000

(* Mutant of newTransaction: the recipient of the tokens is the contract. *)
newTransaction_ToContract(r, nonce, gasPrice) ==
  IF r.token
    THEN [nonce |-> nonce, to |-> Token, value |-> 0,
          gas |-> orDefault(r.gas, DefaultGas(TRUE)), price |-> gasPrice,
          data |-> erc20TransferData(Token, r.amount)]
    ELSE [nonce |-> nonce, to |-> r.to, value |-> r.amount,
          gas |-> orDefault(r.gas, DefaultGas(FALSE)), price |-> gasPrice,
          data |-> NoData]

(* A payment of tokens calls the contract and carries no value. *)
newTransaction(r, nonce, gasPrice) ==
  IF r.token
    THEN [nonce |-> nonce, to |-> Token, value |-> 0,
          gas |-> orDefault(r.gas, DefaultGas(TRUE)), price |-> gasPrice,
          data |-> erc20TransferData(r.to, r.amount)]
    ELSE [nonce |-> nonce, to |-> r.to, value |-> r.amount,
          gas |-> orDefault(r.gas, DefaultGas(FALSE)), price |-> gasPrice,
          data |-> NoData]

(* What decodeTx shows of a transaction. *)
decodeTx(tx) ==
  IF tx.data # NoData
    THEN [token |-> TRUE, contract |-> tx.to, to |-> tx.data.to, amount |-> tx.data.amount]
    ELSE [token |-> FALSE, contract |-> Token, to |-> tx.to, amount |-> tx.value]

(* The hash to be signed. *)
Hash(tx, ch) == [tx |-> tx, chain |-> ch]

-----------------------------------------------------------------------------
(* Making a transaction. *)

(* External: the first nonce no transaction has, waiting ones included. *)
PendingNonce ==
  Min({n \in Len(mined) .. Len(mined) + MaxDrafts + 1 : \A t \in pool : t.nonce # n})

(* Transactions made or being made. *)
Made == Len(drafts) + Cardinality({c \in Calls : job[c].pc = "nonce"})

(* All transactions made before are with the node. *)
Clear ==
  /\ faults = 0
  /\ \A i \in DOMAIN drafts : drafts[i].tx \in accepted
  /\ Made = Len(drafts)

(* Mutant of createEthereumTxHash: only mined transactions count. *)
createEthereumTxHash_NonceAt(c, r) ==
  /\ Idle(c)
  /\ r.net = "eth"
  /\ Made < MaxDrafts
  /\ Goto(c, [pc |-> "nonce", req |-> r, nonce |-> Len(mined), clear |-> Clear])
  /\ UNCHANGED <<chain, drafts, sigs, log, accepted, faults>>

(* It asks the node for the nonce first, *)
createEthereumTxHash(c, r) ==
  /\ Idle(c)
  /\ r.net = "eth"
  /\ Made < MaxDrafts
  /\ Goto(c, [pc |-> "nonce", req |-> r, nonce |-> PendingNonce, clear |-> Clear])
  /\ UNCHANGED <<chain, drafts, sigs, log, accepted, faults>>

(* A call that has its nonce while another one ends. *)
Overtaken(j) == IF j.pc = "nonce" THEN [j EXCEPT !.clear = FALSE] ELSE j

(* and for the gas price then. *)
SuggestGasPrice(c) ==
  /\ job[c].pc = "nonce"
  /\ drafts' = Append(drafts,
        [req |-> job[c].req, tx |-> newTransaction(job[c].req, job[c].nonce, price),
         chain |-> orDefault(job[c].req.chain, 1), clear |-> job[c].clear])
  /\ job' = [d \in Calls |-> IF d = c THEN [pc |-> "idle"] ELSE Overtaken(job[d])]
  /\ UNCHANGED <<chain, sigs, log, accepted, faults>>

(* A Bitcoin transaction is put together by a service, from whatever       *)
(* outputs it takes.                                                       *)
NewTX(r, inputs) == [to |-> r.to, amount |-> r.amount, inputs |-> inputs]

createBitcoinTxHash(c, r) ==
  /\ Idle(c)
  /\ r.net = "btc"
  /\ Made < MaxDrafts
  /\ \E inputs \in (SUBSET coins) \ {{}} :
       drafts' = Append(drafts, [req |-> r, tx |-> NewTX(r, inputs), chain |-> 0, clear |-> FALSE])
  /\ UNCHANGED <<chain, job, sigs, log, accepted, faults>>

(* Both parties sign a draft; a signature stands for what it signs.  Of a  *)
(* Bitcoin transaction with several inputs, only the first is signed.      *)
CoSign(i) ==
  LET h == Hash(drafts[i].tx, drafts[i].chain) IN
  /\ h \notin sigs
  /\ sigs' = sigs \cup {h}
  /\ UNCHANGED <<chain, job, drafts, log, accepted, faults>>

-----------------------------------------------------------------------------
(* Sending it, with a signature. *)

(* With tx_data, what was made is sent as it is. *)
SendTxData(c, i, sig, ch) ==
  /\ Idle(c)
  /\ Goto(c, [pc |-> "built", net |-> "eth", tx |-> drafts[i].tx, chain |-> orDefault(ch, 1), sig |-> sig])
  /\ UNCHANGED <<chain, drafts, sigs, log, accepted, faults>>

(* Without, it is made again from the fields of the request, with the next *)
(* nonce but one and, unless one is given, the price of now.               *)
SendFields(c, i, sig, ch, given) ==
  /\ Idle(c)
  /\ Goto(c, [pc |-> "fields", req |-> drafts[i].req, nonce |-> Len(mined) + 1,
              price |-> given, chain |-> orDefault(ch, 1), sig |-> sig])
  /\ UNCHANGED <<chain, drafts, sigs, log, accepted, faults>>

RebuildTx(c) ==
  /\ job[c].pc = "fields"
  /\ LET r == job[c].req
         tx == [nonce |-> job[c].nonce, to |-> r.to, value |-> r.amount,
                gas |-> orDefault(r.gas, DefaultGas(FALSE)),
                price |-> orDefault(job[c].price, price), data |-> NoData]
     IN Goto(c, [pc |-> "built", net |-> "eth", tx |-> tx, chain |-> job[c].chain, sig |-> job[c].sig])
  /\ UNCHANGED <<chain, drafts, sigs, log, accepted, faults>>

(* A Bitcoin transaction is always made again. *)
SendBitcoin(c, i, sig) ==
  /\ Idle(c)
  /\ \E inputs \in (SUBSET coins) \ {{}} :
       Goto(c, [pc |-> "built", net |-> "btc", tx |-> NewTX(drafts[i].req, inputs),
                chain |-> 0, sig |-> sig])
  /\ UNCHANGED <<chain, drafts, sigs, log, accepted, faults>>

(* External: whether a node takes the transaction of a call. *)
Accepts(j) ==
  IF j.net = "eth"
    THEN /\ j.sig = Hash(j.tx, j.chain)
         /\ j.chain = 1
         /\ j.tx.nonce >= Len(mined)
         /\ \A t \in pool : t.nonce = j.tx.nonce => t.price < j.tx.price
    ELSE /\ j.sig = Hash(j.tx, 0)
         /\ j.tx.inputs \subseteq coins
         /\ Cardinality(j.tx.inputs) = 1

(* Mutant of SendTransaction: a refusal goes unnoticed. *)
SendTransaction_IgnoreError(c) ==
  /\ job[c].pc = "built"
  /\ IF Accepts(job[c]) /\ job[c].net = "eth"
       THEN /\ accepted' = accepted \cup {job[c].tx}
            /\ pool' = {t \in pool : t.nonce # job[c].tx.nonce} \cup {job[c].tx}
       ELSE UNCHANGED <<accepted, pool>>
  /\ Goto(c, [pc |-> "sent", net |-> job[c].net, tx |-> job[c].tx])
  /\ UNCHANGED <<price, mined, coins, funds, drafts, sigs, log, faults>>

(* A node that has taken it may still fail to say so. *)
SendTransaction(c) ==
  /\ job[c].pc = "built"
  /\ IF Accepts(job[c])
       THEN /\ accepted' = accepted \cup {job[c].tx}
            /\ IF job[c].net = "eth"
                 THEN /\ pool' = {t \in pool : t.nonce # job[c].tx.nonce} \cup {job[c].tx}
                      /\ UNCHANGED coins
                 ELSE coins' = coins \ job[c].tx.inputs /\ UNCHANGED pool
            /\ \/ Goto(c, [pc |-> "sent", net |-> job[c].net, tx |-> job[c].tx])
               \/ Return(c)
       ELSE Return(c) /\ UNCHANGED <<accepted, pool, coins>>
  /\ UNCHANGED <<price, mined, funds, drafts, sigs, log, faults>>

(* On Bitcoin the record names the account only. *)
recordCosign(c) ==
  /\ job[c].pc = "sent"
  /\ log' = log \cup {IF job[c].net = "eth" THEN [tx |-> job[c].tx] ELSE [from |-> "account"]}
  /\ Return(c)
  /\ UNCHANGED <<chain, drafts, sigs, accepted, faults>>

-----------------------------------------------------------------------------
(* The balance of the recipient. *)

(* big.Int.Int64: the low bits of a balance, as a signed number. *)
Int64(n) ==
  LET low == n % Word IN IF low < Word \div 2 THEN low ELSE low - Word

(* The answer of a call; enough is what it should say, by the balance at   *)
(* the time it was read.                                                   *)
Answer(c, e, sufficient, timedOut) ==
  Goto(c, [pc |-> "answered", sufficient |-> sufficient, timedOut |-> timedOut,
           enough |-> funds >= e])

checkBalance(c, e) ==
  /\ Idle(c)
  /\ Answer(c, e, Int64(funds) >= e, FALSE)
  /\ UNCHANGED <<chain, drafts, sigs, log, accepted, faults>>

waitForBalance(c, e) ==
  /\ Idle(c)
  /\ e > 0
  /\ Goto(c, [pc |-> "waiting", expected |-> e])
  /\ UNCHANGED <<chain, drafts, sigs, log, accepted, faults>>

(* Mutant of Poll: the comparison is the wrong way round. *)
Poll_Swapped(c) ==
  /\ job[c].pc = "waiting"
  /\ Int64(funds) <= job[c].expected
  /\ Answer(c, job[c].expected, TRUE, FALSE)
  /\ UNCHANGED <<chain, drafts, sigs, log, accepted, faults>>

(* A tick finds the amount there; other ticks, and failed ones, change     *)
(* nothing.                                                                *)
Poll(c) ==
  /\ job[c].pc = "waiting"
  /\ Int64(funds) >= job[c].expected
  /\ Answer(c, job[c].expected, TRUE, FALSE)
  /\ UNCHANGED <<chain, drafts, sigs, log, accepted, faults>>

TimeOut(c) ==
  /\ job[c].pc = "waiting"
  /\ Answer(c, job[c].expected, FALSE, TRUE)
  /\ UNCHANGED <<chain, drafts, sigs, log, accepted, faults>>

Respond(c) ==
  /\ job[c].pc = "answered"
  /\ Return(c)
  /\ UNCHANGED <<chain, drafts, sigs, log, accepted, faults>>

-----------------------------------------------------------------------------
(* The chain, and failures. *)

(* External: what a transaction does. *)
Effect(tx) ==
  IF tx.to = Token /\ tx.data # NoData
    THEN [token |-> TRUE, contract |-> Token, to |-> tx.data.to, amount |-> tx.data.amount]
    ELSE [token |-> FALSE, contract |-> Token, to |-> tx.to, amount |-> tx.value]

(* External: the next transaction goes into a block. *)
Mine ==
  /\ \E t \in pool :
       /\ t.nonce = Len(mined)
       /\ mined' = Append(mined, t)
       /\ pool' = pool \ {t}
       /\ funds' = IF t.to = Recipient THEN funds + t.value ELSE funds
  /\ UNCHANGED <<price, coins, job, drafts, sigs, log, accepted, faults>>

(* External: the suggested price moves. *)
PriceMoves ==
  /\ price' \in Prices \ {price}
  /\ UNCHANGED <<mined, pool, coins, funds, job, drafts, sigs, log, accepted, faults>>

(* A request to a node fails, and the call with it. *)
NodeError(c) ==
  /\ job[c].pc \in {"nonce", "fields", "built"}
  /\ Return(c)
  /\ UNCHANGED <<chain, drafts, sigs, log, accepted, faults>>

Fault == faults < MaxFaults /\ faults' = faults + 1

(* The client restarts, also between a broadcast and its record. *)
Restart ==
  /\ Fault
  /\ job' = [c \in Calls |-> [pc |-> "idle"]]
  /\ UNCHANGED <<chain, drafts, sigs, log, accepted>>

(* External: the node forgets a transaction that waits. *)
Evict ==
  /\ Fault
  /\ \E t \in pool : pool' = pool \ {t}
  /\ UNCHANGED <<price, mined, coins, funds, job, drafts, sigs, log, accepted>>

Make(c) == \E r \in Requests : createEthereumTxHash(c, r) \/ createBitcoinTxHash(c, r)

OnEthereum == {i \in DOMAIN drafts : drafts[i].req.net = "eth"}

Send(c) ==
  \E sig \in sigs :
     \/ \E i \in OnEthereum : \E ch \in {0, drafts[i].req.chain} :
          \/ SendTxData(c, i, sig, ch)
          \/ \E given \in {0, drafts[i].tx.price} : SendFields(c, i, sig, ch, given)
     \/ \E i \in DOMAIN drafts \ OnEthereum : SendBitcoin(c, i, sig)

Balance(c) == \E e \in Expected : checkBalance(c, e) \/ waitForBalance(c, e)

Next ==
  \/ \E c \in Calls :
       \/ Make(c) \/ SuggestGasPrice(c)
       \/ Send(c) \/ RebuildTx(c) \/ SendTransaction(c) \/ recordCosign(c)
       \/ Balance(c) \/ Poll(c) \/ TimeOut(c) \/ Respond(c)
       \/ NodeError(c)
  \/ \E i \in DOMAIN drafts : CoSign(i)
  \/ Mine \/ PriceMoves \/ Restart \/ Evict

Spec == Init /\ [][Next]_vars

-----------------------------------------------------------------------------
TypeOK ==
  /\ price \in Prices
  /\ coins \subseteq Coins
  /\ funds \in Nat
  /\ \A c \in Calls : job[c].pc \in
       {"idle", "nonce", "fields", "built", "sent", "waiting", "answered"}
  /\ Len(drafts) <= MaxDrafts
  /\ \A i \in OnEthereum : drafts[i].chain > 0 /\ drafts[i].tx.nonce < MaxDrafts
  /\ \A n \in DOMAIN mined : mined[n].nonce = n - 1
  /\ \A t \in pool : t.nonce >= Len(mined)
  /\ faults \in 0 .. MaxFaults

(* What moves on the chain was made by createTxHash for a request, and     *)
(* moves what that request asks for and what decodeTx showed to the one    *)
(* who signed it: also for tokens, also when sendTransaction makes the     *)
(* transaction again from its fields, and however calls overlap.           *)
PaidAsShown ==
  \A n \in DOMAIN mined : \E i \in OnEthereum :
     LET r == drafts[i].req IN
     /\ mined[n] = drafts[i].tx
     /\ Effect(mined[n]) = decodeTx(drafts[i].tx)
     /\ Effect(mined[n]) = [token |-> r.token, contract |-> Token, to |-> r.to, amount |-> r.amount]

(* The state is well formed, and nonces do their work: a transaction made  *)
(* after all earlier ones are with the node competes with none of them,    *)
(* and, unless a node forgets one, what a node has accepted can go into a  *)
(* block: the nonces of accepted payments leave no gap that no payment     *)
(* fills (PendingNonceAt in createEthereumTxHash).                         *)
NoncesInOrder ==
  /\ TypeOK
  /\ \A i, j \in OnEthereum :
        i < j /\ drafts[j].clear => drafts[i].tx.nonce < drafts[j].tx.nonce
  /\ faults = 0 =>
        \A t \in pool : \A n \in Len(mined) .. t.nonce : \E u \in pool : u.nonce = n

(* A signature, kept by the escrow in one encoding and brought into the    *)
(* other by sigToEthereum, is taken by Ethereum for one of the account,    *)
(* whatever half of the order S was in and whatever point R is             *)
(* (SigEthereum).                                                          *)
SignaturesUsable == sigs # {} => EncodingsAgree

(* A broadcast in the history was accepted by a node, also when calls are  *)
(* repeated, fail or restart (recordCosign after SendTransaction).         *)
RecordsBacked ==
  \A e \in log : \E tx \in accepted :
     e = [tx |-> tx] \/ (e = [from |-> "account"] /\ tx \notin {drafts[i].tx : i \in OnEthereum})

(* Nobody is told that there is enough when there is not, although a       *)
(* balance is cut to 64 bits (checkBalance, waitForBalance).               *)
SufficientIsTrue ==
  \A c \in Calls : job[c].pc = "answered" /\ job[c].sufficient
                     => job[c].enough /\ ~ job[c].timedOut

=============================================================================
