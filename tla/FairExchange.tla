---------------------------- MODULE FairExchange ----------------------------
(***************************************************************************)
(* What the escrow promises the two parties of a swap: an exchange of two  *)
(* signatures is settled once and for all in a single step, and from then  *)
(* on each party may collect the signature of the other, and nothing else. *)
(***************************************************************************)
CONSTANTS
  Swaps,    \* the exchanges (escrow ids)
  Offers    \* [key |-> k, sig |-> s]: the party of key k gives signature s

VARIABLES
  terms,     \* the two offers a settled exchange consists of, {} before
  collected  \* pairs <<swap, offer>>: who collected; offer is its own

exchangeVars == <<terms, collected>>

Init ==
  /\ terms = [x \in Swaps |-> {}]
  /\ collected = {}

Settle(x) ==
  /\ terms[x] = {}
  /\ \E a, b \in Offers :
        /\ a.key # b.key
        /\ terms' = [terms EXCEPT ![x] = {a, b}]
  /\ UNCHANGED collected

Collect(x) ==
  /\ \E a \in terms[x] : collected' = collected \cup {<<x, a>>}
  /\ UNCHANGED terms

Next == \E x \in Swaps : Settle(x) \/ Collect(x)

Spec == Init /\ [][Next]_exchangeVars

=============================================================================
