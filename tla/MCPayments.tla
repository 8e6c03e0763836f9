----------------------------- MODULE MCPayments -----------------------------
(* A small instance of Payments: two calls at a time, two transactions out *)
(* of a payment in ether, one in tokens and one on Bitcoin, a group of     *)
(* order 11 and numbers of two bits.                                       *)
EXTENDS Payments, TLC

CONSTANT bob

MCRequest(net, token, ch) ==
  [net |-> net, to |-> bob, amount |-> 1, token |-> token, chain |-> ch, gas |-> 0]

MCRequests ==
  {MCRequest("eth", FALSE, 0), MCRequest("eth", TRUE, 0), MCRequest("btc", FALSE, 0)}

MCSymmetry == Permutations(Calls)

=============================================================================
