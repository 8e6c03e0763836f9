----------------------------- MODULE MCPairing -----------------------------
(* A small instance of Pairing: both orders of creating one pair. *)
EXTENDS Pairing

CONSTANTS alice, bob

TwoUsers == {alice, bob}
OnePair == {{alice, bob}}
=============================================================================
