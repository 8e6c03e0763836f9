------------------------------ MODULE MCRelay ------------------------------
(* A small instance of Relay: every protocol, two attempts of each party,  *)
(* one failure.                                                            *)
EXTENDS Relay
=============================================================================
