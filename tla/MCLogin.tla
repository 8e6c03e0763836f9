------------------------------ MODULE MCLogin ------------------------------
(* A small instance of login: two users and two login requests at a time. *)
EXTENDS Login, TLC

CONSTANTS alice, bob, h1, h2

TwoAddresses == {alice, bob}
TwoHandlers == {h1, h2}
Symmetric == Permutations(TwoAddresses) \cup Permutations(TwoHandlers)
=============================================================================
