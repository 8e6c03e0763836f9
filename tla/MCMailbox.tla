----------------------------- MODULE MCMailbox -----------------------------
(* Small instances of Mailbox: Alice is paired with Bob; Carol is not. *)
EXTENDS Mailbox

CONSTANTS alice, bob, carol, ab

ThreeUsers == {alice, bob, carol}
MCMembers(p) == {alice, bob}
=============================================================================
