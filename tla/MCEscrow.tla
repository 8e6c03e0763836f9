------------------------------ MODULE MCEscrow ------------------------------
(* A small instance of Escrow.  A signature names the key and the hash it   *)
(* was made for; Garbled is one that no decoder accepts.                   *)
EXTENDS Escrow, TLC

CONSTANTS Alice, Bob, Carol, x, pubA, pubB, pubC, hashA, hashB,
          sigA, sigB, garbled

\* sigA verifies for Alice's withdrawal, sigB for Bob's.
MCVerify(pub, hash, sig) ==
  \/ <<pub, hash, sig>> = <<pubA, hashA, sigA>>
  \/ <<pub, hash, sig>> = <<pubB, hashB, sigB>>

Deposit(u, pub, hash, sig) ==
  [id |-> x, pub |-> pub, hash |-> hash, sig |-> sig, depositor |-> u]

\* The two parties of the swap; an early deposit without a signature and
\* one that cannot be decoded; Bob with a second key; Carol under a key in
\* use.  Nobody changes the hash of a key.
MCRequests ==
  {Deposit(Alice, pubA, hashA, sigB), Deposit(Bob, pubB, hashB, sigA),
   Deposit(Alice, pubA, hashA, NoSig), Deposit(Bob, pubB, hashB, garbled),
   Deposit(Bob, pubC, hashA, sigA), Deposit(Carol, pubA, hashA, sigB)}

MCLegacy == {[pub |-> pubA, hash |-> hashA, sig |-> sigB, depositor |-> Nobody]}

=============================================================================
