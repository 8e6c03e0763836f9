------------------------------ MODULE MCCosign ------------------------------
(***************************************************************************)
(* Cosign for TLC: Alice sends and Bob accepts, by ECDSA two transactions  *)
(* of one swap, by FROST one of them.  Bob also sends one, marks it        *)
(* complete, broadcasts it, and is once shown another transaction than     *)
(* Alice's.                                                                *)
(***************************************************************************)
EXTENDS Cosign, TLC

CONSTANTS Alice, Bob, h1, h2, swap

MCClients == {Alice, Bob}

MCRequest(op, c, alg, h, tx, s) ==
  [op |-> op, client |-> c, alg |-> alg, hash |-> h, tx |-> tx, swap |-> s]

MCRequests ==
  {MCRequest("send", Alice, "ecdsa", h, h, NoSwap) : h \in Hashes}
  \cup {MCRequest("accept", Bob, "ecdsa", h, h, swap) : h \in Hashes}
  \cup {MCRequest("accept", Bob, "ecdsa", h1, h2, NoSwap),
        MCRequest("send", Alice, "frost", h1, h1, NoSwap),
        MCRequest("accept", Bob, "frost", h1, h1, swap),
        MCRequest("send", Bob, "ecdsa", h2, h2, swap),
        MCRequest("complete", Bob, "ecdsa", h2, h2, NoSwap),
        MCRequest("broadcast", Bob, "ecdsa", h2, h2, NoSwap)}

(* Two withdrawals of the swap, by FROST. *)
MCFrostRequests ==
  {MCRequest("send", Alice, "frost", h, h, NoSwap) : h \in Hashes}
  \cup {MCRequest("accept", Bob, "frost", h, h, swap) : h \in Hashes}

(* Slots are interchangeable. *)
MCSymmetry == Permutations(Slots)

=============================================================================
