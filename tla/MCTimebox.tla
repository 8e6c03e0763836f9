----------------------------- MODULE MCTimebox -----------------------------
(* Small instances of Timebox: one key, shared by the pair of Alice and    *)
(* Bob; Carol is in no pair.                                               *)
EXTENDS Timebox, TLC

CONSTANTS Alice, Bob, Carol, ab, pub, hash1, hash2, sig1, wrong, h1, h2

MCMembers(p) == {Alice, Bob}

MCVerify(k, x, s) == <<x, s>> = <<hash1, sig1>>

PostOf(x, s) == [pair |-> ab, pub |-> pub, hash |-> x, sig |-> s]

OnePost == {PostOf(hash1, sig1)}

\* A withdrawal, and a signature that does not verify.
AnyPosts == OnePost \cup {PostOf(hash1, wrong)}

TwoHandlers == {h1, h2}
Symmetric == Permutations(TwoHandlers)
=============================================================================
