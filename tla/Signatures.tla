----------------------------- MODULE Signatures -----------------------------
(***************************************************************************)
(* ECDSA signatures and their two encodings (mpc/mpccmp), over a group of  *)
(* prime order: a scalar k stands for the point k*G.  A point and its      *)
(* negation have the same x coordinate and differ in the parity of y.      *)
(***************************************************************************)
EXTENDS Integers

CONSTANT Order   \* order of the group, an odd prime

ASSUME SignaturesAssumption ==
  Order \in Nat /\ Order > 2 /\ \A n \in 2 .. Order - 1 : Order % n # 0

Scalars == 1 .. Order - 1

Negate(a) == (Order - a) % Order
IsOverHalfOrder(a) == a > Order \div 2
Inverted(a) == CHOOSE b \in Scalars : (a * b) % Order = 1

XCoordinate(k) == IF IsOverHalfOrder(k) THEN Negate(k) ELSE k
Parity(k) == IF IsOverHalfOrder(k) THEN 1 ELSE 0
Point(x, parity) == IF parity = 1 THEN Negate(x) ELSE x

(* External, CMP: the signature of m with a key and a presignature k; there *)
(* is none if S is 0.                                                      *)
Signature(key, k, m) ==
  [R |-> k, S |-> (Inverted(k) * (m + XCoordinate(k) * key)) % Order]

(* The bytes kept by the escrow: the compressed point R, then S. *)
GetSigByte(sig) == <<2 + Parity(sig.R), XCoordinate(sig.R), sig.S>>
FromSigByte(b) == [R |-> Point(b[2], b[1] - 2), S |-> b[3]]

(* Mutant of SigEthereum: S is negated, and v is not adapted. *)
SigEthereum_KeepV(sig) ==
  [r |-> XCoordinate(sig.R), v |-> Parity(sig.R),
   s |-> IF IsOverHalfOrder(sig.S) THEN Negate(sig.S) ELSE sig.S]

(* The bytes a transaction takes: r, s and v, with s in the lower half. *)
SigEthereum(sig) ==
  IF IsOverHalfOrder(sig.S)
    THEN [r |-> XCoordinate(sig.R), s |-> Negate(sig.S), v |-> 1 - Parity(sig.R)]
    ELSE [r |-> XCoordinate(sig.R), s |-> sig.S, v |-> Parity(sig.R)]

sigToEthereum(b) == SigEthereum(FromSigByte(b))

(* External, Ethereum: the key that signed m, for which 0 stands if there  *)
(* is none.  A node takes no signature with s in the upper half.           *)
Recovered(m, e) ==
  IF IsOverHalfOrder(e.s) THEN 0
    ELSE (Inverted(e.r) * (e.s * Point(e.r, e.v) + Negate(m))) % Order

(* Whether each signature, for every key, presignature and message, is     *)
(* still one by its key after both encodings.                              *)
EncodingsAgree ==
  \A key, k, m \in Scalars :
     LET sig == Signature(key, k, m)
     IN sig.S # 0 => Recovered(m, sigToEthereum(GetSigByte(sig))) = key

=============================================================================
