----------------------------- MODULE Validation -----------------------------
(***************************************************************************)
(* Signature validation as the host server uses it (validation.Validate).  *)
(*                                                                         *)
(* Keys, hashes and signatures are opaque values.  The request parsers     *)
(* force the algorithm to match the length of the public key (33 bytes     *)
(* for ECDSA, 32 for Schnorr), so the algorithm is a function of the key:  *)
(* EcdsaPubs are the ECDSA keys, all other keys are Schnorr keys.          *)
(***************************************************************************)
CONSTANTS
  Pubs,          \* public keys of withdrawal accounts
  EcdsaPubs,     \* those among them that are 33-byte ECDSA keys
  Hashes,        \* 32-byte transaction hashes
  Sigs,          \* non-empty signatures
  NoSig,         \* the empty signature (sig is optional when depositing)
  Malformed,     \* keys and signatures the ECDSA decoders reject
  Verify(_,_,_)  \* the cryptographic check of a library: pub, hash, sig

AnySig == Sigs \cup {NoSig}

(* The ECDSA branch rejects signatures of fewer than 64 bytes, the empty   *)
(* one among them, before it decodes anything; no library accepts an empty *)
(* Schnorr signature.                                                      *)
ASSUME ValidationAssumption ==
  /\ EcdsaPubs \subseteq Pubs
  /\ NoSig \notin Sigs
  /\ NoSig \in Malformed
  /\ \A pub \in Pubs, hash \in Hashes, sig \in AnySig :
        Verify(pub, hash, sig) \in BOOLEAN
  /\ \A pub \in Pubs, hash \in Hashes : ~ Verify(pub, hash, NoSig)

Validate(pub, hash, sig) ==
  IF pub \in EcdsaPubs /\ (pub \in Malformed \/ sig \in Malformed)
    THEN "error"
    ELSE IF Verify(pub, hash, sig) THEN "valid" ELSE "invalid"

=============================================================================
