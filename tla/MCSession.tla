----------------------------- MODULE MCSession -----------------------------
(* Small instances of the session registry. *)
EXTENDS Session

CONSTANT s1

OneSession == {s1}
=============================================================================
