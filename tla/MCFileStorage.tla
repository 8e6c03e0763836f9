--------------------------- MODULE MCFileStorage ---------------------------
(* A small instance of FileStorage: a key two directories deep and one     *)
(* that shares the outer directory.                                        *)
EXTENDS FileStorage, TLC

CONSTANTS deep, shallow, outer, inner

MCDirOf(k) == IF k = deep THEN inner ELSE outer
MCUp(d) == IF d = inner THEN outer ELSE Root
MCPath(d) ==
  CASE d = inner -> {inner, outer} [] d = outer -> {outer} [] d = Root -> {}

(* Clients are interchangeable. *)
MCSymmetry == Permutations(Clients)
=============================================================================
