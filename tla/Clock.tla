------------------------------- MODULE Clock -------------------------------
(***************************************************************************)
(* time.Now() of the host server, which sessions, logins and the timebox   *)
(* read.                                                                   *)
(***************************************************************************)
EXTENDS Integers

CONSTANT Horizon   \* bound: the last instant of the clock

VARIABLE now

=============================================================================
