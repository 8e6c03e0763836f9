-------------------------------- MODULE Host --------------------------------
(***************************************************************************)
(* Whom the host server serves, and how many requests it serves at once.   *)
(***************************************************************************)
CONSTANTS
  Users,     \* addresses of authenticated callers (JWT subjects)
  Handlers   \* HTTP requests the server can be serving at once

=============================================================================
