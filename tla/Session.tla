------------------------------ MODULE Session ------------------------------
(***************************************************************************)
(* The keygen session registry of the host server (server/session.go).     *)
(*                                                                         *)
(* The initiator of a key generation may cancel its session, the partner   *)
(* claims it before running its half.  The registry lets the first of the  *)
(* two win.  It lives in memory, under one mutex, and forgets an entry     *)
(* that nobody renewed for 15 minutes; a restart forgets everything.       *)
(***************************************************************************)
EXTENDS Clock

CONSTANTS
  SessionIds,
  TTL,          \* the 15 minutes of prune
  MaxRestarts,  \* bound: how often the server restarts
  NoSession

Statuses == {"claimed", "cancelled"}

sessionEntry == [status : Statuses, at : 0 .. Horizon]

ASSUME SessionAssumption ==
  /\ TTL \in Nat
  /\ Horizon \in Nat
  /\ MaxRestarts \in Nat
  /\ NoSession \notin sessionEntry

VARIABLES
  m,        \* the registry
  run,      \* history: restarts so far
  won,      \* history: the answers ok = true
  refused   \* history: the answers ok = false

sessionVars == <<m, now, run, won, refused>>

Verdict == [op : Statuses, id : SessionIds, at : 0 .. Horizon,
            run : 0 .. MaxRestarts]

SessionTypeOK ==
  /\ m \in [SessionIds -> sessionEntry \cup {NoSession}]
  /\ now \in 0 .. Horizon
  /\ run \in 0 .. MaxRestarts
  /\ won \subseteq Verdict
  /\ refused \subseteq Verdict

newSessionRegistry == [id \in SessionIds |-> NoSession]

SessionInit ==
  /\ m = newSessionRegistry
  /\ now = 0
  /\ run = 0
  /\ won = {}
  /\ refused = {}

-----------------------------------------------------------------------------
(* Mutant of prune: nothing is ever dropped. *)
prune_Never(r) == r

(* Entries last renewed before the cutoff are dropped. *)
prune(r) ==
  [id \in SessionIds |->
     IF r[id] # NoSession /\ r[id].at < now - TTL THEN NoSession ELSE r[id]]

Is(r, id, status) == r[id] # NoSession /\ r[id].status = status

verdict(op, id) == [op |-> op, id |-> id, at |-> now, run |-> run]

(* The answer to an operation that wins unless the opposite one has, on    *)
(* the pruned registry; winning again renews the entry.                    *)
Decide(id, op, opposite) ==
  LET r == prune(m) IN
  /\ IF Is(r, id, opposite)
       THEN /\ m' = r
            /\ refused' = refused \cup {verdict(op, id)}
            /\ UNCHANGED won
       ELSE /\ m' = [r EXCEPT ![id] = [status |-> op, at |-> now]]
            /\ won' = won \cup {verdict(op, id)}
            /\ UNCHANGED refused
  /\ UNCHANGED <<now, run>>

claim(id) == Decide(id, "claimed", "cancelled")

(* Mutant of cancel: a claimed session is cancelled all the same. *)
cancel_AnyStatus(id) ==
  /\ m' = [prune(m) EXCEPT ![id] = [status |-> "cancelled", at |-> now]]
  /\ won' = won \cup {verdict("cancelled", id)}
  /\ UNCHANGED <<now, run, refused>>

cancel(id) == Decide(id, "cancelled", "claimed")

SessionTick ==
  /\ now < Horizon
  /\ now' = now + 1
  /\ UNCHANGED <<m, run, won, refused>>

(* The server restarts with an empty registry. *)
SessionRestart ==
  /\ run < MaxRestarts
  /\ run' = run + 1
  /\ m' = newSessionRegistry
  /\ UNCHANGED <<now, won, refused>>

SessionNext ==
  \/ \E id \in SessionIds : claim(id) \/ cancel(id)
  \/ SessionTick
  \/ SessionRestart

SessionSpec == SessionInit /\ [][SessionNext]_sessionVars

-----------------------------------------------------------------------------
Opposite(a, b) == a.op # b.op /\ a.id = b.id

(* Only one side of a race wins: a claim and a cancel of one session are   *)
(* both answered ok only if a restart or more than the 15 minutes of prune *)
(* separate them (claim, cancel and the renewal of at).                    *)
OneWinner ==
  \A a, b \in won : Opposite(a, b) /\ a.run = b.run =>
     a.at - b.at > TTL \/ b.at - a.at > TTL

(* A refusal has a cause: whoever is answered ok = false lost to an        *)
(* opposite answer ok = true of the last 15 minutes, so a forgotten entry  *)
(* never blocks a session (prune at the start of claim and cancel).        *)
RefusalsJustified ==
  \A a \in refused : \E b \in won :
     Opposite(a, b) /\ a.run = b.run /\ b.at <= a.at /\ a.at - b.at <= TTL

=============================================================================
