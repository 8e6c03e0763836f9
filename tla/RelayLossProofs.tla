-------------------------- MODULE RelayLossProofs --------------------------
(***************************************************************************)
(* Proof that the relay loses no message, for every protocol, any number   *)
(* of rounds, of attempts and of failures and every size of the buffer.    *)
(*                                                                         *)
(* The argument: until something disturbs the attempts the parties start   *)
(* them in turn (TurnInv), so all messages under way belong to one attempt *)
(* (CurrentInv) and are numbered without gaps, from the last one received  *)
(* to the last one sent (ChainInv).  The number of messages received is    *)
(* what the script of the receiver says (CountInv).  The two scripts agree *)
(* on how many messages there are, so a party that has its result has      *)
(* received everything and leaves nothing behind, and each message that is *)
(* taken is the one that is expected.                                      *)
(***************************************************************************)
EXTENDS RelayProofs

(* Messages for p of the attempt of the other party, once p is not ahead. *)
SentTo(p) ==
  LET q == Other(p) IN
  IF attempt[q] < attempt[p] THEN 0
  ELSE IF status[q] = "done" THEN Total(protocol, q) ELSE Sends(protocol, q, pos[q])

Handed(p) == SentTo(p) - Len(stream[p]) + (IF unacked[p] THEN 1 ELSE 0)
Received(p) == Handed(p) - Len(wire[p]) - Len(out[p])

Current(p, m) ==
  LET q == Other(p) IN
  m.attempt = attempt[q] /\ attempt[p] <= attempt[q] /\ m.peer \in {0, attempt[q]}

Chain(s, b) == \A i \in DOMAIN s : s[i].n = b + i

(* The parties start their attempts in turn, and each ends well. *)
TurnInv(p) ==
  LET q == Other(p) IN
  /\ attempt[p] <= attempt[q] + 1
  /\ attempt[p] > attempt[q] => Link(q) \in {"none", "closed"}
  /\ \A a \in Attempts : a < attempt[p] => link[p][a] = "closed"
  /\ status[p] \in {"idle", "running", "done"}

(* Messages under way belong to the attempt the parties are in. *)
CurrentInv(p) ==
  /\ \A m \in have[p] \cup Elements(stream[p]) \cup Elements(wire[p]) \cup Elements(out[p]) :
       Current(p, m)
  /\ \A m \in have[p] : m.n <= Received(p)

(* They are numbered without gaps from the last one received. *)
ChainInv(p) ==
  /\ Chain(stream[p], SentTo(p) - Len(stream[p]))
  /\ Chain(wire[p], Handed(p) - Len(wire[p]))
  /\ Chain(out[p], Received(p))

(* What p has received is what its script says, in the end everything. *)
CountInv(p) ==
  LET q == Other(p) IN
  /\ attempt[p] = 0 \/ attempt[p] < attempt[q] => Received(p) = 0
  /\ Here(p) => /\ Receives(protocol, p, pos[p]) <= Received(p)
                /\ protocol # "rounds" => Receives(protocol, p, pos[p]) = Received(p)
  /\ attempt[p] > 0 /\ ~ Here(p) /\ attempt[q] <= attempt[p] =>
       SentTo(p) = Total(protocol, q) /\ Received(p) = Total(protocol, q)

(* What was sent is taken or under way. *)
FoundInv(p) ==
  /\ unacked[p] => stream[p][1] \in taken \cup Elements(wire[p]) \cup Elements(out[p])
  /\ \A m \in sent : m.from = Other(p) =>
       m \in taken \cup Elements(stream[p]) \cup Elements(wire[p]) \cup Elements(out[p])

Calm(p) == TurnInv(p) /\ CurrentInv(p) /\ ChainInv(p) /\ CountInv(p) /\ FoundInv(p)

CalmInv == ~ disturbed => \A p \in Parties : Calm(p)

-----------------------------------------------------------------------------
(* CalmInv. *)

LEMMA SentToFacts ==
  ASSUME BaseInv, NEW p \in Parties
  PROVE  /\ SentTo(p) \in Nat /\ SentTo(p) <= Total(protocol, Other(p))
         /\ Total(protocol, Other(p)) \in Nat
         /\ attempt[p] \in Nat /\ attempt[Other(p)] \in Nat
<1> DEFINE q == Other(p)
<1>1. q \in Parties /\ Types /\ ScriptInv(q)
  BY PartyFacts, Zenon DEF BaseInv
<1>2. /\ Total(protocol, q) \in 0 .. Rounds + 1 /\ Rounds \in Nat
      /\ Size(protocol, q) \in 1 .. 2 * Rounds + 2
      /\ \A i \in 0 .. Size(protocol, q) : Sends(protocol, q, i) \in 0 .. Total(protocol, q)
  BY <1>1, CountFacts, ProtocolFacts, Zenon
<1>3. attempt[p] \in 0 .. MaxAttempts /\ attempt[q] \in 0 .. MaxAttempts /\ pos[q] \in Nat
      /\ pos[q] <= Size(protocol, q)
  BY <1>1, Zenon DEF Types, ScriptInv
<1>4. pos[q] \in 0 .. Size(protocol, q)
  BY <1>2, <1>3
<1>5. Sends(protocol, q, pos[q]) \in 0 .. Total(protocol, q)
  BY <1>2, <1>4, Zenon
<1>6. SentTo(p) \in {0, Total(protocol, q), Sends(protocol, q, pos[q])}
  BY Zenon DEF SentTo
<1>7. QED
  BY <1>2, <1>3, <1>5, <1>6

LEMMA ReceivedFacts ==
  ASSUME BaseInv, NEW p \in Parties
  PROVE  /\ Len(stream[p]) \in Nat /\ Len(wire[p]) \in Nat /\ Len(out[p]) \in Nat
         /\ Handed(p) \in Int /\ Received(p) \in Int
         /\ Handed(p) <= SentTo(p)
         /\ Received(p) = Handed(p) - Len(wire[p]) - Len(out[p])
         /\ unacked[p] => /\ Handed(p) = SentTo(p) - Len(stream[p]) + 1
                          /\ Len(stream[p]) > 0
         /\ ~ unacked[p] => Handed(p) = SentTo(p) - Len(stream[p])
<1>1. QueueInv(p) /\ SentTo(p) \in Nat
  BY SentToFacts, Zenon DEF BaseInv
<1>2. /\ stream[p] \in Seq(To(p)) /\ wire[p] \in Seq(To(p)) /\ out[p] \in Seq(To(p))
      /\ unacked[p] => stream[p] # <<>>
  BY <1>1, Zenon DEF QueueInv
<1>3. /\ Len(stream[p]) \in Nat /\ Len(wire[p]) \in Nat /\ Len(out[p]) \in Nat
      /\ unacked[p] => Len(stream[p]) > 0
  BY <1>2
<1>4. Received(p) = Handed(p) - Len(wire[p]) - Len(out[p])
  BY Zenon DEF Received
<1>5. CASE unacked[p]
  <2>1. Handed(p) = SentTo(p) - Len(stream[p]) + 1
    BY <1>5, Zenon DEF Handed
  <2>2. Len(stream[p]) > 0
    BY <1>3, <1>5, Zenon
  <2>3. Handed(p) \in Int /\ Received(p) \in Int /\ Handed(p) <= SentTo(p)
    <3>1. /\ SentTo(p) \in Nat /\ Len(stream[p]) \in Nat /\ Len(wire[p]) \in Nat
          /\ Len(out[p]) \in Nat
      BY <1>1, <1>3, Zenon
    <3>2. Handed(p) \in Int /\ Handed(p) <= SentTo(p)
      BY <2>1, <2>2, <3>1
    <3>3. Received(p) \in Int
      BY <1>4, <3>1, <3>2
    <3>4. QED
      BY <3>2, <3>3, Zenon
  <2>4. QED
    BY <1>3, <1>4, <1>5, <2>1, <2>2, <2>3, Zenon
<1>6. CASE ~ unacked[p]
  <2>1. Handed(p) = SentTo(p) - Len(stream[p]) + 0
    BY <1>6, Zenon DEF Handed
  <2>2. /\ SentTo(p) \in Nat /\ Len(stream[p]) \in Nat /\ Len(wire[p]) \in Nat
        /\ Len(out[p]) \in Nat
    BY <1>1, <1>3, Zenon
  <2>3. /\ Handed(p) \in Int /\ Handed(p) <= SentTo(p)
        /\ Handed(p) = SentTo(p) - Len(stream[p])
    BY <2>1, <2>2
  <2>4. Received(p) \in Int
    BY <1>4, <2>2, <2>3, SMTT(30)
  <2>5. QED
    BY <1>4, <1>6, <2>2, <2>3, <2>4, Zenon
<1>7. QED
  BY <1>5, <1>6, Zenon

(* A party that has received everything finds nothing more. *)
LEMMA AllReceived ==
  ASSUME BaseInv, NEW p \in Parties, Received(p) >= Total(protocol, Other(p))
  PROVE  /\ out[p] = <<>> /\ wire[p] = <<>> /\ (~ unacked[p] => stream[p] = <<>>)
         /\ SentTo(p) = Total(protocol, Other(p)) /\ Received(p) = Total(protocol, Other(p))
<1>1. QueueInv(p)
  BY Zenon DEF BaseInv
<1>2. /\ stream[p] \in Seq(To(p)) /\ wire[p] \in Seq(To(p)) /\ out[p] \in Seq(To(p))
  BY <1>1, Zenon DEF QueueInv
<1>3. /\ Len(out[p]) = 0 /\ Len(wire[p]) = 0 /\ (~ unacked[p] => Len(stream[p]) = 0)
      /\ SentTo(p) = Total(protocol, Other(p)) /\ Received(p) = Total(protocol, Other(p))
  <2>1. /\ SentTo(p) \in Nat /\ SentTo(p) <= Total(protocol, Other(p))
        /\ Total(protocol, Other(p)) \in Nat
    BY SentToFacts, Zenon
  <2>2. /\ Len(stream[p]) \in Nat /\ Len(wire[p]) \in Nat /\ Len(out[p]) \in Nat
        /\ Handed(p) \in Int /\ Received(p) \in Int /\ Handed(p) <= SentTo(p)
        /\ Received(p) = Handed(p) - Len(wire[p]) - Len(out[p])
        /\ ~ unacked[p] => Handed(p) = SentTo(p) - Len(stream[p])
    BY ReceivedFacts, Zenon
  <2>3. QED
    BY <2>1, <2>2
<1>4. \A s \in Seq(To(p)) : Len(s) = 0 => s = <<>>
  BY EmptyFacts, Zenon
<1>5. QED
  BY <1>2, <1>3, <1>4, Zenon

LEMMA DoneEmpty ==
  ASSUME BaseInv, NEW p \in Parties, CountInv(p), status[p] = "done", Here(p)
  PROVE  /\ out[p] = <<>> /\ wire[p] = <<>>
         /\ SentTo(p) = Total(protocol, Other(p)) /\ Received(p) = Total(protocol, Other(p))
<1>1. Types /\ pos[p] = Size(protocol, p)
  BY Zenon DEF BaseInv, ScriptInv
<1>2. Receives(protocol, p, Size(protocol, p)) = Total(protocol, Other(p))
  BY <1>1, CountFacts, Zenon
<1>3. Receives(protocol, p, pos[p]) <= Received(p)
  BY Zenon DEF CountInv
<1>4. Received(p) >= Total(protocol, Other(p))
  BY <1>1, <1>2, <1>3, SentToFacts, ReceivedFacts, Zenon
<1>5. QED
  BY <1>4, AllReceived, Zenon

(* Nobody starts an attempt while the other is still in an earlier one. *)
LEMMA HereTurn ==
  ASSUME BaseInv, NEW p \in Parties, Calm(Other(p)), Here(p)
  PROVE  /\ attempt[Other(p)] <= attempt[p] /\ attempt[p] > 0
         /\ ~ (attempt[p] < attempt[Other(p)])
         /\ \A m : Current(p, m) => attempt[p] = attempt[Other(p)] /\ m.attempt = attempt[p]
                                    /\ m.peer \in {0, attempt[p]}
<1> DEFINE q == Other(p)
<1>1. q \in Parties /\ Other(q) = p /\ Types /\ LinkInv(p)
  BY PartyFacts, Zenon DEF BaseInv
<1>2. attempt[p] \in Attempts
  BY <1>1, HereFacts, Zenon
<1>3. attempt[p] > 0 /\ attempt[p] \in Nat /\ attempt[q] \in Nat
  BY <1>1, <1>2, SentToFacts DEF Attempts
<1>4. Link(p) \notin {"none", "closed"}
  BY Zenon DEF Here
<1>5. ~ (attempt[q] > attempt[p])
  BY <1>1, <1>4, Zenon DEF Calm, TurnInv
<1>6. attempt[q] <= attempt[p] /\ ~ (attempt[p] < attempt[q])
  BY <1>3, <1>5
<1>7. attempt[p] <= attempt[q] => attempt[p] = attempt[q]
  BY <1>3, <1>6
<1>8. \A m : Current(p, m) => attempt[p] = attempt[q] /\ m.attempt = attempt[p]
                                    /\ m.peer \in {0, attempt[p]}
  BY <1>7, Zenon DEF Current
<1>9. QED
  BY <1>3, <1>6, <1>8, Zenon

LEMMA NumberFrame ==
  ASSUME NEW p \in Parties, SentTo(p)' = SentTo(p), stream'[p] = stream[p],
         wire'[p] = wire[p], out'[p] = out[p], unacked'[p] = unacked[p]
  PROVE  Handed(p)' = Handed(p) /\ Received(p)' = Received(p)
BY Zenon DEF Handed, Received

LEMMA SentToFrame ==
  ASSUME NEW p \in Parties, protocol' = protocol, attempt' = attempt,
         status'[Other(p)] = status[Other(p)], pos'[Other(p)] = pos[Other(p)]
  PROVE  SentTo(p)' = SentTo(p)
BY Zenon DEF SentTo

LEMMA CurrentFrame ==
  ASSUME NEW p \in Parties, CurrentInv(p), ChainInv(p), SentTo(p)' = SentTo(p),
         attempt' = attempt, stream'[p] = stream[p], wire'[p] = wire[p], out'[p] = out[p],
         unacked'[p] = unacked[p], have'[p] = have[p]
  PROVE  CurrentInv(p)' /\ ChainInv(p)'
<1>1. Handed(p)' = Handed(p) /\ Received(p)' = Received(p)
  BY NumberFrame, Zenon
<1>2. CurrentInv(p)'
  BY <1>1, Zenon DEF CurrentInv, Current, Elements
<1>3. ChainInv(p)'
  BY <1>1, Zenon DEF ChainInv, Chain
<1>4. QED
  BY <1>2, <1>3, Zenon

LEMMA FoundFrame ==
  ASSUME NEW p \in Parties, FoundInv(p), stream'[p] = stream[p], wire'[p] = wire[p],
         out'[p] = out[p], unacked'[p] = unacked[p], taken \subseteq taken',
         \A m \in sent' : m.from = Other(p) => m \in sent
  PROVE  FoundInv(p)'
BY ZenonT(30) DEF FoundInv, Elements

LEMMA CountFrame ==
  ASSUME NEW p \in Parties, CountInv(p), protocol' = protocol, attempt' = attempt,
         pos'[p] = pos[p], Here(p)' <=> Here(p), SentTo(p)' = SentTo(p),
         Received(p)' = Received(p)
  PROVE  CountInv(p)'
BY Zenon DEF CountInv

LEMMA TurnFrame ==
  ASSUME NEW p \in Parties, TurnInv(p), attempt' = attempt,
         status'[p] \in {"idle", "running", "done"}, link'[p] = link[p],
         attempt[p] > attempt[Other(p)] /\ Link(Other(p)) \in {"none", "closed"}
            => Link(Other(p))' \in {"none", "closed"}
  PROVE  TurnInv(p)'
BY Zenon DEF TurnInv

LEMMA HereFrame ==
  ASSUME NEW p \in Parties, attempt' = attempt, link'[p] = link[p]
  PROVE  Link(p)' = Link(p) /\ (Here(p)' <=> Here(p))
BY Zenon DEF Here, Link

LEMMA InitCalm ==
  ASSUME Init
  PROVE  CalmInv
<1>1. BaseInv
  BY InitBase, Zenon
<1>2. SUFFICES ASSUME NEW p \in Parties PROVE Calm(p)
  BY Zenon DEF CalmInv
<1> DEFINE q == Other(p)
<1>3. /\ q \in Parties /\ attempt[p] = 0 /\ attempt[q] = 0 /\ status[q] = "idle"
      /\ status[p] = "idle" /\ pos[q] = 0 /\ have[p] = {} /\ stream[p] = <<>> /\ wire[p] = <<>>
      /\ out[p] = <<>> /\ unacked[p] = FALSE /\ sent = {} /\ taken = {} /\ Types
  BY <1>1, PartyFacts, Zenon DEF Init, BaseInv
<1>4. Link(p) = "none" /\ Link(q) = "none" /\ ~ Here(p)
  BY <1>3, Zenon DEF Link, Here
<1>5. Elements(<<>>) = {} /\ DOMAIN <<>> = {} /\ Len(<<>>) = 0
  BY EmptyFacts, Zenon
<1>6. SentTo(p) = 0
  <2>1. Sends(protocol, q, 0) = 0
    BY <1>3, CountFacts, Zenon
  <2>2. SentTo(p) = Sends(protocol, q, pos[q])
    BY <1>3 DEF SentTo
  <2>3. QED
    BY <1>3, <2>1, <2>2, Zenon
<1>7. Received(p) = 0
  BY <1>1, <1>3, <1>5, <1>6, ReceivedFacts
<1>8. TurnInv(p)
  <2>1. attempt[p] <= attempt[q] + 1 /\ ~ (attempt[p] > attempt[q])
        /\ \A a \in Attempts : ~ (a < attempt[p])
    BY <1>3 DEF Attempts
  <2>2. QED
    BY <1>3, <2>1, Zenon DEF TurnInv
<1>9. CurrentInv(p)
  BY <1>3, <1>5, Zenon DEF CurrentInv
<1>10. ChainInv(p)
  BY <1>3, <1>5, Zenon DEF ChainInv, Chain
<1>11. CountInv(p)
  <2>1. ~ (attempt[p] > 0)
    BY <1>3
  <2>2. QED
    BY <1>4, <1>7, <2>1, Zenon DEF CountInv
<1>12. FoundInv(p)
  BY <1>3, Zenon DEF FoundInv
<1>13. QED
  BY <1>8, <1>9, <1>10, <1>11, <1>12, Zenon DEF Calm

LEMMA CalmFrame ==
  ASSUME NEW p \in Parties, Calm(p), protocol' = protocol, attempt' = attempt,
         SentTo(p)' = SentTo(p), status'[p] = status[p], pos'[p] = pos[p], link'[p] = link[p],
         have'[p] = have[p], stream'[p] = stream[p], wire'[p] = wire[p], out'[p] = out[p],
         unacked'[p] = unacked[p], taken \subseteq taken',
         \A m \in sent' : m.from = Other(p) => m \in sent,
         attempt[p] > attempt[Other(p)] /\ Link(Other(p)) \in {"none", "closed"}
            => Link(Other(p))' \in {"none", "closed"}
  PROVE  Calm(p)'
<1>1. TurnInv(p) /\ CurrentInv(p) /\ ChainInv(p) /\ CountInv(p) /\ FoundInv(p)
  BY Zenon DEF Calm
<1>2. TurnInv(p)'
  BY <1>1, TurnFrame, Zenon DEF TurnInv
<1>3. CurrentInv(p)' /\ ChainInv(p)'
  BY <1>1, CurrentFrame, Zenon
<1>4. FoundInv(p)'
  BY <1>1, FoundFrame, Zenon
<1>5. CountInv(p)'
  BY <1>1, NumberFrame, HereFrame, CountFrame, Zenon
<1>6. QED
  BY <1>2, <1>3, <1>4, <1>5, Zenon DEF Calm

LEMMA SentToAdvance ==
  ASSUME BaseInv, NEW p \in Parties, Running(p), Advance(p), protocol' = protocol,
         attempt' = attempt
  PROVE  LET q == Other(p) IN
         /\ attempt[p] < attempt[q] => SentTo(q) = 0 /\ SentTo(q)' = 0
         /\ ~ (attempt[p] < attempt[q]) =>
              /\ SentTo(q) = Sends(protocol, p, pos[p])
              /\ SentTo(q)' = Sends(protocol, p, pos[p] + 1)
<1> DEFINE q == Other(p)
<1>1. q \in Parties /\ Other(q) = p /\ Types /\ ScriptInv(p)
  BY PartyFacts, Zenon DEF BaseInv
<1>2. attempt[p] < attempt[q] => SentTo(q) = 0 /\ SentTo(q)' = 0
  BY <1>1, Zenon DEF SentTo
<1>3. ASSUME ~ (attempt[p] < attempt[q]) PROVE SentTo(q) = Sends(protocol, p, pos[p])
  <2>1. status[p] # "done"
    BY Zenon DEF Running
  <2>2. QED
    BY <1>1, <1>3, <2>1, Zenon DEF SentTo
<1>4. ASSUME ~ (attempt[p] < attempt[q]) PROVE SentTo(q)' = Sends(protocol, p, pos[p] + 1)
  <2>1. /\ pos'[p] = pos[p] + 1
        /\ pos[p] + 1 = Size(protocol, p) => status'[p] = "done"
        /\ pos[p] + 1 # Size(protocol, p) => status'[p] = "running"
    BY <1>1, AdvanceFacts, Zenon
  <2>2. CASE pos[p] + 1 = Size(protocol, p)
    BY <1>1, <1>4, <2>1, <2>2, Zenon DEF SentTo, Total
  <2>3. CASE pos[p] + 1 # Size(protocol, p)
    <3>1. status'[p] # "done"
      BY <2>1, <2>3, Zenon
    <3>2. QED
      BY <1>1, <1>4, <2>1, <3>1, Zenon DEF SentTo
  <2>4. QED
    BY <2>2, <2>3, Zenon
<1>5. QED
  BY <1>2, <1>3, <1>4, Zenon

LEMMA AdvanceTurn ==
  ASSUME BaseInv, NEW p \in Parties, TurnInv(p), Running(p), Advance(p), attempt' = attempt,
         link' = link
  PROVE  TurnInv(p)'
<1>1. Types /\ ScriptInv(p)
  BY Zenon DEF BaseInv
<1>2. status'[p] \in {"idle", "running", "done"}
  BY <1>1, AdvanceFacts, Zenon
<1>3. Other(p) \in Parties
  BY PartyFacts, Zenon
<1>4. Link(Other(p))' = Link(Other(p))
  BY <1>3, HereFrame, Zenon
<1>5. QED
  BY <1>2, <1>4, TurnFrame, Zenon

LEMMA SendCalm ==
  ASSUME BaseInv, NEW p \in Parties, \A r \in Parties : Calm(r), Send(p)
  PROVE  \A r \in Parties : Calm(r)'
<1> DEFINE q == Other(p)
           m == Outgoing(p)
<1>1. /\ NextIs(p, "send") /\ Advance(p) /\ sent' = sent \cup {m}
      /\ stream' = [stream EXCEPT ![q] = Append(stream[q], m)]
      /\ protocol' = protocol /\ attempt' = attempt /\ have' = have /\ unacked' = unacked
      /\ link' = link /\ wire' = wire /\ out' = out /\ taken' = taken
  BY Zenon DEF Send, conn
<1>2. /\ q \in Parties /\ q # p /\ Other(q) = p /\ Types /\ ScriptInv(p) /\ LinkInv(p)
      /\ QueueInv(q) /\ Calm(p) /\ Calm(q)
  BY PartyFacts, Zenon DEF BaseInv
<1>3. /\ Running(p) /\ Sends(protocol, p, pos[p]) \in Nat
      /\ Sends(protocol, p, pos[p] + 1) = Sends(protocol, p, pos[p]) + 1
      /\ Receives(protocol, p, pos[p] + 1) = Receives(protocol, p, pos[p])
  BY <1>1, <1>2, SendFacts, Zenon
<1>4. Here(p)
  BY <1>2, <1>3, HereFacts, Zenon
<1>5. /\ attempt[q] <= attempt[p] /\ ~ (attempt[p] < attempt[q])
      /\ \A x : Current(p, x) => attempt[p] = attempt[q] /\ x.attempt = attempt[p]
  BY <1>2, <1>4, HereTurn, Zenon
<1>6. /\ SentTo(q) = Sends(protocol, p, pos[p])
      /\ SentTo(q)' = Sends(protocol, p, pos[p] + 1)
  BY <1>1, <1>3, <1>5, SentToAdvance, Zenon
<1>7. /\ m \in Messages /\ m.from = p /\ m.attempt = attempt[p]
      /\ m.n = Sends(protocol, p, pos[p]) + 1
  BY <1>1, OutgoingFacts, Zenon
<1>8. /\ pos'[p] = pos[p] + 1 /\ status'[q] = status[q] /\ pos'[q] = pos[q]
  BY <1>1, <1>2, <1>3, AdvanceFacts, Zenon
<1>9. SentTo(p)' = SentTo(p)
  BY <1>1, <1>8, SentToFrame, Zenon
<1>10. /\ stream'[p] = stream[p] /\ stream'[q] = Append(stream[q], m)
  BY <1>1, <1>2, Zenon DEF Types
<1>11. Calm(p)'
  <2>1. TurnInv(p)'
    BY <1>1, <1>2, <1>3, AdvanceTurn, Zenon DEF Calm
  <2>2. CurrentInv(p)' /\ ChainInv(p)' /\ Received(p)' = Received(p)
    BY <1>1, <1>2, <1>9, <1>10, CurrentFrame, NumberFrame, Zenon DEF Calm
  <2>3. Here(p)'
    BY <1>1, <1>4, HereFrame, Zenon
  <2>4. CountInv(p)'
    BY <1>1, <1>2, <1>3, <1>4, <1>8, <1>9, <2>2, <2>3, Zenon DEF Calm, CountInv
  <2>5. FoundInv(p)'
    BY <1>1, <1>2, <1>7, <1>10, FoundFrame, Zenon DEF Calm
  <2>6. QED
    BY <2>1, <2>2, <2>4, <2>5, Zenon DEF Calm
<1>12. Calm(q)'
  <2>1. stream[q] \in Seq(To(q)) /\ m \in To(q)
    BY <1>2, <1>7, ToFacts, Zenon DEF QueueInv
  <2>2. /\ Len(stream[q]) \in Nat /\ Len(Append(stream[q], m)) = Len(stream[q]) + 1
        /\ \A i \in DOMAIN Append(stream[q], m) :
             \/ i \in DOMAIN stream[q] /\ i <= Len(stream[q]) /\ Append(stream[q], m)[i] = stream[q][i]
             \/ i = Len(stream[q]) + 1 /\ Append(stream[q], m)[i] = m
        /\ Elements(Append(stream[q], m)) = Elements(stream[q]) \cup {m}
    BY <2>1, AppendFacts
  <2>3. SentTo(q)' = SentTo(q) + 1 /\ SentTo(q) \in Nat
    BY <1>3, <1>6, Zenon
  <2>4. Handed(q)' = Handed(q) /\ Received(q)' = Received(q)
    <3>1. SentTo(q)' - Len(stream[q])' = SentTo(q) - Len(stream[q])
      BY <1>10, <2>2, <2>3
    <3>2. QED
      BY <1>1, <3>1, Zenon DEF Handed, Received
  <2>5. TurnInv(q)'
    <3>1. Link(p)' = Link(p)
      BY <1>1, HereFrame, Zenon
    <3>2. TurnInv(q) /\ status'[q] \in {"idle", "running", "done"}
      BY <1>2, <1>8, Zenon DEF Calm, TurnInv
    <3>3. QED
      BY <1>1, <1>2, <3>1, <3>2, TurnFrame, Zenon
  <2>6. Current(q, m)
    <3>1. m.peer \in {0, attempt[p]}
      <4>1. m.peer = IF have[p] = {} THEN 0 ELSE (CHOOSE x \in have[p] : TRUE).attempt
        BY Zenon DEF Outgoing
      <4>2. CASE have[p] = {}
        BY <4>1, <4>2, Zenon
      <4>3. CASE have[p] # {}
        <5>1. (CHOOSE x \in have[p] : TRUE) \in have[p]
          BY <4>3, Zenon
        <5>2. Current(p, CHOOSE x \in have[p] : TRUE)
          BY <1>2, <5>1, Zenon DEF Calm, CurrentInv
        <5>3. QED
          BY <1>5, <4>1, <4>3, <5>2, Zenon
      <4>4. QED
        BY <4>2, <4>3, Zenon
    <3>2. QED
      BY <1>2, <1>5, <1>7, <3>1, Zenon DEF Current
  <2>7. CurrentInv(q)'
    <3>1. \A x : Current(q, x)' <=> Current(q, x)
      BY <1>1, Zenon DEF Current
    <3>2. Elements(stream[q])' = Elements(stream[q]) \cup {m}
      BY <1>10, <2>2, Zenon DEF Elements
    <3>3. Elements(wire[q])' = Elements(wire[q]) /\ Elements(out[q])' = Elements(out[q])
      BY <1>1, Zenon DEF Elements
    <3>4. \A x \in have'[q] \cup Elements(stream[q])' \cup Elements(wire[q])' \cup Elements(out[q])' :
             Current(q, x)
      BY <1>1, <1>2, <2>6, <3>2, <3>3, Zenon DEF Calm, CurrentInv
    <3>5. QED
      BY <1>1, <1>2, <2>4, <3>1, <3>4, Zenon DEF Calm, CurrentInv
  <2>8. ChainInv(q)'
    <3>1. Chain(stream[q], SentTo(q) - Len(stream[q]))
      BY <1>2, Zenon DEF Calm, ChainInv
    <3>2. SentTo(q)' - Len(stream'[q]) = SentTo(q) - Len(stream[q])
      BY <1>10, <2>2, <2>3
    <3>3. m.n = SentTo(q) - Len(stream[q]) + (Len(stream[q]) + 1)
      BY <1>6, <1>7, <2>2, <2>3
    <3>4. Chain(Append(stream[q], m), SentTo(q) - Len(stream[q]))
      BY <2>2, <3>1, <3>3, Zenon DEF Chain
    <3>5. Chain(stream[q], SentTo(q) - Len(stream[q]))'
      BY <1>10, <3>2, <3>4, Zenon DEF Chain
    <3>6. Chain(wire[q], Handed(q) - Len(wire[q]))' /\ Chain(out[q], Received(q))'
      BY <1>1, <1>2, <2>4, Zenon DEF Calm, ChainInv, Chain
    <3>7. QED
      BY <3>5, <3>6, Zenon DEF ChainInv
  <2>9. CountInv(q)'
    <3>1. SentTo(q) # Total(protocol, p)
      <4>1. SentTo(q)' <= Total(protocol, p)
        <5>1. pos[p] + 1 \in 0 .. Size(protocol, p)
          BY <1>2, <1>3, NextFacts, Zenon
        <5>2. Sends(protocol, p, pos[p] + 1) \in 0 .. Total(protocol, p)
          BY <1>2, <5>1, CountFacts, Zenon
        <5>3. Total(protocol, p) \in 0 .. Rounds + 1 /\ Rounds \in Nat
          BY <1>2, CountFacts, ProtocolFacts, Zenon
        <5>4. QED
          BY <1>6, <5>2, <5>3
      <4>2. QED
        BY <2>3, <4>1
    <3>2. Here(q)' <=> Here(q)
      BY <1>1, <1>2, HereFrame, Zenon
    <3>3. QED
      BY <1>1, <1>2, <1>8, <2>4, <3>1, <3>2, Zenon DEF Calm, CountInv
  <2>10. FoundInv(q)'
    <3>1. unacked[q] => stream[q] # <<>>
      BY <1>2, Zenon DEF QueueInv
    <3>2. unacked[q] => Append(stream[q], m)[1] = stream[q][1]
      BY <2>1, <3>1
    <3>3. FoundInv(q)
      BY <1>2, Zenon DEF Calm
    <3>4. /\ Elements(stream[q])' = Elements(stream[q]) \cup {m}
          /\ Elements(wire[q])' = Elements(wire[q]) /\ Elements(out[q])' = Elements(out[q])
      BY <1>1, <1>10, <2>2, Zenon DEF Elements
    <3>5. unacked'[q] =>
            stream'[q][1] \in taken \cup Elements(wire[q]) \cup Elements(out[q])
      BY <1>1, <1>10, <3>2, <3>3, Zenon DEF FoundInv
    <3>6. \A x \in sent' : x.from = p =>
            x \in taken \cup Elements(stream[q])' \cup Elements(wire[q]) \cup Elements(out[q])
      BY <1>1, <1>2, <3>3, <3>4, Zenon DEF FoundInv
    <3>7. QED
      BY <1>1, <1>2, <3>4, <3>5, <3>6, Zenon DEF FoundInv
  <2>11. QED
    BY <2>5, <2>7, <2>8, <2>9, <2>10, Zenon DEF Calm
<1>13. QED
  BY <1>2, <1>11, <1>12, PartyFacts, Zenon

(* Messages for p are moved on, and nothing else happens. *)
LEMMA PassOn ==
  ASSUME NEW p \in Parties, \A r \in Parties : Calm(r), protocol' = protocol, UNCHANGED party,
         link' = link, sent' = sent, taken' = taken,
         \A r \in Parties : r # p => /\ stream'[r] = stream[r] /\ wire'[r] = wire[r]
                                     /\ out'[r] = out[r] /\ unacked'[r] = unacked[r],
         Received(p)' = Received(p), ChainInv(p)', FoundInv(p)',
         Elements(stream'[p]) \cup Elements(wire'[p]) \cup Elements(out'[p]) \subseteq
            Elements(stream[p]) \cup Elements(wire[p]) \cup Elements(out[p])
  PROVE  \A r \in Parties : Calm(r)'
<1>1. attempt' = attempt /\ status' = status /\ pos' = pos /\ have' = have
  BY Zenon DEF party
<1>2. ASSUME NEW r \in Parties PROVE SentTo(r)' = SentTo(r) /\ Link(r)' = Link(r)
                                     /\ (Here(r)' <=> Here(r))
  BY <1>1, SentToFrame, HereFrame, Zenon
<1>3. Other(p) \in Parties
  BY PartyFacts, Zenon
<1>4. TurnInv(p)'
  <2>1. TurnInv(p) /\ status'[p] \in {"idle", "running", "done"}
    BY <1>1, Zenon DEF Calm, TurnInv
  <2>2. QED
    BY <1>1, <1>2, <1>3, <2>1, TurnFrame, Zenon
<1>5. CountInv(p)'
  BY <1>1, <1>2, CountFrame, Zenon DEF Calm
<1>6. CurrentInv(p)'
  <2>1. CurrentInv(p)
    BY Zenon DEF Calm
  <2>2. \A x : Current(p, x)' <=> Current(p, x)
    BY <1>1, Zenon DEF Current
  <2>3. \A x \in have[p] \cup Elements(stream'[p]) \cup Elements(wire'[p]) \cup Elements(out'[p]) :
           Current(p, x)
    BY <2>1, Zenon DEF CurrentInv
  <2>4. /\ Elements(stream[p])' = Elements(stream'[p]) /\ Elements(wire[p])' = Elements(wire'[p])
        /\ Elements(out[p])' = Elements(out'[p])
    BY Zenon DEF Elements
  <2>5. QED
    BY <1>1, <2>1, <2>2, <2>3, <2>4, Zenon DEF CurrentInv
<1>7. Calm(p)'
  BY <1>4, <1>5, <1>6, Zenon DEF Calm
<1>8. ASSUME NEW r \in Parties, r # p PROVE Calm(r)'
  <2>1. Other(r) \in Parties
    BY PartyFacts, Zenon
  <2>2. /\ stream'[r] = stream[r] /\ wire'[r] = wire[r]
        /\ out'[r] = out[r] /\ unacked'[r] = unacked[r]
    BY <1>8, Zenon
  <2>3. taken \subseteq taken' /\ \A m \in sent' : m.from = Other(r) => m \in sent
    BY Zenon
  <2>4. QED
    BY <1>1, <1>2, <2>1, <2>2, <2>3, CalmFrame, Zenon
<1>9. QED
  BY <1>7, <1>8, Zenon

LEMMA ChainTail ==
  ASSUME NEW S, NEW s \in Seq(S), s # <<>>, NEW b \in Int, Chain(s, b)
  PROVE  Chain(Tail(s), b + 1) /\ Head(s).n = b + 1
<1>1. Head(s).n = b + 1
  BY TailFacts, Zenon DEF Chain
<1>2. ASSUME NEW i \in DOMAIN Tail(s) PROVE Tail(s)[i].n = b + 1 + i
  <2>1. i \in Nat /\ i + 1 \in DOMAIN s /\ Tail(s)[i] = s[i + 1]
    BY TailFacts, Zenon
  <2>2. Tail(s)[i].n = b + (i + 1)
    BY <2>1, Zenon DEF Chain
  <2>3. QED
    BY <2>1, <2>2
<1>3. QED
  BY <1>1, <1>2, Zenon DEF Chain

LEMMA ChainAppend ==
  ASSUME NEW S, NEW s \in Seq(S), NEW e \in S, NEW b \in Int, Chain(s, b),
         e.n = b + (Len(s) + 1)
  PROVE  Chain(Append(s, e), b)
<1>1. \A i \in DOMAIN Append(s, e) :
        \/ i \in DOMAIN s /\ Append(s, e)[i] = s[i]
        \/ i = Len(s) + 1 /\ Append(s, e)[i] = e
  BY AppendFacts, Zenon
<1>2. QED
  BY <1>1, Zenon DEF Chain

LEMMA ReceivingCalm ==
  ASSUME BaseInv, NEW p \in Parties, \A r \in Parties : Calm(r), receiving(p)
  PROVE  \A r \in Parties : Calm(r)'
<1> DEFINE h == Head(wire[p])
<1>1. /\ wire[p] # <<>> /\ wire' = [wire EXCEPT ![p] = Tail(wire[p])]
      /\ out' = [out EXCEPT ![p] = Append(out[p], h)]
      /\ protocol' = protocol /\ UNCHANGED party /\ link' = link /\ sent' = sent
      /\ taken' = taken /\ stream' = stream /\ unacked' = unacked
  BY Zenon DEF receiving, queue, history
<1>2. attempt' = attempt /\ status' = status /\ pos' = pos
  BY <1>1, Zenon DEF party
<1>3. Types /\ QueueInv(p) /\ ChainInv(p) /\ FoundInv(p)
  BY Zenon DEF BaseInv, Calm
<1>4. wire[p] \in Seq(To(p)) /\ out[p] \in Seq(To(p))
  BY <1>3, Zenon DEF QueueInv
<1>5. /\ h \in To(p) /\ Elements(wire[p]) = {h} \cup Elements(Tail(wire[p]))
      /\ Len(Tail(wire[p])) = Len(wire[p]) - 1
  BY <1>1, <1>4, TailFacts, Zenon
<1>6. Elements(Append(out[p], h)) = Elements(out[p]) \cup {h}
      /\ Len(Append(out[p], h)) = Len(out[p]) + 1
  BY <1>4, <1>5, AppendFacts
<1>7. /\ wire'[p] = Tail(wire[p]) /\ out'[p] = Append(out[p], h)
      /\ \A r \in Parties : r # p => wire'[r] = wire[r] /\ out'[r] = out[r]
  BY <1>1, <1>3, Zenon DEF Types
<1>8. /\ Chain(stream[p], SentTo(p) - Len(stream[p]))
      /\ Chain(wire[p], Handed(p) - Len(wire[p])) /\ Chain(out[p], Received(p))
  BY <1>3, Zenon DEF ChainInv
<1>9. /\ Len(wire[p]) \in Nat /\ Len(out[p]) \in Nat /\ Handed(p) \in Int /\ Received(p) \in Int
      /\ Received(p) = Handed(p) - Len(wire[p]) - Len(out[p])
  BY ReceivedFacts, Zenon
<1>10. Handed(p) - Len(wire[p]) \in Int
  BY <1>9
<1>11. /\ Chain(Tail(wire[p]), Handed(p) - Len(wire[p]) + 1)
       /\ h.n = Handed(p) - Len(wire[p]) + 1
  BY <1>1, <1>4, <1>8, <1>10, ChainTail, Zenon
<1> HIDE DEF h
<1>12. h.n = Received(p) + (Len(out[p]) + 1)
  BY <1>9, <1>11, SMTT(30)
<1>13. Chain(Append(out[p], h), Received(p))
  BY <1>4, <1>5, <1>8, <1>9, <1>12, ChainAppend, Zenon
<1>14. SentTo(p)' = SentTo(p)
  BY <1>1, <1>2, SentToFrame, Zenon
<1>15. Handed(p)' = Handed(p)
  BY <1>1, <1>14, Zenon DEF Handed
<1>16. Received(p)' = Received(p)
  <2>1. Received(p)' = Handed(p) - Len(wire'[p]) - Len(out'[p])
    BY <1>15, Zenon DEF Received
  <2>2. QED
    BY <1>5, <1>6, <1>7, <1>9, <2>1
<1>17. ChainInv(p)'
  <2>1. Handed(p) - Len(Tail(wire[p])) = Handed(p) - Len(wire[p]) + 1
    BY <1>5, <1>9
  <2>2. Chain(wire'[p], Handed(p)' - Len(wire'[p]))
    BY <1>7, <1>11, <1>15, <2>1, Zenon
  <2>3. Chain(out'[p], Received(p)')
    BY <1>7, <1>13, <1>16, Zenon
  <2>4. QED
    BY <1>1, <1>8, <1>14, <2>2, <2>3, Zenon DEF ChainInv, Chain
<1>18. /\ Elements(wire'[p]) \cup Elements(out'[p]) = Elements(wire[p]) \cup Elements(out[p])
       /\ Elements(wire[p])' = Elements(wire'[p]) /\ Elements(out[p])' = Elements(out'[p])
       /\ Elements(stream[p])' = Elements(stream[p])
  <2>1. Elements(wire'[p]) = Elements(Tail(wire[p])) /\ Elements(out'[p]) = Elements(out[p]) \cup {h}
    BY <1>6, <1>7, Zenon
  <2>2. /\ Elements(wire[p])' = Elements(wire'[p]) /\ Elements(out[p])' = Elements(out'[p])
        /\ Elements(stream[p])' = Elements(stream[p])
    BY <1>1, Zenon DEF Elements
  <2>3. QED
    BY <1>5, <2>1, <2>2, Zenon
<1>19. FoundInv(p)'
  BY <1>1, <1>3, <1>18, Zenon DEF FoundInv
<1>20. QED
  BY <1>1, <1>7, <1>16, <1>17, <1>18, <1>19, PassOn, Zenon

LEMMA DeliverCalm ==
  ASSUME BaseInv, NEW p \in Parties, \A r \in Parties : Calm(r), Deliver(p)
  PROVE  \A r \in Parties : Calm(r)'
<1> DEFINE h == Head(stream[p])
<1>1. /\ stream[p] # <<>> /\ ~ unacked[p]
      /\ wire' = [wire EXCEPT ![p] = Append(wire[p], h)]
      /\ unacked' = [unacked EXCEPT ![p] = TRUE]
      /\ protocol' = protocol /\ UNCHANGED party /\ link' = link /\ sent' = sent
      /\ taken' = taken /\ stream' = stream /\ out' = out
  BY Zenon DEF Deliver
<1>2. attempt' = attempt /\ status' = status /\ pos' = pos
  BY <1>1, Zenon DEF party
<1>3. Types /\ QueueInv(p) /\ ChainInv(p) /\ FoundInv(p)
  BY Zenon DEF BaseInv, Calm
<1>4. wire[p] \in Seq(To(p)) /\ stream[p] \in Seq(To(p))
  BY <1>3, Zenon DEF QueueInv
<1>5. /\ h \in To(p) /\ h = stream[p][1] /\ h \in Elements(stream[p])
  <2>1. h \in To(p) /\ h = stream[p][1] /\ Elements(stream[p]) = {h} \cup Elements(Tail(stream[p]))
    BY <1>1, <1>4, TailFacts, Zenon
  <2>2. QED
    BY <2>1, Zenon
<1>6. Elements(Append(wire[p], h)) = Elements(wire[p]) \cup {h}
      /\ Len(Append(wire[p], h)) = Len(wire[p]) + 1
  BY <1>4, <1>5, AppendFacts
<1>7. /\ wire'[p] = Append(wire[p], h) /\ unacked'[p] = TRUE
      /\ \A r \in Parties : r # p => wire'[r] = wire[r] /\ unacked'[r] = unacked[r]
  BY <1>1, <1>3, Zenon DEF Types
<1>8. /\ Chain(stream[p], SentTo(p) - Len(stream[p]))
      /\ Chain(wire[p], Handed(p) - Len(wire[p])) /\ Chain(out[p], Received(p))
  BY <1>3, Zenon DEF ChainInv
<1>9. /\ Len(wire[p]) \in Nat /\ Len(out[p]) \in Nat /\ Len(stream[p]) \in Nat
      /\ Handed(p) \in Int /\ SentTo(p) \in Nat /\ Handed(p) = SentTo(p) - Len(stream[p])
      /\ Received(p) = Handed(p) - Len(wire[p]) - Len(out[p])
  BY <1>1, ReceivedFacts, SentToFacts, Zenon
<1>10. SentTo(p) - Len(stream[p]) \in Int /\ Handed(p) - Len(wire[p]) \in Int
  BY <1>9
<1>11. h.n = SentTo(p) - Len(stream[p]) + 1
  BY <1>1, <1>4, <1>8, <1>10, ChainTail, Zenon
<1> HIDE DEF h
<1>12. h.n = Handed(p) - Len(wire[p]) + (Len(wire[p]) + 1)
  BY <1>9, <1>11
<1>13. Chain(Append(wire[p], h), Handed(p) - Len(wire[p]))
  BY <1>4, <1>5, <1>8, <1>10, <1>12, ChainAppend, Zenon
<1>14. SentTo(p)' = SentTo(p)
  BY <1>1, <1>2, SentToFrame, Zenon
<1>15. Handed(p)' = Handed(p) + 1
  <2>1. Handed(p)' = SentTo(p) - Len(stream[p]) + 1
    BY <1>1, <1>7, <1>14, Zenon DEF Handed
  <2>2. QED
    BY <1>9, <2>1, Zenon
<1>16. Handed(p)' - Len(wire'[p]) = Handed(p) - Len(wire[p])
  BY <1>6, <1>7, <1>9, <1>15
<1>17. Received(p)' = Received(p)
  BY <1>1, <1>16, Zenon DEF Received
<1>18. ChainInv(p)'
  <2>1. Chain(wire'[p], Handed(p)' - Len(wire'[p]))
    BY <1>7, <1>13, <1>16, Zenon
  <2>2. QED
    BY <1>1, <1>8, <1>14, <1>17, <2>1, Zenon DEF ChainInv, Chain
<1>19. /\ Elements(wire'[p]) = Elements(wire[p]) \cup {h}
       /\ Elements(wire[p])' = Elements(wire'[p]) /\ Elements(out[p])' = Elements(out[p])
       /\ Elements(stream[p])' = Elements(stream[p])
  <2>1. /\ Elements(wire[p])' = Elements(wire'[p]) /\ Elements(out[p])' = Elements(out[p])
        /\ Elements(stream[p])' = Elements(stream[p])
    BY <1>1, Zenon DEF Elements
  <2>2. QED
    BY <1>6, <1>7, <2>1, Zenon
<1>20. FoundInv(p)'
  BY <1>1, <1>3, <1>5, <1>19, Zenon DEF FoundInv
<1>21. Elements(stream'[p]) \cup Elements(wire'[p]) \cup Elements(out'[p]) \subseteq
            Elements(stream[p]) \cup Elements(wire[p]) \cup Elements(out[p])
  BY <1>1, <1>5, <1>19, Zenon
<1>22. QED
  BY <1>1, <1>7, <1>17, <1>18, <1>20, <1>21, PassOn, Zenon

LEMMA AckCalm ==
  ASSUME BaseInv, NEW p \in Parties, \A r \in Parties : Calm(r), Ack(p)
  PROVE  \A r \in Parties : Calm(r)'
<1> DEFINE h == Head(stream[p])
<1>1. /\ unacked[p] /\ stream' = [stream EXCEPT ![p] = Tail(stream[p])]
      /\ unacked' = [unacked EXCEPT ![p] = FALSE]
      /\ protocol' = protocol /\ UNCHANGED party /\ link' = link /\ sent' = sent
      /\ taken' = taken /\ wire' = wire /\ out' = out
  BY Zenon DEF Ack, conn, history
<1>2. attempt' = attempt /\ status' = status /\ pos' = pos
  BY <1>1, Zenon DEF party
<1>3. Types /\ QueueInv(p) /\ ChainInv(p) /\ FoundInv(p)
  BY Zenon DEF BaseInv, Calm
<1>4. stream[p] \in Seq(To(p)) /\ stream[p] # <<>>
  BY <1>1, <1>3, Zenon DEF QueueInv
<1>5. /\ h = stream[p][1] /\ Elements(stream[p]) = {h} \cup Elements(Tail(stream[p]))
      /\ Len(Tail(stream[p])) = Len(stream[p]) - 1
  BY <1>4, TailFacts, Zenon
<1>6. /\ stream'[p] = Tail(stream[p]) /\ unacked'[p] = FALSE
      /\ \A r \in Parties : r # p => stream'[r] = stream[r] /\ unacked'[r] = unacked[r]
  BY <1>1, <1>3, Zenon DEF Types
<1>7. /\ Chain(stream[p], SentTo(p) - Len(stream[p]))
      /\ Chain(wire[p], Handed(p) - Len(wire[p])) /\ Chain(out[p], Received(p))
  BY <1>3, Zenon DEF ChainInv
<1>8. /\ Len(stream[p]) \in Nat /\ SentTo(p) \in Nat /\ Handed(p) = SentTo(p) - Len(stream[p]) + 1
  BY <1>1, ReceivedFacts, SentToFacts, Zenon
<1>9. SentTo(p) - Len(stream[p]) \in Int
  BY <1>8
<1>10. Chain(Tail(stream[p]), SentTo(p) - Len(stream[p]) + 1)
  BY <1>4, <1>7, <1>9, ChainTail, Zenon
<1> HIDE DEF h
<1>11. SentTo(p)' = SentTo(p)
  BY <1>1, <1>2, SentToFrame, Zenon
<1>12. SentTo(p) - Len(stream'[p]) = SentTo(p) - Len(stream[p]) + 1
       /\ SentTo(p) - Len(stream'[p]) + 0 = SentTo(p) - Len(stream[p]) + 1
  BY <1>5, <1>6, <1>8, SMTT(30)
<1>13. Handed(p)' = Handed(p)
  <2>1. Handed(p)' = SentTo(p) - Len(stream'[p]) + 0
    BY <1>6, <1>11, Zenon DEF Handed
  <2>2. QED
    BY <1>8, <1>12, <2>1, Zenon
<1>14. Received(p)' = Received(p)
  BY <1>1, <1>13, Zenon DEF Received
<1>15. ChainInv(p)'
  <2>1. Chain(stream'[p], SentTo(p)' - Len(stream'[p]))
    BY <1>6, <1>10, <1>11, <1>12, Zenon
  <2>2. QED
    BY <1>1, <1>7, <1>13, <1>14, <2>1, Zenon DEF ChainInv, Chain
<1>16. /\ Elements(stream[p]) = {h} \cup Elements(stream'[p])
       /\ Elements(wire[p])' = Elements(wire[p]) /\ Elements(out[p])' = Elements(out[p])
       /\ Elements(stream[p])' = Elements(stream'[p])
  <2>1. /\ Elements(wire[p])' = Elements(wire[p]) /\ Elements(out[p])' = Elements(out[p])
        /\ Elements(stream[p])' = Elements(stream'[p])
    BY <1>1, Zenon DEF Elements
  <2>2. QED
    BY <1>5, <1>6, <2>1, Zenon
<1>17. FoundInv(p)'
  BY <1>1, <1>3, <1>5, <1>6, <1>16, Zenon DEF FoundInv
<1>18. Elements(stream'[p]) \cup Elements(wire'[p]) \cup Elements(out'[p]) \subseteq
            Elements(stream[p]) \cup Elements(wire[p]) \cup Elements(out[p])
  BY <1>1, <1>16, Zenon
<1>19. QED
  BY <1>1, <1>6, <1>14, <1>15, <1>17, <1>18, PassOn, Zenon

(* Every message p takes is the next one of this attempt. *)
LEMMA TakeFacts ==
  ASSUME BaseInv, NEW p \in Parties, \A r \in Parties : Calm(r), TakeMessage(p)
  PROVE  LET h == Head(out[p]) IN
         /\ h.n = Received(p) + 1 /\ h \in To(p) /\ Current(p, h)
         /\ have'[p] = have[p] \cup {h}
         /\ Fits(p, have'[p])
         /\ \A r \in Parties : r # p => have'[r] = have[r]
<1> DEFINE h == Head(out[p])
<1>1. /\ Running(p) /\ out[p] # <<>>
      /\ have' = [have EXCEPT ![p] = Accepted(p, h)]
  BY Zenon DEF TakeMessage
<1>2. /\ Types /\ QueueInv(p) /\ LinkInv(p) /\ CurrentInv(p) /\ ChainInv(p)
      /\ Other(p) \in Parties /\ Calm(Other(p))
  BY PartyFacts, Zenon DEF BaseInv, Calm
<1>3. out[p] \in Seq(To(p)) /\ have[p] \subseteq To(p)
  BY <1>2, Zenon DEF QueueInv
<1>4. h \in To(p) /\ Elements(out[p]) = {h} \cup Elements(Tail(out[p]))
  BY <1>1, <1>3, TailFacts, Zenon
<1>5. Received(p) \in Int /\ Chain(out[p], Received(p))
  BY <1>2, ReceivedFacts, Zenon DEF ChainInv
<1>6. h.n = Received(p) + 1
  BY <1>1, <1>3, <1>5, ChainTail, Zenon
<1> HIDE DEF h
<1>7. Current(p, h)
  BY <1>2, <1>4, Zenon DEF CurrentInv
<1>8. ASSUME NEW y \in have[p] PROVE y.n # h.n
  <2>1. y.n <= Received(p) /\ y \in To(p)
    BY <1>2, <1>3, Zenon DEF CurrentInv
  <2>2. y.n \in Nat
    BY <2>1, ToFacts, MessageFacts, Zenon
  <2>3. QED
    BY <1>5, <1>6, <2>1, <2>2
<1>9. Accepted(p, h) = have[p] \cup {h}
  BY <1>8, Zenon DEF Accepted
<1>10. have'[p] = have[p] \cup {h} /\ \A r \in Parties : r # p => have'[r] = have[r]
  BY <1>1, <1>2, <1>9, Zenon DEF Types
<1>11. ASSUME NEW x \in have'[p] PROVE x.attempt = attempt[p] /\ x.peer \in {0, attempt[p]}
  <2>1. Current(p, x)
    BY <1>2, <1>7, <1>10, Zenon DEF CurrentInv
  <2>2. Here(p)
    BY <1>1, <1>2, HereFacts, Zenon
  <2>3. QED
    BY <1>2, <2>1, <2>2, HereTurn, Zenon
<1>12. Fits(p, have'[p])
  BY <1>11, Zenon DEF Fits
<1>13. QED
  BY <1>4, <1>6, <1>7, <1>10, <1>12, Zenon DEF h

(* A party that runs makes a step of its script, or takes a message. *)
LEMMA OtherCalm ==
  ASSUME BaseInv, NEW p \in Parties, \A r \in Parties : Calm(r), Running(p),
         \/ pos' = pos /\ status' = status
         \/ NextIs(p, "recv") /\ Advance(p),
         protocol' = protocol, attempt' = attempt, stream' = stream, unacked' = unacked,
         link' = link, wire' = wire, sent' = sent, taken \subseteq taken',
         \A r \in Parties : r # p => have'[r] = have[r] /\ out'[r] = out[r]
  PROVE  /\ Calm(Other(p))' /\ TurnInv(p)' /\ SentTo(p)' = SentTo(p)
         /\ Here(p) /\ Here(p)'
<1> DEFINE q == Other(p)
<1>1. /\ q \in Parties /\ q # p /\ Other(q) = p /\ Types /\ ScriptInv(p) /\ LinkInv(p)
      /\ Calm(q) /\ TurnInv(p)
  BY PartyFacts, Zenon DEF BaseInv, Calm
<1>2. SentTo(q)' = SentTo(q) /\ status'[q] = status[q] /\ pos'[q] = pos[q]
  <2>1. CASE pos' = pos /\ status' = status
    <3>1. status'[p] = status[p] /\ pos'[p] = pos[p] /\ status'[q] = status[q] /\ pos'[q] = pos[q]
      BY <2>1, Zenon
    <3>2. QED
      BY <1>1, <3>1, SentToFrame, Zenon
  <2>2. CASE NextIs(p, "recv") /\ Advance(p)
    <3>1. Sends(protocol, p, pos[p] + 1) = Sends(protocol, p, pos[p])
      BY <1>1, <2>2, ReceiveFacts, Zenon
    <3>2. status'[q] = status[q] /\ pos'[q] = pos[q]
      BY <1>1, <2>2, AdvanceFacts, Zenon
    <3>3. QED
      BY <2>2, <3>1, <3>2, SentToAdvance, Zenon
  <2>3. QED
    BY <2>1, <2>2, Zenon
<1>3. Link(p)' = Link(p) /\ (Here(p)' <=> Here(p))
  BY HereFrame, Zenon
<1>4. Calm(q)'
  <2>1. /\ link'[q] = link[q] /\ have'[q] = have[q] /\ stream'[q] = stream[q]
        /\ wire'[q] = wire[q] /\ out'[q] = out[q] /\ unacked'[q] = unacked[q]
        /\ \A m \in sent' : m.from = Other(q) => m \in sent
        /\ attempt[q] > attempt[Other(q)] /\ Link(Other(q)) \in {"none", "closed"}
             => Link(Other(q))' \in {"none", "closed"}
    BY <1>1, <1>3, Zenon
  <2>2. QED
    BY <1>1, <1>2, <2>1, CalmFrame, Zenon
<1>5. TurnInv(p)'
  <2>1. CASE status' = status
    <3>1. status'[p] \in {"idle", "running", "done"}
      BY <1>1, <2>1, Zenon DEF TurnInv
    <3>2. Link(q)' = Link(q)
      BY <1>1, HereFrame, Zenon
    <3>3. QED
      BY <1>1, <3>1, <3>2, TurnFrame, Zenon
  <2>2. CASE Advance(p)
    BY <1>1, <2>2, AdvanceTurn, Zenon
  <2>3. QED
    BY <2>1, <2>2, Zenon
<1>6. Here(p)
  BY <1>1, HereFacts, Zenon
<1>7. SentTo(p)' = SentTo(p)
  BY <1>2, SentToFrame, Zenon
<1>8. QED
  BY <1>3, <1>4, <1>5, <1>6, <1>7, Zenon

LEMMA TakeCalm ==
  ASSUME BaseInv, NEW p \in Parties, \A r \in Parties : Calm(r), TakeMessage(p),
         \/ protocol = "rounds" /\ pos' = pos /\ status' = status
         \/ NextIs(p, "recv") /\ Advance(p)
  PROVE  \A r \in Parties : Calm(r)'
<1> DEFINE h == Head(out[p])
           q == Other(p)
<1>1. /\ Running(p) /\ out[p] # <<>> /\ out' = [out EXCEPT ![p] = Tail(out[p])]
      /\ taken' = taken \cup {h} /\ protocol' = protocol /\ attempt' = attempt
      /\ stream' = stream /\ unacked' = unacked /\ link' = link /\ wire' = wire /\ sent' = sent
  BY Zenon DEF TakeMessage, queue
<1>2. /\ h.n = Received(p) + 1 /\ h \in To(p) /\ Current(p, h)
      /\ have'[p] = have[p] \cup {h}
      /\ \A r \in Parties : r # p => have'[r] = have[r]
  BY TakeFacts, Zenon
<1>3. /\ Types /\ QueueInv(p) /\ CurrentInv(p) /\ ChainInv(p) /\ CountInv(p) /\ FoundInv(p)
      /\ ScriptInv(p) /\ q \in Parties /\ Calm(q)
  BY PartyFacts, Zenon DEF BaseInv, Calm
<1>4. out[p] \in Seq(To(p))
  BY <1>3, Zenon DEF QueueInv
<1>5. /\ Elements(out[p]) = {h} \cup Elements(Tail(out[p]))
      /\ Len(Tail(out[p])) = Len(out[p]) - 1
  BY <1>1, <1>4, TailFacts, Zenon
<1>6. /\ out'[p] = Tail(out[p]) /\ \A r \in Parties : r # p => out'[r] = out[r]
  BY <1>1, <1>3, Zenon DEF Types
<1>7. /\ Len(wire[p]) \in Nat /\ Len(out[p]) \in Nat /\ Handed(p) \in Int /\ Received(p) \in Int
      /\ Received(p) = Handed(p) - Len(wire[p]) - Len(out[p])
  BY ReceivedFacts, Zenon
<1>8. Chain(out[p], Received(p)) /\ Chain(wire[p], Handed(p) - Len(wire[p]))
      /\ Chain(stream[p], SentTo(p) - Len(stream[p]))
  BY <1>3, Zenon DEF ChainInv
<1>9. Chain(Tail(out[p]), Received(p) + 1)
  BY <1>1, <1>4, <1>7, <1>8, ChainTail, Zenon
<1> HIDE DEF h
<1>10. taken \subseteq taken'
  BY <1>1, Zenon
<1>11. Calm(q)' /\ TurnInv(p)' /\ SentTo(p)' = SentTo(p) /\ Here(p) /\ Here(p)'
  BY <1>1, <1>2, <1>6, <1>10, OtherCalm, Zenon
<1>12. Handed(p)' = Handed(p)
  BY <1>1, <1>11, Zenon DEF Handed
<1>13. Received(p)' = Received(p) + 1
  <2>1. Received(p)' = Handed(p) - Len(wire[p]) - Len(out'[p])
    BY <1>1, <1>12, Zenon DEF Received
  <2>2. QED
    BY <1>5, <1>6, <1>7, <2>1
<1>14. /\ Elements(out[p])' = Elements(Tail(out[p])) /\ Elements(wire[p])' = Elements(wire[p])
       /\ Elements(stream[p])' = Elements(stream[p])
  BY <1>1, <1>6, Zenon DEF Elements
<1>15. CurrentInv(p)'
  <2>1. \A x : Current(p, x)' <=> Current(p, x)
    BY <1>1, Zenon DEF Current
  <2>2. \A x \in have'[p] \cup Elements(stream[p])' \cup Elements(wire[p])' \cup Elements(out[p])' :
           Current(p, x)
    BY <1>2, <1>3, <1>5, <1>14, Zenon DEF CurrentInv
  <2>3. ASSUME NEW x \in have'[p] PROVE x.n <= Received(p)'
    <3>1. CASE x = h
      BY <1>2, <1>7, <1>13, <3>1
    <3>2. CASE x \in have[p]
      <4>1. x.n <= Received(p) /\ x \in To(p)
        BY <1>3, <3>2, Zenon DEF CurrentInv, QueueInv
      <4>2. x.n \in Nat
        BY <4>1, ToFacts, MessageFacts, Zenon
      <4>3. QED
        BY <1>7, <1>13, <4>1, <4>2
    <3>3. QED
      BY <1>2, <2>3, <3>1, <3>2, Zenon
  <2>4. QED
    BY <2>1, <2>2, <2>3, Zenon DEF CurrentInv
<1>16. ChainInv(p)'
  <2>1. Chain(out'[p], Received(p)')
    BY <1>6, <1>9, <1>13, Zenon
  <2>2. QED
    BY <1>1, <1>8, <1>11, <1>12, <2>1, Zenon DEF ChainInv, Chain
<1>17. FoundInv(p)'
  BY <1>1, <1>3, <1>5, <1>14, Zenon DEF FoundInv
<1>18. CountInv(p)'
  <2>1. attempt[p] > 0 /\ attempt[p] = attempt[q]
    BY <1>2, <1>3, <1>11, HereTurn, Zenon
  <2>2. /\ ~ (attempt[p] = 0) /\ ~ (attempt[p] < attempt[q])
    BY <1>3, <2>1, SentToFacts
  <2>3. /\ Receives(protocol, p, pos[p]) <= Received(p)
        /\ protocol # "rounds" => Receives(protocol, p, pos[p]) = Received(p)
    BY <1>3, <1>11, Zenon DEF CountInv
  <2>4. Receives(protocol, p, pos[p]) \in Nat
    BY <1>1, <1>3, NextFacts, Zenon
  <2>5. /\ Receives(protocol, p, pos'[p]) <= Received(p) + 1
        /\ protocol # "rounds" => Receives(protocol, p, pos'[p]) = Received(p) + 1
    <3>1. CASE protocol = "rounds" /\ pos' = pos
      BY <1>7, <2>3, <2>4, <3>1
    <3>2. CASE NextIs(p, "recv") /\ Advance(p)
      <4>1. Receives(protocol, p, pos[p] + 1) = Receives(protocol, p, pos[p]) + 1
        BY <1>3, <3>2, ReceiveFacts, Zenon
      <4>2. pos'[p] = pos[p] + 1
        BY <1>1, <1>3, <3>2, AdvanceFacts, Zenon
      <4>3. QED
        BY <1>7, <2>3, <2>4, <4>1, <4>2
    <3>3. QED
      BY <3>1, <3>2, Zenon
  <2>6. QED
    BY <1>1, <1>11, <1>13, <2>2, <2>5, Zenon DEF CountInv
<1>19. Calm(p)'
  BY <1>11, <1>15, <1>16, <1>17, <1>18, Zenon DEF Calm
<1>20. QED
  BY <1>11, <1>19, PartyFacts, Zenon

LEMMA FinalizeCalm ==
  ASSUME BaseInv, NEW p \in Parties, \A r \in Parties : Calm(r), Finalize(p)
  PROVE  \A r \in Parties : Calm(r)'
<1> DEFINE q == Other(p)
<1>1. /\ protocol = "rounds" /\ NextIs(p, "recv") /\ Expected(p, have[p]) /\ Advance(p)
      /\ protocol' = protocol /\ attempt' = attempt /\ have' = have
      /\ stream' = stream /\ unacked' = unacked /\ link' = link /\ wire' = wire /\ out' = out
      /\ sent' = sent /\ taken' = taken
  BY Zenon DEF Finalize, queue, conn, history
<1>2. /\ Types /\ CurrentInv(p) /\ ChainInv(p) /\ CountInv(p) /\ FoundInv(p)
      /\ ScriptInv(p) /\ Running(p)
  BY <1>1, Zenon DEF BaseInv, Calm, NextIs
<1>3. Calm(q)' /\ TurnInv(p)' /\ SentTo(p)' = SentTo(p) /\ Here(p) /\ Here(p)'
  BY <1>1, <1>2, OtherCalm, Zenon
<1>4. CurrentInv(p)' /\ ChainInv(p)' /\ Received(p)' = Received(p)
  BY <1>1, <1>2, <1>3, CurrentFrame, NumberFrame, Zenon
<1>5. FoundInv(p)'
  BY <1>1, <1>2, FoundFrame, Zenon
<1>6. CountInv(p)'
  <2>1. /\ At(p).n = Receives(protocol, p, pos[p]) + 1
        /\ Receives(protocol, p, pos[p] + 1) = Receives(protocol, p, pos[p]) + 1
    BY <1>1, <1>2, ReceiveFacts, Zenon
  <2>2. Receives(protocol, p, pos[p]) + 1 <= Received(p)
    BY <1>1, <1>2, <2>1, Zenon DEF Expected, CurrentInv
  <2>3. pos'[p] = pos[p] + 1
    BY <1>1, <1>2, AdvanceFacts, Zenon
  <2>4. QED
    BY <1>1, <1>2, <1>3, <1>4, <2>1, <2>2, <2>3, Zenon DEF CountInv
<1>7. QED
  BY <1>3, <1>4, <1>5, <1>6, PartyFacts, Zenon DEF Calm

LEMMA PartyCalm ==
  ASSUME BaseInv, NEW p \in Parties, \A r \in Parties : Calm(r),
         HandlerLoop(p) \/ AcceptIncomplete(p) \/ FrostReceive(p)
  PROVE  \A r \in Parties : Calm(r)'
<1>1. TakeMessage(p)
  BY PartySteps, Zenon
<1>2. Fits(p, have'[p]) /\ Head(out[p]).n = Received(p) + 1
      /\ have'[p] = have[p] \cup {Head(out[p])}
  BY <1>1, TakeFacts, Zenon
<1>3. CASE HandlerLoop(p)
  <2>1. protocol = "rounds" /\ pos' = pos /\ status' = status
    BY <1>2, <1>3, Zenon DEF HandlerLoop
  <2>2. QED
    BY <1>1, <2>1, TakeCalm, Zenon
<1>4. CASE AcceptIncomplete(p)
  BY <1>1, <1>4, TakeCalm, Zenon DEF AcceptIncomplete
<1>5. CASE FrostReceive(p)
  <2>1. protocol = "frost" /\ NextIs(p, "recv") /\ Running(p)
    BY <1>1, <1>5, Zenon DEF FrostReceive, TakeMessage
  <2>2. /\ Types /\ ScriptInv(p) /\ LinkInv(p) /\ CountInv(p)
    BY Zenon DEF BaseInv, Calm
  <2>3. At(p).n = Receives(protocol, p, pos[p]) + 1
    BY <2>1, <2>2, ReceiveFacts, Zenon
  <2>4. Here(p)
    BY <2>1, <2>2, HereFacts, Zenon
  <2>5. protocol # "rounds"
    BY <2>1, Zenon
  <2>6. Receives(protocol, p, pos[p]) = Received(p)
    BY <2>2, <2>4, <2>5, Zenon DEF CountInv
  <2>7. Expected(p, have'[p])
    BY <1>2, <2>3, <2>6, Zenon DEF Expected
  <2>8. Advance(p)
    BY <1>2, <1>5, <2>7, Zenon DEF FrostReceive
  <2>9. QED
    BY <1>1, <2>1, <2>8, TakeCalm, Zenon
<1>6. QED
  BY <1>3, <1>4, <1>5, Zenon

LEMMA DoneCalm ==
  ASSUME BaseInv, NEW p \in Parties, \A r \in Parties : Calm(r), Done(p)
  PROVE  \A r \in Parties : Calm(r)'
<1> DEFINE q == Other(p)
           l == IF Link(p) = "open" THEN "cancelled" ELSE "closed"
<1>1. /\ status[p] \in {"done", "failed", "timeout"} /\ Here(p)
      /\ pos' = [pos EXCEPT ![p] = 0] /\ have' = [have EXCEPT ![p] = {}]
      /\ SetLink(p, attempt[p], l)
      /\ wire' = [wire EXCEPT ![p] = <<>>] /\ out' = [out EXCEPT ![p] = <<>>]
      /\ protocol' = protocol /\ attempt' = attempt /\ status' = status /\ stream' = stream
      /\ unacked' = unacked /\ sent' = sent /\ taken' = taken
  BY Zenon DEF Done, HangUp, Here, queue, history
<1>2. /\ q \in Parties /\ q # p /\ Other(q) = p /\ Types /\ LinkInv(p)
      /\ TurnInv(p) /\ CurrentInv(p) /\ ChainInv(p) /\ CountInv(p) /\ FoundInv(p) /\ Calm(q)
  BY PartyFacts, Zenon DEF BaseInv, Calm
<1>3. status[p] = "done"
  BY <1>1, <1>2, Zenon DEF TurnInv
<1>4. /\ out[p] = <<>> /\ wire[p] = <<>>
      /\ SentTo(p) = Total(protocol, q) /\ Received(p) = Total(protocol, q)
  BY <1>1, <1>2, <1>3, DoneEmpty, Zenon
<1>5. attempt[p] \in Attempts
  BY <1>1, <1>2, HereFacts, Zenon
<1>6. /\ link'[p][attempt[p]] = l
      /\ \A b \in Attempts : b # attempt[p] => link'[p][b] = link[p][b]
      /\ \A r \in Parties : r # p => link'[r] = link[r]
  <2>1. l \in {"none", "dialing", "open", "dead", "cancelled", "closed"}
    BY Zenon
  <2>2. QED
    BY <1>1, <1>2, <1>5, <2>1, SetLinkFacts, ZenonT(30)
<1>7. ~ Here(p)'
  <2>1. attempt[p] # 0
    BY <1>5 DEF Attempts
  <2>2. Link(p)' = l
    BY <1>1, <1>6, <2>1, Zenon DEF Link
  <2>3. QED
    BY <2>2, Zenon DEF Here
<1>8. /\ wire' = wire /\ out' = out /\ stream' = stream /\ have'[p] = {} /\ have'[q] = have[q]
      /\ pos'[q] = pos[q] /\ link'[q] = link[q]
  BY <1>1, <1>2, <1>4, <1>6 DEF Types
<1>9. SentTo(p)' = SentTo(p)
  BY <1>1, <1>8, SentToFrame, Zenon
<1>10. SentTo(q)' = SentTo(q)
  BY <1>1, <1>2, <1>3, Zenon DEF SentTo
<1>11. Handed(p)' = Handed(p) /\ Received(p)' = Received(p)
  BY <1>1, <1>8, <1>9, NumberFrame, Zenon
<1>12. Calm(p)'
  <2>1. TurnInv(p)'
    <3>1. Link(q)' = Link(q)
      BY <1>1, <1>2, <1>8, HereFrame, Zenon
    <3>2. ASSUME NEW a \in Attempts, a < attempt[p] PROVE link'[p][a] = "closed"
      <4>1. a # attempt[p]
        BY <1>5, <3>2 DEF Attempts
      <4>2. QED
        BY <1>2, <1>6, <3>2, <4>1, Zenon DEF TurnInv
    <3>3. QED
      BY <1>1, <1>2, <3>1, <3>2, Zenon DEF TurnInv
  <2>2. CurrentInv(p)'
    <3>1. \A x : Current(p, x)' <=> Current(p, x)
      BY <1>1, Zenon DEF Current
    <3>2. /\ Elements(stream[p])' = Elements(stream[p]) /\ Elements(wire[p])' = Elements(wire[p])
          /\ Elements(out[p])' = Elements(out[p])
      BY <1>8, Zenon DEF Elements
    <3>3. \A x \in have'[p] \cup Elements(stream[p])' \cup Elements(wire[p])' \cup Elements(out[p])' :
             Current(p, x)
      BY <1>2, <1>8, <3>2, Zenon DEF CurrentInv
    <3>4. QED
      BY <1>8, <3>1, <3>3, Zenon DEF CurrentInv
  <2>3. ChainInv(p)'
    BY <1>1, <1>2, <1>8, <1>9, <1>11, Zenon DEF ChainInv, Chain
  <2>4. CountInv(p)'
    BY <1>1, <1>2, <1>4, <1>7, <1>9, <1>11, Zenon DEF CountInv
  <2>5. FoundInv(p)'
    BY <1>1, <1>2, <1>8, FoundFrame, Zenon
  <2>6. QED
    BY <2>1, <2>2, <2>3, <2>4, <2>5, Zenon DEF Calm
<1>13. Calm(q)'
  <2>1. ~ (attempt[q] > attempt[p])
    BY <1>1, <1>2, HereTurn, SentToFacts
  <2>2. taken \subseteq taken' /\ \A m \in sent' : m.from = Other(q) => m \in sent
    BY <1>1, Zenon
  <2>3. QED
    BY <1>1, <1>2, <1>8, <1>10, <2>1, <2>2, CalmFrame, ZenonT(30)
<1>14. QED
  BY <1>12, <1>13, PartyFacts, Zenon

(* The relay changes the state of a stream. *)
LEMMA LinkCalm ==
  ASSUME BaseInv, NEW p \in Parties, \A r \in Parties : Calm(r), NEW a \in Attempts, NEW l,
         SetLink(p, a, l), l \in {"none", "dialing", "open", "dead", "cancelled", "closed"},
         protocol' = protocol, UNCHANGED party, stream' = stream, unacked' = unacked,
         wire' = wire, out' = out, sent' = sent, taken' = taken,
         a < attempt[p] => l = "closed",
         a = attempt[p] => \/ Link(p) = "dialing" /\ l \in {"open", "dead"}
                           \/ Link(p) = "cancelled" /\ l = "closed"
  PROVE  \A r \in Parties : Calm(r)'
<1> DEFINE q == Other(p)
<1>1. attempt' = attempt /\ status' = status /\ pos' = pos /\ have' = have
  BY Zenon DEF party
<1>2. /\ q \in Parties /\ q # p /\ Other(q) = p /\ Types
      /\ TurnInv(p) /\ CurrentInv(p) /\ ChainInv(p) /\ CountInv(p) /\ FoundInv(p) /\ Calm(q)
  BY PartyFacts, Zenon DEF BaseInv, Calm
<1>3. /\ link'[p][a] = l /\ \A b \in Attempts : b # a => link'[p][b] = link[p][b]
      /\ \A r \in Parties : r # p => link'[r] = link[r]
  BY <1>2, SetLinkFacts, ZenonT(30)
<1>4. /\ Here(p)' <=> Here(p)
      /\ Link(p) \in {"none", "closed"} => Link(p)' \in {"none", "closed"}
  <2>1. CASE a = attempt[p]
    <3>1. attempt[p] # 0
      BY <2>1 DEF Attempts
    <3>2. Link(p)' = l
      BY <1>1, <1>3, <2>1, <3>1, Zenon DEF Link
    <3>3. \/ Link(p) = "dialing" /\ l \in {"open", "dead"}
          \/ Link(p) = "cancelled" /\ l = "closed"
      BY <2>1, Zenon
    <3>4. QED
      BY <3>2, <3>3, Zenon DEF Here
  <2>2. CASE a # attempt[p]
    <3>1. attempt[p] # 0 => attempt[p] \in Attempts
      <4>1. attempt[p] \in 0 .. MaxAttempts /\ MaxAttempts \in Nat
        BY <1>2, RelayAssumption, Zenon DEF Types
      <4>2. QED
        BY <4>1 DEF Attempts
    <3>2. Link(p)' = Link(p)
      BY <1>1, <1>3, <2>2, <3>1, Zenon DEF Link
    <3>3. QED
      BY <3>2, Zenon DEF Here
  <2>3. QED
    BY <2>1, <2>2, Zenon
<1>5. link'[q] = link[q]
  BY <1>2, <1>3, Zenon
<1>6. Link(q)' = Link(q)
  BY <1>1, <1>2, <1>5, HereFrame, Zenon
<1>7. SentTo(p)' = SentTo(p) /\ SentTo(q)' = SentTo(q)
  BY <1>1, <1>2, SentToFrame, Zenon
<1>8. Calm(p)'
  <2>1. TurnInv(p)'
    <3>1. \A b \in Attempts : b < attempt[p] => link'[p][b] = "closed"
      BY <1>2, <1>3, Zenon DEF TurnInv
    <3>2. QED
      BY <1>1, <1>2, <1>6, <3>1, Zenon DEF TurnInv
  <2>2. CurrentInv(p)' /\ ChainInv(p)' /\ Received(p)' = Received(p)
    BY <1>1, <1>2, <1>7, CurrentFrame, NumberFrame, Zenon
  <2>3. CountInv(p)'
    BY <1>1, <1>2, <1>4, <1>7, <2>2, CountFrame, Zenon
  <2>4. FoundInv(p)'
    BY <1>2, FoundFrame, Zenon
  <2>5. QED
    BY <2>1, <2>2, <2>3, <2>4, Zenon DEF Calm
<1>9. Calm(q)'
  <2>1. /\ status'[q] = status[q] /\ pos'[q] = pos[q] /\ have'[q] = have[q]
        /\ stream'[q] = stream[q] /\ wire'[q] = wire[q] /\ out'[q] = out[q]
        /\ unacked'[q] = unacked[q] /\ taken \subseteq taken'
        /\ \A m \in sent' : m.from = Other(q) => m \in sent
    BY <1>1, Zenon
  <2>2. QED
    BY <1>1, <1>2, <1>4, <1>5, <1>7, <2>1, CalmFrame, Zenon
<1>10. QED
  BY <1>8, <1>9, PartyFacts, Zenon

LEMMA SubscribeCalm ==
  ASSUME BaseInv, NEW p \in Parties, \A r \in Parties : Calm(r), NEW a \in Attempts,
         Subscribe(p, a)
  PROVE  \A r \in Parties : Calm(r)'
<1>1. /\ link[p][a] = "dialing" /\ (SetLink(p, a, "open") \/ SetLink(p, a, "dead"))
      /\ protocol' = protocol /\ UNCHANGED party /\ stream' = stream /\ unacked' = unacked
      /\ wire' = wire /\ out' = out /\ sent' = sent /\ taken' = taken
  BY Zenon DEF Subscribe, history
<1>2. LinkInv(p) /\ Types
  BY Zenon DEF BaseInv
<1>3. ~ (a < attempt[p])
  <2>1. link[p][a] \notin {"cancelled", "closed"}
    BY <1>1, Zenon
  <2>2. QED
    BY <1>2, <2>1, Zenon DEF LinkInv
<1>4. a = attempt[p] => Link(p) = "dialing"
  BY <1>1 DEF Link, Attempts
<1>5. PICK l \in {"open", "dead"} : SetLink(p, a, l)
  BY <1>1, Zenon
<1>6. l \in {"none", "dialing", "open", "dead", "cancelled", "closed"}
  BY <1>5, Zenon
<1>7. QED
  BY <1>1, <1>3, <1>4, <1>5, <1>6, LinkCalm, ZenonT(30)

LEMMA UnsubscribeCalm ==
  ASSUME BaseInv, NEW p \in Parties, \A r \in Parties : Calm(r), NEW a \in Attempts,
         Unsubscribe(p, a), ~ disturbed'
  PROVE  \A r \in Parties : Calm(r)'
<1>1. /\ link[p][a] = "cancelled" /\ SetLink(p, a, "closed")
      /\ unacked' = [unacked EXCEPT ![p] = FALSE] /\ disturbed' = (disturbed \/ unacked[p])
      /\ protocol' = protocol /\ UNCHANGED party /\ stream' = stream
      /\ wire' = wire /\ out' = out /\ sent' = sent /\ taken' = taken
  BY Zenon DEF Unsubscribe
<1>2. Types
  BY Zenon DEF BaseInv
<1>3. unacked[p] = FALSE
  <2>1. ~ unacked[p]
    BY <1>1, Zenon
  <2>2. unacked[p] \in BOOLEAN
    BY <1>2, Zenon DEF Types
  <2>3. QED
    BY <2>1, <2>2, Zenon
<1>4. unacked' = unacked
  BY <1>1, <1>2, <1>3, Zenon DEF Types
<1>5. a = attempt[p] => Link(p) = "cancelled"
  BY <1>1 DEF Link, Attempts
<1>6. QED
  BY <1>1, <1>4, <1>5, LinkCalm, Zenon

(* A party that has left with everything leaves nothing behind. *)
LEMMA LeftEmpty ==
  ASSUME BaseInv, NEW p \in Parties, Calm(p), attempt[Other(p)] <= attempt[p],
         Link(p) \in {"none", "closed"}
  PROVE  stream[p] = <<>> /\ wire[p] = <<>> /\ out[p] = <<>> /\ have[p] = {} /\ ~ unacked[p]
<1> DEFINE q == Other(p)
<1>1. /\ Types /\ LinkInv(p) /\ QueueInv(p) /\ TurnInv(p) /\ CurrentInv(p) /\ CountInv(p)
      /\ q \in Parties
  BY PartyFacts, Zenon DEF BaseInv, Calm
<1>2. ~ Here(p)
  BY Zenon DEF Here
<1>3. wire[p] = <<>> /\ out[p] = <<>> /\ have[p] = {}
  BY <1>1, <1>2, Zenon DEF LinkInv
<1>4. ~ unacked[p]
  <2>1. SUFFICES ASSUME consumer[p] # 0 PROVE FALSE
    BY <1>1, Zenon DEF QueueInv
  <2>2. consumer[p] \in Attempts
    BY <1>1, <2>1, SMTT(30) DEF Types, Attempts
  <2>3. link[p][consumer[p]] \in {"open", "cancelled"}
    BY <1>1, <2>2, Zenon DEF LinkInv
  <2>4. link[p][consumer[p]] \notin {"none", "closed"}
    BY <2>3, Zenon
  <2>5. ~ (consumer[p] < attempt[p]) /\ ~ (consumer[p] > attempt[p])
    BY <1>1, <2>2, <2>4, Zenon DEF TurnInv, LinkInv
  <2>6. consumer[p] = attempt[p] /\ attempt[p] # 0
    BY <1>1, <2>2, <2>5, SMTT(30) DEF Types, Attempts
  <2>7. QED
    BY <2>4, <2>6, Zenon DEF Link
<1>5. stream[p] = <<>>
  <2>1. attempt[p] \in Nat /\ attempt[q] \in Nat /\ stream[p] \in Seq(To(p))
    BY <1>1, SentToFacts, Zenon DEF QueueInv
  <2>2. CASE attempt[p] > 0
    <3>1. Received(p) = Total(protocol, q)
      BY <1>1, <1>2, <2>2, Zenon DEF CountInv
    <3>2. Received(p) >= Total(protocol, q)
      BY <3>1, SentToFacts
    <3>3. QED
      BY <1>4, <3>2, AllReceived, Zenon
  <2>3. CASE ~ (attempt[p] > 0)
    <3>1. attempt[q] = 0
      BY <2>1, <2>3
    <3>2. SUFFICES ASSUME stream[p] # <<>> PROVE FALSE
      BY Zenon
    <3>3. /\ Head(stream[p]) \in To(p)
          /\ Elements(stream[p]) = {Head(stream[p])} \cup Elements(Tail(stream[p]))
      BY <2>1, <3>2, TailFacts, Zenon
    <3>4. Current(p, Head(stream[p]))
      BY <1>1, <3>3, Zenon DEF CurrentInv
    <3>5. Head(stream[p]).attempt = 0
      BY <3>1, <3>4, Zenon DEF Current
    <3>6. Head(stream[p]).attempt > 0
      BY <3>3, ToFacts, MessageFacts, Zenon
    <3>7. QED
      BY <3>5, <3>6
  <2>4. QED
    BY <2>2, <2>3, Zenon
<1>6. QED
  BY <1>3, <1>4, <1>5, Zenon

LEMMA NewClientCalm ==
  ASSUME BaseInv, NEW p \in Parties, \A r \in Parties : Calm(r), NewClient(p), ~ disturbed'
  PROVE  \A r \in Parties : Calm(r)'
<1> DEFINE q == Other(p)
<1>1. /\ Link(p) \in {"none", "cancelled", "closed"}
      /\ attempt' = [attempt EXCEPT ![p] = attempt[p] + 1]
      /\ status' = [status EXCEPT ![p] = "running"]
      /\ SetLink(p, attempt[p] + 1, "dialing") /\ attempt[p] < MaxAttempts /\ ~ Early(p)
      /\ protocol' = protocol /\ pos' = pos /\ have' = have /\ stream' = stream
      /\ unacked' = unacked /\ wire' = wire /\ out' = out /\ sent' = sent /\ taken' = taken
  BY Zenon DEF NewClient, queue
<1>2. /\ q \in Parties /\ q # p /\ Other(q) = p /\ Types /\ LinkInv(p) /\ LinkInv(q)
      /\ Calm(p) /\ Calm(q) /\ TurnInv(p) /\ TurnInv(q)
  BY PartyFacts, Zenon DEF BaseInv, Calm
<1>3. /\ attempt[p] \in Nat /\ attempt[q] \in Nat /\ attempt[p] + 1 \in Attempts
      /\ attempt[p] # 0 => attempt[p] \in Attempts
  BY <1>1, <1>2, RelayAssumption, SMTT(30) DEF Types, Attempts
<1>4. /\ link'[p][attempt[p] + 1] = "dialing"
      /\ \A b \in Attempts : b # attempt[p] + 1 => link'[p][b] = link[p][b]
      /\ link'[q] = link[q]
  <2>1. "dialing" \in {"none", "dialing", "open", "dead", "cancelled", "closed"}
    BY Zenon
  <2>2. QED
    BY <1>1, <1>2, <1>3, <2>1, SetLinkFacts, ZenonT(30)
<1>5. /\ attempt'[p] = attempt[p] + 1 /\ attempt'[q] = attempt[q]
      /\ status'[p] = "running" /\ status'[q] = status[q]
  BY <1>1, <1>2, Zenon DEF Types
<1>6. attempt[p] # 0 => link[p][attempt[p]] = "closed" /\ link[q][attempt[p]] = "closed"
  <2>1. attempt[p] # 0 => attempt[p] > 0
    BY <1>3
  <2>2. QED
    BY <1>1, <1>2, <2>1, Zenon DEF Early
<1>7. Link(p) \in {"none", "closed"}
  BY <1>6, Zenon DEF Link
<1>8. attempt[q] \in {attempt[p], attempt[p] + 1}
  <2>1. ~ (attempt[p] > attempt[q])
    <3>1. SUFFICES ASSUME attempt[p] > attempt[q] PROVE FALSE
      BY Zenon
    <3>2. attempt[p] # 0
      BY <1>3, <3>1
    <3>3. link[q][attempt[p]] = "none"
      BY <1>2, <1>3, <3>1, <3>2, Zenon DEF LinkInv
    <3>4. QED
      BY <1>6, <3>2, <3>3, Zenon
  <2>2. attempt[q] <= attempt[p] + 1
    BY <1>2, Zenon DEF TurnInv
  <2>3. QED
    BY <1>3, <2>1, <2>2
<1>9. ~ Here(p) /\ pos[p] = 0 /\ have[p] = {}
  <2>1. ~ Here(p)
    BY <1>7, Zenon DEF Here
  <2>2. QED
    BY <1>2, <2>1, Zenon DEF LinkInv
<1>10. Here(p)'
  <2>1. attempt'[p] # 0
    BY <1>3, <1>5
  <2>2. Link(p)' = "dialing"
    BY <1>4, <1>5, <2>1, Zenon DEF Link
  <2>3. QED
    BY <2>2, Zenon DEF Here
<1>11. Link(q)' = Link(q) /\ (Here(q)' <=> Here(q))
  BY <1>4, <1>5, Zenon DEF Here, Link
<1>12. SentTo(q)' = 0
  <2>1. ~ (attempt'[p] < attempt'[q])
    BY <1>3, <1>5, <1>8
  <2>2. status'[p] # "done"
    BY <1>5, Zenon
  <2>3. SentTo(q)' = Sends(protocol, p, pos[p])
    BY <1>1, <1>2, <2>1, <2>2, Zenon DEF SentTo
  <2>4. Sends(protocol, p, 0) = 0
    BY <1>2, CountFacts, Zenon
  <2>5. QED
    BY <1>9, <2>3, <2>4, Zenon
<1>13. /\ Receives(protocol, p, pos'[p]) = 0 /\ attempt'[p] > 0
  <2>1. Sends(protocol, p, 0) = 0
    BY <1>2, CountFacts, Zenon
  <2>2. QED
    BY <1>1, <1>3, <1>5, <1>9, <2>1, SMTT(30) DEF Receives
<1>14. TurnInv(p)'
  <2>1. attempt'[p] <= attempt'[q] + 1
    BY <1>3, <1>5, <1>8
  <2>2. attempt'[p] > attempt'[q] => Link(q)' \in {"none", "closed"}
    <3>1. SUFFICES ASSUME attempt'[p] > attempt'[q] PROVE Link(q) \in {"none", "closed"}
      BY <1>11, Zenon
    <3>2. attempt[q] = attempt[p]
      BY <1>3, <1>5, <1>8, <3>1
    <3>3. QED
      BY <1>6, <3>2, Zenon DEF Link
  <2>3. ASSUME NEW a \in Attempts, a < attempt'[p] PROVE link'[p][a] = "closed"
    <3>1. a # attempt[p] + 1 /\ (a = attempt[p] \/ a < attempt[p]) /\ a # 0
      BY <1>3, <1>5, <2>3 DEF Attempts
    <3>2. QED
      BY <1>2, <1>4, <1>6, <3>1, Zenon DEF TurnInv
  <2>4. status'[p] \in {"idle", "running", "done"}
    BY <1>5, Zenon
  <2>5. QED
    BY <2>1, <2>2, <2>3, <2>4, Zenon DEF TurnInv
<1>15. TurnInv(q)'
  <2>1. attempt'[q] <= attempt'[p] + 1 /\ ~ (attempt'[q] > attempt'[p])
    BY <1>3, <1>5, <1>8
  <2>2. QED
    BY <1>2, <1>4, <1>5, <2>1, Zenon DEF TurnInv
<1>16. FoundInv(p)' /\ FoundInv(q)'
  BY <1>1, <1>2, FoundFrame, Zenon DEF Calm
<1>17. ASSUME NEW r \in Parties, stream[r] = <<>>, wire[r] = <<>>, out[r] = <<>>,
              have[r] = {}, ~ unacked[r]
       PROVE  CurrentInv(r)' /\ ChainInv(r)' /\ (SentTo(r)' = 0 => Received(r)' = 0)
  <2>1. Elements(<<>>) = {} /\ DOMAIN <<>> = {} /\ Len(<<>>) = 0
    BY EmptyFacts, Zenon
  <2>2. /\ stream'[r] = <<>> /\ wire'[r] = <<>> /\ out'[r] = <<>> /\ have'[r] = {}
        /\ ~ unacked'[r]
    BY <1>1, <1>17, Zenon
  <2>3. Elements(stream[r])' = {} /\ Elements(wire[r])' = {} /\ Elements(out[r])' = {}
    BY <2>1, <2>2, Zenon DEF Elements
  <2>4. CurrentInv(r)'
    BY <2>2, <2>3, Zenon DEF CurrentInv
  <2>5. ChainInv(r)'
    BY <2>1, <2>2, Zenon DEF ChainInv, Chain
  <2>6. Len(stream'[r]) = 0 /\ Len(wire'[r]) = 0 /\ Len(out'[r]) = 0
    BY <2>1, <2>2, Zenon
  <2>7. Handed(r)' = SentTo(r)' - Len(stream'[r]) + 0
    BY <2>2, Zenon DEF Handed
  <2>8. Received(r)' = Handed(r)' - Len(wire'[r]) - Len(out'[r])
    BY Zenon DEF Received
  <2>9. SentTo(r)' = 0 => Received(r)' = 0
    BY <2>6, <2>7, <2>8
  <2>10. QED
    BY <2>4, <2>5, <2>9, Zenon
<1>18. CASE attempt[q] = attempt[p]
  <2>1. Link(q) \in {"none", "closed"}
    BY <1>6, <1>18, Zenon DEF Link
  <2>2. attempt[q] <= attempt[p] /\ attempt[p] <= attempt[q]
    BY <1>3, <1>18
  <2>3. stream[p] = <<>> /\ wire[p] = <<>> /\ out[p] = <<>> /\ have[p] = {} /\ ~ unacked[p]
    BY <1>2, <1>7, <2>2, LeftEmpty, Zenon
  <2>4. stream[q] = <<>> /\ wire[q] = <<>> /\ out[q] = <<>> /\ have[q] = {} /\ ~ unacked[q]
    BY <1>2, <2>1, <2>2, LeftEmpty, Zenon
  <2>5. SentTo(p)' = 0
    <3>1. attempt'[q] < attempt'[p]
      BY <1>3, <1>5, <1>18
    <3>2. QED
      BY <3>1, Zenon DEF SentTo
  <2>6. CurrentInv(p)' /\ ChainInv(p)' /\ Received(p)' = 0
    BY <1>17, <2>3, <2>5, Zenon
  <2>7. CurrentInv(q)' /\ ChainInv(q)' /\ Received(q)' = 0
    BY <1>2, <1>12, <1>17, <2>4, Zenon
  <2>8. CountInv(p)'
    <3>1. Receives(protocol, p, pos'[p]) <= Received(p)' /\ Receives(protocol, p, pos'[p]) = Received(p)'
      BY <1>13, <2>6
    <3>2. QED
      BY <1>1, <1>10, <2>6, <3>1, Zenon DEF CountInv
  <2>9. CountInv(q)'
    <3>1. ~ Here(q)'
      BY <1>11, <2>1, Zenon DEF Here
    <3>2. ~ (attempt'[p] <= attempt'[q])
      BY <1>3, <1>5, <1>18
    <3>3. QED
      BY <1>2, <2>7, <3>1, <3>2, Zenon DEF CountInv
  <2>10. QED
    BY <1>14, <1>15, <1>16, <2>6, <2>7, <2>8, <2>9, PartyFacts, Zenon DEF Calm
<1>19. CASE attempt[q] = attempt[p] + 1
  <2>1. /\ ~ (attempt[q] < attempt[p]) /\ ~ (attempt'[q] < attempt'[p])
        /\ attempt[p] < attempt[q] /\ attempt'[p] = attempt[q] /\ attempt'[p] <= attempt'[q]
        /\ ~ (attempt[q] <= attempt[p]) /\ attempt[p] <= attempt[q]
        /\ attempt[q] # 0 /\ ~ (attempt'[q] < attempt'[p]) /\ ~ (attempt'[p] < attempt'[q])
    BY <1>3, <1>5, <1>19
  <2>2. SentTo(p)' = SentTo(p)
    BY <1>1, <1>5, <2>1, Zenon DEF SentTo
  <2>3. SentTo(q)' = SentTo(q)
    <3>1. SentTo(q) = 0
      BY <1>2, <2>1, Zenon DEF SentTo
    <3>2. QED
      BY <1>12, <3>1, Zenon
  <2>4. /\ Handed(p)' = Handed(p) /\ Received(p)' = Received(p)
        /\ Handed(q)' = Handed(q) /\ Received(q)' = Received(q)
    BY <1>1, <1>2, <2>2, <2>3, NumberFrame, Zenon
  <2>5. ChainInv(p)' /\ ChainInv(q)'
    BY <1>1, <1>2, <2>2, <2>3, <2>4, Zenon DEF Calm, ChainInv, Chain
  <2>6. CurrentInv(p)'
    <3>1. \A x : Current(p, x) => Current(p, x)'
      BY <1>5, <2>1, Zenon DEF Current
    <3>2. /\ Elements(stream[p])' = Elements(stream[p]) /\ Elements(wire[p])' = Elements(wire[p])
          /\ Elements(out[p])' = Elements(out[p])
      BY <1>1, Zenon DEF Elements
    <3>3. QED
      BY <1>1, <1>2, <2>4, <3>1, <3>2, Zenon DEF Calm, CurrentInv
  <2>7. CurrentInv(q)'
    <3>1. \A x : ~ Current(q, x)
      BY <1>2, <2>1, Zenon DEF Current
    <3>2. /\ Elements(stream[q])' = Elements(stream[q]) /\ Elements(wire[q])' = Elements(wire[q])
          /\ Elements(out[q])' = Elements(out[q])
      BY <1>1, Zenon DEF Elements
    <3>3. have[q] = {} /\ \A x \in have[q] \cup Elements(stream[q]) \cup Elements(wire[q]) \cup Elements(out[q]) : FALSE
      BY <1>2, <3>1, Zenon DEF Calm, CurrentInv
    <3>4. QED
      BY <1>1, <3>2, <3>3, Zenon DEF CurrentInv
  <2>8. CountInv(p)'
    <3>1. Received(p)' = 0
      BY <1>2, <2>1, <2>4, Zenon DEF Calm, CountInv
    <3>2. Receives(protocol, p, pos'[p]) <= Received(p)' /\ Receives(protocol, p, pos'[p]) = Received(p)'
      BY <1>13, <3>1
    <3>3. QED
      BY <1>1, <1>10, <3>1, <3>2, Zenon DEF CountInv
  <2>9. CountInv(q)'
    <3>1. /\ Here(q) => /\ Receives(protocol, q, pos[q]) <= Received(q)
                        /\ protocol # "rounds" => Receives(protocol, q, pos[q]) = Received(q)
          /\ attempt[q] > 0 /\ ~ Here(q) =>
               SentTo(q) = Total(protocol, p) /\ Received(q) = Total(protocol, p)
      BY <1>2, <2>1, Zenon DEF Calm, CountInv
    <3>2. QED
      BY <1>1, <1>2, <1>5, <1>11, <2>1, <2>3, <2>4, <3>1, Zenon DEF CountInv
  <2>10. QED
    BY <1>14, <1>15, <1>16, <2>5, <2>6, <2>7, <2>8, <2>9, PartyFacts, ZenonT(30) DEF Calm
<1>20. QED
  BY <1>8, <1>18, <1>19, Zenon

LEMMA NextCalm ==
  ASSUME BaseInv, CalmInv, [Next]_vars
  PROVE  CalmInv'
<1>1. SUFFICES ASSUME ~ disturbed' PROVE \A r \in Parties : Calm(r)'
  BY Zenon DEF CalmInv
<1>2. ASSUME NEW p \in Parties,
             \/ SendFails(p) \/ Redeliver(p) \/ Expire(p) \/ ClientRestart(p) \/ RelayRestart
      PROVE  FALSE
  BY <1>1, <1>2, FaultsGrow, Zenon DEF BaseInv
<1>3. Sender \in Parties
  BY Zenon DEF Parties
<1>4. ASSUME disturbed' = disturbed \/ (disturbed => disturbed')
      PROVE  \A r \in Parties : Calm(r)
  BY <1>1, <1>4, Zenon DEF CalmInv
<1>5. CASE UNCHANGED vars
  <2>1. /\ protocol' = protocol /\ UNCHANGED party /\ link' = link /\ sent' = sent
        /\ taken' = taken /\ stream' = stream /\ wire' = wire /\ out' = out
        /\ unacked' = unacked /\ disturbed' = disturbed
        /\ attempt' = attempt /\ status' = status /\ pos' = pos /\ have' = have
    BY <1>5, Zenon DEF vars, party
  <2>2. ASSUME NEW r \in Parties PROVE Calm(r)'
    <3>1. Calm(r) /\ Other(r) \in Parties
      BY <1>4, <2>1, PartyFacts, Zenon
    <3>2. /\ SentTo(r)' = SentTo(r) /\ Link(Other(r))' = Link(Other(r))
          /\ taken \subseteq taken' /\ \A m \in sent' : m.from = Other(r) => m \in sent
      BY <2>1, <3>1, SentToFrame, HereFrame, Zenon
    <3>3. QED
      BY <2>1, <3>1, <3>2, CalmFrame, Zenon
  <2>3. QED
    BY <2>2, Zenon
<1>6. ASSUME NEW p \in Parties, Progress(p) PROVE \A r \in Parties : Calm(r)'
  <2>1. CASE Send(p)
    <3>1. disturbed' = disturbed
      BY <2>1, Zenon DEF Send
    <3>2. QED
      BY <1>4, <2>1, <3>1, SendCalm, Zenon
  <2>2. CASE receiving(p)
    <3>1. disturbed' = disturbed
      BY <2>2, Zenon DEF receiving, history
    <3>2. QED
      BY <1>4, <2>2, <3>1, ReceivingCalm, Zenon
  <2>3. CASE HandlerLoop(p) \/ AcceptIncomplete(p) \/ FrostReceive(p)
    <3>1. TakeMessage(p)
      BY <2>3, PartySteps, Zenon
    <3>2. disturbed' = disturbed
      BY <3>1, Zenon DEF TakeMessage
    <3>3. QED
      BY <1>4, <2>3, <3>2, PartyCalm, Zenon
  <2>4. CASE Finalize(p)
    <3>1. disturbed' = disturbed
      BY <2>4, Zenon DEF Finalize, history
    <3>2. QED
      BY <1>4, <2>4, <3>1, FinalizeCalm, Zenon
  <2>5. CASE Done(p)
    <3>1. disturbed' = disturbed
      BY <2>5, Zenon DEF Done, history
    <3>2. QED
      BY <1>4, <2>5, <3>1, DoneCalm, Zenon
  <2>6. QED
    BY <1>6, <2>1, <2>2, <2>3, <2>4, <2>5, Zenon DEF Progress
<1>7. ASSUME NEW p \in Parties, Serve(p) PROVE \A r \in Parties : Calm(r)'
  <2>1. CASE Deliver(p)
    <3>1. disturbed' = disturbed
      BY <2>1, Zenon DEF Deliver
    <3>2. QED
      BY <1>4, <2>1, <3>1, DeliverCalm, Zenon
  <2>2. CASE Ack(p)
    <3>1. disturbed' = disturbed
      BY <2>2, Zenon DEF Ack, history
    <3>2. QED
      BY <1>4, <2>2, <3>1, AckCalm, Zenon
  <2>3. ASSUME NEW a \in Attempts, Subscribe(p, a) PROVE \A r \in Parties : Calm(r)'
    <3>1. disturbed' = disturbed
      BY <2>3, Zenon DEF Subscribe, history
    <3>2. QED
      BY <1>4, <2>3, <3>1, SubscribeCalm, Zenon
  <2>4. ASSUME NEW a \in Attempts, Unsubscribe(p, a) PROVE \A r \in Parties : Calm(r)'
    <3>1. disturbed => disturbed'
      BY <2>4, Zenon DEF Unsubscribe
    <3>2. QED
      BY <1>1, <1>4, <2>4, <3>1, UnsubscribeCalm, Zenon
  <2>5. QED
    BY <1>7, <2>1, <2>2, <2>3, <2>4, ZenonT(30) DEF Serve
<1>8. ASSUME NEW p \in Parties, NewClient(p) PROVE \A r \in Parties : Calm(r)'
  <2>1. disturbed => disturbed'
    BY <1>8, Zenon DEF NewClient
  <2>2. QED
    BY <1>1, <1>4, <1>8, <2>1, NewClientCalm, Zenon
<1>9. ASSUME NEW p \in Parties, Timeout(p) PROVE FALSE
  BY <1>1, <1>9, Zenon DEF Timeout
<1>10. QED
  BY <1>2, <1>3, <1>5, <1>6, <1>7, <1>8, <1>9, Zenon DEF Next

(* The invariant behind MessagesNotLost. *)
LEMMA CalmInvariance == Spec => []CalmInv
<1>1. Init => CalmInv
  BY InitCalm, Zenon
<1>2. BaseInv /\ CalmInv /\ [Next]_vars => CalmInv'
  BY NextCalm, Zenon
<1>3. QED
  BY <1>1, <1>2, StreamInvariance, PTL DEF Spec

LEMMA WellFormed ==
  ASSUME BaseInv
  PROVE  TypeOK
<1>1. Types /\ SentInv
  BY Zenon DEF BaseInv
<1>2. pos \in [Parties -> 0 .. 2 * Rounds + 3]
  <2>1. ASSUME NEW p \in Parties PROVE pos[p] \in 0 .. 2 * Rounds + 3
    <3>1. pos[p] <= Size(protocol, p)
      BY Zenon DEF BaseInv, ScriptInv
    <3>2. Size(protocol, p) \in 1 .. 2 * Rounds + 2
      BY <1>1, CountFacts, Zenon
    <3>3. QED
      BY <1>1, <3>1, <3>2, RelayAssumption, SMTT(30) DEF Types
  <2>2. QED
    BY <1>1, <2>1, Zenon DEF Types
<1>3. ASSUME NEW p \in Parties
      PROVE  /\ have[p] \subseteq {m \in Messages : m.from = Other(p)}
             /\ \A s \in {stream[p], wire[p], out[p]} : \A i \in DOMAIN s :
                   s[i] \in {m \in Messages : m.from = Other(p)}
             /\ Len(out[p]) <= OutSize
             /\ unacked[p] => stream[p] # <<>> /\ consumer[p] # 0
  <2>1. QueueInv(p)
    BY Zenon DEF BaseInv
  <2>2. /\ stream[p] \in Seq(To(p)) /\ wire[p] \in Seq(To(p)) /\ out[p] \in Seq(To(p))
        /\ have[p] \subseteq To(p) /\ Len(out[p]) <= OutSize
        /\ unacked[p] => stream[p] # <<>> /\ consumer[p] # 0
    BY <2>1, Zenon DEF QueueInv
  <2>3. ASSUME NEW s \in {stream[p], wire[p], out[p]}, NEW i \in DOMAIN s PROVE s[i] \in To(p)
    <3>1. s \in Seq(To(p))
      BY <2>2, <2>3, Zenon
    <3>2. QED
      BY <2>3, <3>1
  <2>4. QED
    BY <2>2, <2>3, Zenon DEF To
<1>4. QED
  BY <1>1, <1>2, <1>3, Zenon DEF TypeOK, Types, SentInv

(* The state of the relay and its clients is well formed, and messages are *)
(* not lost: while attempts do not overlap and nothing times out, fails or *)
(* is acknowledged late every message that was sent is taken or can still  *)
(* reach its receiver, and while nothing fails only one that was handed to *)
(* a client is lost (Send before Subscribe, stream.Send before m.Ack,      *)
(* Done).                                                                  *)
THEOREM MessagesNotLost == Spec => []NothingLost
<1>1. ASSUME BaseInv, StreamInv, CalmInv PROVE NothingLost
  <2>1. ASSUME NEW p \in Parties PROVE Elements(stream[p]) \subseteq Waiting
    BY <2>1, Zenon DEF Waiting
  <2>2. ASSUME NEW r \in Parties, Running(r)
        PROVE  Elements(wire[r]) \cup Elements(out[r]) \subseteq Waiting
    <3>1. r \in {q \in Parties : Running(q)}
      BY <2>2, Zenon
    <3>2. QED
      BY <3>1, Zenon DEF Waiting
  <2>3. ASSUME NEW m \in sent PROVE m \in Messages /\ m.from \in Parties
                /\ Other(m.from) \in Parties /\ Other(Other(m.from)) = m.from
    <3>1. m \in Messages
      BY <1>1, <2>3, Zenon DEF BaseInv, SentInv
    <3>2. m.from \in Parties
      BY <3>1, MessageFacts, Zenon
    <3>3. QED
      BY <3>1, <3>2, PartyFacts, Zenon
  <2>4. ASSUME ~ disturbed, NEW m \in sent, m \notin taken PROVE m \in Waiting
    <3> DEFINE p == Other(m.from)
    <3>1. p \in Parties /\ Other(p) = m.from
      BY <2>3, <2>4, Zenon
    <3>2. Calm(p) /\ LinkInv(p)
      BY <1>1, <2>4, <3>1, Zenon DEF CalmInv, BaseInv
    <3>3. m \in Elements(stream[p]) \cup Elements(wire[p]) \cup Elements(out[p])
      BY <2>4, <3>1, <3>2, Zenon DEF Calm, FoundInv
    <3>4. CASE Running(p)
      BY <2>1, <2>2, <3>1, <3>3, <3>4, Zenon
    <3>5. CASE ~ Running(p)
      <4>1. out[p] = <<>> /\ wire[p] = <<>>
        <5>1. CASE Here(p)
          <6>1. status[p] = "done"
            <7>1. status[p] \in {"idle", "running", "done"} /\ (status[p] = "idle" => attempt[p] = 0)
              BY <1>1, <3>1, <3>2, Zenon DEF BaseInv, Calm, TurnInv, ScriptInv
            <7>2. attempt[p] # 0
              BY <5>1, Zenon DEF Here, Link
            <7>3. QED
              BY <3>5, <7>1, <7>2, Zenon DEF Running
          <6>2. CountInv(p)
            BY <3>2, Zenon DEF Calm
          <6>3. QED
            BY <1>1, <3>1, <5>1, <6>1, <6>2, DoneEmpty, Zenon
        <5>2. CASE ~ Here(p)
          BY <3>2, <5>2, Zenon DEF LinkInv
        <5>3. QED
          BY <5>1, <5>2, Zenon
      <4>2. Elements(<<>>) = {}
        BY EmptyFacts, Zenon
      <4>3. QED
        BY <2>1, <3>1, <3>3, <4>1, <4>2, Zenon
    <3>6. QED
      BY <3>4, <3>5, Zenon
  <2>5. ASSUME faults = 0, NEW m \in sent, m \notin Waiting PROVE m \in handed
    <3> DEFINE p == Other(m.from)
    <3>1. p \in Parties /\ Other(p) = m.from
      BY <2>3, <2>5, Zenon
    <3>2. KeptInv(p)
      BY <1>1, <2>5, <3>1, Zenon DEF StreamInv
    <3>3. QED
      BY <2>1, <2>5, <3>1, <3>2, Zenon DEF KeptInv
  <2>6. TypeOK
    BY <1>1, WellFormed, Zenon
  <2>7. QED
    BY <2>4, <2>5, <2>6, Zenon DEF NothingLost
<1>2. QED
  BY <1>1, StreamInvariance, CalmInvariance, PTL

=============================================================================
