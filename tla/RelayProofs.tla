---------------------------- MODULE RelayProofs ----------------------------
(***************************************************************************)
(* Proofs about the relay, for every protocol, any number of rounds, of    *)
(* attempts and of failures and every size of the buffer.                  *)
(*                                                                         *)
(* The argument: a subject has the consumer of one attempt, and a party    *)
(* that left has an empty stream and buffer (LinkInv); what is under way   *)
(* was sent to that party, and what was sent down a stream was handed over *)
(* (QueueInv); a party that runs has sent nothing beyond its place in the  *)
(* script (SentInv), so what it sends is newer than all before.  While     *)
(* nothing fails queue, stream and buffer are therefore sorted, each       *)
(* before the next (OrderInv), and a message leaves the queue only after   *)
(* it was handed over (KeptInv).                                           *)
(***************************************************************************)
EXTENDS Relay, TLAPS

(* The length of p's script in protocol pr, and how many of its first i    *)
(* entries are sends and receives.                                         *)
Size(pr, p) == CASE pr = "rounds" -> 2 * Rounds [] pr = "ecdsa" -> 1 [] pr = "frost" -> 3

Sends(pr, p, i) ==
  CASE pr = "rounds" -> (i + 1) \div 2
    [] pr = "ecdsa" -> IF p = Sender THEN i ELSE 0
    [] pr = "frost" -> IF p = Sender THEN (i + 1) \div 2 ELSE IF i = 0 THEN 0 ELSE 1

Receives(pr, p, i) == i - Sends(pr, p, i)

Total(pr, p) == Sends(pr, p, Size(pr, p))

(* The latest attempt of p has not left, or there is none. *)
Here(p) == Link(p) \in {"dialing", "open", "dead"}

To(p) == {m \in Messages : m.from = Other(p)}

Types ==
  /\ protocol \in Protocols
  /\ attempt \in [Parties -> 0 .. MaxAttempts]
  /\ status \in [Parties -> {"idle", "running", "stuck", "done", "failed", "timeout"}]
  /\ pos \in [Parties -> Nat]
  /\ have \in [Parties -> SUBSET Messages]
  /\ stream \in [Parties -> Seq(Messages)]
  /\ wire \in [Parties -> Seq(Messages)]
  /\ out \in [Parties -> Seq(Messages)]
  /\ consumer \in [Parties -> 0 .. MaxAttempts]
  /\ unacked \in [Parties -> BOOLEAN]
  /\ link \in [Parties -> [Attempts ->
        {"none", "dialing", "open", "dead", "cancelled", "closed"}]]
  /\ faults \in 0 .. MaxFaults
  /\ disturbed \in BOOLEAN

(* The streams of a party's attempts, and how it stands in the latest one. *)
LinkInv(p) ==
  /\ \A a \in Attempts :
       /\ a > attempt[p] => link[p][a] = "none"
       /\ a < attempt[p] => link[p][a] \in {"cancelled", "closed"}
       /\ a = attempt[p] => link[p][a] # "none"
       /\ link[p][a] \in {"open", "cancelled"} <=> consumer[p] = a
  /\ ~ Here(p) => /\ pos[p] = 0 /\ have[p] = {} /\ ~ Running(p)
                  /\ out[p] = <<>> /\ wire[p] = <<>>
  /\ faults = 0 /\ Link(p) # "open" => out[p] = <<>> /\ wire[p] = <<>>

(* How far its script is. *)
ScriptInv(p) ==
  /\ Running(p) => pos[p] < Size(protocol, p)
  /\ status[p] = "done" /\ Here(p) => pos[p] = Size(protocol, p)
  /\ status[p] = "idle" => attempt[p] = 0
  /\ pos[p] <= Size(protocol, p)

(* Messages under way were sent, and handed over. *)
QueueInv(p) ==
  /\ stream[p] \in Seq(To(p)) /\ wire[p] \in Seq(To(p)) /\ out[p] \in Seq(To(p))
  /\ have[p] \subseteq To(p)
  /\ Len(out[p]) <= OutSize
  /\ unacked[p] => stream[p] # <<>> /\ consumer[p] # 0 /\ stream[p][1] \in handed
  /\ Elements(stream[p]) \subseteq sent
  /\ Elements(wire[p]) \subseteq handed
  /\ Elements(out[p]) \subseteq handed

SentInv ==
  /\ taken \subseteq handed /\ handed \subseteq sent /\ sent \subseteq Messages
  /\ \A m \in sent :
       /\ m.attempt <= attempt[m.from]
       /\ Running(m.from) /\ m.attempt = attempt[m.from] =>
            m.n <= Sends(protocol, m.from, pos[m.from])
  /\ disturbed \/ faults = 0

BaseInv ==
  /\ Types
  /\ SentInv
  /\ \A p \in Parties : LinkInv(p) /\ ScriptInv(p) /\ QueueInv(p)

(* No message of S is newer than one of T. *)
Before(S, T) == \A x \in S, y \in T : ~ Newer(x, y)

Sorted(s) == \A i, j \in DOMAIN s : i < j => ~ Newer(s[i], s[j])

TakenBy(p) == {m \in taken : m.from = Other(p)}

(* Messages are taken, wait in the buffer, are under way and are queued in *)
(* the order in which they were sent.                                      *)
OrderInv(p) ==
  /\ Sorted(out[p]) /\ Sorted(wire[p]) /\ Sorted(stream[p])
  /\ Before(Elements(out[p]), Elements(wire[p]) \cup Elements(stream[p]))
  /\ Before(Elements(wire[p]), Elements(stream[p]))
  /\ Before(TakenBy(p), Elements(out[p]) \cup Elements(wire[p]) \cup Elements(stream[p]))

(* Messages for p that were not handed over are queued. *)
KeptInv(p) ==
  \A m \in sent : m.from = Other(p) => m \in handed \/ m \in Elements(stream[p])

StreamInv == faults = 0 => \A p \in Parties : OrderInv(p) /\ KeptInv(p)

LEMMA PartyFacts ==
  ASSUME NEW p \in Parties
  PROVE  /\ Other(p) \in Parties /\ Other(p) # p /\ Other(Other(p)) = p
         /\ \A r \in Parties : r = p \/ r = Other(p)
BY RelayAssumption DEF Parties, Other

LEMMA ProtocolFacts ==
  ASSUME Types
  PROVE  protocol \in {"rounds", "ecdsa", "frost"} /\ Rounds \in Nat /\ Rounds > 0
BY RelayAssumption DEF Types

(* What the entries of a script are, by how many came before. *)
LEMMA ScriptFacts ==
  ASSUME Types, NEW p \in Parties
  PROVE  /\ Len(Script(p)) = Size(protocol, p)
         /\ \A i \in 0 .. Size(protocol, p) - 1 :
              \/ /\ Script(p)[i + 1] = Step("send", Sends(protocol, p, i) + 1)
                 /\ Sends(protocol, p, i + 1) = Sends(protocol, p, i) + 1
              \/ /\ Script(p)[i + 1] = Step("recv", Receives(protocol, p, i) + 1)
                 /\ Sends(protocol, p, i + 1) = Sends(protocol, p, i)
<1> USE ProtocolFacts
<1>1. CASE protocol = "rounds"
  <2>1. Script(p) = [i \in 1 .. 2 * Rounds |->
            IF i % 2 = 1 THEN Step("send", (i + 1) \div 2) ELSE Step("recv", i \div 2)]
    BY <1>1, Zenon DEF Script
  <2>2. Size(protocol, p) = 2 * Rounds
    BY <1>1, Zenon DEF Size
  <2>3. Len(Script(p)) = 2 * Rounds
    BY <2>1
  <2>4. ASSUME NEW i \in 0 .. 2 * Rounds - 1
        PROVE  \/ /\ Script(p)[i + 1] = Step("send", Sends(protocol, p, i) + 1)
                  /\ Sends(protocol, p, i + 1) = Sends(protocol, p, i) + 1
               \/ /\ Script(p)[i + 1] = Step("recv", Receives(protocol, p, i) + 1)
                  /\ Sends(protocol, p, i + 1) = Sends(protocol, p, i)
    <3>1. Sends(protocol, p, i) = (i + 1) \div 2 /\ Sends(protocol, p, i + 1) = (i + 2) \div 2
      BY <1>1 DEF Sends
    <3>2. i + 1 \in 1 .. 2 * Rounds
      OBVIOUS
    <3>3. CASE (i + 1) % 2 = 1
      <4>1. (i + 2) \div 2 = (i + 1) \div 2 + 1
        BY <3>3
      <4>2. QED
        BY <2>1, <3>1, <3>2, <3>3, <4>1
    <3>4. CASE (i + 1) % 2 = 0
      <4>1. (i + 2) \div 2 = (i + 1) \div 2 /\ (i + 1) \div 2 = i - (i + 1) \div 2 + 1
        BY <3>4
      <4>2. QED
        BY <2>1, <3>1, <3>2, <3>4, <4>1 DEF Receives
    <3>5. QED
      BY <3>3, <3>4
  <2>5. QED
    BY <2>2, <2>3, <2>4, Zenon
<1>2. CASE protocol = "ecdsa"
  <2>1. Size(protocol, p) = 1
    BY <1>2, Zenon DEF Size
  <2>2. CASE p = Sender
    <3>1. Script(p) = <<Step("send", 1)>>
      BY <1>2, <2>2, RelayAssumption, Zenon DEF Script
    <3>2. Sends(protocol, p, 0) = 0 /\ Sends(protocol, p, 1) = 1
      BY <1>2, <2>2, Zenon DEF Sends
    <3>3. QED
      BY <2>1, <3>1, <3>2
  <2>3. CASE p = Acceptor
    BY <1>2, <2>1, <2>3, RelayAssumption DEF Script, Sends, Receives
  <2>4. QED
    BY <2>2, <2>3, Zenon DEF Parties
<1>3. CASE protocol = "frost"
  <2>1. Size(protocol, p) = 3 /\ 0 .. 3 - 1 = {0, 1, 2}
    BY <1>3 DEF Size
  <2>2. CASE p = Sender
    <3>1. Script(p) = <<Step("send", 1), Step("recv", 1), Step("send", 2)>>
      BY <1>3, <2>2, RelayAssumption, Zenon DEF Script
    <3>2. \A i \in {0, 1, 2, 3} : Sends(protocol, p, i) = (i + 1) \div 2
      BY <1>3, <2>2, Zenon DEF Sends
    <3>3. QED
      BY <2>1, <3>1, <3>2 DEF Receives
  <2>3. CASE p = Acceptor
    <3>1. Script(p) = <<Step("send", 1), Step("recv", 1), Step("recv", 2)>>
      BY <1>3, <2>3, RelayAssumption, Zenon DEF Script
    <3>2. /\ Sends(protocol, p, 0) = 0 /\ Sends(protocol, p, 1) = 1
          /\ Sends(protocol, p, 2) = 1 /\ Sends(protocol, p, 3) = 1
      BY <1>3, <2>3, RelayAssumption DEF Sends
    <3>3. QED
      BY <2>1, <3>1, <3>2 DEF Receives
  <2>4. QED
    BY <2>2, <2>3, Zenon DEF Parties
<1>4. QED
  BY <1>1, <1>2, <1>3, Zenon

(* The sends and receives of the two scripts agree. *)
LEMMA CountFacts ==
  ASSUME Types, NEW p \in Parties
  PROVE  /\ Size(protocol, p) \in 1 .. 2 * Rounds + 2
         /\ \A i \in 0 .. Size(protocol, p) :
              /\ Sends(protocol, p, i) \in 0 .. Total(protocol, p)
              /\ Receives(protocol, p, i) \in Nat
         /\ Sends(protocol, p, 0) = 0
         /\ Total(protocol, p) \in 0 .. Rounds + 1
         /\ Receives(protocol, p, Size(protocol, p)) = Total(protocol, Other(p))
<1> USE ProtocolFacts
<1>1. CASE protocol = "rounds"
  BY <1>1 DEF Size, Sends, Total, Receives
<1>2. CASE protocol = "ecdsa"
  BY <1>2, RelayAssumption DEF Size, Sends, Total, Receives, Parties, Other
<1>3. CASE protocol = "frost"
  BY <1>3, RelayAssumption DEF Size, Sends, Total, Receives, Parties, Other
<1>4. QED
  BY <1>1, <1>2, <1>3, Zenon

-----------------------------------------------------------------------------
(* Sequences of messages. *)

LEMMA AppendFacts ==
  ASSUME NEW S, NEW s \in Seq(S), NEW e \in S
  PROVE  /\ Append(s, e) \in Seq(S)
         /\ Len(s) \in Nat /\ Len(Append(s, e)) = Len(s) + 1
         /\ \A i \in DOMAIN Append(s, e) :
              \/ i \in DOMAIN s /\ i <= Len(s) /\ Append(s, e)[i] = s[i]
              \/ i = Len(s) + 1 /\ Append(s, e)[i] = e
         /\ Elements(Append(s, e)) = Elements(s) \cup {e}
<1>1. /\ Append(s, e) \in Seq(S)
      /\ Len(s) \in Nat /\ Len(Append(s, e)) = Len(s) + 1
      /\ DOMAIN s = 1 .. Len(s) /\ DOMAIN Append(s, e) = 1 .. Len(s) + 1
      /\ \A i \in 1 .. Len(s) : Append(s, e)[i] = s[i]
      /\ Append(s, e)[Len(s) + 1] = e
  OBVIOUS
<1>2. \A i \in DOMAIN Append(s, e) :
              \/ i \in DOMAIN s /\ i <= Len(s) /\ Append(s, e)[i] = s[i]
              \/ i = Len(s) + 1 /\ Append(s, e)[i] = e
  BY <1>1
<1>3. Len(s) + 1 \in DOMAIN Append(s, e) /\ \A i \in DOMAIN s : i \in DOMAIN Append(s, e)
  BY <1>1
<1>4. \A i \in DOMAIN s : Append(s, e)[i] = s[i]
  BY <1>1, Zenon
<1>5. ASSUME NEW m \in Elements(Append(s, e)) PROVE m \in Elements(s) \cup {e}
  BY <1>2, <1>5, Zenon DEF Elements
<1>6. ASSUME NEW m \in Elements(s) PROVE m \in Elements(Append(s, e))
  BY <1>3, <1>4, <1>6, Zenon DEF Elements
<1>7. e \in Elements(Append(s, e))
  BY <1>1, <1>3, Zenon DEF Elements
<1>8. QED
  BY <1>1, <1>2, <1>5, <1>6, <1>7, Zenon

LEMMA ElementsAppend ==
  ASSUME NEW S, NEW s \in Seq(S), NEW e \in S
  PROVE  Elements(Append(s, e)) = Elements(s) \cup {e}
BY AppendFacts, SMTT(30)

LEMMA TailFacts ==
  ASSUME NEW S, NEW s \in Seq(S), s # <<>>
  PROVE  /\ Tail(s) \in Seq(S) /\ Head(s) \in S /\ Head(s) = s[1] /\ 1 \in DOMAIN s
         /\ Len(s) \in Nat /\ Len(s) > 0 /\ Len(Tail(s)) = Len(s) - 1
         /\ \A i \in DOMAIN Tail(s) :
              i \in Nat /\ i > 0 /\ i + 1 \in DOMAIN s /\ Tail(s)[i] = s[i + 1]
         /\ Elements(s) = {Head(s)} \cup Elements(Tail(s))
<1>1. /\ Tail(s) \in Seq(S) /\ Head(s) \in S /\ Head(s) = s[1] /\ 1 \in DOMAIN s
      /\ Len(s) \in Nat /\ Len(s) > 0 /\ Len(Tail(s)) = Len(s) - 1
      /\ DOMAIN s = 1 .. Len(s) /\ DOMAIN Tail(s) = 1 .. Len(s) - 1
      /\ \A i \in 1 .. Len(s) - 1 : Tail(s)[i] = s[i + 1]
  OBVIOUS
<1>2. \A i \in DOMAIN Tail(s) :
        i \in Nat /\ i > 0 /\ i + 1 \in DOMAIN s /\ Tail(s)[i] = s[i + 1]
  BY <1>1
<1>3. ASSUME NEW i \in DOMAIN s
      PROVE  i = 1 \/ \E j \in DOMAIN Tail(s) : Tail(s)[j] = s[i]
  <2>1. i = 1 \/ (i - 1 \in DOMAIN Tail(s) /\ Tail(s)[i - 1] = s[i])
    BY <1>1
  <2>2. QED
    BY <2>1, Zenon
<1>4. ASSUME NEW m \in Elements(s) PROVE m \in {Head(s)} \cup Elements(Tail(s))
  <2>1. PICK i \in DOMAIN s : m = s[i]
    BY <1>4, Zenon DEF Elements
  <2>2. CASE i = 1
    BY <1>1, <2>1, <2>2, Zenon
  <2>3. CASE \E j \in DOMAIN Tail(s) : Tail(s)[j] = s[i]
    BY <2>1, <2>3, Zenon DEF Elements
  <2>4. QED
    BY <1>3, <2>2, <2>3, Zenon
<1>5. ASSUME NEW m \in Elements(Tail(s)) PROVE m \in Elements(s)
  BY <1>2, <1>5, Zenon DEF Elements
<1>6. Head(s) \in Elements(s)
  BY <1>1, Zenon DEF Elements
<1>7. QED
  BY <1>1, <1>2, <1>4, <1>5, <1>6, Zenon

LEMMA EmptyFacts ==
  ASSUME NEW S
  PROVE  /\ <<>> \in Seq(S) /\ Len(<<>>) = 0 /\ DOMAIN <<>> = {} /\ Elements(<<>>) = {}
         /\ \A s \in Seq(S) : Len(s) \in Nat /\ (Len(s) = 0 => s = <<>>) /\ DOMAIN s = 1 .. Len(s)
<1>1. /\ <<>> \in Seq(S) /\ Len(<<>>) = 0 /\ DOMAIN <<>> = {}
      /\ \A s \in Seq(S) : Len(s) \in Nat /\ (Len(s) = 0 => s = <<>>) /\ DOMAIN s = 1 .. Len(s)
  OBVIOUS
<1>2. Elements(<<>>) = {}
  BY <1>1, Zenon DEF Elements
<1>3. QED
  BY <1>1, <1>2, Zenon

-----------------------------------------------------------------------------
(* What a step leaves alone keeps its invariant. *)

LEMMA LinkFrame ==
  ASSUME NEW p \in Parties, LinkInv(p), attempt'[p] = attempt[p], status'[p] = status[p],
         pos'[p] = pos[p], have'[p] = have[p], out'[p] = out[p], wire'[p] = wire[p],
         link'[p] = link[p], consumer'[p] = consumer[p], faults' = faults \/ faults' # 0
  PROVE  LinkInv(p)'
<1>1. Link(p)' = Link(p) /\ (Here(p)' <=> Here(p)) /\ (Running(p)' <=> Running(p))
  BY Zenon DEF Link, Here, Running
<1>2. QED
  BY <1>1 DEF LinkInv

LEMMA ScriptFrame ==
  ASSUME NEW p \in Parties, ScriptInv(p), protocol' = protocol, attempt'[p] = attempt[p],
         status'[p] = status[p], pos'[p] = pos[p], link'[p] = link[p]
  PROVE  ScriptInv(p)'
<1>1. (Here(p)' <=> Here(p)) /\ (Running(p)' <=> Running(p))
  BY Zenon DEF Link, Here, Running
<1>2. QED
  BY <1>1, Zenon DEF ScriptInv

LEMMA QueueFrame ==
  ASSUME NEW p \in Parties, QueueInv(p), stream'[p] = stream[p], wire'[p] = wire[p],
         out'[p] = out[p], have'[p] = have[p], unacked'[p] = unacked[p],
         consumer'[p] = consumer[p], sent \subseteq sent', handed \subseteq handed'
  PROVE  QueueInv(p)'
BY Zenon DEF QueueInv, Elements

LEMMA MessageFacts ==
  ASSUME NEW m \in Messages
  PROVE  /\ m.from \in Parties /\ m.attempt \in Attempts /\ m.n \in 1 .. Rounds + 1
         /\ m.peer \in 0 .. MaxAttempts /\ m.attempt \in Nat /\ m.attempt > 0 /\ m.n \in Nat
BY RelayAssumption DEF Messages, Attempts

(* Attempts are numbered from 1. *)
LEMMA AttemptFacts ==
  ASSUME NEW a \in Attempts
  PROVE  a \in Nat /\ a # 0 /\ a > 0
BY DEF Attempts

(* An attempt counter is zero or numbers an attempt. *)
LEMMA AttemptRange ==
  ASSUME NEW n \in 0 .. MaxAttempts
  PROVE  n = 0 \/ n \in Attempts
BY RelayAssumption, SMTT(30) DEF Attempts

LEMMA ToFacts ==
  ASSUME NEW p \in Parties, NEW m
  PROVE  /\ m \in To(p) => m \in Messages /\ m.from = Other(p)
         /\ m \in Messages /\ m.from = Other(p) => m \in To(p)
BY Zenon DEF To

LEMMA SentFrame ==
  ASSUME Types, SentInv, \A r \in Parties : ScriptInv(r),
         protocol' = protocol, attempt' = attempt, sent \subseteq sent',
         handed' \subseteq sent', taken' \subseteq handed',
         \A m \in sent' : m \in sent \/
            /\ m \in Messages /\ m.attempt <= attempt[m.from]
            /\ Running(m.from)' => m.n <= Sends(protocol, m.from, pos'[m.from]),
         \A r \in Parties : Running(r)' =>
            Running(r) /\ Sends(protocol, r, pos'[r]) \in Int
                       /\ Sends(protocol, r, pos'[r]) >= Sends(protocol, r, pos[r]),
         disturbed' \/ faults' = 0
  PROVE  SentInv'
<1>1. ASSUME NEW m \in sent, Running(m.from)', m.attempt = attempt[m.from]
      PROVE  m.n <= Sends(protocol, m.from, pos'[m.from])
  <2>1. m \in Messages
    BY Zenon DEF SentInv
  <2>2. m.from \in Parties /\ m.n \in Nat
    BY <2>1, MessageFacts, Zenon
  <2>3. m.n <= Sends(protocol, m.from, pos[m.from])
    BY <1>1, <2>2, Zenon DEF SentInv
  <2>4. pos[m.from] \in 0 .. Size(protocol, m.from)
    BY <2>2, CountFacts, ProtocolFacts DEF ScriptInv, Types
  <2>5. Sends(protocol, m.from, pos[m.from]) \in Int
    BY <2>2, <2>4, CountFacts, ProtocolFacts
  <2>6. QED
    BY <1>1, <2>2, <2>3, <2>5
<1>2. ASSUME NEW m \in sent'
      PROVE  /\ m \in Messages /\ m.attempt <= attempt[m.from]
             /\ Running(m.from)' /\ m.attempt = attempt[m.from] =>
                  m.n <= Sends(protocol, m.from, pos'[m.from])
  BY <1>1, <1>2, Zenon DEF SentInv
<1>3. sent' \subseteq Messages
  BY <1>2, Zenon
<1>4. QED
  BY <1>2, <1>3, Zenon DEF SentInv

LEMMA NextFacts ==
  ASSUME Types, NEW p \in Parties, ScriptInv(p), Running(p)
  PROVE  /\ pos[p] \in 0 .. Size(protocol, p) - 1 /\ pos[p] + 1 \in 0 .. Size(protocol, p)
         /\ pos[p] \in 0 .. Size(protocol, p)
         /\ Len(Script(p)) = Size(protocol, p)
         /\ Sends(protocol, p, pos[p]) \in Nat /\ Receives(protocol, p, pos[p]) \in Nat
         /\ \/ /\ At(p) = Step("send", Sends(protocol, p, pos[p]) + 1)
               /\ Sends(protocol, p, pos[p] + 1) = Sends(protocol, p, pos[p]) + 1
            \/ /\ At(p) = Step("recv", Receives(protocol, p, pos[p]) + 1)
               /\ Sends(protocol, p, pos[p] + 1) = Sends(protocol, p, pos[p])
<1>1. Size(protocol, p) \in Nat /\ pos[p] \in Nat /\ pos[p] < Size(protocol, p)
  BY CountFacts, ProtocolFacts, SMTT(30) DEF ScriptInv, Types
<1>2. pos[p] \in 0 .. Size(protocol, p) - 1 /\ pos[p] + 1 \in 0 .. Size(protocol, p)
      /\ pos[p] \in 0 .. Size(protocol, p)
  BY <1>1
<1>3. Sends(protocol, p, pos[p]) \in Nat /\ Receives(protocol, p, pos[p]) \in Nat
  BY <1>2, CountFacts, ProtocolFacts
<1>4. QED
  BY <1>2, <1>3, ScriptFacts, Zenon DEF At

LEMMA SendFacts ==
  ASSUME Types, NEW p \in Parties, ScriptInv(p), NextIs(p, "send")
  PROVE  /\ Running(p) /\ Sends(protocol, p, pos[p]) \in Nat
         /\ At(p).n = Sends(protocol, p, pos[p]) + 1
         /\ Sends(protocol, p, pos[p] + 1) = Sends(protocol, p, pos[p]) + 1
         /\ Receives(protocol, p, pos[p] + 1) = Receives(protocol, p, pos[p])
         /\ At(p).n \in 1 .. Rounds + 1
<1>1. Running(p) /\ At(p).op = "send"
  BY Zenon DEF NextIs
<1>2. /\ At(p).n = Sends(protocol, p, pos[p]) + 1
      /\ Sends(protocol, p, pos[p] + 1) = Sends(protocol, p, pos[p]) + 1
  BY <1>1, NextFacts DEF Step
<1>3. /\ Sends(protocol, p, pos[p] + 1) <= Total(protocol, p)
      /\ Total(protocol, p) \in 0 .. Rounds + 1
      /\ Sends(protocol, p, pos[p]) \in Nat /\ pos[p] \in Nat
  BY <1>1, NextFacts, CountFacts, SMTT(30)
<1>4. QED
  BY <1>1, <1>2, <1>3, ProtocolFacts DEF Receives

LEMMA ReceiveFacts ==
  ASSUME Types, NEW p \in Parties, ScriptInv(p), NextIs(p, "recv")
  PROVE  /\ Running(p) /\ Receives(protocol, p, pos[p]) \in Nat
         /\ At(p).n = Receives(protocol, p, pos[p]) + 1
         /\ Sends(protocol, p, pos[p] + 1) = Sends(protocol, p, pos[p])
         /\ Receives(protocol, p, pos[p] + 1) = Receives(protocol, p, pos[p]) + 1
<1>1. Running(p) /\ At(p).op = "recv"
  BY Zenon DEF NextIs
<1>2. /\ At(p).n = Receives(protocol, p, pos[p]) + 1
      /\ Sends(protocol, p, pos[p] + 1) = Sends(protocol, p, pos[p])
  BY <1>1, NextFacts DEF Step
<1>3. Sends(protocol, p, pos[p]) \in Nat /\ pos[p] \in Nat
  BY <1>1, NextFacts
<1>4. QED
  BY <1>1, <1>2, <1>3, NextFacts DEF Receives

(* The script goes on. *)
LEMMA AdvanceFacts ==
  ASSUME Types, NEW p \in Parties, ScriptInv(p), Running(p), Advance(p)
  PROVE  /\ pos' \in [Parties -> Nat]
         /\ status' \in [Parties -> {"idle", "running", "stuck", "done", "failed", "timeout"}]
         /\ pos'[p] = pos[p] + 1
         /\ \A r \in Parties : r # p => pos'[r] = pos[r] /\ status'[r] = status[r]
         /\ pos[p] + 1 = Size(protocol, p) => status'[p] = "done"
         /\ pos[p] + 1 # Size(protocol, p) => status'[p] = "running"
<1>1. Len(Script(p)) = Size(protocol, p)
  BY NextFacts, Zenon
<1>2. QED
  BY <1>1 DEF Advance, Types, Running

LEMMA ScriptAdvance ==
  ASSUME Types, \A r \in Parties : ScriptInv(r), NEW p \in Parties, Running(p), Advance(p),
         protocol' = protocol, attempt' = attempt, link' = link
  PROVE  \A r \in Parties : ScriptInv(r)'
<1>1. ASSUME NEW r \in Parties, r # p PROVE ScriptInv(r)'
  BY <1>1, AdvanceFacts, ScriptFrame, Zenon
<1>2. ScriptInv(p)'
  <2>1. pos[p] + 1 <= Size(protocol, p) /\ Size(protocol, p) \in Nat /\ pos[p] \in Nat
    BY NextFacts, CountFacts, ProtocolFacts
  <2>2. pos'[p] = pos[p] + 1
        /\ (pos[p] + 1 = Size(protocol, p) => status'[p] = "done")
        /\ (pos[p] + 1 # Size(protocol, p) => status'[p] = "running")
    BY AdvanceFacts, Zenon
  <2>3. QED
    BY <2>1, <2>2 DEF ScriptInv, Running
<1>3. QED
  BY <1>1, <1>2, Zenon

(* Sends are never taken back. *)
LEMMA SendsAdvance ==
  ASSUME Types, \A r \in Parties : ScriptInv(r), NEW p \in Parties, Running(p), Advance(p)
  PROVE  \A r \in Parties : Running(r)' =>
            Running(r) /\ Sends(protocol, r, pos'[r]) \in Int
                       /\ Sends(protocol, r, pos'[r]) >= Sends(protocol, r, pos[r])
<1>1. ASSUME NEW r \in Parties, Running(r)', r # p
      PROVE Running(r) /\ Sends(protocol, r, pos'[r]) \in Int
                       /\ Sends(protocol, r, pos'[r]) >= Sends(protocol, r, pos[r])
  <2>1. pos'[r] = pos[r] /\ Running(r)
    BY <1>1, AdvanceFacts, Zenon DEF Running
  <2>2. Sends(protocol, r, pos[r]) \in Nat
    BY <2>1, NextFacts, Zenon
  <2>3. QED
    BY <2>1, <2>2
<1>2. Sends(protocol, p, pos'[p]) \in Int /\ Sends(protocol, p, pos'[p]) >= Sends(protocol, p, pos[p])
  <2>1. pos'[p] = pos[p] + 1
    BY AdvanceFacts, Zenon
  <2>2. Sends(protocol, p, pos[p]) \in Nat
        /\ (\/ Sends(protocol, p, pos[p] + 1) = Sends(protocol, p, pos[p]) + 1
            \/ Sends(protocol, p, pos[p] + 1) = Sends(protocol, p, pos[p]))
    BY NextFacts, Zenon
  <2>3. QED
    BY <2>1, <2>2
<1>3. QED
  BY <1>1, <1>2, Zenon

LEMMA SendsSame ==
  ASSUME Types, \A r \in Parties : ScriptInv(r),
         \A r \in Parties : Running(r)' => Running(r) /\ pos'[r] = pos[r]
  PROVE  \A r \in Parties : Running(r)' =>
            Running(r) /\ Sends(protocol, r, pos'[r]) \in Int
                       /\ Sends(protocol, r, pos'[r]) >= Sends(protocol, r, pos[r])
<1>1. SUFFICES ASSUME NEW r \in Parties, Running(r)'
               PROVE Running(r) /\ Sends(protocol, r, pos'[r]) \in Int
                       /\ Sends(protocol, r, pos'[r]) >= Sends(protocol, r, pos[r])
  BY Zenon
<1>2. Running(r) /\ pos'[r] = pos[r]
  BY <1>1, Zenon
<1>3. Sends(protocol, r, pos[r]) \in Nat
  BY <1>2, NextFacts, Zenon
<1>4. QED
  BY <1>2, <1>3

LEMMA SetLinkFacts ==
  ASSUME Types, NEW p \in Parties, NEW a \in Attempts, NEW l, SetLink(p, a, l),
         l \in {"none", "dialing", "open", "dead", "cancelled", "closed"}
  PROVE  /\ link' \in [Parties -> [Attempts ->
              {"none", "dialing", "open", "dead", "cancelled", "closed"}]]
         /\ link'[p][a] = l
         /\ \A b \in Attempts : b # a => link'[p][b] = link[p][b]
         /\ \A r \in Parties : r # p => link'[r] = link[r]
BY DEF SetLink, Types

-----------------------------------------------------------------------------
(* BaseInv holds at the start and is kept by every step. *)

LEMMA HereFacts ==
  ASSUME Types, NEW p \in Parties, LinkInv(p)
  PROVE  /\ Here(p) => attempt[p] \in Attempts /\ Link(p) = link[p][attempt[p]]
         /\ Running(p) => Here(p)
         /\ Link(p) \in {"none", "dialing", "open", "dead", "cancelled", "closed"}
         /\ attempt[p] \in Nat
<1>1. attempt[p] \in 0 .. MaxAttempts /\ MaxAttempts \in Nat
  BY RelayAssumption, Zenon DEF Types
<1>2. CASE attempt[p] = 0
  BY <1>1, <1>2 DEF Here, Link, LinkInv
<1>3. CASE attempt[p] # 0
  <2>1. attempt[p] \in Attempts
    BY <1>1, <1>3 DEF Attempts
  <2>2. QED
    BY <1>1, <1>3, <2>1 DEF Here, Link, LinkInv, Types
<1>4. QED
  BY <1>2, <1>3, Zenon

LEMMA InitBase ==
  ASSUME Init
  PROVE  BaseInv
<1>1. MaxAttempts \in Nat /\ MaxFaults \in Nat /\ OutSize \in Nat
  BY RelayAssumption, Zenon
<1>2. Types
  <2>1. <<>> \in Seq(Messages) /\ 0 \in 0 .. MaxAttempts /\ 0 \in 0 .. MaxFaults
    BY <1>1
  <2>2. QED
    BY <2>1, Zenon DEF Init, Types
<1>3. SentInv
  BY Zenon DEF Init, SentInv
<1>4. ASSUME NEW p \in Parties PROVE LinkInv(p) /\ ScriptInv(p) /\ QueueInv(p)
  <2>1. /\ attempt[p] = 0 /\ status[p] = "idle" /\ pos[p] = 0 /\ have[p] = {}
        /\ stream[p] = <<>> /\ wire[p] = <<>> /\ out[p] = <<>> /\ consumer[p] = 0
        /\ unacked[p] = FALSE /\ \A a \in Attempts : link[p][a] = "none" /\ a > 0
    BY <1>1 DEF Init, Attempts
  <2>2. LinkInv(p)
    <3>1. Link(p) = "none" /\ ~ Here(p) /\ ~ Running(p)
      BY <2>1, Zenon DEF Here, Link, Running
    <3>2. QED
      BY <2>1, <3>1 DEF LinkInv, Attempts
  <2>3. ScriptInv(p)
    BY <1>2, <2>1, CountFacts, ProtocolFacts DEF ScriptInv, Here, Link, Running
  <2>4. QueueInv(p)
    BY <1>1, <2>1, EmptyFacts DEF QueueInv
  <2>5. QED
    BY <2>2, <2>3, <2>4, Zenon
<1>5. QED
  BY <1>2, <1>3, <1>4, Zenon DEF BaseInv

(* The message p sends next. *)
LEMMA OutgoingFacts ==
  ASSUME BaseInv, NEW p \in Parties, NextIs(p, "send")
  PROVE  /\ Outgoing(p) \in Messages
         /\ Outgoing(p).from = p /\ Outgoing(p).attempt = attempt[p]
         /\ Outgoing(p).n = Sends(protocol, p, pos[p]) + 1
<1>1. /\ Types /\ LinkInv(p) /\ ScriptInv(p) /\ QueueInv(p) /\ Running(p)
  BY Zenon DEF BaseInv, NextIs
<1>2. attempt[p] \in Attempts
  BY <1>1, HereFacts, Zenon
<1>3. At(p).n = Sends(protocol, p, pos[p]) + 1 /\ At(p).n \in 1 .. Rounds + 1
  BY <1>1, SendFacts, Zenon
<1>4. (IF have[p] = {} THEN 0 ELSE (CHOOSE m \in have[p] : TRUE).attempt) \in 0 .. MaxAttempts
  <2>1. CASE have[p] = {}
    BY <2>1, RelayAssumption
  <2>2. CASE have[p] # {}
    <3>1. PICK x : x = CHOOSE m \in have[p] : TRUE
      BY Zenon
    <3>2. x \in have[p]
      BY <2>2, <3>1, Zenon
    <3>3. x \in Messages
      BY <1>1, <3>2, ToFacts, Zenon DEF QueueInv
    <3>4. x.attempt \in 0 .. MaxAttempts
      BY <3>3, MessageFacts, RelayAssumption DEF Attempts
    <3>5. QED
      BY <2>2, <3>1, <3>4, Zenon
  <2>3. QED
    BY <2>1, <2>2, Zenon
<1>5. QED
  BY <1>2, <1>3, <1>4, Zenon DEF Outgoing, Messages

LEMMA SendBase ==
  ASSUME BaseInv, NEW p \in Parties, Send(p)
  PROVE  BaseInv'
<1> DEFINE q == Other(p)
<1> DEFINE m == Outgoing(p)
<1>1. /\ Types /\ SentInv /\ \A r \in Parties : LinkInv(r) /\ ScriptInv(r) /\ QueueInv(r)
      /\ NextIs(p, "send") /\ Running(p) /\ Advance(p)
  BY Zenon DEF BaseInv, Send, NextIs
<1>2. m \in Messages /\ m.from = p /\ m.attempt = attempt[p]
      /\ m.n = Sends(protocol, p, pos[p]) + 1
  BY <1>1, OutgoingFacts, Zenon
<1> HIDE DEF m
<1>3. q \in Parties /\ q # p /\ Other(q) = p /\ \A r \in Parties : r = p \/ r = q
  BY PartyFacts, Zenon
<1> HIDE DEF q
<1>4. /\ sent' = sent \cup {m} /\ stream' = [stream EXCEPT ![q] = Append(stream[q], m)]
      /\ protocol' = protocol /\ attempt' = attempt /\ have' = have /\ consumer' = consumer
      /\ unacked' = unacked /\ link' = link /\ wire' = wire /\ out' = out /\ faults' = faults
      /\ handed' = handed /\ taken' = taken /\ disturbed' = disturbed
  BY Zenon DEF Send, conn, m, q
<1>5. stream[q] \in Seq(Messages) /\ stream[q] \in Seq(To(q)) /\ m \in To(q)
  BY <1>1, <1>2, <1>3, ToFacts, Zenon DEF Types, QueueInv
<1>6. /\ stream' \in [Parties -> Seq(Messages)] /\ stream'[q] = Append(stream[q], m)
      /\ stream'[p] = stream[p]
  BY <1>1, <1>2, <1>3, <1>4, <1>5, AppendFacts, SMTT(30) DEF Types
<1>7. Types'
  BY <1>1, <1>4, <1>6, AdvanceFacts, Zenon DEF Types
<1>8. \A r \in Parties : ScriptInv(r)'
  BY <1>1, <1>4, ScriptAdvance, Zenon
<1>9. SentInv'
  <2>1. \A r \in Parties : Running(r)' =>
            Running(r) /\ Sends(protocol, r, pos'[r]) \in Int
                       /\ Sends(protocol, r, pos'[r]) >= Sends(protocol, r, pos[r])
    BY <1>1, SendsAdvance, Zenon
  <2>2. m.attempt <= attempt[m.from] /\ m.n <= Sends(protocol, m.from, pos'[m.from])
    <3>1. attempt[p] \in Int /\ Sends(protocol, p, pos[p]) \in Nat
      BY <1>1, HereFacts, SendFacts
    <3>2. Sends(protocol, p, pos'[p]) = Sends(protocol, p, pos[p]) + 1
      BY <1>1, AdvanceFacts, SendFacts, Zenon
    <3>3. QED
      BY <1>2, <3>1, <3>2
  <2>3. handed' \subseteq sent' /\ taken' \subseteq handed' /\ (disturbed' \/ faults' = 0)
    BY <1>1, <1>4, Zenon DEF SentInv
  <2>4. QED
    BY <1>1, <1>2, <1>4, <2>1, <2>2, <2>3, SentFrame, Zenon
<1>10. ASSUME NEW r \in Parties PROVE LinkInv(r)'
  <2>1. CASE r = q
    BY <1>1, <1>3, <1>4, <2>1, AdvanceFacts, LinkFrame, Zenon
  <2>2. CASE r = p
    <3>1. Here(p) /\ attempt[p] \in Attempts
      BY <1>1, HereFacts, ZenonT(30)
    <3>2. Here(p)' /\ Link(p)' = Link(p)
      BY <1>4, <3>1, Zenon DEF Here, Link
    <3>3. QED
      BY <1>1, <1>4, <2>2, <3>2, Zenon DEF LinkInv
  <2>3. QED
    BY <1>3, <2>1, <2>2, Zenon
<1>11. QueueInv(p)'
  BY <1>1, <1>4, <1>6, QueueFrame, Zenon
<1>12. QueueInv(q)'
  <2>1. stream'[q] \in Seq(To(q)) /\ Elements(stream'[q]) = Elements(stream[q]) \cup {m}
    BY <1>5, <1>6, AppendFacts
  <2>2. unacked[q] => stream'[q] # <<>> /\ stream'[q][1] = stream[q][1]
    <3>1. Len(Append(stream[q], m)) # 0
      BY <1>5, AppendFacts
    <3>2. stream[q] # <<>> => Append(stream[q], m)[1] = stream[q][1]
      BY <1>5
    <3>3. QED
      BY <1>1, <1>3, <1>6, <3>1, <3>2, EmptyFacts, Zenon DEF QueueInv
  <2>3. QED
    BY <1>1, <1>3, <1>4, <2>1, <2>2 DEF QueueInv
<1>13. QED
  BY <1>3, <1>7, <1>8, <1>9, <1>10, <1>11, <1>12, Zenon DEF BaseInv

LEMMA LinkHere ==
  ASSUME Types, NEW p \in Parties, LinkInv(p), Here(p), attempt'[p] = attempt[p],
         link'[p] = link[p], consumer'[p] = consumer[p],
         faults' = faults \/ faults' # 0,
         \/ faults' # 0 \/ Link(p) = "open"
         \/ out'[p] = out[p] /\ wire'[p] = wire[p]
  PROVE  LinkInv(p)'
<1>1. Here(p)' /\ Link(p)' = Link(p)
  BY Zenon DEF Here, Link
<1>2. QED
  BY <1>1 DEF LinkInv

(* The attempt of p goes on by an entry of its script, or stops. *)
Moves(p) ==
  \/ Advance(p)
  \/ pos' = pos /\ status' = status
  \/ pos' = pos /\ \E s \in {"stuck", "failed", "timeout"} : status' = [status EXCEPT ![p] = s]

LEMMA MoveFacts ==
  ASSUME Types, \A r \in Parties : ScriptInv(r), NEW p \in Parties, Running(p), Moves(p),
         protocol' = protocol, attempt' = attempt, link' = link
  PROVE  /\ pos' \in [Parties -> Nat]
         /\ status' \in [Parties -> {"idle", "running", "stuck", "done", "failed", "timeout"}]
         /\ \A r \in Parties : ScriptInv(r)'
         /\ \A r \in Parties : r # p => pos'[r] = pos[r] /\ status'[r] = status[r]
         /\ \A r \in Parties : Running(r)' =>
              Running(r) /\ Sends(protocol, r, pos'[r]) \in Int
                         /\ Sends(protocol, r, pos'[r]) >= Sends(protocol, r, pos[r])
<1>1. CASE Advance(p)
  BY <1>1, AdvanceFacts, ScriptAdvance, SendsAdvance, Zenon
<1>2. CASE pos' = pos /\ status' = status
  <2>1. \A r \in Parties : ScriptInv(r)'
    BY <1>2, ScriptFrame, Zenon
  <2>2. \A r \in Parties : Running(r)' => Running(r) /\ pos'[r] = pos[r]
    BY <1>2, Zenon DEF Running
  <2>3. QED
    BY <1>2, <2>1, <2>2, SendsSame, Zenon DEF Types
<1>3. ASSUME NEW s \in {"stuck", "failed", "timeout"}, pos' = pos,
             status' = [status EXCEPT ![p] = s]
      PROVE  /\ pos' \in [Parties -> Nat]
             /\ status' \in [Parties -> {"idle", "running", "stuck", "done", "failed", "timeout"}]
             /\ status'[p] = s /\ s \notin {"idle", "running", "done"}
             /\ \A r \in Parties : r # p => pos'[r] = pos[r] /\ status'[r] = status[r]
  BY <1>3, Zenon DEF Types
<1>4. ASSUME NEW s \in {"stuck", "failed", "timeout"}, pos' = pos,
             status' = [status EXCEPT ![p] = s]
      PROVE  /\ \A r \in Parties : ScriptInv(r)'
             /\ \A r \in Parties : Running(r)' => Running(r) /\ pos'[r] = pos[r]
  <2>1. status'[p] = s /\ s \notin {"idle", "running", "done"}
        /\ \A r \in Parties : r # p => pos'[r] = pos[r] /\ status'[r] = status[r]
    BY <1>3, <1>4, Zenon
  <2>2. ASSUME NEW r \in Parties, r # p PROVE ScriptInv(r)'
    BY <2>1, <2>2, ScriptFrame, Zenon
  <2>3. ScriptInv(p)'
    BY <1>4, <2>1, Zenon DEF ScriptInv, Running
  <2>4. ASSUME NEW r \in Parties, Running(r)' PROVE Running(r) /\ pos'[r] = pos[r]
    BY <1>4, <2>1, <2>4, Zenon DEF Running
  <2>5. QED
    BY <2>2, <2>3, <2>4, Zenon
<1>5. ASSUME NEW s \in {"stuck", "failed", "timeout"}, pos' = pos,
             status' = [status EXCEPT ![p] = s]
      PROVE  \A r \in Parties : Running(r)' =>
              Running(r) /\ Sends(protocol, r, pos'[r]) \in Int
                         /\ Sends(protocol, r, pos'[r]) >= Sends(protocol, r, pos[r])
  BY <1>4, <1>5, SendsSame, Zenon
<1>6. QED
  BY <1>1, <1>2, <1>3, <1>4, <1>5, Zenon DEF Moves

LEMMA TakeBase ==
  ASSUME BaseInv, NEW p \in Parties, TakeMessage(p), Moves(p)
  PROVE  BaseInv'
<1>1. /\ Types /\ SentInv /\ \A r \in Parties : LinkInv(r) /\ ScriptInv(r) /\ QueueInv(r)
      /\ Running(p) /\ out[p] # <<>> /\ out' = [out EXCEPT ![p] = Tail(out[p])]
      /\ taken' = taken \cup {Head(out[p])}
      /\ have' = [have EXCEPT ![p] = Accepted(p, Head(out[p]))]
      /\ protocol' = protocol /\ attempt' = attempt /\ stream' = stream
      /\ consumer' = consumer /\ unacked' = unacked /\ link' = link /\ wire' = wire
      /\ faults' = faults /\ sent' = sent /\ handed' = handed /\ disturbed' = disturbed
  BY Zenon DEF BaseInv, TakeMessage, queue
<1>2. /\ out[p] \in Seq(To(p)) /\ out[p] \in Seq(Messages) /\ have[p] \subseteq To(p)
      /\ have[p] \subseteq Messages
  BY <1>1, Zenon DEF Types, QueueInv
<1>3. /\ Tail(out[p]) \in Seq(To(p)) /\ Head(out[p]) \in To(p)
      /\ Tail(out[p]) \in Seq(Messages) /\ Head(out[p]) \in Messages
      /\ Len(Tail(out[p])) <= OutSize
      /\ Head(out[p]) \in handed /\ Elements(Tail(out[p])) \subseteq handed
  <2>1. /\ Tail(out[p]) \in Seq(To(p)) /\ Head(out[p]) \in To(p)
        /\ Len(out[p]) \in Nat /\ Len(Tail(out[p])) = Len(out[p]) - 1
        /\ Elements(out[p]) = {Head(out[p])} \cup Elements(Tail(out[p]))
    BY <1>1, <1>2, TailFacts, Zenon
  <2>2. Tail(out[p]) \in Seq(Messages) /\ Head(out[p]) \in Messages
    BY <1>1, <1>2, TailFacts, Zenon
  <2>3. Len(out[p]) <= OutSize /\ Elements(out[p]) \subseteq handed /\ OutSize \in Nat
    BY <1>1, RelayAssumption, Zenon DEF QueueInv
  <2>4. QED
    BY <2>1, <2>2, <2>3
<1>4. Accepted(p, Head(out[p])) \subseteq To(p) /\ Accepted(p, Head(out[p])) \subseteq Messages
  BY <1>2, <1>3, Zenon DEF Accepted
<1>5. /\ out' \in [Parties -> Seq(Messages)] /\ have' \in [Parties -> SUBSET Messages]
      /\ out'[p] = Tail(out[p]) /\ have'[p] = Accepted(p, Head(out[p]))
      /\ \A r \in Parties : r # p => out'[r] = out[r] /\ have'[r] = have[r]
  BY <1>1, <1>3, <1>4, Zenon DEF Types
<1>6. /\ pos' \in [Parties -> Nat]
      /\ status' \in [Parties -> {"idle", "running", "stuck", "done", "failed", "timeout"}]
      /\ \A r \in Parties : ScriptInv(r)'
      /\ \A r \in Parties : r # p => pos'[r] = pos[r] /\ status'[r] = status[r]
      /\ \A r \in Parties : Running(r)' =>
           Running(r) /\ Sends(protocol, r, pos'[r]) \in Int
                      /\ Sends(protocol, r, pos'[r]) >= Sends(protocol, r, pos[r])
  BY <1>1, MoveFacts, Zenon
<1>7. Types'
  BY <1>1, <1>5, <1>6, Zenon DEF Types
<1>8. SentInv'
  <2>1. handed' \subseteq sent' /\ taken' \subseteq handed' /\ (disturbed' \/ faults' = 0)
    BY <1>1, <1>3, Zenon DEF SentInv
  <2>2. QED
    BY <1>1, <1>6, <2>1, SentFrame, Zenon
<1>9. LinkInv(p)'
  <2>1. Here(p)
    BY <1>1, HereFacts, Zenon
  <2>2. faults' # 0 \/ Link(p) = "open"
    BY <1>1, Zenon DEF LinkInv
  <2>3. QED
    BY <1>1, <2>1, <2>2, LinkHere, Zenon
<1>10. QueueInv(p)'
  BY <1>1, <1>3, <1>4, <1>5, Zenon DEF QueueInv
<1>11. ASSUME NEW r \in Parties, r # p PROVE LinkInv(r)' /\ QueueInv(r)'
  BY <1>1, <1>5, <1>6, <1>11, LinkFrame, QueueFrame, Zenon
<1>12. QED
  BY <1>6, <1>7, <1>8, <1>9, <1>10, <1>11, Zenon DEF BaseInv

(* Steps of the script that touch no message. *)
LEMMA MoveBase ==
  ASSUME BaseInv, NEW p \in Parties, Running(p), Moves(p), protocol' = protocol,
         attempt' = attempt, have' = have, UNCHANGED queue, UNCHANGED conn,
         faults' = faults, sent' = sent, handed' = handed, taken' = taken,
         disturbed' \in {disturbed, TRUE}
  PROVE  BaseInv'
<1>1. /\ Types /\ SentInv /\ \A r \in Parties : LinkInv(r) /\ ScriptInv(r) /\ QueueInv(r)
      /\ stream' = stream /\ consumer' = consumer /\ unacked' = unacked
      /\ link' = link /\ wire' = wire /\ out' = out
  BY Zenon DEF BaseInv, queue, conn
<1>2. /\ pos' \in [Parties -> Nat]
      /\ status' \in [Parties -> {"idle", "running", "stuck", "done", "failed", "timeout"}]
      /\ \A r \in Parties : ScriptInv(r)'
      /\ \A r \in Parties : r # p => pos'[r] = pos[r] /\ status'[r] = status[r]
      /\ \A r \in Parties : Running(r)' =>
           Running(r) /\ Sends(protocol, r, pos'[r]) \in Int
                      /\ Sends(protocol, r, pos'[r]) >= Sends(protocol, r, pos[r])
  BY <1>1, MoveFacts, Zenon
<1>3. Types'
  BY <1>1, <1>2, Zenon DEF Types
<1>4. SentInv'
  <2>1. handed' \subseteq sent' /\ taken' \subseteq handed' /\ (disturbed' \/ faults' = 0)
    BY <1>1, Zenon DEF SentInv
  <2>2. QED
    BY <1>1, <1>2, <2>1, SentFrame, Zenon
<1>5. ASSUME NEW r \in Parties PROVE QueueInv(r)'
  BY <1>1, QueueFrame, Zenon
<1>6. ASSUME NEW r \in Parties PROVE LinkInv(r)'
  <2>1. CASE r = p
    BY <1>1, <2>1, HereFacts, LinkHere, Zenon
  <2>2. CASE r # p
    BY <1>1, <1>2, <2>2, LinkFrame, Zenon
  <2>3. QED
    BY <2>1, <2>2, Zenon
<1>7. QED
  BY <1>2, <1>3, <1>4, <1>5, <1>6, Zenon DEF BaseInv

(* An attempt of p ends. *)
LEMMA HangUpBase ==
  ASSUME BaseInv, NEW p \in Parties, Here(p), HangUp(p), protocol' = protocol,
         attempt' = attempt, UNCHANGED queue, sent' = sent, handed' = handed, taken' = taken,
         status' = status \/ status' = [status EXCEPT ![p] = "failed"],
         status'[p] \notin {"running", "idle"},
         faults' \in 0 .. MaxFaults, faults' = faults \/ faults' # 0,
         disturbed' \in BOOLEAN, disturbed' \/ faults' = 0
  PROVE  BaseInv'
<1>1. /\ Types /\ SentInv /\ \A r \in Parties : LinkInv(r) /\ ScriptInv(r) /\ QueueInv(r)
      /\ stream' = stream /\ consumer' = consumer /\ unacked' = unacked
      /\ pos' = [pos EXCEPT ![p] = 0] /\ have' = [have EXCEPT ![p] = {}]
      /\ wire' = [wire EXCEPT ![p] = <<>>] /\ out' = [out EXCEPT ![p] = <<>>]
  BY Zenon DEF BaseInv, queue, HangUp
<1>2. attempt[p] \in Attempts /\ Link(p) = link[p][attempt[p]]
  BY <1>1, HereFacts, Zenon
<1>3. PICK l \in {"cancelled", "closed"} :
        /\ SetLink(p, attempt[p], l) /\ (l = "cancelled" <=> Link(p) = "open")
  BY Zenon DEF HangUp
<1>4. /\ link' \in [Parties -> [Attempts ->
              {"none", "dialing", "open", "dead", "cancelled", "closed"}]]
      /\ link'[p][attempt[p]] = l
      /\ \A b \in Attempts : b # attempt[p] => link'[p][b] = link[p][b]
      /\ \A r \in Parties : r # p => link'[r] = link[r]
  BY <1>1, <1>2, <1>3, SetLinkFacts, Zenon
<1>5. /\ pos' \in [Parties -> Nat] /\ have' \in [Parties -> SUBSET Messages]
      /\ wire' \in [Parties -> Seq(Messages)] /\ out' \in [Parties -> Seq(Messages)]
      /\ status' \in [Parties -> {"idle", "running", "stuck", "done", "failed", "timeout"}]
      /\ pos'[p] = 0 /\ have'[p] = {} /\ wire'[p] = <<>> /\ out'[p] = <<>>
      /\ \A r \in Parties : r # p => /\ pos'[r] = pos[r] /\ have'[r] = have[r]
                                     /\ wire'[r] = wire[r] /\ out'[r] = out[r]
                                     /\ status'[r] = status[r]
  BY <1>1, EmptyFacts, ZenonT(30) DEF Types
<1>6. Types'
  BY <1>1, <1>4, <1>5, Zenon DEF Types
<1>7. ~ Running(p)' /\ Link(p)' = l /\ ~ Here(p)'
  <2>1. attempt[p] # 0
    BY <1>2 DEF Attempts
  <2>2. QED
    BY <1>4, <2>1, Zenon DEF Running, Link, Here
<1>8. SentInv'
  <2>1. \A r \in Parties : Running(r)' => Running(r) /\ pos'[r] = pos[r]
    BY <1>5, <1>7, Zenon DEF Running
  <2>2. handed' \subseteq sent' /\ taken' \subseteq handed'
    BY <1>1, Zenon DEF SentInv
  <2>3. QED
    BY <1>1, <2>1, <2>2, SendsSame, SentFrame, Zenon
<1>9. LinkInv(p)'
  <2>1. ASSUME NEW a \in Attempts
        PROVE  /\ a > attempt[p] => link'[p][a] = "none"
               /\ a < attempt[p] => link'[p][a] \in {"cancelled", "closed"}
               /\ a = attempt[p] => link'[p][a] # "none"
               /\ link'[p][a] \in {"open", "cancelled"} <=> consumer[p] = a
    <3>1. CASE a = attempt[p]
      <4>1. link[p][a] \in {"open", "cancelled"} <=> consumer[p] = a
        BY <1>1, <3>1, Zenon DEF LinkInv
      <4>2. link[p][a] # "cancelled" /\ (link[p][a] = "open" <=> l = "cancelled")
        BY <1>2, <1>3, <3>1, Zenon DEF Here
      <4>3. a \in Nat
        BY AttemptFacts, Zenon
      <4>4. QED
        BY <1>4, <3>1, <4>1, <4>2, <4>3
    <3>2. CASE a # attempt[p]
      BY <1>1, <1>4, <3>2, SMTT(30) DEF LinkInv
    <3>3. QED
      BY <3>1, <3>2, Zenon
  <2>2. QED
    BY <1>1, <1>5, <1>7, <2>1, Zenon DEF LinkInv
<1>10. ScriptInv(p)'
  <2>1. Size(protocol, p) \in Nat
    BY <1>1, CountFacts, ProtocolFacts
  <2>2. QED
    BY <1>5, <1>7, <2>1 DEF ScriptInv
<1>11. QueueInv(p)'
  <2>1. OutSize \in Nat /\ <<>> \in Seq(To(p)) /\ Len(<<>>) = 0 /\ Elements(<<>>) = {}
    BY RelayAssumption, EmptyFacts, Zenon
  <2>2. QED
    BY <1>1, <1>5, <2>1 DEF QueueInv
<1>12. ASSUME NEW r \in Parties, r # p PROVE LinkInv(r)' /\ ScriptInv(r)' /\ QueueInv(r)'
  BY <1>1, <1>4, <1>5, <1>12, LinkFrame, ScriptFrame, QueueFrame, Zenon
<1>13. QED
  BY <1>6, <1>8, <1>9, <1>10, <1>11, <1>12, Zenon DEF BaseInv

LEMMA ReceivingBase ==
  ASSUME BaseInv, NEW p \in Parties, receiving(p)
  PROVE  BaseInv'
<1> DEFINE m == Head(wire[p])
<1>1. /\ Types /\ SentInv /\ \A r \in Parties : LinkInv(r) /\ ScriptInv(r) /\ QueueInv(r)
      /\ Link(p) = "open" /\ wire[p] # <<>> /\ Len(out[p]) < OutSize
      /\ wire' = [wire EXCEPT ![p] = Tail(wire[p])]
      /\ out' = [out EXCEPT ![p] = Append(out[p], m)]
      /\ protocol' = protocol /\ attempt' = attempt /\ status' = status /\ pos' = pos
      /\ have' = have /\ stream' = stream /\ consumer' = consumer /\ unacked' = unacked
      /\ link' = link /\ faults' = faults /\ sent' = sent /\ handed' = handed
      /\ taken' = taken /\ disturbed' = disturbed
  BY Zenon DEF BaseInv, receiving, party, queue, history
<1>2. /\ out[p] \in Seq(To(p)) /\ out[p] \in Seq(Messages)
      /\ wire[p] \in Seq(To(p)) /\ wire[p] \in Seq(Messages)
      /\ Elements(wire[p]) \subseteq handed /\ Elements(out[p]) \subseteq handed
  BY <1>1, Zenon DEF Types, QueueInv
<1>3. /\ Tail(wire[p]) \in Seq(To(p)) /\ m \in To(p)
      /\ Elements(wire[p]) = {m} \cup Elements(Tail(wire[p]))
  BY <1>1, <1>2, TailFacts, Zenon
<1>4. Tail(wire[p]) \in Seq(Messages) /\ m \in Messages
  BY <1>1, <1>2, TailFacts, Zenon
<1> HIDE DEF m
<1>5. /\ Append(out[p], m) \in Seq(To(p)) /\ Len(out[p]) \in Nat
      /\ Len(Append(out[p], m)) = Len(out[p]) + 1
      /\ Elements(Append(out[p], m)) = Elements(out[p]) \cup {m}
  BY <1>2, <1>3, AppendFacts
<1>6. Append(out[p], m) \in Seq(Messages)
  BY <1>2, <1>4, AppendFacts, Zenon
<1>7. /\ out' \in [Parties -> Seq(Messages)] /\ wire' \in [Parties -> Seq(Messages)]
      /\ out'[p] = Append(out[p], m) /\ wire'[p] = Tail(wire[p])
      /\ \A r \in Parties : r # p => out'[r] = out[r] /\ wire'[r] = wire[r]
  BY <1>1, <1>4, <1>6, Zenon DEF Types
<1>8. Types'
  BY <1>1, <1>7, Zenon DEF Types
<1>9. SentInv'
  BY <1>1, Zenon DEF SentInv, Running
<1>10. ASSUME NEW r \in Parties PROVE ScriptInv(r)'
  BY <1>1, ScriptFrame, Zenon
<1>11. LinkInv(p)'
  <2>1. Here(p)
    BY <1>1, Zenon DEF Here
  <2>2. QED
    BY <1>1, <2>1, LinkHere, Zenon
<1>12. QueueInv(p)'
  <2>1. Len(Append(out[p], m)) <= OutSize
    BY <1>1, <1>5, RelayAssumption
  <2>2. Elements(Append(out[p], m)) \subseteq handed /\ Elements(Tail(wire[p])) \subseteq handed
    BY <1>2, <1>3, <1>5, Zenon
  <2>3. QED
    BY <1>1, <1>3, <1>5, <1>7, <2>1, <2>2, Zenon DEF QueueInv
<1>13. ASSUME NEW r \in Parties, r # p PROVE LinkInv(r)' /\ QueueInv(r)'
  BY <1>1, <1>7, <1>13, LinkFrame, QueueFrame, Zenon
<1>14. QED
  BY <1>8, <1>9, <1>10, <1>11, <1>12, <1>13, Zenon DEF BaseInv

LEMMA DeliverBase ==
  ASSUME BaseInv, NEW p \in Parties, Deliver(p)
  PROVE  BaseInv'
<1> DEFINE m == Head(stream[p])
<1>1. /\ Types /\ SentInv /\ \A r \in Parties : LinkInv(r) /\ ScriptInv(r) /\ QueueInv(r)
      /\ Link(p) = "open" /\ stream[p] # <<>> /\ consumer[p] # 0
      /\ wire' = [wire EXCEPT ![p] = Append(wire[p], m)]
      /\ handed' = handed \cup {m} /\ unacked' = [unacked EXCEPT ![p] = TRUE]
      /\ protocol' = protocol /\ attempt' = attempt /\ status' = status /\ pos' = pos
      /\ have' = have /\ stream' = stream /\ consumer' = consumer /\ out' = out
      /\ link' = link /\ faults' = faults /\ sent' = sent
      /\ taken' = taken /\ disturbed' = disturbed
  BY Zenon DEF BaseInv, Deliver, party
<1>2. /\ stream[p] \in Seq(To(p)) /\ stream[p] \in Seq(Messages)
      /\ wire[p] \in Seq(To(p)) /\ wire[p] \in Seq(Messages)
      /\ Elements(wire[p]) \subseteq handed /\ Elements(stream[p]) \subseteq sent
  BY <1>1, SMTT(30) DEF Types, QueueInv
<1>3. /\ m \in To(p) /\ m = stream[p][1]
      /\ Elements(stream[p]) = {m} \cup Elements(Tail(stream[p]))
  BY <1>1, <1>2, TailFacts, Zenon
<1>4. m \in Messages /\ m \in sent
  BY <1>2, <1>3, ToFacts, Zenon
<1> HIDE DEF m
<1>5. /\ Append(wire[p], m) \in Seq(To(p))
      /\ Elements(Append(wire[p], m)) = Elements(wire[p]) \cup {m}
  BY <1>2, <1>3, AppendFacts
<1>6. Append(wire[p], m) \in Seq(Messages)
  BY <1>2, <1>4, AppendFacts, Zenon
<1>7. /\ wire' \in [Parties -> Seq(Messages)] /\ unacked' \in [Parties -> BOOLEAN]
      /\ wire'[p] = Append(wire[p], m)
      /\ \A r \in Parties : r # p => wire'[r] = wire[r] /\ unacked'[r] = unacked[r]
  BY <1>1, <1>6, Zenon DEF Types
<1>8. Types'
  BY <1>1, <1>7, Zenon DEF Types
<1>9. SentInv'
  <2>1. handed' \subseteq sent /\ taken \subseteq handed'
    BY <1>1, <1>4, Zenon DEF SentInv
  <2>2. QED
    BY <1>1, <2>1, Zenon DEF SentInv, Running
<1>10. ASSUME NEW r \in Parties PROVE ScriptInv(r)'
  BY <1>1, ScriptFrame, Zenon
<1>11. LinkInv(p)'
  <2>1. Here(p)
    BY <1>1, Zenon DEF Here
  <2>2. QED
    BY <1>1, <2>1, LinkHere, ZenonT(30)
<1>12. QueueInv(p)'
  <2>1. Elements(Append(wire[p], m)) \subseteq handed' /\ Elements(out[p]) \subseteq handed'
    BY <1>1, <1>2, <1>5, Zenon DEF QueueInv
  <2>2. stream[p][1] \in handed'
    BY <1>1, <1>3, Zenon
  <2>3. QED
    BY <1>1, <1>5, <1>7, <2>1, <2>2, Zenon DEF QueueInv
<1>13. ASSUME NEW r \in Parties, r # p PROVE LinkInv(r)' /\ QueueInv(r)'
  <2>1. handed \subseteq handed'
    BY <1>1, Zenon
  <2>2. QED
    BY <1>1, <1>7, <1>13, <2>1, LinkFrame, QueueFrame, Zenon
<1>14. QED
  BY <1>8, <1>9, <1>10, <1>11, <1>12, <1>13, Zenon DEF BaseInv

(* Steps of the queue alone. *)
LEMMA StreamBase ==
  ASSUME BaseInv, protocol' = protocol, UNCHANGED party, consumer' = consumer, UNCHANGED conn,
         sent' = sent, handed' = handed, taken' = taken,
         faults' \in 0 .. MaxFaults, faults' = faults \/ faults' # 0,
         disturbed' \in BOOLEAN, disturbed' \/ faults' = 0,
         stream' \in [Parties -> Seq(Messages)], unacked' \in [Parties -> BOOLEAN],
         \A r \in Parties : /\ stream'[r] \in Seq(To(r)) /\ Elements(stream'[r]) \subseteq sent
                            /\ unacked'[r] => unacked[r] /\ stream'[r] = stream[r]
  PROVE  BaseInv'
<1>1. /\ Types /\ SentInv /\ \A r \in Parties : LinkInv(r) /\ ScriptInv(r) /\ QueueInv(r)
      /\ attempt' = attempt /\ status' = status /\ pos' = pos /\ have' = have
      /\ link' = link /\ wire' = wire /\ out' = out
  BY Zenon DEF BaseInv, party, conn
<1>2. Types'
  BY <1>1, Zenon DEF Types
<1>3. SentInv'
  BY <1>1, Zenon DEF SentInv, Running
<1>4. ASSUME NEW r \in Parties PROVE LinkInv(r)' /\ ScriptInv(r)'
  BY <1>1, LinkFrame, ScriptFrame, Zenon
<1>5. ASSUME NEW r \in Parties PROVE QueueInv(r)'
  BY <1>1, Zenon DEF QueueInv
<1>6. QED
  BY <1>2, <1>3, <1>4, <1>5, ZenonT(30) DEF BaseInv

(* The head of a queue is taken off. *)
LEMMA TailBase ==
  ASSUME BaseInv, NEW p \in Parties, stream[p] # <<>>,
         stream' = [stream EXCEPT ![p] = Tail(stream[p])],
         unacked' = [unacked EXCEPT ![p] = FALSE]
  PROVE  /\ stream' \in [Parties -> Seq(Messages)] /\ unacked' \in [Parties -> BOOLEAN]
         /\ \A r \in Parties : /\ stream'[r] \in Seq(To(r)) /\ Elements(stream'[r]) \subseteq sent
                               /\ unacked'[r] => unacked[r] /\ stream'[r] = stream[r]
<1>1. Types /\ \A r \in Parties : QueueInv(r)
  BY Zenon DEF BaseInv
<1>2. stream[p] \in Seq(To(p)) /\ stream[p] \in Seq(Messages) /\ Elements(stream[p]) \subseteq sent
  BY <1>1, Zenon DEF Types, QueueInv
<1>3. Tail(stream[p]) \in Seq(To(p)) /\ Elements(stream[p]) = {Head(stream[p])} \cup Elements(Tail(stream[p]))
  BY <1>2, TailFacts, Zenon
<1>4. Tail(stream[p]) \in Seq(Messages)
  BY <1>2, TailFacts, Zenon
<1>5. /\ stream' \in [Parties -> Seq(Messages)] /\ unacked' \in [Parties -> BOOLEAN]
      /\ stream'[p] = Tail(stream[p]) /\ unacked'[p] = FALSE
      /\ \A r \in Parties : r # p => stream'[r] = stream[r] /\ unacked'[r] = unacked[r]
  BY <1>1, <1>4, Zenon DEF Types
<1>6. ASSUME NEW r \in Parties
      PROVE  /\ stream'[r] \in Seq(To(r)) /\ Elements(stream'[r]) \subseteq sent
             /\ unacked'[r] => unacked[r] /\ stream'[r] = stream[r]
  <2>1. CASE r = p
    BY <1>2, <1>3, <1>5, <2>1, Zenon
  <2>2. CASE r # p
    BY <1>1, <1>5, <2>2, Zenon DEF QueueInv
  <2>3. QED
    BY <2>1, <2>2, Zenon
<1>7. QED
  BY <1>5, <1>6, Zenon

LEMMA AckBase ==
  ASSUME BaseInv, NEW p \in Parties, Ack(p)
  PROVE  BaseInv'
<1>1. /\ stream' = [stream EXCEPT ![p] = Tail(stream[p])] /\ unacked[p]
      /\ unacked' = [unacked EXCEPT ![p] = FALSE]
      /\ protocol' = protocol /\ UNCHANGED party /\ consumer' = consumer /\ UNCHANGED conn
      /\ sent' = sent /\ handed' = handed /\ taken' = taken /\ disturbed' = disturbed
      /\ faults' = faults
  BY Zenon DEF Ack, history
<1>2. stream[p] # <<>>
  BY <1>1, Zenon DEF BaseInv, QueueInv
<1>3. faults \in 0 .. MaxFaults /\ disturbed \in BOOLEAN /\ (disturbed \/ faults = 0)
  BY Zenon DEF BaseInv, Types, SentInv
<1>4. /\ stream' \in [Parties -> Seq(Messages)] /\ unacked' \in [Parties -> BOOLEAN]
      /\ \A r \in Parties : /\ stream'[r] \in Seq(To(r)) /\ Elements(stream'[r]) \subseteq sent
                            /\ unacked'[r] => unacked[r] /\ stream'[r] = stream[r]
  BY <1>1, <1>2, TailBase, Zenon
<1>5. QED
  BY <1>1, <1>3, <1>4, StreamBase, Zenon

LEMMA FaultFacts ==
  ASSUME Types, Fault
  PROVE  faults' \in 0 .. MaxFaults /\ faults' # 0 /\ disturbed'
BY RelayAssumption DEF Types, Fault

LEMMA ExpireBase ==
  ASSUME BaseInv, NEW p \in Parties, Expire(p)
  PROVE  BaseInv'
<1>1. /\ stream' = [stream EXCEPT ![p] = Tail(stream[p])] /\ stream[p] # <<>>
      /\ unacked' = [unacked EXCEPT ![p] = FALSE]
      /\ protocol' = protocol /\ UNCHANGED party /\ consumer' = consumer /\ UNCHANGED conn
      /\ sent' = sent /\ handed' = handed /\ taken' = taken /\ Fault
  BY Zenon DEF Expire
<1>2. faults' \in 0 .. MaxFaults /\ faults' # 0 /\ disturbed'
  BY <1>1, FaultFacts, Zenon DEF BaseInv
<1>3. disturbed' \in BOOLEAN
  BY <1>1, Zenon DEF Fault
<1>4. /\ stream' \in [Parties -> Seq(Messages)] /\ unacked' \in [Parties -> BOOLEAN]
      /\ \A r \in Parties : /\ stream'[r] \in Seq(To(r)) /\ Elements(stream'[r]) \subseteq sent
                            /\ unacked'[r] => unacked[r] /\ stream'[r] = stream[r]
  BY <1>1, TailBase, Zenon
<1>5. QED
  BY <1>1, <1>2, <1>3, <1>4, StreamBase, Zenon

LEMMA RedeliverBase ==
  ASSUME BaseInv, NEW p \in Parties, Redeliver(p)
  PROVE  BaseInv'
<1>1. /\ protocol' = protocol /\ UNCHANGED party /\ consumer' = consumer /\ UNCHANGED conn
      /\ sent' = sent /\ handed' = handed /\ taken' = taken /\ Fault /\ unacked' = unacked
      /\ ~ unacked[p]
  BY Zenon DEF Redeliver
<1>2. PICK m \in handed : m.from = Other(p) /\ stream' = [stream EXCEPT ![p] = <<m>> \o stream[p]]
  BY Zenon DEF Redeliver
<1>3. faults' \in 0 .. MaxFaults /\ faults' # 0 /\ disturbed'
  BY <1>1, FaultFacts, Zenon DEF BaseInv
<1>4. disturbed' \in BOOLEAN
  BY <1>1, Zenon DEF Fault
<1>5. Types /\ \A r \in Parties : QueueInv(r)
  BY Zenon DEF BaseInv
<1>6. m \in Messages /\ m \in sent /\ m \in To(p)
  BY <1>2, ToFacts, Zenon DEF BaseInv, SentInv
<1>7. stream[p] \in Seq(To(p)) /\ stream[p] \in Seq(Messages) /\ Elements(stream[p]) \subseteq sent
  BY <1>5, Zenon DEF Types, QueueInv
<1>8. /\ <<m>> \o stream[p] \in Seq(To(p)) /\ <<m>> \o stream[p] \in Seq(Messages)
      /\ DOMAIN (<<m>> \o stream[p]) = 1 .. Len(stream[p]) + 1
      /\ \A i \in 1 .. Len(stream[p]) + 1 :
            (<<m>> \o stream[p])[i] = IF i = 1 THEN m ELSE stream[p][i - 1]
      /\ DOMAIN stream[p] = 1 .. Len(stream[p]) /\ Len(stream[p]) \in Nat
  BY <1>6, <1>7
<1>9. Elements(<<m>> \o stream[p]) \subseteq sent
  <2>1. \A i \in DOMAIN stream[p] : stream[p][i] \in sent
    BY <1>7, Zenon DEF Elements
  <2>2. \A i \in 1 .. Len(stream[p]) + 1 : (<<m>> \o stream[p])[i] \in sent
    BY <1>6, <1>8, <2>1, SMTT(30)
  <2>3. QED
    BY <1>8, <2>2, Zenon DEF Elements
<1>10. /\ stream' \in [Parties -> Seq(Messages)] /\ stream'[p] = <<m>> \o stream[p]
       /\ \A r \in Parties : r # p => stream'[r] = stream[r]
  BY <1>2, <1>5, <1>8, Zenon DEF Types
<1>11. ASSUME NEW r \in Parties
       PROVE  /\ stream'[r] \in Seq(To(r)) /\ Elements(stream'[r]) \subseteq sent
              /\ unacked'[r] => unacked[r] /\ stream'[r] = stream[r]
  <2>1. CASE r = p
    BY <1>1, <1>8, <1>9, <1>10, <2>1, Zenon
  <2>2. CASE r # p
    BY <1>1, <1>5, <1>10, <2>2, Zenon DEF QueueInv
  <2>3. QED
    BY <2>1, <2>2, Zenon
<1>12. unacked' \in [Parties -> BOOLEAN]
  BY <1>1, <1>5, Zenon DEF Types
<1>13. QED
  BY <1>1, <1>3, <1>4, <1>10, <1>11, <1>12, StreamBase, Zenon

LEMMA SendFailsBase ==
  ASSUME BaseInv, NEW p \in Parties, SendFails(p)
  PROVE  BaseInv'
<1> DEFINE m == Outgoing(p)
<1>1. /\ Types /\ SentInv /\ \A r \in Parties : LinkInv(r) /\ ScriptInv(r) /\ QueueInv(r)
      /\ NextIs(p, "send") /\ Running(p) /\ Advance(p) /\ Fault
  BY Zenon DEF BaseInv, SendFails, NextIs
<1>2. m \in Messages /\ m.from = p /\ m.attempt = attempt[p]
      /\ m.n = Sends(protocol, p, pos[p]) + 1
  BY <1>1, OutgoingFacts, Zenon
<1>3. /\ sent' = sent \cup {m}
      /\ protocol' = protocol /\ attempt' = attempt /\ have' = have /\ consumer' = consumer
      /\ stream' = stream /\ unacked' = unacked /\ link' = link /\ wire' = wire /\ out' = out
      /\ handed' = handed /\ taken' = taken
  BY Zenon DEF SendFails, queue, conn, m
<1> HIDE DEF m
<1>4. faults' \in 0 .. MaxFaults /\ faults' # 0 /\ disturbed'
  BY <1>1, FaultFacts, Zenon
<1>5. disturbed' \in BOOLEAN
  BY <1>1, Zenon DEF Fault
<1>6. Types'
  BY <1>1, <1>3, <1>4, <1>5, AdvanceFacts, Zenon DEF Types
<1>7. \A r \in Parties : ScriptInv(r)'
  BY <1>1, <1>3, ScriptAdvance, Zenon
<1>8. SentInv'
  <2>1. \A r \in Parties : Running(r)' =>
            Running(r) /\ Sends(protocol, r, pos'[r]) \in Int
                       /\ Sends(protocol, r, pos'[r]) >= Sends(protocol, r, pos[r])
    BY <1>1, SendsAdvance, Zenon
  <2>2. m.attempt <= attempt[m.from] /\ m.n <= Sends(protocol, m.from, pos'[m.from])
    <3>1. attempt[p] \in Nat /\ Sends(protocol, p, pos[p]) \in Nat
      BY <1>1, HereFacts, SendFacts, Zenon
    <3>2. Sends(protocol, p, pos'[p]) = Sends(protocol, p, pos[p]) + 1
      BY <1>1, AdvanceFacts, SendFacts, Zenon
    <3>3. QED
      BY <1>2, <3>1, <3>2
  <2>3. handed' \subseteq sent' /\ taken' \subseteq handed'
    BY <1>1, <1>3, Zenon DEF SentInv
  <2>4. QED
    BY <1>1, <1>2, <1>3, <1>4, <2>1, <2>2, <2>3, SentFrame, Zenon
<1>9. ASSUME NEW r \in Parties PROVE LinkInv(r)' /\ QueueInv(r)'
  <2>1. sent \subseteq sent'
    BY <1>3, Zenon
  <2>2. CASE r = p
    BY <1>1, <1>3, <1>4, <2>1, <2>2, HereFacts, LinkHere, QueueFrame, Zenon
  <2>3. CASE r # p
    BY <1>1, <1>3, <1>4, <2>1, <2>3, AdvanceFacts, LinkFrame, QueueFrame, Zenon
  <2>4. QED
    BY <2>2, <2>3, Zenon
<1>10. QED
  BY <1>6, <1>7, <1>8, <1>9, Zenon DEF BaseInv

LEMMA NewClientBase ==
  ASSUME BaseInv, NEW p \in Parties, NewClient(p)
  PROVE  BaseInv'
<1> DEFINE a == attempt[p] + 1
<1>1. /\ Types /\ SentInv /\ \A r \in Parties : LinkInv(r) /\ ScriptInv(r) /\ QueueInv(r)
      /\ attempt[p] < MaxAttempts /\ Link(p) \in {"none", "cancelled", "closed"}
      /\ attempt' = [attempt EXCEPT ![p] = a]
      /\ status' = [status EXCEPT ![p] = "running"] /\ SetLink(p, a, "dialing")
      /\ protocol' = protocol /\ pos' = pos /\ have' = have /\ stream' = stream
      /\ consumer' = consumer /\ unacked' = unacked /\ wire' = wire /\ out' = out
      /\ faults' = faults /\ sent' = sent /\ handed' = handed /\ taken' = taken
      /\ disturbed' = (disturbed \/ Early(p))
  BY Zenon DEF BaseInv, NewClient, queue
<1>2. attempt[p] \in Nat /\ MaxAttempts \in Nat /\ a \in Attempts /\ a \in 0 .. MaxAttempts
      /\ a > attempt[p]
  BY <1>1, RelayAssumption, SMTT(30) DEF Types, Attempts
<1>3. /\ attempt' \in [Parties -> 0 .. MaxAttempts] /\ attempt'[p] = a
      /\ status' \in [Parties -> {"idle", "running", "stuck", "done", "failed", "timeout"}]
      /\ status'[p] = "running"
      /\ \A r \in Parties : r # p => attempt'[r] = attempt[r] /\ status'[r] = status[r]
  BY <1>1, <1>2, Zenon DEF Types
<1>4. /\ link' \in [Parties -> [Attempts ->
              {"none", "dialing", "open", "dead", "cancelled", "closed"}]]
      /\ link'[p][a] = "dialing"
      /\ \A b \in Attempts : b # a => link'[p][b] = link[p][b]
      /\ \A r \in Parties : r # p => link'[r] = link[r]
  BY <1>1, <1>2, SetLinkFacts, Zenon
<1>5. Types'
  BY <1>1, <1>3, <1>4, Zenon DEF Types
<1>6. ~ Here(p)
  BY <1>1, Zenon DEF Here
<1>7. pos[p] = 0 /\ out[p] = <<>> /\ wire[p] = <<>>
  BY <1>1, <1>6, Zenon DEF LinkInv
<1>8. SentInv'
  <2>1. ASSUME NEW m \in sent
        PROVE  /\ m.attempt <= attempt'[m.from]
               /\ Running(m.from)' /\ m.attempt = attempt'[m.from] =>
                    m.n <= Sends(protocol, m.from, pos[m.from])
    <3>1. m \in Messages /\ m.attempt <= attempt[m.from]
      BY <1>1, Zenon DEF SentInv
    <3>2. m.from \in Parties /\ m.attempt \in Nat
      BY <3>1, MessageFacts, Zenon
    <3>3. CASE m.from = p
      BY <1>2, <1>3, <3>1, <3>2, <3>3
    <3>4. CASE m.from # p
      BY <1>1, <1>3, <3>2, <3>4, Zenon DEF SentInv, Running
    <3>5. QED
      BY <3>3, <3>4, Zenon
  <2>2. disturbed' \/ faults' = 0
    BY <1>1, Zenon DEF SentInv
  <2>3. QED
    BY <1>1, <2>1, <2>2, Zenon DEF SentInv
<1>9. Link(p)' = "dialing" /\ Here(p)'
  BY <1>2, <1>3, <1>4 DEF Link, Here
<1>10. LinkInv(p)'
  <2>1. ASSUME NEW b \in Attempts
        PROVE  /\ b > a => link'[p][b] = "none"
               /\ b < a => link'[p][b] \in {"cancelled", "closed"}
               /\ b = a => link'[p][b] # "none"
               /\ link'[p][b] \in {"open", "cancelled"} <=> consumer[p] = b
    <3>1. /\ b > attempt[p] => link[p][b] = "none"
          /\ b < attempt[p] => link[p][b] \in {"cancelled", "closed"}
          /\ b = attempt[p] => link[p][b] # "none"
          /\ link[p][b] \in {"open", "cancelled"} <=> consumer[p] = b
      BY <1>1, Zenon DEF LinkInv
    <3>2. CASE b = a
      <4>1. link[p][b] = "none"
        BY <1>2, <3>1, <3>2, Zenon
      <4>2. QED
        BY <1>2, <1>4, <3>1, <3>2, <4>1
    <3>3. CASE b # a
      <4>1. b = attempt[p] => Link(p) = link[p][b]
        BY DEF Link, Attempts
      <4>2. b \in Nat
        BY AttemptFacts, ZenonT(30)
      <4>3. QED
        BY <1>1, <1>2, <1>4, <3>1, <3>3, <4>1, <4>2
    <3>4. QED
      BY <3>2, <3>3, Zenon
  <2>2. QED
    BY <1>1, <1>3, <1>7, <1>9, <2>1, ZenonT(30) DEF LinkInv
<1>11. ScriptInv(p)'
  <2>1. Size(protocol, p) \in Nat /\ Size(protocol, p) > 0
    BY <1>1, CountFacts, ProtocolFacts
  <2>2. QED
    BY <1>1, <1>3, <1>7, <2>1, Zenon DEF ScriptInv
<1>12. ASSUME NEW r \in Parties PROVE QueueInv(r)'
  BY <1>1, QueueFrame, Zenon
<1>13. ASSUME NEW r \in Parties, r # p PROVE LinkInv(r)' /\ ScriptInv(r)'
  BY <1>1, <1>3, <1>4, <1>13, LinkFrame, ScriptFrame, Zenon
<1>14. QED
  BY <1>5, <1>8, <1>10, <1>11, <1>12, <1>13, Zenon DEF BaseInv

(* The relay's side of an attempt. *)
LEMMA RelayBase ==
  ASSUME BaseInv, NEW p \in Parties, NEW a \in Attempts, NEW l, SetLink(p, a, l),
         \/ link[p][a] = "dialing" /\ consumer[p] = 0 /\ l = "open" /\ consumer'[p] = a
         \/ link[p][a] = "dialing" /\ consumer[p] # 0 /\ l = "dead" /\ consumer'[p] = consumer[p]
         \/ link[p][a] = "cancelled" /\ l = "closed" /\ consumer'[p] = 0 /\ ~ unacked'[p],
         consumer' \in [Parties -> 0 .. MaxAttempts],
         unacked' \in [Parties -> BOOLEAN], unacked'[p] => unacked[p],
         \A r \in Parties : r # p => consumer'[r] = consumer[r] /\ unacked'[r] = unacked[r],
         protocol' = protocol, UNCHANGED party, stream' = stream, wire' = wire, out' = out,
         faults' = faults, sent' = sent, handed' = handed, taken' = taken,
         disturbed' \in BOOLEAN, disturbed => disturbed'
  PROVE  BaseInv'
<1>1. /\ Types /\ SentInv /\ \A r \in Parties : LinkInv(r) /\ ScriptInv(r) /\ QueueInv(r)
      /\ attempt' = attempt /\ status' = status /\ pos' = pos /\ have' = have
  BY Zenon DEF BaseInv, party
<1>2. a \in Nat /\ a # 0
  BY AttemptFacts, Zenon
<1>3. l \in {"none", "dialing", "open", "dead", "cancelled", "closed"}
  BY ZenonT(30)
<1>4. /\ link' \in [Parties -> [Attempts ->
              {"none", "dialing", "open", "dead", "cancelled", "closed"}]]
      /\ link'[p][a] = l
      /\ \A b \in Attempts : b # a => link'[p][b] = link[p][b]
      /\ \A r \in Parties : r # p => link'[r] = link[r]
  BY <1>1, <1>3, SetLinkFacts, Zenon
<1>5. Types'
  BY <1>1, <1>4, Zenon DEF Types
<1>6. SentInv'
  BY <1>1, Zenon DEF SentInv, Running
<1>7. /\ a > attempt[p] => link[p][a] = "none"
      /\ a < attempt[p] => link[p][a] \in {"cancelled", "closed"}
      /\ link[p][a] \in {"open", "cancelled"} <=> consumer[p] = a
  BY <1>1, Zenon DEF LinkInv
<1>8. attempt[p] \in Nat
  BY <1>1, HereFacts, ZenonT(30)
<1>9. Here(p)' <=> Here(p)
  <2>1. CASE attempt[p] = a
    BY <1>1, <1>2, <1>4, <2>1, ZenonT(30) DEF Here, Link
  <2>2. CASE attempt[p] # a
    <3>1. attempt[p] = 0 \/ attempt[p] \in Attempts
      BY <1>1, AttemptRange, Zenon DEF Types
    <3>2. Link(p)' = Link(p)
      BY <1>1, <1>4, <2>2, <3>1, Zenon DEF Link
    <3>3. QED
      BY <3>2, ZenonT(30) DEF Here
  <2>3. QED
    BY <2>1, <2>2, Zenon
<1>10. LinkInv(p)'
  <2>1. ASSUME NEW b \in Attempts
        PROVE  /\ b > attempt[p] => link'[p][b] = "none"
               /\ b < attempt[p] => link'[p][b] \in {"cancelled", "closed"}
               /\ b = attempt[p] => link'[p][b] # "none"
               /\ link'[p][b] \in {"open", "cancelled"} <=> consumer'[p] = b
    <3>1. /\ b > attempt[p] => link[p][b] = "none"
          /\ b < attempt[p] => link[p][b] \in {"cancelled", "closed"}
          /\ b = attempt[p] => link[p][b] # "none"
          /\ link[p][b] \in {"open", "cancelled"} <=> consumer[p] = b
      BY <1>1, Zenon DEF LinkInv
    <3>2. b # 0
      BY AttemptFacts, Zenon
    <3>3. QED
      <4>1. CASE b # a
        <5>1. link'[p][b] = link[p][b]
          BY <1>4, <4>1, Zenon
        <5>2. consumer'[p] = b <=> consumer[p] = b
          BY <1>7, <3>1, <3>2, <4>1, Zenon
        <5>3. QED
          BY <3>1, <5>1, <5>2, Zenon
      <4>2. CASE b = a
        <5>1. /\ link'[p][b] = l /\ l # "none" /\ link[p][b] # "none"
              /\ l \in {"open", "cancelled"} <=> consumer'[p] = b
          BY <1>2, <1>4, <1>7, <4>2, Zenon
        <5>2. b < attempt[p] => l \in {"cancelled", "closed"}
          BY <1>7, <4>2, Zenon
        <5>3. QED
          BY <3>1, <5>1, <5>2, Zenon
      <4>3. QED
        BY <4>1, <4>2, Zenon
  <2>2. faults = 0 /\ Link(p)' # "open" => out[p] = <<>> /\ wire[p] = <<>>
    <3>1. CASE faults = 0 /\ Link(p) = "open"
      <4>1. attempt[p] \in Attempts /\ link[p][attempt[p]] = "open" /\ attempt[p] # 0
        <5>1. Here(p)
          BY <3>1, Zenon DEF Here
        <5>2. attempt[p] \in Attempts /\ link[p][attempt[p]] = "open"
          BY <1>1, <3>1, <5>1, HereFacts, Zenon
        <5>3. attempt[p] # 0
          BY <5>2 DEF Attempts
        <5>4. QED
          BY <5>2, <5>3, Zenon
      <4>2. a # attempt[p]
        BY <4>1, Zenon
      <4>3. Link(p)' = "open"
        BY <1>1, <1>4, <4>1, <4>2, Zenon DEF Link
      <4>4. QED
        BY <4>3, Zenon
    <3>2. CASE faults = 0 /\ Link(p) # "open"
      BY <1>1, <3>2, Zenon DEF LinkInv
    <3>3. QED
      BY <3>1, <3>2, Zenon
  <2>3. ~ Here(p) => pos[p] = 0 /\ have[p] = {} /\ ~ Running(p) /\ out[p] = <<>> /\ wire[p] = <<>>
    BY <1>1, ZenonT(30) DEF LinkInv
  <2>4. Running(p)' <=> Running(p)
    BY <1>1, Zenon DEF Running
  <2>5. QED
    BY <1>1, <1>9, <2>1, <2>2, <2>3, <2>4, ZenonT(30) DEF LinkInv
<1>11. ScriptInv(p)'
  BY <1>1, <1>9, Zenon DEF ScriptInv, Running
<1>12. QueueInv(p)'
  <2>1. unacked'[p] => stream[p] # <<>> /\ consumer'[p] # 0 /\ stream[p][1] \in handed
    BY <1>1, <1>2, Zenon DEF QueueInv
  <2>2. QED
    BY <1>1, <2>1, Zenon DEF QueueInv
<1>13. ASSUME NEW r \in Parties, r # p PROVE LinkInv(r)' /\ ScriptInv(r)' /\ QueueInv(r)'
  BY <1>1, <1>4, <1>13, LinkFrame, ScriptFrame, QueueFrame, Zenon
<1>14. QED
  BY <1>5, <1>6, <1>10, <1>11, <1>12, <1>13, ZenonT(30) DEF BaseInv

LEMMA SubscribeBase ==
  ASSUME BaseInv, NEW p \in Parties, NEW a \in Attempts, Subscribe(p, a)
  PROVE  BaseInv'
<1>1. /\ link[p][a] = "dialing" /\ unacked' = unacked
      /\ protocol' = protocol /\ UNCHANGED party /\ stream' = stream /\ wire' = wire /\ out' = out
      /\ faults' = faults /\ sent' = sent /\ handed' = handed /\ taken' = taken
      /\ disturbed' = disturbed
  BY Zenon DEF Subscribe, history
<1>2. Types
  BY Zenon DEF BaseInv
<1>3. unacked' \in [Parties -> BOOLEAN] /\ disturbed' \in BOOLEAN
      /\ \A r \in Parties : unacked'[r] = unacked[r]
  BY <1>1, <1>2, Zenon DEF Types
<1>4. CASE consumer[p] = 0
  <2>1. SetLink(p, a, "open") /\ consumer' = [consumer EXCEPT ![p] = a]
    BY <1>4, Zenon DEF Subscribe
  <2>2. consumer' \in [Parties -> 0 .. MaxAttempts] /\ consumer'[p] = a
        /\ \A r \in Parties : r # p => consumer'[r] = consumer[r]
    BY <1>2, <2>1 DEF Types, Attempts
  <2>3. QED
    BY <1>1, <1>3, <1>4, <2>1, <2>2, RelayBase, ZenonT(30)
<1>5. CASE consumer[p] # 0
  <2>1. SetLink(p, a, "dead") /\ consumer' = consumer
    BY <1>5, Zenon DEF Subscribe
  <2>2. consumer' \in [Parties -> 0 .. MaxAttempts]
    BY <1>2, <2>1, Zenon DEF Types
  <2>3. QED
    BY <1>1, <1>3, <1>5, <2>1, <2>2, RelayBase, Zenon
<1>6. QED
  BY <1>4, <1>5, Zenon

LEMMA UnsubscribeBase ==
  ASSUME BaseInv, NEW p \in Parties, NEW a \in Attempts, Unsubscribe(p, a)
  PROVE  BaseInv'
<1>1. /\ link[p][a] = "cancelled" /\ SetLink(p, a, "closed")
      /\ consumer' = [consumer EXCEPT ![p] = 0] /\ unacked' = [unacked EXCEPT ![p] = FALSE]
      /\ protocol' = protocol /\ UNCHANGED party /\ stream' = stream /\ wire' = wire /\ out' = out
      /\ faults' = faults /\ sent' = sent /\ handed' = handed /\ taken' = taken
      /\ disturbed' = (disturbed \/ unacked[p])
  BY Zenon DEF Unsubscribe
<1>2. Types
  BY Zenon DEF BaseInv
<1>3. /\ consumer' \in [Parties -> 0 .. MaxAttempts] /\ consumer'[p] = 0
      /\ unacked' \in [Parties -> BOOLEAN] /\ ~ unacked'[p]
      /\ \A r \in Parties : r # p => consumer'[r] = consumer[r] /\ unacked'[r] = unacked[r]
  BY <1>1, <1>2, RelayAssumption DEF Types
<1>4. disturbed' \in BOOLEAN /\ (disturbed => disturbed')
  BY <1>1, Zenon
<1>5. QED
  BY <1>1, <1>3, <1>4, RelayBase, Zenon

LEMMA RelayRestartBase ==
  ASSUME BaseInv, RelayRestart
  PROVE  BaseInv'
<1>0. /\ Types /\ SentInv /\ \A r \in Parties : LinkInv(r) /\ ScriptInv(r) /\ QueueInv(r)
  BY Zenon DEF BaseInv
<1>1. /\ Fault /\ consumer' = [r \in Parties |-> 0] /\ unacked' = [r \in Parties |-> FALSE]
      /\ wire' = [r \in Parties |-> <<>>] /\ stream' \in {stream, [r \in Parties |-> <<>>]}
      /\ protocol' = protocol /\ attempt' = attempt /\ status' = status /\ pos' = pos
      /\ have' = have /\ out' = out /\ sent' = sent /\ handed' = handed /\ taken' = taken
  BY Zenon DEF RelayRestart, party
<1>2. faults' \in 0 .. MaxFaults /\ faults' # 0 /\ disturbed' /\ disturbed' \in BOOLEAN
  <2>1. disturbed' \in BOOLEAN
    BY <1>0, <1>1, Zenon DEF Fault
  <2>2. QED
    BY <1>0, <1>1, <2>1, FaultFacts, Zenon
<1>3. /\ link' \in [Parties -> [Attempts ->
              {"none", "dialing", "open", "dead", "cancelled", "closed"}]]
      /\ \A p \in Parties, a \in Attempts :
            /\ link[p][a] \in {"dialing", "open"} => link'[p][a] = "dead"
            /\ link[p][a] = "cancelled" => link'[p][a] = "closed"
            /\ link[p][a] \notin {"dialing", "open", "cancelled"} => link'[p][a] = link[p][a]
  BY <1>0, <1>1 DEF RelayRestart, Types
<1>4. /\ stream' \in [Parties -> Seq(Messages)] /\ wire' \in [Parties -> Seq(Messages)]
      /\ \A p \in Parties : /\ stream'[p] = stream[p] \/ stream'[p] = <<>>
                            /\ wire'[p] = <<>> /\ consumer'[p] = 0 /\ unacked'[p] = FALSE
  <2>1. <<>> \in Seq(Messages)
    BY EmptyFacts, Zenon
  <2>2. QED
    BY <1>0, <1>1, <2>1, ZenonT(30) DEF Types
<1>5. Types'
  <2>1. consumer' \in [Parties -> 0 .. MaxAttempts] /\ unacked' \in [Parties -> BOOLEAN]
    BY <1>0, <1>1, RelayAssumption
  <2>2. QED
    BY <1>0, <1>1, <1>2, <1>3, <1>4, <2>1, Zenon DEF Types
<1>6. SentInv'
  BY <1>0, <1>1, <1>2, Zenon DEF SentInv, Running
<1>7. ASSUME NEW p \in Parties PROVE LinkInv(p)' /\ ScriptInv(p)' /\ QueueInv(p)'
  <2>1. Here(p)' <=> Here(p)
    <3>1. CASE attempt[p] = 0
      BY <1>0, <1>1, <3>1, Zenon DEF Here, Link
    <3>2. CASE attempt[p] # 0
      <4>1. attempt[p] \in Attempts
        BY <1>0, <3>2 DEF Types, Attempts
      <4>2. link[p][attempt[p]] \in {"none", "dialing", "open", "dead", "cancelled", "closed"}
        BY <1>0, <4>1, ZenonT(30) DEF Types
      <4>3. QED
        BY <1>0, <1>1, <1>3, <3>2, <4>1, <4>2, Zenon DEF Here, Link
    <3>3. QED
      BY <3>1, <3>2, Zenon
  <2>2. LinkInv(p)'
    <3>1. ASSUME NEW a \in Attempts
          PROVE  /\ a > attempt[p] => link'[p][a] = "none"
                 /\ a < attempt[p] => link'[p][a] \in {"cancelled", "closed"}
                 /\ a = attempt[p] => link'[p][a] # "none"
                 /\ link'[p][a] \notin {"open", "cancelled"} /\ a # 0
      <4>1. /\ a > attempt[p] => link[p][a] = "none"
            /\ a < attempt[p] => link[p][a] \in {"cancelled", "closed"}
            /\ a = attempt[p] => link[p][a] # "none"
            /\ link[p][a] \in {"open", "cancelled"} <=> consumer[p] = a
        BY <1>0, Zenon DEF LinkInv
      <4>2. link[p][a] \in {"none", "dialing", "open", "dead", "cancelled", "closed"}
        BY <1>0, Zenon DEF Types
      <4>3. a # 0
        BY AttemptFacts, Zenon
      <4>4. QED
        BY <1>3, <4>1, <4>2, <4>3, Zenon
    <3>2. ~ Here(p) => pos[p] = 0 /\ have[p] = {} /\ ~ Running(p) /\ out[p] = <<>>
      BY <1>0, Zenon DEF LinkInv
    <3>3. Running(p)' <=> Running(p)
      BY <1>0, <1>1, Zenon DEF Running
    <3>4. QED
      BY <1>0, <1>1, <1>2, <1>4, <2>1, <3>1, <3>2, <3>3, Zenon DEF LinkInv
  <2>3. ScriptInv(p)'
    BY <1>0, <1>1, <2>1, Zenon DEF ScriptInv, Running
  <2>4. QueueInv(p)'
    <3>1. <<>> \in Seq(To(p)) /\ Elements(<<>>) = {}
      BY EmptyFacts, Zenon
    <3>2. QED
      BY <1>0, <1>1, <1>4, <3>1, Zenon DEF QueueInv
  <2>5. QED
    BY <2>2, <2>3, <2>4, Zenon
<1>8. QED
  BY <1>5, <1>6, <1>7, Zenon DEF BaseInv

LEMMA DoneBase ==
  ASSUME BaseInv, NEW p \in Parties, Done(p)
  PROVE  BaseInv'
<1>1. /\ Here(p) /\ HangUp(p) /\ protocol' = protocol /\ attempt' = attempt /\ status' = status
      /\ UNCHANGED queue /\ faults' = faults /\ sent' = sent /\ handed' = handed
      /\ taken' = taken /\ disturbed' = disturbed /\ status[p] \in {"done", "failed", "timeout"}
  BY Zenon DEF Done, Here, history
<1>2. faults \in 0 .. MaxFaults /\ disturbed \in BOOLEAN /\ (disturbed \/ faults = 0)
  BY Zenon DEF BaseInv, Types, SentInv
<1>3. status'[p] \notin {"running", "idle"}
  BY <1>1, Zenon
<1>4. QED
  BY <1>1, <1>2, <1>3, HangUpBase, Zenon

LEMMA ClientRestartBase ==
  ASSUME BaseInv, NEW p \in Parties, ClientRestart(p)
  PROVE  BaseInv'
<1>1. /\ Here(p) /\ HangUp(p) /\ protocol' = protocol /\ attempt' = attempt
      /\ status' = [status EXCEPT ![p] = "failed"] /\ UNCHANGED queue /\ Fault
      /\ sent' = sent /\ handed' = handed /\ taken' = taken
  BY Zenon DEF ClientRestart, Here
<1>2. Types
  BY Zenon DEF BaseInv
<1>3. faults' \in 0 .. MaxFaults /\ faults' # 0 /\ disturbed'
  BY <1>1, <1>2, FaultFacts, Zenon
<1>4. disturbed' \in BOOLEAN
  BY <1>1, Zenon DEF Fault
<1>5. status'[p] \notin {"running", "idle"}
  BY <1>1, <1>2, Zenon DEF Types
<1>6. QED
  BY <1>1, <1>3, <1>4, <1>5, HangUpBase, Zenon

(* The steps of the protocols are all of this form. *)
LEMMA PartySteps ==
  ASSUME NEW p \in Parties
  PROVE  /\ HandlerLoop(p) => TakeMessage(p) /\ Moves(p)
         /\ AcceptIncomplete(p) => TakeMessage(p) /\ Moves(p)
         /\ FrostReceive(p) => TakeMessage(p) /\ Moves(p)
         /\ Finalize(p) => Running(p) /\ Moves(p)
         /\ Timeout(p) => Running(p) /\ Moves(p)
<1>1. HandlerLoop(p) => TakeMessage(p) /\ Moves(p)
  BY Zenon DEF HandlerLoop, Moves
<1>2. AcceptIncomplete(p) => TakeMessage(p) /\ Moves(p)
  BY Zenon DEF AcceptIncomplete, Moves
<1>3. FrostReceive(p) => TakeMessage(p) /\ Moves(p)
  BY Zenon DEF FrostReceive, Moves
<1>4. Finalize(p) => Running(p) /\ Moves(p)
  BY Zenon DEF Finalize, NextIs, Moves
<1>5. Timeout(p) => Running(p) /\ Moves(p)
  BY Zenon DEF Timeout, NextIs, Moves
<1>6. QED
  BY <1>1, <1>2, <1>3, <1>4, <1>5, Zenon

LEMMA NextBase ==
  ASSUME BaseInv, [Next]_vars
  PROVE  BaseInv'
<1>1. CASE UNCHANGED vars
  <2>1. /\ protocol' = protocol /\ attempt' = attempt /\ status' = status /\ pos' = pos
        /\ have' = have /\ stream' = stream /\ consumer' = consumer /\ unacked' = unacked
        /\ link' = link /\ wire' = wire /\ out' = out /\ faults' = faults /\ sent' = sent
        /\ handed' = handed /\ taken' = taken /\ disturbed' = disturbed
    BY <1>1, Zenon DEF vars
  <2>2. Types' /\ SentInv'
    BY <2>1, Zenon DEF BaseInv, Types, SentInv, Running
  <2>3. ASSUME NEW p \in Parties PROVE LinkInv(p)' /\ ScriptInv(p)' /\ QueueInv(p)'
    BY <2>1, LinkFrame, ScriptFrame, QueueFrame, Zenon DEF BaseInv
  <2>4. QED
    BY <2>2, <2>3, Zenon DEF BaseInv
<1>2. ASSUME NEW p \in Parties, Progress(p) \/ Timeout(p) PROVE BaseInv'
  <2>1. CASE HandlerLoop(p) \/ AcceptIncomplete(p) \/ FrostReceive(p)
    BY <2>1, PartySteps, TakeBase, Zenon
  <2>2. CASE Finalize(p)
    <3>1. /\ protocol' = protocol /\ attempt' = attempt /\ have' = have /\ UNCHANGED queue
          /\ UNCHANGED conn /\ faults' = faults /\ sent' = sent /\ handed' = handed
          /\ taken' = taken /\ disturbed' \in {disturbed, TRUE}
      BY <2>2, Zenon DEF Finalize, history
    <3>2. QED
      BY <2>2, <3>1, PartySteps, MoveBase, Zenon
  <2>3. CASE Timeout(p)
    <3>1. /\ protocol' = protocol /\ attempt' = attempt /\ have' = have /\ UNCHANGED queue
          /\ UNCHANGED conn /\ faults' = faults /\ sent' = sent /\ handed' = handed
          /\ taken' = taken /\ disturbed' \in {disturbed, TRUE}
      BY <2>3, Zenon DEF Timeout
    <3>2. QED
      BY <2>3, <3>1, PartySteps, MoveBase, Zenon
  <2>4. QED
    BY <1>2, <2>1, <2>2, <2>3, SendBase, ReceivingBase, DoneBase, Zenon DEF Progress
<1>3. ASSUME NEW p \in Parties, Serve(p) PROVE BaseInv'
  BY <1>3, DeliverBase, AckBase, SubscribeBase, UnsubscribeBase, Zenon DEF Serve
<1>4. ASSUME NEW p \in Parties,
             SendFails(p) \/ Redeliver(p) \/ Expire(p) \/ ClientRestart(p) \/ NewClient(p)
      PROVE  BaseInv'
  BY <1>4, SendFailsBase, RedeliverBase, ExpireBase, ClientRestartBase, NewClientBase, Zenon
<1>5. QED
  BY <1>1, <1>2, <1>3, <1>4, RelayRestartBase, Zenon DEF Next

-----------------------------------------------------------------------------
(* StreamInv: while nothing fails, order is kept and nothing is dropped    *)
(* before it was handed over.                                              *)

LEMMA SortedAppend ==
  ASSUME NEW S, NEW s \in Seq(S), NEW e \in S, Sorted(s), Before(Elements(s), {e})
  PROVE  Sorted(Append(s, e))
<1>1. SUFFICES ASSUME NEW i \in DOMAIN Append(s, e), NEW j \in DOMAIN Append(s, e), i < j
               PROVE  ~ Newer(Append(s, e)[i], Append(s, e)[j])
  BY Zenon DEF Sorted
<1>2. /\ DOMAIN Append(s, e) = 1 .. Len(s) + 1 /\ DOMAIN s = 1 .. Len(s) /\ Len(s) \in Nat
      /\ \A k \in 1 .. Len(s) : Append(s, e)[k] = s[k]
      /\ Append(s, e)[Len(s) + 1] = e
  OBVIOUS
<1>3. i \in DOMAIN s /\ Append(s, e)[i] = s[i]
  BY <1>1, <1>2
<1>4. CASE j \in DOMAIN s
  <2>1. Append(s, e)[j] = s[j]
    BY <1>2, <1>4, Zenon
  <2>2. QED
    BY <1>1, <1>3, <1>4, <2>1, Zenon DEF Sorted
<1>5. CASE j = Len(s) + 1
  BY <1>2, <1>3, <1>5, Zenon DEF Before, Elements
<1>6. QED
  BY <1>2, <1>4, <1>5

LEMMA SortedTail ==
  ASSUME NEW S, NEW s \in Seq(S), Sorted(s), s # <<>>
  PROVE  Sorted(Tail(s)) /\ Before({Head(s)}, Elements(Tail(s)))
<1>1. /\ DOMAIN Tail(s) = 1 .. Len(s) - 1 /\ DOMAIN s = 1 .. Len(s) /\ Len(s) \in Nat /\ Len(s) > 0
      /\ \A k \in 1 .. Len(s) - 1 : Tail(s)[k] = s[k + 1]
      /\ Head(s) = s[1]
  OBVIOUS
<1>2. ASSUME NEW i \in DOMAIN Tail(s), NEW j \in DOMAIN Tail(s), i < j
      PROVE  ~ Newer(Tail(s)[i], Tail(s)[j])
  <2> DEFINE k == i + 1
  <2> DEFINE l == j + 1
  <2>1. k \in DOMAIN s /\ l \in DOMAIN s /\ k < l /\ Tail(s)[i] = s[k] /\ Tail(s)[j] = s[l]
    BY <1>1, <1>2
  <2> HIDE DEF k, l
  <2>2. QED
    BY <2>1, Zenon DEF Sorted
<1>3. ASSUME NEW j \in DOMAIN Tail(s) PROVE ~ Newer(Head(s), Tail(s)[j])
  <2> DEFINE l == j + 1
  <2>1. 1 \in DOMAIN s /\ l \in DOMAIN s /\ 1 < l /\ Tail(s)[j] = s[l]
    BY <1>1, <1>3
  <2> HIDE DEF l
  <2>2. QED
    BY <1>1, <2>1, Zenon DEF Sorted
<1>4. QED
  BY <1>2, <1>3, Zenon DEF Sorted, Before, Elements

LEMMA SortedHead ==
  ASSUME NEW p \in Parties, NEW s \in Seq(To(p)), Sorted(s), s # <<>>
  PROVE  Before({Head(s)}, Elements(s))
<1>1. Head(s) \in To(p) /\ Elements(s) = {Head(s)} \cup Elements(Tail(s))
  BY TailFacts, Zenon
<1>2. Before({Head(s)}, Elements(Tail(s)))
  BY SortedTail, Zenon
<1>3. Head(s).attempt \in Nat /\ Head(s).n \in Nat
  BY <1>1, ToFacts, MessageFacts, Zenon
<1>4. ~ Newer(Head(s), Head(s))
  BY <1>3 DEF Newer
<1>5. QED
  BY <1>1, <1>2, <1>4, Zenon DEF Before

LEMMA SortedEmpty == Sorted(<<>>) /\ \A S : Before({}, S) /\ Before(S, {})
<1>1. DOMAIN <<>> = {}
  OBVIOUS
<1>2. QED
  BY <1>1, Zenon DEF Sorted, Before

(* What p sends is newer than what it has sent. *)
LEMMA OutgoingNewest ==
  ASSUME BaseInv, NEW p \in Parties, NextIs(p, "send"), NEW x \in sent, x.from = p
  PROVE  ~ Newer(x, Outgoing(p))
<1>1. Types /\ SentInv /\ ScriptInv(p) /\ LinkInv(p) /\ Running(p)
  BY Zenon DEF BaseInv, NextIs
<1>2. /\ Outgoing(p).attempt = attempt[p] /\ Outgoing(p).n = Sends(protocol, p, pos[p]) + 1
  BY OutgoingFacts, Zenon
<1>3. x \in Messages /\ x.attempt <= attempt[p]
      /\ (x.attempt = attempt[p] => x.n <= Sends(protocol, p, pos[p]))
  BY <1>1, Zenon DEF SentInv
<1>4. x.attempt \in Nat /\ x.n \in Nat /\ attempt[p] \in Nat
      /\ Sends(protocol, p, pos[p]) \in Nat
  BY <1>1, <1>3, MessageFacts, HereFacts, SendFacts, Zenon
<1>5. QED
  BY <1>2, <1>3, <1>4 DEF Newer

LEMMA ElementsTo ==
  ASSUME NEW S, NEW s \in Seq(S)
  PROVE  Elements(s) \subseteq S
<1>1. \A i \in DOMAIN s : s[i] \in S
  OBVIOUS
<1>2. QED
  BY <1>1, Zenon DEF Elements

LEMMA OrderFrame ==
  ASSUME NEW p \in Parties, OrderInv(p), out'[p] = out[p], wire'[p] = wire[p],
         stream'[p] = stream[p], TakenBy(p)' = TakenBy(p)
  PROVE  OrderInv(p)'
BY ZenonT(30) DEF OrderInv, Sorted, Before, Elements, Newer

LEMMA KeptFrame ==
  ASSUME NEW p \in Parties, KeptInv(p), sent' = sent, handed \subseteq handed',
         stream'[p] = stream[p]
  PROVE  KeptInv(p)'
BY Zenon DEF KeptInv, Elements

LEMMA SendStream ==
  ASSUME BaseInv, NEW p \in Parties, \A r \in Parties : OrderInv(r) /\ KeptInv(r), Send(p)
  PROVE  \A r \in Parties : OrderInv(r)' /\ KeptInv(r)'
<1> DEFINE q == Other(p)
<1> DEFINE m == Outgoing(p)
<1>1. /\ Types /\ SentInv /\ QueueInv(q) /\ NextIs(p, "send")
      /\ q \in Parties /\ q # p /\ Other(q) = p /\ \A r \in Parties : r = p \/ r = q
  BY PartyFacts, Zenon DEF BaseInv, Send
<1>2. m \in Messages /\ m.from = p
  BY <1>1, OutgoingFacts, Zenon
<1>3. \A x \in sent : x.from = p => ~ Newer(x, m)
  BY <1>1, OutgoingNewest, Zenon
<1>4. ~ Newer(m, m)
  <2>1. m.attempt \in Nat /\ m.n \in Nat
    BY <1>2, MessageFacts, Zenon
  <2>2. QED
    BY <2>1 DEF Newer
<1>5. /\ stream' = [stream EXCEPT ![q] = Append(stream[q], m)] /\ sent' = sent \cup {m}
      /\ wire' = wire /\ out' = out /\ taken' = taken /\ handed' = handed
  BY Zenon DEF Send, conn
<1> HIDE DEF m, q
<1>6. stream'[q] = Append(stream[q], m) /\ stream'[p] = stream[p]
  BY <1>1, <1>5, Zenon DEF Types
<1>7. /\ stream[q] \in Seq(To(q)) /\ wire[q] \in Seq(To(q)) /\ out[q] \in Seq(To(q)) /\ m \in To(q)
      /\ Elements(stream[q]) \subseteq sent /\ Elements(wire[q]) \subseteq sent
      /\ Elements(out[q]) \subseteq sent /\ TakenBy(q) \subseteq sent
  BY <1>1, <1>2, ToFacts, Zenon DEF QueueInv, SentInv, TakenBy
<1>8. /\ \A x \in Elements(stream[q]) : x.from = p
      /\ \A x \in Elements(wire[q]) : x.from = p
      /\ \A x \in Elements(out[q]) : x.from = p
  BY <1>1, <1>7, ElementsTo, ToFacts, Zenon
<1>9. /\ Before(Elements(stream[q]), {m}) /\ Before(Elements(wire[q]), {m})
      /\ Before(Elements(out[q]), {m}) /\ Before(TakenBy(q), {m})
  BY <1>1, <1>3, <1>7, <1>8, ZenonT(30) DEF Before, TakenBy
<1>10. Elements(stream'[q]) = Elements(stream[q]) \cup {m}
  <2>1. Elements(Append(stream[q], m)) = Elements(stream[q]) \cup {m}
    <3>1. stream[q] \in Seq(To(q)) /\ m \in To(q)
      BY <1>7, Zenon
    <3>2. QED
      BY <3>1, ElementsAppend, SMTT(30)
  <2>2. QED
    BY <1>6, <2>1, Zenon
<1>11. Sorted(stream'[q])
  <2>1. Sorted(stream[q])
    BY <1>1, Zenon DEF OrderInv
  <2>2. QED
    BY <1>6, <1>7, <1>9, <2>1, SortedAppend, Zenon
<1>12. TakenBy(q)' = TakenBy(q) /\ TakenBy(p)' = TakenBy(p)
  BY <1>5, Zenon DEF TakenBy
<1>13. OrderInv(q)'
  <2>1. OrderInv(q)
    BY <1>1, Zenon
  <2>2. Sorted(out'[q]) /\ Sorted(wire'[q])
    BY <1>5, <2>1, Zenon DEF OrderInv
  <2>3. /\ Before(Elements(out[q]), Elements(wire[q]) \cup Elements(stream'[q]))
        /\ Before(Elements(wire[q]), Elements(stream'[q]))
        /\ Before(TakenBy(q), Elements(out[q]) \cup Elements(wire[q]) \cup Elements(stream'[q]))
    BY <1>9, <1>10, <2>1, Zenon DEF OrderInv, Before
  <2>4. QED
    BY <1>5, <1>11, <1>12, <2>2, <2>3, Zenon DEF OrderInv
<1>14. OrderInv(p)'
  BY <1>1, <1>5, <1>6, <1>12, OrderFrame, Zenon
<1>15. KeptInv(q)' /\ KeptInv(p)'
  <2>1. KeptInv(q) /\ KeptInv(p)
    BY <1>1, Zenon
  <2>2. KeptInv(q)'
    BY <1>5, <1>10, <2>1, Zenon DEF KeptInv
  <2>3. m.from # Other(p)
    BY <1>1, <1>2, Zenon DEF q
  <2>4. KeptInv(p)'
    BY <1>5, <1>6, <2>1, <2>3, Zenon DEF KeptInv
  <2>5. QED
    BY <2>2, <2>4, Zenon
<1>16. QED
  BY <1>1, <1>13, <1>14, <1>15, Zenon

LEMMA TakeStream ==
  ASSUME BaseInv, NEW p \in Parties, \A r \in Parties : OrderInv(r) /\ KeptInv(r), TakeMessage(p)
  PROVE  \A r \in Parties : OrderInv(r)' /\ KeptInv(r)'
<1> DEFINE h == Head(out[p])
<1>1. /\ Types /\ QueueInv(p) /\ OrderInv(p) /\ out[p] # <<>>
      /\ out' = [out EXCEPT ![p] = Tail(out[p])] /\ taken' = taken \cup {h}
      /\ wire' = wire /\ stream' = stream /\ sent' = sent /\ handed' = handed
  BY Zenon DEF BaseInv, TakeMessage, queue
<1>2. out[p] \in Seq(To(p))
  BY <1>1, Zenon DEF QueueInv
<1>3. h \in To(p) /\ Elements(out[p]) = {h} \cup Elements(Tail(out[p]))
  BY <1>1, <1>2, TailFacts, Zenon
<1>4. Sorted(Tail(out[p])) /\ Before({h}, Elements(Tail(out[p])))
  <2>1. Sorted(out[p])
    BY <1>1, Zenon DEF OrderInv
  <2>2. QED
    BY <1>1, <1>2, <2>1, SortedTail, Zenon
<1> HIDE DEF h
<1>5. out'[p] = Tail(out[p]) /\ \A r \in Parties : r # p => out'[r] = out[r]
  BY <1>1, Zenon DEF Types
<1>6. TakenBy(p)' \subseteq TakenBy(p) \cup {h}
  BY <1>1, Zenon DEF TakenBy
<1>7. OrderInv(p)'
  <2>1. /\ Before(Elements(Tail(out[p])), Elements(wire[p]) \cup Elements(stream[p]))
        /\ Before(TakenBy(p)', Elements(Tail(out[p])) \cup Elements(wire[p]) \cup Elements(stream[p]))
    BY <1>1, <1>3, <1>4, <1>6, Zenon DEF OrderInv, Before
  <2>2. QED
    BY <1>1, <1>4, <1>5, <2>1, Zenon DEF OrderInv
<1>8. ASSUME NEW r \in Parties, r # p PROVE OrderInv(r)'
  <2>1. h.from = Other(p) /\ Other(r) # Other(p)
    BY <1>3, <1>8, ToFacts, PartyFacts, Zenon
  <2>2. TakenBy(r)' = TakenBy(r)
    BY <1>1, <2>1, Zenon DEF TakenBy
  <2>3. QED
    BY <1>1, <1>5, <1>8, <2>2, OrderFrame, Zenon
<1>9. ASSUME NEW r \in Parties PROVE KeptInv(r)'
  BY <1>1, KeptFrame, Zenon
<1>10. QED
  BY <1>7, <1>8, <1>9, Zenon

LEMMA ReceivingStream ==
  ASSUME BaseInv, NEW p \in Parties, \A r \in Parties : OrderInv(r) /\ KeptInv(r), receiving(p)
  PROVE  \A r \in Parties : OrderInv(r)' /\ KeptInv(r)'
<1> DEFINE h == Head(wire[p])
<1>1. /\ Types /\ QueueInv(p) /\ OrderInv(p) /\ wire[p] # <<>>
      /\ wire' = [wire EXCEPT ![p] = Tail(wire[p])]
      /\ out' = [out EXCEPT ![p] = Append(out[p], h)]
      /\ taken' = taken /\ stream' = stream /\ sent' = sent /\ handed' = handed
  BY Zenon DEF BaseInv, receiving, queue, history
<1>2. wire[p] \in Seq(To(p)) /\ out[p] \in Seq(To(p)) /\ Sorted(wire[p]) /\ Sorted(out[p])
  BY <1>1, Zenon DEF QueueInv, OrderInv
<1>3. h \in To(p) /\ Elements(wire[p]) = {h} \cup Elements(Tail(wire[p]))
  BY <1>1, <1>2, TailFacts, Zenon
<1>4. Sorted(Tail(wire[p])) /\ Before({h}, Elements(Tail(wire[p])))
  BY <1>1, <1>2, SortedTail, Zenon
<1>5. /\ Elements(Append(out[p], h)) = Elements(out[p]) \cup {h}
  BY <1>2, <1>3, AppendFacts
<1>6. Before(Elements(out[p]), {h})
  BY <1>1, <1>3, ZenonT(30) DEF OrderInv, Before
<1>7. Sorted(Append(out[p], h))
  BY <1>2, <1>3, <1>6, SortedAppend, Zenon
<1> HIDE DEF h
<1>8. /\ out'[p] = Append(out[p], h) /\ wire'[p] = Tail(wire[p])
      /\ \A r \in Parties : r # p => out'[r] = out[r] /\ wire'[r] = wire[r]
  BY <1>1, Zenon DEF Types
<1>9. \A r \in Parties : TakenBy(r)' = TakenBy(r)
  BY <1>1, Zenon DEF TakenBy
<1>10. OrderInv(p)'
  <2>1. /\ Elements(out'[p]) = Elements(out[p]) \cup {h}
        /\ Elements(wire'[p]) \subseteq Elements(wire[p]) /\ h \in Elements(wire[p])
        /\ Before({h}, Elements(wire'[p]))
    BY <1>3, <1>4, <1>5, <1>8, Zenon
  <2>2. /\ Before(Elements(out[p]), Elements(wire[p]) \cup Elements(stream[p]))
        /\ Before(Elements(wire[p]), Elements(stream[p]))
        /\ Before(TakenBy(p), Elements(out[p]) \cup Elements(wire[p]) \cup Elements(stream[p]))
    BY <1>1, Zenon DEF OrderInv
  <2>3. Before(Elements(out'[p]), Elements(wire'[p]) \cup Elements(stream[p]))
    BY <2>1, <2>2, Zenon DEF Before
  <2>4. Before(Elements(wire'[p]), Elements(stream[p]))
    BY <2>1, <2>2, Zenon DEF Before
  <2>5. Before(TakenBy(p), Elements(out'[p]) \cup Elements(wire'[p]) \cup Elements(stream[p]))
    BY <2>1, <2>2, Zenon DEF Before
  <2>6. QED
    BY <1>1, <1>2, <1>4, <1>7, <1>8, <1>9, <2>3, <2>4, <2>5, Zenon DEF OrderInv
<1>11. ASSUME NEW r \in Parties, r # p PROVE OrderInv(r)'
  BY <1>1, <1>8, <1>9, <1>11, OrderFrame, Zenon
<1>12. ASSUME NEW r \in Parties PROVE KeptInv(r)'
  BY <1>1, KeptFrame, ZenonT(30)
<1>13. QED
  BY <1>10, <1>11, <1>12, Zenon

LEMMA DeliverStream ==
  ASSUME BaseInv, NEW p \in Parties, \A r \in Parties : OrderInv(r) /\ KeptInv(r), Deliver(p)
  PROVE  \A r \in Parties : OrderInv(r)' /\ KeptInv(r)'
<1> DEFINE h == Head(stream[p])
<1>1. /\ Types /\ QueueInv(p) /\ OrderInv(p) /\ stream[p] # <<>>
      /\ wire' = [wire EXCEPT ![p] = Append(wire[p], h)]
      /\ out' = out /\ taken' = taken /\ stream' = stream /\ sent' = sent
      /\ handed' = handed \cup {h}
  BY Zenon DEF BaseInv, Deliver
<1>2. /\ wire[p] \in Seq(To(p)) /\ stream[p] \in Seq(To(p)) /\ Sorted(wire[p])
      /\ Sorted(stream[p]) /\ Sorted(out[p])
  BY <1>1, Zenon DEF QueueInv, OrderInv
<1>3. h \in To(p) /\ Elements(stream[p]) = {h} \cup Elements(Tail(stream[p]))
  BY <1>1, <1>2, TailFacts, ZenonT(30)
<1>4. Before({h}, Elements(stream[p]))
  BY <1>1, <1>2, SortedHead, Zenon
<1>5. Elements(Append(wire[p], h)) = Elements(wire[p]) \cup {h}
  BY <1>2, <1>3, AppendFacts
<1>6. Before(Elements(wire[p]), {h})
  BY <1>1, <1>3, ZenonT(30) DEF OrderInv, Before
<1>7. Sorted(Append(wire[p], h))
  BY <1>2, <1>3, <1>6, SortedAppend, Zenon
<1> HIDE DEF h
<1>8. /\ wire'[p] = Append(wire[p], h) /\ \A r \in Parties : r # p => wire'[r] = wire[r]
  BY <1>1, Zenon DEF Types
<1>9. \A r \in Parties : TakenBy(r)' = TakenBy(r)
  BY <1>1, Zenon DEF TakenBy
<1>10. OrderInv(p)'
  <2>1. /\ Before(Elements(out[p]), Elements(wire'[p]) \cup Elements(stream[p]))
        /\ Before(Elements(wire'[p]), Elements(stream[p]))
        /\ Before(TakenBy(p), Elements(out[p]) \cup Elements(wire'[p]) \cup Elements(stream[p]))
    BY <1>1, <1>3, <1>4, <1>5, <1>8, Zenon DEF OrderInv, Before
  <2>2. QED
    BY <1>1, <1>2, <1>7, <1>8, <1>9, <2>1, Zenon DEF OrderInv
<1>11. ASSUME NEW r \in Parties, r # p PROVE OrderInv(r)'
  BY <1>1, <1>8, <1>9, <1>11, OrderFrame, Zenon
<1>12. ASSUME NEW r \in Parties PROVE KeptInv(r)'
  <2>1. handed \subseteq handed'
    BY <1>1, Zenon
  <2>2. QED
    BY <1>1, <2>1, KeptFrame, Zenon
<1>13. QED
  BY <1>10, <1>11, <1>12, Zenon

LEMMA AckStream ==
  ASSUME BaseInv, NEW p \in Parties, \A r \in Parties : OrderInv(r) /\ KeptInv(r), Ack(p)
  PROVE  \A r \in Parties : OrderInv(r)' /\ KeptInv(r)'
<1>1. /\ Types /\ QueueInv(p) /\ OrderInv(p) /\ KeptInv(p) /\ unacked[p]
      /\ stream' = [stream EXCEPT ![p] = Tail(stream[p])]
      /\ wire' = wire /\ out' = out /\ taken' = taken /\ sent' = sent /\ handed' = handed
  BY Zenon DEF BaseInv, Ack, conn, history
<1>2. /\ stream[p] \in Seq(To(p)) /\ Sorted(stream[p]) /\ stream[p] # <<>>
      /\ stream[p][1] \in handed
  BY <1>1, Zenon DEF QueueInv, OrderInv
<1>3. Head(stream[p]) = stream[p][1]
      /\ Elements(stream[p]) = {Head(stream[p])} \cup Elements(Tail(stream[p]))
  BY <1>2, TailFacts, Zenon
<1>4. Sorted(Tail(stream[p]))
  BY <1>2, SortedTail, Zenon
<1>5. stream'[p] = Tail(stream[p]) /\ \A r \in Parties : r # p => stream'[r] = stream[r]
  BY <1>1, Zenon DEF Types
<1>6. \A r \in Parties : TakenBy(r)' = TakenBy(r)
  BY <1>1, Zenon DEF TakenBy
<1>7. OrderInv(p)'
  <2>1. Elements(stream'[p]) \subseteq Elements(stream[p])
    BY <1>3, <1>5, Zenon
  <2>2. /\ Before(Elements(out[p]), Elements(wire[p]) \cup Elements(stream'[p]))
        /\ Before(Elements(wire[p]), Elements(stream'[p]))
        /\ Before(TakenBy(p), Elements(out[p]) \cup Elements(wire[p]) \cup Elements(stream'[p]))
    BY <1>1, <2>1, Zenon DEF OrderInv, Before
  <2>3. QED
    BY <1>1, <1>4, <1>5, <1>6, <2>2, Zenon DEF OrderInv
<1>8. KeptInv(p)'
  BY <1>1, <1>2, <1>3, <1>5, Zenon DEF KeptInv
<1>9. ASSUME NEW r \in Parties, r # p PROVE OrderInv(r)' /\ KeptInv(r)'
  <2>1. handed \subseteq handed'
    BY <1>1, ZenonT(30)
  <2>2. QED
    BY <1>1, <1>5, <1>6, <1>9, <2>1, OrderFrame, KeptFrame, Zenon
<1>10. QED
  BY <1>7, <1>8, <1>9, Zenon

LEMMA DoneStream ==
  ASSUME BaseInv, NEW p \in Parties, \A r \in Parties : OrderInv(r) /\ KeptInv(r), Done(p)
  PROVE  \A r \in Parties : OrderInv(r)' /\ KeptInv(r)'
<1>1. /\ Types /\ OrderInv(p)
      /\ wire' = [wire EXCEPT ![p] = <<>>] /\ out' = [out EXCEPT ![p] = <<>>]
      /\ stream' = stream /\ taken' = taken /\ sent' = sent /\ handed' = handed
  BY Zenon DEF BaseInv, Done, HangUp, queue, history
<1>2. /\ wire'[p] = <<>> /\ out'[p] = <<>>
      /\ \A r \in Parties : r # p => out'[r] = out[r] /\ wire'[r] = wire[r]
  BY <1>1, Zenon DEF Types
<1>3. \A r \in Parties : TakenBy(r)' = TakenBy(r)
  BY <1>1, Zenon DEF TakenBy
<1>4. Elements(<<>>) = {} /\ Sorted(<<>>)
  BY EmptyFacts, SortedEmpty, Zenon
<1>5. OrderInv(p)'
  <2>1. Before(TakenBy(p), Elements(stream[p])) /\ Sorted(stream[p])
    BY <1>1, Zenon DEF OrderInv, Before
  <2>2. Before(TakenBy(p), {} \cup {} \cup Elements(stream[p]))
    BY <2>1, Zenon DEF Before
  <2>3. Before({}, {} \cup Elements(stream[p])) /\ Before({}, Elements(stream[p]))
    BY Zenon DEF Before
  <2>4. QED
    BY <1>1, <1>2, <1>3, <1>4, <2>1, <2>2, <2>3, Zenon DEF OrderInv
<1>6. ASSUME NEW r \in Parties, r # p PROVE OrderInv(r)'
  BY <1>1, <1>2, <1>3, <1>6, OrderFrame, Zenon
<1>7. ASSUME NEW r \in Parties PROVE KeptInv(r)'
  BY <1>1, KeptFrame, Zenon
<1>8. QED
  BY <1>5, <1>6, <1>7, Zenon

LEMMA QuietStream ==
  ASSUME \A r \in Parties : OrderInv(r) /\ KeptInv(r), out' = out, wire' = wire,
         stream' = stream, sent' = sent, handed' = handed, taken' = taken
  PROVE  \A r \in Parties : OrderInv(r)' /\ KeptInv(r)'
<1>1. ASSUME NEW r \in Parties PROVE OrderInv(r)' /\ KeptInv(r)'
  <2>1. TakenBy(r)' = TakenBy(r)
    BY Zenon DEF TakenBy
  <2>2. QED
    BY <2>1, OrderFrame, KeptFrame, Zenon
<1>2. QED
  BY <1>1, Zenon

LEMMA FaultsGrow ==
  ASSUME Types, NEW p \in Parties,
         \/ SendFails(p) \/ Redeliver(p) \/ Expire(p) \/ ClientRestart(p) \/ RelayRestart
  PROVE  faults' # 0 /\ disturbed'
<1>1. Fault
  BY Zenon DEF SendFails, Redeliver, Expire, ClientRestart, RelayRestart
<1>2. QED
  BY <1>1, FaultFacts, Zenon

LEMMA NextStream ==
  ASSUME BaseInv, StreamInv, [Next]_vars
  PROVE  StreamInv'
<1>1. SUFFICES ASSUME faults' = 0 PROVE \A r \in Parties : OrderInv(r)' /\ KeptInv(r)'
  BY Zenon DEF StreamInv
<1>2. ASSUME NEW p \in Parties,
             \/ SendFails(p) \/ Redeliver(p) \/ Expire(p) \/ ClientRestart(p) \/ RelayRestart
      PROVE  FALSE
  BY <1>1, <1>2, FaultsGrow, Zenon DEF BaseInv
<1>3. Sender \in Parties
  BY Zenon DEF Parties
<1>4. ASSUME faults' = faults PROVE \A r \in Parties : OrderInv(r) /\ KeptInv(r)
  BY <1>1, <1>4, Zenon DEF StreamInv
<1>5. CASE UNCHANGED vars
  <2>1. /\ out' = out /\ wire' = wire /\ stream' = stream /\ sent' = sent
        /\ handed' = handed /\ taken' = taken /\ faults' = faults
    BY <1>5, Zenon DEF vars
  <2>2. QED
    BY <1>4, <2>1, QuietStream, Zenon
<1>6. ASSUME NEW p \in Parties, Progress(p) PROVE \A r \in Parties : OrderInv(r)' /\ KeptInv(r)'
  <2>1. CASE Send(p)
    <3>1. faults' = faults
      BY <2>1, Zenon DEF Send
    <3>2. QED
      BY <1>4, <2>1, <3>1, SendStream, Zenon
  <2>2. CASE receiving(p)
    <3>1. faults' = faults
      BY <2>2, Zenon DEF receiving
    <3>2. QED
      BY <1>4, <2>2, <3>1, ReceivingStream, Zenon
  <2>3. CASE HandlerLoop(p) \/ AcceptIncomplete(p) \/ FrostReceive(p)
    <3>1. TakeMessage(p)
      BY <2>3, PartySteps, Zenon
    <3>2. faults' = faults
      BY <3>1, Zenon DEF TakeMessage
    <3>3. QED
      BY <1>4, <3>1, <3>2, TakeStream, Zenon
  <2>4. CASE Finalize(p)
    <3>1. /\ out' = out /\ wire' = wire /\ stream' = stream /\ sent' = sent
          /\ handed' = handed /\ taken' = taken /\ faults' = faults
      BY <2>4, Zenon DEF Finalize, queue, conn, history
    <3>2. QED
      BY <1>4, <3>1, QuietStream, Zenon
  <2>5. CASE Done(p)
    <3>1. faults' = faults
      BY <2>5, Zenon DEF Done
    <3>2. QED
      BY <1>4, <2>5, <3>1, DoneStream, Zenon
  <2>6. QED
    BY <1>6, <2>1, <2>2, <2>3, <2>4, <2>5, Zenon DEF Progress
<1>7. ASSUME NEW p \in Parties, Serve(p) PROVE \A r \in Parties : OrderInv(r)' /\ KeptInv(r)'
  <2>1. CASE Deliver(p)
    <3>1. faults' = faults
      BY <2>1, Zenon DEF Deliver
    <3>2. QED
      BY <1>4, <2>1, <3>1, DeliverStream, Zenon
  <2>2. CASE Ack(p)
    <3>1. faults' = faults
      BY <2>2, Zenon DEF Ack
    <3>2. QED
      BY <1>4, <2>2, <3>1, AckStream, Zenon
  <2>3. ASSUME NEW a \in Attempts, Subscribe(p, a) \/ Unsubscribe(p, a)
        PROVE  /\ out' = out /\ wire' = wire /\ stream' = stream /\ sent' = sent
               /\ handed' = handed /\ taken' = taken /\ faults' = faults
    BY <2>3, Zenon DEF Subscribe, Unsubscribe, history
  <2>4. QED
    BY <1>4, <1>7, <2>1, <2>2, <2>3, QuietStream, ZenonT(30) DEF Serve
<1>8. ASSUME NEW p \in Parties, NewClient(p) \/ Timeout(p)
      PROVE  \A r \in Parties : OrderInv(r)' /\ KeptInv(r)'
  <2>1. /\ out' = out /\ wire' = wire /\ stream' = stream /\ sent' = sent
        /\ handed' = handed /\ taken' = taken /\ faults' = faults
    BY <1>8, Zenon DEF NewClient, Timeout, queue, conn
  <2>2. QED
    BY <1>4, <2>1, QuietStream, Zenon
<1>9. QED
  BY <1>2, <1>3, <1>5, <1>6, <1>7, <1>8, Zenon DEF Next

-----------------------------------------------------------------------------
LEMMA JoinFacts ==
  ASSUME NEW S, NEW s \in Seq(S), NEW t \in Seq(S)
  PROVE  /\ s \o t \in Seq(S) /\ Len(s) \in Nat
         /\ \A i \in DOMAIN (s \o t) : i \in Nat /\
              (\/ i \in DOMAIN s /\ i <= Len(s) /\ (s \o t)[i] = s[i]
               \/ i - Len(s) \in DOMAIN t /\ i > Len(s) /\ (s \o t)[i] = t[i - Len(s)])
  OBVIOUS

LEMMA ElementsJoin ==
  ASSUME NEW S, NEW s \in Seq(S), NEW t \in Seq(S)
  PROVE  Elements(s \o t) \subseteq Elements(s) \cup Elements(t)
<1>1. ASSUME NEW i \in DOMAIN (s \o t) PROVE (s \o t)[i] \in Elements(s) \cup Elements(t)
  <2>1. \/ i \in DOMAIN s /\ (s \o t)[i] = s[i]
        \/ i - Len(s) \in DOMAIN t /\ (s \o t)[i] = t[i - Len(s)]
    BY JoinFacts, Zenon
  <2>2. QED
    BY <2>1, Zenon DEF Elements
<1>2. QED
  BY <1>1, Zenon DEF Elements

LEMMA SortedJoin ==
  ASSUME NEW S, NEW s \in Seq(S), NEW t \in Seq(S), Sorted(s), Sorted(t),
         Before(Elements(s), Elements(t))
  PROVE  Sorted(s \o t)
<1>1. SUFFICES ASSUME NEW i \in DOMAIN (s \o t), NEW j \in DOMAIN (s \o t), i < j
               PROVE  ~ Newer((s \o t)[i], (s \o t)[j])
  BY ZenonT(30) DEF Sorted
<1>2. /\ i \in Nat /\ j \in Nat /\ Len(s) \in Nat
      /\ \/ i \in DOMAIN s /\ i <= Len(s) /\ (s \o t)[i] = s[i]
         \/ i - Len(s) \in DOMAIN t /\ i > Len(s) /\ (s \o t)[i] = t[i - Len(s)]
      /\ \/ j \in DOMAIN s /\ j <= Len(s) /\ (s \o t)[j] = s[j]
         \/ j - Len(s) \in DOMAIN t /\ j > Len(s) /\ (s \o t)[j] = t[j - Len(s)]
  BY JoinFacts, Zenon
<1>3. CASE i \in DOMAIN s /\ (s \o t)[i] = s[i] /\ j \in DOMAIN s /\ (s \o t)[j] = s[j]
  BY <1>1, <1>3, Zenon DEF Sorted
<1>4. CASE /\ i \in DOMAIN s /\ (s \o t)[i] = s[i]
           /\ j - Len(s) \in DOMAIN t /\ (s \o t)[j] = t[j - Len(s)]
  BY <1>4, Zenon DEF Before, Elements
<1>5. CASE /\ i - Len(s) \in DOMAIN t /\ (s \o t)[i] = t[i - Len(s)]
           /\ j - Len(s) \in DOMAIN t /\ (s \o t)[j] = t[j - Len(s)]
  <2>1. i - Len(s) < j - Len(s)
    BY <1>1, <1>2
  <2>2. QED
    BY <1>5, <2>1, Zenon DEF Sorted
<1>6. QED
  BY <1>1, <1>2, <1>3, <1>4, <1>5

LEMMA InOrder ==
  ASSUME BaseInv, StreamInv
  PROVE  ReadInOrder
<1>1. SUFFICES ASSUME faults = 0, NEW p \in Parties
               PROVE  /\ Sorted(ToRead(p))
                      /\ Before(TakenBy(p), Elements(ToRead(p)))
  <2>1. ASSUME NEW p \in Parties, NEW i \in DOMAIN ToRead(p), Sorted(ToRead(p)),
               Before(TakenBy(p), Elements(ToRead(p)))
        PROVE  /\ \A j \in DOMAIN ToRead(p) : i < j => ~ Newer(ToRead(p)[i], ToRead(p)[j])
               /\ \A m \in taken : m.from = Other(p) => ~ Newer(m, ToRead(p)[i])
    BY <2>1, Zenon DEF Sorted, Before, TakenBy, Elements
  <2>2. QED
    BY <2>1, Zenon DEF ReadInOrder
<1> DEFINE rest == IF unacked[p] THEN Tail(stream[p]) ELSE stream[p]
<1>2. /\ OrderInv(p) /\ QueueInv(p)
      /\ out[p] \in Seq(To(p)) /\ wire[p] \in Seq(To(p)) /\ stream[p] \in Seq(To(p))
      /\ Sorted(out[p]) /\ Sorted(wire[p]) /\ Sorted(stream[p])
      /\ unacked[p] => stream[p] # <<>>
  BY <1>1, Zenon DEF BaseInv, StreamInv, OrderInv, QueueInv
<1>3. rest \in Seq(To(p)) /\ Sorted(rest) /\ Elements(rest) \subseteq Elements(stream[p])
  <2>1. CASE unacked[p]
    BY <1>2, <2>1, TailFacts, SortedTail, ZenonT(30)
  <2>2. CASE ~ unacked[p]
    BY <1>2, <2>2, Zenon
  <2>3. QED
    BY <2>1, <2>2, ZenonT(30)
<1>4. ToRead(p) = (out[p] \o wire[p]) \o rest
  BY Zenon DEF ToRead
<1> HIDE DEF rest
<1>5. /\ Before(Elements(out[p]), Elements(wire[p]))
      /\ Before(Elements(out[p]) \cup Elements(wire[p]), Elements(rest))
      /\ Before(TakenBy(p), Elements(out[p]) \cup Elements(wire[p]) \cup Elements(rest))
  BY <1>2, <1>3, Zenon DEF OrderInv, Before
<1> DEFINE s == out[p] \o wire[p]
<1>6. s \in Seq(To(p)) /\ Elements(s) \subseteq Elements(out[p]) \cup Elements(wire[p])
  BY <1>2, JoinFacts, ElementsJoin, SMTT(30)
<1>7. Sorted(s)
  BY <1>2, <1>5, SortedJoin, Zenon
<1> HIDE DEF s
<1>8. Before(Elements(s), Elements(rest))
  BY <1>5, <1>6, Zenon DEF Before
<1>9. Sorted(s \o rest) /\ Elements(s \o rest) \subseteq Elements(s) \cup Elements(rest)
  BY <1>3, <1>6, <1>7, <1>8, SortedJoin, ElementsJoin, Zenon
<1>10. Before(TakenBy(p), Elements(s \o rest))
  BY <1>5, <1>6, <1>9, Zenon DEF Before
<1>11. QED
  BY <1>4, <1>9, <1>10, Zenon DEF s

LEMMA InitStream ==
  ASSUME Init
  PROVE  StreamInv
<1>1. SUFFICES ASSUME NEW p \in Parties PROVE OrderInv(p) /\ KeptInv(p)
  BY Zenon DEF StreamInv
<1>2. /\ stream[p] = <<>> /\ wire[p] = <<>> /\ out[p] = <<>> /\ sent = {} /\ taken = {}
  BY Zenon DEF Init
<1>3. Elements(<<>>) = {} /\ Sorted(<<>>)
  BY EmptyFacts, SortedEmpty, Zenon
<1>4. QED
  BY <1>2, <1>3, Zenon DEF OrderInv, KeptInv, Before, TakenBy

(* The invariant behind OrderOfReading, and that the state is well formed. *)
LEMMA StreamInvariance == Spec => [](BaseInv /\ StreamInv)
<1>1. Init => BaseInv /\ StreamInv
  BY InitBase, InitStream, Zenon
<1>2. BaseInv /\ StreamInv /\ [Next]_vars => (BaseInv /\ StreamInv)'
  BY NextBase, NextStream, Zenon
<1>3. QED
  BY <1>1, <1>2, PTL DEF Spec

(* While nothing fails a party reads the messages of the other in the      *)
(* order in which they were sent, over all its attempts: the queue, the    *)
(* stream and the buffer keep that order, and a message that is repeated   *)
(* comes before newer ones (Next, receiving, Done).                        *)
THEOREM OrderOfReading == Spec => []ReadInOrder
<1>1. BaseInv /\ StreamInv => ReadInOrder
  BY InOrder, Zenon
<1>2. QED
  BY <1>1, StreamInvariance, PTL

=============================================================================
