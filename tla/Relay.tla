------------------------------- MODULE Relay -------------------------------
(***************************************************************************)
(* The message relay (network/server.go), its client (network/client.go)   *)
(* and the two parties that run a protocol over it: HandlerLoop            *)
(* (network/network.go) with the CMP and FROST protocols in rounds, the    *)
(* incomplete ECDSA signature of a co-sign, and the FROST pair of          *)
(* mpc/mpcfrost/frost.go.                                                  *)
(*                                                                         *)
(* Messages to a party wait in a JetStream work queue.  The relay allows   *)
(* one subscription per subject, sends the head of the queue down the gRPC *)
(* stream and then acknowledges it, which takes it off the queue.  The     *)
(* client's receiver puts it into the buffer the protocol reads.           *)
(*                                                                         *)
(* An attempt of a party is one NewClient, its protocol, and Done; further *)
(* attempts use the same subjects, as a repeated request does.             *)
(***************************************************************************)
EXTENDS Integers, Sequences

CONSTANTS
  Sender, Acceptor,  \* the two parties
  Protocols,         \* those of "rounds", "ecdsa", "frost" to look at
  Rounds,            \* rounds of a CMP or FROST protocol
  OutSize,           \* capacity of the client's buffer (100)
  MaxAttempts,       \* bound: attempts of each party
  MaxFaults          \* bound: failures of relay, queue and clients

ASSUME RelayAssumption ==
  /\ Sender # Acceptor
  /\ Protocols \subseteq {"rounds", "ecdsa", "frost"}
  /\ {Rounds, OutSize, MaxAttempts} \subseteq Nat \ {0}
  /\ MaxFaults \in Nat

Parties == {Sender, Acceptor}
Other(p) == IF p = Sender THEN Acceptor ELSE Sender
Attempts == 1 .. MaxAttempts

(* The n-th message a party sends in an attempt; peer is the attempt of the *)
(* other party whose messages it has seen by then, or 0.                   *)
Messages == [from : Parties, attempt : Attempts, n : 1 .. Rounds + 1,
             peer : 0 .. MaxAttempts]

VARIABLES
  protocol,
  attempt,   \* the latest attempt of each party; 0 before the first
  status,    \* how it stands
  pos,       \* sends and receives of the protocol carried out
  have,      \* messages the protocol has accepted
  stream,    \* the work queue of each party's subject
  consumer,  \* the attempt that is subscribed to it; 0 if none
  unacked,   \* whether the head was sent and not yet acknowledged
  link,      \* the gRPC stream of each attempt
  wire,      \* what is under way on the stream of the latest attempt
  out,       \* and in its buffer
  faults,
  sent,      \* history: messages given to Send
  handed,    \* history: messages sent down a stream
  taken,     \* history: messages read from a buffer
  disturbed  \* history: a fault, a timeout, a late acknowledgement, or an
             \* attempt that came early

vars == <<protocol, attempt, status, pos, have, stream, consumer, unacked,
          link, wire, out, faults, sent, handed, taken, disturbed>>

party == <<attempt, status, pos, have>>
queue == <<stream, consumer, unacked>>
conn == <<link, wire, out>>
history == <<sent, handed, taken, disturbed>>

TypeOK ==
  /\ protocol \in Protocols
  /\ attempt \in [Parties -> 0 .. MaxAttempts]
  /\ status \in [Parties -> {"idle", "running", "stuck", "done", "failed", "timeout"}]
  /\ pos \in [Parties -> 0 .. 2 * Rounds + 3]
  /\ \A p \in Parties :
       /\ have[p] \subseteq {m \in Messages : m.from = Other(p)}
       /\ \A s \in {stream[p], wire[p], out[p]} : \A i \in DOMAIN s :
             s[i] \in {m \in Messages : m.from = Other(p)}
       /\ Len(out[p]) <= OutSize
       /\ unacked[p] => stream[p] # <<>> /\ consumer[p] # 0
  /\ consumer \in [Parties -> 0 .. MaxAttempts]
  /\ unacked \in [Parties -> BOOLEAN]
  /\ link \in [Parties -> [Attempts ->
        {"none", "dialing", "open", "dead", "cancelled", "closed"}]]
  /\ faults \in 0 .. MaxFaults
  /\ taken \subseteq handed /\ handed \subseteq sent /\ sent \subseteq Messages
  /\ disturbed \in BOOLEAN

Init ==
  /\ protocol \in Protocols
  /\ attempt = [p \in Parties |-> 0]
  /\ status = [p \in Parties |-> "idle"]
  /\ pos = [p \in Parties |-> 0]
  /\ have = [p \in Parties |-> {}]
  /\ stream = [p \in Parties |-> <<>>]
  /\ consumer = [p \in Parties |-> 0]
  /\ unacked = [p \in Parties |-> FALSE]
  /\ link = [p \in Parties |-> [a \in Attempts |-> "none"]]
  /\ wire = [p \in Parties |-> <<>>]
  /\ out = [p \in Parties |-> <<>>]
  /\ faults = 0
  /\ sent = {}
  /\ handed = {}
  /\ taken = {}
  /\ disturbed = FALSE

-----------------------------------------------------------------------------
(* The protocols: what a party sends and receives, in this order; n counts *)
(* the messages either way.                                                *)

Step(op, n) == [op |-> op, n |-> n]

Script(p) ==
  CASE protocol = "rounds" ->
         [i \in 1 .. 2 * Rounds |->
            IF i % 2 = 1 THEN Step("send", (i + 1) \div 2) ELSE Step("recv", i \div 2)]
    [] protocol = "ecdsa" /\ p = Sender -> <<Step("send", 1)>>
    [] protocol = "ecdsa" /\ p = Acceptor -> <<Step("recv", 1)>>
    [] protocol = "frost" /\ p = Sender ->
         <<Step("send", 1), Step("recv", 1), Step("send", 2)>>
    [] protocol = "frost" /\ p = Acceptor ->
         <<Step("send", 1), Step("recv", 1), Step("recv", 2)>>

Running(p) == status[p] = "running"

(* The next entry of the script. *)
At(p) == Script(p)[pos[p] + 1]

NextIs(p, op) == Running(p) /\ At(p).op = op

(* The script goes on by one; after its last entry the attempt has its     *)
(* result.                                                                 *)
Advance(p) ==
  /\ pos' = [pos EXCEPT ![p] = @ + 1]
  /\ status' = IF pos[p] + 1 = Len(Script(p)) THEN [status EXCEPT ![p] = "done"] ELSE status

-----------------------------------------------------------------------------
(* A client: NewClient, Send, Done and the receiver. *)

(* The stream of p's latest attempt. *)
Link(p) == IF attempt[p] = 0 THEN "none" ELSE link[p][attempt[p]]

SetLink(p, a, l) == link' = [link EXCEPT ![p][a] = l]

(* An attempt comes early if one before it is not over on both sides. *)
Early(p) ==
  attempt[p] > 0 /\ \E q \in Parties : link[q][attempt[p]] # "closed"

(* It does not wait for the relay to have subscribed. *)
NewClient(p) ==
  /\ attempt[p] < MaxAttempts
  /\ Link(p) \in {"none", "cancelled", "closed"}
  /\ attempt' = [attempt EXCEPT ![p] = @ + 1]
  /\ status' = [status EXCEPT ![p] = "running"]
  /\ SetLink(p, attempt[p] + 1, "dialing")
  /\ disturbed' = (disturbed \/ Early(p))
  /\ UNCHANGED <<protocol, pos, have, queue, wire, out, faults, sent, handed, taken>>

(* The message p sends next. *)
Outgoing(p) ==
  [from |-> p, attempt |-> attempt[p], n |-> At(p).n,
   peer |-> IF have[p] = {} THEN 0 ELSE (CHOOSE m \in have[p] : TRUE).attempt]

(* Mutant of Send: the relay passes on to whoever is subscribed. *)
Send_Unbuffered(p) ==
  LET q == Other(p) IN
  /\ NextIs(p, "send")
  /\ sent' = sent \cup {Outgoing(p)}
  /\ stream' = IF consumer[q] = 0 THEN stream
               ELSE [stream EXCEPT ![q] = Append(@, Outgoing(p))]
  /\ Advance(p)
  /\ UNCHANGED <<protocol, attempt, have, consumer, unacked, conn, faults,
                 handed, taken, disturbed>>

(* Send returns when the message is in the queue of the other party. *)
Send(p) ==
  /\ NextIs(p, "send")
  /\ sent' = sent \cup {Outgoing(p)}
  /\ stream' = [stream EXCEPT ![Other(p)] = Append(@, Outgoing(p))]
  /\ Advance(p)
  /\ UNCHANGED <<protocol, attempt, have, consumer, unacked, conn, faults,
                 handed, taken, disturbed>>

(* A full buffer makes the receiver wait. *)
receiving(p) ==
  /\ Link(p) = "open"
  /\ wire[p] # <<>>
  /\ Len(out[p]) < OutSize
  /\ wire' = [wire EXCEPT ![p] = Tail(@)]
  /\ out' = [out EXCEPT ![p] = Append(@, Head(wire[p]))]
  /\ UNCHANGED <<protocol, party, queue, link, faults, history>>

(* The stream is cancelled; handler and buffer are gone. *)
HangUp(p) ==
  /\ pos' = [pos EXCEPT ![p] = 0]
  /\ have' = [have EXCEPT ![p] = {}]
  /\ SetLink(p, attempt[p], IF Link(p) = "open" THEN "cancelled" ELSE "closed")
  /\ wire' = [wire EXCEPT ![p] = <<>>]
  /\ out' = [out EXCEPT ![p] = <<>>]

(* The attempt is over; what is still in its buffer is dropped. *)
Done(p) ==
  /\ status[p] \in {"done", "failed", "timeout"}
  /\ Link(p) \in {"dialing", "open", "dead"}
  /\ HangUp(p)
  /\ UNCHANGED <<protocol, attempt, status, queue, faults, history>>

-----------------------------------------------------------------------------
(* The protocol takes a message. *)

(* External, the handlers of the MPC library: of several messages for one  *)
(* round the first counts, and messages for later rounds are kept.  Ones   *)
(* that belong to other attempts do not fit together.                      *)
Accepted(p, m) ==
  have[p] \cup {x \in {m} : \A y \in have[p] : y.n # m.n}

Fits(p, ms) ==
  /\ \A x, y \in ms : x.attempt = y.attempt
  /\ \A x \in ms : x.peer \in {0, attempt[p]}

(* Whether ms hold the message for the receive p is at. *)
Expected(p, ms) == \E x \in ms : x.n = At(p).n

TakeMessage(p) ==
  /\ Running(p)
  /\ out[p] # <<>>
  /\ out' = [out EXCEPT ![p] = Tail(@)]
  /\ taken' = taken \cup {Head(out[p])}
  /\ have' = [have EXCEPT ![p] = Accepted(p, Head(out[p]))]
  /\ UNCHANGED <<protocol, attempt, queue, link, wire, faults, sent, handed, disturbed>>

(* HandlerLoop accepts whatever comes while the protocol runs. *)
HandlerLoop(p) ==
  /\ protocol = "rounds"
  /\ TakeMessage(p)
  /\ status' = IF Fits(p, have'[p]) THEN status ELSE [status EXCEPT ![p] = "failed"]
  /\ UNCHANGED pos

(* The message of the round is there. *)
Finalize(p) ==
  /\ protocol = "rounds"
  /\ NextIs(p, "recv")
  /\ Expected(p, have[p])
  /\ Advance(p)
  /\ UNCHANGED <<protocol, attempt, have, queue, conn, faults, history>>

(* The accept of an ECDSA co-sign takes the first message there is, for 90 *)
(* seconds.                                                                *)
AcceptIncomplete(p) ==
  /\ protocol = "ecdsa"
  /\ NextIs(p, "recv")
  /\ TakeMessage(p)
  /\ Advance(p)

Timeout(p) ==
  /\ protocol = "ecdsa"
  /\ NextIs(p, "recv")
  /\ status' = [status EXCEPT ![p] = "timeout"]
  /\ disturbed' = TRUE
  /\ UNCHANGED <<protocol, attempt, pos, have, queue, conn, faults, sent, handed, taken>>

(* The FROST pair takes one message per receive.  With the wrong one it    *)
(* waits for a round that does not come, or ends without a result.         *)
FrostReceive(p) ==
  /\ protocol = "frost"
  /\ NextIs(p, "recv")
  /\ TakeMessage(p)
  /\ IF Fits(p, have'[p]) /\ Expected(p, have'[p])
       THEN Advance(p)
       ELSE /\ status' = [status EXCEPT ![p] =
                 IF Fits(p, have'[p]) /\ pos[p] + 1 < Len(Script(p)) THEN "stuck" ELSE "failed"]
            /\ UNCHANGED pos

-----------------------------------------------------------------------------
(* The relay: Next, with JetStream behind it. *)

(* Mutant of Subscribe: only what comes from now on is delivered. *)
Subscribe_DeliverNew(p, a) ==
  /\ link[p][a] = "dialing"
  /\ IF consumer[p] = 0
       THEN /\ SetLink(p, a, "open")
            /\ consumer' = [consumer EXCEPT ![p] = a]
            /\ stream' = [stream EXCEPT ![p] = <<>>]
       ELSE SetLink(p, a, "dead") /\ UNCHANGED <<consumer, stream>>
  /\ UNCHANGED <<protocol, party, unacked, wire, out, faults, history>>

(* A work queue takes one consumer per subject.  A second one is refused,  *)
(* which ends the stream; the client only logs it.                         *)
Subscribe(p, a) ==
  /\ link[p][a] = "dialing"
  /\ IF consumer[p] = 0
       THEN SetLink(p, a, "open") /\ consumer' = [consumer EXCEPT ![p] = a]
       ELSE SetLink(p, a, "dead") /\ UNCHANGED consumer
  /\ UNCHANGED <<protocol, party, stream, unacked, wire, out, faults, history>>

(* Mutant of Deliver: messages are sent by callbacks of their own. *)
Deliver_AnyOrder(p) ==
  /\ consumer[p] # 0 /\ consumer[p] = attempt[p] /\ Link(p) = "open"
  /\ ~ unacked[p]
  /\ \E i \in DOMAIN stream[p] :
       /\ wire' = [wire EXCEPT ![p] = Append(@, stream[p][i])]
       /\ handed' = handed \cup {stream[p][i]}
       /\ stream' = [stream EXCEPT ![p] = SubSeq(@, 1, i - 1) \o SubSeq(@, i + 1, Len(@))]
  /\ UNCHANGED <<protocol, party, consumer, unacked, link, out, faults, sent, taken, disturbed>>

(* The head of the queue goes down the stream. *)
Deliver(p) ==
  /\ consumer[p] # 0 /\ consumer[p] = attempt[p] /\ Link(p) = "open"
  /\ stream[p] # <<>> /\ ~ unacked[p]
  /\ wire' = [wire EXCEPT ![p] = Append(@, Head(stream[p]))]
  /\ handed' = handed \cup {Head(stream[p])}
  /\ unacked' = [unacked EXCEPT ![p] = TRUE]
  /\ UNCHANGED <<protocol, party, stream, consumer, link, out, faults, sent, taken, disturbed>>

Ack(p) ==
  /\ unacked[p]
  /\ stream' = [stream EXCEPT ![p] = Tail(@)]
  /\ unacked' = [unacked EXCEPT ![p] = FALSE]
  /\ UNCHANGED <<protocol, party, consumer, conn, faults, history>>

(* The relay notices that the stream was cancelled.  What was not          *)
(* acknowledged stays in the queue, even if it was read: the               *)
(* acknowledgement comes too late for the consumer that is deleted.        *)
Unsubscribe(p, a) ==
  /\ link[p][a] = "cancelled"
  /\ SetLink(p, a, "closed")
  /\ consumer' = [consumer EXCEPT ![p] = 0]
  /\ unacked' = [unacked EXCEPT ![p] = FALSE]
  /\ disturbed' = (disturbed \/ unacked[p])
  /\ UNCHANGED <<protocol, party, stream, wire, out, faults, sent, handed, taken>>

-----------------------------------------------------------------------------
(* Failures. *)

Fault == faults < MaxFaults /\ faults' = faults + 1 /\ disturbed' = TRUE

(* The call of Send fails, which is logged and nothing else. *)
SendFails(p) ==
  /\ Fault
  /\ NextIs(p, "send")
  /\ sent' = sent \cup {Outgoing(p)}
  /\ Advance(p)
  /\ UNCHANGED <<protocol, attempt, have, queue, conn, handed, taken>>

(* The acknowledgement of a message was lost, and after a while the queue  *)
(* delivers it again.                                                      *)
Redeliver(p) ==
  /\ Fault
  /\ consumer[p] # 0 /\ ~ unacked[p]
  /\ \E m \in handed :
       m.from = Other(p) /\ stream' = [stream EXCEPT ![p] = <<m>> \o @]
  /\ UNCHANGED <<protocol, party, consumer, unacked, conn, sent, handed, taken>>

(* The oldest message has waited for MaxAge. *)
Expire(p) ==
  /\ Fault
  /\ stream[p] # <<>>
  /\ stream' = [stream EXCEPT ![p] = Tail(@)]
  /\ unacked' = [unacked EXCEPT ![p] = FALSE]
  /\ UNCHANGED <<protocol, party, consumer, conn, sent, handed, taken>>

(* The relay starts anew, or the queue server does, which keeps its        *)
(* streams in memory.  Receivers end without notice.                       *)
RelayRestart ==
  /\ Fault
  /\ link' = [p \in Parties |-> [a \in Attempts |->
       CASE link[p][a] \in {"dialing", "open"} -> "dead"
         [] link[p][a] = "cancelled" -> "closed"
         [] OTHER -> link[p][a]]]
  /\ consumer' = [p \in Parties |-> 0]
  /\ unacked' = [p \in Parties |-> FALSE]
  /\ wire' = [p \in Parties |-> <<>>]
  /\ stream' \in {stream, [p \in Parties |-> <<>>]}
  /\ UNCHANGED <<protocol, party, out, sent, handed, taken>>

(* A client process ends. *)
ClientRestart(p) ==
  /\ Fault
  /\ Link(p) \in {"dialing", "open", "dead"}
  /\ status' = [status EXCEPT ![p] = "failed"]
  /\ HangUp(p)
  /\ UNCHANGED <<protocol, attempt, queue, sent, handed, taken>>

-----------------------------------------------------------------------------
(* What a party and the relay do by themselves. *)
Progress(p) ==
  \/ Send(p) \/ receiving(p) \/ HandlerLoop(p) \/ Finalize(p)
  \/ AcceptIncomplete(p) \/ FrostReceive(p) \/ Done(p)

Serve(p) ==
  \/ Deliver(p) \/ Ack(p)
  \/ \E a \in Attempts : Subscribe(p, a) \/ Unsubscribe(p, a)

Next ==
  \/ \E p \in Parties :
       \/ NewClient(p) \/ Progress(p) \/ Timeout(p) \/ Serve(p)
       \/ SendFails(p) \/ Redeliver(p) \/ Expire(p) \/ ClientRestart(p)
  \/ RelayRestart

Spec == Init /\ [][Next]_vars

(* A client, and the relay's handler for it, go on while they can.  Nobody *)
(* has to start an attempt.                                                *)
FairSpec ==
  Spec /\ \A p \in Parties : WF_vars(Progress(p)) /\ WF_vars(Serve(p))

-----------------------------------------------------------------------------
Elements(s) == {s[i] : i \in DOMAIN s}

(* Messages that can still reach the party they are for. *)
Waiting ==
  (UNION {Elements(stream[p]) : p \in Parties})
  \cup UNION {Elements(wire[p]) \cup Elements(out[p]) : p \in {q \in Parties : Running(q)}}

(* The state is well formed, and messages are not lost.  Unless attempts   *)
(* overlap, something times out, fails or is acknowledged late, none is:   *)
(* not those sent before the receiver has subscribed ("buffered by         *)
(* JetStream"), and not those still under way when the sender has finished *)
(* and left (Send, Next, Done).  While nothing fails, one is lost only if  *)
(* it was handed to a client that then left; one sent to a client that has *)
(* left waits for the next attempt (stream.Send before m.Ack).             *)
NothingLost ==
  /\ TypeOK
  /\ ~ disturbed => sent \ taken \subseteq Waiting
  /\ faults = 0 => (sent \ taken) \ Waiting \subseteq handed

(* What is to be read by p, from the buffer to the queue. *)
ToRead(p) ==
  out[p] \o wire[p] \o (IF unacked[p] THEN Tail(stream[p]) ELSE stream[p])

Newer(x, y) ==
  x.attempt > y.attempt \/ (x.attempt = y.attempt /\ x.n > y.n)

(* While nothing fails a party reads what the other sent in that order,    *)
(* over all its attempts: a stream that is cut, a message that was sent    *)
(* down it but not acknowledged, and a second subscription may repeat or   *)
(* drop a message, but never bring an older one after a newer one (Next,   *)
(* receiving).                                                             *)
ReadInOrder ==
  faults = 0 => \A p \in Parties : \A i \in DOMAIN ToRead(p) :
     /\ \A j \in DOMAIN ToRead(p) : i < j => ~ Newer(ToRead(p)[i], ToRead(p)[j])
     /\ \A m \in taken : m.from = Other(p) => ~ Newer(m, ToRead(p)[i])

(* Two parties that both start an attempt both finish it, whoever comes    *)
(* first and however long the other takes, unless it is disturbed: no      *)
(* party waits for a message that does not come (HandlerLoop and           *)
(* CMPPreSign, which wait without limit; the FROST pair).                  *)
BothFinish ==
  (attempt[Sender] = attempt[Acceptor] /\ attempt[Sender] > 0)
    ~> (disturbed \/ \A p \in Parties : status[p] = "done")

=============================================================================
