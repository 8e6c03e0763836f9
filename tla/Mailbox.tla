------------------------------ MODULE Mailbox ------------------------------
(***************************************************************************)
(* The mailbox of the host server (server/mailbox.go).                     *)
(*                                                                         *)
(* A message is a record under its id and an entry in the inbox index of   *)
(* its recipient.  A request decides on what it has loaded; its storage    *)
(* operations are carried out as Index says.  Pairs come and go meanwhile. *)
(***************************************************************************)
EXTENDS Index, Integers

CONSTANTS
  Pairs,        \* pair ids
  Members(_),   \* the two users a pair id is made of
  MaxMessages   \* bound: messages sent

(* messageID: sender, recipient and time; ids are taken not to repeat. *)
MessageIds == 1 .. MaxMessages

Message == [id : MessageIds, from : Users, to : Users, pair : Pairs]

ASSUME MailboxAssumption ==
  /\ MaxMessages \in Nat
  /\ \A p \in Pairs : Members(p) \subseteq Users
  /\ Nil \notin Message

storeMessage == <<"putMessage", "readInbox", "addInbox", "confirm">>

(* Mutant of deleteMessage: only the index entry is removed. *)
deleteMessage_IndexOnly == <<"readInbox", "removeInbox", "confirmAck">>

deleteMessage == <<"deleteMessage", "readInbox", "removeInbox", "confirmAck">>

MailboxSteps == {"putMessage", "deleteMessage", "readInbox", "addInbox",
                 "removeInbox", "confirm", "confirmAck"}

VARIABLES
  paired,    \* storage: the pairs that exist
  messages,  \* storage: the message under each id
  inbox,     \* storage: the ids listed for each user
  next,      \* the clock that makes ids
  sent,      \* history: messages whose sending was confirmed
  acking,    \* history: messages the recipient has begun to acknowledge
  acked      \* history: messages whose acknowledgement was confirmed

mailboxVars == <<paired, messages, inbox, next, plan, loc, ids, sent, acking, acked,
                 overlapped>>

MailboxTypeOK ==
  /\ paired \subseteq Pairs
  /\ messages \in [MessageIds -> Message \cup {Nil}]
  /\ \A i \in MessageIds : messages[i] # Nil =>
        /\ messages[i].id = i
        /\ {messages[i].from, messages[i].to} \subseteq Members(messages[i].pair)
  /\ inbox \in [Users -> SUBSET MessageIds]
  /\ next \in 1 .. MaxMessages + 1
  /\ \A h \in Handlers : /\ \A i \in DOMAIN plan[h] : plan[h][i] \in MailboxSteps
                         /\ plan[h] # <<>> => loc[h] \in Message
  /\ ids \in [Handlers -> SUBSET MessageIds]
  /\ sent \cup acking \cup acked \subseteq Message
  /\ overlapped \in BOOLEAN

MailboxInit ==
  /\ paired = Pairs
  /\ messages = [i \in MessageIds |-> Nil]
  /\ inbox = [u \in Users |-> {}]
  /\ next = 1
  /\ sent = {}
  /\ acking = {}
  /\ acked = {}
  /\ RequestsInit

-----------------------------------------------------------------------------
(* The pair exists, sender and recipient are among its members: nothing    *)
(* asks that they be two.                                                  *)
mailboxSend(h, u, to, p) ==
  /\ Begin(h)
  /\ next <= MaxMessages
  /\ p \in paired
  /\ u \in Members(p)
  /\ to \in Members(p)
  /\ loc' = [loc EXCEPT ![h] = [id |-> next, from |-> u, to |-> to, pair |-> p]]
  /\ next' = next + 1
  /\ plan' = [plan EXCEPT ![h] = storeMessage]
  /\ UNCHANGED <<paired, messages, inbox, ids, sent, acking, acked>>

(* Mutant of mailboxAck: whoever knows the id may acknowledge. *)
mailboxAck_Anyone(h, u, i) ==
  /\ Begin(h)
  /\ messages[i] # Nil
  /\ loc' = [loc EXCEPT ![h] = messages[i]]
  /\ plan' = [plan EXCEPT ![h] = deleteMessage]
  /\ acking' = IF messages[i].to = u THEN acking \cup {messages[i]} ELSE acking
  /\ UNCHANGED <<paired, messages, inbox, next, ids, sent, acked>>

(* Only the recipient acknowledges, and only a message that is there. *)
mailboxAck(h, u, i) ==
  /\ Begin(h)
  /\ messages[i] # Nil
  /\ messages[i].to = u
  /\ loc' = [loc EXCEPT ![h] = messages[i]]
  /\ plan' = [plan EXCEPT ![h] = deleteMessage]
  /\ acking' = acking \cup {messages[i]}
  /\ UNCHANGED <<paired, messages, inbox, next, ids, sent, acked>>

(* mailboxPending: the messages user u is shown. *)
mailboxPending(u) == {messages[i] : i \in {j \in inbox[u] : messages[j] # Nil}}

-----------------------------------------------------------------------------
(* The storage operations of a plan. *)

WriteMessage(h) ==
  /\ \/ Do(h, "putMessage") /\ messages' = [messages EXCEPT ![loc[h].id] = loc[h]]
     \/ Do(h, "deleteMessage") /\ messages' = [messages EXCEPT ![loc[h].id] = Nil]
  /\ UNCHANGED <<paired, inbox, next, ids, sent, acking, acked, overlapped>>

ReadInbox(h) ==
  /\ Do(h, "readInbox")
  /\ ids' = [ids EXCEPT ![h] = inbox[loc[h].to]]
  /\ UNCHANGED <<paired, messages, inbox, next, sent, acking, acked, overlapped>>

WriteInbox(h) ==
  LET to == loc[h].to
      i == loc[h].id
  IN
  /\ \/ Do(h, "addInbox") /\ inbox' = [inbox EXCEPT ![to] = addToIndex(@, ids[h], i)]
     \/ Do(h, "removeInbox") /\ inbox' = [inbox EXCEPT ![to] = removeFromIndex(@, ids[h], i)]
  /\ ids' = [ids EXCEPT ![h] = {}]
  /\ UNCHANGED <<paired, messages, next, sent, acking, acked, overlapped>>

(* The request is answered with success. *)
Confirm(h) ==
  /\ \/ Do(h, "confirm") /\ sent' = sent \cup {loc[h]} /\ UNCHANGED acked
     \/ Do(h, "confirmAck") /\ acked' = acked \cup {loc[h]} /\ UNCHANGED sent
  /\ UNCHANGED <<paired, messages, inbox, next, ids, acking, overlapped>>

(* Requests end early, because of an error or a restart. *)
AbandonMessages(hs) ==
  /\ Abandon(hs)
  /\ UNCHANGED <<paired, messages, inbox, next, sent, acking, acked, overlapped>>

(* pairDelete and pairCreate of server/pairing.go, as far as seen here. *)
TogglePair(p) ==
  /\ paired' = IF p \in paired THEN paired \ {p} ELSE paired \cup {p}
  /\ UNCHANGED <<messages, inbox, next, plan, loc, ids, sent, acking, acked, overlapped>>

MailboxNext ==
  \/ \E h \in Handlers, u \in Users :
       \/ \E to \in Users, p \in Pairs : mailboxSend(h, u, to, p)
       \/ \E i \in MessageIds : mailboxAck(h, u, i)
  \/ \E h \in Handlers :
       WriteMessage(h) \/ ReadInbox(h) \/ WriteInbox(h) \/ Confirm(h) \/ AbandonMessages({h})
  \/ AbandonMessages(Handlers)
  \/ \E p \in Pairs : TogglePair(p)

MailboxSpec == MailboxInit /\ [][MailboxNext]_mailboxVars

-----------------------------------------------------------------------------
(* The storage is well formed, with messages only between members of their *)
(* pair, and a confirmed message is not lost: its record stays until its   *)
(* recipient acknowledges it, even when racing requests spoil the index    *)
(* (storeMessage and mailboxAck).                                          *)
MessagesKept ==
  /\ MailboxTypeOK
  /\ \A x \in sent \ acking : messages[x.id] = x

(* A message whose acknowledgement was confirmed is never shown again,     *)
(* even when a racing request puts its id back into the index              *)
(* (deleteMessage against addToIndex, mailboxPending).                     *)
AckedStaysGone == \A u \in Users : mailboxPending(u) \cap acked = {}

(* A confirmed message is shown to its recipient until it acknowledges it  *)
(* ("Returns all undelivered (un-acked) messages addressed to the caller", *)
(* mailboxPending), in spite of failures and restarts (storeMessage puts,  *)
(* then indexes, then confirms), as long as requests do not overlap: the   *)
(* read-change-write of the index loses an entry when they do.             *)
ShownUntilAcked ==
  ~ overlapped => \A x \in sent \ acking : x \in mailboxPending(x.to)

=============================================================================
