---------------------------- MODULE IndexProofs ----------------------------
(***************************************************************************)
(* Proofs about the mailbox and about pairing, for every set of users,     *)
(* pairs and requests and every number of messages, with failures and      *)
(* restarts.                                                               *)
(***************************************************************************)
EXTENDS Mailbox, Pairing, TLAPS

(* At most one request is being served. *)
Alone == \A g, h \in Handlers : plan[g] # <<>> /\ plan[h] # <<>> => g = h

(* A handler whose next storage operation is step. *)
At(h, step) == plan[h] # <<>> /\ Head(plan[h]) = step

(* Until requests overlap, one begins only when all others have ended      *)
(* (Begin).                                                                *)
LEMMA BeginAlone ==
  ASSUME NEW h \in Handlers, Begin(h), ~ overlapped'
  PROVE  ~ overlapped /\ \A g \in Handlers : plan[g] = <<>>
  BY Zenon DEF Begin, Idle

-----------------------------------------------------------------------------
(* The mailbox.                                                            *)
(*                                                                         *)
(* Nothing locks a message; what protects it is that its id is made once.  *)
(* So it is put once, by the request that made it, and after a delete      *)
(* nothing puts it back.                                                   *)

StorePlans == {<<"putMessage", "readInbox", "addInbox", "confirm">>,
               <<"readInbox", "addInbox", "confirm">>,
               <<"addInbox", "confirm">>, <<"confirm">>}

DeletePlans == {<<"deleteMessage", "readInbox", "removeInbox", "confirmAck">>,
                <<"readInbox", "removeInbox", "confirmAck">>,
                <<"removeInbox", "confirmAck">>, <<"confirmAck">>}

PlanInv ==
  /\ plan \in [Handlers -> StorePlans \cup DeletePlans \cup {<<>>}]
  /\ loc \in [Handlers -> Message \cup {Nil}]
  /\ \A h \in Handlers : plan[h] = <<>> <=> loc[h] = Nil

(* The messages that are or were anywhere. *)
Known ==
  (sent \cup acking \cup acked \cup {loc[h] : h \in Handlers}
     \cup {messages[i] : i \in MessageIds}) \ {Nil}

(* Ids tell messages apart. *)
KnownInv ==
  \A x \in Known :
     /\ x \in Message
     /\ x.id < next
     /\ {x.from, x.to} \subseteq Members(x.pair)
     /\ \A y \in Known : x.id = y.id => x = y

(* A message that is yet to be put is nowhere but with its request. *)
FreshInv ==
  \A h \in Handlers : plan[h] = storeMessage =>
     /\ messages[loc[h].id] = Nil
     /\ \A x \in sent \cup acking \cup acked : x.id # loc[h].id
     /\ \A g \in Handlers \ {h} : loc[g] # Nil => loc[g].id # loc[h].id

(* A message that was put is there until its recipient acknowledges it,    *)
(* and a message that was deleted stays away.                              *)
RecordInv ==
  /\ \A h \in Handlers :
       /\ plan[h] \in StorePlans \ {storeMessage} =>
            messages[loc[h].id] = loc[h] \/ loc[h] \in acking
       /\ plan[h] \in DeletePlans => loc[h] \in acking
       /\ plan[h] \in DeletePlans \ {deleteMessage} => messages[loc[h].id] = Nil
  /\ \A x \in sent \ acking : messages[x.id] = x
  /\ acked \subseteq acking
  /\ \A x \in acked : messages[x.id] = Nil

MailboxInv ==
  /\ MailboxTypeOK
  /\ PlanInv
  /\ KnownInv
  /\ FreshInv
  /\ RecordInv

-----------------------------------------------------------------------------
(* What is left of a plan after its next operation. *)
LEMMA PlanSteps ==
  ASSUME NEW p \in StorePlans \cup DeletePlans
  PROVE  /\ p # <<>>
         /\ p \in StorePlans => /\ p \notin DeletePlans
                                /\ Tail(p) \in (StorePlans \ {storeMessage}) \cup {<<>>}
         /\ p \in DeletePlans => /\ p \notin StorePlans
                                 /\ Tail(p) \in (DeletePlans \ {deleteMessage}) \cup {<<>>}
         /\ Head(p) = "putMessage" => p = storeMessage
         /\ p = storeMessage => p \in StorePlans /\ Head(p) = "putMessage"
         /\ Head(p) = "deleteMessage" => p = deleteMessage
         /\ p = deleteMessage => p \in DeletePlans /\ Head(p) = "deleteMessage"
         /\ Head(p) = "confirm" => p \in StorePlans
         /\ Head(p) = "confirmAck" => p \in DeletePlans
         /\ \A i \in DOMAIN p : p[i] \in MailboxSteps
<1>1. CASE p = <<"putMessage", "readInbox", "addInbox", "confirm">>
  BY <1>1 DEF StorePlans, DeletePlans, storeMessage, deleteMessage, MailboxSteps
<1>2. CASE p = <<"readInbox", "addInbox", "confirm">>
  BY <1>2 DEF StorePlans, DeletePlans, storeMessage, deleteMessage, MailboxSteps
<1>3. CASE p = <<"addInbox", "confirm">>
  BY <1>3 DEF StorePlans, DeletePlans, storeMessage, deleteMessage, MailboxSteps
<1>4. CASE p = <<"confirm">>
  BY <1>4 DEF StorePlans, DeletePlans, storeMessage, deleteMessage, MailboxSteps
<1>5. CASE p = <<"deleteMessage", "readInbox", "removeInbox", "confirmAck">>
  BY <1>5 DEF StorePlans, DeletePlans, storeMessage, deleteMessage, MailboxSteps
<1>6. CASE p = <<"readInbox", "removeInbox", "confirmAck">>
  BY <1>6 DEF StorePlans, DeletePlans, storeMessage, deleteMessage, MailboxSteps
<1>7. CASE p = <<"removeInbox", "confirmAck">>
  BY <1>7 DEF StorePlans, DeletePlans, storeMessage, deleteMessage, MailboxSteps
<1>8. CASE p = <<"confirmAck">>
  BY <1>8 DEF StorePlans, DeletePlans, storeMessage, deleteMessage, MailboxSteps
<1> QED
  BY <1>1, <1>2, <1>3, <1>4, <1>5, <1>6, <1>7, <1>8, Zenon DEF StorePlans, DeletePlans

(* While no message appears, ids go on telling them apart. *)
LEMMA KnownStays ==
  ASSUME MailboxInv, next' = next, Known' \subseteq Known
  PROVE  KnownInv'
  BY Zenon DEF MailboxInv, KnownInv

(* A step of a plan: what it does to plan and loc, whatever else it does. *)
LEMMA Advance ==
  ASSUME MailboxInv, NEW h \in Handlers, NEW step, Do(h, step)
  PROVE  /\ plan[h] \in StorePlans \cup DeletePlans
         /\ Head(plan[h]) = step
         /\ loc[h] \in Message /\ loc[h] \in Known
         /\ loc[h].id \in MessageIds /\ loc[h].to \in Users
         /\ PlanInv'
         /\ plan'[h] \notin {storeMessage, deleteMessage}
         /\ plan'[h] \in StorePlans => plan[h] \in StorePlans /\ loc'[h] = loc[h]
         /\ plan'[h] \in DeletePlans => plan[h] \in DeletePlans /\ loc'[h] = loc[h]
         /\ loc'[h] \in {loc[h], Nil}
         /\ \A g \in Handlers \ {h} : plan'[g] = plan[g] /\ loc'[g] = loc[g]
<1>1. /\ plan[h] \in StorePlans \cup DeletePlans
      /\ Head(plan[h]) = step
      /\ plan' = [plan EXCEPT ![h] = Tail(plan[h])]
      /\ loc' = IF Tail(plan[h]) = <<>> THEN [loc EXCEPT ![h] = Nil] ELSE loc
  BY Zenon DEF Do, Idle, MailboxInv, PlanInv
<1>2. loc[h] \in Message /\ loc[h] # Nil
  BY <1>1, PlanSteps, MailboxAssumption, Zenon DEF MailboxInv, PlanInv
<1>3. loc[h] \in Known /\ loc[h].id \in MessageIds /\ loc[h].to \in Users
  BY <1>2, Zenon DEF Known, Message
<1>4. /\ plan'[h] = Tail(plan[h])
      /\ loc'[h] = IF Tail(plan[h]) = <<>> THEN Nil ELSE loc[h]
      /\ \A g \in Handlers \ {h} : plan'[g] = plan[g] /\ loc'[g] = loc[g]
  BY <1>1, Zenon DEF MailboxInv, PlanInv
<1>5. /\ plan'[h] \in StorePlans \cup DeletePlans \cup {<<>>}
      /\ plan'[h] \notin {storeMessage, deleteMessage}
      /\ plan'[h] \in StorePlans => plan[h] \in StorePlans /\ loc'[h] = loc[h]
      /\ plan'[h] \in DeletePlans => plan[h] \in DeletePlans /\ loc'[h] = loc[h]
  <2>1. \A p \in StorePlans \cup DeletePlans : p # <<>>
    BY PlanSteps, Zenon
  <2>2. storeMessage \in StorePlans /\ deleteMessage \in DeletePlans
    BY Zenon DEF StorePlans, DeletePlans, storeMessage, deleteMessage
  <2>3. /\ plan[h] \in StorePlans => Tail(plan[h]) \in (StorePlans \ {storeMessage}) \cup {<<>>}
        /\ plan[h] \in DeletePlans => Tail(plan[h]) \in (DeletePlans \ {deleteMessage}) \cup {<<>>}
    BY <1>1, PlanSteps, Zenon
  <2>4. StorePlans \cap DeletePlans = {}
    BY PlanSteps, Zenon
  <2> QED
    BY <1>1, <1>4, <2>1, <2>2, <2>3, <2>4, Zenon
<1>6. PlanInv'
  <2>1. plan' \in [Handlers -> StorePlans \cup DeletePlans \cup {<<>>}]
    BY <1>1, <1>4, <1>5, Zenon DEF MailboxInv, PlanInv
  <2>2. loc' \in [Handlers -> Message \cup {Nil}]
    BY <1>1, Zenon DEF MailboxInv, PlanInv
  <2>3. \A g \in Handlers : plan'[g] = <<>> <=> loc'[g] = Nil
    BY <1>2, <1>4, Zenon DEF MailboxInv, PlanInv
  <2> QED
    BY <2>1, <2>2, <2>3, Zenon DEF PlanInv
<1> QED
  BY <1>1, <1>2, <1>3, <1>4, <1>5, <1>6, SMTT(30)

(* The part of the type invariant that speaks of plans. *)
LEMMA PlanTypes ==
  ASSUME NEW p \in [Handlers -> StorePlans \cup DeletePlans \cup {<<>>}],
         NEW l \in [Handlers -> Message \cup {Nil}],
         \A h \in Handlers : p[h] = <<>> <=> l[h] = Nil
  PROVE  \A h \in Handlers : /\ \A i \in DOMAIN p[h] : p[h][i] \in MailboxSteps
                             /\ p[h] # <<>> => l[h] \in Message
<1> SUFFICES ASSUME NEW h \in Handlers
             PROVE  \A i \in DOMAIN p[h] : p[h][i] \in MailboxSteps
  BY Zenon
<1>1. CASE p[h] = <<>>
  BY <1>1
<1>2. CASE p[h] \in StorePlans \cup DeletePlans
  BY <1>2, PlanSteps, Zenon
<1> QED
  BY <1>1, <1>2, Zenon

(* The initial state satisfies the invariant. *)
LEMMA MailboxInitInv == MailboxInit => MailboxInv
<1> SUFFICES ASSUME MailboxInit PROVE MailboxInv
  BY Zenon
<1>1. PlanInv
  BY Zenon DEF MailboxInit, RequestsInit, PlanInv
<1>2. MailboxTypeOK
  <2>1. next \in 1 .. MaxMessages + 1
    BY MailboxAssumption DEF MailboxInit
  <2>2. messages \in [MessageIds -> Message \cup {Nil}] /\ \A k \in MessageIds : messages[k] = Nil
    BY Zenon DEF MailboxInit
  <2>3. inbox \in [Users -> SUBSET MessageIds] /\ ids \in [Handlers -> SUBSET MessageIds]
    BY Zenon DEF MailboxInit, RequestsInit
  <2> QED
    BY <1>1, <2>1, <2>2, <2>3, PlanTypes, Zenon DEF MailboxInit, RequestsInit, MailboxTypeOK, PlanInv
<1>3. Known = {}
  BY Zenon DEF MailboxInit, RequestsInit, Known
<1>4. \A h \in Handlers : plan[h] = <<>> /\ <<>> \notin StorePlans \cup DeletePlans /\ <<>> # storeMessage
  BY PlanSteps, Zenon DEF MailboxInit, RequestsInit, StorePlans, DeletePlans, storeMessage
<1>5. KnownInv /\ FreshInv /\ RecordInv
  BY <1>3, <1>4, Zenon DEF MailboxInit, RequestsInit, KnownInv, FreshInv, RecordInv
<1> QED
  BY <1>1, <1>2, <1>5, Zenon DEF MailboxInv

(* The steps of a plan that write no message and confirm nothing. *)
LEMMA QuietStep ==
  ASSUME MailboxInv, NEW h \in Handlers, NEW step, Do(h, step),
         step \notin {"putMessage", "deleteMessage"},
         UNCHANGED <<messages, next, sent, acking, acked>>
  PROVE  KnownInv' /\ FreshInv' /\ RecordInv'
<1>1. /\ plan[h] \in StorePlans \cup DeletePlans /\ Head(plan[h]) = step
      /\ plan'[h] \notin {storeMessage, deleteMessage}
      /\ plan'[h] \in StorePlans => plan[h] \in StorePlans /\ loc'[h] = loc[h]
      /\ plan'[h] \in DeletePlans => plan[h] \in DeletePlans /\ loc'[h] = loc[h]
      /\ loc'[h] \in {loc[h], Nil}
      /\ \A g \in Handlers \ {h} : plan'[g] = plan[g] /\ loc'[g] = loc[g]
  BY Advance, Zenon
<1>2. plan[h] # storeMessage /\ plan[h] # deleteMessage
  BY <1>1, PlanSteps, Zenon
<1>3. Known' \subseteq Known
  BY <1>1, Zenon DEF Known
<1>4. FreshInv'
  BY <1>1 DEF MailboxInv, FreshInv
<1>5. RecordInv'
  <2>1. ASSUME NEW g \in Handlers
        PROVE  /\ plan'[g] \in StorePlans \ {storeMessage} =>
                    messages[loc'[g].id] = loc'[g] \/ loc'[g] \in acking
               /\ plan'[g] \in DeletePlans => loc'[g] \in acking
               /\ plan'[g] \in DeletePlans \ {deleteMessage} => messages[loc'[g].id] = Nil
    BY <1>1, <1>2, Zenon DEF MailboxInv, RecordInv
  <2> QED
    BY <2>1, Zenon DEF MailboxInv, RecordInv
<1> QED
  BY <1>3, <1>4, <1>5, KnownStays, Zenon

(* A message is put under an id nobody else has (storeMessage). *)
LEMMA PutStep ==
  ASSUME MailboxInv, NEW h \in Handlers, Do(h, "putMessage"),
         messages' = [messages EXCEPT ![loc[h].id] = loc[h]],
         UNCHANGED <<next, sent, acking, acked>>
  PROVE  KnownInv' /\ FreshInv' /\ RecordInv'
<1>1. /\ plan[h] \in StorePlans \cup DeletePlans /\ Head(plan[h]) = "putMessage"
      /\ loc[h] \in Known /\ loc[h].id \in MessageIds
      /\ plan'[h] \notin {storeMessage, deleteMessage}
      /\ plan'[h] \in StorePlans => loc'[h] = loc[h]
      /\ plan'[h] \in DeletePlans => plan[h] \in DeletePlans
      /\ loc'[h] \in {loc[h], Nil}
      /\ \A g \in Handlers \ {h} : plan'[g] = plan[g] /\ loc'[g] = loc[g]
  BY Advance, Zenon
<1>2. plan[h] = storeMessage /\ plan'[h] \notin DeletePlans
  BY <1>1, PlanSteps, Zenon
<1>3. /\ messages'[loc[h].id] = loc[h]
      /\ \A i \in MessageIds : i # loc[h].id => messages'[i] = messages[i]
  BY <1>1, Zenon DEF MailboxInv, MailboxTypeOK
<1>4. Known' \subseteq Known
  BY <1>1, <1>3 DEF Known
<1>5. \A g \in Handlers \ {h} : loc[g] # Nil =>
         loc[g].id # loc[h].id /\ loc[g].id \in MessageIds
  BY <1>2, Zenon DEF MailboxInv, FreshInv, PlanInv, Message
<1>6. \A x \in sent \cup acking \cup acked : x.id # loc[h].id /\ x.id \in MessageIds
  BY <1>2, Zenon DEF MailboxInv, FreshInv, MailboxTypeOK, Message
<1>7. \A g \in Handlers : plan[g] \in StorePlans \cup DeletePlans => loc[g] # Nil
  BY PlanSteps, Zenon DEF MailboxInv, PlanInv
<1>8. storeMessage \in StorePlans
  BY Zenon DEF storeMessage, StorePlans
<1>9. FreshInv'
  BY <1>1, <1>3, <1>5, <1>7, <1>8 DEF MailboxInv, FreshInv
<1>10. RecordInv'
  <2>1. ASSUME NEW g \in Handlers
        PROVE  /\ plan'[g] \in StorePlans \ {storeMessage} =>
                    messages'[loc'[g].id] = loc'[g] \/ loc'[g] \in acking
               /\ plan'[g] \in DeletePlans => loc'[g] \in acking
               /\ plan'[g] \in DeletePlans \ {deleteMessage} => messages'[loc'[g].id] = Nil
    <3>1. CASE g = h
      BY <1>1, <1>2, <1>3, <3>1, Zenon
    <3>2. CASE g # h
      BY <1>1, <1>3, <1>5, <1>7, <3>2 DEF MailboxInv, RecordInv
    <3> QED
      BY <3>1, <3>2, Zenon
  <2> QED
    BY <1>3, <1>6, <2>1, Zenon DEF MailboxInv, RecordInv
<1> QED
  BY <1>4, <1>9, <1>10, KnownStays, Zenon

(* Only a message its recipient acknowledges is deleted (deleteMessage). *)
LEMMA DeleteStep ==
  ASSUME MailboxInv, NEW h \in Handlers, Do(h, "deleteMessage"),
         messages' = [messages EXCEPT ![loc[h].id] = Nil],
         UNCHANGED <<next, sent, acking, acked>>
  PROVE  KnownInv' /\ FreshInv' /\ RecordInv'
<1>1. /\ plan[h] \in StorePlans \cup DeletePlans /\ Head(plan[h]) = "deleteMessage"
      /\ loc[h] \in Known /\ loc[h].id \in MessageIds
      /\ plan'[h] \notin {storeMessage, deleteMessage}
      /\ plan'[h] \in StorePlans => plan[h] \in StorePlans
      /\ plan'[h] \in DeletePlans => loc'[h] = loc[h]
      /\ loc'[h] \in {loc[h], Nil}
      /\ \A g \in Handlers \ {h} : plan'[g] = plan[g] /\ loc'[g] = loc[g]
  BY Advance, Zenon
<1>2. plan[h] \in DeletePlans /\ plan'[h] \notin StorePlans
  BY <1>1, PlanSteps, Zenon
<1>3. loc[h] \in acking
  BY <1>2, Zenon DEF MailboxInv, RecordInv
<1>4. /\ messages'[loc[h].id] = Nil
      /\ \A i \in MessageIds : i # loc[h].id => messages'[i] = messages[i]
  BY <1>1, Zenon DEF MailboxInv, MailboxTypeOK
<1>5. Known' \subseteq Known
  BY <1>1, <1>4 DEF Known
<1>6. \A x \in Known : x.id \in MessageIds /\ (x.id = loc[h].id => x \in acking)
  BY <1>1, <1>3, Zenon DEF MailboxInv, KnownInv, Message
<1>7. \A g \in Handlers : plan[g] \in StorePlans \cup DeletePlans => loc[g] \in Known
  BY PlanSteps, Zenon DEF MailboxInv, PlanInv, Known
<1>8. \A x \in sent \cup acking \cup acked : x \in Known
  BY MailboxAssumption, Zenon DEF MailboxInv, MailboxTypeOK, Known
<1>9. storeMessage \in StorePlans
  BY Zenon DEF storeMessage, StorePlans
<1>10. FreshInv'
  BY <1>1, <1>4, <1>6, <1>7, <1>9 DEF MailboxInv, FreshInv
<1>11. RecordInv'
  <2>1. ASSUME NEW g \in Handlers
        PROVE  /\ plan'[g] \in StorePlans \ {storeMessage} =>
                    messages'[loc'[g].id] = loc'[g] \/ loc'[g] \in acking
               /\ plan'[g] \in DeletePlans => loc'[g] \in acking
               /\ plan'[g] \in DeletePlans \ {deleteMessage} => messages'[loc'[g].id] = Nil
    <3>1. CASE g = h
      BY <1>1, <1>2, <1>3, <1>4, <3>1, Zenon
    <3>2. CASE g # h
      BY <1>1, <1>4, <1>6, <1>7, <3>2 DEF MailboxInv, RecordInv
    <3> QED
      BY <3>1, <3>2, Zenon
  <2>2. \A x \in sent \ acking : messages'[x.id] = x
    BY <1>4, <1>6, <1>8, Zenon DEF MailboxInv, RecordInv
  <2>3. \A x \in acked : messages'[x.id] = Nil
    BY <1>4, <1>6, <1>8, Zenon DEF MailboxInv, RecordInv
  <2> QED
    BY <2>1, <2>2, <2>3, Zenon DEF MailboxInv, RecordInv
<1> QED
  BY <1>5, <1>10, <1>11, KnownStays, Zenon

(* Every step of a plan preserves the invariant. *)
LEMMA DoStep ==
  ASSUME MailboxInv, NEW h \in Handlers,
         WriteMessage(h) \/ ReadInbox(h) \/ WriteInbox(h) \/ Confirm(h)
  PROVE  MailboxInv'
<1>1. ASSUME NEW step, Do(h, step)
      PROVE  /\ PlanInv' /\ loc[h] \in Message
             /\ loc[h].id \in MessageIds /\ loc[h].to \in Users
             /\ {loc[h].from, loc[h].to} \subseteq Members(loc[h].pair)
             /\ \A g \in Handlers : /\ \A i \in DOMAIN plan'[g] : plan'[g][i] \in MailboxSteps
                                    /\ plan'[g] # <<>> => loc'[g] \in Message
  <2>1. PlanInv' /\ loc[h] \in Message /\ loc[h] \in Known /\ loc[h].id \in MessageIds /\ loc[h].to \in Users
    BY <1>1, Advance, Zenon
  <2>2. {loc[h].from, loc[h].to} \subseteq Members(loc[h].pair)
    BY <2>1, Zenon DEF MailboxInv, KnownInv
  <2>3. \A g \in Handlers : /\ \A i \in DOMAIN plan'[g] : plan'[g][i] \in MailboxSteps
                            /\ plan'[g] # <<>> => loc'[g] \in Message
    BY <2>1, PlanTypes, Zenon DEF PlanInv
  <2> QED
    BY <2>1, <2>2, <2>3, Zenon
<1>2. CASE WriteMessage(h)
  <2>1. UNCHANGED <<paired, inbox, next, ids, sent, acking, acked, overlapped>>
    BY <1>2, Zenon DEF WriteMessage
  <2>2. CASE Do(h, "putMessage") /\ messages' = [messages EXCEPT ![loc[h].id] = loc[h]]
    <3>1. MailboxTypeOK'
      BY <1>1, <2>1, <2>2, Zenon DEF MailboxInv, MailboxTypeOK
    <3> QED
      BY <1>1, <2>1, <2>2, <3>1, PutStep, Zenon DEF MailboxInv
  <2>3. CASE Do(h, "deleteMessage") /\ messages' = [messages EXCEPT ![loc[h].id] = Nil]
    <3>1. MailboxTypeOK'
      BY <1>1, <2>1, <2>3, Zenon DEF MailboxInv, MailboxTypeOK
    <3> QED
      BY <1>1, <2>1, <2>3, <3>1, DeleteStep, Zenon DEF MailboxInv
  <2> QED
    BY <1>2, <2>2, <2>3, Zenon DEF WriteMessage
<1>3. CASE ReadInbox(h)
  <2>1. Do(h, "readInbox") /\ UNCHANGED <<messages, next, sent, acking, acked>>
    BY <1>3, Zenon DEF ReadInbox
  <2>2. MailboxTypeOK'
    BY <1>1, <1>3, <2>1 DEF MailboxInv, MailboxTypeOK, ReadInbox
  <2> QED
    BY <1>1, <2>1, <2>2, QuietStep, Zenon DEF MailboxInv
<1>4. CASE WriteInbox(h)
  <2>1. UNCHANGED <<paired, messages, next, sent, acking, acked, overlapped>>
    BY <1>4, Zenon DEF WriteInbox
  <2>2. PICK step \in {"addInbox", "removeInbox"} : Do(h, step)
    BY <1>4, Zenon DEF WriteInbox
  <2>3. inbox' \in [Users -> SUBSET MessageIds] /\ ids' \in [Handlers -> SUBSET MessageIds]
    BY <1>1, <1>4, <2>2, SMTT(30) DEF MailboxInv, MailboxTypeOK, WriteInbox, addToIndex, removeFromIndex
  <2>4. MailboxTypeOK'
    BY <1>1, <2>1, <2>2, <2>3, Zenon DEF MailboxInv, MailboxTypeOK
  <2> QED
    BY <1>1, <2>1, <2>2, <2>4, QuietStep, Zenon DEF MailboxInv
<1>5. CASE Confirm(h)
  <2>1. UNCHANGED <<paired, messages, inbox, next, ids, acking, overlapped>>
    BY <1>5, Zenon DEF Confirm
  <2>2. ASSUME NEW step \in {"confirm", "confirmAck"}, Do(h, step)
        PROVE  /\ plan[h] \in StorePlans \cup DeletePlans /\ Head(plan[h]) = step
               /\ plan[h] # storeMessage /\ plan[h] # deleteMessage
               /\ loc[h] \in Message /\ loc[h] \in Known
               /\ plan'[h] \notin {storeMessage, deleteMessage}
               /\ plan'[h] \in StorePlans => plan[h] \in StorePlans /\ loc'[h] = loc[h]
               /\ plan'[h] \in DeletePlans => plan[h] \in DeletePlans /\ loc'[h] = loc[h]
               /\ loc'[h] \in {loc[h], Nil}
               /\ \A g \in Handlers \ {h} : plan'[g] = plan[g] /\ loc'[g] = loc[g]
               /\ \A g \in Handlers : plan[g] = storeMessage =>
                     g # h /\ loc[g].id # loc[h].id
    <3>1. /\ plan[h] \in StorePlans \cup DeletePlans /\ Head(plan[h]) = step
          /\ loc[h] \in Message /\ loc[h] \in Known
          /\ plan'[h] \notin {storeMessage, deleteMessage}
          /\ plan'[h] \in StorePlans => plan[h] \in StorePlans /\ loc'[h] = loc[h]
          /\ plan'[h] \in DeletePlans => plan[h] \in DeletePlans /\ loc'[h] = loc[h]
          /\ loc'[h] \in {loc[h], Nil}
          /\ \A g \in Handlers \ {h} : plan'[g] = plan[g] /\ loc'[g] = loc[g]
      BY <2>2, Advance, Zenon
    <3>2. plan[h] # storeMessage /\ plan[h] # deleteMessage
      BY <3>1, PlanSteps, Zenon
    <3>3. \A g \in Handlers : plan[g] = storeMessage => g # h /\ loc[g].id # loc[h].id
      BY <3>1, <3>2, Zenon DEF MailboxInv, FreshInv, Known
    <3> QED
      BY <3>1, <3>2, <3>3, Zenon
  <2>3. ASSUME NEW g \in Handlers, NEW step \in {"confirm", "confirmAck"}, Do(h, step)
        PROVE  /\ plan'[g] \in StorePlans \ {storeMessage} =>
                    messages[loc'[g].id] = loc'[g] \/ loc'[g] \in acking
               /\ plan'[g] \in DeletePlans => loc'[g] \in acking
               /\ plan'[g] \in DeletePlans \ {deleteMessage} => messages[loc'[g].id] = Nil
    BY <2>2, <2>3, SMTT(30) DEF MailboxInv, RecordInv
  <2>4. CASE Do(h, "confirm") /\ sent' = sent \cup {loc[h]} /\ UNCHANGED acked
    <3>1. /\ plan[h] \in StorePlans \cup DeletePlans /\ Head(plan[h]) = "confirm"
          /\ plan[h] # storeMessage /\ plan[h] # deleteMessage
          /\ loc[h] \in Message /\ loc[h] \in Known
          /\ plan'[h] \notin {storeMessage, deleteMessage}
          /\ loc'[h] \in {loc[h], Nil}
          /\ \A g \in Handlers \ {h} : plan'[g] = plan[g] /\ loc'[g] = loc[g]
          /\ \A g \in Handlers : plan[g] = storeMessage => g # h /\ loc[g].id # loc[h].id
      BY <2>2, <2>4, Zenon
    <3>2. messages[loc[h].id] = loc[h] \/ loc[h] \in acking
      BY <3>1, PlanSteps, Zenon DEF MailboxInv, RecordInv
    <3>3. sent' \cup acked' \subseteq Message /\ sent' \cup acked' \subseteq sent \cup acked \cup {loc[h]}
      BY <2>4, <3>1, Zenon DEF MailboxInv, MailboxTypeOK
    <3>4. /\ PlanInv'
          /\ \A g \in Handlers : /\ \A i \in DOMAIN plan'[g] : plan'[g][i] \in MailboxSteps
                                 /\ plan'[g] # <<>> => loc'[g] \in Message
      BY <1>1, <2>4, Zenon
    <3>5. MailboxTypeOK'
      BY <2>1, <3>3, <3>4, Zenon DEF MailboxInv, MailboxTypeOK
    <3>6. Known' \subseteq Known
      <4>1. {loc'[g] : g \in Handlers} \subseteq {loc[g] : g \in Handlers} \cup {Nil}
        BY <3>1, Zenon
      <4> QED
        BY <2>1, <3>1, <3>3, <4>1, Zenon DEF Known
    <3>7. FreshInv'
      <4> SUFFICES ASSUME NEW g \in Handlers, plan'[g] = storeMessage
                   PROVE  /\ messages[loc'[g].id] = Nil
                          /\ \A x \in sent' \cup acking \cup acked' : x.id # loc'[g].id
                          /\ \A f \in Handlers \ {g} : loc'[f] # Nil => loc'[f].id # loc'[g].id
        BY <2>1, Zenon DEF FreshInv
      <4>1. g # h /\ plan[g] = storeMessage /\ loc'[g] = loc[g]
        BY <3>1, Zenon
      <4>2. /\ messages[loc[g].id] = Nil
            /\ \A x \in sent \cup acking \cup acked : x.id # loc[g].id
            /\ \A f \in Handlers \ {g} : loc[f] # Nil => loc[f].id # loc[g].id
        BY <4>1, Zenon DEF MailboxInv, FreshInv
      <4>3. loc[h].id # loc[g].id
        BY <3>1, <4>1, Zenon
      <4>4. \A f \in Handlers : loc'[f] # Nil => loc'[f] = loc[f]
        BY <3>1, Zenon
      <4> QED
        BY <3>3, <4>1, <4>2, <4>3, <4>4, Zenon
    <3>8. RecordInv'
      BY <2>1, <2>3, <2>4, <3>2, Zenon DEF MailboxInv, RecordInv
    <3> QED
      BY <2>1, <3>5, <3>6, <3>7, <3>8, <3>4, KnownStays, Zenon DEF MailboxInv
  <2>5. CASE Do(h, "confirmAck") /\ acked' = acked \cup {loc[h]} /\ UNCHANGED sent
    <3>1. /\ plan[h] \in StorePlans \cup DeletePlans /\ Head(plan[h]) = "confirmAck"
          /\ plan[h] # storeMessage /\ plan[h] # deleteMessage
          /\ loc[h] \in Message /\ loc[h] \in Known
          /\ plan'[h] \notin {storeMessage, deleteMessage}
          /\ loc'[h] \in {loc[h], Nil}
          /\ \A g \in Handlers \ {h} : plan'[g] = plan[g] /\ loc'[g] = loc[g]
          /\ \A g \in Handlers : plan[g] = storeMessage => g # h /\ loc[g].id # loc[h].id
      BY <2>2, <2>5, Zenon
    <3>2. messages[loc[h].id] = Nil /\ loc[h] \in acking
      BY <3>1, PlanSteps, Zenon DEF MailboxInv, RecordInv
    <3>3. sent' \cup acked' \subseteq Message /\ sent' \cup acked' \subseteq sent \cup acked \cup {loc[h]}
      BY <2>5, <3>1, Zenon DEF MailboxInv, MailboxTypeOK
    <3>4. /\ PlanInv'
          /\ \A g \in Handlers : /\ \A i \in DOMAIN plan'[g] : plan'[g][i] \in MailboxSteps
                                 /\ plan'[g] # <<>> => loc'[g] \in Message
      BY <1>1, <2>5, Zenon
    <3>5. MailboxTypeOK'
      BY <2>1, <3>3, <3>4, Zenon DEF MailboxInv, MailboxTypeOK
    <3>6. Known' \subseteq Known
      <4>1. {loc'[g] : g \in Handlers} \subseteq {loc[g] : g \in Handlers} \cup {Nil}
        BY <3>1, Zenon
      <4> QED
        BY <2>1, <3>1, <3>3, <4>1, Zenon DEF Known
    <3>7. FreshInv'
      <4> SUFFICES ASSUME NEW g \in Handlers, plan'[g] = storeMessage
                   PROVE  /\ messages[loc'[g].id] = Nil
                          /\ \A x \in sent' \cup acking \cup acked' : x.id # loc'[g].id
                          /\ \A f \in Handlers \ {g} : loc'[f] # Nil => loc'[f].id # loc'[g].id
        BY <2>1, Zenon DEF FreshInv
      <4>1. g # h /\ plan[g] = storeMessage /\ loc'[g] = loc[g]
        BY <3>1, Zenon
      <4>2. /\ messages[loc[g].id] = Nil
            /\ \A x \in sent \cup acking \cup acked : x.id # loc[g].id
            /\ \A f \in Handlers \ {g} : loc[f] # Nil => loc[f].id # loc[g].id
        BY <4>1, Zenon DEF MailboxInv, FreshInv
      <4>3. loc[h].id # loc[g].id
        BY <3>1, <4>1, Zenon
      <4>4. \A f \in Handlers : loc'[f] # Nil => loc'[f] = loc[f]
        BY <3>1, Zenon
      <4> QED
        BY <3>3, <4>1, <4>2, <4>3, <4>4, Zenon
    <3>8. RecordInv'
      BY <2>1, <2>3, <2>5, <3>2, Zenon DEF MailboxInv, RecordInv
    <3> QED
      BY <2>1, <3>5, <3>6, <3>7, <3>8, <3>4, KnownStays, Zenon DEF MailboxInv
  <2> QED
    BY <1>5, <2>4, <2>5, Zenon DEF Confirm
<1> QED
  BY <1>2, <1>3, <1>4, <1>5, Zenon

(* mailboxSend preserves the invariant: the id is new. *)
LEMMA SendStep ==
  ASSUME MailboxInv, NEW h \in Handlers, NEW u \in Users, NEW to \in Users,
         NEW p \in Pairs, mailboxSend(h, u, to, p)
  PROVE  MailboxInv'
<1> DEFINE x == [id |-> next, from |-> u, to |-> to, pair |-> p]
<1>1. /\ plan[h] = <<>>
      /\ next <= MaxMessages /\ u \in Members(p) /\ to \in Members(p)
      /\ loc' = [loc EXCEPT ![h] = x]
      /\ next' = next + 1
      /\ plan' = [plan EXCEPT ![h] = storeMessage]
      /\ UNCHANGED <<paired, messages, inbox, ids, sent, acking, acked>>
  BY Zenon DEF mailboxSend, Begin, Idle
<1>2. overlapped' \in BOOLEAN
  BY Zenon DEF mailboxSend, Begin
<1>3. next \in MessageIds /\ next \in Nat /\ next' \in 1 .. MaxMessages + 1 /\ next' > next
  BY <1>1, MailboxAssumption DEF MailboxInv, MailboxTypeOK, MessageIds
<1>4. x \in Message /\ x # Nil /\ x.id = next /\ {x.from, x.to} \subseteq Members(x.pair)
  BY <1>1, <1>3, MailboxAssumption DEF Message
<1>5. /\ plan'[h] = storeMessage /\ loc'[h] = x
      /\ \A g \in Handlers \ {h} : plan'[g] = plan[g] /\ loc'[g] = loc[g]
  BY <1>1, Zenon DEF MailboxInv, PlanInv
<1>6. storeMessage \in StorePlans /\ storeMessage # <<>>
  BY Zenon DEF storeMessage, StorePlans
<1>7. PlanInv'
  BY <1>1, <1>4, <1>5, <1>6, Zenon DEF MailboxInv, PlanInv
<1>8. MailboxTypeOK'
  <2>1. \A g \in Handlers : /\ \A i \in DOMAIN plan'[g] : plan'[g][i] \in MailboxSteps
                            /\ plan'[g] # <<>> => loc'[g] \in Message
    BY <1>7, PlanTypes, SMTT(30) DEF PlanInv
  <2> QED
    BY <1>1, <1>2, <1>3, <2>1, Zenon DEF MailboxInv, MailboxTypeOK
<1>9. Known' \subseteq Known \cup {x}
  BY <1>1, <1>5, Zenon DEF Known
<1>10. \A y \in Known : y \in Message /\ y.id \in Nat /\ y.id < next
  BY MailboxAssumption DEF MailboxInv, KnownInv, Message, MessageIds
<1>11. KnownInv'
  <2> HIDE DEF x
  <2> QED
    BY <1>3, <1>4, <1>9, <1>10 DEF MailboxInv, KnownInv
<1>12. messages[next] = Nil
  BY <1>3, <1>10 DEF MailboxInv, MailboxTypeOK, Known
<1>13. \A y \in sent \cup acking \cup acked : y \in Known
  BY MailboxAssumption, Zenon DEF MailboxInv, MailboxTypeOK, Known
<1>14. \A g \in Handlers : loc[g] # Nil => loc[g].id # next
  BY <1>3, <1>10 DEF Known
<1>15. \A y \in sent \cup acking \cup acked : y.id # next
  BY <1>3, <1>10, <1>13
<1>16. FreshInv'
  <2> HIDE DEF x
  <2>1. ASSUME NEW g \in Handlers, plan'[g] = storeMessage
        PROVE  /\ messages[loc'[g].id] = Nil
               /\ \A y \in sent \cup acking \cup acked : y.id # loc'[g].id
               /\ \A f \in Handlers \ {g} : loc'[f] # Nil => loc'[f].id # loc'[g].id
    <3>1. CASE g = h
      BY <1>4, <1>5, <1>12, <1>14, <1>15, <3>1, Zenon
    <3>2. CASE g # h
      <4>1. loc[g] # Nil /\ plan[g] = storeMessage
        BY <1>5, <1>6, <2>1, <3>2, Zenon DEF MailboxInv, PlanInv
      <4> QED
        BY <1>4, <1>5, <1>14, <3>2, <4>1 DEF MailboxInv, FreshInv
    <3> QED
      BY <3>1, <3>2, Zenon
  <2> QED
    BY <1>1, <2>1, Zenon DEF FreshInv
<1>17. RecordInv'
  <2>1. storeMessage \notin DeletePlans
    BY <1>6, PlanSteps, Zenon
  <2> QED
    BY <1>1, <1>5, <2>1 DEF MailboxInv, RecordInv
<1> QED
  BY <1>7, <1>8, <1>11, <1>16, <1>17, Zenon DEF MailboxInv

(* mailboxAck preserves the invariant. *)
LEMMA AckStep ==
  ASSUME MailboxInv, NEW h \in Handlers, NEW u \in Users, NEW i \in MessageIds,
         mailboxAck(h, u, i)
  PROVE  MailboxInv'
<1>1. /\ plan[h] = <<>>
      /\ messages[i] # Nil
      /\ loc' = [loc EXCEPT ![h] = messages[i]]
      /\ plan' = [plan EXCEPT ![h] = deleteMessage]
      /\ acking' = acking \cup {messages[i]}
      /\ UNCHANGED <<paired, messages, inbox, next, ids, sent, acked>>
  BY Zenon DEF mailboxAck, Begin, Idle
<1>2. overlapped' \in BOOLEAN
  BY Zenon DEF mailboxAck, Begin
<1>3. messages[i] \in Message /\ messages[i].id = i /\ messages[i] \in Known
  BY <1>1, Zenon DEF MailboxInv, MailboxTypeOK, Known
<1>4. /\ plan'[h] = deleteMessage /\ loc'[h] = messages[i]
      /\ \A g \in Handlers \ {h} : plan'[g] = plan[g] /\ loc'[g] = loc[g]
  BY <1>1, Zenon DEF MailboxInv, PlanInv
<1>5. deleteMessage \in DeletePlans /\ deleteMessage \notin StorePlans /\ deleteMessage # <<>>
      /\ storeMessage \in StorePlans
  <2>1. deleteMessage \in DeletePlans /\ storeMessage \in StorePlans
    BY Zenon DEF deleteMessage, DeletePlans, storeMessage, StorePlans
  <2> QED
    BY <2>1, PlanSteps, Zenon
<1>6. PlanInv'
  BY <1>1, <1>3, <1>4, <1>5, Zenon DEF MailboxInv, PlanInv
<1>7. MailboxTypeOK'
  <2>1. \A g \in Handlers : /\ \A k \in DOMAIN plan'[g] : plan'[g][k] \in MailboxSteps
                            /\ plan'[g] # <<>> => loc'[g] \in Message
    BY <1>6, PlanTypes, Zenon DEF PlanInv
  <2> QED
    BY <1>1, <1>2, <1>3, <2>1, Zenon DEF MailboxInv, MailboxTypeOK
<1>8. Known' \subseteq Known
  BY <1>1, <1>3, <1>4 DEF Known
<1>9. FreshInv'
  <2>1. ASSUME NEW g \in Handlers, plan'[g] = storeMessage
        PROVE  /\ messages[loc'[g].id] = Nil
               /\ \A y \in sent \cup acking' \cup acked : y.id # loc'[g].id
               /\ \A f \in Handlers \ {g} : loc'[f] # Nil => loc'[f].id # loc'[g].id
    <3>1. g # h /\ plan[g] = storeMessage /\ loc'[g] = loc[g]
      BY <1>4, <1>5, <2>1, Zenon
    <3>2. messages[loc[g].id] = Nil /\ loc[g].id # i
      BY <1>1, <3>1, Zenon DEF MailboxInv, FreshInv
    <3> QED
      BY <1>1, <1>3, <1>4, <3>1, <3>2 DEF MailboxInv, FreshInv
  <2> QED
    BY <1>1, <2>1, Zenon DEF FreshInv
<1>10. RecordInv'
  <2>1. ASSUME NEW g \in Handlers
        PROVE  /\ plan'[g] \in StorePlans \ {storeMessage} =>
                    messages[loc'[g].id] = loc'[g] \/ loc'[g] \in acking'
               /\ plan'[g] \in DeletePlans => loc'[g] \in acking'
               /\ plan'[g] \in DeletePlans \ {deleteMessage} => messages[loc'[g].id] = Nil
    BY <1>1, <1>4, <1>5, SMTT(30) DEF MailboxInv, RecordInv
  <2> QED
    BY <1>1, <2>1, Zenon DEF MailboxInv, RecordInv
<1> QED
  BY <1>1, <1>6, <1>7, <1>8, <1>9, <1>10, KnownStays, Zenon DEF MailboxInv

(* A failure or a restart preserves the invariant: a request that ends     *)
(* early leaves its message put and unconfirmed, or acknowledged and there.*)
LEMMA AbandonStep ==
  ASSUME MailboxInv, NEW hs \in SUBSET Handlers, AbandonMessages(hs)
  PROVE  MailboxInv'
<1>1. /\ plan' = [h \in Handlers |-> IF h \in hs THEN <<>> ELSE plan[h]]
      /\ loc' = [h \in Handlers |-> IF h \in hs THEN Nil ELSE loc[h]]
      /\ ids' = [h \in Handlers |-> IF h \in hs THEN {} ELSE ids[h]]
      /\ UNCHANGED <<paired, messages, inbox, next, sent, acking, acked, overlapped>>
  BY Zenon DEF AbandonMessages, Abandon
<1>2. \A h \in Handlers : \/ plan'[h] = <<>> /\ loc'[h] = Nil
                          \/ plan'[h] = plan[h] /\ loc'[h] = loc[h]
  BY <1>1, Zenon
<1>3. <<>> \notin StorePlans \cup DeletePlans /\ <<>> # storeMessage
  BY PlanSteps, Zenon DEF storeMessage
<1>4. PlanInv'
  BY <1>1, <1>2, SMTT(30) DEF MailboxInv, PlanInv
<1>5. MailboxTypeOK'
  <2>1. \A g \in Handlers : /\ \A i \in DOMAIN plan'[g] : plan'[g][i] \in MailboxSteps
                            /\ plan'[g] # <<>> => loc'[g] \in Message
    BY <1>4, PlanTypes, Zenon DEF PlanInv
  <2> QED
    BY <1>1, <2>1, Zenon DEF MailboxInv, MailboxTypeOK
<1>6. Known' \subseteq Known
  BY <1>1, <1>2, Zenon DEF Known
<1>7. FreshInv'
  BY <1>1, <1>2, <1>3, Zenon DEF MailboxInv, FreshInv
<1>8. RecordInv'
  BY <1>1, <1>2, <1>3, Zenon DEF MailboxInv, RecordInv
<1> QED
  BY <1>1, <1>4, <1>5, <1>6, <1>7, <1>8, KnownStays, Zenon DEF MailboxInv

(* The invariant is inductive. *)
THEOREM MailboxInvariance == MailboxSpec => []MailboxInv
<1>1. MailboxInv /\ [MailboxNext]_mailboxVars => MailboxInv'
  <2> SUFFICES ASSUME MailboxInv, [MailboxNext]_mailboxVars PROVE MailboxInv'
    BY Zenon
  <2>1. ASSUME NEW p \in Pairs, TogglePair(p) PROVE MailboxInv'
    BY <2>1 DEF TogglePair, MailboxInv, MailboxTypeOK, PlanInv, Known, KnownInv, FreshInv, RecordInv
  <2>2. CASE UNCHANGED mailboxVars
    BY <2>2 DEF mailboxVars, MailboxInv, MailboxTypeOK, PlanInv, Known, KnownInv, FreshInv, RecordInv
  <2>3. ASSUME NEW h \in Handlers, AbandonMessages({h}) PROVE MailboxInv'
    BY <2>3, AbandonStep, Zenon
  <2>4. ASSUME AbandonMessages(Handlers) PROVE MailboxInv'
    BY <2>4, AbandonStep, Zenon
  <2> QED
    BY <2>1, <2>2, <2>3, <2>4, SendStep, AckStep, DoStep, Zenon DEF MailboxNext
<1> QED
  BY MailboxInitInv, <1>1, PTL DEF MailboxSpec

(* A confirmed message is kept until its recipient acknowledges it,        *)
(* whatever requests race and fail (storeMessage, mailboxAck).             *)
THEOREM ConfirmedKept == MailboxSpec => []MessagesKept
<1>1. MailboxInv => MessagesKept
  BY Zenon DEF MailboxInv, RecordInv, MessagesKept
<1> QED
  BY MailboxInvariance, <1>1, PTL

(* An acknowledged message is never shown again (mailboxPending). *)
THEOREM AckedGone == MailboxSpec => []AckedStaysGone
<1>1. MailboxInv => AckedStaysGone
  BY Zenon DEF MailboxInv, MailboxTypeOK, RecordInv, AckedStaysGone, mailboxPending
<1> QED
  BY MailboxInvariance, <1>1, PTL

-----------------------------------------------------------------------------
(* What is shown, while requests do not overlap.  The list a request       *)
(* writes back is then the list as it is, so a message that is listed      *)
(* stays listed until its own acknowledgement.                             *)

ReadCurrent ==
  \A h \in Handlers : At(h, "addInbox") \/ At(h, "removeInbox") =>
     ids[h] = inbox[loc[h].to]

Listed ==
  /\ \A h \in Handlers : At(h, "confirm") => loc[h].id \in inbox[loc[h].to]
  /\ \A x \in sent \ acking : x.id \in inbox[x.to]

ShownInv == ~ overlapped => Alone /\ ReadCurrent /\ Listed

(* What comes after each operation (storeMessage, deleteMessage). *)
LEMMA PlanHeads ==
  ASSUME NEW p \in StorePlans \cup DeletePlans
  PROVE  /\ Head(p) \in {"putMessage", "deleteMessage"} => Head(Tail(p)) = "readInbox"
         /\ Head(p) = "addInbox" => p \in StorePlans /\ Head(Tail(p)) = "confirm"
         /\ Head(p) = "removeInbox" => p \in DeletePlans /\ Head(Tail(p)) = "confirmAck"
         /\ Head(p) = "readInbox" => Head(Tail(p)) # "confirm"
         /\ Head(p) \in {"confirm", "confirmAck"} => Tail(p) = <<>>
<1>1. CASE p = <<"putMessage", "readInbox", "addInbox", "confirm">>
  BY <1>1 DEF StorePlans, DeletePlans
<1>2. CASE p = <<"readInbox", "addInbox", "confirm">>
  BY <1>2 DEF StorePlans, DeletePlans
<1>3. CASE p = <<"addInbox", "confirm">>
  BY <1>3 DEF StorePlans, DeletePlans
<1>4. CASE p = <<"confirm">>
  BY <1>4 DEF StorePlans, DeletePlans
<1>5. CASE p = <<"deleteMessage", "readInbox", "removeInbox", "confirmAck">>
  BY <1>5 DEF StorePlans, DeletePlans
<1>6. CASE p = <<"readInbox", "removeInbox", "confirmAck">>
  BY <1>6 DEF StorePlans, DeletePlans
<1>7. CASE p = <<"removeInbox", "confirmAck">>
  BY <1>7 DEF StorePlans, DeletePlans
<1>8. CASE p = <<"confirmAck">>
  BY <1>8 DEF StorePlans, DeletePlans
<1> QED
  BY <1>1, <1>2, <1>3, <1>4, <1>5, <1>6, <1>7, <1>8, Zenon DEF StorePlans, DeletePlans

(* A step of the only request there is. *)
LEMMA AloneStep ==
  ASSUME MailboxInv, Alone, NEW h \in Handlers, NEW step, Do(h, step)
  PROVE  /\ plan[h] \in StorePlans \cup DeletePlans /\ Head(plan[h]) = step
         /\ loc[h] \in Known /\ loc[h].to \in Users
         /\ plan'[h] = Tail(plan[h])
         /\ plan'[h] # <<>> => loc'[h] = loc[h]
         /\ \A g \in Handlers \ {h} : plan'[g] = <<>>
         /\ Alone'
<1>1. /\ plan[h] \in StorePlans \cup DeletePlans /\ Head(plan[h]) = step
      /\ loc[h] \in Known /\ loc[h].to \in Users
      /\ \A g \in Handlers \ {h} : plan'[g] = plan[g]
  BY Advance, Zenon
<1>2. plan'[h] = Tail(plan[h]) /\ (plan'[h] # <<>> => loc'[h] = loc[h])
  BY Zenon DEF Do, MailboxInv, PlanInv
<1>3. \A g \in Handlers \ {h} : plan[g] = <<>>
  BY Zenon DEF Alone, Do, Idle
<1>4. Alone'
  BY <1>1, <1>3, Zenon DEF Alone
<1> QED
  BY <1>1, <1>2, <1>3, <1>4, Zenon

(* Every step keeps what is listed listed. *)
LEMMA ShownStep ==
  ASSUME MailboxInv, ShownInv, [MailboxNext]_mailboxVars
  PROVE  ShownInv'
<1> SUFFICES ASSUME ~ overlapped' PROVE Alone' /\ ReadCurrent' /\ Listed'
  BY Zenon DEF ShownInv
<1>1. ASSUME NEW h \in Handlers, Begin(h), NEW p, plan' = [plan EXCEPT ![h] = p],
             p # <<>>, Head(p) \in {"putMessage", "deleteMessage"},
             UNCHANGED <<inbox, sent>>, acking \subseteq acking'
      PROVE  Alone' /\ ReadCurrent' /\ Listed'
  <2>1. ~ overlapped /\ \A g \in Handlers : plan[g] = <<>>
    BY <1>1, BeginAlone, Zenon
  <2>2. plan'[h] = p /\ \A g \in Handlers \ {h} : plan'[g] = <<>>
    BY <1>1, <2>1, Zenon DEF MailboxInv, PlanInv
  <2>3. \A g \in Handlers : ~ At(g, "addInbox")' /\ ~ At(g, "removeInbox")' /\ ~ At(g, "confirm")'
    BY <1>1, <2>2, Zenon DEF At
  <2> QED
    BY <1>1, <2>1, <2>2, <2>3, Zenon DEF Alone, ReadCurrent, ShownInv, Listed
<1>2. ASSUME NEW h \in Handlers, NEW u \in Users, NEW to \in Users, NEW p \in Pairs,
             mailboxSend(h, u, to, p)
      PROVE  Alone' /\ ReadCurrent' /\ Listed'
  <2>1. storeMessage # <<>> /\ Head(storeMessage) = "putMessage"
    BY DEF storeMessage
  <2> QED
    BY <1>1, <1>2, <2>1, Zenon DEF mailboxSend
<1>3. ASSUME NEW h \in Handlers, NEW u \in Users, NEW i \in MessageIds, mailboxAck(h, u, i)
      PROVE  Alone' /\ ReadCurrent' /\ Listed'
  <2>1. deleteMessage # <<>> /\ Head(deleteMessage) = "deleteMessage"
    BY DEF deleteMessage
  <2>2. /\ Begin(h) /\ plan' = [plan EXCEPT ![h] = deleteMessage]
        /\ UNCHANGED <<inbox, sent>> /\ acking \subseteq acking'
    BY <1>3, Zenon DEF mailboxAck
  <2> QED
    BY <1>1, <2>1, <2>2, Zenon
<1>4. ASSUME overlapped' = overlapped
      PROVE  Alone /\ ReadCurrent /\ Listed
  BY <1>4, Zenon DEF ShownInv
<1>5. ASSUME NEW h \in Handlers, WriteMessage(h)
      PROVE  Alone' /\ ReadCurrent' /\ Listed'
  <2>1. UNCHANGED <<inbox, sent, acking, overlapped>>
    BY <1>5, Zenon DEF WriteMessage
  <2>2. PICK step \in {"putMessage", "deleteMessage"} : Do(h, step)
    BY <1>5, Zenon DEF WriteMessage
  <2>3. /\ plan[h] \in StorePlans \cup DeletePlans /\ Head(plan[h]) = step
        /\ plan'[h] = Tail(plan[h])
        /\ \A g \in Handlers \ {h} : plan'[g] = <<>>
        /\ Alone'
    BY <1>4, <2>1, <2>2, AloneStep, Zenon
  <2>4. Head(plan'[h]) = "readInbox"
    BY <2>2, <2>3, PlanHeads, Zenon
  <2>5. \A g \in Handlers : ~ At(g, "addInbox")' /\ ~ At(g, "removeInbox")' /\ ~ At(g, "confirm")'
    BY <2>3, <2>4, Zenon DEF At
  <2> QED
    BY <1>4, <2>1, <2>3, <2>5, Zenon DEF ReadCurrent, Listed
<1>6. ASSUME NEW h \in Handlers, ReadInbox(h)
      PROVE  Alone' /\ ReadCurrent' /\ Listed'
  <2>1. /\ Do(h, "readInbox") /\ ids' = [ids EXCEPT ![h] = inbox[loc[h].to]]
        /\ UNCHANGED <<inbox, sent, acking, overlapped>>
    BY <1>6, Zenon DEF ReadInbox
  <2>2. /\ plan[h] \in StorePlans \cup DeletePlans /\ Head(plan[h]) = "readInbox"
        /\ plan'[h] = Tail(plan[h])
        /\ plan'[h] # <<>> => loc'[h] = loc[h]
        /\ \A g \in Handlers \ {h} : plan'[g] = <<>>
        /\ Alone'
    BY <1>4, <2>1, AloneStep, Zenon
  <2>3. Head(plan'[h]) # "confirm"
    BY <2>2, PlanHeads, Zenon
  <2>4. ids'[h] = inbox[loc[h].to]
    BY <2>1, Zenon DEF MailboxInv, MailboxTypeOK
  <2> QED
    BY <1>4, <2>1, <2>2, <2>3, <2>4, Zenon DEF ReadCurrent, Listed, At
<1>7. ASSUME NEW h \in Handlers, WriteInbox(h)
      PROVE  Alone' /\ ReadCurrent' /\ Listed'
  <2>1. UNCHANGED <<sent, acking, overlapped>>
    BY <1>7, Zenon DEF WriteInbox
  <2>2. \A x \in sent \ acking : x \in Known /\ x.to \in Users
    BY MailboxAssumption DEF MailboxInv, MailboxTypeOK, Known, Message
  <2>3. CASE /\ Do(h, "addInbox")
             /\ inbox' = [inbox EXCEPT ![loc[h].to] = addToIndex(@, ids[h], loc[h].id)]
    <3>1. /\ plan[h] \in StorePlans \cup DeletePlans /\ Head(plan[h]) = "addInbox"
          /\ loc[h].to \in Users
          /\ plan'[h] = Tail(plan[h])
          /\ plan'[h] # <<>> => loc'[h] = loc[h]
          /\ \A g \in Handlers \ {h} : plan'[g] = <<>>
          /\ Alone'
      BY <1>4, <2>1, <2>3, AloneStep, Zenon
    <3>2. Head(plan'[h]) = "confirm"
      BY <3>1, PlanHeads, Zenon
    <3>3. ids[h] = inbox[loc[h].to]
      BY <1>4, <2>1, <2>3, <3>1, Zenon DEF ReadCurrent, At, Do, Idle
    <3>4. /\ loc[h].id \in inbox'[loc[h].to]
          /\ \A u \in Users : inbox[u] \subseteq inbox'[u]
      BY <2>3, <3>1, <3>3, Zenon DEF MailboxInv, MailboxTypeOK, addToIndex
    <3>5. \A g \in Handlers : ~ At(g, "addInbox")' /\ ~ At(g, "removeInbox")'
      BY <3>1, <3>2, Zenon DEF At
    <3> QED
      BY <1>4, <2>1, <2>2, <3>1, <3>4, <3>5, Zenon DEF ReadCurrent, Listed, At
  <2>4. CASE /\ Do(h, "removeInbox")
             /\ inbox' = [inbox EXCEPT ![loc[h].to] = removeFromIndex(@, ids[h], loc[h].id)]
    <3>1. /\ plan[h] \in StorePlans \cup DeletePlans /\ Head(plan[h]) = "removeInbox"
          /\ loc[h] \in Known /\ loc[h].to \in Users
          /\ plan'[h] = Tail(plan[h])
          /\ \A g \in Handlers \ {h} : plan'[g] = <<>>
          /\ Alone'
      BY <1>4, <2>1, <2>4, AloneStep, Zenon
    <3>2. Head(plan'[h]) = "confirmAck" /\ plan[h] \in DeletePlans
      BY <3>1, PlanHeads, Zenon
    <3>3. ids[h] = inbox[loc[h].to]
      BY <1>4, <2>1, <2>4, <3>1, Zenon DEF ReadCurrent, At, Do, Idle
    <3>4. \A u \in Users : inbox[u] \ {loc[h].id} \subseteq inbox'[u]
      BY <2>4, <3>1, <3>3, Zenon DEF MailboxInv, MailboxTypeOK, removeFromIndex
    <3>5. \A g \in Handlers : ~ At(g, "addInbox")' /\ ~ At(g, "removeInbox")' /\ ~ At(g, "confirm")'
      BY <3>1, <3>2, Zenon DEF At
    <3>6. \A x \in sent \ acking : x.id # loc[h].id
      BY <2>2, <3>1, <3>2, Zenon DEF MailboxInv, RecordInv, KnownInv
    <3> QED
      BY <1>4, <2>1, <2>2, <3>1, <3>4, <3>5, <3>6, Zenon DEF ReadCurrent, Listed
  <2> QED
    BY <1>7, <2>3, <2>4, Zenon DEF WriteInbox
<1>8. ASSUME NEW h \in Handlers, Confirm(h)
      PROVE  Alone' /\ ReadCurrent' /\ Listed'
  <2>1. UNCHANGED <<inbox, acking, overlapped>>
    BY <1>8, Zenon DEF Confirm
  <2>2. PICK step \in {"confirm", "confirmAck"} :
          /\ Do(h, step)
          /\ sent' = IF step = "confirm" THEN sent \cup {loc[h]} ELSE sent
    BY <1>8, Zenon DEF Confirm
  <2>3. /\ plan[h] \in StorePlans \cup DeletePlans /\ Head(plan[h]) = step
        /\ plan'[h] = Tail(plan[h])
        /\ \A g \in Handlers \ {h} : plan'[g] = <<>>
        /\ Alone'
    BY <1>4, <2>1, <2>2, AloneStep, Zenon
  <2>4. \A g \in Handlers : plan'[g] = <<>>
    BY <2>2, <2>3, PlanHeads, Zenon
  <2>5. step = "confirm" => loc[h].id \in inbox[loc[h].to]
    BY <1>4, <2>1, <2>2, <2>3, Zenon DEF Listed, At, Do, Idle
  <2> QED
    BY <1>4, <2>1, <2>2, <2>3, <2>4, <2>5, Zenon DEF ReadCurrent, Listed, At
<1>9. ASSUME NEW hs, AbandonMessages(hs)
      PROVE  Alone' /\ ReadCurrent' /\ Listed'
  <2>1. /\ UNCHANGED <<inbox, sent, acking, overlapped>>
        /\ \A h \in Handlers : plan'[h] # <<>> =>
              plan'[h] = plan[h] /\ loc'[h] = loc[h] /\ ids'[h] = ids[h]
    BY <1>9, Zenon DEF AbandonMessages, Abandon
  <2> QED
    BY <1>4, <2>1, Zenon DEF Alone, ReadCurrent, Listed, At
<1>10. ASSUME UNCHANGED <<plan, loc, ids, inbox, sent, acking, overlapped>>
       PROVE  Alone' /\ ReadCurrent' /\ Listed'
  BY <1>4, <1>10, Zenon DEF Alone, ReadCurrent, Listed, At
<1> QED
  BY <1>2, <1>3, <1>5, <1>6, <1>7, <1>8, <1>9, <1>10, Zenon
  DEF MailboxNext, TogglePair, mailboxVars

(* A confirmed message is shown to its recipient until it acknowledges it, *)
(* in spite of failures and restarts, as long as requests do not overlap   *)
(* (storeMessage, deleteMessage and mailboxPending).                       *)
THEOREM ConfirmedShown == MailboxSpec => []ShownUntilAcked
<1>1. MailboxInit => ShownInv
  BY Zenon DEF MailboxInit, RequestsInit, ShownInv, Alone, ReadCurrent, Listed, At
<1>2. MailboxInv /\ ShownInv /\ [MailboxNext]_mailboxVars => ShownInv'
  BY ShownStep, Zenon
<1>3. MailboxInv /\ ShownInv => ShownUntilAcked
  BY MailboxAssumption DEF MailboxInv, MailboxTypeOK, RecordInv, ShownInv, Listed, ShownUntilAcked, mailboxPending
<1> QED
  BY MailboxInvariance, <1>1, <1>2, <1>3, PTL DEF MailboxSpec

-----------------------------------------------------------------------------
(* Pairing.                                                                *)
(*                                                                         *)
(* Racing requests may write a pair in any order, but each writes what a   *)
(* user asked for.  The index follows the pairs only while requests do not *)
(* overlap: then every list a request writes back is the list as it is,    *)
(* and each point of a plan, where a failure may end it, leaves the index  *)
(* within the pairs that are there.                                        *)

(* What is left of storePair, of pairAccept and of deletePair. *)
Store2 == <<"readInitiator", "addInitiator", "readPartner", "addPartner">>
Store3 == <<"addInitiator", "readPartner", "addPartner">>
Store4 == <<"readPartner", "addPartner">>
Store5 == <<"addPartner">>
AcceptPair == <<"putPair">>
Delete2 == <<"removeInitiator", "readPartner", "removePartner", "deletePair">>
Delete3 == <<"readPartner", "removePartner", "deletePair">>
Delete4 == <<"removePartner", "deletePair">>
Delete5 == <<"deletePair">>

PairPlans == {storePair, Store2, Store3, Store4, Store5, AcceptPair,
              deletePair, Delete2, Delete3, Delete4, Delete5}

PairPlanInv ==
  /\ plan \in [Handlers -> PairPlans \cup {<<>>}]
  /\ loc \in [Handlers -> Pair \cup {Nil}]
  /\ \A h \in Handlers : /\ plan[h] = <<>> <=> loc[h] = Nil
                         /\ loc[h] # Nil => pairID(loc[h]) \in PairIds

(* A request that is about to store an accepted pair has the consent of    *)
(* its partner.                                                            *)
ConsentInv ==
  /\ Consent
  /\ \A h \in Handlers : loc[h] # Nil /\ loc[h].status = "accepted" =>
        <<loc[h].partner, pairID(loc[h])>> \in consents

PairingInv == PairingTypeOK /\ PairPlanInv /\ ConsentInv

(* What holds at each point of a plan, when no other request is served.    *)
PointInv(h) ==
  LET p == loc[h]
      id == pairID(p)
      first == index[p.initiator]
      second == index[p.partner]
  IN
  /\ plan[h] = storePair => p.status = "pending" /\ pairs[id] = Nil
  /\ plan[h] = Store2 => pairs[id] # Nil
  /\ plan[h] = Store3 => pairs[id] # Nil /\ ids[h] = first
  /\ plan[h] = Store4 => pairs[id] # Nil /\ id \in first
  /\ plan[h] = Store5 => pairs[id] # Nil /\ id \in first /\ ids[h] = second
  /\ plan[h] = AcceptPair => p.status = "accepted" /\ pairs[id] # Nil
  /\ plan[h] = deletePair => id \notin created
  /\ plan[h] = Delete2 => id \notin created /\ ids[h] = first
  /\ plan[h] = Delete3 => id \notin created /\ id \notin first
  /\ plan[h] = Delete4 => id \notin created /\ id \notin first /\ ids[h] = second
  /\ plan[h] = Delete5 => id \notin created /\ id \notin first \cup second

(* The index lists pairs that are there, for members of theirs. *)
IndexInv ==
  /\ \A u \in Users : \A id \in index[u] : pairs[id] # Nil /\ u \in id
  /\ \A id \in created : \A u \in id : id \in index[u]
  /\ \A id \in gone : pairs[id] = Nil

AgreeInv == ~ overlapped => Alone /\ IndexInv /\ \A h \in Handlers : PointInv(h)

(* The points of the plans are told apart. *)
LEMMA PointsDiffer ==
  /\ <<>> \notin PairPlans
  /\ storePair \notin PairPlans \ {storePair}
  /\ Store2 \notin {storePair, Store3, Store4, Store5, AcceptPair,
                    deletePair, Delete2, Delete3, Delete4, Delete5}
  /\ Store3 \notin {storePair, Store4, Store5, AcceptPair,
                    deletePair, Delete2, Delete3, Delete4, Delete5}
  /\ Store4 \notin {storePair, Store5, AcceptPair,
                    deletePair, Delete2, Delete3, Delete4, Delete5}
  /\ Store5 \notin {storePair, AcceptPair, deletePair, Delete2, Delete3, Delete4, Delete5}
  /\ AcceptPair \notin {storePair, deletePair, Delete2, Delete3, Delete4, Delete5}
  /\ deletePair \notin {storePair, Delete2, Delete3, Delete4, Delete5}
  /\ Delete2 \notin {storePair, Delete3, Delete4, Delete5}
  /\ Delete3 \notin {storePair, Delete4, Delete5}
  /\ Delete4 # storePair /\ Delete4 # Delete5 /\ Delete5 # storePair
  BY Zenon DEF PairPlans, storePair, Store2, Store3, Store4, Store5, AcceptPair,
         deletePair, Delete2, Delete3, Delete4, Delete5

(* What each operation leaves of its plan (storePair, deletePair). *)
LEMMA PairPlanSteps ==
  ASSUME NEW p \in PairPlans
  PROVE  /\ Tail(p) \in PairPlans \cup {<<>>}
         /\ \A i \in DOMAIN p : p[i] \in PairingSteps
         /\ Head(p) = "putPair" => \/ p = storePair /\ Tail(p) = Store2
                                   \/ p = AcceptPair /\ Tail(p) = <<>>
         /\ Head(p) = "readInitiator" => \/ p = Store2 /\ Tail(p) = Store3
                                         \/ p = deletePair /\ Tail(p) = Delete2
         /\ Head(p) = "addInitiator" => p = Store3 /\ Tail(p) = Store4
         /\ Head(p) = "readPartner" => \/ p = Store4 /\ Tail(p) = Store5
                                       \/ p = Delete3 /\ Tail(p) = Delete4
         /\ Head(p) = "addPartner" => p = Store5 /\ Tail(p) = <<>>
         /\ Head(p) = "removeInitiator" => p = Delete2 /\ Tail(p) = Delete3
         /\ Head(p) = "removePartner" => p = Delete4 /\ Tail(p) = Delete5
         /\ Head(p) = "deletePair" => p = Delete5 /\ Tail(p) = <<>>
<1>1. CASE p = storePair
  BY <1>1 DEF PairPlans, PairingSteps, storePair, Store2
<1>2. CASE p = Store2
  BY <1>2 DEF PairPlans, PairingSteps, Store2, Store3
<1>3. CASE p = Store3
  BY <1>3 DEF PairPlans, PairingSteps, Store3, Store4
<1>4. CASE p = Store4
  BY <1>4 DEF PairPlans, PairingSteps, Store4, Store5
<1>5. CASE p = Store5
  BY <1>5 DEF PairPlans, PairingSteps, Store5
<1>6. CASE p = AcceptPair
  BY <1>6 DEF PairPlans, PairingSteps, AcceptPair
<1>7. CASE p = deletePair
  BY <1>7 DEF PairPlans, PairingSteps, deletePair, Delete2
<1>8. CASE p = Delete2
  BY <1>8 DEF PairPlans, PairingSteps, Delete2, Delete3
<1>9. CASE p = Delete3
  BY <1>9 DEF PairPlans, PairingSteps, Delete3, Delete4
<1>10. CASE p = Delete4
  BY <1>10 DEF PairPlans, PairingSteps, Delete4, Delete5
<1>11. CASE p = Delete5
  BY <1>11 DEF PairPlans, PairingSteps, Delete5
<1> QED
  BY <1>1, <1>2, <1>3, <1>4, <1>5, <1>6, <1>7, <1>8, <1>9, <1>10, <1>11, Zenon DEF PairPlans

(* The part of the type invariant that speaks of plans. *)
LEMMA PairPlanTypes ==
  ASSUME NEW p \in [Handlers -> PairPlans \cup {<<>>}],
         NEW l \in [Handlers -> Pair \cup {Nil}],
         \A h \in Handlers : p[h] = <<>> <=> l[h] = Nil
  PROVE  \A h \in Handlers : /\ \A i \in DOMAIN p[h] : p[h][i] \in PairingSteps
                             /\ p[h] # <<>> => l[h] \in Pair
<1> SUFFICES ASSUME NEW h \in Handlers
             PROVE  \A i \in DOMAIN p[h] : p[h][i] \in PairingSteps
  BY Zenon
<1>1. CASE p[h] = <<>>
  BY <1>1
<1>2. CASE p[h] \in PairPlans
  BY <1>2, PairPlanSteps, Zenon
<1> QED
  BY <1>1, <1>2, Zenon

(* The members of a pair. *)
LEMMA PairFields ==
  ASSUME NEW p \in Pair
  PROVE  /\ p.initiator \in Users /\ p.partner \in Users
         /\ p.status \in {"pending", "accepted"}
         /\ pairID(p) = {p.initiator, p.partner}
         /\ p # Nil
  BY PairingAssumption, Zenon DEF Pair, pairID

(* A step of a plan: what it does to plan and loc, whatever else it does. *)
LEMMA PairAdvance ==
  ASSUME PairingInv, NEW h \in Handlers, NEW step, Do(h, step)
  PROVE  /\ plan[h] \in PairPlans /\ Head(plan[h]) = step
         /\ loc[h] \in Pair /\ pairID(loc[h]) \in PairIds
         /\ plan'[h] = Tail(plan[h])
         /\ loc'[h] = IF plan'[h] = <<>> THEN Nil ELSE loc[h]
         /\ \A g \in Handlers \ {h} : plan'[g] = plan[g] /\ loc'[g] = loc[g]
         /\ PairPlanInv'
         /\ \A g \in Handlers : /\ \A i \in DOMAIN plan'[g] : plan'[g][i] \in PairingSteps
                                /\ plan'[g] # <<>> => loc'[g] \in Pair
<1>1. /\ plan[h] \in PairPlans /\ Head(plan[h]) = step
      /\ plan' = [plan EXCEPT ![h] = Tail(plan[h])]
      /\ loc' = IF Tail(plan[h]) = <<>> THEN [loc EXCEPT ![h] = Nil] ELSE loc
  BY Zenon DEF Do, Idle, PairingInv, PairPlanInv
<1>2. loc[h] \in Pair /\ pairID(loc[h]) \in PairIds /\ loc[h] # Nil
  BY <1>1, PointsDiffer, PairFields, Zenon DEF PairingInv, PairPlanInv
<1>3. /\ plan'[h] = Tail(plan[h])
      /\ loc'[h] = IF plan'[h] = <<>> THEN Nil ELSE loc[h]
      /\ \A g \in Handlers \ {h} : plan'[g] = plan[g] /\ loc'[g] = loc[g]
  BY <1>1, Zenon DEF PairingInv, PairPlanInv
<1>4. plan'[h] \in PairPlans \cup {<<>>}
  BY <1>1, <1>3, PairPlanSteps, Zenon
<1>5. plan' \in [Handlers -> PairPlans \cup {<<>>}] /\ loc' \in [Handlers -> Pair \cup {Nil}]
  BY <1>1, <1>3, <1>4, Zenon DEF PairingInv, PairPlanInv
<1>6. \A g \in Handlers : plan'[g] = <<>> <=> loc'[g] = Nil
  BY <1>2, <1>3, Zenon DEF PairingInv, PairPlanInv
<1>7. \A g \in Handlers : loc'[g] # Nil => pairID(loc'[g]) \in PairIds
  BY <1>2, <1>3, Zenon DEF PairingInv, PairPlanInv
<1>8. \A g \in Handlers : /\ \A i \in DOMAIN plan'[g] : plan'[g][i] \in PairingSteps
                          /\ plan'[g] # <<>> => loc'[g] \in Pair
  BY <1>5, <1>6, PairPlanTypes, Zenon
<1> QED
  BY <1>1, <1>2, <1>3, <1>5, <1>6, <1>7, <1>8, Zenon DEF PairPlanInv

(* A request that begins with a pair it has loaded or made. *)
LEMMA PairBegin ==
  ASSUME PairingInv, NEW h \in Handlers, NEW x \in Pair, pairID(x) \in PairIds,
         NEW p \in PairPlans,
         plan' = [plan EXCEPT ![h] = p], loc' = [loc EXCEPT ![h] = x]
  PROVE  /\ plan'[h] = p /\ loc'[h] = x
         /\ \A g \in Handlers \ {h} : plan'[g] = plan[g] /\ loc'[g] = loc[g]
         /\ PairPlanInv'
         /\ \A g \in Handlers : /\ \A i \in DOMAIN plan'[g] : plan'[g][i] \in PairingSteps
                                /\ plan'[g] # <<>> => loc'[g] \in Pair
<1>1. /\ plan'[h] = p /\ loc'[h] = x
      /\ \A g \in Handlers \ {h} : plan'[g] = plan[g] /\ loc'[g] = loc[g]
  BY Zenon DEF PairingInv, PairPlanInv
<1>2. plan' \in [Handlers -> PairPlans \cup {<<>>}] /\ loc' \in [Handlers -> Pair \cup {Nil}]
  BY Zenon DEF PairingInv, PairPlanInv
<1>3. \A g \in Handlers : plan'[g] = <<>> <=> loc'[g] = Nil
  BY <1>1, PointsDiffer, PairFields, Zenon DEF PairingInv, PairPlanInv
<1>4. \A g \in Handlers : loc'[g] # Nil => pairID(loc'[g]) \in PairIds
  BY <1>1, PointsDiffer, PairFields, Zenon DEF PairingInv, PairPlanInv
<1>5. \A g \in Handlers : /\ \A i \in DOMAIN plan'[g] : plan'[g][i] \in PairingSteps
                          /\ plan'[g] # <<>> => loc'[g] \in Pair
  BY <1>2, <1>3, PairPlanTypes, Zenon
<1> QED
  BY <1>1, <1>2, <1>3, <1>4, <1>5, Zenon DEF PairPlanInv

(* The initial state satisfies the invariant. *)
LEMMA PairingInitInv == PairingInit => PairingInv
<1> SUFFICES ASSUME PairingInit PROVE PairingInv
  BY Zenon
<1>1. PairPlanInv
  BY Zenon DEF PairingInit, RequestsInit, PairPlanInv
<1>2. /\ pairs \in [PairIds -> Pair \cup {Nil}] /\ \A id \in PairIds : pairs[id] = Nil
      /\ index \in [Users -> SUBSET PairIds] /\ ids \in [Handlers -> SUBSET PairIds]
      /\ \A h \in Handlers : loc[h] = Nil
  BY Zenon DEF PairingInit, RequestsInit
<1>3. PairingTypeOK
  BY <1>1, <1>2, PairPlanTypes, Zenon DEF PairingInit, RequestsInit, PairPlanInv, PairingTypeOK
<1> QED
  BY <1>1, <1>2, <1>3, Zenon DEF PairingInv, ConsentInv, Consent

(* Every handler preserves the invariant: it has in memory the pair it     *)
(* loaded or made, and an accept records its consent.                      *)
LEMMA PairingHandlers ==
  ASSUME PairingInv, NEW h \in Handlers, NEW u \in Users,
         \/ \E v \in Users : pairCreate(h, u, v)
         \/ \E id \in PairIds : pairAccept(h, u, id) \/ pairDelete(h, u, id)
  PROVE  PairingInv'
<1>1. ASSUME NEW v \in Users, pairCreate(h, u, v) PROVE PairingInv'
  <2> DEFINE x == [initiator |-> u, partner |-> v, status |-> "pending"]
  <2>1. /\ loc' = [loc EXCEPT ![h] = x] /\ plan' = [plan EXCEPT ![h] = storePair]
        /\ UNCHANGED <<pairs, index, ids, doomed, created, gone, consents>>
        /\ overlapped' \in BOOLEAN /\ u # v /\ {u, v} \in PairIds
    BY <1>1, Zenon DEF pairCreate, Begin
  <2>2. x \in Pair /\ pairID(x) \in PairIds /\ x.status # "accepted" /\ storePair \in PairPlans
    BY <2>1, Zenon DEF Pair, pairID, PairPlans
  <2> HIDE DEF x
  <2>3. /\ loc'[h] = x
        /\ \A g \in Handlers \ {h} : plan'[g] = plan[g] /\ loc'[g] = loc[g]
        /\ PairPlanInv'
        /\ \A g \in Handlers : /\ \A i \in DOMAIN plan'[g] : plan'[g][i] \in PairingSteps
                               /\ plan'[g] # <<>> => loc'[g] \in Pair
    BY <2>1, <2>2, PairBegin, Zenon
  <2>4. PairingTypeOK'
    BY <2>1, <2>3, Zenon DEF PairingInv, PairingTypeOK
  <2>5. ConsentInv'
    <3>1. \A g \in Handlers : loc'[g] # Nil /\ loc'[g].status = "accepted" =>
            <<loc'[g].partner, pairID(loc'[g])>> \in consents
      BY <2>2, <2>3, Zenon DEF PairingInv, ConsentInv
    <3> QED
      BY <2>1, <3>1, Zenon DEF PairingInv, ConsentInv, Consent
  <2> QED
    BY <2>3, <2>4, <2>5, Zenon DEF PairingInv
<1>2. ASSUME NEW id \in PairIds, pairAccept(h, u, id) PROVE PairingInv'
  <2> DEFINE x == [pairs[id] EXCEPT !.status = "accepted"]
  <2>1. /\ loc' = [loc EXCEPT ![h] = x] /\ plan' = [plan EXCEPT ![h] = AcceptPair]
        /\ consents' = consents \cup {<<u, id>>}
        /\ UNCHANGED <<pairs, index, ids, doomed, created, gone>>
        /\ overlapped' \in BOOLEAN /\ pairs[id] # Nil /\ pairs[id].partner = u
    BY <1>2, Zenon DEF pairAccept, Begin, AcceptPair
  <2>2. pairs[id] \in Pair /\ pairID(pairs[id]) = id
    BY <2>1, Zenon DEF PairingInv, PairingTypeOK
  <2>3. x \in Pair /\ pairID(x) = id /\ x.partner = u /\ AcceptPair \in PairPlans
    BY <2>1, <2>2, Zenon DEF Pair, pairID, PairPlans
  <2> HIDE DEF x
  <2>4. /\ loc'[h] = x
        /\ \A g \in Handlers \ {h} : plan'[g] = plan[g] /\ loc'[g] = loc[g]
        /\ PairPlanInv'
        /\ \A g \in Handlers : /\ \A i \in DOMAIN plan'[g] : plan'[g][i] \in PairingSteps
                               /\ plan'[g] # <<>> => loc'[g] \in Pair
    BY <2>1, <2>3, PairBegin, Zenon
  <2>5. consents' \subseteq Users \X PairIds
    BY <2>1 DEF PairingInv, PairingTypeOK
  <2>6. PairingTypeOK'
    BY <2>1, <2>4, <2>5, Zenon DEF PairingInv, PairingTypeOK
  <2>7. ConsentInv'
    <3>1. \A g \in Handlers : loc'[g] # Nil /\ loc'[g].status = "accepted" =>
            <<loc'[g].partner, pairID(loc'[g])>> \in consents'
      BY <2>1, <2>3, <2>4, SMTT(30) DEF PairingInv, ConsentInv
    <3> QED
      BY <2>1, <3>1, ZenonT(30) DEF PairingInv, ConsentInv, Consent
  <2> QED
    BY <2>4, <2>6, <2>7, Zenon DEF PairingInv
<1>3. ASSUME NEW id \in PairIds, pairDelete(h, u, id) PROVE PairingInv'
  <2>1. UNCHANGED <<pairs, index, ids, consents>> /\ overlapped' \in BOOLEAN
    BY <1>3, Zenon DEF pairDelete, Begin
  <2>2. CASE pairs[id] = Nil
    <3>1. gone' = gone \cup {id} /\ UNCHANGED <<plan, loc, doomed, created>>
      BY <1>3, <2>2, Zenon DEF pairDelete
    <3>2. PairingTypeOK'
      BY <2>1, <3>1, Zenon DEF PairingInv, PairingTypeOK
    <3> QED
      BY <2>1, <3>1, <3>2, Zenon DEF PairingInv, PairPlanInv, ConsentInv, Consent
  <2>3. CASE pairs[id] # Nil
    <3>1. /\ loc' = [loc EXCEPT ![h] = pairs[id]] /\ plan' = [plan EXCEPT ![h] = deletePair]
          /\ created' = created \ {id} /\ doomed' = doomed \cup {id} /\ UNCHANGED gone
      BY <1>3, <2>3, Zenon DEF pairDelete
    <3>2. pairs[id] \in Pair /\ pairID(pairs[id]) = id /\ deletePair \in PairPlans
      BY <2>3, Zenon DEF PairingInv, PairingTypeOK, PairPlans
    <3>3. /\ loc'[h] = pairs[id]
          /\ \A g \in Handlers \ {h} : plan'[g] = plan[g] /\ loc'[g] = loc[g]
          /\ PairPlanInv'
          /\ \A g \in Handlers : /\ \A i \in DOMAIN plan'[g] : plan'[g][i] \in PairingSteps
                                 /\ plan'[g] # <<>> => loc'[g] \in Pair
      BY <3>1, <3>2, PairBegin, Zenon
    <3>4. PairingTypeOK'
      BY <2>1, <3>1, <3>3, Zenon DEF PairingInv, PairingTypeOK
    <3>5. ConsentInv'
      BY <2>1, <2>3, <3>2, <3>3, Zenon DEF PairingInv, ConsentInv, Consent
    <3> QED
      BY <3>3, <3>4, <3>5, Zenon DEF PairingInv
  <2> QED
    BY <2>2, <2>3, Zenon
<1> QED
  BY <1>1, <1>2, <1>3, Zenon

(* Every storage operation preserves the invariant. *)
LEMMA PairingOperations ==
  ASSUME PairingInv, NEW h \in Handlers,
         PutPair(h) \/ DeletePair(h) \/ ReadIndex(h) \/ WriteIndex(h) \/ AddPartner(h)
  PROVE  PairingInv'
<1>1. ASSUME NEW step, Do(h, step)
      PROVE  /\ loc[h] \in Pair /\ pairID(loc[h]) \in PairIds
             /\ loc[h].initiator \in Users /\ loc[h].partner \in Users /\ loc[h] # Nil
             /\ \A g \in Handlers : loc'[g] # Nil => loc'[g] = loc[g]
             /\ PairPlanInv'
             /\ \A g \in Handlers : /\ \A i \in DOMAIN plan'[g] : plan'[g][i] \in PairingSteps
                                    /\ plan'[g] # <<>> => loc'[g] \in Pair
  BY <1>1, PairAdvance, PairFields, Zenon
<1>2. PICK step : Do(h, step)
  BY Zenon DEF PutPair, DeletePair, ReadIndex, WriteIndex, AddPartner
<1> HIDE DEF Pair, pairID
<1>3. CASE PutPair(h)
  <2>1. /\ pairs' = [pairs EXCEPT ![pairID(loc[h])] = loc[h]]
        /\ UNCHANGED <<index, ids, created, consents, overlapped>>
        /\ gone' \subseteq gone /\ doomed' \subseteq doomed
    BY <1>3, Zenon DEF PutPair
  <2>2. /\ pairs' \in [PairIds -> Pair \cup {Nil}]
        /\ pairs'[pairID(loc[h])] = loc[h]
        /\ \A id \in PairIds \ {pairID(loc[h])} : pairs'[id] = pairs[id]
    BY <1>1, <1>2, <2>1, Zenon DEF PairingInv, PairingTypeOK
  <2>3. PairingTypeOK'
    BY <1>1, <1>2, <2>1, <2>2, Zenon DEF PairingInv, PairingTypeOK
  <2>4. ConsentInv'
    BY <1>1, <1>2, <2>1, <2>2, Zenon DEF PairingInv, ConsentInv, Consent
  <2> QED
    BY <1>1, <1>2, <2>3, <2>4, Zenon DEF PairingInv
<1>4. CASE DeletePair(h)
  <2>1. /\ pairs' = [pairs EXCEPT ![pairID(loc[h])] = Nil]
        /\ gone' = gone \cup {pairID(loc[h])}
        /\ UNCHANGED <<index, ids, doomed, created, consents, overlapped>>
    BY <1>4, Zenon DEF DeletePair
  <2>2. /\ pairs' \in [PairIds -> Pair \cup {Nil}]
        /\ \A id \in PairIds : pairs'[id] = Nil \/ pairs'[id] = pairs[id]
    BY <1>1, <1>2, <2>1, Zenon DEF PairingInv, PairingTypeOK
  <2>3. PairingTypeOK'
    BY <1>1, <1>2, <2>1, <2>2, Zenon DEF PairingInv, PairingTypeOK
  <2>4. ConsentInv'
    BY <1>1, <1>2, <2>1, <2>2, Zenon DEF PairingInv, ConsentInv, Consent
  <2> QED
    BY <1>1, <1>2, <2>3, <2>4, Zenon DEF PairingInv
<1>5. ASSUME UNCHANGED <<pairs, doomed, gone, consents, overlapped>>,
             created' \subseteq PairIds,
             index' \in [Users -> SUBSET PairIds], ids' \in [Handlers -> SUBSET PairIds]
      PROVE  PairingInv'
  <2>1. PairingTypeOK'
    BY <1>1, <1>2, <1>5, Zenon DEF PairingInv, PairingTypeOK
  <2>2. ConsentInv'
    BY <1>1, <1>2, <1>5, Zenon DEF PairingInv, ConsentInv, Consent
  <2> QED
    BY <1>1, <1>2, <2>1, <2>2, Zenon DEF PairingInv
<1>6. CASE ReadIndex(h)
  <2>1. /\ UNCHANGED <<pairs, index, doomed, created, gone, consents, overlapped>>
        /\ \E u \in Users : ids' = [ids EXCEPT ![h] = index[u]]
    BY <1>1, <1>2, <1>6, Zenon DEF ReadIndex
  <2>2. ids' \in [Handlers -> SUBSET PairIds]
    BY <2>1, SMTT(30) DEF PairingInv, PairingTypeOK
  <2> QED
    BY <1>5, <2>1, <2>2, Zenon DEF PairingInv, PairingTypeOK
<1>7. ASSUME NEW u \in Users, Add(h, u) \/ Remove(h, u), ids' = [ids EXCEPT ![h] = {}]
      PROVE  index' \in [Users -> SUBSET PairIds] /\ ids' \in [Handlers -> SUBSET PairIds]
  BY <1>1, <1>2, <1>7 DEF PairingInv, PairingTypeOK, Add, Remove, addToIndex, removeFromIndex
<1>8. CASE WriteIndex(h)
  <2>1. /\ UNCHANGED <<pairs, doomed, created, gone, consents, overlapped>>
        /\ ids' = [ids EXCEPT ![h] = {}]
        /\ \E u \in Users : Add(h, u) \/ Remove(h, u)
    BY <1>1, <1>2, <1>8, Zenon DEF WriteIndex
  <2> QED
    BY <1>5, <1>7, <2>1, Zenon DEF PairingInv, PairingTypeOK
<1>9. CASE AddPartner(h)
  <2>1. /\ UNCHANGED <<pairs, doomed, gone, consents, overlapped>>
        /\ ids' = [ids EXCEPT ![h] = {}]
        /\ \E u \in Users : Add(h, u)
        /\ created' \subseteq PairIds
    BY <1>1, <1>2, <1>9, Zenon DEF AddPartner, PairingInv, PairingTypeOK
  <2> QED
    BY <1>5, <1>7, <2>1, Zenon
<1> QED
  BY <1>3, <1>4, <1>6, <1>8, <1>9, Zenon

(* The invariant is inductive. *)
THEOREM PairingInvariance == PairingSpec => []PairingInv
<1>1. PairingInv /\ [PairingNext]_pairingVars => PairingInv'
  <2> SUFFICES ASSUME PairingInv, [PairingNext]_pairingVars PROVE PairingInv'
    BY Zenon
  <2>1. ASSUME NEW hs, AbandonPairs(hs) PROVE PairingInv'
    <3>1. /\ plan' = [h \in Handlers |-> IF h \in hs THEN <<>> ELSE plan[h]]
          /\ loc' = [h \in Handlers |-> IF h \in hs THEN Nil ELSE loc[h]]
          /\ ids' = [h \in Handlers |-> IF h \in hs THEN {} ELSE ids[h]]
          /\ UNCHANGED <<pairs, index, doomed, created, gone, consents, overlapped>>
      BY <2>1, Zenon DEF AbandonPairs, Abandon
    <3>2. /\ plan' \in [Handlers -> PairPlans \cup {<<>>}]
          /\ loc' \in [Handlers -> Pair \cup {Nil}]
          /\ ids' \in [Handlers -> SUBSET PairIds]
          /\ \A h \in Handlers : \/ plan'[h] = <<>> /\ loc'[h] = Nil
                                 \/ plan'[h] = plan[h] /\ loc'[h] = loc[h]
      BY <3>1, Zenon DEF PairingInv, PairPlanInv, PairingTypeOK
    <3>3. PairPlanInv'
      BY <3>2, Zenon DEF PairingInv, PairPlanInv
    <3>4. \A g \in Handlers : /\ \A i \in DOMAIN plan'[g] : plan'[g][i] \in PairingSteps
                              /\ plan'[g] # <<>> => loc'[g] \in Pair
      BY <3>3, PairPlanTypes, Zenon DEF PairPlanInv
    <3>5. PairingTypeOK'
      BY <3>1, <3>2, <3>4, Zenon DEF PairingInv, PairingTypeOK
    <3>6. ConsentInv'
      BY <3>1, <3>2, Zenon DEF PairingInv, ConsentInv, Consent
    <3> QED
      BY <3>3, <3>5, <3>6, Zenon DEF PairingInv
  <2>2. CASE UNCHANGED pairingVars
    BY <2>2, Zenon DEF pairingVars, PairingInv, PairingTypeOK, PairPlanInv, ConsentInv, Consent
  <2> QED
    BY <2>1, <2>2, PairingHandlers, PairingOperations, Zenon DEF PairingNext
<1> QED
  BY PairingInitInv, <1>1, PTL DEF PairingSpec

(* Nobody is paired without asking, whatever requests race (pairAccept). *)
THEOREM PairedByConsent == PairingSpec => []Consent
<1>1. PairingInv => Consent
  BY Zenon DEF PairingInv, ConsentInv
<1> QED
  BY PairingInvariance, <1>1, PTL

(* A request that is not served constrains nothing. *)
LEMMA EndedPoint ==
  ASSUME NEW h \in Handlers, plan'[h] = <<>>
  PROVE  PointInv(h)'
  BY PointsDiffer, Zenon DEF PointInv, PairPlans

(* What is to be shown of a point a request reaches. *)
LEMMA ReachedPoint ==
  ASSUME NEW h \in Handlers, NEW p, p = loc'[h]
  PROVE  /\ /\ plan'[h] = Store3
            /\ pairs'[pairID(p)] # Nil /\ ids'[h] = index'[p.initiator]
            => PointInv(h)'
         /\ /\ plan'[h] = Store5
            /\ pairs'[pairID(p)] # Nil /\ pairID(p) \in index'[p.initiator]
            /\ ids'[h] = index'[p.partner]
            => PointInv(h)'
         /\ plan'[h] = deletePair /\ pairID(p) \notin created' => PointInv(h)'
         /\ /\ plan'[h] = Delete2
            /\ pairID(p) \notin created' /\ ids'[h] = index'[p.initiator]
            => PointInv(h)'
         /\ /\ plan'[h] = Delete4
            /\ pairID(p) \notin created' /\ pairID(p) \notin index'[p.initiator]
            /\ ids'[h] = index'[p.partner]
            => PointInv(h)'
  BY PointsDiffer, Zenon DEF PointInv, PairPlans

(* A handler, when no other request is served, leaves index and pairs in   *)
(* agreement (pairCreate, pairAccept, pairDelete).                         *)
LEMMA AgreeHandlers ==
  ASSUME PairingInv, AgreeInv, ~ overlapped', NEW h \in Handlers, NEW u \in Users,
         \/ \E v \in Users : pairCreate(h, u, v)
         \/ \E id \in PairIds : pairAccept(h, u, id) \/ pairDelete(h, u, id)
  PROVE  Alone' /\ IndexInv' /\ \A g \in Handlers : PointInv(g)'
<1>1. Begin(h)
  BY Zenon DEF pairCreate, pairAccept, pairDelete
<1>2. ~ overlapped /\ \A g \in Handlers : plan[g] = <<>>
  BY <1>1, BeginAlone, Zenon
<1>3. IndexInv
  BY <1>2, Zenon DEF AgreeInv
<1>4. ASSUME NEW x \in Pair, pairID(x) \in PairIds, NEW p \in PairPlans,
             plan' = [plan EXCEPT ![h] = p], loc' = [loc EXCEPT ![h] = x]
      PROVE  /\ Alone' /\ plan'[h] = p /\ loc'[h] = x
             /\ \A g \in Handlers \ {h} : PointInv(g)'
  <2>1. /\ plan'[h] = p /\ loc'[h] = x
        /\ \A g \in Handlers \ {h} : plan'[g] = plan[g]
    BY <1>4, PairBegin, ZenonT(30)
  <2>2. \A g \in Handlers \ {h} : plan'[g] = <<>>
    BY <1>2, <2>1, Zenon
  <2> QED
    BY <2>1, <2>2, EndedPoint, Zenon DEF Alone
<1>5. ASSUME NEW v \in Users, pairCreate(h, u, v)
      PROVE  Alone' /\ IndexInv' /\ \A g \in Handlers : PointInv(g)'
  <2> DEFINE x == [initiator |-> u, partner |-> v, status |-> "pending"]
  <2>1. /\ loc' = [loc EXCEPT ![h] = x] /\ plan' = [plan EXCEPT ![h] = storePair]
        /\ UNCHANGED <<pairs, index, ids, doomed, created, gone>>
        /\ u # v /\ {u, v} \in PairIds /\ pairs[{u, v}] = Nil
    BY <1>5, Zenon DEF pairCreate
  <2>2. /\ x \in Pair /\ pairID(x) = {u, v} /\ x.status = "pending" /\ storePair \in PairPlans
    BY <2>1, Zenon DEF Pair, pairID, PairPlans
  <2> HIDE DEF x
  <2>3. /\ Alone' /\ plan'[h] = storePair /\ loc'[h] = x
        /\ \A g \in Handlers \ {h} : PointInv(g)'
    BY <1>4, <2>1, <2>2, Zenon
  <2>4. PointInv(h)'
    BY <2>1, <2>2, <2>3, PointsDiffer, Zenon DEF PointInv, PairPlans
  <2> QED
    BY <1>3, <2>1, <2>3, <2>4, Zenon DEF IndexInv
<1>6. ASSUME NEW id \in PairIds, pairAccept(h, u, id)
      PROVE  Alone' /\ IndexInv' /\ \A g \in Handlers : PointInv(g)'
  <2> DEFINE x == [pairs[id] EXCEPT !.status = "accepted"]
  <2>1. /\ loc' = [loc EXCEPT ![h] = x] /\ plan' = [plan EXCEPT ![h] = AcceptPair]
        /\ UNCHANGED <<pairs, index, ids, doomed, created, gone>>
        /\ pairs[id] # Nil
    BY <1>6, Zenon DEF pairAccept, AcceptPair
  <2>2. pairs[id] \in Pair /\ pairID(pairs[id]) = id
    BY <2>1, Zenon DEF PairingInv, PairingTypeOK
  <2>3. x \in Pair /\ pairID(x) = id /\ x.status = "accepted" /\ AcceptPair \in PairPlans
    BY <2>2, Zenon DEF Pair, pairID, PairPlans
  <2> HIDE DEF x
  <2>4. /\ Alone' /\ plan'[h] = AcceptPair /\ loc'[h] = x
        /\ \A g \in Handlers \ {h} : PointInv(g)'
    BY <1>4, <2>1, <2>3, Zenon
  <2>5. PointInv(h)'
    BY <2>1, <2>3, <2>4, PointsDiffer, Zenon DEF PointInv, PairPlans
  <2> QED
    BY <1>3, <2>1, <2>4, <2>5, Zenon DEF IndexInv
<1>7. ASSUME NEW id \in PairIds, pairDelete(h, u, id)
      PROVE  Alone' /\ IndexInv' /\ \A g \in Handlers : PointInv(g)'
  <2>1. UNCHANGED <<pairs, index, ids>>
    BY <1>7, Zenon DEF pairDelete
  <2>2. CASE pairs[id] = Nil
    <3>1. gone' = gone \cup {id} /\ UNCHANGED <<plan, created>>
      BY <1>7, <2>2, Zenon DEF pairDelete
    <3>2. Alone' /\ \A g \in Handlers : PointInv(g)'
      BY <1>2, <3>1, EndedPoint, Zenon DEF Alone
    <3> QED
      BY <1>3, <2>1, <2>2, <3>1, <3>2, Zenon DEF IndexInv
  <2>3. CASE pairs[id] # Nil
    <3>1. /\ loc' = [loc EXCEPT ![h] = pairs[id]] /\ plan' = [plan EXCEPT ![h] = deletePair]
          /\ created' = created \ {id} /\ UNCHANGED gone
      BY <1>7, <2>3, Zenon DEF pairDelete
    <3>2. pairs[id] \in Pair /\ pairID(pairs[id]) = id /\ deletePair \in PairPlans
      BY <2>3, Zenon DEF PairingInv, PairingTypeOK, PairPlans
    <3>3. /\ Alone' /\ plan'[h] = deletePair /\ loc'[h] = pairs[id]
          /\ \A g \in Handlers \ {h} : PointInv(g)'
      BY <1>4, <3>1, <3>2, Zenon
    <3>4. id \notin created'
      BY <3>1, Zenon
    <3>5. PointInv(h)'
      BY <3>2, <3>3, <3>4, ReachedPoint, Zenon
    <3> QED
      BY <1>3, <2>1, <3>1, <3>3, <3>5, Zenon DEF IndexInv
  <2> QED
    BY <2>2, <2>3, Zenon
<1> QED
  BY <1>5, <1>6, <1>7, Zenon

(* So does every storage operation (storePair, deletePair). *)
LEMMA AgreeOperations ==
  ASSUME PairingInv, AgreeInv, ~ overlapped', NEW h \in Handlers,
         PutPair(h) \/ DeletePair(h) \/ ReadIndex(h) \/ WriteIndex(h) \/ AddPartner(h)
  PROVE  Alone' /\ IndexInv' /\ \A g \in Handlers : PointInv(g)'
<1> DEFINE p == loc[h]
           id == pairID(loc[h])
<1>1. Alone /\ IndexInv /\ PointInv(h)
  BY Zenon DEF AgreeInv, PutPair, DeletePair, ReadIndex, WriteIndex, AddPartner
<1>2. PICK step : Do(h, step)
  BY Zenon DEF PutPair, DeletePair, ReadIndex, WriteIndex, AddPartner
<1>3. /\ plan[h] \in PairPlans /\ Head(plan[h]) = step
      /\ p \in Pair /\ id \in PairIds
      /\ plan'[h] = Tail(plan[h])
      /\ plan'[h] # <<>> => loc'[h] = p
      /\ \A g \in Handlers \ {h} : plan'[g] = plan[g]
  BY <1>2, PairAdvance, Zenon
<1>4. \A g \in Handlers \ {h} : plan[g] = <<>>
  BY <1>1, <1>2, Zenon DEF Alone, Do, Idle
<1>5. Alone' /\ \A g \in Handlers \ {h} : PointInv(g)'
  <2>1. \A g \in Handlers \ {h} : plan'[g] = <<>>
    BY <1>3, <1>4, Zenon
  <2>2. Alone'
    BY <2>1, Zenon DEF Alone
  <2> QED
    BY <2>1, <2>2, EndedPoint, Zenon
<1>6. p.initiator \in Users /\ p.partner \in Users /\ id = {p.initiator, p.partner} /\ p # Nil
  BY <1>3, PairFields, Zenon
<1>7. /\ step = "putPair" => \/ plan[h] = storePair /\ plan'[h] = Store2
                             \/ plan[h] = AcceptPair /\ plan'[h] = <<>>
      /\ step = "readInitiator" => \/ plan[h] = Store2 /\ plan'[h] = Store3
                                   \/ plan[h] = deletePair /\ plan'[h] = Delete2
      /\ step = "addInitiator" => plan[h] = Store3 /\ plan'[h] = Store4
      /\ step = "readPartner" => \/ plan[h] = Store4 /\ plan'[h] = Store5
                                 \/ plan[h] = Delete3 /\ plan'[h] = Delete4
      /\ step = "addPartner" => plan[h] = Store5 /\ plan'[h] = <<>>
      /\ step = "removeInitiator" => plan[h] = Delete2 /\ plan'[h] = Delete3
      /\ step = "removePartner" => plan[h] = Delete4 /\ plan'[h] = Delete5
      /\ step = "deletePair" => plan[h] = Delete5 /\ plan'[h] = <<>>
  BY <1>3, PairPlanSteps, Zenon
<1>8. \A s : Do(h, s) => s = step
  BY <1>3, Zenon DEF Do
<1>9. Store2 # <<>> /\ Store3 # <<>> /\ Store4 # <<>> /\ Store5 # <<>>
      /\ Delete2 # <<>> /\ Delete3 # <<>> /\ Delete4 # <<>> /\ Delete5 # <<>>
  BY PointsDiffer, Zenon DEF PairPlans
<1>10. CASE PutPair(h)
  <2>1. /\ pairs' = [pairs EXCEPT ![id] = p] /\ UNCHANGED <<index, ids, created>>
        /\ gone' = IF p.status = "pending" THEN gone \ {id} ELSE gone
        /\ step = "putPair"
    BY <1>8, <1>10, Zenon DEF PutPair
  <2>2. pairs'[id] = p /\ \A i \in PairIds \ {id} : pairs'[i] = pairs[i]
    BY <1>3, <2>1, Zenon DEF PairingInv, PairingTypeOK
  <2>3. \A i \in PairIds : pairs[i] # Nil => pairs'[i] # Nil
    BY <1>6, <2>2, Zenon
  <2>4. CASE plan[h] = storePair /\ plan'[h] = Store2
    <3>1. p.status = "pending"
      BY <1>1, <2>4, Zenon DEF PointInv
    <3>2. IndexInv'
      BY <1>1, <2>1, <2>2, <2>3, <3>1, Zenon DEF IndexInv, PairingInv, PairingTypeOK
    <3>3. PointInv(h)'
      BY <1>3, <1>6, <1>9, <2>2, <2>4, PointsDiffer, Zenon DEF PointInv, PairPlans
    <3> QED
      BY <1>5, <3>2, <3>3, Zenon
  <2>5. CASE plan[h] = AcceptPair /\ plan'[h] = <<>>
    <3>1. p.status = "accepted" /\ pairs[id] # Nil
      BY <1>1, <2>5, Zenon DEF PointInv
    <3>2. gone' = gone
      BY <2>1, <3>1, Zenon
    <3>3. IndexInv'
      BY <1>1, <2>1, <2>2, <2>3, <3>1, <3>2, Zenon DEF IndexInv, PairingInv, PairingTypeOK
    <3> QED
      BY <1>5, <2>5, <3>3, EndedPoint, Zenon
  <2> QED
    BY <1>7, <2>1, <2>4, <2>5, Zenon
<1>11. CASE DeletePair(h)
  <2>1. /\ pairs' = [pairs EXCEPT ![id] = Nil] /\ gone' = gone \cup {id}
        /\ UNCHANGED <<index, ids, created>>
        /\ step = "deletePair"
    BY <1>8, <1>11, Zenon DEF DeletePair
  <2>2. pairs'[id] = Nil /\ \A i \in PairIds \ {id} : pairs'[i] = pairs[i]
    BY <1>3, <2>1, Zenon DEF PairingInv, PairingTypeOK
  <2>3. id \notin created /\ id \notin index[p.initiator] /\ id \notin index[p.partner]
    BY <1>1, <1>7, <2>1, Zenon DEF PointInv
  <2>4. \A u \in Users : id \notin index[u]
    BY <1>1, <1>6, <2>3, Zenon DEF IndexInv
  <2>5. IndexInv'
    <3>1. \A u \in Users : \A i \in index[u] : i \in PairIds \ {id}
      BY <2>4, Zenon DEF PairingInv, PairingTypeOK
    <3>2. \A u \in Users : \A i \in index[u] : pairs'[i] # Nil /\ u \in i
      BY <1>1, <2>2, <3>1, Zenon DEF IndexInv
    <3>3. \A i \in gone' : pairs'[i] = Nil
      BY <1>1, <2>1, <2>2, Zenon DEF IndexInv, PairingInv, PairingTypeOK
    <3> QED
      BY <1>1, <2>1, <3>2, <3>3, Zenon DEF IndexInv
  <2> QED
    BY <1>5, <1>7, <2>1, <2>5, EndedPoint, Zenon
<1>12. CASE ReadIndex(h)
  <2>1. UNCHANGED <<pairs, index, created, gone>>
    BY <1>12, Zenon DEF ReadIndex
  <2>2. \/ step = "readInitiator" /\ ids' = [ids EXCEPT ![h] = index[p.initiator]]
        \/ step = "readPartner" /\ ids' = [ids EXCEPT ![h] = index[p.partner]]
    BY <1>8, <1>12, Zenon DEF ReadIndex
  <2>3. \/ step = "readInitiator" /\ ids'[h] = index[p.initiator]
        \/ step = "readPartner" /\ ids'[h] = index[p.partner]
    BY <2>2, Zenon DEF PairingInv, PairingTypeOK
  <2>4. ASSUME plan[h] = Store2 /\ plan'[h] = Store3 /\ step = "readInitiator"
        PROVE  PointInv(h)'
    <3>1. loc'[h] = p /\ pairs[id] # Nil /\ ids'[h] = index[p.initiator]
      BY <1>1, <1>3, <1>9, <2>3, <2>4, Zenon DEF PointInv
    <3> QED
      BY <2>1, <2>4, <3>1, ReachedPoint, Zenon
  <2>5. ASSUME plan[h] = deletePair /\ plan'[h] = Delete2 /\ step = "readInitiator"
        PROVE  PointInv(h)'
    <3>1. loc'[h] = p /\ id \notin created /\ ids'[h] = index[p.initiator]
      BY <1>1, <1>3, <1>9, <2>3, <2>5, Zenon DEF PointInv
    <3> QED
      BY <2>1, <2>5, <3>1, ReachedPoint, Zenon
  <2>6. ASSUME plan[h] = Store4 /\ plan'[h] = Store5 /\ step = "readPartner"
        PROVE  PointInv(h)'
    <3>1. loc'[h] = p /\ pairs[id] # Nil /\ id \in index[p.initiator] /\ ids'[h] = index[p.partner]
      BY <1>1, <1>3, <1>9, <2>3, <2>6, Zenon DEF PointInv
    <3> QED
      BY <2>1, <2>6, <3>1, ReachedPoint, Zenon
  <2>7. ASSUME plan[h] = Delete3 /\ plan'[h] = Delete4 /\ step = "readPartner"
        PROVE  PointInv(h)'
    <3>1. loc'[h] = p /\ id \notin created /\ id \notin index[p.initiator] /\ ids'[h] = index[p.partner]
      BY <1>1, <1>3, <1>9, <2>3, <2>7, Zenon DEF PointInv
    <3> QED
      BY <2>1, <2>7, <3>1, ReachedPoint, Zenon
  <2>8. PointInv(h)'
    BY <1>7, <2>3, <2>4, <2>5, <2>6, <2>7, Zenon
  <2> QED
    BY <1>1, <1>5, <2>1, <2>8, Zenon DEF IndexInv
<1>13. ASSUME NEW u \in {p.initiator, p.partner}, Add(h, u), ids[h] = index[u], pairs[id] # Nil,
              UNCHANGED <<pairs, gone>>,
              created' \subseteq created \cup {id},
              id \in created' => id \in created \/ id \in index'[p.initiator] \cap index'[p.partner]
       PROVE  IndexInv' /\ id \in index'[u] /\ \A v \in Users : index[v] \subseteq index'[v]
  <2>1. index' = [index EXCEPT ![u] = index[u] \cup {id}]
    <3>1. index' = [index EXCEPT ![u] = addToIndex(index[u], index[u], id)]
      BY <1>13, Zenon DEF Add
    <3>2. addToIndex(index[u], index[u], id) = index[u] \cup {id}
      BY Zenon DEF addToIndex
    <3> QED
      BY <3>1, <3>2, Zenon
  <2>2. u \in Users /\ u \in id
    BY <1>6, Zenon
  <2>3. index'[u] = index[u] \cup {id} /\ \A v \in Users \ {u} : index'[v] = index[v]
    BY <2>1, <2>2, Zenon DEF PairingInv, PairingTypeOK
  <2>4. /\ \A v \in Users : index[v] \subseteq index'[v]
        /\ \A v \in Users : \A i \in index'[v] : i \in index[v] \/ (i = id /\ v = u)
    <3>1. \A v \in Users : \/ v # u /\ index'[v] = index[v]
                           \/ v = u /\ index'[v] = index[v] \cup {id}
      BY <2>3, Zenon
    <3>2. ASSUME NEW v \in Users
          PROVE  /\ index[v] \subseteq index'[v]
                 /\ \A i \in index'[v] : i \in index[v] \/ (i = id /\ v = u)
      <4> HIDE DEF id
      <4>1. CASE v # u /\ index'[v] = index[v]
        BY <4>1, Zenon
      <4>2. CASE v = u /\ index'[v] = index[v] \cup {id}
        BY <4>2, Zenon
      <4> QED
        BY <3>1, <4>1, <4>2, Zenon
    <3> QED
      BY <3>2, Zenon
  <2>5. \A v \in Users : \A i \in index'[v] : pairs'[i] # Nil /\ v \in i
    BY <1>1, <1>13, <2>2, <2>4, Zenon DEF IndexInv
  <2>6. \A i \in created' : \A v \in i : i \in index'[v]
    <3>1. \A i \in created : i \subseteq Users
      BY PairingAssumption, Zenon DEF PairingInv, PairingTypeOK
    <3>2. \A i \in created : \A v \in i : i \in index'[v]
      BY <1>1, <2>4, <3>1, Zenon DEF IndexInv
    <3>3. id \in created' \ created => \A v \in id : id \in index'[v]
      BY <1>6, <1>13, Zenon
    <3> QED
      BY <1>13, <3>2, <3>3, Zenon
  <2> QED
    BY <1>1, <1>13, <2>3, <2>4, <2>5, <2>6, Zenon DEF IndexInv
<1>14. ASSUME NEW u \in {p.initiator, p.partner}, Remove(h, u), ids[h] = index[u],
              id \notin created, UNCHANGED <<pairs, created, gone>>
       PROVE  IndexInv' /\ id \notin index'[u] /\ \A v \in Users : index'[v] \subseteq index[v]
  <2>1. index' = [index EXCEPT ![u] = index[u] \ {id}]
    <3>1. index' = [index EXCEPT ![u] = removeFromIndex(index[u], index[u], id)]
      BY <1>14, Zenon DEF Remove
    <3>2. removeFromIndex(index[u], index[u], id) = index[u] \ {id}
      BY Zenon DEF removeFromIndex
    <3> QED
      BY <3>1, <3>2, Zenon
  <2>2. u \in Users
    BY <1>6, Zenon
  <2>3. index'[u] = index[u] \ {id} /\ \A v \in Users \ {u} : index'[v] = index[v]
    BY <2>1, <2>2, Zenon DEF PairingInv, PairingTypeOK
  <2>4. \A v \in Users : index'[v] \subseteq index[v] /\ index[v] \ {id} \subseteq index'[v]
    BY <2>3, Zenon
  <2>5. \A i \in created : i \subseteq Users
    BY PairingAssumption, Zenon DEF PairingInv, PairingTypeOK
  <2> QED
    BY <1>1, <1>14, <2>3, <2>4, <2>5, Zenon DEF IndexInv
<1>15. CASE WriteIndex(h)
  <2>1. UNCHANGED <<pairs, created, gone>>
    BY <1>15, Zenon DEF WriteIndex
  <2>2. CASE step = "addInitiator" /\ Add(h, p.initiator)
    <3>1. pairs[id] # Nil /\ ids[h] = index[p.initiator]
      BY <1>1, <1>7, <2>2, Zenon DEF PointInv
    <3>2. IndexInv' /\ id \in index'[p.initiator]
      BY <1>13, <2>1, <2>2, <3>1, Zenon
    <3>3. PointInv(h)'
      BY <1>3, <1>7, <1>9, <2>1, <2>2, <3>1, <3>2, PointsDiffer, Zenon DEF PointInv, PairPlans
    <3> QED
      BY <1>5, <3>2, <3>3, Zenon
  <2>3. CASE step = "removeInitiator" /\ Remove(h, p.initiator)
    <3>1. id \notin created /\ ids[h] = index[p.initiator]
      BY <1>1, <1>7, <2>3, Zenon DEF PointInv
    <3>2. IndexInv' /\ id \notin index'[p.initiator]
      BY <1>14, <2>1, <2>3, <3>1, Zenon
    <3>3. PointInv(h)'
      BY <1>3, <1>7, <1>9, <2>1, <2>3, <3>1, <3>2, PointsDiffer, Zenon DEF PointInv, PairPlans
    <3> QED
      BY <1>5, <3>2, <3>3, Zenon
  <2>4. CASE step = "removePartner" /\ Remove(h, p.partner)
    <3>1. id \notin created /\ id \notin index[p.initiator] /\ ids[h] = index[p.partner]
      BY <1>1, <1>7, <2>4, Zenon DEF PointInv
    <3>2. IndexInv' /\ id \notin index'[p.partner] /\ id \notin index'[p.initiator]
      BY <1>6, <1>14, <2>1, <2>4, <3>1, Zenon
    <3>3. PointInv(h)'
      BY <1>3, <1>7, <1>9, <2>1, <2>4, <3>1, <3>2, PointsDiffer, Zenon DEF PointInv, PairPlans
    <3> QED
      BY <1>5, <3>2, <3>3, Zenon
  <2> QED
    BY <1>8, <1>15, <2>2, <2>3, <2>4, Zenon DEF WriteIndex
<1>16. CASE AddPartner(h)
  <2>1. /\ UNCHANGED <<pairs, gone>> /\ created' \subseteq created \cup {id}
        /\ step = "addPartner" /\ Add(h, p.partner)
    BY <1>8, <1>16, Zenon DEF AddPartner
  <2>2. pairs[id] # Nil /\ id \in index[p.initiator] /\ ids[h] = index[p.partner]
    BY <1>1, <1>7, <2>1, Zenon DEF PointInv
  <2>3. id \in index'[p.initiator] /\ id \in index'[p.partner]
    BY <1>3, <1>6, <2>1, <2>2, Zenon DEF Add, addToIndex, PairingInv, PairingTypeOK
  <2>4. IndexInv'
    BY <1>13, <2>1, <2>2, <2>3, Zenon
  <2> QED
    BY <1>5, <1>7, <2>1, <2>4, EndedPoint, Zenon
<1> QED
  BY <1>10, <1>11, <1>12, <1>15, <1>16, Zenon

(* While requests do not overlap, index and pairs agree. *)
LEMMA AgreeStep ==
  ASSUME PairingInv, AgreeInv, [PairingNext]_pairingVars
  PROVE  AgreeInv'
<1> SUFFICES ASSUME ~ overlapped'
             PROVE  Alone' /\ IndexInv' /\ \A h \in Handlers : PointInv(h)'
  BY Zenon DEF AgreeInv
<1>1. ASSUME NEW hs, AbandonPairs(hs)
      PROVE  Alone' /\ IndexInv' /\ \A h \in Handlers : PointInv(h)'
  <2>1. /\ UNCHANGED <<pairs, index, created, gone, overlapped>>
        /\ \A h \in Handlers : \/ plan'[h] = <<>>
                               \/ plan'[h] = plan[h] /\ loc'[h] = loc[h] /\ ids'[h] = ids[h]
    BY <1>1, Zenon DEF AbandonPairs, Abandon
  <2>2. Alone /\ IndexInv /\ \A h \in Handlers : PointInv(h)
    BY <2>1, Zenon DEF AgreeInv
  <2>3. ASSUME NEW h \in Handlers PROVE PointInv(h)'
    <3>1. CASE plan'[h] = <<>>
      BY <3>1, EndedPoint, Zenon
    <3>2. CASE plan'[h] = plan[h] /\ loc'[h] = loc[h] /\ ids'[h] = ids[h]
      BY <2>1, <2>2, <3>2, ZenonT(30) DEF PointInv
    <3> QED
      BY <2>1, <3>1, <3>2, Zenon
  <2> QED
    BY <2>1, <2>2, <2>3, Zenon DEF Alone, IndexInv
<1>2. CASE UNCHANGED pairingVars
  <2>1. Alone /\ IndexInv /\ \A h \in Handlers : PointInv(h)
    BY <1>2, Zenon DEF AgreeInv, pairingVars
  <2> QED
    BY <1>2, <2>1, ZenonT(30) DEF pairingVars, Alone, IndexInv, PointInv
<1> QED
  BY <1>1, <1>2, AgreeHandlers, AgreeOperations, Zenon DEF PairingNext

LEMMA AgreeInvariance == PairingSpec => []AgreeInv
<1>1. PairingInit => AgreeInv
  <2> SUFFICES ASSUME PairingInit PROVE AgreeInv
    BY Zenon
  <2>1. /\ \A h \in Handlers : plan[h] = <<>>
        /\ \A u \in Users : index[u] = {}
        /\ created = {} /\ gone = {}
    BY Zenon DEF PairingInit, RequestsInit
  <2>2. Alone /\ IndexInv
    BY <2>1, Zenon DEF Alone, IndexInv
  <2>3. \A h \in Handlers : PointInv(h)
    BY <2>1, PointsDiffer, Zenon DEF PointInv, PairPlans
  <2> QED
    BY <2>2, <2>3, Zenon DEF AgreeInv
<1>2. PairingInv /\ AgreeInv /\ [PairingNext]_pairingVars => AgreeInv'
  BY AgreeStep, Zenon
<1> QED
  BY PairingInvariance, <1>1, <1>2, PTL DEF PairingSpec

(* Pairs and index agree with what was confirmed, in spite of failures and *)
(* restarts, as long as requests do not overlap (storePair, deletePair,    *)
(* pairPending).                                                           *)
THEOREM ConfirmedPairs == PairingSpec => []PairsAsConfirmed
<1>1. PairingInv /\ AgreeInv => PairsAsConfirmed
  <2> SUFFICES ASSUME PairingInv, AgreeInv PROVE PairsAsConfirmed
    BY Zenon
  <2>1. CASE overlapped
    BY <2>1, Zenon DEF PairsAsConfirmed, PairingInv
  <2>2. CASE ~ overlapped
    <3>1. IndexInv
      BY <2>2, Zenon DEF AgreeInv
    <3>2. \A u \in Users : index[u] = pairPending(u)
      BY <3>1, Zenon DEF IndexInv, pairPending
    <3>3. \A id \in created : \A u \in id : u \in Users
      BY PairingAssumption, Zenon DEF PairingInv, PairingTypeOK
    <3>4. \A id \in created : \A u \in id : id \in pairPending(u)
      <4> SUFFICES ASSUME NEW id \in created, NEW u \in id PROVE id \in pairPending(u)
        BY Zenon
      <4>1. u \in Users /\ id \in index[u]
        BY <3>1, <3>3, Zenon DEF IndexInv
      <4> QED
        BY <3>2, <4>1, Zenon
    <3> QED
      BY <3>1, <3>2, <3>4, Zenon DEF IndexInv, PairsAsConfirmed, PairingInv
  <2> QED
    BY <2>1, <2>2, Zenon
<1> QED
  BY PairingInvariance, AgreeInvariance, <1>1, PTL

(* While requests do not overlap, a step that changes an accepted pair     *)
(* deletes it: a create stores only where it found none (pairCreate), and  *)
(* an accept stores the pair accepted.                                     *)
THEOREM AcceptedPairsStay == PairingSpec => AcceptedStays
<1> DEFINE Kept == \A id \in PairIds :
                     /\ ~ overlapped
                     /\ pairs[id] # Nil
                     /\ pairs[id].status = "accepted"
                     /\ pairs'[id] # Nil
                     => pairs'[id].status = "accepted"
<1>1. PairingInv /\ AgreeInv /\ [PairingNext]_pairingVars => [Kept]_pairs
  <2> SUFFICES ASSUME PairingInv, AgreeInv, [PairingNext]_pairingVars, ~ overlapped, pairs' # pairs,
                      NEW id \in PairIds, pairs[id] # Nil, pairs[id].status = "accepted",
                      pairs'[id] # Nil
               PROVE  pairs'[id].status = "accepted"
    BY Zenon
  <2>1. PICK h \in Handlers : PutPair(h) \/ DeletePair(h)
    BY Zenon DEF PairingNext, pairingVars, pairCreate, pairAccept, pairDelete,
                 ReadIndex, WriteIndex, AddPartner, AbandonPairs
  <2>2. CASE PutPair(h)
    <3>1. Do(h, "putPair") /\ pairs' = [pairs EXCEPT ![pairID(loc[h])] = loc[h]]
      BY <2>2, Zenon DEF PutPair
    <3>2. plan[h] \in PairPlans /\ Head(plan[h]) = "putPair" /\ pairID(loc[h]) \in PairIds
      BY <3>1, PairAdvance, Zenon
    <3>3. plan[h] = storePair \/ plan[h] = AcceptPair
      BY <3>2, PairPlanSteps, Zenon
    <3>4. id = pairID(loc[h]) => loc[h].status = "accepted"
      BY <3>3, Zenon DEF AgreeInv, PointInv
    <3> QED
      BY <3>1, <3>2, <3>4, Zenon DEF PairingInv, PairingTypeOK
  <2>3. CASE DeletePair(h)
    <3>1. Do(h, "deletePair") /\ pairs' = [pairs EXCEPT ![pairID(loc[h])] = Nil]
      BY <2>3, Zenon DEF DeletePair
    <3>2. pairID(loc[h]) \in PairIds
      BY <3>1, PairAdvance, Zenon
    <3> QED
      BY <3>1, <3>2, Zenon DEF PairingInv, PairingTypeOK
  <2> QED
    BY <2>1, <2>2, <2>3, Zenon
<1> QED
  BY PairingInvariance, AgreeInvariance, <1>1, PTL DEF PairingSpec, AcceptedStays

=============================================================================
