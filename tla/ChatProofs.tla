----------------------------- MODULE ChatProofs -----------------------------
(***************************************************************************)
(* Proofs about Chat.tla, for any number of messages and of requests at    *)
(* once: nobody is told of what did not happen, no message is swallowed,   *)
(* and pages show all there was, once.                                     *)
(*                                                                         *)
(* The first two are not inductive alone: a handler is about to tell of    *)
(* the message it has stored, or to mark those it has listed, and a crash  *)
(* takes back only the row its own transaction inserted.  Of the pages,    *)
(* what was seen is no older than the cursor, and what was there and was   *)
(* not seen is older than it, unless it is of the instant of the last row  *)
(* of some page; new rows and rollbacks leave createdAt of the stored      *)
(* ones as it is.                                                          *)
(***************************************************************************)
EXTENDS Chat, FiniteSetTheorems, TLAPS

\* The types of the rows, of what was told and of the handlers.
RowsOK ==
  /\ message \in [Messages -> MessageRow]
  /\ told \subseteq Tellings
  /\ listed \subseteq Messages
  /\ req \in [Handlers -> Tasks]

\* What a handler's stage says of the messages it works on.
TaskTrue(t) ==
  /\ t.pc = "insert" => message[t.m].state = "none"
  /\ t.pc = "store" => message[t.m].state = "inserted"
  /\ t.pc \in {"notify", "publish", "inbox"} => message[t.m].state = "stored"
  /\ t.pc \in {"mark", "publishRead"} => t.ids \subseteq Stored /\ t.ids \subseteq listed
  /\ t.pc = "publishRead" => \A m \in t.ids : message[m].read

Sending == {"insert", "store"}

\* No two transactions write the same new message.
OneSender ==
  \A g, h \in Handlers :
    g # h /\ req[g].pc \in Sending /\ req[h].pc \in Sending => req[g].m # req[h].m

ChatInv ==
  /\ RowsOK /\ OneSender /\ ToldIsTrue /\ ReadWasListed
  /\ \A h \in Handlers : TaskTrue(req[h])

-----------------------------------------------------------------------------
LEMMA TaskKinds ==
  ASSUME NEW t \in Tasks
  PROVE  /\ t.pc \in {"insert", "store", "notify", "publish", "inbox"} => t \in SendTask
         /\ t.pc \in {"mark", "publishRead"} => t \in ReadTask
BY DEF Tasks, Idle, SendTask, ReadTask

\* Moving a sender or a reader to another stage changes nothing else.
LEMMA SenderGoes ==
  ASSUME NEW t \in SendTask, NEW pc \in {"store", "notify", "publish", "inbox"}
  PROVE  [t EXCEPT !.pc = pc] = [pc |-> pc, m |-> t.m, from |-> t.from]
BY DEF SendTask

LEMMA ReaderGoes ==
  ASSUME NEW t \in ReadTask
  PROVE  [t EXCEPT !.pc = "publishRead"] = [pc |-> "publishRead", ids |-> t.ids]
BY DEF ReadTask

\* The handler in h goes on to t, and of the messages only m changes, which no
\* other handler writes: what is stored stays stored, what is read stays read.
LEMMA OthersTrue ==
  ASSUME ChatInv, NEW h \in Handlers, NEW t, t \in Tasks,
         req' = [req EXCEPT ![h] = t],
         t.pc \in Sending => \A g \in Handlers \ {h} : req[g].pc \in Sending => req[g].m # t.m,
         NEW ms \in SUBSET Messages,
         \A m \in Messages \ ms : message'[m] = message[m],
         \A g \in Handlers \ {h} : req[g].pc \in Sending => req[g].m \notin ms,
         \A m \in ms : message[m].state = "stored" =>
                         message'[m].state = "stored" /\ (message[m].read => message'[m].read),
         listed \subseteq listed', TaskTrue(t)'
  PROVE  /\ \A g \in Handlers : TaskTrue(req[g])'
         /\ OneSender' /\ req' \in [Handlers -> Tasks]
<1>1. req'[h] = t /\ \A g \in Handlers \ {h} : req'[g] = req[g]
  BY DEF ChatInv, RowsOK
<1>2. \A m \in Messages : message[m].state = "stored" =>
        message'[m].state = "stored" /\ (message[m].read => message'[m].read)
  OBVIOUS
<1>3. ASSUME NEW g \in Handlers \ {h}
      PROVE  TaskTrue(req[g])'
  <2>1. req'[g] = req[g] /\ req[g] \in Tasks /\ TaskTrue(req[g])
    BY <1>1 DEF ChatInv, RowsOK
  <2>2. /\ req[g].pc \in {"insert", "store", "notify", "publish", "inbox"}
             => req[g].m \in Messages
        /\ req[g].pc \in {"mark", "publishRead"} => req[g].ids \subseteq Messages
    BY <2>1, TaskKinds DEF SendTask, ReadTask
  <2>3. req[g].pc \in Sending => message'[req[g].m] = message[req[g].m]
    BY <2>2 DEF Sending
  <2> QED BY <1>2, <2>1, <2>2, <2>3 DEF TaskTrue, Sending, Stored
<1>4. TaskTrue(req[h])'
  BY <1>1 DEF TaskTrue, Stored
<1>5. OneSender'
  BY <1>1 DEF ChatInv, OneSender
<1> QED BY <1>3, <1>4, <1>5 DEF ChatInv, RowsOK

\* No message changes, and what is told and listed may grow.
LEMMA TaskStep ==
  ASSUME ChatInv, NEW h \in Handlers, NEW t, t \in Tasks,
         req' = [req EXCEPT ![h] = t], TaskTrue(t)',
         t.pc \in Sending => \A g \in Handlers \ {h} : req[g].pc \in Sending => req[g].m # t.m,
         UNCHANGED message, ToldIsTrue', told' \subseteq Tellings,
         listed \subseteq listed', listed' \subseteq Messages
  PROVE  ChatInv'
<1>1. /\ \A g \in Handlers : TaskTrue(req[g])'
      /\ OneSender' /\ req' \in [Handlers -> Tasks]
  BY OthersTrue, {} \in SUBSET Messages
<1> QED BY <1>1 DEF ChatInv, RowsOK, ReadWasListed

\* A sender tells something of its message and goes on to t.
LEMMA TellStep ==
  ASSUME ChatInv, NEW h \in Handlers, req[h] \in SendTask, req[h].pc \notin Sending,
         NEW kind \in {"notified", "new", "inbox"},
         Tell(kind, {req[h].m}) \/ UNCHANGED told,
         NEW t \in Tasks, t.pc \in {"publish", "inbox", "idle"},
         t.pc # "idle" => t.m = req[h].m,
         req' = [req EXCEPT ![h] = t], UNCHANGED <<message, listed>>
  PROVE  ChatInv'
<1>1. PICK m \in Messages : m = req[h].m
  BY DEF SendTask
<1>2. message[m].state = "stored"
  BY <1>1 DEF ChatInv, TaskTrue, Sending, SendTask
<1>3. told' = told \cup {[kind |-> kind, m |-> m]} \/ told' = told
  BY <1>1 DEF Tell
<1>4. ToldIsTrue' /\ told' \subseteq Tellings
  BY <1>2, <1>3 DEF ChatInv, RowsOK, ToldIsTrue, Tellings
<1>5. TaskTrue(t)' /\ t.pc \notin Sending
  BY <1>1, <1>2 DEF TaskTrue, Sending
<1> QED BY <1>4, <1>5, TaskStep DEF ChatInv, RowsOK

\* One row m, which only this handler writes and nobody was told of, is written,
\* and not marked read.
LEMMA RowStep ==
  ASSUME ChatInv, NEW h \in Handlers, NEW t, t \in Tasks, NEW m \in Messages,
         NEW row \in MessageRow, row.read => message[m].read,
         message' = [message EXCEPT ![m] = row],
         req' = [req EXCEPT ![h] = t], TaskTrue(t)',
         message[m].state # "stored",
         req[h].pc \in Sending, req[h].m = m, t.pc \in Sending => t.m = m,
         UNCHANGED <<told, listed>>
  PROVE  ChatInv'
<1>1. \A g \in Handlers \ {h} : req[g].pc \in Sending => req[g].m # m
  BY DEF ChatInv, OneSender
<1>2. message'[m] = row /\ \A k \in Messages \ {m} : message'[k] = message[k]
  BY DEF ChatInv, RowsOK
<1>3. /\ \A g \in Handlers : TaskTrue(req[g])'
      /\ OneSender' /\ req' \in [Handlers -> Tasks]
  <2> DEFINE ms == {m}
  <2>1. ms \in SUBSET Messages /\ \A k \in Messages \ ms : message'[k] = message[k]
    BY <1>2
  <2>2. \A g \in Handlers \ {h} : req[g].pc \in Sending => req[g].m \notin ms
    BY <1>1
  <2>3. \A k \in ms : message[k].state = "stored" =>
                         message'[k].state = "stored" /\ (message[k].read => message'[k].read)
    OBVIOUS
  <2>4. t.pc \in Sending => \A g \in Handlers \ {h} : req[g].pc \in Sending => req[g].m # t.m
    BY <1>1
  <2>5. listed \subseteq listed'
    OBVIOUS
  <2> HIDE DEF ms
  <2> QED BY <2>1, <2>2, <2>3, <2>4, <2>5, OthersTrue
<1>4. ToldIsTrue' /\ ReadWasListed'
  <2>1. \A e \in told : e.m \in Messages \ {m}
    BY DEF ChatInv, RowsOK, ToldIsTrue, Tellings
  <2> QED BY <1>2, <2>1 DEF ChatInv, ToldIsTrue, ReadWasListed
<1>5. RowsOK'
  BY <1>3 DEF ChatInv, RowsOK
<1> QED BY <1>3, <1>4, <1>5 DEF ChatInv

-----------------------------------------------------------------------------
LEMMA ConversationSteps ==
  ASSUME ChatInv, NEW h \in Handlers, CreateConversation(h) \/ CommitCreateConversation(h)
  PROVE  ChatInv'
<1>1. PICK t \in {Idle, [pc |-> "create"]} : req' = [req EXCEPT ![h] = t]
  BY DEF CreateConversation, CommitCreateConversation, Begin, Return
<1>2. t \in Tasks /\ t.pc \notin Sending /\ TaskTrue(t)'
  BY DEF Tasks, Idle, Sending, TaskTrue
<1>3. UNCHANGED <<message, told, listed>>
  BY DEF CreateConversation, CommitCreateConversation
<1>4. ToldIsTrue'
  BY <1>3 DEF ChatInv, ToldIsTrue
<1> QED BY <1>1, <1>2, <1>3, <1>4, TaskStep DEF ChatInv, RowsOK

LEMMA SendSteps ==
  ASSUME ChatInv, NEW h \in Handlers,
         \/ \E m \in Messages, p \in Parties : SendMessage(h, m, p)
         \/ InsertMessage(h) \/ StoreMessage(h)
         \/ NotifyRecipient(h) \/ PublishNew(h) \/ PublishInbox(h)
  PROVE  ChatInv'
<1>k. req[h] \in Tasks /\ TaskTrue(req[h])
  BY DEF ChatInv, RowsOK
<1>1. ASSUME NEW m \in Messages, NEW p \in Parties, SendMessage(h, m, p)
      PROVE  ChatInv'
  <2> DEFINE t == [pc |-> "insert", m |-> m, from |-> p]
  <2>1. t \in Tasks /\ req' = [req EXCEPT ![h] = t]
    BY <1>1 DEF SendMessage, Begin, Tasks, SendTask
  <2>2. TaskTrue(t)' /\ UNCHANGED <<message, told, listed>>
    BY <1>1 DEF SendMessage, TaskTrue
  <2>3. \A g \in Handlers \ {h} : req[g].pc \in Sending => req[g].m # m
    BY <1>1 DEF SendMessage, At, Sending, ChatInv, TaskTrue
  <2>4. ToldIsTrue'
    BY <2>2 DEF ChatInv, ToldIsTrue
  <2> QED BY <2>1, <2>2, <2>3, <2>4, TaskStep DEF ChatInv, RowsOK
<1>2. ASSUME InsertMessage(h) \/ StoreMessage(h)
      PROVE  ChatInv'
  <2>1. req[h] \in SendTask /\ req[h].pc \in Sending
    BY <1>2, <1>k, TaskKinds DEF InsertMessage, StoreMessage, At, Sending
  <2>2. PICK m \in Messages : m = req[h].m
    BY <2>1 DEF SendTask
  <2>3. message[m] \in MessageRow /\ message[m].state # "stored"
    BY <2>1, <2>2, <1>k DEF ChatInv, RowsOK, TaskTrue, Sending
  <2>4. CASE InsertMessage(h)
    <3>0. PICK now \in Instants :
            message' = [message EXCEPT ![m] = [state |-> "inserted", from |-> req[h].from,
                                               at |-> now, read |-> FALSE]]
      BY <2>2, <2>4 DEF InsertMessage
    <3>1. PICK row : row = [state |-> "inserted", from |-> req[h].from,
                           at |-> now, read |-> FALSE]
      OBVIOUS
    <3>2. PICK t : t = [pc |-> "store", m |-> m, from |-> req[h].from]
      OBVIOUS
    <3>3. row \in MessageRow /\ ~row.read /\ t \in Tasks
      BY <2>1, <3>1, <3>2, InstantsAssumption DEF MessageRow, SendTask, Tasks
    <3>4. /\ message' = [message EXCEPT ![m] = row] /\ req' = [req EXCEPT ![h] = t]
          /\ UNCHANGED <<told, listed>>
      <4>1. req' = [req EXCEPT ![h] = [req[h] EXCEPT !.pc = "store"]]
        BY <2>4 DEF InsertMessage, Go
      <4>2. [req[h] EXCEPT !.pc = "store"] = t
        BY <2>1, <2>2, <3>2, SenderGoes
      <4> QED BY <2>4, <3>0, <3>1, <4>1, <4>2 DEF InsertMessage
    <3>5. TaskTrue(t)'
      BY <3>1, <3>2, <3>4 DEF ChatInv, RowsOK, TaskTrue
    <3> QED BY <2>1, <2>2, <2>3, <3>2, <3>3, <3>4, <3>5, RowStep
  <2>5. CASE StoreMessage(h)
    <3>1. PICK row : row = [message[m] EXCEPT !.state = "stored"]
      OBVIOUS
    <3>2. PICK t : t = [pc |-> "notify", m |-> m, from |-> req[h].from]
      OBVIOUS
    <3>3. row \in MessageRow /\ row.state = "stored" /\ row.read = message[m].read
      BY <2>3, <3>1 DEF MessageRow
    <3>4. t \in Tasks /\ t.pc \notin Sending
      BY <2>1, <3>2 DEF SendTask, Tasks, Sending
    <3>5. /\ message' = [message EXCEPT ![m] = row] /\ req' = [req EXCEPT ![h] = t]
          /\ UNCHANGED <<told, listed>>
      <4>1. req' = [req EXCEPT ![h] = [req[h] EXCEPT !.pc = "notify"]]
        BY <2>5 DEF StoreMessage, Go
      <4>2. [req[h] EXCEPT !.pc = "notify"] = t
        BY <2>1, <2>2, <3>2, SenderGoes
      <4> QED BY <2>2, <2>5, <3>1, <4>1, <4>2 DEF StoreMessage
    <3>6. TaskTrue(t)'
      BY <3>2, <3>3, <3>5 DEF ChatInv, RowsOK, TaskTrue
    <3> QED BY <2>1, <2>2, <2>3, <3>3, <3>4, <3>5, <3>6, RowStep
  <2> QED BY <1>2, <2>4, <2>5
<1>3. ASSUME NotifyRecipient(h) \/ PublishNew(h) \/ PublishInbox(h)
      PROVE  ChatInv'
  <2>1. req[h] \in SendTask /\ req[h].pc \notin Sending
    BY <1>3, <1>k, TaskKinds DEF NotifyRecipient, PublishNew, PublishInbox, At, Sending
  <2>2. PICK kind \in {"notified", "new", "inbox"} : Tell(kind, {req[h].m}) \/ UNCHANGED told
    BY <1>3 DEF NotifyRecipient, PublishNew, PublishInbox
  <2>3. UNCHANGED <<message, listed>>
    BY <1>3 DEF NotifyRecipient, PublishNew, PublishInbox
  <2>4. CASE PublishInbox(h)
    <3>1. Idle \in Tasks /\ Idle.pc = "idle" /\ req' = [req EXCEPT ![h] = Idle]
      BY <2>4 DEF PublishInbox, Return, Tasks, Idle
    <3> QED BY <2>1, <2>2, <2>3, <3>1, TellStep
  <2>5. CASE NotifyRecipient(h) \/ PublishNew(h)
    <3>1. PICK pc \in {"publish", "inbox"} : Go(h, pc)
      BY <2>5 DEF NotifyRecipient, PublishNew
    <3>2. PICK t : t = [pc |-> pc, m |-> req[h].m, from |-> req[h].from]
      OBVIOUS
    <3>3. t \in Tasks /\ t.pc = pc /\ t.m = req[h].m
      BY <2>1, <3>2 DEF SendTask, Tasks
    <3>4. req' = [req EXCEPT ![h] = t]
      BY <2>1, <3>1, <3>2, SenderGoes DEF Go
    <3> QED BY <2>1, <2>2, <2>3, <3>3, <3>4, TellStep
  <2> QED BY <1>3, <2>4, <2>5
<1> QED BY <1>1, <1>2, <1>3

LEMMA ReadSteps ==
  ASSUME ChatInv, NEW h \in Handlers,
         (\E p \in Parties : ListUnread(h, p)) \/ MarkRead(h) \/ PublishRead(h)
  PROVE  ChatInv'
<1>k. req[h] \in Tasks /\ TaskTrue(req[h])
  BY DEF ChatInv, RowsOK
<1>1. ASSUME NEW p \in Parties, ListUnread(h, p)
      PROVE  ChatInv'
  <2>1. UnreadBy(p) \subseteq Stored /\ Stored \subseteq Messages
    BY DEF UnreadBy, Stored
  <2>2. PICK ids \in SUBSET Messages : ids = UnreadBy(p)
    BY <2>1
  <2> DEFINE t == [pc |-> "mark", ids |-> ids]
  <2>3. /\ t \in Tasks /\ t.pc \notin Sending /\ req' = [req EXCEPT ![h] = t]
        /\ UNCHANGED <<message, told>> /\ listed' = listed \cup ids
    BY <1>1, <2>2 DEF ListUnread, Begin, Tasks, ReadTask, Sending
  <2>4. Stored' = Stored
    BY <2>3 DEF Stored
  <2>5. TaskTrue(t)'
    BY <2>1, <2>2, <2>3, <2>4 DEF TaskTrue
  <2>6. ToldIsTrue'
    BY <2>3 DEF ChatInv, ToldIsTrue
  <2>7. listed \subseteq listed' /\ listed' \subseteq Messages /\ told' \subseteq Tellings
    BY <2>3 DEF ChatInv, RowsOK
  <2> HIDE DEF t
  <2> QED BY <2>3, <2>5, <2>6, <2>7, TaskStep
<1>2. ASSUME MarkRead(h)
      PROVE  ChatInv'
  <2>1. req[h] \in ReadTask /\ req[h].pc = "mark"
    BY <1>2, <1>k, TaskKinds DEF MarkRead, At
  <2>2. PICK ids \in SUBSET Messages : ids = req[h].ids
    BY <2>1 DEF ReadTask
  <2>3. ids \subseteq Stored /\ ids \subseteq listed
    BY <2>1, <2>2, <1>k DEF TaskTrue
  <2>4. PICK t : t = [pc |-> "publishRead", ids |-> ids]
    OBVIOUS
  <2>5. t \in Tasks /\ t.pc \notin Sending
    BY <2>4 DEF Tasks, ReadTask, Sending
  <2>6. req' = [req EXCEPT ![h] = t] /\ UNCHANGED <<told, listed>>
    BY <1>2, <2>1, <2>2, <2>4, ReaderGoes DEF MarkRead, Go
  <2>7. \A m \in Messages : message'[m] = IF m \in ids
                              THEN [message[m] EXCEPT !.read = TRUE] ELSE message[m]
    BY <1>2, <2>2 DEF MarkRead, ToMark
  <2>8. \A m \in Messages :
          /\ message'[m] \in MessageRow
          /\ message'[m].state = message[m].state
          /\ message'[m].read = (message[m].read \/ m \in ids)
    <3> SUFFICES ASSUME NEW m \in Messages
                 PROVE  /\ message'[m] \in MessageRow
                        /\ message'[m].state = message[m].state
                        /\ message'[m].read = (message[m].read \/ m \in ids)
      OBVIOUS
    <3>1. message[m] \in MessageRow
      BY DEF ChatInv, RowsOK
    <3> QED BY <2>7, <3>1 DEF MessageRow
  <2>9. TaskTrue(t)'
    BY <2>3, <2>4, <2>6, <2>8 DEF TaskTrue, Stored
  <2>10. /\ \A g \in Handlers : TaskTrue(req[g])'
         /\ OneSender' /\ req' \in [Handlers -> Tasks]
    <3>1. \A m \in Messages \ ids : message'[m] = message[m]
      BY <2>7
    <3>2. \A g \in Handlers \ {h} : req[g].pc \in Sending => req[g].m \notin ids
      BY <2>3 DEF ChatInv, TaskTrue, Sending, Stored
    <3>3. \A m \in ids : message[m].state = "stored" =>
                           message'[m].state = "stored" /\ (message[m].read => message'[m].read)
      BY <2>8
    <3> QED BY <2>5, <2>6, <2>9, <3>1, <3>2, <3>3, OthersTrue
  <2>11. ToldIsTrue' /\ ReadWasListed'
    BY <2>3, <2>6, <2>8 DEF ChatInv, RowsOK, ToldIsTrue, ReadWasListed, Tellings
  <2>12. RowsOK'
    <3>1. message' = [m \in Messages |->
                        IF m \in ids THEN [message[m] EXCEPT !.read = TRUE] ELSE message[m]]
      BY <1>2, <2>2 DEF MarkRead, ToMark
    <3>2. message' \in [Messages -> MessageRow]
      BY <2>8, <3>1
    <3> QED BY <2>6, <2>10, <3>2 DEF ChatInv, RowsOK
  <2> QED BY <2>10, <2>11, <2>12 DEF ChatInv
<1>3. ASSUME PublishRead(h)
      PROVE  ChatInv'
  <2>1. req[h] \in ReadTask /\ req[h].pc = "publishRead"
    BY <1>3, <1>k, TaskKinds DEF PublishRead, At
  <2>2. PICK ids \in SUBSET Messages : ids = req[h].ids
    BY <2>1 DEF ReadTask
  <2>3. told' = told \cup {[kind |-> "read", m |-> m] : m \in ids}
    BY <1>3, <2>2 DEF PublishRead, Tell
  <2>4. \A m \in ids : message[m].state = "stored" /\ message[m].read
    BY <2>1, <2>2, <1>k DEF TaskTrue, Stored
  <2>5. UNCHANGED <<message, listed>> /\ req' = [req EXCEPT ![h] = Idle]
    BY <1>3 DEF PublishRead, Return
  <2>6. ToldIsTrue' /\ told' \subseteq Tellings
    BY <2>3, <2>4, <2>5 DEF ChatInv, RowsOK, ToldIsTrue, Tellings
  <2>7. Idle \in Tasks /\ Idle.pc \notin Sending /\ TaskTrue(Idle)'
    BY DEF Tasks, Idle, Sending, TaskTrue
  <2> QED BY <2>5, <2>6, <2>7, TaskStep DEF ChatInv, RowsOK
<1> QED BY <1>1, <1>2, <1>3

\* A crash takes back the row of a transaction not committed, which nobody was
\* told of, and nothing else.
LEMMA FailStep ==
  ASSUME ChatInv, NEW h \in Handlers, Fail(h)
  PROVE  ChatInv'
<1>1. Idle \in Tasks /\ Idle.pc \notin Sending /\ TaskTrue(Idle)'
  BY DEF Tasks, Idle, Sending, TaskTrue
<1>2. req' = [req EXCEPT ![h] = Idle] /\ UNCHANGED <<told, listed>>
  BY DEF Fail, Return
<1>3. CASE At(h, "store")
  <2>1. req[h] \in SendTask /\ TaskTrue(req[h])
    BY <1>3, TaskKinds DEF ChatInv, RowsOK, At
  <2>2. PICK m \in Messages : m = req[h].m
    BY <2>1 DEF SendTask
  <2>3. message[m].state = "inserted" /\ req[h].pc \in Sending
    BY <1>3, <2>1, <2>2 DEF TaskTrue, At, Sending
  <2>4. Unsent \in MessageRow /\ ~Unsent.read
    BY DEF Unsent, MessageRow, Parties
  <2>5. message' = [message EXCEPT ![m] = Unsent]
    BY <1>3, <2>2 DEF Fail
  <2> HIDE DEF Idle
  <2> QED BY <1>1, <1>2, <2>2, <2>3, <2>4, <2>5, RowStep
<1>4. CASE ~At(h, "store")
  <2>1. UNCHANGED message
    BY <1>4 DEF Fail
  <2>2. ToldIsTrue'
    BY <1>2, <2>1 DEF ChatInv, ToldIsTrue
  <2> QED BY <1>1, <1>2, <2>1, <2>2, TaskStep DEF ChatInv, RowsOK
<1> QED BY <1>3, <1>4

LEMMA ChatStep == ChatInv /\ [Next]_vars => ChatInv'
<1> SUFFICES ASSUME ChatInv, [Next]_vars PROVE ChatInv'
  OBVIOUS
<1>1. ASSUME NEW h \in Handlers, HandlerStep(h)
      PROVE  ChatInv'
  BY <1>1, ConversationSteps, SendSteps, ReadSteps, FailStep DEF HandlerStep
<1>2. CASE StartWalk \/ ListMessages \/ EndWalk \/ UNCHANGED vars
  <2>1. UNCHANGED <<message, told, listed, req>>
    BY <1>2 DEF StartWalk, ListMessages, EndWalk, vars
  <2> QED BY <2>1 DEF ChatInv, RowsOK, OneSender, ToldIsTrue, ReadWasListed, TaskTrue, Stored
<1> QED BY <1>1, <1>2 DEF Next

LEMMA ChatCorrect == Spec => []ChatInv
<1>1. Init => ChatInv
  BY DEF Init, ChatInv, RowsOK, OneSender, ToldIsTrue, ReadWasListed, TaskTrue, Idle,
     Tasks, Unsent, MessageRow, Parties, Sending
<1> QED BY <1>1, ChatStep, PTL DEF Spec

\* Whatever is told of a message, by push or by Pusher, is so: it is stored, for
\* good, and marked if it is said to be; for any number of messages, parties'
\* requests at once and crashes.
THEOREM ToldIsTrueCorrect == Spec => []ToldIsTrue
<1>1. ChatInv => ToldIsTrue
  BY DEF ChatInv
<1> QED BY <1>1, ChatCorrect, PTL

\* No message is marked as read that its reader was not listed, however sending
\* and reading overlap.
THEOREM ReadWasListedCorrect == Spec => []ReadWasListed
<1>1. ChatInv => ReadWasListed
  BY DEF ChatInv
<1> QED BY <1>1, ChatCorrect, PTL

-----------------------------------------------------------------------------
(* The pages.  What a walk has seen are rows that stay, with the createdAt *)
(* they have: a rollback takes back one that no page has shown.            *)

\* What was there and was not seen: still to come, or lost for its createdAt.
ToCome(m) == \A c \in walk.cursor : Newer(c, m)

WalkInv ==
  /\ walk \in Walk
  /\ walk.seen \subseteq Stored /\ walk.start \subseteq Stored /\ walk.ends \subseteq Stored
  /\ walk.cursor \subseteq walk.ends /\ walk.twice \subseteq walk.seen
  /\ walk.cursor = {} => walk.seen = {}
  /\ \A c \in walk.cursor, m \in walk.seen : ~Newer(c, m)
  /\ \A m \in walk.start \ walk.seen : ToCome(m) \/ Split(m)
  /\ PagesComplete

-----------------------------------------------------------------------------
\* createdAt is a number, by which Newer orders all messages.
LEMMA Times ==
  ASSUME ChatInv
  PROVE  \A m \in Messages : message[m].at \in Nat
BY DEF ChatInv, RowsOK, MessageRow

\* A page is among the rows after the cursor, leaves out none that is newer than
\* one of it, and is empty only when there are no such rows.
LEMMA PageFacts ==
  ASSUME NEW w, NEW page \in Pages(w)
  PROVE  \E behind \in SUBSET Tied(w) :
           /\ page \subseteq Older(w) \cup behind
           /\ \A m \in page, k \in (Older(w) \cup behind) \ page : ~Newer(k, m)
           /\ page = {} => Older(w) \cup behind = {}
<1>1. PICK behind \in SUBSET Tied(w) : page \in FirstOf(Older(w) \cup behind)
  BY DEF Pages
<1>2. PICK rows : rows = Older(w) \cup behind
  OBVIOUS
<1>3. /\ page \subseteq rows /\ \A m \in page, k \in rows \ page : ~Newer(k, m)
      /\ page = rows \/ Cardinality(page) = PageSize
  BY <1>1, <1>2 DEF FirstOf
<1>4. page = {} => rows = {}
  BY <1>3, FS_EmptySet, PageSizeAssumption
<1> QED BY <1>2, <1>3, <1>4

\* A page that is not empty, of the rows after the cursor.
LEMMA PageStep ==
  ASSUME ChatInv, WalkInv, UNCHANGED message,
         NEW page, NEW behind \in SUBSET Tied(walk),
         NEW rows, rows = Older(walk) \cup behind,
         page \subseteq rows,
         \A m \in page, k \in rows \ page : ~Newer(k, m),
         NEW last \in page, \A m \in page : ~Newer(last, m),
         walk.pc = "reading",
         walk' = [walk EXCEPT !.seen = walk.seen \cup page,
                              !.twice = walk.twice \cup (page \cap walk.seen),
                              !.cursor = {last}, !.ends = walk.ends \cup {last}]
  PROVE  WalkInv'
<1>1. /\ walk'.seen = walk.seen \cup page /\ walk'.start = walk.start
      /\ walk'.twice = walk.twice \cup (page \cap walk.seen)
      /\ walk'.cursor = {last} /\ walk'.ends = walk.ends \cup {last}
      /\ walk'.pc = "reading" /\ walk \in Walk
  BY DEF WalkInv, Walk
<1>2. /\ Stored' = Stored /\ \A m, k : Newer(m, k)' = Newer(m, k)
      /\ \A m : Split(m) => Split(m)'
  BY <1>1 DEF Stored, Newer, Split
<1>3. /\ rows \subseteq Stored /\ Stored \subseteq Messages
      /\ \A m \in rows : \/ m \in Older(walk) /\ ToCome(m)
                         \/ /\ m \notin walk.cursor
                            /\ \E c \in walk.cursor : message[m].at = message[c].at
  BY DEF Older, Tied, Stored, ToCome
<1>4. \A m \in Messages : message[m].at \in Nat
  BY Times
<1>5. walk' \in Walk
  BY <1>1, <1>3 DEF Walk
<1>6. ASSUME NEW m \in page, m \in walk.seen
      PROVE  Split(m)
  <2>1. PICK c \in walk.cursor : ~Newer(c, m)
    BY <1>6 DEF WalkInv
  <2>2. PICK d \in walk.cursor : m \notin walk.cursor /\ message[m].at = message[d].at
    BY <1>3, <2>1 DEF ToCome
  <2> QED BY <2>2 DEF WalkInv, Split
<1>7. ASSUME NEW m \in walk.seen
      PROVE  ~Newer(last, m)
  <2>1. PICK c \in walk.cursor : TRUE
    BY <1>7 DEF WalkInv
  <2>2. \A d \in walk.cursor : message[m].at >= message[d].at
    BY <1>3, <1>4 DEF WalkInv, Newer
  <2>3. \E d \in walk.cursor : message[d].at >= message[last].at
    <3>1. CASE ToCome(last)
      <4>1. c \in Messages /\ last \in Messages
        BY <1>3, <2>1 DEF WalkInv
      <4> QED BY <1>4, <2>1, <3>1, <4>1 DEF ToCome, Newer
    <3>2. CASE \E d \in walk.cursor : message[last].at = message[d].at
      <4>1. PICK d \in walk.cursor : message[last].at = message[d].at
        BY <3>2
      <4>2. d \in Messages
        BY <1>3, <4>1 DEF WalkInv
      <4> QED BY <1>4, <4>1, <4>2
    <3> QED BY <1>3, <3>1, <3>2
  <2>4. m \in Messages /\ last \in Messages /\ walk.cursor \subseteq Messages
    BY <1>3 DEF WalkInv
  <2> QED BY <1>4, <2>2, <2>3, <2>4 DEF Newer
<1>8. ASSUME NEW m \in walk.start, m \notin walk.seen, m \notin page
      PROVE  Newer(last, m) \/ Split(m)'
  <2>1. CASE Split(m)
    BY <1>2, <2>1
  <2>2. CASE ToCome(m)
    <3>1. m \in rows \ page /\ m \in Messages /\ last \in Messages
      BY <1>3, <1>8, <2>2 DEF WalkInv, Older, ToCome
    <3>2. ~Newer(m, last) /\ m # last
      BY <1>8, <3>1
    <3>3. Newer(last, m) \/ message[last].at = message[m].at
      BY <1>4, <3>1, <3>2 DEF Newer
    <3> QED BY <1>1, <3>2, <3>3 DEF Split
  <2> QED BY <1>8, <2>1, <2>2 DEF WalkInv
<1>9. PagesComplete'
  <2>1. ASSUME NEW m \in walk'.twice
        PROVE  Split(m)'
    BY <1>1, <1>2, <1>6, <2>1 DEF WalkInv, PagesComplete
  <2> QED BY <1>1, <2>1 DEF PagesComplete
<1>10. \A m \in walk'.start \ walk'.seen : ToCome(m)' \/ Split(m)'
  BY <1>1, <1>2, <1>8 DEF ToCome
<1>11. \A c \in walk'.cursor, m \in walk'.seen : ~Newer(c, m)'
  BY <1>1, <1>2, <1>7
<1>12. /\ walk'.seen \subseteq Stored' /\ walk'.start \subseteq Stored'
       /\ walk'.ends \subseteq Stored' /\ walk'.cursor \subseteq walk'.ends
       /\ walk'.twice \subseteq walk'.seen
       /\ walk'.cursor # {}
  BY <1>1, <1>2, <1>3 DEF WalkInv
<1> QED BY <1>5, <1>9, <1>10, <1>11, <1>12 DEF WalkInv

LEMMA ListStep ==
  ASSUME ChatInv, WalkInv, ListMessages
  PROVE  WalkInv'
<1>1. UNCHANGED message /\ walk.pc = "reading"
  BY DEF ListMessages
<1>2. PICK page \in Pages(walk) :
        \/ page = {} /\ walk' = [walk EXCEPT !.pc = "done"]
        \/ \E last \in page :
             /\ \A m \in page : ~Newer(last, m)
             /\ walk' = [walk EXCEPT !.seen = walk.seen \cup page,
                                     !.twice = walk.twice \cup (page \cap walk.seen),
                                     !.cursor = {last}, !.ends = walk.ends \cup {last}]
  BY DEF ListMessages
<1>3. PICK behind \in SUBSET Tied(walk) :
        /\ page \subseteq Older(walk) \cup behind
        /\ \A m \in page, k \in (Older(walk) \cup behind) \ page : ~Newer(k, m)
        /\ page = {} => Older(walk) \cup behind = {}
  BY PageFacts
<1>4. CASE page # {}
  <2>1. PICK last \in page :
          /\ \A m \in page : ~Newer(last, m)
          /\ walk' = [walk EXCEPT !.seen = walk.seen \cup page,
                                  !.twice = walk.twice \cup (page \cap walk.seen),
                                  !.cursor = {last}, !.ends = walk.ends \cup {last}]
    BY <1>2, <1>4
  <2>2. PICK rows : rows = Older(walk) \cup behind
    OBVIOUS
  <2> QED BY <1>1, <1>3, <2>1, <2>2, PageStep
<1>5. CASE page = {}
  <2>1. /\ walk'.pc = "done" /\ walk' \in Walk
        /\ walk'.seen = walk.seen /\ walk'.start = walk.start /\ walk'.twice = walk.twice
        /\ walk'.cursor = walk.cursor /\ walk'.ends = walk.ends
    BY <1>2, <1>5 DEF WalkInv, Walk
  <2>2. /\ Stored' = Stored /\ \A m, k : Newer(m, k)' = Newer(m, k)
        /\ \A m : Split(m)' = Split(m) /\ ToCome(m)' = ToCome(m)
    BY <1>1, <2>1 DEF Stored, Newer, Split, ToCome
  <2>3. \A m \in walk.start \ walk.seen : Split(m)
    <3>1. \A m \in Stored : ~ToCome(m)
      BY <1>3, <1>5 DEF Older, ToCome
    <3> QED BY <3>1 DEF WalkInv
  <2>4. PagesComplete'
    BY <2>1, <2>2, <2>3 DEF WalkInv, PagesComplete
  <2> QED BY <2>1, <2>2, <2>3, <2>4 DEF WalkInv
<1> QED BY <1>4, <1>5

LEMMA WalkStep ==
  ASSUME ChatInv, WalkInv, StartWalk \/ ListMessages \/ EndWalk
  PROVE  WalkInv'
<1>1. ASSUME NEW start, start \subseteq Stored, NEW pc, pc \in {"idle", "reading"},
             UNCHANGED message,
             walk' = [pc |-> pc, seen |-> {}, twice |-> {}, start |-> start,
                      cursor |-> {}, ends |-> {}]
      PROVE  WalkInv'
  <2>1. Stored' = Stored /\ Stored \subseteq Messages
    BY <1>1 DEF Stored
  <2>2. /\ walk' \in Walk /\ walk'.seen = {} /\ walk'.twice = {} /\ walk'.cursor = {}
        /\ walk'.ends = {} /\ walk'.start = start /\ walk'.pc # "done"
    BY <1>1, <2>1 DEF Walk
  <2>3. PagesComplete' /\ \A m : ToCome(m)'
    BY <2>2 DEF PagesComplete, ToCome
  <2> QED BY <1>1, <2>1, <2>2, <2>3 DEF WalkInv
<1>2. CASE StartWalk
  <2>1. walk' = [pc |-> "reading", seen |-> {}, twice |-> {}, start |-> Stored,
                 cursor |-> {}, ends |-> {}]
    BY <1>2 DEF StartWalk, NoWalk
  <2>2. UNCHANGED message
    BY <1>2 DEF StartWalk
  <2> QED BY <1>1, <2>1, <2>2
<1>3. CASE EndWalk
  <2>1. walk' = [pc |-> "idle", seen |-> {}, twice |-> {}, start |-> {},
                 cursor |-> {}, ends |-> {}]
    BY <1>3 DEF EndWalk, NoWalk
  <2>2. UNCHANGED message
    BY <1>3 DEF EndWalk
  <2> QED BY <1>1, <2>1, <2>2
<1> QED BY <1>2, <1>3, ListStep

\* A step that keeps the stored rows, and their createdAt, keeps the walk on its way.
LEMMA WalkKept ==
  ASSUME WalkInv, Stored \subseteq Stored', UNCHANGED walk,
         \A m \in Stored : message'[m].at = message[m].at
  PROVE  WalkInv'
<1>1. \A m, k \in Stored : Newer(m, k)' = Newer(m, k)
  BY DEF Newer
<1>2. \A m \in Stored : Split(m)' = Split(m)
  BY DEF WalkInv, Split
<1>3. \A m \in Stored : ToCome(m)' = ToCome(m)
  BY <1>1 DEF WalkInv, ToCome
<1>4. PagesComplete'
  <2>1. walk.twice \subseteq Stored
    BY DEF WalkInv
  <2> QED BY <1>2, <2>1 DEF WalkInv, PagesComplete
<1> QED BY <1>1, <1>2, <1>3, <1>4 DEF WalkInv

-----------------------------------------------------------------------------
\* No step of a handler takes back a stored row or changes its createdAt.
LEMMA RowsStay ==
  ASSUME ChatInv, NEW h \in Handlers, HandlerStep(h)
  PROVE  /\ Stored \subseteq Stored'
         /\ \A m \in Stored : message'[m].at = message[m].at
<1>0. req[h] \in Tasks /\ TaskTrue(req[h]) /\ message \in [Messages -> MessageRow]
  BY DEF ChatInv, RowsOK
<1>1. CASE InsertMessage(h) \/ (Fail(h) /\ At(h, "store"))
  <2>1. req[h] \in SendTask /\ req[h].pc \in Sending
    BY <1>0, <1>1, TaskKinds DEF InsertMessage, At, Sending
  <2>2. PICK m \in Messages : m = req[h].m
    BY <2>1 DEF SendTask
  <2>3. message[m].state # "stored" /\ \A k \in Messages \ {m} : message'[k] = message[k]
    BY <1>0, <1>1, <2>1, <2>2 DEF InsertMessage, Fail, TaskTrue, Sending
  <2> QED BY <2>3 DEF Stored
<1>2. CASE StoreMessage(h)
  <2>1. req[h] \in SendTask
    BY <1>0, <1>2, TaskKinds DEF StoreMessage, At
  <2>2. PICK m \in Messages : m = req[h].m
    BY <2>1 DEF SendTask
  <2>3. /\ \A k \in Messages \ {m} : message'[k] = message[k]
        /\ message'[m].state = "stored" /\ message'[m].at = message[m].at
    BY <1>0, <1>2, <2>2 DEF StoreMessage, MessageRow
  <2> QED BY <2>3 DEF Stored
<1>3. CASE MarkRead(h)
  <2>1. \A m \in Messages : message'[m].state = message[m].state
                            /\ message'[m].at = message[m].at
    BY <1>0, <1>3 DEF MarkRead, MessageRow
  <2> QED BY <2>1 DEF Stored
<1>4. CASE UNCHANGED message
  BY <1>4 DEF Stored
<1>5. \/ InsertMessage(h) \/ StoreMessage(h) \/ MarkRead(h)
      \/ (Fail(h) /\ At(h, "store"))
      \/ UNCHANGED message
  BY DEF HandlerStep, CreateConversation, CommitCreateConversation, SendMessage,
     NotifyRecipient, PublishNew, PublishInbox, ListUnread, PublishRead, Fail
<1> QED BY <1>1, <1>2, <1>3, <1>4, <1>5

PagesInv == conversation \in {0, 1} /\ WalkInv

LEMMA PagesStep ==
  ASSUME ChatInv, PagesInv, [Next]_vars
  PROVE  PagesInv'
<1>1. conversation' \in {0, 1}
  BY DEF PagesInv, Next, vars, StartWalk, ListMessages, EndWalk, HandlerStep,
     CreateConversation, CommitCreateConversation, SendMessage, InsertMessage, StoreMessage,
     NotifyRecipient, PublishNew, PublishInbox, ListUnread, MarkRead, PublishRead, Fail
<1>2. ASSUME NEW h \in Handlers, HandlerStep(h)
      PROVE  WalkInv'
  <2>1. UNCHANGED walk
    BY <1>2 DEF HandlerStep, CreateConversation, CommitCreateConversation, SendMessage,
       InsertMessage, StoreMessage, NotifyRecipient, PublishNew, PublishInbox, ListUnread,
       MarkRead, PublishRead, Fail
  <2> QED BY <1>2, <2>1, RowsStay, WalkKept DEF PagesInv
<1>3. CASE StartWalk \/ ListMessages \/ EndWalk
  BY <1>1, <1>3, WalkStep DEF PagesInv
<1>4. CASE UNCHANGED vars
  <2>1. UNCHANGED <<message, walk>> /\ Stored' = Stored
    BY <1>4 DEF vars, Stored
  <2> QED BY <1>1, <2>1, WalkKept DEF PagesInv
<1> QED BY <1>1, <1>2, <1>3, <1>4 DEF Next, PagesInv

LEMMA PagesCorrect == Spec => [](ChatInv /\ PagesInv)
<1>1. Init => PagesInv
  BY DEF Init, PagesInv, NoWalk, WalkInv, Walk, PagesComplete
<1> QED BY <1>1, ChatCorrect, PagesStep, PTL DEF Spec

\* GET /chat/conversations/:id/messages: an app that reads page after page, of any
\* size, while any number of messages are sent, stored and rolled back at any times,
\* misses or repeats only messages created at the instant of the last of a page.
THEOREM PagesCompleteCorrect == Spec => []PagesComplete
<1>1. PagesInv => PagesComplete
  BY DEF PagesInv, WalkInv
<1> QED BY <1>1, PagesCorrect, PTL

\* Rows, events, the walk and the handlers keep their types whatever overlaps.
THEOREM TypeCorrect == Spec => []TypeOK
<1>1. ChatInv /\ PagesInv => TypeOK
  BY DEF ChatInv, RowsOK, PagesInv, WalkInv, TypeOK
<1> QED BY <1>1, PagesCorrect, PTL
=============================================================================
