-------------------------------- MODULE Chat --------------------------------
(***************************************************************************)
(* One conversation between the passenger and the driver of a ride:        *)
(* chat.controller.ts.                                                     *)
(*                                                                         *)
(* A message is inserted and the conversation's preview updated in one     *)
(* transaction; then the other party is notified, and events are published *)
(* through Pusher.  The recipient's unread messages are listed, marked by  *)
(* their ids, and the marking is published.  Messages are read page by     *)
(* page, newest first, each page from the last message of the one before.  *)
(* createdAt is not unique and nothing else is in the order asked for: how *)
(* messages of one instant are ordered, each query decides anew.           *)
(*                                                                         *)
(* As in Bookings, a handler in flight is an element of Handlers.          *)
(*                                                                         *)
(* Out of the model: who may take part (callers are the two parties), the  *)
(* texts, among them the preview, and the list of conversations and the    *)
(* authorisation of channels, which change no row.  What notifyUser does   *)
(* next is in Push.                                                        *)
(***************************************************************************)
EXTENDS Integers, FiniteSets

CONSTANTS
  Messages,   \* ids of Message rows
  PageSize,   \* limit of a page
  Instants,   \* the values createdAt takes, a bound
  Handlers    \* slots for requests in flight

\* The app that reads the pages asks for messages, not for pages of none.
ASSUME PageSizeAssumption == PageSize \in Nat \ {0}

ASSUME InstantsAssumption == Instants \subseteq Nat

Parties == {"passenger", "driver"}

VARIABLES
  conversation,   \* how many rows there are of (ride, passenger, driver)
  message,        \* Message rows
  told,           \* notifications and Pusher events sent about messages
  listed,         \* messages that a request to mark as read has listed
  walk,           \* an app that reads all messages page by page
  req             \* the handler running in each slot

vars == <<conversation, message, told, listed, walk, req>>

-----------------------------------------------------------------------------
\* "inserted": by a transaction not committed yet.
MessageRow ==
  [state : {"none", "inserted", "stored"}, from : Parties, at : Nat, read : BOOLEAN]

Unsent == [state |-> "none", from |-> "passenger", at |-> 0, read |-> FALSE]

Tellings == [kind : {"notified", "new", "inbox", "read"}, m : Messages]

Idle == [pc |-> "idle"]

SendTask == [pc : {"insert", "store", "notify", "publish", "inbox"}, m : Messages,
             from : Parties]
ReadTask == [pc : {"mark", "publishRead"}, ids : SUBSET Messages]

Tasks == {Idle, [pc |-> "create"]} \cup SendTask \cup ReadTask

\* The messages read so far, those read twice, those there were when the first
\* page was read, the last one of the last page, and the last ones of all pages.
Walk == [pc : {"idle", "reading", "done"}, seen : SUBSET Messages, twice : SUBSET Messages,
         start : SUBSET Messages, cursor : SUBSET Messages, ends : SUBSET Messages]

NoWalk == [pc |-> "idle", seen |-> {}, twice |-> {}, start |-> {}, cursor |-> {}, ends |-> {}]

At(h, pc)       == req[h].pc = pc
Begin(h, task)  == req[h] = Idle /\ req' = [req EXCEPT ![h] = task]
Go(h, pc)       == req' = [req EXCEPT ![h].pc = pc]
Return(h)       == req' = [req EXCEPT ![h] = Idle]
Tell(kind, ids) == told' = told \cup {[kind |-> kind, m |-> m] : m \in ids}

Stored == {m \in Messages : message[m].state = "stored"}

TypeOK ==
  /\ conversation \in {0, 1}
  /\ message \in [Messages -> MessageRow]
  /\ told \subseteq Tellings
  /\ listed \subseteq Messages
  /\ walk \in Walk
  /\ req \in [Handlers -> Tasks]

Init ==
  /\ conversation = 0
  /\ message = [m \in Messages |-> Unsent]
  /\ told = {}
  /\ listed = {}
  /\ walk = NoWalk
  /\ req = [h \in Handlers |-> Idle]

-----------------------------------------------------------------------------
\* POST /chat/conversations: an existing conversation is answered at once.
CreateConversation(h) ==
  /\ conversation = 0
  /\ Begin(h, [pc |-> "create"])
  /\ UNCHANGED <<conversation, message, told, listed, walk>>

\* Mutant: the table has no unique key.
InsertConversation(h) ==
  /\ At(h, "create")
  /\ conversation' = conversation + 1
  /\ Return(h)
  /\ UNCHANGED <<message, told, listed, walk>>

\* The insert meets the unique key of ride, passenger and driver.
CommitCreateConversation(h) ==
  /\ At(h, "create") /\ conversation = 0
  /\ conversation' = 1
  /\ Return(h)
  /\ UNCHANGED <<message, told, listed, walk>>

-----------------------------------------------------------------------------
(* POST /chat/conversations/:id/messages                                   *)

SendMessage(h, m, from) ==
  /\ conversation = 1 /\ message[m].state = "none"
  /\ \A g \in Handlers : ~(At(g, "insert") /\ req[g].m = m)   \* ids are fresh
  /\ Begin(h, [pc |-> "insert", m |-> m, from |-> from])
  /\ UNCHANGED <<conversation, message, told, listed, walk>>

\* createdAt is the time of the server instance that inserts: it may be any, and
\* the same as, or before, that of a message already visible.
InsertMessage(h) ==
  LET m == req[h].m IN
  /\ At(h, "insert")
  /\ \E now \in Instants :
       message' = [message EXCEPT ![m] = [state |-> "inserted", from |-> req[h].from,
                                          at |-> now, read |-> FALSE]]
  /\ Go(h, "store")
  /\ UNCHANGED <<conversation, told, listed, walk>>

\* The conversation is updated and the transaction commits.
StoreMessage(h) ==
  /\ At(h, "store")
  /\ message' = [message EXCEPT ![req[h].m].state = "stored"]
  /\ Go(h, "notify")
  /\ UNCHANGED <<conversation, told, listed, walk>>

\* Mutant: the event is published while the transaction runs.
PublishEarly(h) ==
  /\ At(h, "store") \/ At(h, "publish")
  /\ Tell("new", {req[h].m})
  /\ IF At(h, "publish") THEN Go(h, "inbox") ELSE UNCHANGED req
  /\ UNCHANGED <<conversation, message, listed, walk>>

\* notifyUser swallows its errors.
NotifyRecipient(h) ==
  /\ At(h, "notify")
  /\ Tell("notified", {req[h].m}) \/ UNCHANGED told
  /\ Go(h, "publish")
  /\ UNCHANGED <<conversation, message, listed, walk>>

PublishNew(h) ==
  /\ At(h, "publish")
  /\ Tell("new", {req[h].m})
  /\ Go(h, "inbox")
  /\ UNCHANGED <<conversation, message, listed, walk>>

PublishInbox(h) ==
  /\ At(h, "inbox")
  /\ Tell("inbox", {req[h].m})
  /\ Return(h)
  /\ UNCHANGED <<conversation, message, listed, walk>>

-----------------------------------------------------------------------------
(* POST /chat/conversations/:id/read                                       *)

UnreadBy(p) == {m \in Stored : message[m].from # p /\ ~message[m].read}

ListUnread(h, p) ==
  /\ UnreadBy(p) # {}
  /\ Begin(h, [pc |-> "mark", ids |-> UnreadBy(p)])
  /\ listed' = listed \cup UnreadBy(p)
  /\ UNCHANGED <<conversation, message, told, walk>>

\* Mutant: all that is unread by now is marked, not what was listed.
AllFromTheOther(ids) ==
  {m \in Stored : \E k \in ids : message[m].from = message[k].from}

\* The messages updateMany selects by id.
ToMark(ids) == ids

MarkRead(h) ==
  LET ids == ToMark(req[h].ids) IN
  /\ At(h, "mark")
  /\ message' = [m \in Messages |->
                   IF m \in ids THEN [message[m] EXCEPT !.read = TRUE] ELSE message[m]]
  /\ Go(h, "publishRead")
  /\ UNCHANGED <<conversation, told, listed, walk>>

PublishRead(h) ==
  /\ At(h, "publishRead")
  /\ Tell("read", req[h].ids)
  /\ Return(h)
  /\ UNCHANGED <<conversation, message, listed, walk>>

-----------------------------------------------------------------------------
(* GET /chat/conversations/:id/messages, called again and again with the   *)
(* nextCursor of the page before, until a page is empty.                   *)

Newer(m, k) == message[m].at > message[k].at

\* The first rows in an order by createdAt, newest first.
FirstOf(rows) ==
  {page \in SUBSET rows :
     /\ Cardinality(page) <= PageSize
     /\ page = rows \/ Cardinality(page) = PageSize
     /\ \A m \in page, k \in rows \ page : ~Newer(k, m)}

\* Mutant: pages are counted, not continued from a message.
PagesByOffset(w) ==
  {page \in SUBSET Stored :
     \E before \in SUBSET Stored :
       /\ Cardinality(before) = Cardinality(w.seen)
       /\ \A m \in before, k \in Stored \ before : ~Newer(k, m)
       /\ page \in FirstOf(Stored \ before)}

Older(w) == {m \in Stored : \A c \in w.cursor : Newer(c, m)}

Tied(w) == {m \in Stored \ w.cursor : \E c \in w.cursor : message[m].at = message[c].at}

\* What a query may answer: the first rows after the cursor (Prisma's cursor with
\* skip 1), in an order that puts some of the rows of its instant behind it.
Pages(w) == UNION {FirstOf(Older(w) \cup behind) : behind \in SUBSET Tied(w)}

StartWalk ==
  /\ walk.pc = "idle"
  /\ walk' = [NoWalk EXCEPT !.pc = "reading", !.start = Stored]
  /\ UNCHANGED <<conversation, message, told, listed, req>>

\* The last of the page becomes the next cursor.
ListMessages ==
  /\ walk.pc = "reading"
  /\ \E page \in Pages(walk) :
       \/ page = {} /\ walk' = [walk EXCEPT !.pc = "done"]
       \/ \E last \in page :
            /\ \A m \in page : ~Newer(last, m)
            /\ walk' = [walk EXCEPT !.seen = @ \cup page,
                                    !.twice = @ \cup (page \cap walk.seen),
                                    !.cursor = {last}, !.ends = @ \cup {last}]
  /\ UNCHANGED <<conversation, message, told, listed, req>>

EndWalk ==
  /\ walk.pc = "done"
  /\ walk' = NoWalk
  /\ UNCHANGED <<conversation, message, told, listed, req>>

-----------------------------------------------------------------------------
\* A handler may stop anywhere; a transaction not committed is rolled back.
Fail(h) ==
  /\ req[h] # Idle
  /\ IF At(h, "store")
     THEN message' = [message EXCEPT ![req[h].m] = Unsent]
     ELSE UNCHANGED message
  /\ Return(h)
  /\ UNCHANGED <<conversation, told, listed, walk>>

HandlerStep(h) ==
  \/ CreateConversation(h) \/ CommitCreateConversation(h)
  \/ \E m \in Messages, p \in Parties : SendMessage(h, m, p)
  \/ InsertMessage(h) \/ StoreMessage(h)
  \/ NotifyRecipient(h) \/ PublishNew(h) \/ PublishInbox(h)
  \/ \E p \in Parties : ListUnread(h, p)
  \/ MarkRead(h) \/ PublishRead(h)
  \/ Fail(h)

Next ==
  \/ StartWalk \/ ListMessages \/ EndWalk
  \/ \E h \in Handlers : HandlerStep(h)

Spec == Init /\ [][Next]_vars

-----------------------------------------------------------------------------
\* Nobody is told of what did not happen: a notification or an event names a
\* message that is stored, for good, and a message:read event one that is marked.
\* The transaction commits before anything is sent, and rows are never removed.
ToldIsTrue ==
  \A t \in told :
    /\ message[t.m].state = "stored"
    /\ t.kind = "read" => message[t.m].read

\* No message is swallowed: one that arrives between the listing of the unread
\* and their marking stays unread, because they are marked by their ids.
ReadWasListed == \A m \in Messages : message[m].read => m \in listed

\* The order by createdAt alone does not say what comes after message c.
Split(m) == \E c \in walk.ends \ {m} : message[c].at = message[m].at

\* An app that reads page by page while messages arrive, be it with an older
\* createdAt than one already read, sees each message that was there when it
\* began, and none twice, unless the message was created at the same instant as
\* the last one of a page: such a message may be missed, or repeated.
PagesComplete ==
  /\ \A m \in walk.twice : Split(m)
  /\ walk.pc = "done" => \A m \in walk.start \ walk.seen : Split(m)

=============================================================================
