-------------------------------- MODULE Push --------------------------------
(***************************************************************************)
(* Notifications: lib/notifications.ts and notification.controller.ts.     *)
(*                                                                         *)
(* A notice is for one user (notifyUser) or for the users of a role who    *)
(* have a device, but one (notifyUsersByRole).  It becomes a row in the    *)
(* feed of each user and a push to each of their devices, sent in batches  *)
(* through Firebase; tokens that Firebase calls invalid are deleted when   *)
(* all batches are sent.  Meanwhile the users register and unregister      *)
(* their devices and read their feeds.                                     *)
(*                                                                         *)
(* Every notice runs in the handler that sends it, and any error ends it   *)
(* and is swallowed.  Firebase is external: it refuses the token of a      *)
(* device whose app is gone as invalid, for good, because an app installed *)
(* again gets a new token; any other answer changes nothing here.          *)
(*                                                                         *)
(* Out of the model: texts, platforms, and the list of notifications,      *)
(* which changes no row.                                                   *)
(***************************************************************************)
EXTENDS Integers, Sequences, FiniteSets, SequencesExt

CONSTANTS
  Users,
  Devices,     \* FCM registration tokens
  Notices,     \* calls of notifyUser and of notifyUsersByRole
  BatchSize,   \* 500 tokens in a multicast
  Nobody

ASSUME BatchAssumption == BatchSize \in Nat \ {0}
ASSUME NobodyAssumption == Nobody \notin Users
ASSUME DevicesAssumption == IsFiniteSet(Devices)

VARIABLES
  owner,    \* DeviceToken rows: the user a token is registered to
  gone,     \* devices without the app
  feed,     \* Notification rows of each notice: how many for each user
  read,     \* the rows marked read, by notice and user
  job       \* the handler of each notice

vars == <<owner, gone, feed, read, job>>

-----------------------------------------------------------------------------
\* list: the tokens found, with at the first one of the next batch; to: whom the
\* rows are for; sent: the tokens handed to Firebase.
Jobs == [pc : {"new", "insert", "tokens", "send", "clean", "done"},
         to : SUBSET Users, list : Seq(Devices),
         at : Nat, sent : Seq(Devices), invalid : SUBSET Devices]

NewJob == [pc |-> "new", to |-> {}, list |-> << >>, at |-> 1, sent |-> << >>,
           invalid |-> {}]

Ended == [NewJob EXCEPT !.pc = "done"]

At(n, pc) == job[n].pc = pc
Go(n, pc) == job' = [job EXCEPT ![n].pc = pc]

TypeOK ==
  /\ owner \in [Devices -> Users \cup {Nobody}]
  /\ gone \subseteq Devices
  /\ feed \in [Notices -> [Users -> {0, 1}]]
  /\ read \subseteq Notices \X Users
  /\ job \in [Notices -> Jobs]

Init ==
  /\ owner = [d \in Devices |-> Nobody]
  /\ gone = {}
  /\ feed = [n \in Notices |-> [u \in Users |-> 0]]
  /\ read = {}
  /\ job = [n \in Notices |-> NewJob]

-----------------------------------------------------------------------------
(* The users and their devices                                             *)

\* POST /notifications/tokens/register: an upsert by token.  A call may arrive
\* when the app is gone.
Register(u, d) ==
  /\ owner' = [owner EXCEPT ![d] = u]
  /\ UNCHANGED <<gone, feed, read, job>>

\* POST /notifications/tokens/unregister
Unregister(u, d) ==
  /\ owner[d] = u
  /\ owner' = [owner EXCEPT ![d] = Nobody]
  /\ UNCHANGED <<gone, feed, read, job>>

Uninstall(d) ==
  /\ gone' = gone \cup {d}
  /\ UNCHANGED <<owner, feed, read, job>>

RowsFor(u) == {n \in Notices : feed[n][u] > 0} \X {u}

\* POST /notifications/:id/read
MarkRead(n, u) ==
  /\ <<n, u>> \in RowsFor(u)
  /\ read' = read \cup {<<n, u>>}
  /\ UNCHANGED <<owner, gone, feed, job>>

\* POST /notifications/read-all
MarkAllRead(u) ==
  /\ read' = read \cup RowsFor(u)
  /\ UNCHANGED <<owner, gone, feed, job>>

-----------------------------------------------------------------------------
(* A notice                                                                *)

DevicesOf(us) == {d \in Devices : owner[d] \in us}

\* findMany without an order: the rows come in any.
Listing(n, us, pc) ==
  \E list \in SetToSeqs(DevicesOf(us)) :
    job' = [job EXCEPT ![n].pc = pc, ![n].list = list]

InsertRows(n, rows) == feed' = [feed EXCEPT ![n] = [u \in Users |-> @[u] + rows[u]]]

NotifyUser(n, u) ==
  /\ At(n, "new")
  /\ InsertRows(n, [v \in Users |-> IF v = u THEN 1 ELSE 0])
  /\ job' = [job EXCEPT ![n].pc = "tokens", ![n].to = {u}]
  /\ UNCHANGED <<owner, gone, read>>

\* sendPushToUser; without a device it has nothing to do.
ListDevices(n) ==
  /\ At(n, "tokens")
  /\ Listing(n, job[n].to, "send")
  /\ UNCHANGED <<owner, gone, feed, read>>

\* us: the users of the role, without excludeUserId.  Those without a device are
\* left out.
NotifyUsersByRole(n, us) ==
  /\ At(n, "new")
  /\ \E list \in SetToSeqs(DevicesOf(us)) :
       job' = [job EXCEPT ![n] =
                 IF list = << >> THEN Ended
                 ELSE [@ EXCEPT !.pc = "insert", !.list = list,
                                !.to = {owner[d] : d \in DevicesOf(us)}]]
  /\ UNCHANGED <<owner, gone, feed, read>>

\* Mutant: a row for every token (the Set of user ids is left out).
RowsPerToken(n) ==
  [u \in Users |-> Cardinality({d \in ToSet(job[n].list) : owner[d] = u})]

RowsOf(n) == [u \in Users |-> IF u \in job[n].to THEN 1 ELSE 0]

\* Mutant: an error of the insert is caught on its own, and the push sent.
CreateManyOrNot(n) ==
  /\ At(n, "insert")
  /\ InsertRows(n, RowsOf(n)) \/ UNCHANGED feed
  /\ Go(n, "send")
  /\ UNCHANGED <<owner, gone, read>>

CreateMany(n) ==
  /\ At(n, "insert")
  /\ InsertRows(n, RowsOf(n))
  /\ Go(n, "send")
  /\ UNCHANGED <<owner, gone, read>>

-----------------------------------------------------------------------------
(* sendPushToTokens                                                        *)

BatchEnd(n) ==
  IF job[n].at + BatchSize - 1 < Len(job[n].list)
  THEN job[n].at + BatchSize - 1 ELSE Len(job[n].list)

\* Mutant: slice taken to end at its last index.
BatchShort(n) == SubSeq(job[n].list, job[n].at, BatchEnd(n) - 1)

Batch(n) == SubSeq(job[n].list, job[n].at, BatchEnd(n))

\* Mutant: the index of the answer taken into the list of all tokens.
RefusedOfAll(n) == {job[n].list[i] : i \in {i \in DOMAIN Batch(n) : Batch(n)[i] \in gone}}

\* The answers come in the order of the batch.
Refused(n) == {Batch(n)[i] : i \in {i \in DOMAIN Batch(n) : Batch(n)[i] \in gone}}

SendBatch(n) ==
  /\ At(n, "send") /\ job[n].at <= Len(job[n].list)
  /\ job' = [job EXCEPT ![n].sent = @ \o Batch(n),
                        ![n].invalid = @ \cup Refused(n),
                        ![n].at = @ + BatchSize]
  /\ UNCHANGED <<owner, gone, feed, read>>

EndSending(n) ==
  /\ At(n, "send") /\ job[n].at > Len(job[n].list)
  /\ job' = [job EXCEPT ![n] =
               IF job[n].invalid = {} THEN Ended ELSE [@ EXCEPT !.pc = "clean"]]
  /\ UNCHANGED <<owner, gone, feed, read>>

DeleteInvalid(n) ==
  /\ At(n, "clean")
  /\ owner' = [d \in Devices |-> IF d \in job[n].invalid THEN Nobody ELSE owner[d]]
  /\ job' = [job EXCEPT ![n] = Ended]
  /\ UNCHANGED <<gone, feed, read>>

\* The database or Firebase throws, or the process ends.
GiveUp(n) ==
  /\ ~At(n, "new") /\ ~At(n, "done")
  /\ job' = [job EXCEPT ![n] = Ended]
  /\ UNCHANGED <<owner, gone, feed, read>>

-----------------------------------------------------------------------------
UserStep ==
  \/ \E u \in Users, d \in Devices : Register(u, d) \/ Unregister(u, d)
  \/ \E d \in Devices : Uninstall(d)
  \/ \E n \in Notices, u \in Users : MarkRead(n, u)
  \/ \E u \in Users : MarkAllRead(u)

NoticeStep(n) ==
  \/ \E u \in Users : NotifyUser(n, u)
  \/ ListDevices(n)
  \/ \E us \in SUBSET Users : NotifyUsersByRole(n, us)
  \/ CreateMany(n) \/ SendBatch(n) \/ EndSending(n) \/ DeleteInvalid(n)
  \/ GiveUp(n)

Next == UserStep \/ \E n \in Notices : NoticeStep(n)

Spec == Init /\ [][Next]_vars

-----------------------------------------------------------------------------
\* Batch by batch, the tokens listed are pushed to once each and in order, and
\* nobody is left out when the batches are through: the slices neither overlap
\* nor leave a gap.
PushedOnce ==
  \A n \in Notices :
    /\ IsPrefix(job[n].sent, job[n].list)
    /\ job[n].at > Len(job[n].list) => job[n].sent = job[n].list

\* A push is found again in the app: whoever it is sent for has one row of the
\* notice in the feed by then, however many devices he has.
PushedIsInFeed ==
  \A n \in Notices : job[n].sent # << >> => \A u \in job[n].to : feed[n][u] = 1

\* Whatever notices are sent meanwhile, a device with the app stays registered
\* until it is unregistered for its owner or registered by another user: the
\* deletion takes only tokens that Firebase refused, although it comes batches
\* later and the answers are matched to tokens by position.
LiveDevicesStay ==
  [][\A d \in Devices \ gone :
       owner[d] # Nobody /\ owner'[d] # owner[d]
         => \E u \in Users : Unregister(owner[d], d) \/ Register(u, d)]_vars
=============================================================================
