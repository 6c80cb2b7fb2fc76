----------------------------- MODULE PushProofs -----------------------------
(***************************************************************************)
(* PushedOnce, PushedIsInFeed and LiveDevicesStay, for any number of       *)
(* users, devices and notices and every size of a batch.                   *)
(*                                                                         *)
(* The inductive invariant follows each notice: its rows are in the feed   *)
(* exactly from the insert on, what was sent is the list up to the next    *)
(* batch, and only tokens of devices without the app count as invalid.     *)
(***************************************************************************)
EXTENDS Push, FiniteSetTheorems, TLAPS

\* The part of the list that was sent.
SentOK(j) ==
  /\ Len(j.sent) = IF j.at - 1 < Len(j.list) THEN j.at - 1 ELSE Len(j.list)
  /\ \A i \in 1..Len(j.sent) : j.sent[i] = j.list[i]
  /\ j.at >= 1

RowsOK(n) ==
  /\ job[n].pc \in {"new", "insert"} => \A u \in Users : feed[n][u] = 0
  /\ job[n].pc \in {"tokens", "send", "clean"} => \A u \in job[n].to : feed[n][u] = 1
  /\ job[n].pc \notin {"send", "clean"} => job[n].sent = << >> /\ job[n].at = 1

JobOK(n) == SentOK(job[n]) /\ RowsOK(n) /\ job[n].invalid \subseteq gone

IInv == TypeOK /\ \A n \in Notices : JobOK(n)

-----------------------------------------------------------------------------
(* Types                                                                   *)

LEMMA NewJobTyped == NewJob \in Jobs /\ Ended \in Jobs
<1>1. << >> \in Seq(Devices) /\ {} \in SUBSET Users /\ {} \in SUBSET Devices
  OBVIOUS
<1>2. NewJob \in Jobs
  BY <1>1 DEF NewJob, Jobs
<1>3. Ended = [NewJob EXCEPT !.pc = "done"]
  BY DEF Ended
<1> QED
  BY <1>2, <1>3 DEF Jobs

\* Nothing sent yet.
LEMMA NoneSent ==
  ASSUME NEW j, j.list \in Seq(Devices), j.sent = << >>, j.at = 1
  PROVE  SentOK(j)
<1>1. Len(j.list) \in Nat /\ Len(j.sent) = 0
  OBVIOUS
<1> QED
  BY <1>1 DEF SentOK

\* The rows found come as a sequence of tokens.
LEMMA ListTyped ==
  ASSUME NEW us, NEW list \in SetToSeqs(DevicesOf(us))
  PROVE  list \in Seq(Devices)
<1>1. IsFiniteSet(DevicesOf(us)) /\ DevicesOf(us) \subseteq Devices
  BY DevicesAssumption, FS_Subset DEF DevicesOf
<1>2. Cardinality(DevicesOf(us)) \in Nat
  BY <1>1, FS_CardinalityType
<1>3. list \in [1..Cardinality(DevicesOf(us)) -> DevicesOf(us)]
  BY DEF SetToSeqs
<1>4. list \in [1..Cardinality(DevicesOf(us)) -> Devices]
  BY <1>1, <1>3
<1> QED
  BY <1>2, <1>4

LEMMA Fields ==
  ASSUME NEW j \in Jobs
  PROVE  /\ j.pc \in {"new", "insert", "tokens", "send", "clean", "done"}
         /\ j.to \subseteq Users /\ j.list \in Seq(Devices) /\ j.at \in Nat
         /\ j.sent \in Seq(Devices) /\ j.invalid \subseteq Devices
BY DEF Jobs

LEMMA BatchTyped ==
  ASSUME TypeOK, NEW n \in Notices, SentOK(job[n]), job[n].at <= Len(job[n].list)
  PROVE  /\ Batch(n) \in Seq(Devices)
         /\ Len(Batch(n)) = BatchEnd(n) - job[n].at + 1
         /\ BatchEnd(n) \in job[n].at..Len(job[n].list)
         /\ \A i \in 1..Len(Batch(n)) : Batch(n)[i] = job[n].list[job[n].at + i - 1]
         /\ Refused(n) \subseteq Devices \cap gone
<1> DEFINE j == job[n]
<1>1. /\ j \in Jobs /\ j.list \in Seq(Devices) /\ j.at \in Nat /\ j.at >= 1
      /\ Len(j.list) \in Nat /\ BatchSize \in Nat \ {0}
  BY Fields, BatchAssumption DEF TypeOK, SentOK
<1>2. BatchEnd(n) \in j.at..Len(j.list)
  BY <1>1 DEF BatchEnd
<1>3. Batch(n) = SubSeq(j.list, j.at, BatchEnd(n))
  BY DEF Batch
<1>4. \A i \in 1..Len(j.list) : j.list[i] \in Devices
  BY <1>1
<1> HIDE DEF j
<1>5. /\ Batch(n) \in Seq(Devices)
      /\ Len(Batch(n)) = BatchEnd(n) - j.at + 1
      /\ \A i \in 1..Len(Batch(n)) : Batch(n)[i] = j.list[j.at + i - 1]
  BY <1>1, <1>2, <1>3, <1>4
<1>6. Refused(n) \subseteq Devices \cap gone
  <2>1. \A i \in DOMAIN Batch(n) : Batch(n)[i] \in Devices
    BY <1>5
  <2> QED
    BY <2>1 DEF Refused
<1> QED
  BY <1>2, <1>5, <1>6 DEF j

-----------------------------------------------------------------------------
(* Steps of a notice: only its own job and rows change.                    *)

LEMMA OneNotice ==
  ASSUME IInv, NEW n \in Notices, NEW j \in Jobs, NEW f \in [Users -> {0, 1}],
         job' = [job EXCEPT ![n] = j], feed' = [feed EXCEPT ![n] = f],
         gone' = gone, owner' \in [Devices -> Users \cup {Nobody}],
         read' \subseteq Notices \X Users,
         SentOK(j), j.invalid \subseteq gone,
         j.pc \in {"new", "insert"} => \A u \in Users : f[u] = 0,
         j.pc \in {"tokens", "send", "clean"} => \A u \in j.to : f[u] = 1,
         j.pc \notin {"send", "clean"} => j.sent = << >> /\ j.at = 1
  PROVE  IInv'
<1>1. TypeOK'
  BY DEF IInv, TypeOK
<1>2. ASSUME NEW m \in Notices PROVE JobOK(m)'
  <2>1. CASE m = n
    <3>1. job'[m] = j /\ feed'[m] = f
      BY <2>1 DEF IInv, TypeOK
    <3> QED
      BY <3>1 DEF JobOK, RowsOK
  <2>2. CASE m # n
    <3>1. job'[m] = job[m] /\ feed'[m] = feed[m]
      BY <2>2 DEF IInv, TypeOK
    <3> QED
      BY <3>1 DEF IInv, JobOK, RowsOK
  <2> QED
    BY <2>1, <2>2
<1> QED
  BY <1>1, <1>2 DEF IInv

LEMMA EndStep ==
  ASSUME IInv, NEW n \in Notices, job' = [job EXCEPT ![n] = Ended], feed' = feed,
         gone' = gone, owner' \in [Devices -> Users \cup {Nobody}],
         read' \subseteq Notices \X Users
  PROVE  IInv'
<1>1. Ended \in Jobs /\ SentOK(Ended) /\ Ended.invalid = {} /\ Ended.pc = "done"
      /\ Ended.sent = << >> /\ Ended.at = 1
  BY NewJobTyped DEF Ended, NewJob, SentOK
<1>2. feed[n] \in [Users -> {0, 1}] /\ feed' = [feed EXCEPT ![n] = feed[n]]
  BY DEF IInv, TypeOK
<1> QED
  BY <1>1, <1>2, OneNotice

LEMMA NotifyUserStep ==
  ASSUME IInv, NEW n \in Notices, NEW u \in Users, NotifyUser(n, u)
  PROVE  IInv'
<1> DEFINE j == [job[n] EXCEPT !.pc = "tokens", !.to = {u}]
           f == [v \in Users |-> feed[n][v] + (IF v = u THEN 1 ELSE 0)]
<1>1. job[n] \in Jobs /\ job[n].pc = "new" /\ JobOK(n) /\ feed[n] \in [Users -> {0, 1}]
  BY DEF IInv, TypeOK, NotifyUser, At
<1>2. \A v \in Users : feed[n][v] = 0
  BY <1>1 DEF JobOK, RowsOK
<1>3. f \in [Users -> {0, 1}] /\ f[u] = 1
  BY <1>2
<1>4. /\ j \in Jobs /\ SentOK(j) /\ j.invalid \subseteq gone /\ j.pc = "tokens"
      /\ j.to = {u} /\ j.sent = << >> /\ j.at = 1
  BY <1>1 DEF Jobs, JobOK, RowsOK, SentOK
<1>5. job' = [job EXCEPT ![n] = j]
  BY <1>1 DEF NotifyUser, IInv, TypeOK
<1>6. feed' = [feed EXCEPT ![n] = f]
  BY DEF NotifyUser, InsertRows
<1>7. UNCHANGED <<owner, gone, read>>
  BY DEF NotifyUser
<1> HIDE DEF j, f
<1> QED
  BY <1>3, <1>4, <1>5, <1>6, <1>7, OneNotice DEF IInv, TypeOK

LEMMA ListDevicesStep ==
  ASSUME IInv, NEW n \in Notices, ListDevices(n)
  PROVE  IInv'
<1>1. job[n] \in Jobs /\ job[n].pc = "tokens" /\ JobOK(n) /\ feed[n] \in [Users -> {0, 1}]
  BY DEF IInv, TypeOK, ListDevices, At
<1>2. PICK list \in SetToSeqs(DevicesOf(job[n].to)) :
        job' = [job EXCEPT ![n].pc = "send", ![n].list = list]
  BY DEF ListDevices, Listing
<1>3. list \in Seq(Devices)
  BY <1>2, ListTyped
<1> DEFINE j == [job[n] EXCEPT !.pc = "send", !.list = list]
<1>4. /\ j \in Jobs /\ SentOK(j) /\ j.invalid \subseteq gone /\ j.pc = "send"
      /\ \A u \in j.to : feed[n][u] = 1
  <2>1. j \in Jobs /\ j.list = list /\ j.pc = "send" /\ j.sent = << >> /\ j.at = 1
    BY <1>1, <1>3 DEF Jobs, JobOK, RowsOK
  <2>2. SentOK(j)
    BY <1>3, <2>1, NoneSent
  <2> QED
    BY <1>1, <2>1, <2>2 DEF Jobs, JobOK, RowsOK
<1>5. job' = [job EXCEPT ![n] = j] /\ feed' = [feed EXCEPT ![n] = feed[n]]
  BY <1>1, <1>2 DEF ListDevices, IInv, TypeOK
<1>6. UNCHANGED <<owner, gone, read>>
  BY DEF ListDevices
<1> HIDE DEF j
<1> QED
  BY <1>1, <1>4, <1>5, <1>6, OneNotice DEF IInv, TypeOK

LEMMA NotifyUsersByRoleStep ==
  ASSUME IInv, NEW n \in Notices, NEW us \in SUBSET Users, NotifyUsersByRole(n, us)
  PROVE  IInv'
<1>1. job[n] \in Jobs /\ job[n].pc = "new" /\ JobOK(n) /\ feed[n] \in [Users -> {0, 1}]
  BY DEF IInv, TypeOK, NotifyUsersByRole, At
<1> DEFINE to == {owner[d] : d \in DevicesOf(us)}
<1>2. PICK list \in SetToSeqs(DevicesOf(us)) :
        job' = [job EXCEPT ![n] =
                 IF list = << >> THEN Ended
                 ELSE [@ EXCEPT !.pc = "insert", !.list = list, !.to = to]]
  BY DEF NotifyUsersByRole
<1>3. list \in Seq(Devices) /\ to \subseteq Users
  BY <1>2, ListTyped DEF DevicesOf
<1>4. UNCHANGED <<owner, gone, feed, read>>
  BY DEF NotifyUsersByRole
<1>5. CASE list = << >>
  BY <1>2, <1>4, <1>5, EndStep DEF IInv, TypeOK
<1>6. CASE list # << >>
  <2> DEFINE j == [job[n] EXCEPT !.pc = "insert", !.list = list, !.to = to]
  <2>1. job' = [job EXCEPT ![n] = j] /\ feed' = [feed EXCEPT ![n] = feed[n]]
    BY <1>1, <1>2, <1>4, <1>6 DEF IInv, TypeOK
  <2> HIDE DEF to
  <2>2. /\ j \in Jobs /\ SentOK(j) /\ j.invalid \subseteq gone /\ j.pc = "insert"
        /\ j.sent = << >> /\ j.at = 1 /\ \A u \in Users : feed[n][u] = 0
    <3>1. /\ j \in Jobs /\ j.list = list /\ j.pc = "insert" /\ j.sent = << >>
          /\ j.at = 1 /\ j.invalid = job[n].invalid
      BY <1>1, <1>3 DEF Jobs, JobOK, RowsOK
    <3>2. SentOK(j)
      BY <1>3, <3>1, NoneSent
    <3> QED
      BY <1>1, <3>1, <3>2 DEF JobOK, RowsOK
  <2> HIDE DEF j
  <2> QED
    BY <1>1, <1>4, <2>1, <2>2, OneNotice DEF IInv, TypeOK
<1> QED
  BY <1>5, <1>6

LEMMA CreateManyStep ==
  ASSUME IInv, NEW n \in Notices, CreateMany(n)
  PROVE  IInv'
<1> DEFINE j == [job[n] EXCEPT !.pc = "send"]
           f == [u \in Users |-> feed[n][u] + RowsOf(n)[u]]
<1>1. job[n] \in Jobs /\ job[n].pc = "insert" /\ JobOK(n) /\ feed[n] \in [Users -> {0, 1}]
  BY DEF IInv, TypeOK, CreateMany, At
<1>2. \A u \in Users : feed[n][u] = 0 /\ RowsOf(n)[u] = IF u \in job[n].to THEN 1 ELSE 0
  BY <1>1 DEF JobOK, RowsOK, RowsOf
<1>3. f \in [Users -> {0, 1}] /\ \A u \in Users : u \in job[n].to => f[u] = 1
  BY <1>2
<1>4. /\ j \in Jobs /\ SentOK(j) /\ j.invalid \subseteq gone /\ j.pc = "send"
      /\ j.to = job[n].to /\ j.to \subseteq Users
  BY <1>1 DEF Jobs, JobOK, RowsOK, SentOK
<1>5. job' = [job EXCEPT ![n] = j] /\ feed' = [feed EXCEPT ![n] = f]
  BY <1>1 DEF CreateMany, Go, InsertRows, IInv, TypeOK
<1>6. UNCHANGED <<owner, gone, read>>
  BY DEF CreateMany
<1> HIDE DEF j, f
<1> QED
  BY <1>3, <1>4, <1>5, <1>6, OneNotice DEF IInv, TypeOK

LEMMA SendBatchStep ==
  ASSUME IInv, NEW n \in Notices, SendBatch(n)
  PROVE  IInv'
<1> DEFINE old == job[n]
           j == [old EXCEPT !.sent = @ \o Batch(n), !.invalid = @ \cup Refused(n),
                            !.at = @ + BatchSize]
<1>1. /\ old \in Jobs /\ old.pc = "send" /\ JobOK(n) /\ SentOK(old)
      /\ feed[n] \in [Users -> {0, 1}] /\ old.at <= Len(old.list) /\ TypeOK
  BY DEF IInv, TypeOK, SendBatch, At, JobOK
<1>2. /\ Batch(n) \in Seq(Devices)
      /\ Len(Batch(n)) = BatchEnd(n) - old.at + 1
      /\ BatchEnd(n) \in old.at..Len(old.list)
      /\ \A i \in 1..Len(Batch(n)) : Batch(n)[i] = old.list[old.at + i - 1]
      /\ Refused(n) \subseteq Devices \cap gone
  BY <1>1, BatchTyped
<1>3. /\ old.list \in Seq(Devices) /\ old.sent \in Seq(Devices) /\ old.at \in Nat
      /\ old.at >= 1 /\ BatchSize \in Nat \ {0} /\ old.invalid \subseteq Devices
      /\ Len(old.list) \in Nat
  BY <1>1, Fields, BatchAssumption DEF SentOK
<1>4. /\ j.sent = old.sent \o Batch(n) /\ j.at = old.at + BatchSize
      /\ j.list = old.list /\ j.invalid = old.invalid \cup Refused(n)
      /\ j.pc = "send" /\ j.to = old.to
  BY <1>1 DEF Jobs
<1>5. j \in Jobs
  <2>1. old.sent \o Batch(n) \in Seq(Devices) /\ old.at + BatchSize \in Nat
    BY <1>2, <1>3
  <2>2. old.invalid \cup Refused(n) \in SUBSET Devices
    BY <1>2, <1>3
  <2> QED
    BY <1>1, <2>1, <2>2 DEF Jobs
<1> DEFINE sent == old.sent
           list == old.list
           at == old.at
           batch == Batch(n)
           end == BatchEnd(n)
<1>6. SentOK(j)
  <2>1. end = IF at + BatchSize - 1 < Len(list) THEN at + BatchSize - 1 ELSE Len(list)
    BY DEF BatchEnd
  <2>2. Len(sent) = (IF at - 1 < Len(list) THEN at - 1 ELSE Len(list))
        /\ \A i \in 1..Len(sent) : sent[i] = list[i]
    BY <1>1 DEF SentOK
  <2>3. /\ batch \in Seq(Devices) /\ sent \in Seq(Devices) /\ at \in Nat /\ at >= 1
        /\ Len(list) \in Nat /\ BatchSize \in Nat \ {0} /\ at <= Len(list)
        /\ Len(batch) = end - at + 1 /\ end \in at..Len(list)
        /\ \A i \in 1..Len(batch) : batch[i] = list[at + i - 1]
    BY <1>1, <1>2, <1>3
  <2>4. j.sent = sent \o batch /\ j.at = at + BatchSize /\ j.list = list
    BY <1>4
  <2> HIDE DEF old, j, sent, list, at, batch, end
  <2>5. Len(sent) = at - 1
    BY <2>2, <2>3
  <2>6. Len(sent \o batch) = end
    <3>0. batch \in Seq(Devices) /\ sent \in Seq(Devices)
      BY <2>3
    <3>1. Len(sent \o batch) = Len(sent) + Len(batch)
      BY ONLY <3>0
    <3>2. end \in Int /\ at \in Int
      BY <2>3
    <3>3. (at - 1) + (end - at + 1) = end
      BY <3>2
    <3> QED
      BY <2>3, <2>5, <3>1, <3>3
  <2>7. ASSUME NEW i \in 1..end PROVE (sent \o batch)[i] = list[i]
    <3>1. CASE i <= at - 1
      BY <2>2, <2>3, <2>5, <3>1
    <3>2. CASE i > at - 1
      <4>1. i - Len(sent) \in 1..Len(batch) /\ at + (i - Len(sent)) - 1 = i
        BY <2>3, <2>5, <3>2
      <4>2. (sent \o batch)[i] = batch[i - Len(sent)]
        BY <2>3, <2>5, <3>2, <4>1
      <4> QED
        BY <2>3, <4>1, <4>2
    <3>3. i \in Int /\ at \in Int
      BY <2>3
    <3>4. i <= at - 1 \/ i > at - 1
      BY <3>3
    <3> QED
      BY <3>1, <3>2, <3>4
  <2>8. end = IF j.at - 1 < Len(j.list) THEN j.at - 1 ELSE Len(j.list)
    BY <2>1, <2>3, <2>4
  <2>9. j.at >= 1
    BY <2>3, <2>4
  <2> QED
    BY <2>4, <2>6, <2>7, <2>8, <2>9 DEF SentOK
<1>7. j.invalid \subseteq gone /\ \A u \in j.to : feed[n][u] = 1
  BY <1>1, <1>2, <1>4 DEF JobOK, RowsOK
<1>8. job' = [job EXCEPT ![n] = j] /\ feed' = [feed EXCEPT ![n] = feed[n]]
      /\ UNCHANGED <<owner, gone, read>>
  BY <1>1 DEF SendBatch, IInv, TypeOK
<1> HIDE DEF old, j
<1> QED
  BY <1>1, <1>4, <1>5, <1>6, <1>7, <1>8, OneNotice DEF TypeOK

LEMMA EndSendingStep ==
  ASSUME IInv, NEW n \in Notices, EndSending(n)
  PROVE  IInv'
<1> DEFINE j == [job[n] EXCEPT !.pc = "clean"]
<1>1. /\ job[n] \in Jobs /\ job[n].pc = "send" /\ JobOK(n)
      /\ feed[n] \in [Users -> {0, 1}]
  BY DEF IInv, TypeOK, EndSending, At
<1>2. UNCHANGED <<owner, gone, feed, read>>
  BY DEF EndSending
<1>3. CASE job[n].invalid = {}
  BY <1>2, <1>3, EndStep DEF EndSending, IInv, TypeOK
<1>4. CASE job[n].invalid # {}
  <2>1. /\ j \in Jobs /\ SentOK(j) /\ j.invalid \subseteq gone /\ j.pc = "clean"
        /\ \A u \in j.to : feed[n][u] = 1
    BY <1>1 DEF Jobs, JobOK, RowsOK, SentOK
  <2>2. job' = [job EXCEPT ![n] = j] /\ feed' = [feed EXCEPT ![n] = feed[n]]
    BY <1>1, <1>4 DEF EndSending, IInv, TypeOK
  <2> HIDE DEF j
  <2> QED
    BY <1>1, <1>2, <2>1, <2>2, OneNotice DEF IInv, TypeOK
<1> QED
  BY <1>3, <1>4

\* What the users do touches neither jobs nor rows, and devices go for good.
LEMMA UserSteps ==
  ASSUME IInv, UserStep
  PROVE  IInv'
<1>1. job' = job /\ feed' = feed /\ gone \subseteq gone'
  BY DEF UserStep, Register, Unregister, Uninstall, MarkRead, MarkAllRead
<1>2. TypeOK'
  <2>1. owner' \in [Devices -> Users \cup {Nobody}] /\ gone' \subseteq Devices
    BY DEF UserStep, Register, Unregister, Uninstall, MarkRead, MarkAllRead, IInv, TypeOK
  <2>2. read' \subseteq Notices \X Users
    <3>1. \A u \in Users : RowsFor(u) \subseteq Notices \X Users
      BY DEF RowsFor
    <3> QED
      BY <3>1 DEF UserStep, Register, Unregister, Uninstall, MarkRead, MarkAllRead, IInv,
                  TypeOK
  <2> QED
    BY <1>1, <2>1, <2>2 DEF IInv, TypeOK
<1>3. ASSUME NEW n \in Notices PROVE JobOK(n)'
  BY <1>1 DEF IInv, JobOK, RowsOK
<1> QED
  BY <1>2, <1>3 DEF IInv

LEMMA InitOK == Init => IInv
<1> SUFFICES ASSUME Init PROVE IInv
  OBVIOUS
<1>1. TypeOK
  BY NewJobTyped DEF Init, TypeOK
<1>2. ASSUME NEW n \in Notices PROVE JobOK(n)
  BY DEF Init, JobOK, RowsOK, SentOK, NewJob
<1> QED
  BY <1>1, <1>2 DEF IInv

LEMMA NextOK == IInv /\ [Next]_vars => IInv'
<1> SUFFICES ASSUME IInv, [Next]_vars PROVE IInv'
  OBVIOUS
<1>1. CASE UserStep
  BY <1>1, UserSteps
<1>2. ASSUME NEW n \in Notices, NoticeStep(n) PROVE IInv'
  <2>1. ASSUME NEW u \in Users, NotifyUser(n, u) PROVE IInv'
    BY <2>1, NotifyUserStep
  <2>2. ASSUME NEW us \in SUBSET Users, NotifyUsersByRole(n, us) PROVE IInv'
    BY <2>2, NotifyUsersByRoleStep
  <2>3. CASE ListDevices(n)
    BY <2>3, ListDevicesStep
  <2>4. CASE CreateMany(n)
    BY <2>4, CreateManyStep
  <2>5. CASE SendBatch(n)
    BY <2>5, SendBatchStep
  <2>6. CASE EndSending(n)
    BY <2>6, EndSendingStep
  <2>7. CASE DeleteInvalid(n)
    <3>1. owner' \in [Devices -> Users \cup {Nobody}]
      BY <2>7 DEF DeleteInvalid, IInv, TypeOK
    <3> QED
      BY <2>7, <3>1, EndStep DEF DeleteInvalid, IInv, TypeOK
  <2>8. CASE GiveUp(n)
    BY <2>8, EndStep DEF GiveUp, IInv, TypeOK
  <2> QED
    BY <1>2, <2>1, <2>2, <2>3, <2>4, <2>5, <2>6, <2>7, <2>8 DEF NoticeStep
<1>3. CASE UNCHANGED vars
  BY <1>3 DEF vars, IInv, TypeOK, JobOK, RowsOK
<1> QED
  BY <1>1, <1>2, <1>3 DEF Next

LEMMA Invariance == Spec => []IInv
<1> QED
  BY InitOK, NextOK, PTL DEF Spec

-----------------------------------------------------------------------------
\* notifyUser, notifyUsersByRole: every state is well typed; in particular a user
\* gets at most one row of a notice.
THEOREM TypeCorrect == Spec => []TypeOK
<1>1. IInv => TypeOK
  BY DEF IInv
<1> QED
  BY <1>1, Invariance, PTL

\* sendPushToTokens: for every size of a batch, the tokens are pushed to once
\* each, in order and without a gap.
THEOREM PushedOnceCorrect == Spec => []PushedOnce
<1>1. IInv => PushedOnce
  <2> SUFFICES ASSUME IInv, NEW n \in Notices
               PROVE  /\ IsPrefix(job[n].sent, job[n].list)
                      /\ job[n].at > Len(job[n].list) => job[n].sent = job[n].list
    BY DEF PushedOnce
  <2> DEFINE sent == job[n].sent
             list == job[n].list
             at == job[n].at
  <2>1. sent \in Seq(Devices) /\ list \in Seq(Devices) /\ at \in Nat
    BY Fields DEF IInv, TypeOK
  <2>2. /\ Len(sent) = IF at - 1 < Len(list) THEN at - 1 ELSE Len(list)
        /\ \A i \in 1..Len(sent) : sent[i] = list[i]
        /\ at >= 1
    BY DEF IInv, JobOK, SentOK
  <2> HIDE DEF sent, list, at
  <2>3. Len(sent) <= Len(list) /\ Len(sent) \in Nat /\ Len(list) \in Nat
    BY <2>1, <2>2
  <2>4. SubSeq(sent, 1, Len(sent)) = SubSeq(list, 1, Len(sent))
    BY <2>1, <2>2, <2>3
  <2>5. at > Len(list) => sent = list
    BY <2>1, <2>2, <2>3
  <2> QED
    BY <2>3, <2>4, <2>5 DEF IsPrefix, sent, list, at
<1> QED
  BY <1>1, Invariance, PTL

\* notifyUser, notifyUsersByRole: for any number of notices at once, whoever is
\* pushed to finds the notice in the feed.
THEOREM PushedIsInFeedCorrect == Spec => []PushedIsInFeed
<1>1. IInv => PushedIsInFeed
  BY Fields DEF IInv, TypeOK, JobOK, RowsOK, PushedIsInFeed
<1> QED
  BY <1>1, Invariance, PTL

\* sendPushToTokens: for any number of notices at once, a device with the app is
\* unregistered by its owner only.
THEOREM LiveDevicesStayCorrect == Spec => LiveDevicesStay
<1> DEFINE Kept == \A d \in Devices \ gone :
                     owner[d] # Nobody /\ owner'[d] # owner[d]
                       => \E u \in Users : Unregister(owner[d], d) \/ Register(u, d)
<1>1. IInv /\ [Next]_vars => [Kept]_vars
  <2> SUFFICES ASSUME IInv, Next, NEW d \in Devices \ gone,
                      owner[d] # Nobody, owner'[d] # owner[d]
               PROVE  \E u \in Users : Unregister(owner[d], d) \/ Register(u, d)
    OBVIOUS
  <2>1. owner \in [Devices -> Users \cup {Nobody}]
    BY DEF IInv, TypeOK
  <2>2. ASSUME NEW u \in Users, NEW e \in Devices, Register(u, e)
        PROVE  Register(u, d)
    <3>1. e = d
      BY <2>1, <2>2 DEF Register
    <3> QED
      BY <2>2, <3>1
  <2>3. ASSUME NEW u \in Users, NEW e \in Devices, Unregister(u, e)
        PROVE  Unregister(owner[d], d)
    <3>1. e = d /\ u = owner[d]
      BY <2>1, <2>3 DEF Unregister
    <3> QED
      BY <2>3, <3>1
  <2>4. ASSUME NEW n \in Notices, DeleteInvalid(n)
        PROVE  FALSE
    <3>1. d \in job[n].invalid
      BY <2>4 DEF DeleteInvalid
    <3> QED
      BY <3>1 DEF IInv, JobOK
  <2>5. \/ \E u \in Users, e \in Devices : Register(u, e) \/ Unregister(u, e)
        \/ \E n \in Notices : DeleteInvalid(n)
    BY DEF Next, UserStep, NoticeStep, Uninstall, MarkRead, MarkAllRead, NotifyUser,
           ListDevices, NotifyUsersByRole, CreateMany, SendBatch, EndSending, GiveUp
  <2>6. owner[d] \in Users
    BY <2>1
  <2> QED
    BY <2>2, <2>3, <2>4, <2>5, <2>6
<1> QED
  BY <1>1, Invariance, PTL DEF Spec, LiveDevicesStay
=============================================================================
