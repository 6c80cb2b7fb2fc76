-------------------------- MODULE RateLimitProofs --------------------------
(***************************************************************************)
(* BurstBound and RefusedForCause, for every limit, window and number of   *)
(* clients.                                                                *)
(*                                                                         *)
(* The inductive invariant is about the requests p let in of one client,   *)
(* its bucket b and the time t.  Each request names the one that opened    *)
(* its window, fewer than Max before it; an opener comes Window or more    *)
(* after the opener of the window before; and the bucket describes the     *)
(* last window.  Of 2 * Max requests, the last one's window was opened     *)
(* after the first, and the window before that one too.                    *)
(***************************************************************************)
EXTENDS RateLimit, TLAPS

InOrder(p, t) ==
  \A i \in 1..Len(p) : /\ p[i].at <= t
                       /\ \A j \in 1..Len(p) : i <= j => p[i].at <= p[j].at

InWindows(p) ==
  \A i \in 1..Len(p) : /\ p[i].opener \in 1..i
                       /\ i - p[i].opener < Max
                       /\ p[p[i].opener].opener = p[i].opener

Spaced(p) ==
  \A i \in 2..Len(p) :
    p[i].opener = i => p[i].at - p[p[i - 1].opener].at >= Window

Counts(p, b) ==
  IF p = << >> THEN b = Unseen
  ELSE /\ b \in Bucket
       /\ b.windowStart = p[p[Len(p)].opener].at
       /\ Len(p) - p[Len(p)].opener + 1 = IF b.count <= Max THEN b.count ELSE Max

ClientOK(p, b, t) == InOrder(p, t) /\ InWindows(p) /\ Spaced(p) /\ Counts(p, b)

IInv == TypeOK /\ \A c \in Clients : ClientOK(passed[c], bucket[c], now)

-----------------------------------------------------------------------------
LEMMA PassFields ==
  ASSUME NEW p \in Seq(Pass)
  PROVE  \A i \in 1..Len(p) : p[i].at \in Nat /\ p[i].opener \in Nat
<1>1. \A i \in 1..Len(p) : p[i] \in Pass
  OBVIOUS
<1> QED
  BY <1>1 DEF Pass

LEMMA InitOK == Init => IInv
<1> SUFFICES ASSUME Init PROVE IInv
  OBVIOUS
<1>1. TypeOK
  BY LimitAssumption DEF Init, TypeOK
<1>2. ASSUME NEW c \in Clients PROVE ClientOK(passed[c], bucket[c], now)
  BY DEF Init, ClientOK, InOrder, InWindows, Spaced, Counts
<1> QED
  BY <1>1, <1>2 DEF IInv

\* What a request let in leaves as it was.
LEMMA LetInOK ==
  ASSUME NEW p \in Seq(Pass), NEW b, NEW t \in Nat, ClientOK(p, b, t),
         NEW o \in 1..(Len(p) + 1), Len(p) + 1 - o < Max,
         o # Len(p) + 1 => p # << >> /\ p[Len(p)].opener = o,
         o = Len(p) + 1 /\ p # << >> => t - p[p[Len(p)].opener].at >= Window
  PROVE  LET q == Append(p, [at |-> t, opener |-> o]) IN
         /\ q \in Seq(Pass) /\ InOrder(q, t) /\ InWindows(q) /\ Spaced(q)
<1> DEFINE n == Len(p)
           q == Append(p, [at |-> t, opener |-> o])
<1>1. /\ q \in Seq(Pass) /\ Len(q) = n + 1 /\ n \in Nat
      /\ q[n + 1] = [at |-> t, opener |-> o]
      /\ \A i \in 1..n : q[i] = p[i]
  BY DEF Pass
<1>2. \A i \in 1..n : p[i].at \in Nat /\ p[i].opener \in Nat
  BY PassFields
<1>3. InOrder(q, t)
  BY <1>1, <1>2 DEF ClientOK, InOrder
<1>4. InWindows(q)
  <2> SUFFICES ASSUME NEW i \in 1..(n + 1)
               PROVE  /\ q[i].opener \in 1..i /\ i - q[i].opener < Max
                      /\ q[q[i].opener].opener = q[i].opener
    BY <1>1 DEF InWindows
  <2>1. CASE i \in 1..n
    <3>1. p[i].opener \in 1..i /\ i - p[i].opener < Max
            /\ p[p[i].opener].opener = p[i].opener
      BY <2>1 DEF ClientOK, InWindows
    <3> QED
      BY <1>1, <2>1, <3>1
  <2>2. CASE i = n + 1
    <3>1. CASE o = n + 1
      BY <1>1, <2>2, <3>1
    <3>2. CASE o # n + 1
      <4>1. n \in 1..n /\ p[n].opener = o
        BY <3>2, <1>1
      <4>2. o \in 1..n /\ p[o].opener = o
        BY <4>1 DEF ClientOK, InWindows
      <4> QED
        BY <1>1, <2>2, <4>2
    <3> QED
      BY <3>1, <3>2
  <2> QED
    BY <1>1, <2>1, <2>2
<1>5. Spaced(q)
  <2> SUFFICES ASSUME NEW i \in 2..(n + 1), q[i].opener = i
               PROVE  q[i].at - q[q[i - 1].opener].at >= Window
    BY <1>1 DEF Spaced
  <2>1. i - 1 \in 1..n /\ p[i - 1].opener \in 1..(i - 1)
    BY <1>1 DEF ClientOK, InWindows
  <2>2. q[q[i - 1].opener] = p[p[i - 1].opener]
    BY <1>1, <2>1
  <2>3. CASE i \in 1..n
    <3>1. i \in 2..Len(p) /\ q[i] = p[i] /\ p[i].opener = i
      BY <1>1, <2>3
    <3>2. p[i].at - p[p[i - 1].opener].at >= Window
      BY <3>1 DEF ClientOK, Spaced
    <3> QED
      BY <2>2, <3>1, <3>2
  <2>4. CASE i = n + 1
    <3>1. o = n + 1 /\ p # << >> /\ i - 1 = n /\ q[i].at = t
      BY <1>1, <2>1, <2>4
    <3>2. t - p[p[n].opener].at >= Window
      BY <3>1
    <3> QED
      BY <2>2, <3>1, <3>2
  <2>5. i \in 1..n \/ i = n + 1
    BY <1>1
  <2> QED
    BY <2>3, <2>4, <2>5
<1> QED
  BY <1>1, <1>3, <1>4, <1>5

-----------------------------------------------------------------------------
LEMMA OpenWindowStep ==
  ASSUME IInv, NEW c \in Clients, OpenWindow(c) PROVE IInv'
<1> DEFINE p == passed[c]
           b == bucket[c]
           n == Len(p)
           q == Append(p, [at |-> now, opener |-> n + 1])
<1>1. /\ p \in Seq(Pass) /\ n \in Nat /\ now \in Nat /\ ClientOK(p, b, now)
      /\ b \in Bucket \cup {Unseen} /\ Max \in Nat \ {0} /\ Window \in Nat \ {0}
  BY LimitAssumption DEF IInv, TypeOK
<1>2. p # << >> => now - p[p[n].opener].at >= Window
  <2> SUFFICES ASSUME p # << >> PROVE now - p[p[n].opener].at >= Window
    OBVIOUS
  <2>1. b \in Bucket /\ b.windowStart = p[p[n].opener].at
    BY <1>1 DEF ClientOK, Counts
  <2>2. b # Unseen
    BY <2>1 DEF Bucket, Unseen
  <2> QED
    BY <2>1, <2>2 DEF OpenWindow, Expired
<1>3. q \in Seq(Pass) /\ InOrder(q, now) /\ InWindows(q) /\ Spaced(q)
  <2>1. n + 1 \in 1..(n + 1) /\ n + 1 - (n + 1) < Max
    BY <1>1
  <2> HIDE DEF p, b
  <2> QED
    BY <1>1, <1>2, <2>1, LetInOK
<1>4. /\ bucket' = [bucket EXCEPT ![c] = [count |-> 1, windowStart |-> now]]
      /\ passed' = [passed EXCEPT ![c] = q] /\ now' = now
  BY DEF OpenWindow, LetIn
<1>5. [count |-> 1, windowStart |-> now] \in Bucket
  BY <1>1 DEF Bucket
<1>6. TypeOK'
  BY <1>3, <1>4, <1>5 DEF IInv, TypeOK
<1>7. Counts(q, [count |-> 1, windowStart |-> now])
  <2>1. q # << >> /\ Len(q) = n + 1 /\ q[n + 1] = [at |-> now, opener |-> n + 1]
    BY <1>1
  <2> QED
    BY <1>1, <1>5, <2>1 DEF Counts
<1>8. ASSUME NEW d \in Clients PROVE ClientOK(passed[d], bucket[d], now)'
  <2>1. CASE d = c
    <3>1. passed'[d] = q /\ bucket'[d] = [count |-> 1, windowStart |-> now]
      BY <1>4, <2>1 DEF IInv, TypeOK
    <3> QED
      BY <1>3, <1>4, <1>7, <3>1 DEF ClientOK
  <2>2. CASE d # c
    <3>1. passed'[d] = passed[d] /\ bucket'[d] = bucket[d]
      BY <1>4, <2>2 DEF IInv, TypeOK
    <3> QED
      BY <1>4, <3>1 DEF IInv
  <2> QED
    BY <2>1, <2>2
<1> QED
  BY <1>6, <1>8 DEF IInv

LEMMA CountInStep ==
  ASSUME IInv, NEW c \in Clients, CountIn(c) PROVE IInv'
<1> DEFINE p == passed[c]
           b == bucket[c]
           n == Len(p)
           o == p[n].opener
           q == Append(p, [at |-> now, opener |-> o])
           e == [b EXCEPT !.count = @ + 1]
<1>1. /\ p \in Seq(Pass) /\ n \in Nat /\ now \in Nat /\ ClientOK(p, b, now)
      /\ b \in Bucket \cup {Unseen} /\ Max \in Nat \ {0} /\ Window \in Nat \ {0}
  BY LimitAssumption DEF IInv, TypeOK
<1>2. p # << >> /\ b \in Bucket /\ b.count + 1 <= Max
  BY <1>1 DEF ClientOK, Counts, CountIn, Expired, Full, Bucket
<1>3. n \in 1..n /\ o \in 1..n /\ n - o + 1 = b.count /\ b.windowStart = p[o].at
  BY <1>1, <1>2 DEF ClientOK, Counts, InWindows, Bucket
<1>4. q \in Seq(Pass) /\ InOrder(q, now) /\ InWindows(q) /\ Spaced(q)
  <2>1. o \in 1..(n + 1) /\ n + 1 - o < Max /\ o # n + 1
    <3>1. b.count \in Nat
      BY <1>1, <1>2 DEF Bucket
    <3> HIDE DEF p, b, o
    <3> QED
      BY <1>1, <1>2, <1>3, <3>1
  <2>2. p[Len(p)].opener = o
    OBVIOUS
  <2> HIDE DEF p, b, o
  <2> QED
    BY <1>1, <1>2, <2>1, <2>2, LetInOK
<1>5. /\ bucket' = [bucket EXCEPT ![c] = e]
      /\ passed' = [passed EXCEPT ![c] = q] /\ now' = now
  BY DEF CountIn, LetIn
<1>6. e \in Bucket /\ e.windowStart = b.windowStart /\ e.count = b.count + 1
  BY <1>1, <1>2 DEF Bucket
<1>7. TypeOK'
  BY <1>4, <1>5, <1>6 DEF IInv, TypeOK
<1>8. Counts(q, e)
  <2>1. q # << >> /\ Len(q) = n + 1 /\ q[n + 1].opener = o /\ q[o] = p[o]
    BY <1>1, <1>3
  <2> HIDE DEF q, e, o, p, b
  <2> QED
    BY <1>1, <1>2, <1>3, <1>6, <2>1 DEF Counts
<1>9. ASSUME NEW d \in Clients PROVE ClientOK(passed[d], bucket[d], now)'
  <2>1. CASE d = c
    <3>1. passed'[d] = q /\ bucket'[d] = e
      BY <1>5, <2>1 DEF IInv, TypeOK
    <3> QED
      BY <1>4, <1>5, <1>8, <3>1 DEF ClientOK
  <2>2. CASE d # c
    <3>1. passed'[d] = passed[d] /\ bucket'[d] = bucket[d]
      BY <1>5, <2>2 DEF IInv, TypeOK
    <3> QED
      BY <1>5, <3>1 DEF IInv
  <2> QED
    BY <2>1, <2>2
<1> QED
  BY <1>7, <1>9 DEF IInv

\* Whoever is refused has a full window.
LEMMA RefusedIsFull ==
  ASSUME IInv, NEW c \in Clients, Refuse(c)
  PROVE  LET p == passed[c]
             o == p[Len(p)].opener IN
         /\ p # << >> /\ bucket[c] \in Bucket /\ Len(p) \in Nat
         /\ o \in 1..Len(p) /\ Len(p) - o + 1 = Max
         /\ bucket[c].windowStart = p[o].at /\ now - p[o].at < Window
<1> DEFINE p == passed[c]
           b == bucket[c]
           o == p[Len(p)].opener
<1>1. /\ p \in Seq(Pass) /\ Len(p) \in Nat /\ now \in Nat /\ ClientOK(p, b, now)
      /\ Max \in Nat \ {0} /\ Window \in Nat \ {0}
  BY LimitAssumption DEF IInv, TypeOK
<1>2. p # << >> /\ b \in Bucket /\ b.count + 1 > Max /\ now - b.windowStart < Window
  BY <1>1 DEF ClientOK, Counts, Refuse, Expired, Full, Bucket
<1>3. Len(p) \in 1..Len(p) /\ o \in 1..Len(p)
  BY <1>1, <1>2 DEF ClientOK, InWindows
<1>4. Len(p) - o + 1 = Max /\ b.windowStart = p[o].at
  BY <1>1, <1>2, <1>3 DEF ClientOK, Counts, Bucket
<1> QED
  BY <1>1, <1>2, <1>3, <1>4

LEMMA RefuseStep ==
  ASSUME IInv, NEW c \in Clients, Refuse(c) PROVE IInv'
<1> DEFINE p == passed[c]
           e == [bucket[c] EXCEPT !.count = @ + 1]
<1>1. /\ p # << >> /\ bucket[c] \in Bucket /\ Len(p) \in Nat
      /\ Len(p) - p[Len(p)].opener + 1 = Max
      /\ bucket[c].windowStart = p[p[Len(p)].opener].at
      /\ bucket[c].count + 1 > Max
  BY RefusedIsFull DEF Refuse, Full
<1>2. /\ bucket' = [bucket EXCEPT ![c] = e] /\ passed' = passed /\ now' = now
  BY DEF Refuse
<1>3. e \in Bucket /\ e.count > Max /\ e.windowStart = bucket[c].windowStart
  <2>1. PICK n \in Nat \ {0}, start \in Nat : bucket[c] = [count |-> n, windowStart |-> start]
    BY <1>1 DEF Bucket
  <2>2. e = [count |-> n + 1, windowStart |-> start] /\ n + 1 > Max /\ n + 1 \in Nat \ {0}
    BY <1>1, <2>1
  <2>3. bucket[c].windowStart = start
    BY <2>1
  <2> HIDE DEF e
  <2> QED
    BY <2>2, <2>3 DEF Bucket
<1>4. TypeOK'
  BY <1>2, <1>3 DEF IInv, TypeOK
<1>5. Counts(p, e)
  <2> HIDE DEF p, e
  <2> QED
    BY <1>1, <1>3, LimitAssumption DEF Counts, Bucket
<1>6. ASSUME NEW d \in Clients PROVE ClientOK(passed[d], bucket[d], now)'
  <2>1. CASE d = c
    <3>1. passed'[d] = p /\ bucket'[d] = e
      BY <1>2, <2>1 DEF IInv, TypeOK
    <3> QED
      BY <1>2, <1>5, <2>1, <3>1 DEF IInv, ClientOK
  <2>2. CASE d # c
    <3>1. passed'[d] = passed[d] /\ bucket'[d] = bucket[d]
      BY <1>2, <2>2 DEF IInv, TypeOK
    <3> QED
      BY <1>2, <3>1 DEF IInv
  <2> QED
    BY <2>1, <2>2
<1> QED
  BY <1>4, <1>6 DEF IInv

LEMMA NextOK == IInv /\ [Next]_vars => IInv'
<1> SUFFICES ASSUME IInv, [Next]_vars PROVE IInv'
  OBVIOUS
<1>1. CASE Tick
  <2>1. TypeOK'
    BY <1>1 DEF IInv, TypeOK, Tick
  <2>2. ASSUME NEW c \in Clients PROVE ClientOK(passed[c], bucket[c], now)'
    <3>1. passed' = passed /\ bucket' = bucket /\ now' = now + 1 /\ now \in Nat
      BY <1>1 DEF Tick, IInv, TypeOK
    <3>2. ClientOK(passed[c], bucket[c], now) /\ passed[c] \in Seq(Pass)
      BY DEF IInv, TypeOK
    <3>3. InOrder(passed[c], now + 1)
      <4>1. \A i \in 1..Len(passed[c]) : passed[c][i].at \in Nat
        BY <3>2, PassFields
      <4>2. InOrder(passed[c], now)
        BY <3>2 DEF ClientOK
      <4> QED
        BY <3>1, <4>1, <4>2 DEF InOrder
    <3> QED
      BY <3>1, <3>2, <3>3 DEF ClientOK
  <2> QED
    BY <2>1, <2>2 DEF IInv
<1>2. CASE Restart
  <2>1. TypeOK'
    BY <1>2 DEF IInv, TypeOK, Restart
  <2>2. ASSUME NEW c \in Clients PROVE ClientOK(passed[c], bucket[c], now)'
    BY <1>2 DEF Restart, ClientOK, InOrder, InWindows, Spaced, Counts
  <2> QED
    BY <2>1, <2>2 DEF IInv
<1>3. ASSUME NEW c \in Clients, OpenWindow(c) \/ CountIn(c) \/ Refuse(c) PROVE IInv'
  BY <1>3, OpenWindowStep, CountInStep, RefuseStep
<1>4. CASE UNCHANGED vars
  BY <1>4 DEF vars, IInv, TypeOK
<1> QED
  BY <1>1, <1>2, <1>3, <1>4 DEF Next

LEMMA Invariance == Spec => []IInv
<1> QED
  BY InitOK, NextOK, PTL DEF Spec

-----------------------------------------------------------------------------
\* Distances add up: what lies outside of two points Window apart is no closer.
LEMMA Apart ==
  ASSUME NEW a \in Nat, NEW b \in Nat, NEW c \in Nat, NEW d \in Nat, NEW w \in Nat,
         a <= b, c <= d, c - b >= w
  PROVE  d - a >= w
  OBVIOUS

\* rateLimit: for every limit and window, of 2 * Max requests of a client let in
\* one after another the first and the last are Window or more apart.
THEOREM BurstBounded == Spec => []BurstBound
<1>1. IInv => BurstBound
  <2> SUFFICES ASSUME IInv, NEW c \in Clients,
                      NEW i \in DOMAIN passed[c], NEW j \in DOMAIN passed[c],
                      j - i >= 2 * Max - 1
               PROVE  passed[c][j].at - passed[c][i].at >= Window
    BY DEF BurstBound
  <2> DEFINE p == passed[c]
  <2>1. /\ p \in Seq(Pass) /\ ClientOK(p, bucket[c], now) /\ Len(p) \in Nat
        /\ Max \in Nat \ {0} /\ Window \in Nat \ {0}
    BY LimitAssumption DEF IInv, TypeOK
  <2>2. i \in 1..Len(p) /\ j \in 1..Len(p)
    BY <2>1
  <2> DEFINE k == p[j].opener
             s == p[k - 1].opener
  <2> HIDE DEF p
  <2>3. k \in 1..j /\ j - k < Max /\ p[k].opener = k
    BY <2>1, <2>2 DEF ClientOK, InWindows
  <2>4. k \in 2..Len(p) /\ k - 1 \in 1..Len(p) /\ k >= i + Max
    <3>1. /\ k \in Nat /\ k <= j /\ j - k < Max
          /\ i \in Nat /\ i >= 1 /\ j \in Nat /\ j <= Len(p)
      BY <2>1, <2>2, <2>3
    <3>2. Len(p) \in Nat /\ Max \in Nat /\ Max >= 1
      BY <2>1
    <3> HIDE DEF k, s
    <3> QED
      BY <3>1, <3>2
  <2>5. s \in 1..(k - 1) /\ k - 1 - s < Max
    BY <2>1, <2>4 DEF ClientOK, InWindows
  <2>6. s \in 1..Len(p) /\ i <= s
    <3> HIDE DEF k, s
    <3> QED
      BY <2>1, <2>2, <2>4, <2>5
  <2>7. p[k].at - p[s].at >= Window
    BY <2>1, <2>3, <2>4 DEF ClientOK, Spaced
  <2>8. p[i].at <= p[s].at /\ p[k].at <= p[j].at
    <3>1. k \in 1..Len(p) /\ k <= j
      BY <2>2, <2>3, <2>4
    <3> HIDE DEF k, s
    <3> QED
      BY <2>1, <2>2, <2>6, <3>1 DEF ClientOK, InOrder
  <2>9. p[i].at \in Nat /\ p[s].at \in Nat /\ p[k].at \in Nat /\ p[j].at \in Nat
    <3> HIDE DEF k, s
    <3> QED
      BY <2>1, <2>2, <2>4, <2>6, PassFields
  <2>10. p[j].at - p[i].at >= Window
    <3> HIDE DEF k, s
    <3> QED
      BY <2>7, <2>8, <2>9, LimitAssumption, Apart
  <2> QED
    BY <2>10 DEF p
<1> QED
  BY <1>1, Invariance, PTL

\* rateLimit: for every limit and window, who is refused was let in Max times
\* within the last Window.
THEOREM RefusalsHaveCause == Spec => RefusedForCause
<1> DEFINE Cause(c) == /\ Len(passed[c]) >= Max
                       /\ now - passed[c][Len(passed[c]) - Max + 1].at < Window
           Step == \A c \in Clients : Refuse(c) => Cause(c)
<1>1. IInv => Step
  <2> SUFFICES ASSUME IInv, NEW c \in Clients, Refuse(c) PROVE Cause(c)
    OBVIOUS
  <2> DEFINE p == passed[c]
             o == p[Len(p)].opener
  <2>1. /\ Len(p) \in Nat /\ o \in 1..Len(p) /\ Len(p) - o + 1 = Max
        /\ now - p[o].at < Window
    BY RefusedIsFull
  <2>2. Len(p) - Max + 1 = o /\ Len(p) >= Max
    <3> HIDE DEF o, p
    <3> QED
      BY <2>1, LimitAssumption
  <2> QED
    BY <2>1, <2>2
<1>2. IInv /\ [Next]_vars => [Step]_vars
  BY <1>1
<1> QED
  BY <1>2, Invariance, PTL DEF Spec, RefusedForCause
=============================================================================
