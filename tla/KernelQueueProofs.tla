-------------------------- MODULE KernelQueueProofs -------------------------
(***************************************************************************)
(* Proofs about Scheduler and KernelQueue, for every set of tasks with any  *)
(* priorities, any length of the queue, any items and calls, and every      *)
(* width of the tick count.                                                 *)
(***************************************************************************)
EXTENDS KernelQueue, FiniteSetTheorems, WellFoundedInduction, TLAPS

-----------------------------------------------------------------------------
(* Induction and recursion over numbers, for sets and functions *)

\* A set of numbers that is not empty has a smallest member.
LEMMA LeastNumber ==
  ASSUME NEW T, T \subseteq Nat, T # {}
  PROVE  \E x \in T : \A y \in T : x <= y
<1>1. PICK R : R = OpToRel(<, Nat)
  BY Zenon
<1>2. IsWellFoundedOn(R, Nat)
  BY <1>1, NatLessThanWellFounded, Zenon
<1>3. \A y, x \in Nat : y < x => <<y, x>> \in R
  BY <1>1 DEF OpToRel
<1>4. PICK x \in T : \A y \in T : ~(<<y, x>> \in R)
  BY <1>2, WFMin
<1>5. \A y \in T : x <= y
  <2> SUFFICES ASSUME NEW y \in T PROVE x <= y
    OBVIOUS
  <2>1. x \in Nat /\ y \in Nat /\ ~(y < x)
    BY <1>3, <1>4
  <2> QED
    BY <2>1
<1> QED
  BY <1>5

\* A set that contains 0 and with each number the next one contains all numbers.
LEMMA Induction ==
  ASSUME NEW S, 0 \in S, \A n \in Nat : n \in S => n + 1 \in S
  PROVE  \A n \in Nat : n \in S
<1> SUFFICES ASSUME Nat \ S # {} PROVE FALSE
  OBVIOUS
<1>1. PICK x \in Nat \ S : \A y \in Nat \ S : x <= y
  BY LeastNumber
<1>2. x # 0
  OBVIOUS
<1>3. x - 1 \in Nat /\ x - 1 \in S
  BY <1>1, <1>2
<1> QED
  BY <1>3

\* What n steps make of x, each step a function from S to S.
Steps(n, S) == [1 .. n -> [S -> S]]

Iterated(f, n, S, g, x) ==
  f \in [0 .. n -> S] /\ f[0] = x /\ \A i \in 1 .. n : f[i] = g[i][f[i - 1]]

LEMMA Iterates ==
  ASSUME NEW S, NEW n \in Nat, NEW g \in Steps(n, S), NEW x \in S
  PROVE  \E f : Iterated(f, n, S, g, x)
<1> DEFINE Good == {m \in Nat : m <= n =>
                      \E f \in [0 .. m -> S] : f[0] = x /\ \A i \in 1 .. m : f[i] = g[i][f[i - 1]]}
<1>1. 0 \in Good
  <2> DEFINE f0 == [i \in 0 .. 0 |-> x]
  <2>1. f0 \in [0 .. 0 -> S] /\ f0[0] = x /\ \A i \in 1 .. 0 : f0[i] = g[i][f0[i - 1]]
    OBVIOUS
  <2> QED
    BY <2>1
<1>2. ASSUME NEW m \in Nat, m \in Good, m + 1 <= n PROVE m + 1 \in Good
  <2>1. PICK f \in [0 .. m -> S] : f[0] = x /\ \A i \in 1 .. m : f[i] = g[i][f[i - 1]]
    BY <1>2
  <2>2. g[m + 1] \in [S -> S] /\ f[m] \in S
    BY <1>2 DEF Steps
  <2> DEFINE h == [i \in 0 .. m + 1 |-> IF i = m + 1 THEN g[m + 1][f[m]] ELSE f[i]]
  <2>3. h \in [0 .. m + 1 -> S] /\ h[0] = x
    BY <2>1, <2>2
  <2>4. ASSUME NEW i \in 1 .. m + 1 PROVE h[i] = g[i][h[i - 1]]
    <3>1. CASE i = m + 1
      <4>1. h[i] = g[i][f[m]] /\ h[i - 1] = f[m]
        BY <3>1
      <4> QED
        BY <4>1
    <3>2. CASE i \in 1 .. m
      <4>1. h[i] = f[i] /\ h[i - 1] = f[i - 1]
        BY <3>2
      <4> QED
        BY <2>1, <3>2, <4>1
    <3> QED
      BY <3>1, <3>2
  <2> HIDE DEF h
  <2>5. m + 1 \in Nat
    OBVIOUS
  <2>6. \E f1 \in [0 .. m + 1 -> S] : f1[0] = x /\ \A i \in 1 .. m + 1 : f1[i] = g[i][f1[i - 1]]
    BY <2>3, <2>4
  <2> QED
    BY <2>5, <2>6
<1>3. ASSUME NEW m \in Nat, m \in Good, ~(m + 1 <= n) PROVE m + 1 \in Good
  BY <1>3
<1>4. n \in Good
  <2> HIDE DEF Good
  <2> QED
    BY <1>1, <1>2, <1>3, Induction
<1> QED
  BY <1>4 DEF Iterated

-----------------------------------------------------------------------------
(* The states of the kernel *)

Lists == {"ready", "delayed", "overflow", "suspended"}

Kernels ==
  [cur : Tasks, list : [Tasks -> Lists], wake : [Tasks -> Ticks], ev : [Events -> Seq(Tasks)],
   pend : Seq(Tasks), tick : Ticks, over : Nat, next : Ticks, pended : Nat, susp : Nat,
   yield : BOOLEAN, pendsv : BOOLEAN]

\* What changes in the lists of the tasks and in the time leaves the rest alone.
Same(x, y) == /\ x.cur = y.cur /\ x.susp = y.susp /\ x.pendsv = y.pendsv
              /\ x.yield = y.yield /\ x.pend = y.pend /\ x.pended = y.pended

LEMMA ReadyFacts ==
  ASSUME NEW x \in Kernels, NEW S
  PROVE  LET y == prvAddTaskToReadyList(x, S) IN
         /\ y \in Kernels /\ Same(x, y)
         /\ y.ev = x.ev /\ y.tick = x.tick
         /\ ReadyTasks(y) = ReadyTasks(x) \cup (S \cap Tasks)
<1> DEFINE l == [t \in Tasks |-> IF t \in S THEN "ready" ELSE x.list[t]]
           w == [t \in Tasks |-> IF t \in S THEN 0 ELSE x.wake[t]]
           y == [x EXCEPT !.list = l, !.wake = w]
<1>1. y = prvAddTaskToReadyList(x, S)
  BY DEF prvAddTaskToReadyList
<1>2. l \in [Tasks -> Lists] /\ w \in [Tasks -> Ticks]
  BY SchedulerAssumption DEF Kernels, Lists, Ticks
<1>3. y.list = l
  BY DEF Kernels
<1>4. ReadyTasks(y) = ReadyTasks(x) \cup (S \cap Tasks)
  BY <1>3 DEF ReadyTasks
<1> HIDE DEF l, w
<1>5. y \in Kernels /\ Same(x, y) /\ y.ev = x.ev /\ y.tick = x.tick
  BY <1>2 DEF Kernels, Same
<1> QED
  BY <1>1, <1>4, <1>5

LEMMA SetYield ==
  ASSUME NEW x \in Kernels, NEW b \in BOOLEAN
  PROVE  [x EXCEPT !.yield = b] \in Kernels
BY DEF Kernels

\* Inserting into an event list keeps it a list of tasks.
LEMMA ListInsert ==
  ASSUME NEW s \in Seq(Tasks), NEW t \in Tasks
  PROVE  vListInsert(s, t) \in Seq(Tasks)
<1> DEFINE lower == {i \in DOMAIN s : Priority[s[i]] < Priority[t]}
           at == IF lower = {} THEN Len(s) + 1 ELSE CHOOSE i \in lower : \A j \in lower : i <= j
<1>1. lower \subseteq 1 .. Len(s)
  OBVIOUS
<1>2. at \in 1 .. Len(s) + 1
  <2>1. CASE lower = {}
    BY <2>1
  <2>2. CASE lower # {}
    <3>1. lower \subseteq Nat
      BY <1>1
    <3>2. \E i \in lower : \A j \in lower : i <= j
      <4> HIDE DEF lower
      <4> QED  BY <2>2, <3>1, LeastNumber
    <3>3. at \in lower
      BY <2>2, <3>2
    <3> QED
      BY <1>1, <3>3
  <2> QED
    BY <2>1, <2>2
<1>3. vListInsert(s, t) = SubSeq(s, 1, at - 1) \o <<t>> \o SubSeq(s, at, Len(s))
  BY DEF vListInsert
<1> HIDE DEF at
<1>4. PICK u : u = SubSeq(s, 1, at - 1)
  OBVIOUS
<1>5. PICK v : v = SubSeq(s, at, Len(s))
  OBVIOUS
<1>6. u \in Seq(Tasks)
  BY <1>2, <1>4
<1>7. v \in Seq(Tasks)
  BY <1>2, <1>5
<1>8. u \o <<t>> \in Seq(Tasks)
  BY <1>6
<1>9. vListInsert(s, t) = u \o <<t>> \o v
  BY <1>3, <1>4, <1>5, Zenon
<1>10. PICK w : w = u \o <<t>>
  OBVIOUS
<1>11. w \in Seq(Tasks)
  BY <1>8, <1>10, Zenon
<1>12. w \o v \in Seq(Tasks)
  BY <1>7, <1>11
<1> QED
  BY <1>9, <1>10, <1>12, Zenon

\* So does removing tasks from one.  What uxListRemove keeps of the first i entries:
Kept(n, s, D, kept) ==
  [i \in 0 .. n |->
     IF i = 0 THEN <<>> ELSE IF s[i] \in D THEN kept[i - 1] ELSE Append(kept[i - 1], s[i])]

LEMMA Removing ==
  ASSUME NEW n \in Nat, NEW s \in [1 .. n -> Tasks], NEW D,
         NEW kept, kept = Kept(n, s, D, kept)
  PROVE  kept[n] \in Seq(Tasks)
<1> DEFINE Good == {m \in Nat : m <= n => kept[m] \in Seq(Tasks)}
<1>1. kept[0] = <<>>
  BY DEF Kept
<1>2. 0 \in Good
  <2>1. <<>> \in Seq(Tasks)
    OBVIOUS
  <2>2. kept[0] \in Seq(Tasks)
    BY <1>1, <2>1, Zenon
  <2>3. 0 \in Nat
    OBVIOUS
  <2> QED
    BY <2>2, <2>3, Zenon
<1>3. ASSUME NEW m \in Nat, m \in Good PROVE m + 1 \in Good
  <2> SUFFICES ASSUME m + 1 <= n PROVE kept[m + 1] \in Seq(Tasks)
    OBVIOUS
  <2>1. kept[m] \in Seq(Tasks) /\ s[m + 1] \in Tasks
    BY <1>3
  <2>2. Append(kept[m], s[m + 1]) \in Seq(Tasks)
    BY <2>1
  <2>3. m + 1 \in 0 .. n /\ m + 1 # 0 /\ (m + 1) - 1 = m
    OBVIOUS
  <2>4. kept[m + 1] = IF s[m + 1] \in D THEN kept[m] ELSE Append(kept[m], s[m + 1])
    BY <2>3, Zenon DEF Kept
  <2> QED
    BY <2>1, <2>2, <2>4, Zenon
<1>4. n \in Good
  <2> HIDE DEF Good
  <2> QED  BY <1>2, <1>3, Induction
<1> QED
  BY <1>4

LEMMA RemovingExists ==
  ASSUME NEW n \in Nat, NEW s \in [1 .. n -> Tasks], NEW D
  PROVE  \E kept : kept = Kept(n, s, D, kept)
<1> DEFINE S == Seq(Tasks)
           g == [i \in 1 .. n |-> [q \in S |-> IF s[i] \in D THEN q ELSE Append(q, s[i])]]
<1>1. ASSUME NEW i \in 1 .. n, NEW q \in S
      PROVE  (IF s[i] \in D THEN q ELSE Append(q, s[i])) \in S
  <2>1. s[i] \in Tasks
    OBVIOUS
  <2>2. Append(q, s[i]) \in S
    BY <2>1
  <2> QED
    BY <2>2, Zenon
<1>2. g \in Steps(n, S)
  BY <1>1, Zenon DEF Steps
<1>3. <<>> \in S
  OBVIOUS
<1>4. \A i \in 1 .. n : \A q \in S : g[i][q] = IF s[i] \in D THEN q ELSE Append(q, s[i])
  BY Zenon
<1>5. PICK f : Iterated(f, n, S, g, <<>>)
  <2> HIDE DEF S, g
  <2> QED  BY <1>2, <1>3, Iterates, Zenon
<1>6. \A i \in 1 .. n : i - 1 \in 0 .. n
  OBVIOUS
<1>7. \A i \in 1 .. n : f[i] = IF s[i] \in D THEN f[i - 1] ELSE Append(f[i - 1], s[i])
  <2> HIDE DEF S, g
  <2> QED  BY <1>4, <1>5, <1>6, Zenon DEF Iterated
<1>8. f = [i \in 0 .. n |-> f[i]]
  BY <1>5, Zenon DEF Iterated
<1>9. \A i \in 0 .. n : i # 0 => i \in 1 .. n
  OBVIOUS
<1>10. ASSUME NEW i \in 0 .. n
       PROVE  f[i] = IF i = 0 THEN <<>> ELSE IF s[i] \in D THEN f[i - 1] ELSE Append(f[i - 1], s[i])
  BY <1>5, <1>7, <1>9, Zenon DEF Iterated
<1>11. f = Kept(n, s, D, f)
  BY <1>8, <1>10, Zenon DEF Kept
<1> QED
  BY <1>11, Zenon

LEMMA ListRemove ==
  ASSUME NEW s \in Seq(Tasks), NEW D
  PROVE  uxListRemove(s, D) \in Seq(Tasks)
<1>1. PICK n : n = Len(s)
  OBVIOUS
<1> DEFINE kept == CHOOSE f : f = Kept(n, s, D, f)
<1>2. uxListRemove(s, D) = kept[n]
  BY <1>1, Zenon DEF uxListRemove, Kept
<1>3. n \in Nat /\ s \in [1 .. n -> Tasks]
  BY <1>1
<1>4. \E f : f = Kept(n, s, D, f)
  BY <1>3, RemovingExists, Zenon
<1>5. kept = Kept(n, s, D, kept)
  BY <1>4, Zenon
<1> HIDE DEF kept
<1> QED
  BY <1>2, <1>3, <1>5, Removing, Zenon

LEMMA ResetFacts ==
  ASSUME NEW x \in Kernels
  PROVE  LET y == prvResetNextTaskUnblockTime(x) IN
         /\ y \in Kernels /\ Same(x, y)
         /\ y.ev = x.ev /\ y.tick = x.tick /\ y.list = x.list /\ ReadyTasks(y) = ReadyTasks(x)
<1> DEFINE times == {x.wake[t] : t \in {u \in Tasks : x.list[u] = "delayed"}}
           n == IF times = {} THEN MAX_DELAY ELSE CHOOSE m \in times : \A o \in times : m <= o
           y == [x EXCEPT !.next = n]
<1>1. y = prvResetNextTaskUnblockTime(x)
  BY DEF prvResetNextTaskUnblockTime
<1>2. times \subseteq Ticks /\ times \subseteq Nat
  BY SchedulerAssumption DEF Kernels, Ticks
<1>3. n \in Ticks
  <2> HIDE DEF times
  <2>1. CASE times = {}
    BY <2>1, SchedulerAssumption DEF Ticks
  <2>2. CASE times # {}
    <3>1. \E m \in times : \A o \in times : m <= o
      BY <1>2, <2>2, LeastNumber
    <3> QED
      BY <1>2, <2>2, <3>1
  <2> QED
    BY <2>1, <2>2
<1> HIDE DEF n
<1>4. /\ y \in Kernels /\ Same(x, y) /\ y.ev = x.ev /\ y.tick = x.tick /\ y.list = x.list
  BY <1>3 DEF Kernels, Same
<1>5. ReadyTasks(y) = ReadyTasks(x)
  BY <1>4 DEF ReadyTasks
<1> QED
  BY <1>1, <1>4, <1>5

LEMMA SwitchListsFacts ==
  ASSUME NEW x \in Kernels
  PROVE  LET y == taskSWITCH_DELAYED_LISTS(x) IN
         y \in Kernels /\ Same(x, y) /\ y.tick = x.tick /\ ReadyTasks(y) = ReadyTasks(x)
<1> DEFINE l == [t \in Tasks |-> CASE x.list[t] = "delayed"  -> "overflow"
                                   [] x.list[t] = "overflow" -> "delayed"
                                   [] OTHER                  -> x.list[t]]
           o == (x.over + 1) % MaxOver
           y == [x EXCEPT !.over = o, !.list = l]
<1>1. taskSWITCH_DELAYED_LISTS(x) = prvResetNextTaskUnblockTime(y)
  BY DEF taskSWITCH_DELAYED_LISTS
<1>2. l \in [Tasks -> Lists] /\ \A t \in Tasks : l[t] = "ready" <=> x.list[t] = "ready"
  BY DEF Kernels, Lists
<1>3. o \in Nat
  BY SchedulerAssumption DEF Kernels
<1> HIDE DEF l, o
<1>4. y \in Kernels /\ Same(x, y) /\ y.tick = x.tick /\ y.list = l
  BY <1>2, <1>3 DEF Kernels, Same
<1>5. ReadyTasks(y) = ReadyTasks(x)
  BY <1>2, <1>4 DEF ReadyTasks
<1> HIDE DEF y
<1> QED
  BY <1>1, <1>4, <1>5, ResetFacts DEF Same

\* A tick: nothing that is ready stops being ready.
LEMMA TickFacts ==
  ASSUME NEW x \in Kernels
  PROVE  LET y == UnblockExpired(x) IN
         y \in Kernels /\ Same(x, y) /\ ReadyTasks(x) \subseteq ReadyTasks(y)
<1> DEFINE now == (x.tick + 1) % (MAX_DELAY + 1)
           ticked == IF now = 0 THEN taskSWITCH_DELAYED_LISTS([x EXCEPT !.tick = 0])
                                ELSE [x EXCEPT !.tick = now]
           due == {t \in Tasks : ticked.list[t] = "delayed" /\ ticked.wake[t] <= now}
           readied == prvAddTaskToReadyList(ticked, due)
           left == [e \in Events |-> uxListRemove(readied.ev[e], due)]
           unblocked == [readied EXCEPT !.ev = left]
<1>1. UnblockExpired(x) = IF now < ticked.next THEN ticked
                          ELSE prvResetNextTaskUnblockTime(unblocked)
  BY DEF UnblockExpired
<1>2. now \in Ticks
  BY SchedulerAssumption DEF Kernels, Ticks
<1>3. ticked \in Kernels /\ Same(x, ticked) /\ ReadyTasks(ticked) = ReadyTasks(x)
  <2>1. ASSUME NEW u \in Ticks
        PROVE  LET z == [x EXCEPT !.tick = u] IN
               z \in Kernels /\ Same(x, z) /\ ReadyTasks(z) = ReadyTasks(x)
    BY DEF Kernels, Same, ReadyTasks
  <2>2. 0 \in Ticks
    BY SchedulerAssumption DEF Ticks
  <2>3. CASE now = 0
    <3>1. PICK z : z = [x EXCEPT !.tick = 0]
      OBVIOUS
    <3>2. z \in Kernels /\ Same(x, z) /\ ReadyTasks(z) = ReadyTasks(x)
      BY <2>1, <2>2, <3>1
    <3>3. ticked = taskSWITCH_DELAYED_LISTS(z)
      BY <2>3, <3>1
    <3> QED
      BY <3>2, <3>3, SwitchListsFacts DEF Same
  <2>4. CASE now # 0
    BY <1>2, <2>1, <2>4
  <2> QED
    BY <2>3, <2>4
<1> HIDE DEF ticked
<1>4. readied \in Kernels /\ Same(x, readied) /\ ReadyTasks(x) \subseteq ReadyTasks(readied)
  BY <1>3, ReadyFacts DEF Same
<1> HIDE DEF readied
<1>5. left \in [Events -> Seq(Tasks)]
  BY <1>4, ListRemove DEF Kernels
<1> HIDE DEF left
<1>6. unblocked \in Kernels /\ Same(x, unblocked) /\ unblocked.list = readied.list
  BY <1>4, <1>5 DEF Kernels, Same
<1>7. ReadyTasks(x) \subseteq ReadyTasks(unblocked)
  BY <1>4, <1>6 DEF ReadyTasks
<1> HIDE DEF unblocked
<1>8. PICK z : z = prvResetNextTaskUnblockTime(unblocked)
  OBVIOUS
<1>9. z \in Kernels /\ Same(x, z) /\ ReadyTasks(x) \subseteq ReadyTasks(z)
  BY <1>6, <1>7, <1>8, ResetFacts DEF Same
<1>10. UnblockExpired(x) = ticked \/ UnblockExpired(x) = z
  BY <1>1, <1>8
<1> QED
  BY <1>3, <1>9, <1>10

\* No ready task has a higher priority than the current one.
NoneHigher(x) == \A u \in ReadyTasks(x) : Priority[u] <= Priority[x.cur]

\* After an event or a tick: a switch is asked for, or there is no need for one.
Settled(x) == x.yield \/ NoneHigher(x)

\* One of the ticks that are made up for.
CaughtUp(x) ==
  LET ticked == UnblockExpired(x) IN [ticked EXCEPT !.yield = SwitchRequired(x, ticked)]

LEMMA CaughtUpFacts ==
  ASSUME NEW x \in Kernels
  PROVE  LET y == CaughtUp(x) IN
         /\ y \in Kernels /\ ReadyTasks(x) \subseteq ReadyTasks(y)
         /\ y.cur = x.cur /\ y.susp = x.susp /\ y.pendsv = x.pendsv /\ y.pend = x.pend
         /\ Settled(x) => Settled(y)
<1>1. PICK z : z = UnblockExpired(x)
  OBVIOUS
<1>2. PICK b : b = SwitchRequired(x, z)
  OBVIOUS
<1>3. b \in BOOLEAN
  BY <1>2, Zenon DEF SwitchRequired
<1>4. z \in Kernels /\ Same(x, z) /\ ReadyTasks(x) \subseteq ReadyTasks(z)
  BY <1>1, TickFacts
<1>5. CaughtUp(x) = [z EXCEPT !.yield = b]
  BY <1>1, <1>2, Zenon DEF CaughtUp
<1> DEFINE y == [z EXCEPT !.yield = b]
<1>6. y \in Kernels
  BY <1>3, <1>4, SetYield
<1>7. /\ y.cur = z.cur /\ y.susp = z.susp /\ y.pendsv = z.pendsv /\ y.pend = z.pend
      /\ y.list = z.list /\ y.yield = b
  BY <1>4 DEF Kernels
<1>8. ReadyTasks(y) = ReadyTasks(z)
  BY <1>7 DEF ReadyTasks
<1> HIDE DEF y
<1>9. ASSUME Settled(x), ~b PROVE NoneHigher(y)
  <2>1. /\ ~x.yield
        /\ \A t \in ReadyTasks(z) \ ReadyTasks(x) : ~(Priority[t] >= Priority[x.cur])
    BY <1>2, <1>9, Zenon DEF SwitchRequired
  <2>2. \A t \in ReadyTasks(x) : Priority[t] <= Priority[x.cur]
    BY <1>9, <2>1, Zenon DEF Settled, NoneHigher
  <2>3. x.cur = z.cur /\ x.cur \in Tasks
    BY <1>4 DEF Same, Kernels
  <2>4. ASSUME NEW t \in ReadyTasks(z) PROVE Priority[t] <= Priority[x.cur]
    <3>1. Priority[t] \in Nat /\ Priority[x.cur] \in Nat
      BY <2>3, SchedulerAssumption DEF ReadyTasks
    <3> QED
      BY <2>1, <2>2, <3>1
  <2> QED
    BY <1>7, <1>8, <2>3, <2>4 DEF NoneHigher
<1>10. Settled(x) => Settled(y)
  BY <1>7, <1>9, Zenon DEF Settled
<1> QED
  BY <1>4, <1>5, <1>6, <1>7, <1>8, <1>10 DEF Same, y

\* The recursive function of PendedTicks, and what it gives.
Caught(n, x, f) == [i \in 0 .. n |-> IF i = 0 THEN x ELSE CaughtUp(f[i - 1])]

LEMMA CaughtExists ==
  ASSUME NEW n \in Nat, NEW x \in Kernels
  PROVE  \E f : f = Caught(n, x, f)
<1> DEFINE g == [i \in 1 .. n |-> [y \in Kernels |-> CaughtUp(y)]]
<1>1. g \in Steps(n, Kernels)
  BY CaughtUpFacts, Zenon DEF Steps
<1>2. \A i \in 1 .. n : \A y \in Kernels : g[i][y] = CaughtUp(y)
  BY Zenon
<1> HIDE DEF g
<1>3. PICK f : Iterated(f, n, Kernels, g, x)
  BY <1>1, Iterates, Zenon
<1>4. \A i \in 1 .. n : i - 1 \in 0 .. n
  OBVIOUS
<1>5. \A i \in 0 .. n : i # 0 => i \in 1 .. n
  OBVIOUS
<1>6. ASSUME NEW i \in 0 .. n PROVE f[i] = IF i = 0 THEN x ELSE CaughtUp(f[i - 1])
  BY <1>2, <1>3, <1>4, <1>5, Zenon DEF Iterated
<1>7. f = [i \in 0 .. n |-> f[i]]
  BY <1>3, Zenon DEF Iterated
<1>8. f = Caught(n, x, f)
  BY <1>6, <1>7, Zenon DEF Caught
<1> QED
  BY <1>8, Zenon

\* All ticks made up for.
LEMMA CaughtAll ==
  ASSUME NEW n \in Nat, NEW x \in Kernels, NEW f, f = Caught(n, x, f)
  PROVE  /\ f[n] \in Kernels /\ ReadyTasks(x) \subseteq ReadyTasks(f[n])
         /\ f[n].cur = x.cur /\ f[n].susp = x.susp /\ f[n].pendsv = x.pendsv /\ f[n].pend = x.pend
         /\ Settled(x) => Settled(f[n])
<1> DEFINE P(y) == /\ y \in Kernels /\ ReadyTasks(x) \subseteq ReadyTasks(y)
                   /\ y.cur = x.cur /\ y.susp = x.susp /\ y.pendsv = x.pendsv /\ y.pend = x.pend
                   /\ Settled(x) => Settled(y)
           Good == {m \in Nat : m <= n => P(f[m])}
<1>1. f[0] = x
  BY DEF Caught
<1>2. 0 \in Good
  BY <1>1
<1>3. ASSUME NEW m \in Nat, m \in Good PROVE m + 1 \in Good
  <2> SUFFICES ASSUME m + 1 <= n PROVE P(f[m + 1])
    OBVIOUS
  <2>1. P(f[m])
    BY <1>3
  <2>2. m + 1 \in 0 .. n /\ m + 1 # 0 /\ (m + 1) - 1 = m
    OBVIOUS
  <2>3. f[m + 1] = CaughtUp(f[m])
    BY <2>2, Zenon DEF Caught
  <2> QED
    BY <2>1, <2>3, CaughtUpFacts
<1>4. n \in Good
  <2> HIDE DEF Good
  <2> QED  BY <1>2, <1>3, Induction
<1> QED
  BY <1>4

LEMMA PendedTicksFacts ==
  ASSUME NEW x \in Kernels
  PROVE  LET y == PendedTicks(x) IN
         /\ y \in Kernels /\ ReadyTasks(x) \subseteq ReadyTasks(y)
         /\ y.cur = x.cur /\ y.susp = x.susp /\ y.pendsv = x.pendsv /\ y.pend = x.pend
         /\ Settled(x) => Settled(y)
<1>1. PICK n : n = x.pended
  OBVIOUS
<1>2. PICK x0 : x0 = [x EXCEPT !.pended = 0]
  OBVIOUS
<1> DEFINE f == CHOOSE h : h = Caught(n, x0, h)
<1>3. PendedTicks(x) = f[n]
  BY <1>1, <1>2, Zenon DEF PendedTicks, Caught, CaughtUp
<1>4. n \in Nat /\ x0 \in Kernels /\ x0.list = x.list
      /\ x0.cur = x.cur /\ x0.susp = x.susp /\ x0.pendsv = x.pendsv /\ x0.pend = x.pend
      /\ x0.yield = x.yield
  BY <1>1, <1>2 DEF Kernels
<1>5. ReadyTasks(x0) = ReadyTasks(x) /\ (Settled(x) => Settled(x0))
  BY <1>4 DEF ReadyTasks, Settled, NoneHigher
<1>6. f = Caught(n, x0, f)
  <2>1. \E h : h = Caught(n, x0, h)
    BY <1>4, CaughtExists, Zenon
  <2> QED
    BY <2>1, Zenon
<1> HIDE DEF f
<1> QED
  BY <1>3, <1>4, <1>5, <1>6, CaughtAll

\* A task is taken from an event list.
LEMMA RemoveFacts ==
  ASSUME NEW x \in Kernels, NEW e \in Events, x.ev[e] # <<>>
  PROVE  LET y == xTaskRemoveFromEventList(x, e) IN
         /\ y \in Kernels /\ ReadyTasks(x) \subseteq ReadyTasks(y)
         /\ y.cur = x.cur /\ y.susp = x.susp /\ y.pendsv = x.pendsv
         /\ Settled(x) => Settled(y)
         /\ y.yield => x.yield \/ Higher(x, Head(x.ev[e]))
<1>1. PICK t : t = Head(x.ev[e])
  OBVIOUS
<1>2. PICK b : b = (x.yield \/ Higher(x, t))
  OBVIOUS
<1>3. PICK q : q = [x.ev EXCEPT ![e] = Tail(@)]
  OBVIOUS
<1>4. x.ev[e] \in Seq(Tasks) /\ t \in Tasks /\ Tail(x.ev[e]) \in Seq(Tasks)
  BY <1>1 DEF Kernels
<1>5. q \in [Events -> Seq(Tasks)]
  BY <1>3, <1>4 DEF Kernels
<1>6. b \in BOOLEAN
  BY <1>2, Zenon
<1> DEFINE r == [x EXCEPT !.ev = q, !.yield = b]
<1>7. r = [x EXCEPT !.ev[e] = Tail(@), !.yield = @ \/ Higher(x, t)]
  <2>1. r = [x EXCEPT !.ev = [x.ev EXCEPT ![e] = Tail(@)], !.yield = (x.yield \/ Higher(x, t))]
    BY <1>2, <1>3, Zenon
  <2> QED
    BY <2>1, Zenon
<1>8. r \in Kernels
  BY <1>5, <1>6 DEF Kernels
<1>9. /\ r.cur = x.cur /\ r.susp = x.susp /\ r.pendsv = x.pendsv /\ r.pend = x.pend
      /\ r.list = x.list /\ r.yield = b
  BY DEF Kernels
<1>10. ReadyTasks(r) = ReadyTasks(x)
  BY <1>9 DEF ReadyTasks
<1>11. xTaskRemoveFromEventList(x, e) = IF x.susp = 0 THEN prvAddTaskToReadyList(r, {t})
                                       ELSE [r EXCEPT !.pend = Append(@, t)]
  BY <1>1, <1>7, Zenon DEF xTaskRemoveFromEventList
<1> HIDE DEF r
<1>12. ASSUME NEW y, ReadyTasks(y) \subseteq ReadyTasks(x) \cup {t},
              y.cur = x.cur, y.yield = b, Settled(x)
       PROVE  Settled(y)
  <2>1. CASE b
    BY <1>12, <2>1 DEF Settled
  <2>2. CASE ~b
    <3>1. ~x.yield /\ ~Higher(x, t)
      BY <1>2, <2>2, Zenon
    <3>2. \A u \in ReadyTasks(x) : Priority[u] <= Priority[x.cur]
      BY <1>12, <3>1 DEF Settled, NoneHigher
    <3>3. Priority[t] <= Priority[x.cur]
      BY <1>4, <3>1, SchedulerAssumption DEF Higher, Kernels
    <3> QED
      BY <1>12, <3>2, <3>3 DEF Settled, NoneHigher
  <2> QED
    BY <1>6, <2>1, <2>2
<1>13. CASE x.susp = 0
  <2>1. PICK y : y = prvAddTaskToReadyList(r, {t})
    OBVIOUS
  <2>2. /\ y \in Kernels /\ Same(r, y) /\ ReadyTasks(y) = ReadyTasks(r) \cup ({t} \cap Tasks)
    BY <1>8, <2>1, ReadyFacts
  <2>3. Settled(x) => Settled(y)
    BY <1>9, <1>10, <1>12, <2>2 DEF Same
  <2>4. y.yield = b /\ xTaskRemoveFromEventList(x, e) = y
    BY <1>9, <1>11, <1>13, <2>1, <2>2 DEF Same
  <2>5. y.yield => x.yield \/ Higher(x, Head(x.ev[e]))
    BY <1>1, <1>2, <2>4, Zenon
  <2> QED
    BY <1>9, <1>10, <2>2, <2>3, <2>4, <2>5 DEF Same
<1>14. CASE x.susp # 0
  <2>1. PICK y : y = [r EXCEPT !.pend = Append(@, t)]
    OBVIOUS
  <2>2. Append(r.pend, t) \in Seq(Tasks)
    BY <1>4, <1>8 DEF Kernels
  <2>3. y \in Kernels
    BY <1>8, <2>1, <2>2 DEF Kernels
  <2>4. /\ y.cur = r.cur /\ y.susp = r.susp /\ y.pendsv = r.pendsv
        /\ y.list = r.list /\ y.yield = r.yield
    BY <1>8, <2>1 DEF Kernels
  <2>5. ReadyTasks(y) = ReadyTasks(r)
    BY <2>4 DEF ReadyTasks
  <2>6. Settled(x) => Settled(y)
    BY <1>9, <1>10, <1>12, <2>4, <2>5
  <2>7. y.yield = b /\ xTaskRemoveFromEventList(x, e) = y
    BY <1>9, <1>11, <1>14, <2>1, <2>4
  <2>8. y.yield => x.yield \/ Higher(x, Head(x.ev[e]))
    BY <1>1, <1>2, <2>7, Zenon
  <2> QED
    BY <1>9, <1>10, <2>3, <2>4, <2>5, <2>6, <2>7, <2>8
<1> QED
  BY <1>13, <1>14

\* A switch is requested.
LEMMA YieldFacts ==
  ASSUME NEW x \in Kernels
  PROVE  LET y == portYIELD(x) IN
         /\ y \in Kernels /\ y.pendsv = TRUE /\ ReadyTasks(y) = ReadyTasks(x)
         /\ y.cur = x.cur /\ y.susp = x.susp /\ y.yield = x.yield
BY DEF portYIELD, Kernels, ReadyTasks

\* A task is woken while the scheduler may run.
LEMMA WakeFacts ==
  ASSUME NEW x \in Kernels, NEW e \in Events
  PROVE  LET y == Wake(x, e) IN
         /\ y \in Kernels /\ ReadyTasks(x) \subseteq ReadyTasks(y)
         /\ y.cur = x.cur /\ y.susp = x.susp
         /\ x.pendsv \/ Settled(x) => y.pendsv \/ Settled(y)
         /\ (x.yield => x.pendsv) => (y.yield => y.pendsv)
         /\ x.pendsv => y.pendsv
<1>1. CASE x.ev[e] = <<>>
  BY <1>1 DEF Wake
<1>2. CASE x.ev[e] # <<>>
  <2>1. PICK w : w = xTaskRemoveFromEventList(x, e)
    OBVIOUS
  <2>2. /\ w \in Kernels /\ ReadyTasks(x) \subseteq ReadyTasks(w)
        /\ w.cur = x.cur /\ w.susp = x.susp /\ w.pendsv = x.pendsv
        /\ Settled(x) => Settled(w)
        /\ w.yield => x.yield \/ Higher(x, Head(x.ev[e]))
    BY <1>2, <2>1, RemoveFacts
  <2>3. CASE Higher(x, Head(x.ev[e]))
    <3>1. Wake(x, e) = portYIELD(w)
      BY <1>2, <2>1, <2>3, Zenon DEF Wake
    <3>2. LET y == portYIELD(w) IN
          /\ y \in Kernels /\ y.pendsv = TRUE /\ ReadyTasks(y) = ReadyTasks(w)
          /\ y.cur = w.cur /\ y.susp = w.susp
      BY <2>2, YieldFacts
    <3> QED
      BY <2>2, <3>1, <3>2
  <2>4. CASE ~Higher(x, Head(x.ev[e]))
    <3>1. Wake(x, e) = w
      BY <1>2, <2>1, <2>4, Zenon DEF Wake
    <3> QED
      BY <2>2, <2>4, <3>1
  <2> QED
    BY <2>3, <2>4
<1> QED
  BY <1>1, <1>2

\* prvUnlockQueue: the recursive function of UnlockWakes, and what it gives.
WokenOne(x, e) == IF x.ev[e] = <<>> THEN x ELSE xTaskRemoveFromEventList(x, e)

Woken(n, x, e, f) ==
  [i \in 0 .. n |->
     IF i = 0 \/ f[i - 1].ev[e] = <<>> THEN IF i = 0 THEN x ELSE f[i - 1]
     ELSE xTaskRemoveFromEventList(f[i - 1], e)]

LEMMA WokenOneFacts ==
  ASSUME NEW x \in Kernels, NEW e \in Events
  PROVE  LET y == WokenOne(x, e) IN
         /\ y \in Kernels /\ ReadyTasks(x) \subseteq ReadyTasks(y)
         /\ y.cur = x.cur /\ y.susp = x.susp /\ y.pendsv = x.pendsv
         /\ Settled(x) => Settled(y)
<1>1. CASE x.ev[e] = <<>>
  BY <1>1 DEF WokenOne
<1>2. CASE x.ev[e] # <<>>
  <2>1. WokenOne(x, e) = xTaskRemoveFromEventList(x, e)
    BY <1>2 DEF WokenOne
  <2> QED
    BY <1>2, <2>1, RemoveFacts
<1> QED
  BY <1>1, <1>2

LEMMA WokenExists ==
  ASSUME NEW n \in Nat, NEW x \in Kernels, NEW e \in Events
  PROVE  \E f : f = Woken(n, x, e, f)
<1> DEFINE g == [i \in 1 .. n |-> [y \in Kernels |-> WokenOne(y, e)]]
<1>1. g \in Steps(n, Kernels)
  BY WokenOneFacts, Zenon DEF Steps
<1>2. \A i \in 1 .. n : \A y \in Kernels : g[i][y] = WokenOne(y, e)
  BY Zenon
<1> HIDE DEF g
<1>3. PICK f : Iterated(f, n, Kernels, g, x)
  BY <1>1, Iterates, Zenon
<1>4. \A i \in 1 .. n : i - 1 \in 0 .. n
  OBVIOUS
<1>5. \A i \in 0 .. n : i # 0 => i \in 1 .. n
  OBVIOUS
<1>6. ASSUME NEW i \in 0 .. n
      PROVE  f[i] = IF i = 0 \/ f[i - 1].ev[e] = <<>> THEN IF i = 0 THEN x ELSE f[i - 1]
                    ELSE xTaskRemoveFromEventList(f[i - 1], e)
  <2>1. CASE i = 0
    BY <1>3, <2>1, Zenon DEF Iterated
  <2>2. CASE i # 0
    <3>1. f[i] = WokenOne(f[i - 1], e)
      BY <1>2, <1>3, <1>4, <1>5, <2>2, Zenon DEF Iterated
    <3> QED
      BY <2>2, <3>1, Zenon DEF WokenOne
  <2> QED
    BY <2>1, <2>2
<1>7. f = [i \in 0 .. n |-> f[i]]
  BY <1>3, Zenon DEF Iterated
<1>8. f = Woken(n, x, e, f)
  BY <1>6, <1>7, Zenon DEF Woken
<1> QED
  BY <1>8, Zenon

LEMMA WokenAll ==
  ASSUME NEW n \in Nat, NEW x \in Kernels, NEW e \in Events, NEW f, f = Woken(n, x, e, f)
  PROVE  /\ f[n] \in Kernels /\ ReadyTasks(x) \subseteq ReadyTasks(f[n])
         /\ f[n].cur = x.cur /\ f[n].susp = x.susp /\ f[n].pendsv = x.pendsv
         /\ Settled(x) => Settled(f[n])
<1> DEFINE P(y) == /\ y \in Kernels /\ ReadyTasks(x) \subseteq ReadyTasks(y)
                   /\ y.cur = x.cur /\ y.susp = x.susp /\ y.pendsv = x.pendsv
                   /\ Settled(x) => Settled(y)
           Good == {m \in Nat : m <= n => P(f[m])}
<1>1. f[0] = x
  BY DEF Woken
<1>2. 0 \in Good
  BY <1>1
<1>3. ASSUME NEW m \in Nat, m \in Good PROVE m + 1 \in Good
  <2> SUFFICES ASSUME m + 1 <= n PROVE P(f[m + 1])
    OBVIOUS
  <2>1. P(f[m])
    BY <1>3
  <2>2. m + 1 \in 0 .. n /\ m + 1 # 0 /\ (m + 1) - 1 = m
    OBVIOUS
  <2>3. f[m + 1] = WokenOne(f[m], e)
    BY <2>2, Zenon DEF Woken, WokenOne
  <2> QED
    BY <2>1, <2>3, WokenOneFacts
<1>4. n \in Good
  <2> HIDE DEF Good
  <2> QED  BY <1>2, <1>3, Induction
<1> QED
  BY <1>4

LEMMA UnlockFacts ==
  ASSUME NEW x \in Kernels, NEW e \in Events, NEW n \in Int
  PROVE  LET y == UnlockWakes(x, e, n) IN
         /\ y \in Kernels /\ ReadyTasks(x) \subseteq ReadyTasks(y)
         /\ y.cur = x.cur /\ y.susp = x.susp /\ y.pendsv = x.pendsv
         /\ Settled(x) => Settled(y)
<1> DEFINE f == CHOOSE h : h = Woken(n, x, e, h)
<1>1. UnlockWakes(x, e, n) = IF n > 0 THEN f[n] ELSE x
  BY Zenon DEF UnlockWakes, Woken
<1>2. CASE n > 0
  <2>1. n \in Nat
    BY <1>2
  <2>2. \E h : h = Woken(n, x, e, h)
    BY <2>1, WokenExists, Zenon
  <2>3. f = Woken(n, x, e, f)
    BY <2>2, Zenon
  <2> HIDE DEF f
  <2>4. UnlockWakes(x, e, n) = f[n]
    BY <1>1, <1>2
  <2> QED
    BY <2>1, <2>3, <2>4, WokenAll
<1>3. CASE ~(n > 0)
  BY <1>1, <1>3
<1> QED
  BY <1>2, <1>3

\* The current task is put into a list of waiting tasks.
LEMMA DelayFacts ==
  ASSUME NEW x \in Kernels, NEW n \in Ticks, NEW b
  PROVE  LET y == prvAddCurrentTaskToDelayedList(x, n, b) IN
         /\ y \in Kernels /\ ReadyTasks(y) = ReadyTasks(x) \ {x.cur}
         /\ y.cur = x.cur /\ y.susp = x.susp /\ y.pendsv = x.pendsv /\ y.yield = x.yield
<1> DEFINE w == (x.tick + n) % (MAX_DELAY + 1)
<1>1. w \in Ticks
  BY SchedulerAssumption DEF Kernels, Ticks
<1> DEFINE L(l) == [x.list EXCEPT ![x.cur] = l]
           V == [x.wake EXCEPT ![x.cur] = w]
           m == IF w < x.next THEN w ELSE x.next
           y == prvAddCurrentTaskToDelayedList(x, n, b)
<1>2. \/ y = [x EXCEPT !.list = L("suspended")]
      \/ y = [x EXCEPT !.list = L("overflow"), !.wake = V]
      \/ y = [x EXCEPT !.list = L("delayed"), !.wake = V, !.next = m]
  BY DEF prvAddCurrentTaskToDelayedList
<1>3. V \in [Tasks -> Ticks] /\ m \in Ticks
  BY <1>1 DEF Kernels
<1>4. \A l \in {"suspended", "overflow", "delayed"} :
        L(l) \in [Tasks -> Lists] /\ {t \in Tasks : L(l)[t] = "ready"} = ReadyTasks(x) \ {x.cur}
  BY DEF Kernels, Lists, ReadyTasks
<1> HIDE DEF V, m, y, L
<1>5. ASSUME NEW l \in {"suspended", "overflow", "delayed"}, y = [x EXCEPT !.list = L(l)]
             \/ y = [x EXCEPT !.list = L(l), !.wake = V]
             \/ y = [x EXCEPT !.list = L(l), !.wake = V, !.next = m]
      PROVE  /\ y \in Kernels /\ y.list = L(l)
             /\ y.cur = x.cur /\ y.susp = x.susp /\ y.pendsv = x.pendsv /\ y.yield = x.yield
  <2>1. L(l) \in [Tasks -> Lists]
    BY <1>4
  <2>2. y = [x EXCEPT !.list = L(l)]
        => /\ y \in Kernels /\ y.list = L(l)
           /\ y.cur = x.cur /\ y.susp = x.susp /\ y.pendsv = x.pendsv /\ y.yield = x.yield
    BY <2>1 DEF Kernels
  <2>3. y = [x EXCEPT !.list = L(l), !.wake = V]
        => /\ y \in Kernels /\ y.list = L(l)
           /\ y.cur = x.cur /\ y.susp = x.susp /\ y.pendsv = x.pendsv /\ y.yield = x.yield
    BY <1>3, <2>1 DEF Kernels
  <2>4. y = [x EXCEPT !.list = L(l), !.wake = V, !.next = m]
        => /\ y \in Kernels /\ y.list = L(l)
           /\ y.cur = x.cur /\ y.susp = x.susp /\ y.pendsv = x.pendsv /\ y.yield = x.yield
    BY <1>3, <2>1 DEF Kernels
  <2> QED
    BY <1>5, <2>2, <2>3, <2>4
<1>6. PICK l \in {"suspended", "overflow", "delayed"} :
        \/ y = [x EXCEPT !.list = L(l)]
        \/ y = [x EXCEPT !.list = L(l), !.wake = V]
        \/ y = [x EXCEPT !.list = L(l), !.wake = V, !.next = m]
  BY <1>2, Zenon
<1>7. /\ y \in Kernels /\ y.list = L(l)
      /\ y.cur = x.cur /\ y.susp = x.susp /\ y.pendsv = x.pendsv /\ y.yield = x.yield
  BY <1>5, <1>6, Zenon
<1>8. ReadyTasks(y) = ReadyTasks(x) \ {x.cur}
  BY <1>4, <1>7, Zenon DEF ReadyTasks
<1> QED
  BY <1>7, <1>8 DEF y

\* xTaskResumeAll: afterwards a switch is on its way if one is needed.
LEMMA ResumeFacts ==
  ASSUME NEW x \in Kernels, Settled(x)
  PROVE  LET y == xTaskResumeAll(x) IN
         /\ y \in Kernels /\ ReadyTasks(x) \subseteq ReadyTasks(y)
         /\ y.cur = x.cur /\ y.susp = 0 /\ Settled(y) /\ (y.yield => y.pendsv)
<1> DEFINE W == {x.pend[i] : i \in DOMAIN x.pend}
<1>1. PICK a : a = prvAddTaskToReadyList(x, W)
  OBVIOUS
<1>2. PICK b : b = (a.yield \/ \E t \in W : Priority[t] >= Priority[x.cur])
  OBVIOUS
<1>3. PICK r : r = [a EXCEPT !.susp = 0, !.pend = <<>>, !.yield = b]
  OBVIOUS
<1>4. PICK c : c = IF W = {} THEN r ELSE prvResetNextTaskUnblockTime(r)
  OBVIOUS
<1>5. PICK z : z = PendedTicks(c)
  OBVIOUS
<1>6. xTaskResumeAll(x) = IF z.yield THEN portYIELD(z) ELSE z
  <2>1. r = [prvAddTaskToReadyList(x, W) EXCEPT !.susp = 0, !.pend = <<>>,
                 !.yield = @ \/ \E t \in W : Priority[t] >= Priority[x.cur]]
    BY <1>1, <1>2, <1>3, Zenon
  <2> QED
    BY <1>4, <1>5, <2>1, Zenon DEF xTaskResumeAll
<1>7. W \subseteq Tasks
  BY DEF Kernels
<1> HIDE DEF W
<1>8. a \in Kernels /\ Same(x, a) /\ ReadyTasks(a) = ReadyTasks(x) \cup (W \cap Tasks)
  BY <1>1, ReadyFacts
<1>9. b \in BOOLEAN
  BY <1>2, Zenon
<1>10. r \in Kernels
  <2>1. PICK q : q = <<>>
    OBVIOUS
  <2>2. q \in Seq(Tasks)
    BY <2>1
  <2>3. r = [a EXCEPT !.susp = 0, !.pend = q, !.yield = b]
    BY <1>3, <2>1
  <2> QED
    BY <1>8, <1>9, <2>2, <2>3 DEF Kernels
<1>11. r.cur = x.cur /\ r.susp = 0 /\ r.pendsv = x.pendsv /\ r.yield = b /\ r.list = a.list
  BY <1>3, <1>8 DEF Kernels, Same
<1>12. ReadyTasks(r) = ReadyTasks(x) \cup W
  BY <1>7, <1>8, <1>11 DEF ReadyTasks
<1>13. Settled(r)
  <2> SUFFICES ASSUME ~b PROVE NoneHigher(r)
    BY <1>9, <1>11 DEF Settled
  <2>1. ~a.yield /\ \A t \in W : ~(Priority[t] >= Priority[x.cur])
    BY <1>2, Zenon
  <2>2. x.cur \in Tasks /\ a.yield = x.yield
    BY <1>8 DEF Kernels, Same
  <2>3. \A u \in ReadyTasks(x) : Priority[u] <= Priority[x.cur]
    BY <2>1, <2>2 DEF Settled, NoneHigher
  <2>4. \A t \in W : Priority[t] <= Priority[x.cur]
    BY <1>7, <2>1, <2>2, SchedulerAssumption
  <2> QED
    BY <1>11, <1>12, <2>3, <2>4 DEF NoneHigher
<1>14. c \in Kernels /\ ReadyTasks(c) = ReadyTasks(r) /\ c.cur = x.cur /\ c.susp = 0 /\ Settled(c)
  <2>1. CASE W = {}
    BY <1>4, <1>10, <1>11, <1>13, <2>1
  <2>2. CASE W # {}
    <3>1. c = prvResetNextTaskUnblockTime(r)
      BY <1>4, <2>2
    <3>2. c \in Kernels /\ Same(r, c) /\ ReadyTasks(c) = ReadyTasks(r)
      BY <1>10, <3>1, ResetFacts
    <3> QED
      BY <1>11, <1>13, <3>2 DEF Same, Settled, NoneHigher
  <2> QED
    BY <2>1, <2>2
<1>15. z \in Kernels /\ ReadyTasks(x) \subseteq ReadyTasks(z) /\ z.cur = x.cur /\ z.susp = 0
       /\ Settled(z)
  BY <1>5, <1>12, <1>14, PendedTicksFacts
<1>16. CASE z.yield
  <2>1. xTaskResumeAll(x) = portYIELD(z)
    BY <1>6, <1>16, Zenon
  <2>2. LET y == portYIELD(z) IN
        /\ y \in Kernels /\ y.pendsv = TRUE /\ ReadyTasks(y) = ReadyTasks(z)
        /\ y.cur = z.cur /\ y.susp = z.susp /\ y.yield = z.yield
    BY <1>15, YieldFacts
  <2> QED
    BY <1>15, <2>1, <2>2 DEF Settled, NoneHigher
<1>17. CASE ~z.yield
  <2>1. xTaskResumeAll(x) = z
    BY <1>6, <1>17, Zenon
  <2> QED
    BY <1>15, <1>17, <2>1
<1> QED
  BY <1>16, <1>17

\* vTaskPlaceOnEventList
LEMMA PlaceFacts ==
  ASSUME NEW x \in Kernels, NEW e \in Events, NEW n \in Ticks
  PROVE  LET y == vTaskPlaceOnEventList(x, e, n) IN
         /\ y \in Kernels /\ ReadyTasks(y) = ReadyTasks(x) \ {x.cur}
         /\ y.cur = x.cur /\ y.susp = x.susp /\ y.pendsv = x.pendsv /\ y.yield = x.yield
<1>1. PICK q : q = [x.ev EXCEPT ![e] = vListInsert(@, x.cur)]
  OBVIOUS
<1>2. x.ev[e] \in Seq(Tasks) /\ x.cur \in Tasks
  BY DEF Kernels
<1>3. vListInsert(x.ev[e], x.cur) \in Seq(Tasks)
  BY <1>2, ListInsert
<1>4. q \in [Events -> Seq(Tasks)]
  BY <1>1, <1>3 DEF Kernels
<1>5. PICK z : z = [x EXCEPT !.ev = q]
  OBVIOUS
<1>6. vTaskPlaceOnEventList(x, e, n) = prvAddCurrentTaskToDelayedList(z, n, TRUE)
  BY <1>1, <1>5 DEF vTaskPlaceOnEventList
<1>7. z \in Kernels /\ z.list = x.list
      /\ z.cur = x.cur /\ z.susp = x.susp /\ z.pendsv = x.pendsv /\ z.yield = x.yield
  BY <1>4, <1>5 DEF Kernels
<1>8. ReadyTasks(z) = ReadyTasks(x)
  BY <1>7 DEF ReadyTasks
<1> QED
  <2>1. LET y == prvAddCurrentTaskToDelayedList(z, n, TRUE) IN
        /\ y \in Kernels /\ ReadyTasks(y) = ReadyTasks(z) \ {z.cur}
        /\ y.cur = z.cur /\ y.susp = z.susp /\ y.pendsv = z.pendsv /\ y.yield = z.yield
    BY <1>7, DelayFacts, Zenon
  <2> QED
    BY <1>6, <1>7, <1>8, <2>1

\* vTaskSuspendAll
LEMMA SuspendFacts ==
  ASSUME NEW x \in Kernels
  PROVE  LET y == vTaskSuspendAll(x) IN
         /\ y \in Kernels /\ ReadyTasks(y) = ReadyTasks(x) /\ y.susp = x.susp + 1
         /\ y.cur = x.cur /\ y.pendsv = x.pendsv /\ y.yield = x.yield
<1> DEFINE y == [x EXCEPT !.susp = x.susp + 1]
<1>1. x.susp + 1 \in Nat
  BY DEF Kernels
<1>2. /\ y \in Kernels /\ y.list = x.list /\ y.susp = x.susp + 1
      /\ y.cur = x.cur /\ y.pendsv = x.pendsv /\ y.yield = x.yield
  BY <1>1 DEF Kernels
<1>3. ReadyTasks(y) = ReadyTasks(x)
  BY <1>2 DEF ReadyTasks
<1> QED
  BY <1>2, <1>3 DEF vTaskSuspendAll

\* xTaskIncrementTick: after a tick, too, a switch is on its way if one is needed.
LEMMA IncrementFacts ==
  ASSUME NEW x \in Kernels, Settled(x), ~x.pendsv, x.susp = 0 => ~x.yield
  PROVE  LET y == xTaskIncrementTick(x) IN
         /\ y \in Kernels /\ ReadyTasks(x) \subseteq ReadyTasks(y)
         /\ y.cur = x.cur /\ y.susp = x.susp /\ (y.pendsv \/ Settled(y))
         /\ y.susp = 0 => (y.yield => y.pendsv)
<1>1. CASE x.susp > 0
  <2>1. PICK b : b = (x.pendsv \/ x.yield)
    OBVIOUS
  <2>2. b \in BOOLEAN
    BY <2>1, Zenon
  <2>3. PICK y : y = [x EXCEPT !.pended = @ + 1, !.pendsv = b]
    OBVIOUS
  <2>4. xTaskIncrementTick(x) = y
    BY <1>1, <2>1, <2>3, Zenon DEF xTaskIncrementTick
  <2>5. y \in Kernels /\ y.list = x.list /\ y.cur = x.cur /\ y.susp = x.susp /\ y.yield = x.yield
    <3>1. x.pended + 1 \in Nat
      BY DEF Kernels
    <3> QED
      BY <2>2, <2>3, <3>1 DEF Kernels
  <2>6. ReadyTasks(y) = ReadyTasks(x)
    BY <2>5 DEF ReadyTasks
  <2> QED
    BY <1>1, <2>4, <2>5, <2>6 DEF Settled, NoneHigher, Kernels
<1>2. CASE ~(x.susp > 0)
  <2>1. x.susp = 0 /\ ~x.yield
    BY <1>2 DEF Kernels
  <2>2. PICK z : z = UnblockExpired(x)
    OBVIOUS
  <2>3. z \in Kernels /\ Same(x, z) /\ ReadyTasks(x) \subseteq ReadyTasks(z)
    BY <2>2, TickFacts
  <2>4. xTaskIncrementTick(x) = IF SwitchRequired(x, z) THEN portYIELD(z) ELSE z
    BY <1>2, <2>2, Zenon DEF xTaskIncrementTick
  <2>5. CASE SwitchRequired(x, z)
    <3>1. xTaskIncrementTick(x) = portYIELD(z)
      BY <2>4, <2>5, Zenon
    <3> QED
      BY <2>3, <3>1, YieldFacts DEF Same
  <2>6. CASE ~SwitchRequired(x, z)
    <3>1. xTaskIncrementTick(x) = z
      BY <2>4, <2>6, Zenon
    <3>2. \A t \in ReadyTasks(z) \ ReadyTasks(x) : ~(Priority[t] >= Priority[x.cur])
      BY <2>6, Zenon DEF SwitchRequired
    <3>3. z.cur = x.cur /\ x.cur \in Tasks /\ ~z.yield /\ z.susp = x.susp
      BY <2>1, <2>3 DEF Same, Kernels
    <3>4. ASSUME NEW t \in ReadyTasks(z) PROVE Priority[t] <= Priority[x.cur]
      <4>1. Priority[t] \in Nat /\ Priority[x.cur] \in Nat
        BY <3>3, SchedulerAssumption DEF ReadyTasks
      <4>2. t \in ReadyTasks(x) => Priority[t] <= Priority[x.cur]
        BY <2>1 DEF Settled, NoneHigher
      <4> QED
        BY <3>2, <4>1, <4>2
    <3>5. Settled(z)
      BY <3>3, <3>4 DEF Settled, NoneHigher
    <3> QED
      BY <2>3, <3>1, <3>3, <3>5
  <2> QED
    BY <2>5, <2>6
<1> QED
  BY <1>1, <1>2

-----------------------------------------------------------------------------
(* The invariant *)

\* The locations with the scheduler suspended, those from which it is resumed, and the rest.
Locked == {"lock", "check", "place", "block", "unlocktx", "unlockrx", "resume"}
Leaving == {"unlocktx", "unlockrx", "resume"}
Free == {"idle", "try", "suspend", "expired", "slept"}
Reasons == {"blocked", "retry", "expired", "slept"}

QueueCalls == [kind : {"send", "receive"}, item : Items, ticks : Ticks]
Times == [over : Nat, at : Int]

\* What the variables hold, but for the queue itself.
KernelTypes ==
  /\ k \in Kernels /\ cTxLock \in Int /\ cRxLock \in Int
  /\ pc \in [Tasks -> Locked \cup Free] /\ after \in [Tasks -> Reasons \cup {"none"}]
  /\ call \in [Tasks -> QueueCalls \cup {NoCall}]
  /\ xTimeOut \in [Tasks -> Times] /\ ret = [t \in Tasks |-> ret[t]]

\* A task knows what it will do when it resumes the scheduler, and only then.  A call is
\* there while the task is in one, and one that has expired had a time limit.
CallState(l, r, c) ==
  /\ IF l \in Leaving THEN r \in Reasons ELSE r = "none"
  /\ IF l \in {"idle", "slept"} \/ r = "slept" THEN c = NoCall ELSE c \in QueueCalls
  /\ l = "expired" \/ r = "expired" => c.ticks # MAX_DELAY
InCall == \A t \in Tasks : CallState(pc[t], after[t], call[t])

\* Only the current task has suspended the scheduler, and it has done so once.
SuspendedOnce ==
  /\ \A t \in Tasks : pc[t] \in Locked => t = k.cur /\ k.susp = 1
  /\ k.susp = 0 \/ (k.susp = 1 /\ pc[k.cur] \in Locked)

\* A switch is on its way, or asked for while the scheduler is suspended, or there is no
\* need for one.  The current task is ready, unless it is about to wait.
SwitchKnown ==
  /\ k.pendsv \/ Settled(k)
  /\ k.susp = 0 => (k.yield => k.pendsv)
  /\ k.susp = 0 /\ ~k.pendsv => k.cur \in ReadyTasks(k)
  /\ k.susp = 1 => k.cur \in ReadyTasks(k) \/ after[k.cur] \in {"blocked", "slept"}

KernelInv == KernelTypes /\ InCall /\ SuspendedOnce /\ SwitchKnown

-----------------------------------------------------------------------------
(* The invariant holds *)

LEMMA InitKernelInv == Init => KernelInv
<1> SUFFICES ASSUME Init PROVE KernelInv
  OBVIOUS
<1>1. k \in Kernels /\ ReadyTasks(k) = Tasks /\ k.susp = 0 /\ k.pendsv = TRUE
  <2>1. /\ k.cur = Idle /\ k.list = [t \in Tasks |-> "ready"] /\ k.wake = [t \in Tasks |-> 0]
        /\ k.ev = [e \in Events |-> <<>>] /\ k.pend = <<>> /\ k.tick = 0 /\ k.over = 0
        /\ k.next = MAX_DELAY /\ k.pended = 0 /\ k.susp = 0 /\ k.yield = FALSE /\ k.pendsv = TRUE
    BY DEF Init
  <2>2. k.ev \in [Events -> Seq(Tasks)] /\ k.pend \in Seq(Tasks)
    BY <2>1
  <2>3. /\ k.cur \in Tasks /\ k.list \in [Tasks -> Lists] /\ k.wake \in [Tasks -> Ticks]
        /\ k.tick \in Ticks /\ k.over \in Nat /\ k.next \in Ticks /\ k.pended \in Nat
        /\ k.susp \in Nat
    BY <2>1, SchedulerAssumption DEF Lists, Ticks
  <2>4. k.yield \in BOOLEAN /\ k.pendsv \in BOOLEAN
    BY <2>1
  <2>5. k = [cur |-> k.cur, list |-> k.list, wake |-> k.wake, ev |-> k.ev, pend |-> k.pend,
             tick |-> k.tick, over |-> k.over, next |-> k.next, pended |-> k.pended,
             susp |-> k.susp, yield |-> k.yield, pendsv |-> k.pendsv]
    BY DEF Init
  <2>6. k \in Kernels
    BY <2>2, <2>3, <2>4, <2>5, Zenon DEF Kernels
  <2>7. ReadyTasks(k) = Tasks
    BY <2>1 DEF ReadyTasks
  <2> QED
    BY <2>1, <2>6, <2>7
<1>2. KernelTypes
  BY <1>1 DEF Init, KernelTypes, Locked, Free, Reasons, QueueCalls, Times, Unset
<1>3. InCall
  BY DEF Init, InCall, CallState, Leaving
<1>4. SuspendedOnce
  BY <1>1 DEF Init, SuspendedOnce, Locked
<1>5. SwitchKnown
  BY <1>1 DEF SwitchKnown
<1> QED
  BY <1>2, <1>3, <1>4, <1>5 DEF KernelInv

\* What holds while task t runs.
LEMMA Running ==
  ASSUME KernelInv, NEW t \in Tasks, Runs(t)
  PROVE  /\ k.cur = t /\ k \in Kernels /\ Settled(k) /\ ~k.pendsv
         /\ CallState(pc[t], after[t], call[t])
         /\ pc[t] \in Locked => k.susp = 1
         /\ ~(pc[t] \in Locked) => k.susp = 0 /\ ~k.yield /\ t \in ReadyTasks(k)
         /\ pc[t] \in Locked /\ ~(pc[t] \in Leaving) => t \in ReadyTasks(k)
<1>1. k.cur = t /\ k \in Kernels /\ ~k.pendsv /\ CallState(pc[t], after[t], call[t]) /\ Settled(k)
  BY DEF KernelInv, KernelTypes, Runs, InCall, SwitchKnown
<1>2. pc[t] \in Locked => k.susp = 1
  BY <1>1 DEF KernelInv, SuspendedOnce
<1>3. ~(pc[t] \in Locked) => k.susp = 0 /\ ~k.yield /\ t \in ReadyTasks(k)
  BY <1>1 DEF KernelInv, SuspendedOnce, SwitchKnown
<1>4. pc[t] \in Locked /\ ~(pc[t] \in Leaving) => t \in ReadyTasks(k)
  BY <1>1, <1>2 DEF KernelInv, SwitchKnown, CallState
<1> QED
  BY <1>1, <1>2, <1>3, <1>4

\* A step of task t, of which the rest knows nothing but whether the scheduler is suspended.
Move(t, l, r, c) ==
  /\ Runs(t) /\ pc' = [pc EXCEPT ![t] = l]
  /\ after' = [after EXCEPT ![t] = r] /\ call' = [call EXCEPT ![t] = c]
  /\ l \in Locked \cup Free /\ r \in Reasons \cup {"none"} /\ c \in QueueCalls \cup {NoCall}
  /\ cTxLock' \in Int /\ cRxLock' \in Int
  /\ xTimeOut' \in [Tasks -> Times] /\ ret' = [u \in Tasks |-> ret'[u]]
  /\ CallState(l, r, c)

LEMMA TaskMoves ==
  ASSUME KernelInv, NEW t \in Tasks, NEW l, NEW r, NEW c, Move(t, l, r, c), k' \in Kernels,
         k'.cur = t, k'.susp = IF l \in Locked THEN 1 ELSE 0, SwitchKnown'
  PROVE  KernelInv'
<1>1. KernelTypes'
  BY DEF Move, KernelInv, KernelTypes
<1>2. /\ pc'[t] = l /\ after'[t] = r /\ call'[t] = c
      /\ \A u \in Tasks \ {t} : pc'[u] = pc[u] /\ after'[u] = after[u] /\ call'[u] = call[u]
  BY DEF Move, KernelInv, KernelTypes
<1>3. InCall'
  <2> SUFFICES ASSUME NEW u \in Tasks PROVE CallState(pc'[u], after'[u], call'[u])
    BY DEF InCall
  <2>1. CASE u = t
    BY <1>2, <2>1 DEF Move
  <2>2. CASE u # t
    BY <1>2, <2>2 DEF KernelInv, InCall
  <2> QED
    BY <2>1, <2>2
<1>4. SuspendedOnce'
  <2>1. \A u \in Tasks \ {t} : ~(pc[u] \in Locked)
    BY DEF KernelInv, SuspendedOnce, Move, Runs
  <2> QED
    BY <1>2, <2>1 DEF SuspendedOnce
<1> QED
  BY <1>1, <1>3, <1>4 DEF KernelInv

\* A step of task t that does not touch the kernel.
LEMMA QuietMoves ==
  ASSUME KernelInv, NEW t \in Tasks, NEW l, NEW r, NEW c, Move(t, l, r, c), UNCHANGED k,
         pc[t] \in Locked <=> l \in Locked, ~(pc[t] \in Leaving)
  PROVE  KernelInv'
<1>1. /\ k.cur = t /\ k \in Kernels /\ t \in ReadyTasks(k)
      /\ k.susp = IF l \in Locked THEN 1 ELSE 0
  BY Running DEF Move
<1>2. k.pendsv \/ Settled(k)
  BY DEF KernelInv, SwitchKnown
<1>3. k.susp = 0 => (k.yield => k.pendsv)
  BY DEF KernelInv, SwitchKnown
<1>4. SwitchKnown'
  BY <1>1, <1>2, <1>3 DEF SwitchKnown, Settled, NoneHigher, ReadyTasks
<1> QED
  BY <1>1, <1>4, TaskMoves

LEMMA CallStep ==
  ASSUME KernelInv, NEW t \in Tasks, NEW c \in Calls[t], Call(t, c)
  PROVE  KernelInv'
<1>1. c \in QueueCalls
  BY QueueAssumption DEF Call, QueueCalls
<1>2. /\ Runs(t) /\ pc[t] = "idle" /\ call' = [call EXCEPT ![t] = c]
      /\ pc' = [pc EXCEPT ![t] = "try"] /\ ret' = [ret EXCEPT ![t] = "none"]
      /\ UNCHANGED <<k, cTxLock, cRxLock, xTimeOut, after>>
  BY DEF Call, Goto, lockVars
<1>3. after[t] = "none" /\ CallState("try", "none", c)
  BY <1>1, <1>2, Running DEF CallState, Leaving
<1>4. Move(t, "try", "none", c)
  BY <1>1, <1>2, <1>3 DEF Move, KernelInv, KernelTypes, Free
<1> QED
  BY <1>2, <1>4, QuietMoves DEF Locked, Leaving

\* A call returns.
LEMMA ReturnMoves ==
  ASSUME KernelInv, NEW t \in Tasks, NEW v, Runs(t), Returns(t, v), after[t] = "none",
         cTxLock' \in Int, cRxLock' \in Int
  PROVE  Move(t, "idle", "none", NoCall)
<1>1. /\ pc' = [pc EXCEPT ![t] = "idle"] /\ call' = [call EXCEPT ![t] = NoCall]
      /\ ret' = [ret EXCEPT ![t] = v] /\ xTimeOut' = [xTimeOut EXCEPT ![t] = Unset]
      /\ UNCHANGED after
  BY DEF Returns, Goto
<1>2. Unset \in Times
  BY DEF Unset, Times
<1>3. xTimeOut' \in [Tasks -> Times]
  BY <1>1, <1>2 DEF KernelInv, KernelTypes
<1>4. after' = [after EXCEPT ![t] = "none"]
  BY <1>1 DEF KernelInv, KernelTypes
<1>5. CallState("idle", "none", NoCall)
  BY DEF CallState, Leaving
<1> QED
  BY <1>1, <1>3, <1>4, <1>5 DEF Move, KernelInv, KernelTypes, Free

LEMMA TryBlocksStep ==
  ASSUME KernelInv, NEW t \in Tasks, TryBlocks(t)
  PROVE  KernelInv'
<1>1. Runs(t) /\ pc[t] = "try" /\ UNCHANGED <<k, cTxLock, cRxLock>>
  BY DEF TryBlocks, lockVars
<1>2. after[t] = "none" /\ call[t] \in QueueCalls
  BY <1>1, Running DEF CallState, Leaving
<1>3. CASE call[t].ticks = 0
  <2>1. Returns(t, "refused")
    BY <1>3 DEF TryBlocks
  <2>2. Move(t, "idle", "none", NoCall)
    BY <1>1, <1>2, <2>1, ReturnMoves DEF KernelInv, KernelTypes
  <2> QED
    BY <1>1, <2>2, QuietMoves DEF Locked, Leaving
<1>4. CASE call[t].ticks # 0
  <2>1. /\ xTimeOut' = [xTimeOut EXCEPT ![t] =
                         IF @ = Unset /\ call[t].ticks # MAX_DELAY THEN Now ELSE @]
        /\ pc' = [pc EXCEPT ![t] = "suspend"]
        /\ UNCHANGED <<call, ret, after>>
    BY <1>4 DEF TryBlocks, Goto
  <2>2. Now \in Times
    BY DEF Now, Times, KernelInv, KernelTypes, Kernels, Ticks
  <2>3. xTimeOut' \in [Tasks -> Times]
    BY <2>1, <2>2 DEF KernelInv, KernelTypes
  <2>4. CallState("suspend", "none", call[t])
    BY <1>2 DEF CallState, Leaving
  <2>5. Move(t, "suspend", "none", call[t])
    BY <1>1, <1>2, <2>1, <2>3, <2>4 DEF Move, KernelInv, KernelTypes, Free
  <2> QED
    BY <1>1, <2>5, QuietMoves DEF Locked, Leaving
<1> QED
  BY <1>3, <1>4

LEMMA LockStep ==
  ASSUME KernelInv, NEW t \in Tasks, prvLockQueue(t)
  PROVE  KernelInv'
<1>1. /\ Runs(t) /\ pc[t] = "lock" /\ pc' = [pc EXCEPT ![t] = "check"]
      /\ cTxLock' = IF cTxLock = -1 THEN 0 ELSE cTxLock
      /\ cRxLock' = IF cRxLock = -1 THEN 0 ELSE cRxLock
      /\ UNCHANGED <<k, call, xTimeOut, after, ret>>
  BY DEF prvLockQueue, Goto
<1>2. cTxLock' \in Int /\ cRxLock' \in Int
  BY <1>1 DEF KernelInv, KernelTypes
<1>3. after[t] = "none" /\ call[t] \in QueueCalls
  BY <1>1, Running DEF CallState, Leaving
<1>4. CallState("check", "none", call[t])
  BY <1>3 DEF CallState, Leaving
<1>5. Move(t, "check", "none", call[t])
  BY <1>1, <1>2, <1>3, <1>4 DEF Move, KernelInv, KernelTypes, Locked
<1> QED
  BY <1>1, <1>5, QuietMoves DEF Locked, Leaving

LEMMA CheckStep ==
  ASSUME KernelInv, NEW t \in Tasks, xTaskCheckForTimeOut(t)
  PROVE  KernelInv'
<1>1. Runs(t) /\ pc[t] = "check" /\ UNCHANGED <<k, cTxLock, cRxLock, ret>>
  BY DEF xTaskCheckForTimeOut, lockVars
<1>2. after[t] = "none" /\ call[t] \in QueueCalls
  BY <1>1, Running DEF CallState, Leaving
<1>3. /\ call[t].ticks \in Ticks /\ MAX_DELAY \in Nat \ {0} /\ Ticks = 0 .. MAX_DELAY
      /\ call[t].kind \in {"send", "receive"} /\ call[t].item \in Items
  BY <1>2, SchedulerAssumption DEF QueueCalls, Ticks
<1>4. CASE TimedOut(t)
  <2> DEFINE n == IF WholeRound(t) THEN call[t].ticks ELSE 0
             c == [call[t] EXCEPT !.ticks = n]
  <2>1. /\ pc' = [pc EXCEPT ![t] = "unlocktx"] /\ after' = [after EXCEPT ![t] = "expired"]
        /\ call' = [call EXCEPT ![t] = c] /\ UNCHANGED xTimeOut
    BY <1>4 DEF xTaskCheckForTimeOut, Goto
  <2>2. n \in Ticks /\ n # MAX_DELAY
    BY <1>3, <1>4 DEF TimedOut
  <2> HIDE DEF n
  <2>3. c \in QueueCalls /\ c.ticks = n
    BY <1>2, <2>2 DEF QueueCalls
  <2>4. CallState("unlocktx", "expired", c)
    BY <2>2, <2>3 DEF CallState, Leaving, Reasons
  <2> HIDE DEF c
  <2>5. Move(t, "unlocktx", "expired", c)
    BY <1>1, <2>1, <2>3, <2>4 DEF Move, KernelInv, KernelTypes, Locked, Reasons
  <2> QED
    BY <1>1, <2>5, QuietMoves DEF Locked, Leaving
<1>5. CASE ~TimedOut(t)
  <2> DEFINE n == IF call[t].ticks = MAX_DELAY THEN call[t].ticks ELSE call[t].ticks - Elapsed(t)
             c == [call[t] EXCEPT !.ticks = n]
  <2>1. /\ pc' = [pc EXCEPT ![t] = "place"]
        /\ call' = [call EXCEPT ![t] = c]
        /\ xTimeOut' = [xTimeOut EXCEPT ![t] = IF call[t].ticks = MAX_DELAY THEN @ ELSE Now]
        /\ UNCHANGED after
    BY <1>5 DEF xTaskCheckForTimeOut, Goto
  <2>2. Elapsed(t) \in Nat
    <3>1. k.tick \in Int /\ xTimeOut[t].at \in Int
      BY <1>3 DEF KernelInv, KernelTypes, Kernels, Times
    <3> QED
      BY <1>3, <3>1 DEF Elapsed
  <2>3. call[t].ticks = MAX_DELAY \/ ~(Elapsed(t) >= call[t].ticks)
    BY <1>5 DEF TimedOut
  <2>4. n \in Ticks
    BY <1>3, <2>2, <2>3
  <2> HIDE DEF n
  <2>5. c \in QueueCalls
    BY <1>2, <2>4 DEF QueueCalls
  <2>6. CallState("place", "none", c)
    BY <2>5 DEF CallState, Leaving
  <2> HIDE DEF c
  <2>7. Now \in Times
    BY DEF Now, Times, KernelInv, KernelTypes, Kernels, Ticks
  <2>8. xTimeOut' \in [Tasks -> Times]
    BY <2>1, <2>7 DEF KernelInv, KernelTypes
  <2>9. Move(t, "place", "none", c)
    BY <1>1, <1>2, <2>1, <2>5, <2>6, <2>8 DEF Move, KernelInv, KernelTypes, Locked
  <2> QED
    BY <1>1, <2>9, QuietMoves DEF Locked, Leaving
<1> QED
  BY <1>4, <1>5

LEMMA LookStep ==
  ASSUME KernelInv, NEW t \in Tasks, NoLongerBlocks(t) \/ StillBlocks(t)
  PROVE  KernelInv'
<1>1. Runs(t) /\ pc[t] = "place" /\ UNCHANGED <<k, cTxLock, cRxLock, call, xTimeOut, ret>>
  BY DEF NoLongerBlocks, StillBlocks, lockVars
<1>2. after[t] = "none" /\ call[t] \in QueueCalls
  BY <1>1, Running DEF CallState, Leaving
<1>3. CASE NoLongerBlocks(t)
  <2>1. CallState("unlocktx", "retry", call[t])
    BY <1>2 DEF CallState, Leaving, Reasons
  <2>2. pc' = [pc EXCEPT ![t] = "unlocktx"] /\ after' = [after EXCEPT ![t] = "retry"]
    BY <1>3 DEF NoLongerBlocks, Goto
  <2>3. Move(t, "unlocktx", "retry", call[t])
    BY <1>1, <1>2, <2>1, <2>2 DEF Move, KernelInv, KernelTypes, Locked, Reasons
  <2> QED
    BY <1>1, <2>3, QuietMoves DEF Locked, Leaving
<1>4. CASE StillBlocks(t)
  <2>1. CallState("block", "none", call[t])
    BY <1>2 DEF CallState, Leaving
  <2>2. pc' = [pc EXCEPT ![t] = "block"] /\ after' = after
    BY <1>4 DEF StillBlocks, Goto
  <2>3. Move(t, "block", "none", call[t])
    BY <1>1, <1>2, <2>1, <2>2 DEF Move, KernelInv, KernelTypes, Locked
  <2> QED
    BY <1>1, <2>3, QuietMoves DEF Locked, Leaving
<1> QED
  BY <1>3, <1>4

LEMMA ExpiredStep ==
  ASSUME KernelInv, NEW t \in Tasks, Expired(t)
  PROVE  KernelInv'
<1>1. Runs(t) /\ pc[t] = "expired" /\ UNCHANGED <<k, cTxLock, cRxLock>>
  BY DEF Expired, lockVars
<1>2. after[t] = "none" /\ call[t] \in QueueCalls
  BY <1>1, Running DEF CallState, Leaving
<1>3. CASE Returns(t, "refused")
  <2>1. Move(t, "idle", "none", NoCall)
    BY <1>1, <1>2, <1>3, ReturnMoves DEF KernelInv, KernelTypes
  <2> QED
    BY <1>1, <2>1, QuietMoves DEF Locked, Leaving
<1>4. CASE Goto(t, "try") /\ UNCHANGED <<call, xTimeOut, after, ret>>
  <2>1. CallState("try", "none", call[t])
    BY <1>2 DEF CallState, Leaving
  <2>2. Move(t, "try", "none", call[t])
    BY <1>1, <1>2, <1>4, <2>1 DEF Move, Goto, KernelInv, KernelTypes, Free
  <2> QED
    BY <1>1, <2>2, QuietMoves DEF Locked, Leaving
<1> QED
  BY <1>3, <1>4 DEF Expired

LEMMA DelayReturnsStep ==
  ASSUME KernelInv, NEW t \in Tasks, DelayReturns(t)
  PROVE  KernelInv'
<1>1. Runs(t) /\ pc[t] = "slept" /\ UNCHANGED <<k, cTxLock, cRxLock>> /\ Returns(t, ret[t])
  BY DEF DelayReturns, lockVars
<1>2. after[t] = "none"
  BY <1>1, Running DEF CallState, Leaving
<1>3. Move(t, "idle", "none", NoCall)
  BY <1>1, <1>2, ReturnMoves DEF KernelInv, KernelTypes
<1> QED
  BY <1>1, <1>3, QuietMoves DEF Locked, Leaving

\* Both first critical sections: what waits for what they did is woken.
LEMMA ServedStep ==
  ASSUME KernelInv, NEW t \in Tasks, SendTry(t) \/ ReceiveTry(t)
  PROVE  KernelInv'
<1>1. Runs(t) /\ pc[t] = "try" /\ UNCHANGED <<cTxLock, cRxLock>>
  BY DEF SendTry, ReceiveTry, lockVars
<1>2. PICK e \in Events : k' = Wake(k, e)
  BY QueueAssumption DEF SendTry, ReceiveTry
<1>3. PICK v : Returns(t, v)
  BY DEF SendTry, ReceiveTry
<1>4. /\ k.cur = t /\ k \in Kernels /\ Settled(k) /\ k.susp = 0 /\ ~k.yield /\ t \in ReadyTasks(k)
      /\ after[t] = "none"
  BY <1>1, Running DEF Locked, CallState, Leaving
<1>5. /\ k' \in Kernels /\ ReadyTasks(k) \subseteq ReadyTasks(k') /\ k'.cur = k.cur
      /\ k'.susp = k.susp /\ (k'.pendsv \/ Settled(k')) /\ (k'.yield => k'.pendsv)
  BY <1>2, <1>4, WakeFacts
<1>6. SwitchKnown'
  BY <1>4, <1>5 DEF SwitchKnown, Settled, NoneHigher, ReadyTasks
<1>7. Move(t, "idle", "none", NoCall)
  BY <1>1, <1>3, <1>4, ReturnMoves DEF KernelInv, KernelTypes
<1>8. k'.susp = IF "idle" \in Locked THEN 1 ELSE 0
  BY <1>4, <1>5 DEF Locked
<1> QED
  BY <1>4, <1>5, <1>6, <1>7, <1>8, TaskMoves

LEMMA SuspendStep ==
  ASSUME KernelInv, NEW t \in Tasks, SuspendAll(t)
  PROVE  KernelInv'
<1>1. /\ Runs(t) /\ pc[t] = "suspend" /\ pc' = [pc EXCEPT ![t] = "lock"]
      /\ k' = vTaskSuspendAll(k) /\ UNCHANGED <<cTxLock, cRxLock, call, xTimeOut, after, ret>>
  BY DEF SuspendAll, Goto, lockVars
<1>2. /\ k.cur = t /\ k \in Kernels /\ Settled(k) /\ k.susp = 0 /\ t \in ReadyTasks(k)
      /\ after[t] = "none" /\ call[t] \in QueueCalls
  BY <1>1, Running DEF Locked, CallState, Leaving
<1>3. /\ k' \in Kernels /\ ReadyTasks(k') = ReadyTasks(k) /\ k'.susp = 1
      /\ k'.cur = t /\ k'.yield = k.yield
  BY <1>1, <1>2, SuspendFacts
<1>4. SwitchKnown'
  BY <1>2, <1>3 DEF SwitchKnown, Settled, NoneHigher, ReadyTasks
<1>5. CallState("lock", "none", call[t])
  BY <1>2 DEF CallState, Leaving
<1>6. Move(t, "lock", "none", call[t])
  BY <1>1, <1>2, <1>5 DEF Move, KernelInv, KernelTypes, Locked
<1>7. k'.susp = IF "lock" \in Locked THEN 1 ELSE 0
  BY <1>3 DEF Locked
<1> QED
  BY <1>3, <1>4, <1>6, <1>7, TaskMoves

LEMMA PlaceStep ==
  ASSUME KernelInv, NEW t \in Tasks, Place(t)
  PROVE  KernelInv'
<1>1. /\ Runs(t) /\ pc[t] = "block" /\ pc' = [pc EXCEPT ![t] = "unlocktx"]
      /\ after' = [after EXCEPT ![t] = "blocked"]
      /\ k' = vTaskPlaceOnEventList(k, call[t].kind, call[t].ticks)
      /\ UNCHANGED <<cTxLock, cRxLock, call, xTimeOut, ret>>
  BY DEF Place, Goto, lockVars
<1>2. /\ k.cur = t /\ k \in Kernels /\ Settled(k) /\ k.susp = 1 /\ call[t] \in QueueCalls
  BY <1>1, Running DEF Locked, CallState, Leaving
<1>3. call[t].kind \in Events /\ call[t].ticks \in Ticks
  BY <1>2, QueueAssumption DEF QueueCalls
<1>4. /\ k' \in Kernels /\ ReadyTasks(k') = ReadyTasks(k) \ {t} /\ k'.susp = 1
      /\ k'.cur = t /\ k'.yield = k.yield
  BY <1>1, <1>2, <1>3, PlaceFacts
<1>5. after'[t] = "blocked"
  BY <1>1 DEF KernelInv, KernelTypes
<1>6. SwitchKnown'
  BY <1>2, <1>4, <1>5 DEF SwitchKnown, Settled, NoneHigher, ReadyTasks
<1>7. CallState("unlocktx", "blocked", call[t])
  BY <1>2 DEF CallState, Leaving, Reasons
<1>8. Move(t, "unlocktx", "blocked", call[t])
  BY <1>1, <1>2, <1>7 DEF Move, KernelInv, KernelTypes, Locked, Reasons
<1>9. k'.susp = IF "unlocktx" \in Locked THEN 1 ELSE 0
  BY <1>4 DEF Locked
<1> QED
  BY <1>4, <1>6, <1>8, <1>9, TaskMoves

LEMMA DelayStep ==
  ASSUME KernelInv, NEW t \in Tasks, NEW c \in Calls[t], vTaskDelay(t, c)
  PROVE  KernelInv'
<1>1. /\ Runs(t) /\ pc[t] = "idle" /\ pc' = [pc EXCEPT ![t] = "resume"]
      /\ after' = [after EXCEPT ![t] = "slept"]
      /\ k' = prvAddCurrentTaskToDelayedList(vTaskSuspendAll(k), c.ticks, FALSE)
      /\ UNCHANGED <<cTxLock, cRxLock, call, xTimeOut, ret>>
  BY DEF vTaskDelay, Goto, lockVars
<1>2. /\ k.cur = t /\ k \in Kernels /\ Settled(k) /\ k.susp = 0 /\ call[t] = NoCall
  BY <1>1, Running DEF Locked, CallState, Leaving
<1>3. c.ticks \in Ticks
  BY QueueAssumption
<1>4. PICK x : x = vTaskSuspendAll(k)
  OBVIOUS
<1>5. /\ x \in Kernels /\ ReadyTasks(x) = ReadyTasks(k) /\ x.susp = 1
      /\ x.cur = t /\ x.yield = k.yield
  BY <1>2, <1>4, SuspendFacts
<1>6. /\ k' \in Kernels /\ ReadyTasks(k') = ReadyTasks(x) \ {t} /\ k'.susp = 1
      /\ k'.cur = t /\ k'.yield = k.yield
  BY <1>1, <1>3, <1>4, <1>5, DelayFacts
<1>7. after'[t] = "slept"
  BY <1>1 DEF KernelInv, KernelTypes
<1>8. SwitchKnown'
  BY <1>2, <1>5, <1>6, <1>7 DEF SwitchKnown, Settled, NoneHigher, ReadyTasks
<1>9. CallState("resume", "slept", NoCall)
  BY DEF CallState, Leaving, Reasons
<1>10. Move(t, "resume", "slept", NoCall)
  BY <1>1, <1>2, <1>9 DEF Move, KernelInv, KernelTypes, Locked, Reasons
<1>11. k'.susp = IF "resume" \in Locked THEN 1 ELSE 0
  BY <1>6 DEF Locked
<1> QED
  BY <1>6, <1>8, <1>10, <1>11, TaskMoves

\* prvUnlockQueue, both halves.
LEMMA UnlockStep ==
  ASSUME KernelInv, NEW t \in Tasks, UnlockTx(t) \/ UnlockRx(t)
  PROVE  KernelInv'
<1>1. /\ Runs(t) /\ pc[t] \in {"unlocktx", "unlockrx"} /\ UNCHANGED <<call, xTimeOut, after, ret>>
  BY DEF UnlockTx, UnlockRx
<1>2. PICK l \in {"unlockrx", "resume"} : pc' = [pc EXCEPT ![t] = l]
  BY DEF UnlockTx, UnlockRx, Goto
<1>3. cTxLock' \in Int /\ cRxLock' \in Int
  BY DEF UnlockTx, UnlockRx, KernelInv, KernelTypes
<1>4. PICK e \in Events, n \in Int : k' = UnlockWakes(k, e, n)
  BY QueueAssumption DEF UnlockTx, UnlockRx, KernelInv, KernelTypes
<1>5. /\ k.cur = t /\ k \in Kernels /\ Settled(k) /\ k.susp = 1
      /\ CallState(pc[t], after[t], call[t])
  BY <1>1, Running DEF Locked
<1>6. /\ k' \in Kernels /\ ReadyTasks(k) \subseteq ReadyTasks(k') /\ k'.cur = t
      /\ k'.susp = 1 /\ Settled(k')
  BY <1>4, <1>5, UnlockFacts
<1>7. t \in ReadyTasks(k) \/ after[t] \in {"blocked", "slept"}
  BY <1>5 DEF KernelInv, SwitchKnown
<1>8. SwitchKnown'
  BY <1>1, <1>6, <1>7 DEF SwitchKnown, Settled, NoneHigher, ReadyTasks
<1>9. CallState(l, after[t], call[t])
  BY <1>1, <1>5 DEF CallState, Leaving
<1>10. Move(t, l, after[t], call[t])
  BY <1>1, <1>2, <1>3, <1>9 DEF Move, KernelInv, KernelTypes, Locked
<1>11. k'.susp = IF l \in Locked THEN 1 ELSE 0
  BY <1>6 DEF Locked
<1> QED
  BY <1>6, <1>8, <1>10, <1>11, TaskMoves

\* Where a task goes on when the scheduler runs again.
GoesOn(r) == [blocked |-> "try", retry |-> "try", expired |-> "expired", slept |-> "slept"][r]

LEMMA ResumeStep ==
  ASSUME KernelInv, NEW t \in Tasks, Resume(t)
  PROVE  KernelInv'
<1>1. /\ Runs(t) /\ pc[t] = "resume" /\ pc' = [pc EXCEPT ![t] = GoesOn(after[t])]
      /\ after' = [after EXCEPT ![t] = "none"] /\ UNCHANGED <<cTxLock, cRxLock, call, xTimeOut, ret>>
  BY DEF Resume, Goto, GoesOn, lockVars
<1>2. /\ k.cur = t /\ k \in Kernels /\ Settled(k) /\ k.susp = 1
      /\ CallState("resume", after[t], call[t])
  BY <1>1, Running DEF Locked
<1>3. PICK z : z = xTaskResumeAll(k)
  OBVIOUS
<1>4. /\ z \in Kernels /\ ReadyTasks(k) \subseteq ReadyTasks(z) /\ z.cur = t /\ z.susp = 0
      /\ Settled(z) /\ (z.yield => z.pendsv)
  BY <1>2, <1>3, ResumeFacts
<1>5. /\ k' \in Kernels /\ ReadyTasks(k) \subseteq ReadyTasks(k') /\ k'.cur = t /\ k'.susp = 0
      /\ (k'.pendsv \/ Settled(k')) /\ (k'.yield => k'.pendsv)
      /\ after[t] \in {"blocked", "slept"} => k'.pendsv
  <2>1. CASE after[t] \in {"blocked", "slept"}
    <3>1. k' = portYIELD(z)
      BY <1>3, <2>1 DEF Resume
    <3> QED
      BY <1>4, <3>1, YieldFacts
  <2>2. CASE ~(after[t] \in {"blocked", "slept"})
    <3>1. k' = z
      BY <1>3, <2>2 DEF Resume
    <3> QED
      BY <1>4, <2>2, <3>1
  <2> QED
    BY <2>1, <2>2
<1>6. t \in ReadyTasks(k) \/ after[t] \in {"blocked", "slept"}
  BY <1>2 DEF KernelInv, SwitchKnown
<1>7. SwitchKnown'
  BY <1>5, <1>6 DEF SwitchKnown, Settled, NoneHigher, ReadyTasks
<1>8. after[t] \in Reasons
  BY <1>2 DEF CallState, Leaving
<1>9. /\ GoesOn(after[t]) \in {"try", "expired", "slept"}
      /\ GoesOn(after[t]) = "slept" <=> after[t] = "slept"
      /\ GoesOn(after[t]) = "expired" <=> after[t] = "expired"
  BY <1>8 DEF GoesOn, Reasons
<1> HIDE DEF GoesOn
<1>10. CallState(GoesOn(after[t]), "none", call[t])
  BY <1>2, <1>9 DEF CallState, Leaving
<1>11. Move(t, GoesOn(after[t]), "none", call[t])
  BY <1>1, <1>9, <1>10 DEF Move, KernelInv, KernelTypes, Free
<1>12. k'.susp = IF GoesOn(after[t]) \in Locked THEN 1 ELSE 0
  BY <1>5, <1>9 DEF Locked
<1> QED
  BY <1>5, <1>7, <1>11, <1>12, TaskMoves

\* An interrupt or the tick: the tasks stay where they are.
LEMMA InterruptMoves ==
  ASSUME KernelInv, UNCHANGED taskVars, cTxLock' \in Int, cRxLock' \in Int, k' \in Kernels,
         k'.cur = k.cur, k'.susp = k.susp, ReadyTasks(k) \subseteq ReadyTasks(k'),
         k'.pendsv \/ (~k.pendsv /\ Settled(k')), k'.susp = 0 => (k'.yield => k'.pendsv)
  PROVE  KernelInv'
<1>1. UNCHANGED <<pc, call, xTimeOut, after, ret>>
  BY DEF taskVars
<1>2. KernelTypes'
  BY <1>1 DEF KernelInv, KernelTypes
<1>3. InCall' /\ SuspendedOnce'
  BY <1>1 DEF KernelInv, InCall, SuspendedOnce
<1>4. SwitchKnown'
  BY <1>1 DEF KernelInv, SwitchKnown, Settled, NoneHigher, ReadyTasks
<1> QED
  BY <1>2, <1>3, <1>4 DEF KernelInv

LEMMA IsrStep ==
  ASSUME KernelInv, (\E v \in IsrItems : xQueueGenericSendFromISR(v)) \/ xQueueReceiveFromISR
  PROVE  KernelInv'
<1>1. UNCHANGED taskVars
  BY DEF xQueueGenericSendFromISR, xQueueReceiveFromISR
<1>2. cTxLock' \in Int /\ cRxLock' \in Int
  BY DEF xQueueGenericSendFromISR, xQueueReceiveFromISR, Counted, KernelInv, KernelTypes
<1>3. k' = k \/ \E e \in Events : k' = Wake(k, e)
  BY QueueAssumption DEF xQueueGenericSendFromISR, xQueueReceiveFromISR
<1>4. k \in Kernels /\ (k.pendsv \/ Settled(k)) /\ (k.susp = 0 => (k.yield => k.pendsv))
  BY DEF KernelInv, KernelTypes, SwitchKnown
<1>5. CASE k' = k
  BY <1>1, <1>2, <1>4, <1>5 DEF KernelInv, KernelTypes, InCall, SuspendedOnce, SwitchKnown,
    Settled, NoneHigher, ReadyTasks, taskVars
<1>6. CASE \E e \in Events : k' = Wake(k, e)
  <2>1. PICK e \in Events : k' = Wake(k, e)
    BY <1>6
  <2>2. /\ k' \in Kernels /\ ReadyTasks(k) \subseteq ReadyTasks(k') /\ k'.cur = k.cur
        /\ k'.susp = k.susp /\ (k'.pendsv \/ Settled(k'))
        /\ (k.yield => k.pendsv) => (k'.yield => k'.pendsv)
        /\ k.pendsv => k'.pendsv
    BY <1>4, <2>1, WakeFacts
  <2> QED
    BY <1>1, <1>2, <1>4, <2>2, InterruptMoves
<1> QED
  BY <1>3, <1>5, <1>6

LEMMA TickStep ==
  ASSUME KernelInv, xPortSysTickHandler
  PROVE  KernelInv'
<1>1. UNCHANGED taskVars /\ UNCHANGED <<cTxLock, cRxLock>> /\ k' = xTaskIncrementTick(k) /\ ~k.pendsv
  BY DEF xPortSysTickHandler, lockVars
<1>2. k \in Kernels /\ Settled(k) /\ (k.susp = 0 => ~k.yield)
  BY <1>1 DEF KernelInv, KernelTypes, SwitchKnown
<1>3. /\ k' \in Kernels /\ ReadyTasks(k) \subseteq ReadyTasks(k')
      /\ k'.cur = k.cur /\ k'.susp = k.susp /\ (k'.pendsv \/ Settled(k'))
      /\ k'.susp = 0 => (k'.yield => k'.pendsv)
  BY <1>1, <1>2, IncrementFacts
<1>4. cTxLock' \in Int /\ cRxLock' \in Int
  BY <1>1 DEF KernelInv, KernelTypes
<1> QED
  BY <1>1, <1>3, <1>4, InterruptMoves

LEMMA SwitchStep ==
  ASSUME KernelInv, NEW t \in Tasks, xPortPendSVHandler(t)
  PROVE  KernelInv'
<1>1. UNCHANGED <<pc, call, xTimeOut, after, ret, cTxLock, cRxLock>>
  BY DEF xPortPendSVHandler, lockVars, taskVars
<1>2. k \in Kernels
  BY DEF KernelInv, KernelTypes
<1>3. CASE k.susp > 0
  <2>1. k' = [k EXCEPT !.pendsv = FALSE, !.yield = TRUE]
    BY <1>3 DEF xPortPendSVHandler, vTaskSwitchContext
  <2>2. k' \in Kernels /\ k'.cur = k.cur /\ k'.susp = k.susp /\ k'.list = k.list /\ k'.yield = TRUE
    BY <1>2, <2>1 DEF Kernels
  <2>3. KernelTypes' /\ InCall' /\ SuspendedOnce'
    BY <1>1, <2>2 DEF KernelInv, KernelTypes, InCall, SuspendedOnce
  <2>4. SwitchKnown'
    BY <1>1, <1>3, <2>2 DEF KernelInv, SwitchKnown, Settled, ReadyTasks
  <2> QED
    BY <2>3, <2>4 DEF KernelInv
<1>4. CASE ~(k.susp > 0)
  <2>1. k' = [k EXCEPT !.pendsv = FALSE, !.yield = FALSE, !.cur = t] /\ t \in Highest(k)
    BY <1>4 DEF xPortPendSVHandler, vTaskSwitchContext
  <2>2. k' \in Kernels /\ k'.cur = t /\ k'.susp = k.susp /\ k'.list = k.list /\ k'.yield = FALSE
    BY <1>2, <2>1 DEF Kernels
  <2>3. ReadyTasks(k') = ReadyTasks(k) /\ k.susp = 0
    BY <1>2, <1>4, <2>2 DEF ReadyTasks, Kernels
  <2>4. KernelTypes' /\ InCall' /\ SuspendedOnce'
    BY <1>1, <2>2, <2>3 DEF KernelInv, KernelTypes, InCall, SuspendedOnce
  <2>5. NoneHigher(k') /\ t \in ReadyTasks(k')
    <3>1. \A u \in ReadyTasks(k) : Priority[t] >= Priority[u] /\ Priority[t] \in Nat /\ Priority[u] \in Nat
      BY <2>1, SchedulerAssumption DEF Highest, ReadyTasks
    <3> QED
      BY <2>1, <2>2, <2>3, <3>1 DEF NoneHigher, Highest
  <2>6. SwitchKnown'
    BY <2>2, <2>3, <2>5 DEF SwitchKnown, Settled, NoneHigher, ReadyTasks
  <2> QED
    BY <2>4, <2>6 DEF KernelInv
<1> QED
  BY <1>3, <1>4

LEMMA NextKernelInv == KernelInv /\ [Next]_vars => KernelInv'
<1> SUFFICES ASSUME KernelInv, [Next]_vars PROVE KernelInv'
  OBVIOUS
<1>1. ASSUME NEW t \in Tasks, TaskStep(t) PROVE KernelInv'
  <2>1. CASE \E c \in Calls[t] : Call(t, c) \/ vTaskDelay(t, c)
    BY <2>1, CallStep, DelayStep
  <2>2. CASE SendTry(t) \/ ReceiveTry(t)
    BY <2>2, ServedStep
  <2>3. CASE TryBlocks(t) \/ SuspendAll(t) \/ prvLockQueue(t) \/ xTaskCheckForTimeOut(t)
    BY <2>3, TryBlocksStep, SuspendStep, LockStep, CheckStep
  <2>4. CASE NoLongerBlocks(t) \/ StillBlocks(t) \/ Place(t)
    BY <2>4, LookStep, PlaceStep
  <2>5. CASE UnlockTx(t) \/ UnlockRx(t) \/ Resume(t)
    BY <2>5, UnlockStep, ResumeStep
  <2>6. CASE Expired(t) \/ DelayReturns(t)
    BY <2>6, ExpiredStep, DelayReturnsStep
  <2> QED
    BY <1>1, <2>1, <2>2, <2>3, <2>4, <2>5, <2>6 DEF TaskStep
<1>2. ASSUME NEW t \in Tasks, xPortPendSVHandler(t) PROVE KernelInv'
  BY <1>2, SwitchStep
<1>3. CASE (\E v \in IsrItems : xQueueGenericSendFromISR(v)) \/ xQueueReceiveFromISR
  BY <1>3, IsrStep
<1>4. CASE xPortSysTickHandler
  BY <1>4, TickStep
<1>5. CASE UNCHANGED vars
  BY <1>5 DEF vars, lockVars, taskVars, KernelInv, KernelTypes, InCall, SuspendedOnce, SwitchKnown,
    Settled, NoneHigher, ReadyTasks
<1> QED
  BY <1>1, <1>2, <1>3, <1>4, <1>5 DEF Next

LEMMA KernelInvHolds == Spec => []KernelInv
BY InitKernelInv, NextKernelInv, PTL DEF Spec

-----------------------------------------------------------------------------
(* The task that runs *)

\* Of any tasks with any priorities, waiting for a queue or for time, woken by one another,
\* by interrupts, by the tick or by ticks made up for, one of the highest priority that is
\* ready runs whenever the scheduler is not suspended and no switch is on its way.
THEOREM HighestAlwaysRuns == Spec => []HighestRuns
<1>1. KernelInv => HighestRuns
  <2> SUFFICES ASSUME KernelInv, ~k.pendsv, k.susp = 0 PROVE k.cur \in Highest(k)
    BY DEF HighestRuns
  <2>1. k.cur \in ReadyTasks(k) /\ k.cur \in Tasks
    BY DEF KernelInv, KernelTypes, SwitchKnown, Kernels
  <2>2. \A u \in ReadyTasks(k) : Priority[u] <= Priority[k.cur]
    BY DEF KernelInv, SwitchKnown, Settled, NoneHigher
  <2>3. \A u \in ReadyTasks(k) : Priority[u] \in Nat /\ Priority[k.cur] \in Nat
    BY <2>1, SchedulerAssumption DEF ReadyTasks
  <2> QED
    BY <2>1, <2>2, <2>3 DEF Highest
<1> QED
  BY <1>1, KernelInvHolds, PTL

-----------------------------------------------------------------------------
(* The queue is a first-in first-out buffer *)

\* The free places begin behind the items.
QueueInv ==
  /\ storage \in [Places -> Items] /\ pcReadFrom \in Places
  /\ uxMessagesWaiting \in 0 .. uxLength
  /\ pcWriteTo = (pcReadFrom + 1 + uxMessagesWaiting) % uxLength

\* Places, counted round the storage area.
LEMMA Round ==
  ASSUME NEW p \in Places
  PROVE  p % uxLength = p /\ (p + uxLength) % uxLength = p /\ (p + 2 * uxLength) % uxLength = p
BY QueueAssumption DEF Places

LEMMA PlaceAt ==
  ASSUME NEW p \in Places, NEW i \in 0 .. uxLength + 1
  PROVE  /\ (p + i) % uxLength = IF p + i < uxLength THEN p + i
                                 ELSE IF p + i < 2 * uxLength THEN p + i - uxLength
                                 ELSE p + i - 2 * uxLength
         /\ (p + i) % uxLength \in Places
<1>1. uxLength \in Nat \ {0} /\ p \in 0 .. uxLength - 1
  BY QueueAssumption DEF Places
<1>2. CASE p + i < uxLength
  BY <1>1, <1>2, Round DEF Places
<1>3. CASE ~(p + i < uxLength) /\ p + i < 2 * uxLength
  <2>1. p + i - uxLength \in Places
    BY <1>1, <1>3 DEF Places
  <2>2. ((p + i - uxLength) + uxLength) % uxLength = p + i - uxLength
    BY <2>1, Round
  <2>3. (p + i - uxLength) + uxLength = p + i
    BY <1>1
  <2> QED
    BY <1>3, <2>1, <2>2, <2>3
<1>4. CASE ~(p + i < 2 * uxLength)
  <2>1. p + i - 2 * uxLength \in Places
    BY <1>1, <1>4 DEF Places
  <2>2. ((p + i - 2 * uxLength) + 2 * uxLength) % uxLength = p + i - 2 * uxLength
    BY <2>1, Round
  <2>3. (p + i - 2 * uxLength) + 2 * uxLength = p + i /\ ~(p + i < uxLength)
    BY <1>1, <1>4
  <2> QED
    BY <1>4, <2>1, <2>2, <2>3
<1> QED
  BY <1>2, <1>3, <1>4

LEMMA AdvanceIs ==
  ASSUME NEW p \in Places
  PROVE  Advance(p) = (p + 1) % uxLength /\ Advance(p) \in Places
<1>1. uxLength \in Nat \ {0} /\ p \in 0 .. uxLength - 1 /\ 1 \in 0 .. uxLength + 1
  BY QueueAssumption DEF Places
<1>2. (p + 1) % uxLength = (IF p + 1 < uxLength THEN p + 1
                            ELSE IF p + 1 < 2 * uxLength THEN p + 1 - uxLength
                            ELSE p + 1 - 2 * uxLength) /\ (p + 1) % uxLength \in Places
  BY <1>1, PlaceAt
<1> QED
  BY <1>1, <1>2 DEF Advance

ContentsAre ==
  QueueInv => /\ Contents \in Seq(Items) /\ Len(Contents) = uxMessagesWaiting
              /\ Contents = <<>> <=> uxMessagesWaiting = 0

LEMMA ContentsFacts == ContentsAre
<1> SUFFICES ASSUME QueueInv
             PROVE  /\ Contents \in Seq(Items) /\ Len(Contents) = uxMessagesWaiting
                    /\ Contents = <<>> <=> uxMessagesWaiting = 0
  BY DEF ContentsAre
<1>1. ASSUME NEW i \in 1 .. uxMessagesWaiting PROVE storage[(pcReadFrom + i) % uxLength] \in Items
  <2>1. i \in 0 .. uxLength + 1
    BY QueueAssumption DEF QueueInv
  <2>2. (pcReadFrom + i) % uxLength \in Places
    BY <2>1, PlaceAt DEF QueueInv
  <2> QED
    BY <2>2 DEF QueueInv
<1>2. PICK n : n = uxMessagesWaiting
  OBVIOUS
<1>3. n \in Nat
  BY <1>2, QueueAssumption DEF QueueInv
<1>4. Contents \in [1 .. n -> Items]
  BY <1>1, <1>2, Zenon DEF Contents
<1>5. Contents \in Seq(Items) /\ Len(Contents) = n
  <2>1. PICK c \in [1 .. n -> Items] : c = Contents
    BY <1>4, Zenon
  <2>2. c \in Seq(Items) /\ Len(c) = n
    BY <1>3
  <2> QED
    BY <2>1, <2>2, Zenon
<1>6. Contents = <<>> <=> n = 0
  <2>1. PICK c \in Seq(Items) : c = Contents /\ Len(c) = n
    BY <1>5, Zenon
  <2>2. c = <<>> <=> Len(c) = 0
    OBVIOUS
  <2> QED
    BY <2>1, <2>2
<1> QED
  BY <1>2, <1>5, <1>6, Zenon

LEMMA ContentsWillBe == ContentsAre'
BY ContentsFacts, PTL

LEMMA OneFurther ==
  ASSUME NEW p \in Places, NEW i \in 0 .. uxLength
  PROVE  (((p + 1) % uxLength) + i) % uxLength = (p + (i + 1)) % uxLength
<1>1. uxLength \in Nat \ {0} /\ p \in 0 .. uxLength - 1 /\ 1 \in 0 .. uxLength + 1
      /\ i + 1 \in 0 .. uxLength + 1 /\ i \in 0 .. uxLength + 1
  BY QueueAssumption DEF Places
<1>2. PICK q \in Places : q = (p + 1) % uxLength
  BY <1>1, PlaceAt
<1>3. q = IF p + 1 < uxLength THEN p + 1 ELSE p + 1 - uxLength
  BY <1>1, <1>2, PlaceAt
<1>4. (p + (i + 1)) % uxLength = IF p + (i + 1) < uxLength THEN p + (i + 1)
                                 ELSE IF p + (i + 1) < 2 * uxLength THEN p + (i + 1) - uxLength
                                 ELSE p + (i + 1) - 2 * uxLength
  BY <1>1, PlaceAt
<1>5. (q + i) % uxLength = IF q + i < uxLength THEN q + i
                           ELSE IF q + i < 2 * uxLength THEN q + i - uxLength
                           ELSE q + i - 2 * uxLength
  BY <1>1, PlaceAt
<1>6. (q + i) % uxLength = (p + (i + 1)) % uxLength
  BY <1>1, <1>3, <1>4, <1>5 DEF Places
<1> QED
  BY <1>2, <1>6

\* A sequence that grows by v is the old one with v behind it.
LEMMA Grows ==
  ASSUME NEW n \in Nat, NEW c \in Seq(Items), Len(c) = n, NEW d \in Seq(Items), Len(d) = n + 1,
         \A i \in 1 .. n : d[i] = c[i], NEW v, d[n + 1] = v
  PROVE  d = Append(c, v)
OBVIOUS

\* A sequence that loses its first item is its tail.
LEMMA Shrinks ==
  ASSUME NEW n \in Nat \ {0}, NEW c \in Seq(Items), Len(c) = n, NEW d \in Seq(Items), Len(d) = n - 1,
         \A i \in 1 .. n - 1 : d[i] = c[i + 1]
  PROVE  c # <<>> /\ d = Tail(c) /\ Head(c) = c[1]
OBVIOUS

\* prvCopyDataToQueue puts an item behind the others ...
LEMMA PutFacts ==
  ASSUME QueueInv, uxMessagesWaiting < uxLength, NEW v \in Items, prvCopyDataToQueue(v)
  PROVE  QueueInv' /\ Contents' = Append(Contents, v)
<1> DEFINE n == uxMessagesWaiting
           p == pcReadFrom
<1>1. /\ uxLength \in Nat \ {0} /\ n \in 0 .. uxLength - 1 /\ n \in Nat /\ p \in Places
      /\ storage \in [Places -> Items] /\ pcWriteTo = (p + (n + 1)) % uxLength
  BY QueueAssumption DEF QueueInv, Places
<1>2. /\ storage' = [storage EXCEPT ![pcWriteTo] = v] /\ pcWriteTo' = Advance(pcWriteTo)
      /\ n' = n + 1 /\ p' = p
  BY DEF prvCopyDataToQueue
<1>3. pcWriteTo \in Places
  BY <1>1, PlaceAt
<1>4. storage' \in [Places -> Items]
  BY <1>1, <1>2
<1>5. pcWriteTo' = (p + ((n + 1) + 1)) % uxLength
  <2>1. pcWriteTo' = (pcWriteTo + 1) % uxLength
    BY <1>2, <1>3, AdvanceIs
  <2>2. PICK q \in Places : q = (p + 1) % uxLength
    BY <1>1, AdvanceIs
  <2>3. n \in 0 .. uxLength /\ n + 1 \in 0 .. uxLength
    BY <1>1
  <2>4. pcWriteTo = (q + n) % uxLength /\ (p + ((n + 1) + 1)) % uxLength = (q + (n + 1)) % uxLength
    BY <1>1, <2>2, <2>3, OneFurther
  <2>5. n \in 0 .. uxLength + 1 /\ n + 1 \in 0 .. uxLength + 1 /\ 1 \in 0 .. uxLength + 1
    BY <1>1
  <2>6. /\ (q + n) % uxLength = IF q + n < uxLength THEN q + n
                               ELSE IF q + n < 2 * uxLength THEN q + n - uxLength
                               ELSE q + n - 2 * uxLength
        /\ (q + (n + 1)) % uxLength = IF q + (n + 1) < uxLength THEN q + (n + 1)
                               ELSE IF q + (n + 1) < 2 * uxLength THEN q + (n + 1) - uxLength
                               ELSE q + (n + 1) - 2 * uxLength
    BY <2>5, PlaceAt
  <2>7. pcWriteTo' = IF pcWriteTo + 1 >= uxLength THEN 0 ELSE pcWriteTo + 1
    BY <1>2 DEF Advance
  <2>8. pcWriteTo' = (q + (n + 1)) % uxLength
    BY <1>1, <1>3, <2>4, <2>6, <2>7 DEF Places
  <2> QED
    BY <2>4, <2>8
<1>6. QueueInv'
  <2>1. p + 1 + (n + 1) = p + ((n + 1) + 1) /\ n + 1 \in 0 .. uxLength
    BY <1>1 DEF Places
  <2> QED
    BY <1>1, <1>2, <1>4, <1>5, <2>1 DEF QueueInv
<1>7. ASSUME NEW i \in 1 .. n PROVE (p + i) % uxLength \in Places /\ (p + i) % uxLength # pcWriteTo
  <2>1. i \in 0 .. uxLength + 1 /\ n + 1 \in 0 .. uxLength + 1
    BY <1>1
  <2>2. /\ (p + i) % uxLength \in Places
        /\ (p + i) % uxLength = IF p + i < uxLength THEN p + i
                                ELSE IF p + i < 2 * uxLength THEN p + i - uxLength
                                ELSE p + i - 2 * uxLength
        /\ (p + (n + 1)) % uxLength = IF p + (n + 1) < uxLength THEN p + (n + 1)
                               ELSE IF p + (n + 1) < 2 * uxLength THEN p + (n + 1) - uxLength
                               ELSE p + (n + 1) - 2 * uxLength
    BY <1>1, <2>1, PlaceAt
  <2>3. (p + i) % uxLength # (p + (n + 1)) % uxLength
    BY <1>1, <2>2 DEF Places
  <2> QED
    BY <1>1, <2>2, <2>3
<1>8. Contents = [i \in 1 .. n |-> storage[(p + i) % uxLength]]
  BY DEF Contents
<1>9. Contents' = [i \in 1 .. n + 1 |-> storage'[(p + i) % uxLength]]
  BY <1>2 DEF Contents
<1>10. \A i \in 1 .. n : Contents'[i] = Contents[i]
  <2> TAKE i \in 1 .. n
  <2>1. i \in 1 .. n + 1
    BY <1>1
  <2>2. storage'[(p + i) % uxLength] = storage[(p + i) % uxLength]
    BY <1>1, <1>2, <1>3, <1>7
  <2> QED
    BY <1>8, <1>9, <2>1, <2>2, Zenon
<1>11. Contents'[n + 1] = v
  <2>1. n + 1 \in 1 .. n + 1
    BY <1>1
  <2>2. storage'[pcWriteTo] = v
    BY <1>1, <1>2, <1>3
  <2> QED
    BY <1>1, <1>9, <2>1, <2>2, Zenon
<1>12. Contents \in Seq(Items) /\ Len(Contents) = n
  BY ContentsFacts, Zenon DEF ContentsAre
<1>13. Contents' \in Seq(Items) /\ Len(Contents') = n + 1
  BY <1>2, <1>6, ContentsWillBe, Zenon DEF ContentsAre
<1> HIDE DEF n, p
<1>14. Contents' = Append(Contents, v)
  <2>1. PICK c, d : c = Contents /\ d = Contents'
    OBVIOUS
  <2>2. /\ n \in Nat /\ c \in Seq(Items) /\ Len(c) = n /\ d \in Seq(Items) /\ Len(d) = n + 1
        /\ \A i \in 1 .. n : d[i] = c[i]
        /\ d[n + 1] = v
    BY <1>1, <1>10, <1>11, <1>12, <1>13, <2>1, Zenon
  <2>3. d = Append(c, v)
    BY <2>2, Grows
  <2> QED
    BY <2>1, <2>3, Zenon
<1> QED
  BY <1>6, <1>14

\* ... and prvCopyDataFromQueue takes the first one.
LEMMA GetFacts ==
  ASSUME QueueInv, uxMessagesWaiting > 0, prvCopyDataFromQueue
  PROVE  /\ QueueInv' /\ Contents # <<>> /\ Contents' = Tail(Contents)
         /\ storage[pcReadFrom'] = Head(Contents)
<1> DEFINE n == uxMessagesWaiting
           p == pcReadFrom
<1>1. /\ uxLength \in Nat \ {0} /\ n \in 1 .. uxLength /\ n \in Nat \ {0} /\ p \in Places
      /\ storage \in [Places -> Items] /\ pcWriteTo = (p + (n + 1)) % uxLength
  BY QueueAssumption DEF QueueInv, Places
<1>2. /\ p' = Advance(p) /\ n' = n - 1 /\ UNCHANGED <<storage, pcWriteTo>>
  BY DEF prvCopyDataFromQueue
<1>3. p' = (p + 1) % uxLength /\ p' \in Places
  BY <1>1, <1>2, AdvanceIs
<1>4. \A i \in 0 .. n : (p' + i) % uxLength = (p + (i + 1)) % uxLength
  BY <1>1, <1>3, OneFurther
<1>5. QueueInv'
  <2>1. pcWriteTo = (p' + n) % uxLength
    BY <1>1, <1>4
  <2>2. p' + 1 + (n - 1) = p' + n /\ n - 1 \in 0 .. uxLength
    BY <1>1, <1>3 DEF Places
  <2> QED
    BY <1>1, <1>2, <1>3, <2>1, <2>2 DEF QueueInv
<1>6. Contents = [i \in 1 .. n |-> storage[(p + i) % uxLength]]
  BY DEF Contents
<1>7. Contents' = [i \in 1 .. n - 1 |-> storage[(p' + i) % uxLength]]
  BY <1>2 DEF Contents
<1>8. \A i \in 1 .. n - 1 : Contents'[i] = Contents[i + 1]
  <2> TAKE i \in 1 .. n - 1
  <2>1. i + 1 \in 1 .. n /\ i \in 0 .. n
    BY <1>1
  <2> QED
    BY <1>4, <1>6, <1>7, <2>1, Zenon
<1>9. Contents[1] = storage[p']
  <2>1. 1 \in 1 .. n
    BY <1>1
  <2> QED
    BY <1>3, <1>6, <2>1, Zenon
<1>10. Contents \in Seq(Items) /\ Len(Contents) = n
  BY ContentsFacts, Zenon DEF ContentsAre
<1>11. Contents' \in Seq(Items) /\ Len(Contents') = n - 1
  BY <1>2, <1>5, ContentsWillBe, Zenon DEF ContentsAre
<1> HIDE DEF n, p
<1>12. Contents # <<>> /\ Contents' = Tail(Contents) /\ Head(Contents) = Contents[1]
  <2>1. PICK c, d : c = Contents /\ d = Contents'
    OBVIOUS
  <2>2. /\ n \in Nat \ {0} /\ c \in Seq(Items) /\ Len(c) = n /\ d \in Seq(Items) /\ Len(d) = n - 1
        /\ \A i \in 1 .. n - 1 : d[i] = c[i + 1]
    BY <1>1, <1>8, <1>10, <1>11, <2>1, Zenon
  <2>3. c # <<>> /\ d = Tail(c) /\ Head(c) = c[1]
    BY <2>2, Shrinks
  <2> QED
    BY <2>1, <2>3, Zenon
<1> QED
  BY <1>5, <1>9, <1>12, Zenon DEF p

\* What the callers see of a call.
Seen(c) == IF c = NoCall THEN NoCall
           ELSE [kind |-> c.kind, item |-> c.item, forever |-> c.ticks = MAX_DELAY]
SeenCalls == [t \in Tasks |-> Seen(call[t])]

LEMMA SeenFacts ==
  ASSUME NEW c \in QueueCalls
  PROVE  /\ c # NoCall /\ Seen(c) # NoCall /\ Seen(c).kind = c.kind /\ Seen(c).item = c.item
         /\ c.ticks # MAX_DELAY => ~Seen(c).forever
         /\ \A d \in QueueCalls : /\ d.kind = c.kind /\ d.item = c.item
                                  /\ d.ticks = MAX_DELAY <=> c.ticks = MAX_DELAY
                                  => Seen(d) = Seen(c)
<1>1. \A d \in QueueCalls : d # NoCall
  BY DEF QueueCalls, NoCall
<1>2. Seen(c) = [kind |-> c.kind, item |-> c.item, forever |-> c.ticks = MAX_DELAY]
  BY <1>1, Zenon DEF Seen
<1>3. Seen(c).kind = c.kind /\ Seen(c).item = c.item
  BY <1>2
<1>4. Seen(c) # NoCall
  BY <1>3 DEF QueueCalls, NoCall
<1>5. c.ticks # MAX_DELAY => ~Seen(c).forever
  <2>1. PICK b : b = (c.ticks = MAX_DELAY)
    OBVIOUS
  <2>2. Seen(c) = [kind |-> c.kind, item |-> c.item, forever |-> b]
    BY <1>2, <2>1, Zenon
  <2>3. Seen(c).forever = b
    BY <2>2
  <2> QED
    BY <2>1, <2>3, Zenon
<1>6. ASSUME NEW d \in QueueCalls, d.kind = c.kind, d.item = c.item,
             d.ticks = MAX_DELAY <=> c.ticks = MAX_DELAY
      PROVE  Seen(d) = Seen(c)
  <2>1. Seen(d) = [kind |-> d.kind, item |-> d.item, forever |-> d.ticks = MAX_DELAY]
    BY <1>1, Zenon DEF Seen
  <2>2. (d.ticks = MAX_DELAY) = (c.ticks = MAX_DELAY)
    BY <1>6
  <2> QED
    BY <1>2, <1>6, <2>1, <2>2, Zenon
<1> QED
  BY <1>1, <1>3, <1>4, <1>5, <1>6

\* A call that returns is gone for its caller.
LEMMA SeenReturn ==
  ASSUME KernelInv, NEW t \in Tasks, NEW v, Returns(t, v)
  PROVE  Fifo!Return(t, v)
<1>1. call' = [call EXCEPT ![t] = NoCall] /\ ret' = [ret EXCEPT ![t] = v]
  BY DEF Returns
<1>2. call'[t] = NoCall /\ \A u \in Tasks \ {t} : call'[u] = call[u]
  BY <1>1 DEF KernelInv, KernelTypes
<1>3. SeenCalls' = [SeenCalls EXCEPT ![t] = NoCall]
  BY <1>2 DEF SeenCalls, Seen
<1> QED
  BY <1>1, <1>3 DEF Fifo!Return, SeenCalls, Seen

\* The caller sees nothing of a step that leaves the queue and what it asked for alone.
LEMMA SeenNothing ==
  ASSUME UNCHANGED queueVars, UNCHANGED ret, SeenCalls' = SeenCalls
  PROVE  UNCHANGED Fifo!fifo
<1>1. Contents' = Contents
  BY DEF queueVars, Contents
<1> QED
  BY <1>1 DEF Fifo!fifo, SeenCalls, Seen

LEMMA BeginStep ==
  ASSUME KernelInv, NEW t \in Tasks, NEW c \in Calls[t], Call(t, c)
  PROVE  Fifo!Begin(t) /\ UNCHANGED queueVars
<1>1. c \in QueueCalls
  BY QueueAssumption DEF Call, QueueCalls
<1>2. /\ Runs(t) /\ pc[t] = "idle" /\ call' = [call EXCEPT ![t] = c]
      /\ ret' = [ret EXCEPT ![t] = "none"] /\ UNCHANGED queueVars
  BY DEF Call
<1>3. call[t] = NoCall
  BY <1>2, Running DEF CallState
<1>4. call'[t] = c /\ \A u \in Tasks \ {t} : call'[u] = call[u]
  BY <1>2 DEF KernelInv, KernelTypes
<1>5. SeenCalls[t] = NoCall /\ SeenCalls'[t] = Seen(c)
  BY <1>3, <1>4, Zenon DEF SeenCalls, Seen
<1>6. \A u \in Tasks \ {t} : SeenCalls'[u] = SeenCalls[u]
  BY <1>4, Zenon DEF SeenCalls
<1>7. SeenCalls' = [SeenCalls EXCEPT ![t] = SeenCalls'[t]]
  <2>1. /\ SeenCalls = [u \in Tasks |-> SeenCalls[u]]
        /\ SeenCalls' = [u \in Tasks |-> SeenCalls'[u]]
    BY DEF SeenCalls
  <2> HIDE DEF SeenCalls
  <2> QED
    BY <1>6, <2>1
<1>8. SeenCalls'[t].kind \in {"send", "receive"} /\ SeenCalls'[t].item \in Items
  BY <1>1, <1>5, SeenFacts DEF QueueCalls
<1>9. Contents' = Contents
  BY <1>2 DEF queueVars, Contents
<1> QED
  BY <1>2, <1>5, <1>7, <1>8, <1>9, Zenon DEF Fifo!Begin, SeenCalls, Seen

LEMMA PutStep ==
  ASSUME KernelInv, QueueInv, NEW t \in Tasks, SendTry(t)
  PROVE  Fifo!Put(t) /\ QueueInv'
<1>1. /\ Runs(t) /\ pc[t] = "try" /\ call[t].kind = "send" /\ uxMessagesWaiting # uxLength
      /\ prvCopyDataToQueue(call[t].item) /\ Returns(t, "ok")
  BY DEF SendTry, Blocks
<1>2. call[t] \in QueueCalls
  BY <1>1, Running DEF CallState, Leaving
<1>3. uxMessagesWaiting < uxLength /\ call[t].item \in Items
  BY <1>1, <1>2, QueueAssumption DEF QueueInv, QueueCalls
<1>4. QueueInv' /\ Contents' = Append(Contents, call[t].item)
  BY <1>1, <1>3, PutFacts
<1>5. Len(Contents) < uxLength
  BY <1>3, ContentsFacts DEF ContentsAre
<1>6. Fifo!Return(t, "ok")
  BY <1>1, SeenReturn
<1>7. /\ SeenCalls[t] # NoCall /\ SeenCalls[t].kind = "send"
      /\ SeenCalls[t].item = call[t].item
  <2>1. SeenCalls[t] = Seen(call[t])
    BY DEF SeenCalls
  <2> QED
    BY <1>1, <1>2, <2>1, SeenFacts
<1> QED
  BY <1>4, <1>5, <1>6, <1>7, Zenon DEF Fifo!Put, SeenCalls, Seen

LEMMA GetStep ==
  ASSUME KernelInv, QueueInv, NEW t \in Tasks, ReceiveTry(t)
  PROVE  Fifo!Get(t) /\ QueueInv'
<1>1. /\ Runs(t) /\ pc[t] = "try" /\ call[t].kind = "receive" /\ uxMessagesWaiting # 0
      /\ prvCopyDataFromQueue /\ Returns(t, storage[pcReadFrom'])
  BY DEF ReceiveTry, Blocks
<1>2. call[t] \in QueueCalls
  BY <1>1, Running DEF CallState, Leaving
<1>3. uxMessagesWaiting > 0
  BY <1>1, QueueAssumption DEF QueueInv
<1>4. /\ QueueInv' /\ Contents # <<>> /\ Contents' = Tail(Contents)
      /\ storage[pcReadFrom'] = Head(Contents)
  BY <1>1, <1>3, GetFacts
<1>5. PICK v : v = storage[pcReadFrom']
  OBVIOUS
<1>6. Fifo!Return(t, v) /\ v = Head(Contents)
  BY <1>1, <1>4, <1>5, SeenReturn, Zenon
<1>7. SeenCalls[t] # NoCall /\ SeenCalls[t].kind = "receive"
  <2>1. SeenCalls[t] = Seen(call[t])
    BY DEF SeenCalls
  <2> QED
    BY <1>1, <1>2, <2>1, SeenFacts
<1> QED
  BY <1>4, <1>6, <1>7, Zenon DEF Fifo!Get, Fifo!Return, SeenCalls, Seen

\* A call is refused that has no time, or whose time is over; a receive only while there
\* is nothing to receive.
LEMMA RefuseStep ==
  ASSUME KernelInv, QueueInv, NEW t \in Tasks, call[t] \in QueueCalls, call[t].ticks # MAX_DELAY,
         call[t].kind = "receive" => uxMessagesWaiting = 0,
         Returns(t, "refused"), UNCHANGED queueVars
  PROVE  Fifo!Refuse(t) /\ QueueInv'
<1>1. QueueInv'
  BY DEF QueueInv, queueVars
<1>2. Contents' = Contents
  BY DEF queueVars, Contents
<1>3. call[t].kind = "receive" => Contents = <<>>
  BY ContentsFacts DEF ContentsAre
<1>4. /\ SeenCalls[t] # NoCall /\ ~SeenCalls[t].forever /\ SeenCalls[t].kind = call[t].kind
  <2>1. SeenCalls[t] = Seen(call[t])
    BY DEF SeenCalls
  <2>2. Seen(call[t]) # NoCall /\ ~Seen(call[t]).forever /\ Seen(call[t]).kind = call[t].kind
    BY SeenFacts, Zenon
  <2> QED
    BY <2>1, <2>2, Zenon
<1>5. Fifo!Return(t, "refused")
  BY SeenReturn
<1> QED
  BY <1>1, <1>2, <1>3, <1>4, <1>5, Zenon DEF Fifo!Refuse, SeenCalls, Seen

\* The rest of a call's loop: the callers see at most a call that is refused.
LEMMA LoopStep ==
  ASSUME KernelInv, QueueInv, NEW t \in Tasks,
         TryBlocks(t) \/ Expired(t) \/ DelayReturns(t)
  PROVE  (Fifo!Refuse(t) \/ UNCHANGED Fifo!fifo) /\ QueueInv'
<1>1. UNCHANGED queueVars /\ Runs(t)
  BY DEF TryBlocks, Expired, DelayReturns
<1>2. QueueInv'
  BY <1>1 DEF QueueInv, queueVars
<1>3. CASE UNCHANGED <<call, ret>>
  <2>1. SeenCalls' = SeenCalls
    BY <1>3 DEF SeenCalls, Seen
  <2> QED
    BY <1>1, <1>2, <1>3, <2>1, SeenNothing
<1>4. CASE TryBlocks(t)
  <2>1. call[t] \in QueueCalls /\ pc[t] = "try" /\ Blocks(call[t].kind)
    BY <1>4, Running DEF TryBlocks, CallState, Leaving
  <2>2. CASE call[t].ticks = 0
    <3>1. Returns(t, "refused")
      BY <1>4, <2>2 DEF TryBlocks
    <3>2. call[t].ticks # MAX_DELAY
      BY <2>2, SchedulerAssumption
    <3>3. call[t].kind = "receive" => uxMessagesWaiting = 0
      BY <2>1 DEF Blocks
    <3> QED
      BY <1>1, <2>1, <3>1, <3>2, <3>3, RefuseStep
  <2>3. CASE call[t].ticks # 0
    BY <1>3, <1>4, <2>3 DEF TryBlocks
  <2> QED
    BY <2>2, <2>3
<1>5. CASE Expired(t)
  <2>1. call[t] \in QueueCalls /\ call[t].ticks # MAX_DELAY
    BY <1>5, Running DEF Expired, CallState, Leaving
  <2>2. CASE call[t].kind = "receive" /\ uxMessagesWaiting > 0
    BY <1>3, <1>5, <2>2 DEF Expired
  <2>3. CASE ~(call[t].kind = "receive" /\ uxMessagesWaiting > 0)
    <3>1. Returns(t, "refused")
      BY <1>5, <2>3 DEF Expired
    <3>2. call[t].kind = "receive" => uxMessagesWaiting = 0
      BY <2>3, QueueAssumption DEF QueueInv
    <3> QED
      BY <1>1, <2>1, <3>1, <3>2, RefuseStep
  <2> QED
    BY <2>2, <2>3
<1>6. CASE DelayReturns(t)
  <2>1. call[t] = NoCall
    BY <1>6, Running DEF DelayReturns, CallState
  <2>2. call' = [call EXCEPT ![t] = NoCall] /\ ret' = [ret EXCEPT ![t] = ret[t]]
    BY <1>6 DEF DelayReturns, Returns
  <2>3. call' = call /\ ret' = ret
    BY <2>1, <2>2 DEF KernelInv, KernelTypes
  <2> QED
    BY <1>3, <2>3
<1> QED
  BY <1>4, <1>5, <1>6

\* xTaskCheckForTimeOut counts the time down, but never from or to a wait for ever.
LEMMA CountsDown ==
  ASSUME KernelInv, NEW t \in Tasks, xTaskCheckForTimeOut(t)
  PROVE  UNCHANGED Fifo!fifo /\ UNCHANGED queueVars
<1>1. Runs(t) /\ pc[t] = "check" /\ UNCHANGED ret /\ UNCHANGED queueVars
  BY DEF xTaskCheckForTimeOut
<1>2. call[t] \in QueueCalls
  BY <1>1, Running DEF CallState, Leaving
<1>3. call[t].ticks \in Ticks /\ MAX_DELAY \in Nat \ {0} /\ Ticks = 0 .. MAX_DELAY
  BY <1>2, SchedulerAssumption DEF QueueCalls, Ticks
<1>4. PICK n \in Ticks : /\ call' = [call EXCEPT ![t] = [call[t] EXCEPT !.ticks = n]]
                         /\ n = MAX_DELAY <=> call[t].ticks = MAX_DELAY
  <2>1. CASE TimedOut(t)
    <3> DEFINE n == IF WholeRound(t) THEN call[t].ticks ELSE 0
    <3>1. call' = [call EXCEPT ![t] = [call[t] EXCEPT !.ticks = n]]
      BY <2>1 DEF xTaskCheckForTimeOut
    <3>2. n \in Ticks /\ n # MAX_DELAY /\ call[t].ticks # MAX_DELAY
      BY <1>3, <2>1 DEF TimedOut
    <3> HIDE DEF n
    <3> QED
      BY <3>1, <3>2
  <2>2. CASE ~TimedOut(t)
    <3> DEFINE n == IF call[t].ticks = MAX_DELAY THEN call[t].ticks ELSE call[t].ticks - Elapsed(t)
    <3>1. call' = [call EXCEPT ![t] = [call[t] EXCEPT !.ticks = n]]
      BY <2>2 DEF xTaskCheckForTimeOut
    <3>2. Elapsed(t) \in Nat
      <4>1. k.tick \in Int /\ xTimeOut[t].at \in Int
        BY <1>3 DEF KernelInv, KernelTypes, Kernels, Times
      <4> QED
        BY <1>3, <4>1 DEF Elapsed
    <3>3. call[t].ticks = MAX_DELAY \/ ~(Elapsed(t) >= call[t].ticks)
      BY <2>2 DEF TimedOut
    <3>4. n \in Ticks /\ (n = MAX_DELAY <=> call[t].ticks = MAX_DELAY)
      BY <1>3, <3>2, <3>3
    <3> HIDE DEF n
    <3> QED
      BY <3>1, <3>4
  <2> QED
    BY <2>1, <2>2
<1>5. PICK d : d = [call[t] EXCEPT !.ticks = n]
  OBVIOUS
<1>6. d \in QueueCalls /\ d.kind = call[t].kind /\ d.item = call[t].item /\ d.ticks = n
  BY <1>2, <1>5 DEF QueueCalls
<1>7. Seen(d) = Seen(call[t])
  BY <1>2, <1>4, <1>6, SeenFacts
<1>8. call'[t] = d /\ \A u \in Tasks \ {t} : call'[u] = call[u]
  BY <1>4, <1>5 DEF KernelInv, KernelTypes
<1>9. SeenCalls' = SeenCalls
  <2>1. \A u \in Tasks : Seen(call'[u]) = Seen(call[u])
    BY <1>7, <1>8
  <2>2. SeenCalls' = [u \in Tasks |-> Seen(call'[u])]
    BY DEF SeenCalls, Seen
  <2> QED
    BY <2>1, <2>2, Zenon DEF SeenCalls
<1> QED
  BY <1>1, <1>9, SeenNothing

\* The interrupts.
LEMMA PutIsr ==
  ASSUME KernelInv, QueueInv, NEW v \in IsrItems, xQueueGenericSendFromISR(v)
  PROVE  Fifo!PutFromISR /\ QueueInv'
<1>1. uxMessagesWaiting < uxLength /\ prvCopyDataToQueue(v) /\ UNCHANGED <<call, ret>>
  BY DEF xQueueGenericSendFromISR, taskVars
<1>2. v \in Items
  BY QueueAssumption
<1>3. QueueInv' /\ Contents' = Append(Contents, v)
  BY <1>1, <1>2, PutFacts
<1>4. Len(Contents) < uxLength
  BY <1>1, ContentsFacts DEF ContentsAre
<1>5. SeenCalls' = SeenCalls
  BY <1>1 DEF SeenCalls, Seen
<1> QED
  BY <1>1, <1>2, <1>3, <1>4, <1>5, Zenon DEF Fifo!PutFromISR, SeenCalls, Seen

LEMMA GetIsr ==
  ASSUME KernelInv, QueueInv, xQueueReceiveFromISR
  PROVE  Fifo!GetFromISR /\ QueueInv'
<1>1. uxMessagesWaiting > 0 /\ prvCopyDataFromQueue /\ UNCHANGED <<call, ret>>
  BY DEF xQueueReceiveFromISR, taskVars
<1>2. QueueInv' /\ Contents # <<>> /\ Contents' = Tail(Contents)
  BY <1>1, GetFacts
<1>3. SeenCalls' = SeenCalls
  BY <1>1 DEF SeenCalls, Seen
<1> QED
  BY <1>1, <1>2, <1>3, Zenon DEF Fifo!GetFromISR, SeenCalls, Seen

\* Every step is one of the buffer's, or changes nothing of it.
LEMMA FifoStep ==
  KernelInv /\ QueueInv /\ [Next]_vars => QueueInv' /\ [Fifo!Next]_(Fifo!fifo)
<1> SUFFICES ASSUME KernelInv, QueueInv, [Next]_vars
             PROVE  QueueInv' /\ (Fifo!Next \/ UNCHANGED Fifo!fifo)
  BY Zenon
<1>1. ASSUME UNCHANGED <<queueVars, call, ret>> PROVE QueueInv' /\ UNCHANGED Fifo!fifo
  <2>1. QueueInv'
    BY <1>1 DEF QueueInv, queueVars
  <2>2. SeenCalls' = SeenCalls
    BY <1>1 DEF SeenCalls, Seen
  <2> QED
    BY <1>1, <2>1, <2>2, SeenNothing
<1>2. ASSUME NEW t \in Tasks, TaskStep(t) PROVE QueueInv' /\ (Fifo!Next \/ UNCHANGED Fifo!fifo)
  <2>1. CASE \E c \in Calls[t] : Call(t, c)
    <3>1. Fifo!Begin(t) /\ UNCHANGED queueVars
      BY <2>1, BeginStep
    <3>2. QueueInv'
      BY <3>1 DEF QueueInv, queueVars
    <3> QED
      BY <3>1, <3>2, Zenon DEF Fifo!Next
  <2>2. CASE SendTry(t)
    BY <2>2, PutStep, Zenon DEF Fifo!Next
  <2>3. CASE ReceiveTry(t)
    BY <2>3, GetStep, Zenon DEF Fifo!Next
  <2>4. CASE TryBlocks(t) \/ Expired(t) \/ DelayReturns(t)
    BY <2>4, LoopStep, Zenon DEF Fifo!Next
  <2>5. CASE xTaskCheckForTimeOut(t)
    <3>1. UNCHANGED Fifo!fifo /\ UNCHANGED queueVars
      BY <2>5, CountsDown
    <3>2. QueueInv'
      BY <3>1 DEF QueueInv, queueVars
    <3> QED
      BY <3>1, <3>2, Zenon
  <2>6. CASE \/ \E c \in Calls[t] : vTaskDelay(t, c)
             \/ SuspendAll(t) \/ prvLockQueue(t) \/ NoLongerBlocks(t) \/ StillBlocks(t)
             \/ Place(t) \/ UnlockTx(t) \/ UnlockRx(t) \/ Resume(t)
    <3>1. UNCHANGED <<queueVars, call, ret>>
      BY <2>6, Zenon DEF vTaskDelay, SuspendAll, prvLockQueue, NoLongerBlocks, StillBlocks, Place,
        UnlockTx, UnlockRx, Resume
    <3> QED
      BY <1>1, <3>1, Zenon
  <2> QED
    BY <1>2, <2>1, <2>2, <2>3, <2>4, <2>5, <2>6, Zenon DEF TaskStep
<1>3. CASE \/ \E t \in Tasks : xPortPendSVHandler(t)
           \/ xPortSysTickHandler \/ UNCHANGED vars
  <2>1. UNCHANGED <<queueVars, call, ret>>
    BY <1>3 DEF xPortPendSVHandler, xPortSysTickHandler, vars, taskVars
  <2> QED
    BY <1>1, <2>1, Zenon
<1>4. CASE \E v \in IsrItems : xQueueGenericSendFromISR(v)
  BY <1>4, PutIsr, Zenon DEF Fifo!Next
<1>5. CASE xQueueReceiveFromISR
  BY <1>5, GetIsr, Zenon DEF Fifo!Next
<1> QED
  BY <1>2, <1>3, <1>4, <1>5, Zenon DEF Next

LEMMA FifoInit == Init => QueueInv /\ Fifo!Init
<1> SUFFICES ASSUME Init PROVE QueueInv /\ Fifo!Init
  OBVIOUS
<1>1. /\ uxLength \in Nat \ {0} /\ Items # {} /\ pcWriteTo = 0 /\ pcReadFrom = uxLength - 1
      /\ uxMessagesWaiting = 0 /\ storage \in [Places -> {CHOOSE v \in Items : TRUE}]
  BY QueueAssumption DEF Init
<1>2. storage \in [Places -> Items] /\ pcReadFrom \in Places /\ uxMessagesWaiting \in 0 .. uxLength
  BY <1>1 DEF Places
<1>3. pcWriteTo = (pcReadFrom + 1 + uxMessagesWaiting) % uxLength
  <2>1. 0 \in Places
    BY <1>1 DEF Places
  <2>2. (0 + uxLength) % uxLength = 0
    BY <2>1, Round
  <2>3. pcReadFrom + 1 + uxMessagesWaiting = 0 + uxLength
    BY <1>1
  <2> QED
    BY <1>1, <2>2, <2>3
<1>4. QueueInv
  BY <1>2, <1>3 DEF QueueInv
<1>5. Contents = <<>>
  BY <1>1, <1>4, ContentsFacts DEF ContentsAre
<1>6. SeenCalls = [t \in Tasks |-> NoCall] /\ ret = [t \in Tasks |-> "none"]
  BY DEF Init, SeenCalls, Seen
<1> QED
  BY <1>4, <1>5, <1>6, Zenon DEF Fifo!Init, SeenCalls, Seen

\* Sends and receives of any tasks and interrupts, with any waits, through the loops, the
\* lock and the time limits, are single steps of a first-in first-out buffer: no item is
\* lost, doubled or overtaken, and a receive is refused only by an empty queue.
THEOREM QueueImplementsFifo == Spec => FifoSpec
<1>1. Init => Fifo!Init /\ QueueInv
  BY FifoInit
<1>2. Spec => []KernelInv
  BY KernelInvHolds
<1>3. KernelInv /\ QueueInv /\ [Next]_vars => QueueInv' /\ [Fifo!Next]_(Fifo!fifo)
  BY FifoStep
<1> QED
  BY <1>1, <1>2, <1>3, PTL DEF Spec, FifoSpec, Fifo!Spec

-----------------------------------------------------------------------------
(* The tasks in a list *)

Members(s) == {s[i] : i \in DOMAIN s}
Once(s) == \A i, j \in DOMAIN s : s[i] = s[j] => i = j

\* The members of two lists that are joined.
LEMMA Joined ==
  ASSUME NEW x \in Seq(Tasks), NEW v \in Seq(Tasks)
  PROVE  x \o v \in Seq(Tasks) /\ Len(x \o v) = Len(x) + Len(v)
OBVIOUS

\* A task that is inserted joins the others.
LEMMA InsertFacts ==
  ASSUME NEW s \in Seq(Tasks), NEW t \in Tasks
  PROVE  LET w == vListInsert(s, t) IN
         /\ Members(w) = Members(s) \cup {t}
         /\ Once(s) /\ t \notin Members(s) => Once(w)
<1> DEFINE lower == {i \in DOMAIN s : Priority[s[i]] < Priority[t]}
           at == IF lower = {} THEN Len(s) + 1 ELSE CHOOSE i \in lower : \A j \in lower : i <= j
<1>1. at \in 1 .. Len(s) + 1
  <2>1. lower \subseteq 1 .. Len(s)
    OBVIOUS
  <2>2. CASE lower = {}
    BY <2>2
  <2>3. CASE lower # {}
    <3>1. lower \subseteq Nat
      BY <2>1
    <3>2. \E i \in lower : \A j \in lower : i <= j
      <4> HIDE DEF lower
      <4> QED  BY <2>3, <3>1, LeastNumber
    <3>3. at \in lower
      BY <2>3, <3>2
    <3> QED
      BY <2>1, <3>3
  <2> QED
    BY <2>2, <2>3
<1>2. vListInsert(s, t) = SubSeq(s, 1, at - 1) \o <<t>> \o SubSeq(s, at, Len(s))
  BY DEF vListInsert
<1> HIDE DEF at
<1>3. PICK n \in Nat : n = Len(s) /\ DOMAIN s = 1 .. n
  OBVIOUS
<1>4. PICK u : u = SubSeq(s, 1, at - 1)
  OBVIOUS
<1>5. PICK v : v = SubSeq(s, at, Len(s))
  OBVIOUS
<1>6. u \in Seq(Tasks) /\ Len(u) = at - 1 /\ \A i \in 1 .. at - 1 : u[i] = s[i]
  BY <1>1, <1>4
<1>7. v \in Seq(Tasks) /\ Len(v) = (n + 1) - at /\ \A i \in 1 .. (n + 1) - at : v[i] = s[i + at - 1]
  BY <1>1, <1>3, <1>5
<1>8. PICK x : x = u \o <<t>>
  OBVIOUS
<1>9. x \in Seq(Tasks) /\ Len(x) = at /\ x[at] = t /\ \A i \in 1 .. at - 1 : x[i] = s[i]
  <2>1. x \in Seq(Tasks) /\ Len(x) = at /\ x[at] = t
    BY <1>1, <1>6, <1>8
  <2>2. \A i \in 1 .. at - 1 : x[i] = u[i]
    BY <1>1, <1>6, <1>8
  <2> QED
    BY <1>6, <2>1, <2>2
<1>10. PICK w : w = x \o v
  OBVIOUS
<1>11. w \in Seq(Tasks) /\ Len(w) = n + 1
  <2>1. x \in Seq(Tasks) /\ v \in Seq(Tasks) /\ Len(x) = at /\ Len(v) = (n + 1) - at
    BY <1>7, <1>9
  <2>2. w \in Seq(Tasks) /\ Len(w) = Len(x) + Len(v)
    BY <1>10, <2>1, Joined, Zenon
  <2>3. at + ((n + 1) - at) = n + 1
    BY <1>1, <1>3
  <2> QED
    BY <2>1, <2>2, <2>3
<1>12. \A i \in 1 .. at : w[i] = x[i]
  <2>1. x \in Seq(Tasks) /\ v \in Seq(Tasks) /\ Len(x) = at
    BY <1>7, <1>9
  <2> QED
    BY <1>1, <1>10, <2>1
<1>13. \A i \in at + 1 .. n + 1 : w[i] = v[i - at]
  BY <1>1, <1>3, <1>7, <1>9, <1>10
<1>14. /\ w[at] = t /\ \A i \in 1 .. at - 1 : w[i] = s[i]
       /\ \A i \in at + 1 .. n + 1 : w[i] = s[i - 1]
  <2>1. ASSUME NEW i \in at + 1 .. n + 1 PROVE w[i] = s[i - 1]
    <3>1. i - at \in 1 .. (n + 1) - at /\ (i - at) + at - 1 = i - 1
      BY <1>1, <1>3
    <3>2. v[i - at] = s[i - 1]
      BY <1>7, <3>1
    <3> QED
      BY <1>13, <3>2
  <2> QED
    BY <1>1, <1>3, <1>9, <1>12, <2>1
<1>15. w = vListInsert(s, t) /\ DOMAIN w = 1 .. n + 1
  <2>1. DOMAIN w = 1 .. n + 1
    BY <1>11
  <2> QED
    BY <1>2, <1>4, <1>5, <1>8, <1>10, <2>1, Zenon
<1>16. Members(w) = Members(s) \cup {t}
  <2>1. ASSUME NEW i \in 1 .. n + 1 PROVE w[i] \in Members(s) \cup {t}
    <3>1. CASE i = at
      BY <1>14, <3>1
    <3>2. CASE i < at
      <4>1. i \in 1 .. n /\ w[i] = s[i]
        BY <1>1, <1>3, <1>14, <3>2
      <4> QED
        BY <1>3, <4>1 DEF Members
    <3>3. CASE i > at
      <4>1. i - 1 \in 1 .. n /\ w[i] = s[i - 1]
        BY <1>1, <1>3, <1>14, <3>3
      <4> QED
        BY <1>3, <4>1 DEF Members
    <3> QED
      BY <1>1, <3>1, <3>2, <3>3
  <2>2. ASSUME NEW i \in 1 .. n PROVE s[i] \in Members(w)
    <3>1. CASE i < at
      <4>1. i \in 1 .. n + 1 /\ w[i] = s[i]
        BY <1>1, <1>3, <1>14, <3>1
      <4> QED
        BY <1>15, <4>1 DEF Members
    <3>2. CASE ~(i < at)
      <4>1. i + 1 \in 1 .. n + 1 /\ i + 1 \in at + 1 .. n + 1 /\ (i + 1) - 1 = i
        BY <1>1, <1>3, <3>2
      <4>2. w[i + 1] = s[i]
        BY <1>14, <4>1
      <4> QED
        BY <1>15, <4>1, <4>2 DEF Members
    <3> QED
      BY <3>1, <3>2
  <2>3. t \in Members(w)
    BY <1>1, <1>3, <1>14, <1>15 DEF Members
  <2>4. Members(w) \subseteq Members(s) \cup {t}
    BY <1>15, <2>1 DEF Members
  <2>5. Members(s) \subseteq Members(w)
    BY <1>3, <2>2 DEF Members
  <2> QED
    BY <2>3, <2>4, <2>5
<1>17. ASSUME Once(s), t \notin Members(s) PROVE Once(w)
  <2>1. \A i, j \in 1 .. n : s[i] = s[j] => i = j
    BY <1>3, <1>17 DEF Once
  <2>2. \A i \in 1 .. n : s[i] # t
    BY <1>3, <1>17 DEF Members
  <2> DEFINE from(i) == IF i < at THEN i ELSE i - 1
  <2>3. ASSUME NEW i \in 1 .. n + 1, i # at PROVE from(i) \in 1 .. n /\ w[i] = s[from(i)]
    BY <1>1, <1>3, <1>14, <2>3
  <2>4. ASSUME NEW i \in 1 .. n + 1, NEW j \in 1 .. n + 1, w[i] = w[j] PROVE i = j
    <3>1. CASE i = at \/ j = at
      BY <1>14, <2>2, <2>3, <2>4, <3>1
    <3>2. CASE i # at /\ j # at
      <4>1. from(i) = from(j)
        BY <2>1, <2>3, <2>4, <3>2
      <4> QED
        BY <1>1, <1>3, <3>2, <4>1
    <3> QED
      BY <3>1, <3>2
  <2> QED
    BY <1>15, <2>4 DEF Once
<1> QED
  BY <1>15, <1>16, <1>17

\* What is left when tasks are removed: none of them, none that was not there, none twice.
LEMMA RemovedFacts ==
  ASSUME NEW n \in Nat, NEW s \in [1 .. n -> Tasks], NEW D,
         NEW kept, kept = Kept(n, s, D, kept), Once(s)
  PROVE  Once(kept[n]) /\ Members(kept[n]) \subseteq Members(s) \ D
<1> DEFINE Good == {m \in Nat : m <= n => /\ kept[m] \in Seq(Tasks) /\ Once(kept[m])
                                          /\ Members(kept[m]) \subseteq {s[i] : i \in 1 .. m} \ D}
<1>1. 0 \in Good
  <2>1. kept[0] = <<>>
    BY DEF Kept
  <2>2. PICK q : q = kept[0]
    OBVIOUS
  <2>3. q \in Seq(Tasks) /\ DOMAIN q = {}
    <3>1. q = <<>>
      BY <2>1, <2>2
    <3> QED
      BY <3>1
  <2>4. Once(q) /\ Members(q) = {}
    BY <2>3 DEF Once, Members
  <2> QED
    BY <2>2, <2>3, <2>4
<1>2. ASSUME NEW m \in Nat, m \in Good, m + 1 <= n PROVE m + 1 \in Good
  <2>1. PICK q : q = kept[m]
    OBVIOUS
  <2>2. PICK r : r = kept[m + 1]
    OBVIOUS
  <2>3. q \in Seq(Tasks) /\ Once(q) /\ Members(q) \subseteq {s[i] : i \in 1 .. m} \ D
    BY <1>2, <2>1
  <2>4. m + 1 \in 0 .. n /\ m + 1 # 0 /\ (m + 1) - 1 = m /\ m + 1 \in 1 .. n
    BY <1>2
  <2>5. r = IF s[m + 1] \in D THEN q ELSE Append(q, s[m + 1])
    BY <2>1, <2>2, <2>4, Zenon DEF Kept
  <2>6. {s[i] : i \in 1 .. m} \subseteq {s[i] : i \in 1 .. m + 1} /\ s[m + 1] \in {s[i] : i \in 1 .. m + 1}
    BY <1>2
  <2>7. CASE s[m + 1] \in D
    <3>1. r = q
      BY <2>5, <2>7
    <3>2. r \in Seq(Tasks) /\ Once(r) /\ Members(r) \subseteq {s[i] : i \in 1 .. m + 1} \ D
      BY <2>3, <2>6, <3>1, Zenon
    <3> QED
      BY <1>2, <2>2, <3>2
  <2>8. CASE s[m + 1] \notin D
    <3>1. PICK x \in Tasks : x = s[m + 1]
      BY <2>4
    <3>2. r = Append(q, x)
      BY <2>5, <2>8, <3>1
    <3>3. PICK l \in Nat : l = Len(q) /\ DOMAIN q = 1 .. l
      BY <2>3
    <3>4. r \in Seq(Tasks) /\ DOMAIN r = 1 .. l + 1 /\ r[l + 1] = x /\ \A i \in 1 .. l : r[i] = q[i]
      BY <2>3, <3>2, <3>3
    <3>5. \A i \in 1 .. l : q[i] \in Members(q)
      BY <3>3 DEF Members
    <3>6. Members(r) \subseteq {s[i] : i \in 1 .. m + 1} \ D
      <4>1. ASSUME NEW i \in 1 .. l + 1 PROVE r[i] \in {s[j] : j \in 1 .. m + 1} \ D
        <5>1. CASE i = l + 1
          BY <2>6, <2>8, <3>1, <3>4, <5>1
        <5>2. CASE i \in 1 .. l
          BY <2>3, <2>6, <3>4, <3>5, <5>2
        <5> QED
          BY <3>3, <5>1, <5>2
      <4> QED
        BY <3>4, <4>1 DEF Members
    <3>7. \A i \in 1 .. l : q[i] # x
      <4>1. \A j \in 1 .. m : s[j] # x
        <5>1. \A j \in 1 .. n : s[j] = s[m + 1] => j = m + 1
          BY <2>4 DEF Once
        <5> QED
          BY <1>2, <3>1, <5>1
      <4> QED
        BY <2>3, <3>5, <4>1
    <3>8. Once(r)
      <4>1. ASSUME NEW i \in 1 .. l + 1, NEW j \in 1 .. l + 1, r[i] = r[j] PROVE i = j
        <5>1. \A a, b \in 1 .. l : q[a] = q[b] => a = b
          BY <2>3, <3>3 DEF Once
        <5> QED
          BY <3>3, <3>4, <3>7, <4>1, <5>1
      <4> QED
        BY <3>4, <4>1 DEF Once
    <3> QED
      BY <1>2, <2>2, <3>4, <3>6, <3>8
  <2> QED
    BY <2>7, <2>8
<1>3. ASSUME NEW m \in Nat, m \in Good, ~(m + 1 <= n) PROVE m + 1 \in Good
  BY <1>3
<1>4. n \in Good
  <2> HIDE DEF Good
  <2> QED  BY <1>1, <1>2, <1>3, Induction
<1>5. Members(s) = {s[i] : i \in 1 .. n}
  BY DEF Members
<1> QED
  BY <1>4, <1>5

\* uxListRemove takes away exactly the tasks of D.
LEMMA RemoveManyFacts ==
  ASSUME NEW s \in Seq(Tasks), NEW D, Once(s)
  PROVE  LET r == uxListRemove(s, D) IN Once(r) /\ Members(r) \subseteq Members(s) \ D
<1>1. PICK n : n = Len(s)
  OBVIOUS
<1> DEFINE kept == CHOOSE f : f = Kept(n, s, D, f)
<1>2. uxListRemove(s, D) = kept[n]
  BY <1>1, Zenon DEF uxListRemove, Kept
<1>3. n \in Nat /\ s \in [1 .. n -> Tasks]
  BY <1>1
<1>4. \E f : f = Kept(n, s, D, f)
  BY <1>3, RemovingExists, Zenon
<1>5. kept = Kept(n, s, D, kept)
  BY <1>4, Zenon
<1> HIDE DEF kept
<1> QED
  BY <1>2, <1>3, <1>5, RemovedFacts, Zenon

\* The first task leaves.
LEMMA HeadFacts ==
  ASSUME NEW s \in Seq(Tasks), s # <<>>, Once(s)
  PROVE  /\ Head(s) \in Tasks /\ Tail(s) \in Seq(Tasks) /\ Once(Tail(s))
         /\ Head(s) \in Members(s) /\ Members(Tail(s)) = Members(s) \ {Head(s)}
<1>1. PICK n \in Nat : n = Len(s) /\ DOMAIN s = 1 .. n /\ n # 0
  OBVIOUS
<1>2. PICK q : q = Tail(s)
  OBVIOUS
<1>3. q \in Seq(Tasks) /\ DOMAIN q = 1 .. n - 1 /\ \A i \in 1 .. n - 1 : q[i] = s[i + 1]
  BY <1>1, <1>2
<1>4. Head(s) = s[1] /\ s[1] \in Tasks
  BY <1>1
<1>5. s[1] \in Members(s)
  BY <1>1 DEF Members
<1>6. \A i, j \in 1 .. n : s[i] = s[j] => i = j
  BY <1>1 DEF Once
<1>7. Once(q)
  <2>1. \A i \in 1 .. n - 1 : i + 1 \in 1 .. n
    BY <1>1
  <2>2. ASSUME NEW i \in 1 .. n - 1, NEW j \in 1 .. n - 1, q[i] = q[j] PROVE i = j
    <3>1. i + 1 = j + 1
      BY <1>3, <1>6, <2>1, <2>2
    <3> QED
      BY <3>1
  <2> QED
    BY <1>3, <2>2 DEF Once
<1>8. Members(q) \subseteq Members(s) \ {s[1]}
  <2>1. ASSUME NEW i \in 1 .. n - 1 PROVE q[i] \in Members(s) \ {s[1]}
    <3>1. i + 1 \in 1 .. n /\ i + 1 # 1 /\ 1 \in 1 .. n
      BY <1>1
    <3>2. s[i + 1] \in Members(s) /\ s[i + 1] # s[1]
      BY <1>1, <1>6, <3>1 DEF Members
    <3> QED
      BY <1>3, <3>2
  <2> QED
    BY <1>3, <2>1 DEF Members
<1>9. Members(s) \ {s[1]} \subseteq Members(q)
  <2>1. ASSUME NEW i \in 1 .. n, i # 1 PROVE s[i] \in Members(q)
    <3>1. i - 1 \in 1 .. n - 1 /\ (i - 1) + 1 = i
      BY <1>1, <2>1
    <3>2. q[i - 1] = s[i]
      BY <1>3, <3>1
    <3> QED
      BY <1>3, <3>1, <3>2 DEF Members
  <2> QED
    BY <1>1, <2>1 DEF Members
<1> QED
  BY <1>2, <1>3, <1>4, <1>5, <1>7, <1>8, <1>9

\* One more at the end.
LEMMA AppendFacts ==
  ASSUME NEW s \in Seq(Tasks), NEW t \in Tasks
  PROVE  Members(Append(s, t)) \subseteq Members(s) \cup {t}
<1>1. PICK n \in Nat : n = Len(s) /\ DOMAIN s = 1 .. n
  OBVIOUS
<1>2. PICK q : q = Append(s, t)
  OBVIOUS
<1>3. DOMAIN q = 1 .. n + 1 /\ q[n + 1] = t /\ \A i \in 1 .. n : q[i] = s[i]
  BY <1>1, <1>2
<1>4. ASSUME NEW i \in 1 .. n + 1 PROVE q[i] \in Members(s) \cup {t}
  <2>1. i = n + 1 \/ i \in 1 .. n
    BY <1>1
  <2> QED
    BY <1>1, <1>3, <2>1 DEF Members
<1> QED
  BY <1>2, <1>3, <1>4 DEF Members

\* The empty list.
LEMMA EmptyFacts == Members(<<>>) = {} /\ Once(<<>>)
BY DEF Members, Once
\* A list has members unless it is empty.
LEMMA SomeFacts ==
  ASSUME NEW s \in Seq(Tasks)
  PROVE  s # <<>> <=> Members(s) # {}
<1>1. PICK n \in Nat : n = Len(s) /\ DOMAIN s = 1 .. n
  OBVIOUS
<1>2. s = <<>> <=> n = 0
  BY <1>1
<1>3. n # 0 => s[1] \in Members(s)
  BY <1>1 DEF Members
<1>4. n = 0 => Members(s) = {}
  BY <1>1 DEF Members
<1> QED
  BY <1>2, <1>3, <1>4

-----------------------------------------------------------------------------
(* The lists and the times of the kernel *)

Waits(x, e) == Members(x.ev[e])

\* A task waits in one event list, once, and is neither ready nor about to be.
ListsOk(x) ==
  /\ \A e \in Events : Once(x.ev[e])
  /\ \A e \in Events : \A t \in Waits(x, e) : x.list[t] # "ready" /\ t \notin Members(x.pend)
  /\ \A d, e \in Events : d # e => Waits(x, d) \cap Waits(x, e) = {}

\* The tasks that wait for a time, and how many ticks are left.
Timed(x) == {t \in Tasks : x.list[t] \in {"delayed", "overflow"}}
Left(x, t) == IF x.list[t] = "delayed" THEN x.wake[t] - x.tick
              ELSE (x.wake[t] + (MAX_DELAY + 1)) - x.tick

\* No time in the delayed list is over, and none comes before xNextTaskUnblockTime.
TimesOk(x) ==
  \A t \in Tasks : x.list[t] = "delayed" => x.wake[t] > x.tick /\ x.next <= x.wake[t]

KernelOk(x) == ListsOk(x) /\ TimesOk(x)

\* What KernelOk is about.
Alike(x, y) ==
  /\ y.ev = x.ev /\ y.list = x.list /\ y.pend = x.pend /\ y.wake = x.wake
  /\ y.tick = x.tick /\ y.next = x.next /\ y.over = x.over

\* A kernel that differs in other fields is as good.
LEMMA AlikeOk ==
  ASSUME NEW x, NEW y, Alike(x, y), KernelOk(x)
  PROVE  KernelOk(y)
<1>1. ListsOk(y)
  BY DEF Alike, KernelOk, ListsOk, Waits
<1>2. TimesOk(y)
  BY DEF Alike, KernelOk, TimesOk
<1> QED
  BY <1>1, <1>2 DEF KernelOk

\* A task that waits for a time has some of it left.
LEMMA LeftFacts ==
  ASSUME NEW x \in Kernels, TimesOk(x), NEW t \in Timed(x)
  PROVE  Left(x, t) \in Int /\ Left(x, t) > 0 /\ t \in Tasks
<1>1. t \in Tasks /\ x.list[t] \in {"delayed", "overflow"}
  BY DEF Timed
<1>2. x.tick \in 0 .. MAX_DELAY /\ x.wake[t] \in 0 .. MAX_DELAY /\ MAX_DELAY \in Nat
  BY <1>1, SchedulerAssumption DEF Kernels, Ticks
<1>3. x.list[t] = "delayed" => x.wake[t] > x.tick
  BY <1>1 DEF TimesOk
<1> QED
  BY <1>1, <1>2, <1>3 DEF Left

\* How far the clock has come from a, and whether it has come round.
Since(x, a) == (x.tick - a) % (MAX_DELAY + 1)
ClockOn(x, y, n) ==
  \A a \in Ticks, o \in Nat :
    /\ Since(x, a) + n <= MAX_DELAY
    /\ x.tick >= a => x.over = o
    => /\ Since(y, a) = Since(x, a) + n
       /\ y.tick >= a => y.over = o

\* n ticks, in which the tasks are woken whose time comes.
Ticked(x, y, n) ==
  /\ \A e \in Events : Waits(y, e) \subseteq Waits(x, e)
  /\ y.pend = x.pend
  /\ \A t \in Tasks \ Timed(x) : y.list[t] = x.list[t]
  /\ \A t \in Timed(x) : IF Left(x, t) <= n THEN y.list[t] = "ready"
                         ELSE t \in Timed(y) /\ Left(y, t) = Left(x, t) - n
  /\ ClockOn(x, y, n)

\* Since without the modulus.
LEMMA SinceIs ==
  ASSUME NEW x \in Kernels, NEW a \in Ticks
  PROVE  /\ Since(x, a) = IF x.tick >= a THEN x.tick - a ELSE (x.tick - a) + (MAX_DELAY + 1)
         /\ Since(x, a) \in 0 .. MAX_DELAY
<1>1. PICK n \in Nat : n = x.tick
  BY SchedulerAssumption DEF Kernels, Ticks
<1>2. n <= MAX_DELAY /\ a \in Nat /\ a <= MAX_DELAY /\ MAX_DELAY \in Nat \ {0}
  BY <1>1, SchedulerAssumption DEF Kernels, Ticks
<1>3. (n - a) % (MAX_DELAY + 1) = IF n >= a THEN n - a ELSE (n - a) + (MAX_DELAY + 1)
  BY <1>2
<1> QED
  BY <1>1, <1>2, <1>3 DEF Since

\* prvAddTaskToReadyList, field by field.
LEMMA ReadyFields ==
  ASSUME NEW x \in Kernels, NEW S
  PROVE  LET y == prvAddTaskToReadyList(x, S) IN
         /\ y \in Kernels
         /\ y.ev = x.ev /\ y.pend = x.pend /\ y.tick = x.tick /\ y.next = x.next /\ y.over = x.over
         /\ y.pended = x.pended /\ y.susp = x.susp
         /\ \A t \in Tasks : y.list[t] = IF t \in S THEN "ready" ELSE x.list[t]
         /\ \A t \in Tasks : y.wake[t] = IF t \in S THEN 0 ELSE x.wake[t]
<1> DEFINE l == [t \in Tasks |-> IF t \in S THEN "ready" ELSE x.list[t]]
           w == [t \in Tasks |-> IF t \in S THEN 0 ELSE x.wake[t]]
           y == [x EXCEPT !.list = l, !.wake = w]
<1>1. y = prvAddTaskToReadyList(x, S)
  BY DEF prvAddTaskToReadyList
<1>2. y \in Kernels
  BY <1>1, ReadyFacts
<1>3. \A t \in Tasks : l[t] = IF t \in S THEN "ready" ELSE x.list[t]
  OBVIOUS
<1>4. \A t \in Tasks : w[t] = IF t \in S THEN 0 ELSE x.wake[t]
  OBVIOUS
<1> HIDE DEF l, w
<1>5. /\ y.ev = x.ev /\ y.pend = x.pend /\ y.tick = x.tick /\ y.next = x.next /\ y.over = x.over
      /\ y.pended = x.pended /\ y.susp = x.susp /\ y.list = l /\ y.wake = w
  BY DEF Kernels
<1> HIDE DEF y
<1> QED
  BY <1>1, <1>2, <1>3, <1>4, <1>5

\* prvResetNextTaskUnblockTime, field by field.
LEMMA ResetFields ==
  ASSUME NEW x \in Kernels
  PROVE  LET y == prvResetNextTaskUnblockTime(x) IN
         /\ y \in Kernels
         /\ y.ev = x.ev /\ y.pend = x.pend /\ y.tick = x.tick /\ y.list = x.list /\ y.wake = x.wake
         /\ y.over = x.over /\ y.pended = x.pended /\ y.susp = x.susp
         /\ \A t \in Tasks : y.list[t] = "delayed" => y.next <= y.wake[t]
<1> DEFINE times == {x.wake[t] : t \in {u \in Tasks : x.list[u] = "delayed"}}
           n == IF times = {} THEN MAX_DELAY ELSE CHOOSE m \in times : \A o \in times : m <= o
           y == [x EXCEPT !.next = n]
<1>1. y = prvResetNextTaskUnblockTime(x)
  BY DEF prvResetNextTaskUnblockTime
<1>2. y \in Kernels
  BY <1>1, ResetFacts
<1>3. times \subseteq Nat
  BY SchedulerAssumption DEF Kernels, Ticks
<1>4. \A t \in Tasks : x.list[t] = "delayed" => x.wake[t] \in times
  OBVIOUS
<1>5. \A m \in times : n <= m
  <2> HIDE DEF times
  <2>1. CASE times # {}
    <3>1. \E m \in times : \A o \in times : m <= o
      BY <1>3, <2>1, LeastNumber
    <3> QED
      BY <2>1, <3>1
  <2> QED
    BY <2>1
<1> HIDE DEF n, times
<1>6. /\ y.ev = x.ev /\ y.pend = x.pend /\ y.tick = x.tick /\ y.list = x.list /\ y.wake = x.wake
      /\ y.over = x.over /\ y.pended = x.pended /\ y.susp = x.susp /\ y.next = n
  BY DEF Kernels
<1> HIDE DEF y
<1> QED
  BY <1>1, <1>2, <1>4, <1>5, <1>6

\* taskSWITCH_DELAYED_LISTS, field by field, when no task is delayed.
LEMMA SwitchFields ==
  ASSUME NEW x \in Kernels, \A t \in Tasks : x.list[t] # "delayed"
  PROVE  LET y == taskSWITCH_DELAYED_LISTS(x) IN
         /\ y \in Kernels
         /\ y.ev = x.ev /\ y.pend = x.pend /\ y.tick = x.tick /\ y.wake = x.wake
         /\ y.pended = x.pended /\ y.susp = x.susp
         /\ \A t \in Tasks : y.list[t] = IF x.list[t] = "overflow" THEN "delayed" ELSE x.list[t]
         /\ \A t \in Tasks : y.list[t] = "delayed" => y.next <= y.wake[t]
<1> DEFINE l == [t \in Tasks |-> CASE x.list[t] = "delayed"  -> "overflow"
                                   [] x.list[t] = "overflow" -> "delayed"
                                   [] OTHER                  -> x.list[t]]
           o == (x.over + 1) % MaxOver
           y == [x EXCEPT !.over = o, !.list = l]
<1>1. taskSWITCH_DELAYED_LISTS(x) = prvResetNextTaskUnblockTime(y)
  BY DEF taskSWITCH_DELAYED_LISTS
<1>2. l \in [Tasks -> Lists]
  BY DEF Kernels, Lists
<1>3. \A t \in Tasks : l[t] = IF x.list[t] = "overflow" THEN "delayed" ELSE x.list[t]
  OBVIOUS
<1>4. o \in Nat
  BY SchedulerAssumption DEF Kernels
<1> HIDE DEF l, o
<1>5. /\ y \in Kernels /\ y.ev = x.ev /\ y.pend = x.pend /\ y.tick = x.tick /\ y.wake = x.wake
      /\ y.pended = x.pended /\ y.susp = x.susp /\ y.list = l
  BY <1>2, <1>4 DEF Kernels
<1> HIDE DEF y
<1>6. LET z == prvResetNextTaskUnblockTime(y) IN
      /\ z \in Kernels
      /\ z.ev = y.ev /\ z.pend = y.pend /\ z.tick = y.tick /\ z.list = y.list /\ z.wake = y.wake
      /\ z.pended = y.pended /\ z.susp = y.susp
      /\ \A t \in Tasks : z.list[t] = "delayed" => z.next <= z.wake[t]
  BY <1>5, ResetFields
<1> QED
  BY <1>1, <1>3, <1>5, <1>6

\* The first half of a tick: the clock.
Clocked(x) ==
  LET now == (x.tick + 1) % (MAX_DELAY + 1) IN
  IF now = 0 THEN taskSWITCH_DELAYED_LISTS([x EXCEPT !.tick = 0]) ELSE [x EXCEPT !.tick = now]

\* The tick count goes on by one, field by field.
LEMMA ClockedFields ==
  ASSUME NEW x \in Kernels, TimesOk(x)
  PROVE  LET z == Clocked(x) IN
         /\ z \in Kernels /\ z.ev = x.ev /\ z.pend = x.pend /\ z.wake = x.wake
         /\ z.pended = x.pended /\ z.susp = x.susp
         /\ z.tick = IF x.tick = MAX_DELAY THEN 0 ELSE x.tick + 1
         /\ x.tick # MAX_DELAY => z.over = x.over /\ z.list = x.list
         /\ x.tick = MAX_DELAY =>
              \A t \in Tasks : /\ x.list[t] # "delayed"
                               /\ z.list[t] = IF x.list[t] = "overflow" THEN "delayed" ELSE x.list[t]
         /\ \A t \in Tasks : z.list[t] = "delayed" => z.next <= z.wake[t]
<1>1. PICK now : now = (x.tick + 1) % (MAX_DELAY + 1)
  OBVIOUS
<1>2. x.tick \in 0 .. MAX_DELAY /\ MAX_DELAY \in Nat \ {0}
  BY SchedulerAssumption DEF Kernels, Ticks
<1>3. now = IF x.tick = MAX_DELAY THEN 0 ELSE x.tick + 1
  <2>1. CASE x.tick = MAX_DELAY
    BY <1>1, <1>2, <2>1
  <2>2. CASE x.tick # MAX_DELAY
    BY <1>1, <1>2, <2>2
  <2> QED
    BY <2>1, <2>2
<1>4. Clocked(x) = IF now = 0 THEN taskSWITCH_DELAYED_LISTS([x EXCEPT !.tick = 0])
                   ELSE [x EXCEPT !.tick = now]
  BY <1>1, Zenon DEF Clocked
<1>5. ASSUME NEW u \in Ticks
      PROVE  LET z == [x EXCEPT !.tick = u] IN
             /\ z \in Kernels /\ z.ev = x.ev /\ z.pend = x.pend /\ z.wake = x.wake
             /\ z.pended = x.pended /\ z.susp = x.susp /\ z.over = x.over /\ z.list = x.list
             /\ z.next = x.next /\ z.tick = u
  BY DEF Kernels
<1>6. CASE x.tick = MAX_DELAY
  <2>1. PICK w : w = [x EXCEPT !.tick = 0]
    OBVIOUS
  <2>2. 0 \in Ticks
    BY <1>2 DEF Ticks
  <2>3. /\ w \in Kernels /\ w.ev = x.ev /\ w.pend = x.pend /\ w.wake = x.wake
        /\ w.pended = x.pended /\ w.susp = x.susp /\ w.over = x.over /\ w.list = x.list
        /\ w.next = x.next /\ w.tick = 0
    BY <1>5, <2>1, <2>2
  <2>4. \A t \in Tasks : x.list[t] # "delayed"
    <3>1. ASSUME NEW t \in Tasks PROVE x.list[t] # "delayed"
      <4>1. x.wake[t] \in 0 .. MAX_DELAY
        BY DEF Kernels, Ticks
      <4> QED
        BY <1>2, <1>6, <4>1 DEF TimesOk
    <3> QED
      BY <3>1
  <2>5. Clocked(x) = taskSWITCH_DELAYED_LISTS(w)
    BY <1>3, <1>4, <1>6, <2>1
  <2> QED
    BY <1>6, <2>3, <2>4, <2>5, SwitchFields
<1>7. CASE x.tick # MAX_DELAY
  <2>1. now \in Ticks /\ now # 0 /\ now = x.tick + 1
    BY <1>2, <1>3, <1>7 DEF Ticks
  <2>2. Clocked(x) = [x EXCEPT !.tick = now]
    BY <1>4, <2>1
  <2>3. PICK w : w = [x EXCEPT !.tick = now]
    OBVIOUS
  <2>4. /\ w \in Kernels /\ w.ev = x.ev /\ w.pend = x.pend /\ w.wake = x.wake
        /\ w.pended = x.pended /\ w.susp = x.susp /\ w.over = x.over /\ w.list = x.list
        /\ w.next = x.next /\ w.tick = now
    BY <1>5, <2>1, <2>3
  <2>5. \A t \in Tasks : w.list[t] = "delayed" => w.next <= w.wake[t]
    BY <2>4 DEF TimesOk
  <2> QED
    BY <1>7, <2>1, <2>2, <2>3, <2>4, <2>5
<1> QED
  BY <1>6, <1>7

\* The clock goes on, and with it the time that is left to every task.
LEMMA ClockedFacts ==
  ASSUME NEW x \in Kernels, TimesOk(x)
  PROVE  LET z == Clocked(x) IN
         /\ z \in Kernels /\ z.ev = x.ev /\ z.pend = x.pend /\ ClockOn(x, z, 1)
         /\ z.pended = x.pended /\ z.susp = x.susp /\ z.wake = x.wake
         /\ \A t \in Tasks \ Timed(x) : z.list[t] = x.list[t]
         /\ \A t \in Timed(x) : t \in Timed(z) /\ Left(z, t) = Left(x, t) - 1
         /\ \A t \in Tasks : z.list[t] = "delayed" => z.next <= z.wake[t] /\ z.tick <= z.wake[t]
<1>1. PICK z : z = Clocked(x)
  OBVIOUS
<1>2. /\ z \in Kernels /\ z.ev = x.ev /\ z.pend = x.pend /\ z.wake = x.wake
      /\ z.pended = x.pended /\ z.susp = x.susp
      /\ z.tick = IF x.tick = MAX_DELAY THEN 0 ELSE x.tick + 1
      /\ x.tick # MAX_DELAY => z.over = x.over /\ z.list = x.list
      /\ x.tick = MAX_DELAY =>
           \A t \in Tasks : /\ x.list[t] # "delayed"
                            /\ z.list[t] = IF x.list[t] = "overflow" THEN "delayed" ELSE x.list[t]
      /\ \A t \in Tasks : z.list[t] = "delayed" => z.next <= z.wake[t]
  BY <1>1, ClockedFields
<1>3. x.tick \in 0 .. MAX_DELAY /\ MAX_DELAY \in Nat \ {0}
  BY SchedulerAssumption DEF Kernels, Ticks
<1>4. ASSUME NEW a \in Ticks, NEW o \in Nat, Since(x, a) + 1 <= MAX_DELAY, x.tick >= a => x.over = o
      PROVE  Since(z, a) = Since(x, a) + 1 /\ (z.tick >= a => z.over = o)
  <2>1. a \in 0 .. MAX_DELAY
    BY DEF Ticks
  <2>2. Since(x, a) = IF x.tick >= a THEN x.tick - a ELSE (x.tick - a) + (MAX_DELAY + 1)
    BY SinceIs
  <2>3. Since(z, a) = IF z.tick >= a THEN z.tick - a ELSE (z.tick - a) + (MAX_DELAY + 1)
    BY <1>2, SinceIs
  <2>4. CASE x.tick = MAX_DELAY
    BY <1>2, <1>3, <1>4, <2>1, <2>2, <2>3, <2>4
  <2>5. CASE x.tick # MAX_DELAY
    BY <1>2, <1>3, <1>4, <2>1, <2>2, <2>3, <2>5
  <2> QED
    BY <2>4, <2>5
<1>5. ClockOn(x, z, 1)
  BY <1>4, Zenon DEF ClockOn
<1>6. ASSUME NEW t \in Tasks
      PROVE  /\ t \notin Timed(x) => z.list[t] = x.list[t]
             /\ t \in Timed(x) => t \in Timed(z) /\ Left(z, t) = Left(x, t) - 1
             /\ z.list[t] = "delayed" => z.tick <= z.wake[t]
  <2>1. x.wake[t] \in 0 .. MAX_DELAY
    BY DEF Kernels, Ticks
  <2>2. x.list[t] = "delayed" => x.wake[t] > x.tick
    BY DEF TimesOk
  <2>3. CASE x.tick = MAX_DELAY
    BY <1>2, <1>3, <2>1, <2>2, <2>3 DEF Timed, Left
  <2>4. CASE x.tick # MAX_DELAY
    BY <1>2, <1>3, <2>1, <2>2, <2>4 DEF Timed, Left
  <2> QED
    BY <2>3, <2>4
<1>7. \A t \in Tasks : z.list[t] = "delayed" => z.next <= z.wake[t] /\ z.tick <= z.wake[t]
  BY <1>2, <1>6
<1>8. \A t \in Timed(x) : t \in Timed(z) /\ Left(z, t) = Left(x, t) - 1
  BY <1>6 DEF Timed
<1> QED
  BY <1>1, <1>2, <1>5, <1>6, <1>7, <1>8

\* A tick, in the order of the code.
LEMMA UnblockIs ==
  ASSUME NEW x \in Kernels, TimesOk(x), NEW z, z = Clocked(x),
         NEW due, due = {t \in Tasks : z.list[t] = "delayed" /\ z.wake[t] <= z.tick}
  PROVE  UnblockExpired(x) =
           IF z.tick < z.next THEN z
           ELSE prvResetNextTaskUnblockTime(
                  [prvAddTaskToReadyList(z, due) EXCEPT
                    !.ev = [e \in Events |-> uxListRemove(@[e], due)]])
<1> DEFINE now == (x.tick + 1) % (MAX_DELAY + 1)
           ticked == IF now = 0 THEN taskSWITCH_DELAYED_LISTS([x EXCEPT !.tick = 0])
                                ELSE [x EXCEPT !.tick = now]
           gone == {t \in Tasks : ticked.list[t] = "delayed" /\ ticked.wake[t] <= now}
<1>1. UnblockExpired(x) =
        IF now < ticked.next THEN ticked
        ELSE prvResetNextTaskUnblockTime(
               [prvAddTaskToReadyList(ticked, gone) EXCEPT
                 !.ev = [e \in Events |-> uxListRemove(@[e], gone)]])
  BY DEF UnblockExpired
<1>2. x.tick \in 0 .. MAX_DELAY /\ MAX_DELAY \in Nat \ {0}
  BY SchedulerAssumption DEF Kernels, Ticks
<1>3. now = IF x.tick = MAX_DELAY THEN 0 ELSE x.tick + 1
  <2>1. CASE x.tick = MAX_DELAY
    BY <1>2, <2>1
  <2>2. CASE x.tick # MAX_DELAY
    BY <1>2, <2>2
  <2> QED
    BY <2>1, <2>2
<1>4. ticked = z
  BY DEF Clocked
<1> HIDE DEF now, ticked
<1>5. z.tick = now
  BY <1>3, ClockedFields
<1>6. gone = due
  BY <1>4, <1>5
<1> HIDE DEF gone
<1> QED
  BY <1>1, <1>4, <1>5, <1>6, Zenon

\* xTaskIncrementTick wakes the tasks whose time has come and no other.
LEMMA UnblockFacts ==
  ASSUME NEW x \in Kernels, KernelOk(x)
  PROVE  LET y == UnblockExpired(x) IN
         y \in Kernels /\ KernelOk(y) /\ Ticked(x, y, 1) /\ y.pended = x.pended
<1>1. ListsOk(x) /\ TimesOk(x)
  BY DEF KernelOk
<1>2. PICK z : z = Clocked(x)
  OBVIOUS
<1>3. PICK due : due = {t \in Tasks : z.list[t] = "delayed" /\ z.wake[t] <= z.tick}
  OBVIOUS
<1>4. /\ z \in Kernels /\ z.ev = x.ev /\ z.pend = x.pend /\ ClockOn(x, z, 1)
      /\ z.pended = x.pended /\ z.susp = x.susp
      /\ \A t \in Tasks \ Timed(x) : z.list[t] = x.list[t]
      /\ \A t \in Timed(x) : t \in Timed(z) /\ Left(z, t) = Left(x, t) - 1
      /\ \A t \in Tasks : z.list[t] = "delayed" => z.next <= z.wake[t] /\ z.tick <= z.wake[t]
  BY <1>1, <1>2, ClockedFacts
<1>5. MAX_DELAY \in Nat \ {0} /\ z.tick \in 0 .. MAX_DELAY /\ z.next \in 0 .. MAX_DELAY
  BY <1>4, SchedulerAssumption DEF Kernels, Ticks
<1>6. \A t \in Tasks : z.wake[t] \in 0 .. MAX_DELAY
  BY <1>4 DEF Kernels, Ticks
<1>7. ASSUME NEW t \in Tasks
      PROVE  /\ t \in Timed(x) <=> t \in Timed(z)
             /\ t \in Timed(x) => Left(x, t) \in Int /\ Left(x, t) = Left(z, t) + 1
                                  /\ (t \in due <=> Left(x, t) <= 1)
             /\ t \in due => t \in Timed(x)
  <2>1. t \in Timed(z) => t \in Timed(x)
    BY <1>4 DEF Timed
  <2>2. t \in Timed(x) => Left(x, t) \in Int
    BY <1>1, LeftFacts
  <2>3. t \in Timed(z) => Left(z, t) \in Int /\ (t \in due <=> Left(z, t) <= 0)
    BY <1>3, <1>4, <1>5, <1>6 DEF Timed, Left
  <2>4. t \in due => t \in Timed(z)
    BY <1>3 DEF Timed
  <2> QED
    BY <1>4, <2>1, <2>2, <2>3, <2>4
<1>8. \A t \in Tasks : z.list[t] # "ready" <=> x.list[t] # "ready"
  <2>1. \A t \in Tasks : t \in Timed(x) => x.list[t] # "ready"
    BY DEF Timed
  <2>2. \A t \in Tasks : t \in Timed(z) => z.list[t] # "ready"
    BY DEF Timed
  <2> QED
    BY <1>4, <1>7, <2>1, <2>2
<1>9. CASE z.tick < z.next
  <2>1. UnblockExpired(x) = z
    BY <1>1, <1>2, <1>3, <1>9, UnblockIs
  <2>2. \A t \in Tasks : z.list[t] = "delayed" => z.wake[t] > z.tick
    BY <1>4, <1>5, <1>6, <1>9
  <2>3. TimesOk(z)
    BY <1>4, <2>2 DEF TimesOk
  <2>4. \A t \in Tasks : t \notin due
    BY <1>3, <1>5, <1>6, <2>2
  <2>5. \A e \in Events : \A t \in Waits(x, e) : t \in Tasks
    BY DEF Kernels, Waits, Members
  <2>6. ListsOk(z)
    BY <1>1, <1>4, <1>8, <2>5 DEF ListsOk, Waits
  <2>7. \A t \in Timed(x) : IF Left(x, t) <= 1 THEN z.list[t] = "ready"
                            ELSE t \in Timed(z) /\ Left(z, t) = Left(x, t) - 1
    BY <1>4, <1>7, <2>4 DEF Timed
  <2>8. Ticked(x, z, 1)
    BY <1>4, <2>7 DEF Ticked, Waits
  <2> QED
    BY <1>4, <2>1, <2>3, <2>6, <2>8 DEF KernelOk
<1>10. CASE ~(z.tick < z.next)
  <2>1. PICK a : a = prvAddTaskToReadyList(z, due)
    OBVIOUS
  <2>2. /\ a \in Kernels
        /\ a.ev = z.ev /\ a.pend = z.pend /\ a.tick = z.tick /\ a.next = z.next /\ a.over = z.over
        /\ a.pended = z.pended
        /\ \A t \in Tasks : a.list[t] = IF t \in due THEN "ready" ELSE z.list[t]
        /\ \A t \in Tasks : a.wake[t] = IF t \in due THEN 0 ELSE z.wake[t]
    BY <1>4, <2>1, ReadyFields
  <2>3. PICK left : left = [e \in Events |-> uxListRemove(a.ev[e], due)]
    OBVIOUS
  <2>4. left \in [Events -> Seq(Tasks)]
    BY <2>2, <2>3, ListRemove DEF Kernels
  <2>5. \A e \in Events : Once(left[e]) /\ Members(left[e]) \subseteq Waits(x, e) \ due
    <3> TAKE e \in Events
    <3>1. a.ev[e] = x.ev[e] /\ x.ev[e] \in Seq(Tasks) /\ Once(x.ev[e])
      BY <1>1, <1>4, <2>2 DEF Kernels, ListsOk
    <3>2. left[e] = uxListRemove(x.ev[e], due)
      BY <2>3, <3>1
    <3> QED
      BY <3>1, <3>2, RemoveManyFacts DEF Waits
  <2>6. PICK b : b = [a EXCEPT !.ev = left]
    OBVIOUS
  <2>7. /\ b \in Kernels /\ b.ev = left
        /\ b.pend = a.pend /\ b.tick = a.tick /\ b.over = a.over
        /\ b.pended = a.pended /\ b.list = a.list /\ b.wake = a.wake
    BY <2>2, <2>4, <2>6 DEF Kernels
  <2>8. PICK y : y = prvResetNextTaskUnblockTime(b)
    OBVIOUS
  <2>9. /\ y \in Kernels
        /\ y.ev = b.ev /\ y.pend = b.pend /\ y.tick = b.tick /\ y.list = b.list /\ y.wake = b.wake
        /\ y.over = b.over /\ y.pended = b.pended
        /\ \A t \in Tasks : y.list[t] = "delayed" => y.next <= y.wake[t]
    BY <2>7, <2>8, ResetFields
  <2>10. UnblockExpired(x) = y
    BY <1>1, <1>2, <1>3, <1>10, <2>1, <2>3, <2>6, <2>8, UnblockIs
  <2>11. /\ y.ev = left /\ y.pend = x.pend /\ y.tick = z.tick /\ y.over = z.over
         /\ y.pended = x.pended
         /\ \A t \in Tasks : y.list[t] = IF t \in due THEN "ready" ELSE z.list[t]
         /\ \A t \in Tasks : y.wake[t] = IF t \in due THEN 0 ELSE z.wake[t]
    BY <1>4, <2>2, <2>7, <2>9
  <2>12. \A e \in Events : Once(y.ev[e]) /\ Waits(y, e) \subseteq Waits(x, e) \ due
    BY <2>5, <2>11 DEF Waits
  <2>13. \A e \in Events : \A t \in Waits(x, e) : t \in Tasks
    BY DEF Kernels, Waits, Members
  <2>14. ListsOk(y)
    <3>1. ASSUME NEW e \in Events, NEW t \in Waits(y, e)
          PROVE  y.list[t] # "ready" /\ t \notin Members(y.pend)
      <4>1. t \in Waits(x, e) /\ t \notin due /\ t \in Tasks
        BY <2>12, <2>13
      <4>2. x.list[t] # "ready" /\ t \notin Members(x.pend)
        BY <1>1, <4>1 DEF ListsOk
      <4> QED
        BY <1>8, <2>11, <4>1, <4>2
    <3>2. \A d, e \in Events : d # e => Waits(y, d) \cap Waits(y, e) = {}
      <4>1. \A d, e \in Events : d # e => Waits(x, d) \cap Waits(x, e) = {}
        BY <1>1 DEF ListsOk
      <4> QED
        BY <2>12, <4>1
    <3> QED
      BY <2>12, <3>1, <3>2 DEF ListsOk
  <2>15. TimesOk(y)
    <3>1. ASSUME NEW t \in Tasks, y.list[t] = "delayed" PROVE y.wake[t] > y.tick
      <4>1. t \notin due /\ z.list[t] = "delayed"
        BY <2>11, <3>1
      <4>2. y.wake[t] = z.wake[t] /\ y.tick = z.tick /\ ~(z.wake[t] <= z.tick)
        BY <1>3, <2>11, <4>1
      <4> QED
        BY <1>5, <1>6, <4>2
    <3> QED
      BY <2>9, <3>1 DEF TimesOk
  <2>16. \A t \in Tasks \ Timed(x) : y.list[t] = x.list[t]
    BY <1>4, <1>7, <2>11
  <2>17. ASSUME NEW t \in Timed(x)
         PROVE  IF Left(x, t) <= 1 THEN y.list[t] = "ready"
                ELSE t \in Timed(y) /\ Left(y, t) = Left(x, t) - 1
    <3>1. t \in Tasks /\ t \in Timed(z)
      BY <1>4 DEF Timed
    <3>2. t \in due <=> Left(x, t) <= 1
      BY <1>7, <3>1
    <3>3. CASE t \in due
      BY <2>11, <3>1, <3>2, <3>3
    <3>4. CASE t \notin due
      <4>1. y.list[t] = z.list[t] /\ y.wake[t] = z.wake[t] /\ y.tick = z.tick
        BY <2>11, <3>1, <3>4
      <4>2. t \in Timed(y) /\ Left(y, t) = Left(z, t)
        BY <3>1, <4>1 DEF Timed, Left
      <4> QED
        BY <1>4, <3>2, <3>4, <4>2
    <3> QED
      BY <3>3, <3>4
  <2>18. ClockOn(x, y, 1)
    BY <1>4, <2>11 DEF ClockOn, Since
  <2>19. Ticked(x, y, 1)
    BY <2>11, <2>12, <2>16, <2>17, <2>18 DEF Ticked
  <2> QED
    BY <2>9, <2>10, <2>11, <2>14, <2>15, <2>19 DEF KernelOk
<1> QED
  BY <1>9, <1>10

\* Ticks add up.
LEMMA TickedOn ==
  ASSUME NEW x \in Kernels, NEW y \in Kernels, NEW z \in Kernels, NEW n \in Nat,
         KernelOk(x), KernelOk(y), Ticked(x, y, n), Ticked(y, z, 1)
  PROVE  Ticked(x, z, n + 1)
<1>1. \A e \in Events : Waits(z, e) \subseteq Waits(x, e)
  BY DEF Ticked
<1>2. z.pend = x.pend
  BY DEF Ticked
<1>3. ASSUME NEW t \in Tasks \ Timed(x) PROVE z.list[t] = x.list[t]
  <2>1. y.list[t] = x.list[t]
    BY DEF Ticked
  <2>2. t \notin Timed(y)
    BY <2>1 DEF Timed
  <2> QED
    BY <2>1, <2>2 DEF Ticked
<1>4. ASSUME NEW t \in Timed(x)
      PROVE  IF Left(x, t) <= n + 1 THEN z.list[t] = "ready"
             ELSE t \in Timed(z) /\ Left(z, t) = Left(x, t) - (n + 1)
  <2>1. Left(x, t) \in Int /\ t \in Tasks
    BY LeftFacts DEF KernelOk
  <2>2. CASE Left(x, t) <= n
    <3>1. y.list[t] = "ready"
      BY <2>2 DEF Ticked
    <3>2. t \notin Timed(y)
      BY <3>1 DEF Timed
    <3>3. z.list[t] = "ready"
      BY <2>1, <3>1, <3>2 DEF Ticked
    <3> QED
      BY <2>1, <2>2, <3>3
  <2>3. CASE ~(Left(x, t) <= n)
    <3>1. t \in Timed(y) /\ Left(y, t) = Left(x, t) - n
      BY <2>3 DEF Ticked
    <3>2. IF Left(y, t) <= 1 THEN z.list[t] = "ready"
          ELSE t \in Timed(z) /\ Left(z, t) = Left(y, t) - 1
      BY <3>1 DEF Ticked
    <3> QED
      BY <2>1, <3>1, <3>2
  <2> QED
    BY <2>2, <2>3
<1>5. ASSUME NEW a \in Ticks, NEW o \in Nat, Since(x, a) + (n + 1) <= MAX_DELAY,
             x.tick >= a => x.over = o
      PROVE  Since(z, a) = Since(x, a) + (n + 1) /\ (z.tick >= a => z.over = o)
  <2>1. Since(x, a) \in 0 .. MAX_DELAY /\ MAX_DELAY \in Nat
    BY SinceIs, SchedulerAssumption
  <2>2. Since(x, a) + n <= MAX_DELAY
    BY <1>5, <2>1
  <2>3. Since(y, a) = Since(x, a) + n /\ (y.tick >= a => y.over = o)
    BY <1>5, <2>2 DEF Ticked, ClockOn
  <2>4. Since(y, a) + 1 <= MAX_DELAY
    BY <1>5, <2>1, <2>3
  <2>5. Since(z, a) = Since(y, a) + 1 /\ (z.tick >= a => z.over = o)
    BY <2>3, <2>4 DEF Ticked, ClockOn
  <2> QED
    BY <2>1, <2>3, <2>5
<1>6. ClockOn(x, z, n + 1)
  BY <1>5, Zenon DEF ClockOn
<1> QED
  BY <1>1, <1>2, <1>3, <1>4, <1>6 DEF Ticked

\* Ticked is about the same fields.
LEMMA TickedAlike ==
  ASSUME NEW x, NEW y, NEW z, NEW n, Ticked(x, y, n), Alike(y, z)
  PROVE  Ticked(x, z, n)
BY DEF Ticked, Alike, Waits, ClockOn, Since, Timed, Left

\* One of the ticks that were pended.
LEMMA CaughtUpOk ==
  ASSUME NEW x \in Kernels, KernelOk(x)
  PROVE  LET y == CaughtUp(x) IN
         y \in Kernels /\ KernelOk(y) /\ Ticked(x, y, 1) /\ y.pended = x.pended
<1>1. PICK z : z = UnblockExpired(x)
  OBVIOUS
<1>2. PICK b : b = SwitchRequired(x, z)
  OBVIOUS
<1>3. b \in BOOLEAN
  BY <1>2, Zenon DEF SwitchRequired
<1>4. z \in Kernels /\ KernelOk(z) /\ Ticked(x, z, 1) /\ z.pended = x.pended
  BY <1>1, UnblockFacts
<1>5. PICK y : y = [z EXCEPT !.yield = b]
  OBVIOUS
<1>6. CaughtUp(x) = y
  BY <1>1, <1>2, <1>5, Zenon DEF CaughtUp
<1>7. y \in Kernels /\ Alike(z, y) /\ y.pended = z.pended
  BY <1>3, <1>4, <1>5 DEF Kernels, Alike
<1> QED
  BY <1>4, <1>6, <1>7, AlikeOk, TickedAlike

\* No tick.
LEMMA TickedNone ==
  ASSUME NEW x \in Kernels, KernelOk(x)
  PROVE  Ticked(x, x, 0)
<1>1. \A t \in Timed(x) : ~(Left(x, t) <= 0) /\ Left(x, t) - 0 = Left(x, t)
  BY LeftFacts DEF KernelOk
<1>2. \A a \in Ticks : Since(x, a) + 0 = Since(x, a)
  BY SinceIs, SchedulerAssumption
<1> QED
  BY <1>1, <1>2 DEF Ticked, ClockOn

\* All of them, by induction.
LEMMA CaughtOk ==
  ASSUME NEW n \in Nat, NEW x \in Kernels, KernelOk(x), NEW f, f = Caught(n, x, f)
  PROVE  f[n] \in Kernels /\ KernelOk(f[n]) /\ Ticked(x, f[n], n) /\ f[n].pended = x.pended
<1> DEFINE Good == {m \in Nat : m <= n => /\ f[m] \in Kernels /\ KernelOk(f[m])
                                          /\ Ticked(x, f[m], m) /\ f[m].pended = x.pended}
<1>1. f[0] = x
  BY DEF Caught
<1>2. 0 \in Good
  BY <1>1, TickedNone
<1>3. ASSUME NEW m \in Nat, m \in Good PROVE m + 1 \in Good
  <2> SUFFICES ASSUME m + 1 <= n
               PROVE  /\ f[m + 1] \in Kernels /\ KernelOk(f[m + 1])
                      /\ Ticked(x, f[m + 1], m + 1) /\ f[m + 1].pended = x.pended
    OBVIOUS
  <2>1. PICK y : y = f[m]
    OBVIOUS
  <2>2. y \in Kernels /\ KernelOk(y) /\ Ticked(x, y, m) /\ y.pended = x.pended
    BY <1>3, <2>1
  <2>3. m + 1 \in 0 .. n /\ m + 1 # 0 /\ (m + 1) - 1 = m
    OBVIOUS
  <2>4. f[m + 1] = CaughtUp(y)
    BY <2>1, <2>3, Zenon DEF Caught
  <2>5. PICK z : z = CaughtUp(y)
    OBVIOUS
  <2>6. z \in Kernels /\ KernelOk(z) /\ Ticked(y, z, 1) /\ z.pended = y.pended
    BY <2>2, <2>5, CaughtUpOk
  <2>7. Ticked(x, z, m + 1)
    BY <2>2, <2>6, TickedOn
  <2> QED
    BY <2>2, <2>4, <2>5, <2>6, <2>7
<1>4. n \in Good
  <2> HIDE DEF Good
  <2> QED  BY <1>2, <1>3, Induction
<1> QED
  BY <1>4

\* The ticks that came while the scheduler was suspended.
LEMMA PendedTicksOk ==
  ASSUME NEW x \in Kernels, KernelOk(x)
  PROVE  LET y == PendedTicks(x) IN
         y \in Kernels /\ KernelOk(y) /\ Ticked(x, y, x.pended) /\ y.pended = 0
<1>1. PICK n : n = x.pended
  OBVIOUS
<1>2. PICK x0 : x0 = [x EXCEPT !.pended = 0]
  OBVIOUS
<1> DEFINE f == CHOOSE h : h = Caught(n, x0, h)
<1>3. PendedTicks(x) = f[n]
  BY <1>1, <1>2, Zenon DEF PendedTicks, Caught, CaughtUp
<1>4. n \in Nat /\ x0 \in Kernels /\ Alike(x, x0) /\ Alike(x0, x) /\ x0.pended = 0
  BY <1>1, <1>2 DEF Kernels, Alike
<1>5. KernelOk(x0)
  BY <1>4, AlikeOk
<1>6. f = Caught(n, x0, f)
  <2>1. \E h : h = Caught(n, x0, h)
    BY <1>4, CaughtExists, Zenon
  <2> QED
    BY <2>1, Zenon
<1> HIDE DEF f
<1>7. PICK y : y = f[n]
  OBVIOUS
<1>8. y \in Kernels /\ KernelOk(y) /\ Ticked(x0, y, n) /\ y.pended = 0
  BY <1>4, <1>5, <1>6, <1>7, CaughtOk
<1>9. Ticked(x, y, n)
  BY <1>4, <1>8 DEF Ticked, Alike, Waits, ClockOn, Since, Timed, Left
<1> QED
  BY <1>1, <1>3, <1>7, <1>8, <1>9

\* xTaskResumeAll: the tasks woken meanwhile are made ready (r), then the ticks made up for.
Readied(x, r) ==
  /\ r.ev = x.ev /\ r.pend = <<>> /\ r.tick = x.tick /\ r.over = x.over
  /\ \A t \in Tasks : r.list[t] = IF t \in Members(x.pend) THEN "ready" ELSE x.list[t]
  /\ \A t \in Tasks : t \notin Members(x.pend) => r.wake[t] = x.wake[t]

\* The lists are in order when the pended tasks are ready.
LEMMA ReadiedOk ==
  ASSUME NEW x \in Kernels, KernelOk(x), NEW r \in Kernels, Readied(x, r),
         \A t \in Tasks : r.list[t] = "delayed" => r.next <= r.wake[t]
  PROVE  KernelOk(r)
<1>1. Members(r.pend) = {}
  BY EmptyFacts DEF Readied
<1>2. \A e \in Events : Waits(r, e) = Waits(x, e)
  BY DEF Readied, Waits
<1>3. \A e \in Events : \A t \in Waits(x, e) : t \in Tasks
  BY DEF Kernels, Waits, Members
<1>4. ListsOk(r)
  <2>1. ASSUME NEW e \in Events, NEW t \in Waits(r, e) PROVE r.list[t] # "ready"
    <3>1. t \in Tasks /\ x.list[t] # "ready" /\ t \notin Members(x.pend)
      BY <1>2, <1>3 DEF KernelOk, ListsOk
    <3> QED
      BY <3>1 DEF Readied
  <2> QED
    BY <1>1, <1>2, <2>1 DEF KernelOk, ListsOk, Readied
<1>5. TimesOk(r)
  <2>1. ASSUME NEW t \in Tasks, r.list[t] = "delayed" PROVE r.wake[t] > r.tick
    <3>1. t \notin Members(x.pend) /\ x.list[t] = "delayed"
      BY <2>1 DEF Readied
    <3> QED
      BY <3>1 DEF Readied, KernelOk, TimesOk
  <2> QED
    BY <2>1 DEF TimesOk
<1> QED
  BY <1>4, <1>5 DEF KernelOk

\* xTaskResumeAll makes the pended tasks ready, then makes up for the ticks.
LEMMA ResumeOk ==
  ASSUME NEW x \in Kernels, KernelOk(x)
  PROVE  LET y == xTaskResumeAll(x) IN
         /\ y \in Kernels /\ KernelOk(y) /\ y.pended = 0 /\ y.pend = <<>>
         /\ \E r \in Kernels : KernelOk(r) /\ Readied(x, r) /\ Ticked(r, y, x.pended)
<1> DEFINE W == {x.pend[i] : i \in DOMAIN x.pend}
<1>1. PICK a : a = prvAddTaskToReadyList(x, W)
  OBVIOUS
<1>2. PICK b : b = (a.yield \/ \E t \in W : Priority[t] >= Priority[x.cur])
  OBVIOUS
<1>3. PICK r : r = [a EXCEPT !.susp = 0, !.pend = <<>>, !.yield = b]
  OBVIOUS
<1>4. PICK c : c = IF W = {} THEN r ELSE prvResetNextTaskUnblockTime(r)
  OBVIOUS
<1>5. PICK z : z = PendedTicks(c)
  OBVIOUS
<1>6. xTaskResumeAll(x) = IF z.yield THEN portYIELD(z) ELSE z
  BY <1>1, <1>2, <1>3, <1>4, <1>5, Zenon DEF xTaskResumeAll
<1>7. W = Members(x.pend)
  BY DEF Members
<1> HIDE DEF W
<1>8. /\ a \in Kernels
      /\ a.ev = x.ev /\ a.pend = x.pend /\ a.tick = x.tick /\ a.next = x.next /\ a.over = x.over
      /\ a.pended = x.pended
      /\ \A t \in Tasks : a.list[t] = IF t \in W THEN "ready" ELSE x.list[t]
      /\ \A t \in Tasks : a.wake[t] = IF t \in W THEN 0 ELSE x.wake[t]
  BY <1>1, ReadyFields
<1>9. b \in BOOLEAN
  BY <1>2, <1>8, Zenon DEF Kernels
<1>10. /\ r \in Kernels /\ r.ev = x.ev /\ r.pend = <<>> /\ r.tick = x.tick /\ r.over = x.over
       /\ r.pended = x.pended /\ r.next = x.next /\ r.list = a.list /\ r.wake = a.wake
  <2>1. PICK q : q = <<>>
    OBVIOUS
  <2>2. q \in Seq(Tasks)
    BY <2>1
  <2>3. r = [a EXCEPT !.susp = 0, !.pend = q, !.yield = b]
    BY <1>3, <2>1
  <2>4. r \in Kernels
    BY <1>8, <1>9, <2>2, <2>3 DEF Kernels
  <2>5. /\ r.ev = a.ev /\ r.pend = q /\ r.tick = a.tick /\ r.over = a.over
        /\ r.pended = a.pended /\ r.next = a.next /\ r.list = a.list /\ r.wake = a.wake
    BY <1>8, <2>3 DEF Kernels
  <2> QED
    BY <1>8, <2>1, <2>4, <2>5
<1>11. c \in Kernels /\ Readied(x, c) /\ c.pended = x.pended
       /\ \A t \in Tasks : c.list[t] = "delayed" => c.next <= c.wake[t]
  <2>1. CASE W = {}
    <3>1. c = r
      BY <1>4, <2>1
    <3>2. \A t \in Tasks : c.list[t] = x.list[t] /\ c.wake[t] = x.wake[t]
      BY <1>8, <1>10, <2>1, <3>1
    <3>3. \A t \in Tasks : c.list[t] = "delayed" => c.next <= c.wake[t]
      BY <1>10, <3>1, <3>2 DEF KernelOk, TimesOk
    <3> QED
      BY <1>7, <1>10, <2>1, <3>1, <3>2, <3>3 DEF Readied
  <2>2. CASE W # {}
    <3>1. c = prvResetNextTaskUnblockTime(r)
      BY <1>4, <2>2
    <3>2. /\ c \in Kernels
          /\ c.ev = r.ev /\ c.pend = r.pend /\ c.tick = r.tick /\ c.list = r.list /\ c.wake = r.wake
          /\ c.over = r.over /\ c.pended = r.pended
          /\ \A t \in Tasks : c.list[t] = "delayed" => c.next <= c.wake[t]
      BY <1>10, <3>1, ResetFields
    <3> QED
      BY <1>7, <1>8, <1>10, <3>2 DEF Readied
  <2> QED
    BY <2>1, <2>2
<1>12. KernelOk(c)
  BY <1>11, ReadiedOk
<1>13. z \in Kernels /\ KernelOk(z) /\ Ticked(c, z, x.pended) /\ z.pended = 0
  BY <1>5, <1>11, <1>12, PendedTicksOk
<1>14. PICK y : y = xTaskResumeAll(x)
  OBVIOUS
<1>15. y \in Kernels /\ Alike(z, y) /\ y.pended = 0
  <2>1. CASE z.yield
    <3>1. y = [z EXCEPT !.pendsv = TRUE]
      BY <1>6, <1>14, <2>1, Zenon DEF portYIELD
    <3> QED
      BY <1>13, <3>1 DEF Kernels, Alike
  <2>2. CASE ~z.yield
    <3>1. y = z
      BY <1>6, <1>14, <2>2, Zenon
    <3> QED
      BY <1>13, <3>1 DEF Alike
  <2> QED
    BY <2>1, <2>2
<1>16. KernelOk(y) /\ Ticked(c, y, x.pended)
  BY <1>13, <1>15, AlikeOk, TickedAlike
<1>17. y.pend = <<>>
  BY <1>11, <1>16 DEF Ticked, Readied
<1> QED
  BY <1>11, <1>12, <1>14, <1>15, <1>16, <1>17

\* xTaskIncrementTick
LEMMA IncrementOk ==
  ASSUME NEW x \in Kernels, KernelOk(x)
  PROVE  LET y == xTaskIncrementTick(x) IN
         /\ y \in Kernels /\ KernelOk(y)
         /\ x.susp > 0 => Alike(x, y) /\ y.pended = x.pended + 1
         /\ ~(x.susp > 0) => Ticked(x, y, 1) /\ y.pended = x.pended
<1>1. CASE x.susp > 0
  <2>1. PICK b : b = (x.pendsv \/ x.yield)
    OBVIOUS
  <2>2. b \in BOOLEAN
    BY <2>1, Zenon
  <2>3. PICK y : y = [x EXCEPT !.pended = @ + 1, !.pendsv = b]
    OBVIOUS
  <2>4. xTaskIncrementTick(x) = y
    BY <1>1, <2>1, <2>3, Zenon DEF xTaskIncrementTick
  <2>5. x.pended + 1 \in Nat
    BY DEF Kernels
  <2>6. y \in Kernels /\ Alike(x, y) /\ y.pended = x.pended + 1
    BY <2>2, <2>3, <2>5 DEF Kernels, Alike
  <2> QED
    BY <1>1, <2>4, <2>6, AlikeOk
<1>2. CASE ~(x.susp > 0)
  <2>1. PICK z : z = UnblockExpired(x)
    OBVIOUS
  <2>2. z \in Kernels /\ KernelOk(z) /\ Ticked(x, z, 1) /\ z.pended = x.pended
    BY <2>1, UnblockFacts
  <2>3. PICK y : y = xTaskIncrementTick(x)
    OBVIOUS
  <2>4. y = IF SwitchRequired(x, z) THEN portYIELD(z) ELSE z
    BY <1>2, <2>1, <2>3, Zenon DEF xTaskIncrementTick
  <2>5. y = portYIELD(z) \/ y = z
    BY <2>4, Zenon
  <2>6. y \in Kernels /\ Alike(z, y) /\ y.pended = z.pended
    BY <2>2, <2>5 DEF portYIELD, Kernels, Alike
  <2> QED
    BY <1>2, <2>2, <2>3, <2>6, AlikeOk, TickedAlike
<1> QED
  BY <1>1, <1>2

-----------------------------------------------------------------------------
(* Tasks that are woken, and tasks that wait *)

\* The tasks of S, which waited in e, are woken.
Served(x, y, e, S) ==
  /\ S \subseteq Waits(x, e) /\ Waits(y, e) = Waits(x, e) \ S
  /\ \A d \in Events \ {e} : Waits(y, d) = Waits(x, d)
  /\ Members(y.pend) \subseteq Members(x.pend) \cup S /\ (x.susp = 0 => y.pend = x.pend)
  /\ y.tick = x.tick /\ y.over = x.over /\ y.pended = x.pended /\ y.susp = x.susp
  /\ \A t \in Tasks : t \notin S => y.list[t] = x.list[t]
  /\ \A t \in Timed(y) : t \in Timed(x) /\ Left(y, t) = Left(x, t)

\* Nobody is served.
LEMMA ServedNone ==
  ASSUME NEW x, NEW e
  PROVE  Served(x, x, e, {})
BY DEF Served

\* First S is served, then R.
LEMMA ServedOn ==
  ASSUME NEW x, NEW y, NEW z, NEW e \in Events, NEW S, NEW R,
         Served(x, y, e, S), Served(y, z, e, R)
  PROVE  Served(x, z, e, S \cup R) /\ S \cap R = {}
<1>1. /\ S \cup R \subseteq Waits(x, e) /\ Waits(z, e) = Waits(x, e) \ (S \cup R) /\ S \cap R = {}
      /\ \A d \in Events \ {e} : Waits(z, d) = Waits(x, d)
  BY DEF Served
<1>2. Members(z.pend) \subseteq Members(x.pend) \cup (S \cup R) /\ (x.susp = 0 => z.pend = x.pend)
  BY DEF Served
<1>3. z.tick = x.tick /\ z.over = x.over /\ z.pended = x.pended /\ z.susp = x.susp
  BY DEF Served
<1>4. \A t \in Tasks : t \notin S \cup R => z.list[t] = x.list[t]
  BY DEF Served
<1>5. \A t \in Timed(z) : t \in Timed(x) /\ Left(z, t) = Left(x, t)
  BY DEF Served
<1> QED
  BY <1>1, <1>2, <1>3, <1>4, <1>5 DEF Served

\* Served is about the same fields.
LEMMA ServedAlike ==
  ASSUME NEW x, NEW y, NEW z, NEW e, NEW S, Served(x, y, e, S), Alike(y, z),
         z.pended = y.pended, z.susp = y.susp
  PROVE  Served(x, z, e, S)
BY DEF Served, Alike, Waits, Timed, Left

\* xTaskRemoveFromEventList
LEMMA RemoveOk ==
  ASSUME NEW x \in Kernels, KernelOk(x), NEW e \in Events, x.ev[e] # <<>>
  PROVE  LET y == xTaskRemoveFromEventList(x, e) IN
         /\ y \in Kernels /\ KernelOk(y) /\ Served(x, y, e, {Head(x.ev[e])})
         /\ Head(x.ev[e]) \in Tasks
<1>1. PICK t : t = Head(x.ev[e])
  OBVIOUS
<1>2. PICK b : b = (x.yield \/ Higher(x, t))
  OBVIOUS
<1>3. PICK q : q = [x.ev EXCEPT ![e] = Tail(@)]
  OBVIOUS
<1>4. PICK s : s = x.ev[e]
  OBVIOUS
<1>5. s \in Seq(Tasks) /\ Once(s) /\ s # <<>>
  BY <1>4 DEF Kernels, KernelOk, ListsOk
<1>6. /\ t \in Tasks /\ Tail(s) \in Seq(Tasks) /\ Once(Tail(s)) /\ t \in Members(s)
      /\ Members(Tail(s)) = Members(s) \ {t}
  BY <1>1, <1>4, <1>5, HeadFacts
<1>7. q \in [Events -> Seq(Tasks)] /\ q[e] = Tail(s) /\ \A d \in Events \ {e} : q[d] = x.ev[d]
  BY <1>3, <1>4, <1>6 DEF Kernels
<1>8. b \in BOOLEAN
  BY <1>2, Zenon
<1>9. PICK r : r = [x EXCEPT !.ev = q, !.yield = b]
  OBVIOUS
<1>10. r = [x EXCEPT !.ev[e] = Tail(@), !.yield = @ \/ Higher(x, t)]
  <2>1. r = [x EXCEPT !.ev = [x.ev EXCEPT ![e] = Tail(@)], !.yield = (x.yield \/ Higher(x, t))]
    BY <1>2, <1>3, <1>9, Zenon
  <2> QED
    BY <2>1, Zenon
<1>11. /\ r \in Kernels /\ r.ev = q /\ r.list = x.list /\ r.wake = x.wake /\ r.pend = x.pend
       /\ r.tick = x.tick /\ r.over = x.over /\ r.next = x.next /\ r.pended = x.pended
       /\ r.susp = x.susp
  BY <1>7, <1>8, <1>9 DEF Kernels
<1>12. PICK y : y = xTaskRemoveFromEventList(x, e)
  OBVIOUS
<1>13. y = IF x.susp = 0 THEN prvAddTaskToReadyList(r, {t}) ELSE [r EXCEPT !.pend = Append(@, t)]
  BY <1>1, <1>10, <1>12, Zenon DEF xTaskRemoveFromEventList
<1>14. /\ y \in Kernels /\ y.ev = q
       /\ y.tick = x.tick /\ y.over = x.over /\ y.next = x.next /\ y.pended = x.pended
       /\ y.susp = x.susp
       /\ \A u \in Tasks : u # t => y.list[u] = x.list[u] /\ y.wake[u] = x.wake[u]
       /\ y.list[t] = "ready" \/ (y.list[t] = x.list[t] /\ y.wake[t] = x.wake[t])
       /\ Members(y.pend) \subseteq Members(x.pend) \cup {t} /\ (x.susp = 0 => y.pend = x.pend)
  <2>1. CASE x.susp = 0
    <3>1. y = prvAddTaskToReadyList(r, {t})
      BY <1>13, <2>1
    <3>2. /\ y \in Kernels
          /\ y.ev = r.ev /\ y.pend = r.pend /\ y.tick = r.tick /\ y.next = r.next /\ y.over = r.over
          /\ y.pended = r.pended /\ y.susp = r.susp
          /\ \A u \in Tasks : y.list[u] = IF u \in {t} THEN "ready" ELSE r.list[u]
          /\ \A u \in Tasks : y.wake[u] = IF u \in {t} THEN 0 ELSE r.wake[u]
      BY <1>11, <3>1, ReadyFields
    <3> QED
      BY <1>6, <1>11, <3>2
  <2>2. CASE x.susp # 0
    <3>1. PICK p : p = Append(r.pend, t)
      OBVIOUS
    <3>2. p \in Seq(Tasks) /\ Members(p) \subseteq Members(x.pend) \cup {t}
      <4>1. r.pend \in Seq(Tasks)
        BY <1>11 DEF Kernels
      <4>2. p \in Seq(Tasks)
        BY <1>6, <3>1, <4>1
      <4>3. Members(p) \subseteq Members(r.pend) \cup {t}
        BY <1>6, <3>1, <4>1, AppendFacts
      <4> QED
        BY <1>11, <4>2, <4>3
    <3>3. y = [r EXCEPT !.pend = p]
      BY <1>13, <2>2, <3>1
    <3>4. /\ y \in Kernels
          /\ y.ev = r.ev /\ y.pend = p /\ y.tick = r.tick /\ y.next = r.next /\ y.over = r.over
          /\ y.pended = r.pended /\ y.susp = r.susp /\ y.list = r.list /\ y.wake = r.wake
      BY <1>11, <3>2, <3>3 DEF Kernels
    <3> QED
      BY <1>6, <1>11, <2>2, <3>2, <3>4
  <2> QED
    BY <2>1, <2>2
<1>15. /\ t \in Waits(x, e) /\ Waits(y, e) = Waits(x, e) \ {t}
       /\ \A d \in Events \ {e} : Waits(y, d) = Waits(x, d)
  BY <1>4, <1>6, <1>7, <1>14 DEF Waits
<1>16. \A d \in Events : Waits(y, d) \subseteq Waits(x, d) \ {t}
  BY <1>15 DEF KernelOk, ListsOk
<1>17. \A d \in Events : \A u \in Waits(x, d) : u \in Tasks
  BY DEF Kernels, Waits, Members
<1>18. ListsOk(y)
  <2>1. ASSUME NEW d \in Events PROVE Once(y.ev[d])
    <3>1. Once(x.ev[d])
      BY DEF KernelOk, ListsOk
    <3> QED
      BY <1>6, <1>7, <1>14, <3>1
  <2>2. ASSUME NEW d \in Events, NEW u \in Waits(y, d)
        PROVE  y.list[u] # "ready" /\ u \notin Members(y.pend)
    <3>1. u \in Waits(x, d) /\ u # t /\ u \in Tasks
      BY <1>16, <1>17
    <3>2. x.list[u] # "ready" /\ u \notin Members(x.pend)
      BY <3>1 DEF KernelOk, ListsOk
    <3> QED
      BY <1>14, <3>1, <3>2
  <2>3. \A c, d \in Events : c # d => Waits(y, c) \cap Waits(y, d) = {}
    BY <1>16 DEF KernelOk, ListsOk
  <2> QED
    BY <2>1, <2>2, <2>3 DEF ListsOk
<1>19. TimesOk(y)
  BY <1>14 DEF KernelOk, TimesOk
<1>20. \A u \in Timed(y) : u \in Timed(x) /\ Left(y, u) = Left(x, u)
  <2> TAKE u \in Timed(y)
  <2>1. u \in Tasks /\ y.list[u] # "ready"
    BY DEF Timed
  <2>2. y.list[u] = x.list[u] /\ y.wake[u] = x.wake[u] /\ y.tick = x.tick
    BY <1>14, <2>1
  <2> QED
    BY <2>1, <2>2 DEF Timed, Left
<1>21. Served(x, y, e, {t})
  BY <1>14, <1>15, <1>20 DEF Served
<1> QED
  BY <1>1, <1>6, <1>12, <1>14, <1>18, <1>19, <1>21 DEF KernelOk

\* A task is woken, if one waits.
LEMMA WakeOk ==
  ASSUME NEW x \in Kernels, KernelOk(x), NEW e \in Events
  PROVE  LET y == Wake(x, e) IN
         /\ y \in Kernels /\ KernelOk(y)
         /\ IF x.ev[e] = <<>> THEN y = x
            ELSE Head(x.ev[e]) \in Tasks /\ Served(x, y, e, {Head(x.ev[e])})
<1>1. CASE x.ev[e] = <<>>
  BY <1>1 DEF Wake
<1>2. CASE x.ev[e] # <<>>
  <2>1. PICK w : w = xTaskRemoveFromEventList(x, e)
    OBVIOUS
  <2>2. PICK t : t = Head(x.ev[e])
    OBVIOUS
  <2>3. w \in Kernels /\ KernelOk(w) /\ Served(x, w, e, {t}) /\ t \in Tasks
    BY <1>2, <2>1, <2>2, RemoveOk
  <2>4. PICK y : y = Wake(x, e)
    OBVIOUS
  <2>5. y = portYIELD(w) \/ y = w
    BY <1>2, <2>1, <2>4, Zenon DEF Wake
  <2>6. y \in Kernels /\ Alike(w, y) /\ y.pended = w.pended /\ y.susp = w.susp
    BY <2>3, <2>5 DEF portYIELD, Kernels, Alike
  <2>7. KernelOk(y) /\ Served(x, y, e, {t})
    BY <2>3, <2>6, AlikeOk, ServedAlike
  <2> QED
    BY <1>2, <2>2, <2>3, <2>4, <2>6, <2>7
<1> QED
  BY <1>1, <1>2

\* prvUnlockQueue wakes as many as were counted, or all.
AsMany(x, y, e, n) ==
  \E S \in SUBSET Tasks :
    /\ Served(x, y, e, S) /\ IsFiniteSet(S)
    /\ y.ev[e] = <<>> \/ Cardinality(S) = n

\* The recursion of UnlockWakes, by induction.
LEMMA WokenOk ==
  ASSUME NEW n \in Nat, NEW x \in Kernels, KernelOk(x), NEW e \in Events,
         NEW f, f = Woken(n, x, e, f)
  PROVE  f[n] \in Kernels /\ KernelOk(f[n]) /\ AsMany(x, f[n], e, n)
<1> DEFINE Good == {m \in Nat : m <= n => f[m] \in Kernels /\ KernelOk(f[m]) /\ AsMany(x, f[m], e, m)}
<1>1. f[0] = x
  BY DEF Woken
<1>2. 0 \in Good
  <2>1. Served(x, x, e, {}) /\ IsFiniteSet({}) /\ Cardinality({}) = 0 /\ {} \in SUBSET Tasks
    BY ServedNone, FS_EmptySet
  <2>2. AsMany(x, x, e, 0)
    BY <2>1 DEF AsMany
  <2> QED
    BY <1>1, <2>2
<1>3. ASSUME NEW m \in Nat, m \in Good PROVE m + 1 \in Good
  <2> SUFFICES ASSUME m + 1 <= n
               PROVE  f[m + 1] \in Kernels /\ KernelOk(f[m + 1]) /\ AsMany(x, f[m + 1], e, m + 1)
    OBVIOUS
  <2>1. PICK y : y = f[m]
    OBVIOUS
  <2>2. y \in Kernels /\ KernelOk(y) /\ AsMany(x, y, e, m)
    BY <1>3, <2>1
  <2>3. m + 1 \in 0 .. n /\ m + 1 # 0 /\ (m + 1) - 1 = m
    OBVIOUS
  <2>4. f[m + 1] = WokenOne(y, e)
    BY <2>1, <2>3, Zenon DEF Woken, WokenOne
  <2>5. PICK S \in SUBSET Tasks : /\ Served(x, y, e, S) /\ IsFiniteSet(S)
                                  /\ y.ev[e] = <<>> \/ Cardinality(S) = m
    BY <2>2 DEF AsMany
  <2>6. CASE y.ev[e] = <<>>
    <3>1. f[m + 1] = y
      BY <2>4, <2>6 DEF WokenOne
    <3>2. AsMany(x, y, e, m + 1)
      BY <2>5, <2>6 DEF AsMany
    <3> QED
      BY <2>2, <3>1, <3>2
  <2>7. CASE y.ev[e] # <<>>
    <3>1. PICK z : z = xTaskRemoveFromEventList(y, e)
      OBVIOUS
    <3>2. PICK t : t = Head(y.ev[e])
      OBVIOUS
    <3>3. f[m + 1] = z
      BY <2>4, <2>7, <3>1 DEF WokenOne
    <3>4. z \in Kernels /\ KernelOk(z) /\ Served(y, z, e, {t}) /\ t \in Tasks
      BY <2>2, <2>7, <3>1, <3>2, RemoveOk
    <3>5. Served(x, z, e, S \cup {t}) /\ S \cap {t} = {}
      <4>1. PICK R : R = {t}
        OBVIOUS
      <4>2. Served(x, z, e, S \cup R) /\ S \cap R = {}
        <5>1. Served(x, y, e, S) /\ Served(y, z, e, R)
          BY <2>5, <3>4, <4>1
        <5> QED
          BY <5>1, ServedOn, Zenon
      <4> QED
        BY <4>1, <4>2
    <3>6. IsFiniteSet(S \cup {t}) /\ Cardinality(S \cup {t}) = Cardinality(S) + 1
      BY <2>5, <3>5, FS_AddElement
    <3>7. Cardinality(S \cup {t}) = m + 1 /\ S \cup {t} \in SUBSET Tasks
      BY <2>5, <2>7, <3>4, <3>6
    <3>8. AsMany(x, z, e, m + 1)
      BY <3>5, <3>6, <3>7, Zenon DEF AsMany
    <3> QED
      BY <3>3, <3>4, <3>8
  <2> QED
    BY <2>6, <2>7
<1>4. n \in Good
  <2> HIDE DEF Good
  <2> QED  BY <1>2, <1>3, Induction
<1> QED
  BY <1>4

Positive(n) == IF n > 0 THEN n ELSE 0

\* One half of prvUnlockQueue wakes a task for each item, while there are tasks.
LEMMA UnlockOk ==
  ASSUME NEW x \in Kernels, KernelOk(x), NEW e \in Events, NEW n \in Int
  PROVE  LET y == UnlockWakes(x, e, n) IN
         y \in Kernels /\ KernelOk(y) /\ AsMany(x, y, e, Positive(n))
<1> DEFINE f == CHOOSE h : h = Woken(n, x, e, h)
<1>1. UnlockWakes(x, e, n) = IF n > 0 THEN f[n] ELSE x
  BY Zenon DEF UnlockWakes, Woken
<1>2. CASE n > 0
  <2>1. n \in Nat /\ Positive(n) = n
    BY <1>2 DEF Positive
  <2>2. \E h : h = Woken(n, x, e, h)
    BY <2>1, WokenExists, Zenon
  <2>3. f = Woken(n, x, e, f)
    BY <2>2, Zenon
  <2> HIDE DEF f
  <2>4. UnlockWakes(x, e, n) = f[n]
    BY <1>1, <1>2
  <2> QED
    BY <2>1, <2>3, <2>4, WokenOk
<1>3. CASE ~(n > 0)
  <2>1. Served(x, x, e, {}) /\ IsFiniteSet({}) /\ Cardinality({}) = 0 /\ {} \in SUBSET Tasks
    BY ServedNone, FS_EmptySet
  <2>2. AsMany(x, x, e, 0)
    BY <2>1 DEF AsMany
  <2> QED
    BY <1>1, <1>3, <2>2 DEF Positive
<1> QED
  BY <1>2, <1>3

\* The current task waits for n ticks, or for ever.
Delayed(x, y, n, forever) ==
  /\ y.pend = x.pend /\ y.tick = x.tick /\ y.over = x.over
  /\ y.pended = x.pended /\ y.susp = x.susp
  /\ \A t \in Tasks \ {x.cur} : y.list[t] = x.list[t] /\ y.wake[t] = x.wake[t]
  /\ IF n = MAX_DELAY /\ forever THEN y.list[x.cur] = "suspended"
     ELSE x.cur \in Timed(y) /\ Left(y, x.cur) = n

\* prvAddCurrentTaskToDelayedList keeps the times in order, over an overflow too.
LEMMA DelayTimes ==
  ASSUME NEW x \in Kernels, TimesOk(x), NEW n \in Ticks, n > 0, NEW forever \in BOOLEAN
  PROVE  LET y == prvAddCurrentTaskToDelayedList(x, n, forever) IN
         y \in Kernels /\ TimesOk(y) /\ Delayed(x, y, n, forever) /\ y.ev = x.ev
<1> DEFINE w == (x.tick + n) % (MAX_DELAY + 1)
<1>1. x.tick \in 0 .. MAX_DELAY /\ n \in 1 .. MAX_DELAY /\ MAX_DELAY \in Nat \ {0}
  BY SchedulerAssumption DEF Kernels, Ticks
<1>2. w = IF x.tick + n <= MAX_DELAY THEN x.tick + n ELSE (x.tick + n) - (MAX_DELAY + 1)
  <2>1. CASE x.tick + n <= MAX_DELAY
    BY <1>1, <2>1
  <2>2. CASE ~(x.tick + n <= MAX_DELAY)
    BY <1>1, <2>2
  <2> QED
    BY <2>1, <2>2
<1>3. w \in 0 .. MAX_DELAY
  BY <1>1, <1>2
<1> DEFINE L(l) == [x.list EXCEPT ![x.cur] = l]
           V == [x.wake EXCEPT ![x.cur] = w]
           m == IF w < x.next THEN w ELSE x.next
<1>4. PICK y : y = prvAddCurrentTaskToDelayedList(x, n, forever)
  OBVIOUS
<1>5. /\ n = MAX_DELAY /\ forever => y = [x EXCEPT !.list = L("suspended")]
      /\ ~(n = MAX_DELAY /\ forever) /\ w < x.tick =>
           y = [x EXCEPT !.list = L("overflow"), !.wake = V]
      /\ ~(n = MAX_DELAY /\ forever) /\ ~(w < x.tick) =>
           y = [x EXCEPT !.list = L("delayed"), !.wake = V, !.next = m]
  <2>1. y = IF n = MAX_DELAY /\ forever THEN [x EXCEPT !.list = L("suspended")]
            ELSE IF w < x.tick THEN [x EXCEPT !.list = L("overflow"), !.wake = V]
            ELSE [x EXCEPT !.list = L("delayed"), !.wake = V, !.next = m]
    BY <1>4 DEF prvAddCurrentTaskToDelayedList
  <2> HIDE DEF w, L, V, m
  <2> QED
    BY <2>1, Zenon
<1>6. y \in Kernels
  BY <1>4, DelayFacts
<1>7. /\ V[x.cur] = w /\ \A t \in Tasks \ {x.cur} : V[t] = x.wake[t]
      /\ \A l : L(l)[x.cur] = l /\ \A t \in Tasks \ {x.cur} : L(l)[t] = x.list[t]
      /\ x.cur \in Tasks
  BY DEF Kernels
<1>8. m \in 0 .. MAX_DELAY /\ m <= x.next /\ m <= w /\ x.next \in 0 .. MAX_DELAY
  BY <1>1, <1>3 DEF Kernels, Ticks
<1>9. \A t \in Tasks : x.wake[t] \in 0 .. MAX_DELAY
  BY DEF Kernels, Ticks
<1> HIDE DEF w, L, V, m
<1>10. /\ y.ev = x.ev /\ y.pend = x.pend /\ y.tick = x.tick /\ y.over = x.over
       /\ y.pended = x.pended /\ y.susp = x.susp
       /\ \/ /\ n = MAX_DELAY /\ forever /\ y.list = L("suspended")
             /\ y.wake = x.wake /\ y.next = x.next
          \/ /\ ~(n = MAX_DELAY /\ forever) /\ w < x.tick /\ y.list = L("overflow")
             /\ y.wake = V /\ y.next = x.next
          \/ /\ ~(n = MAX_DELAY /\ forever) /\ ~(w < x.tick) /\ y.list = L("delayed")
             /\ y.wake = V /\ y.next = m
  <2>1. CASE n = MAX_DELAY /\ forever
    BY <1>5, <2>1 DEF Kernels
  <2>2. CASE ~(n = MAX_DELAY /\ forever) /\ w < x.tick
    BY <1>5, <2>2 DEF Kernels
  <2>3. CASE ~(n = MAX_DELAY /\ forever) /\ ~(w < x.tick)
    BY <1>5, <2>3 DEF Kernels
  <2> QED
    BY <2>1, <2>2, <2>3
<1>11. \A t \in Tasks \ {x.cur} : y.list[t] = x.list[t] /\ y.wake[t] = x.wake[t]
  BY <1>7, <1>10
<1>13. IF n = MAX_DELAY /\ forever THEN y.list[x.cur] = "suspended"
       ELSE x.cur \in Timed(y) /\ Left(y, x.cur) = n
  BY <1>1, <1>2, <1>7, <1>10 DEF Timed, Left
<1>14. TimesOk(y)
  <2>1. ASSUME NEW t \in Tasks, y.list[t] = "delayed" PROVE y.wake[t] > y.tick /\ y.next <= y.wake[t]
    <3>1. CASE t = x.cur
      BY <1>1, <1>2, <1>7, <1>8, <1>10, <2>1, <3>1
    <3>2. CASE t # x.cur
      <4>1. x.list[t] = "delayed" /\ y.wake[t] = x.wake[t]
        BY <1>11, <2>1, <3>2
      <4>2. x.wake[t] > x.tick /\ x.next <= x.wake[t]
        BY <4>1 DEF TimesOk
      <4>3. y.next <= x.next /\ y.next \in 0 .. MAX_DELAY
        BY <1>1, <1>8, <1>10
      <4> QED
        BY <1>1, <1>8, <1>9, <1>10, <4>1, <4>2, <4>3
    <3> QED
      BY <3>1, <3>2
  <2> QED
    BY <2>1 DEF TimesOk
<1> QED
  BY <1>4, <1>6, <1>10, <1>11, <1>13, <1>14 DEF Delayed

\* ... and the lists.
LEMMA DelayOk ==
  ASSUME NEW x \in Kernels, KernelOk(x), NEW n \in Ticks, n > 0, NEW forever \in BOOLEAN
  PROVE  LET y == prvAddCurrentTaskToDelayedList(x, n, forever) IN
         y \in Kernels /\ KernelOk(y) /\ Delayed(x, y, n, forever) /\ y.ev = x.ev
<1>1. PICK y : y = prvAddCurrentTaskToDelayedList(x, n, forever)
  OBVIOUS
<1>2. y \in Kernels /\ TimesOk(y) /\ Delayed(x, y, n, forever) /\ y.ev = x.ev
  BY <1>1, DelayTimes DEF KernelOk
<1>3. ListsOk(y)
  <2>1. \A e \in Events : Waits(y, e) = Waits(x, e) /\ \A t \in Waits(x, e) : t \in Tasks
    BY <1>2 DEF Kernels, Waits, Members
  <2>2. \A t \in Tasks : x.list[t] # "ready" => y.list[t] # "ready"
    BY <1>2 DEF Delayed, Timed
  <2>3. y.pend = x.pend
    BY <1>2 DEF Delayed
  <2> QED
    BY <1>2, <2>1, <2>2, <2>3 DEF KernelOk, ListsOk
<1> QED
  BY <1>1, <1>2, <1>3 DEF KernelOk

\* vTaskPlaceOnEventList, by a task that is ready.
LEMMA PlaceOk ==
  ASSUME NEW x \in Kernels, KernelOk(x), NEW e \in Events, NEW n \in Ticks, n > 0,
         x.list[x.cur] = "ready", x.cur \notin Members(x.pend)
  PROVE  LET y == vTaskPlaceOnEventList(x, e, n) IN
         /\ y \in Kernels /\ KernelOk(y) /\ Delayed(x, y, n, TRUE)
         /\ Waits(y, e) = Waits(x, e) \cup {x.cur}
         /\ \A d \in Events \ {e} : Waits(y, d) = Waits(x, d)
<1>1. PICK q : q = [x.ev EXCEPT ![e] = vListInsert(@, x.cur)]
  OBVIOUS
<1>2. x.ev[e] \in Seq(Tasks) /\ x.cur \in Tasks /\ Once(x.ev[e])
  BY DEF Kernels, KernelOk, ListsOk
<1>3. \A d \in Events : x.cur \notin Waits(x, d)
  BY DEF KernelOk, ListsOk
<1>4. PICK s : s = vListInsert(x.ev[e], x.cur)
  OBVIOUS
<1>5. s \in Seq(Tasks) /\ Members(s) = Waits(x, e) \cup {x.cur} /\ Once(s)
  <2>1. s \in Seq(Tasks)
    BY <1>2, <1>4, ListInsert
  <2>2. x.cur \notin Members(x.ev[e])
    BY <1>3 DEF Waits
  <2>3. Members(s) = Members(x.ev[e]) \cup {x.cur} /\ Once(s)
    BY <1>2, <1>4, <2>2, InsertFacts
  <2> QED
    BY <2>1, <2>3 DEF Waits
<1>6. q \in [Events -> Seq(Tasks)] /\ q[e] = s /\ \A d \in Events \ {e} : q[d] = x.ev[d]
  BY <1>1, <1>4, <1>5 DEF Kernels
<1>7. PICK z : z = [x EXCEPT !.ev = q]
  OBVIOUS
<1>8. PICK y : y = vTaskPlaceOnEventList(x, e, n)
  OBVIOUS
<1>9. y = prvAddCurrentTaskToDelayedList(z, n, TRUE)
  BY <1>1, <1>7, <1>8 DEF vTaskPlaceOnEventList
<1>10. z \in Kernels
  BY <1>6, <1>7 DEF Kernels
<1>11. /\ z.ev = q /\ z.list = x.list /\ z.wake = x.wake /\ z.pend = x.pend /\ z.cur = x.cur
       /\ z.tick = x.tick /\ z.over = x.over /\ z.next = x.next /\ z.pended = x.pended
       /\ z.susp = x.susp
  BY <1>7 DEF Kernels
\* The task is in the event list while it is still ready: only the times are right yet.
<1>12. TimesOk(z)
  BY <1>11 DEF KernelOk, TimesOk
<1>13. y \in Kernels /\ TimesOk(y) /\ Delayed(z, y, n, TRUE) /\ y.ev = q
  BY <1>9, <1>10, <1>11, <1>12, DelayTimes
<1>14. Delayed(x, y, n, TRUE)
  BY <1>11, <1>13 DEF Delayed
<1>15. Waits(y, e) = Waits(x, e) \cup {x.cur} /\ \A d \in Events \ {e} : Waits(y, d) = Waits(x, d)
  BY <1>5, <1>6, <1>13 DEF Waits
<1>16. ListsOk(y)
  <2>1. \A d \in Events : Once(y.ev[d])
    BY <1>5, <1>6, <1>13 DEF KernelOk, ListsOk
  <2>2. y.list[x.cur] # "ready"
    BY <1>14 DEF Delayed, Timed
  <2>3. \A d \in Events : \A t \in Waits(x, d) : y.list[t] # "ready" /\ t \notin Members(y.pend)
    <3>1. \A d \in Events : \A t \in Waits(x, d) :
            t \in Tasks \ {x.cur} /\ x.list[t] # "ready" /\ t \notin Members(x.pend)
      BY <1>3 DEF KernelOk, ListsOk, Kernels, Waits, Members
    <3> QED
      BY <1>14, <3>1 DEF Delayed
  <2>4. x.cur \notin Members(y.pend)
    BY <1>14 DEF Delayed
  <2>5. \A c, d \in Events : c # d => Waits(y, c) \cap Waits(y, d) = {}
    BY <1>3, <1>15 DEF KernelOk, ListsOk
  <2> QED
    BY <1>15, <2>1, <2>2, <2>3, <2>4, <2>5 DEF ListsOk
<1> QED
  BY <1>8, <1>13, <1>14, <1>15, <1>16 DEF KernelOk

-----------------------------------------------------------------------------
(* The tasks that wait for the queue *)

\* A task that waits will try again; the one that has just begun to wait still runs.
TriesAgain(t) == pc[t] = "try" \/ (pc[t] \in Leaving /\ after[t] = "blocked")

\* The locations of a call that is going to wait.
Waiting == {"suspend", "lock", "check", "place", "block"}

WaitInv ==
  /\ KernelOk(k)
  /\ k.susp = 0 => k.pend = <<>> /\ k.pended = 0
  /\ \A e \in Events : \A t \in Waits(k, e) : call[t].kind = e /\ TriesAgain(t)
  /\ \A t \in Members(k.pend) : TriesAgain(t)
  /\ \A t \in Tasks : pc[t] \in Waiting => call[t].ticks > 0

\* A step of task t is its own.
Own(t) ==
  \A u \in Tasks \ {t} : pc'[u] = pc[u] /\ after'[u] = after[u] /\ call'[u] = call[u]

\* Where a step leaves task t.
Goes(t, l, r, c) == Own(t) /\ pc'[t] = l /\ after'[t] = r /\ call'[t] = c

\* A step given by its EXCEPTs.
LEMMA GoesBy ==
  ASSUME KernelInv, NEW t \in Tasks, NEW l, NEW r, NEW c,
         pc' = [pc EXCEPT ![t] = l], after' = [after EXCEPT ![t] = r], call' = [call EXCEPT ![t] = c]
  PROVE  Goes(t, l, r, c)
BY DEF KernelInv, KernelTypes, Goes, Own

\* What a step leaves alone, as an EXCEPT.
LEMMA Unmoved ==
  ASSUME KernelInv, NEW t \in Tasks
  PROVE  /\ after = [after EXCEPT ![t] = after[t]] /\ call = [call EXCEPT ![t] = call[t]]
BY DEF KernelInv, KernelTypes

\* A call that returns.
LEMMA ReturnGoes ==
  ASSUME KernelInv, NEW t \in Tasks, NEW v, Returns(t, v)
  PROVE  Goes(t, "idle", after[t], NoCall)
<1>1. pc' = [pc EXCEPT ![t] = "idle"] /\ call' = [call EXCEPT ![t] = NoCall] /\ after' = after
  BY DEF Returns, Goto
<1> QED
  BY <1>1, Unmoved, GoesBy

\* The tasks that are in the kernel's lists.
LEMMA WaitsTasks ==
  ASSUME NEW x \in Kernels
  PROVE  /\ \A e \in Events : Waits(x, e) \subseteq Tasks
         /\ Members(x.pend) \subseteq Tasks
BY DEF Kernels, Waits, Members

\* The task that runs waits for nothing, unless it has just begun to wait.
LEMMA Untouched ==
  ASSUME KernelInv, WaitInv, NEW t \in Tasks, Runs(t), pc[t] \notin Leaving
  PROVE  /\ \A e \in Events : t \notin Waits(k, e)
         /\ t \notin Members(k.pend)
         /\ k.list[t] = "ready"
<1>1. t \in ReadyTasks(k) /\ (pc[t] \notin Locked => k.susp = 0)
  BY Running
<1>2. k.list[t] = "ready"
  BY <1>1 DEF ReadyTasks
<1>3. \A e \in Events : t \notin Waits(k, e)
  BY <1>2 DEF WaitInv, KernelOk, ListsOk
<1>4. k.susp = 0 => Members(k.pend) = {}
  BY EmptyFacts DEF WaitInv
<1>5. pc[t] \in Locked => ~TriesAgain(t)
  BY DEF TriesAgain, Locked
<1>6. t \notin Members(k.pend)
  BY <1>1, <1>4, <1>5 DEF WaitInv
<1> QED
  BY <1>2, <1>3, <1>6

\* What a step of task t has to keep.
LEMMA WaitKept ==
  ASSUME KernelInv, WaitInv, NEW t \in Tasks, Own(t),
         k' \in Kernels, KernelOk(k'), k'.susp = 0 => k'.pend = <<>> /\ k'.pended = 0,
         \A e \in Events : \A u \in Waits(k', e) : u # t => u \in Waits(k, e),
         \A u \in Members(k'.pend) : u # t => u \in Members(k.pend) \/ \E e \in Events : u \in Waits(k, e),
         \A e \in Events : t \in Waits(k', e) => call'[t].kind = e /\ TriesAgain(t)',
         t \in Members(k'.pend) => TriesAgain(t)',
         pc'[t] \in Waiting => call'[t].ticks > 0
  PROVE  WaitInv'
<1>1. \A u \in Tasks : u # t => (TriesAgain(u)' <=> TriesAgain(u))
  BY DEF TriesAgain, Own
<1>2. /\ \A e \in Events : Waits(k', e) \subseteq Tasks
      /\ Members(k'.pend) \subseteq Tasks
  BY WaitsTasks
<1>3. ASSUME NEW e \in Events, NEW u \in Waits(k', e) PROVE call'[u].kind = e /\ TriesAgain(u)'
  <2>1. u \in Tasks
    BY <1>2
  <2>2. CASE u = t
    BY <1>3, <2>2
  <2>3. CASE u # t
    <3>1. u \in Waits(k, e)
      BY <2>3
    <3>2. call[u].kind = e /\ TriesAgain(u)
      BY <3>1 DEF WaitInv
    <3> QED
      BY <1>1, <2>1, <2>3, <3>2 DEF Own
  <2> QED
    BY <2>2, <2>3
<1>4. ASSUME NEW u \in Members(k'.pend) PROVE TriesAgain(u)'
  <2>1. u \in Tasks
    BY <1>2
  <2>2. CASE u = t
    BY <2>2
  <2>3. CASE u # t
    <3>1. TriesAgain(u)
      BY <2>3 DEF WaitInv
    <3> QED
      BY <1>1, <2>1, <2>3, <3>1
  <2> QED
    BY <2>2, <2>3
<1>5. \A u \in Tasks : pc'[u] \in Waiting => call'[u].ticks > 0
  BY DEF WaitInv, Own
<1> QED
  BY <1>3, <1>4, <1>5 DEF WaitInv

\* A step of task t that leaves the lists of the kernel alone.
LEMMA QuietWait ==
  ASSUME KernelInv, WaitInv, NEW t \in Tasks, Runs(t), pc[t] \notin Leaving, Own(t),
         k' \in Kernels, Alike(k, k'), k'.susp = 0 => k'.pended = 0 /\ k.susp = 0,
         pc'[t] \in Waiting => call'[t].ticks > 0
  PROVE  WaitInv'
<1>1. KernelOk(k')
  BY AlikeOk DEF WaitInv
<1>2. k'.pend = k.pend /\ \A e \in Events : Waits(k', e) = Waits(k, e)
  BY DEF Alike, Waits
<1>3. (\A e \in Events : t \notin Waits(k, e)) /\ t \notin Members(k.pend)
  BY Untouched
<1>4. k'.susp = 0 => k'.pend = <<>> /\ k'.pended = 0
  BY <1>2 DEF WaitInv
<1> QED
  BY <1>1, <1>2, <1>3, <1>4, WaitKept

\* An interrupt, the tick or a switch.
LEMMA InterruptWait ==
  ASSUME KernelInv, WaitInv, UNCHANGED <<pc, after, call>>, k' \in Kernels, KernelOk(k'),
         k'.susp = 0 => k'.pend = <<>> /\ k'.pended = 0,
         \A e \in Events : Waits(k', e) \subseteq Waits(k, e),
         \A u \in Members(k'.pend) : u \in Members(k.pend) \/ \E e \in Events : u \in Waits(k, e)
  PROVE  WaitInv'
<1>1. \A u : TriesAgain(u)' <=> TriesAgain(u)
  BY DEF TriesAgain
<1> QED
  BY <1>1 DEF WaitInv

LEMMA InitWaitInv == Init => WaitInv
<1> SUFFICES ASSUME Init PROVE WaitInv
  OBVIOUS
<1>1. /\ k.list = [t \in Tasks |-> "ready"] /\ k.ev = [e \in Events |-> <<>>] /\ k.pend = <<>>
      /\ k.pended = 0
  BY DEF Init
<1>2. \A e \in Events : k.ev[e] = <<>>
  BY <1>1
<1>3. Members(k.pend) = {} /\ \A e \in Events : Waits(k, e) = {} /\ Once(k.ev[e])
  BY <1>1, <1>2, EmptyFacts DEF Waits
<1>4. ListsOk(k)
  BY <1>3 DEF ListsOk
<1>5. TimesOk(k)
  BY <1>1 DEF TimesOk
<1>6. \A t \in Tasks : pc[t] \notin Waiting
  BY DEF Init, Waiting
<1> QED
  BY <1>1, <1>3, <1>4, <1>5, <1>6 DEF WaitInv, KernelOk

\* The steps of a call that do not touch the kernel.
LEMMA QuietStep ==
  ASSUME KernelInv, WaitInv, NEW t \in Tasks,
         \/ \E c \in Calls[t] : Call(t, c)
         \/ TryBlocks(t) \/ prvLockQueue(t) \/ xTaskCheckForTimeOut(t)
         \/ NoLongerBlocks(t) \/ StillBlocks(t) \/ Expired(t) \/ DelayReturns(t)
  PROVE  WaitInv'
<1>1. Runs(t) /\ pc[t] \notin Leaving /\ UNCHANGED k
  BY DEF Call, TryBlocks, prvLockQueue, xTaskCheckForTimeOut, NoLongerBlocks, StillBlocks, Expired,
    DelayReturns, Leaving
<1>2. k' \in Kernels /\ Alike(k, k') /\ (k'.susp = 0 => k'.pended = 0 /\ k.susp = 0)
  BY <1>1 DEF KernelInv, KernelTypes, WaitInv, Alike
<1>3. ASSUME NEW l, NEW r, NEW c, Goes(t, l, r, c), l \in Waiting => c.ticks > 0
      PROVE  WaitInv'
  BY <1>1, <1>2, <1>3, QuietWait DEF Goes
<1>4. ASSUME NEW v, Returns(t, v) PROVE WaitInv'
  BY <1>3, <1>4, ReturnGoes DEF Waiting
<1>5. pc[t] \in Waiting => call[t].ticks > 0
  BY DEF WaitInv
<1>6. ASSUME NEW l, NEW r, pc' = [pc EXCEPT ![t] = l], after' = [after EXCEPT ![t] = r], UNCHANGED call,
             l \in Waiting => call[t].ticks > 0
      PROVE  WaitInv'
  <2>1. Goes(t, l, r, call[t])
    BY <1>6, Unmoved, GoesBy
  <2> QED
    BY <1>3, <1>6, <2>1
<1>7. ASSUME NEW l, pc' = [pc EXCEPT ![t] = l], UNCHANGED after, UNCHANGED call,
             l \in Waiting => call[t].ticks > 0
      PROVE  WaitInv'
  BY <1>6, <1>7, Unmoved
<1>8. CASE \E c \in Calls[t] : Call(t, c)
  <2>1. PICK c \in Calls[t] : Call(t, c)
    BY <1>8
  <2>2. pc' = [pc EXCEPT ![t] = "try"] /\ call' = [call EXCEPT ![t] = c] /\ UNCHANGED after
    BY <2>1 DEF Call, Goto
  <2>3. Goes(t, "try", after[t], c)
    BY <2>2, Unmoved, GoesBy
  <2> QED
    BY <1>3, <2>3 DEF Waiting
<1>9. CASE TryBlocks(t)
  <2>1. CASE call[t].ticks = 0
    BY <1>4, <1>9, <2>1 DEF TryBlocks
  <2>2. CASE call[t].ticks # 0
    <3>1. pc' = [pc EXCEPT ![t] = "suspend"] /\ UNCHANGED after /\ UNCHANGED call
      BY <1>9, <2>2 DEF TryBlocks, Goto
    <3>2. call[t] \in QueueCalls
      BY <1>1, <1>9, Running DEF TryBlocks, CallState, Leaving
    <3>3. call[t].ticks > 0
      BY <2>2, <3>2, SchedulerAssumption DEF QueueCalls, Ticks
    <3> QED
      BY <1>7, <3>1, <3>3
  <2> QED
    BY <2>1, <2>2
<1>10. CASE prvLockQueue(t)
  <2>1. pc[t] = "lock" /\ pc' = [pc EXCEPT ![t] = "check"] /\ UNCHANGED after /\ UNCHANGED call
    BY <1>10 DEF prvLockQueue, Goto
  <2> QED
    BY <1>5, <1>7, <2>1 DEF Waiting
<1>11. CASE xTaskCheckForTimeOut(t)
  <2>1. call[t] \in QueueCalls /\ pc[t] = "check"
    BY <1>1, <1>11, Running DEF xTaskCheckForTimeOut, CallState, Leaving
  <2>2. call[t].ticks \in 0 .. MAX_DELAY /\ MAX_DELAY \in Nat \ {0}
    BY <2>1, SchedulerAssumption DEF QueueCalls, Ticks
  <2>3. CASE TimedOut(t)
    <3>1. PICK c : call' = [call EXCEPT ![t] = c]
      BY <1>11, <2>3 DEF xTaskCheckForTimeOut
    <3>2. pc' = [pc EXCEPT ![t] = "unlocktx"] /\ after' = [after EXCEPT ![t] = "expired"]
      BY <1>11, <2>3 DEF xTaskCheckForTimeOut, Goto
    <3>3. Goes(t, "unlocktx", "expired", c)
      BY <3>1, <3>2, GoesBy
    <3> QED
      BY <1>3, <3>3 DEF Waiting
  <2>4. CASE ~TimedOut(t)
    <3> DEFINE n == IF call[t].ticks = MAX_DELAY THEN call[t].ticks ELSE call[t].ticks - Elapsed(t)
               c == [call[t] EXCEPT !.ticks = n]
    <3>1. /\ pc' = [pc EXCEPT ![t] = "place"] /\ UNCHANGED after /\ call' = [call EXCEPT ![t] = c]
      BY <1>11, <2>4 DEF xTaskCheckForTimeOut, Goto
    <3>2. Elapsed(t) \in Nat
      <4>1. k.tick \in Int /\ xTimeOut[t].at \in Int
        BY <2>2 DEF KernelInv, KernelTypes, Kernels, Times, Ticks
      <4> QED
        BY <2>2, <4>1 DEF Elapsed
    <3>3. call[t].ticks = MAX_DELAY \/ ~(Elapsed(t) >= call[t].ticks)
      BY <2>4 DEF TimedOut
    <3>4. n > 0
      BY <2>2, <3>2, <3>3
    <3> HIDE DEF n
    <3>5. c.ticks = n
      BY <2>1 DEF QueueCalls
    <3> HIDE DEF c
    <3>6. Goes(t, "place", after[t], c)
      BY <3>1, Unmoved, GoesBy
    <3> QED
      BY <1>3, <3>4, <3>5, <3>6
  <2> QED
    BY <2>3, <2>4
<1>12. CASE NoLongerBlocks(t)
  <2>1. pc' = [pc EXCEPT ![t] = "unlocktx"] /\ after' = [after EXCEPT ![t] = "retry"] /\ UNCHANGED call
    BY <1>12 DEF NoLongerBlocks, Goto
  <2> QED
    BY <1>6, <2>1 DEF Waiting
<1>13. CASE StillBlocks(t)
  <2>1. pc[t] = "place" /\ pc' = [pc EXCEPT ![t] = "block"] /\ UNCHANGED after /\ UNCHANGED call
    BY <1>13 DEF StillBlocks, Goto
  <2> QED
    BY <1>5, <1>7, <2>1 DEF Waiting
<1>14. CASE Expired(t)
  <2>1. CASE Returns(t, "refused")
    BY <1>4, <2>1
  <2>2. CASE Goto(t, "try") /\ UNCHANGED <<call, after>>
    BY <1>7, <2>2 DEF Goto, Waiting
  <2> QED
    BY <1>14, <2>1, <2>2 DEF Expired
<1>15. CASE DelayReturns(t)
  BY <1>4, <1>15 DEF DelayReturns
<1> QED
  BY <1>8, <1>9, <1>10, <1>11, <1>12, <1>13, <1>14, <1>15

\* Tasks leave the event lists and none comes.
Fewer(x, y) ==
  /\ \A e \in Events : Waits(y, e) \subseteq Waits(x, e)
  /\ \A u \in Members(y.pend) : u \in Members(x.pend) \/ \E e \in Events : u \in Waits(x, e)

\* The ways in which tasks leave the event lists: they are served,
LEMMA ServedFewer ==
  ASSUME NEW x, NEW y, NEW e \in Events, NEW S, Served(x, y, e, S)
  PROVE  Fewer(x, y)
BY DEF Served, Fewer

\* none leaves,
LEMMA AlikeFewer ==
  ASSUME NEW x, NEW y, Alike(x, y)
  PROVE  Fewer(x, y)
BY DEF Alike, Fewer, Waits

\* their time is over,
LEMMA TickedFewer ==
  ASSUME NEW x, NEW y, NEW n, Ticked(x, y, n)
  PROVE  Fewer(x, y)
BY DEF Ticked, Fewer

\* or both, in xTaskResumeAll.
LEMMA ReadiedFewer ==
  ASSUME NEW x, NEW r, NEW y, NEW n, Readied(x, r), Ticked(r, y, n)
  PROVE  \A e \in Events : Waits(y, e) \subseteq Waits(x, e)
BY DEF Readied, Ticked, Waits

\* Wake
LEMMA WakeFewer ==
  ASSUME NEW x \in Kernels, KernelOk(x), NEW e \in Events, NEW y, y = Wake(x, e),
         x.susp = 0 => x.pend = <<>> /\ x.pended = 0
  PROVE  /\ y \in Kernels /\ KernelOk(y) /\ Fewer(x, y)
         /\ y.susp = 0 => y.pend = <<>> /\ y.pended = 0
<1>1. /\ y \in Kernels /\ KernelOk(y)
      /\ IF x.ev[e] = <<>> THEN y = x ELSE Served(x, y, e, {Head(x.ev[e])})
  BY WakeOk
<1>2. CASE x.ev[e] = <<>>
  BY <1>1, <1>2 DEF Fewer
<1>3. CASE x.ev[e] # <<>>
  <2>1. PICK S : Served(x, y, e, S)
    BY <1>1, <1>3
  <2>2. Fewer(x, y)
    BY <2>1, ServedFewer
  <2>3. y.pended = x.pended /\ y.susp = x.susp /\ (x.susp = 0 => y.pend = x.pend)
    BY <2>1 DEF Served
  <2> QED
    BY <1>1, <2>2, <2>3
<1> QED
  BY <1>2, <1>3

\* A step of a task that waits for nothing, in which others may be woken.
LEMMA WakingWait ==
  ASSUME KernelInv, WaitInv, NEW t \in Tasks, Runs(t), pc[t] \notin Leaving, Own(t),
         k' \in Kernels, KernelOk(k'), Fewer(k, k'), k'.susp = 0 => k'.pend = <<>> /\ k'.pended = 0,
         pc'[t] \in Waiting => call'[t].ticks > 0
  PROVE  WaitInv'
<1>1. (\A e \in Events : t \notin Waits(k, e)) /\ t \notin Members(k.pend)
  BY Untouched
<1>2. (\A e \in Events : t \notin Waits(k', e)) /\ t \notin Members(k'.pend)
  BY <1>1 DEF Fewer
<1> QED
  BY <1>2, WaitKept DEF Fewer

LEMMA ServedWait ==
  ASSUME KernelInv, WaitInv, NEW t \in Tasks, SendTry(t) \/ ReceiveTry(t)
  PROVE  WaitInv'
<1>1. PICK e \in Events : k' = Wake(k, e) /\ \E v : Returns(t, v)
  BY QueueAssumption DEF SendTry, ReceiveTry
<1>2. Runs(t) /\ pc[t] \notin Leaving
  BY DEF SendTry, ReceiveTry, Leaving
<1>3. Goes(t, "idle", after[t], NoCall)
  BY <1>1, ReturnGoes
<1>4. PICK y : y = k'
  OBVIOUS
<1>5. /\ y \in Kernels /\ KernelOk(y) /\ Fewer(k, y)
      /\ y.susp = 0 => y.pend = <<>> /\ y.pended = 0
  BY <1>1, <1>4, WakeFewer DEF KernelInv, KernelTypes, WaitInv
<1> QED
  BY <1>2, <1>3, <1>4, <1>5, WakingWait DEF Goes, Waiting

LEMMA SuspendAlike ==
  ASSUME NEW x \in Kernels, NEW y, y = vTaskSuspendAll(x)
  PROVE  Alike(x, y) /\ y \in Kernels /\ y.susp = x.susp + 1 /\ y.pended = x.pended /\ y.cur = x.cur
<1>1. y \in Kernels /\ y.susp = x.susp + 1 /\ y.cur = x.cur
  BY SuspendFacts
<1>2. PICK n : n = x.susp + 1
  OBVIOUS
<1>3. y = [x EXCEPT !.susp = n]
  BY <1>2 DEF vTaskSuspendAll
<1>4. Alike(x, y) /\ y.pended = x.pended
  BY <1>3 DEF Kernels, Alike
<1> QED
  BY <1>1, <1>4

LEMMA SuspendWait ==
  ASSUME KernelInv, WaitInv, NEW t \in Tasks, SuspendAll(t)
  PROVE  WaitInv'
<1>1. Runs(t) /\ pc[t] = "suspend" /\ k' = vTaskSuspendAll(k) /\ UNCHANGED <<call, after>>
      /\ pc' = [pc EXCEPT ![t] = "lock"]
  BY DEF SuspendAll, Goto
<1>2. pc[t] \notin Leaving /\ k \in Kernels /\ k.susp \in Nat /\ call[t].ticks > 0
  BY <1>1 DEF Leaving, KernelInv, KernelTypes, Kernels, WaitInv, Waiting
<1>3. PICK y : y = k'
  OBVIOUS
<1>4. Alike(k, y) /\ y \in Kernels /\ y.susp = k.susp + 1
  BY <1>1, <1>2, <1>3, SuspendAlike
<1>5. y.susp # 0
  BY <1>2, <1>4
<1>6. Goes(t, "lock", after[t], call[t])
  BY <1>1, Unmoved, GoesBy
<1> QED
  BY <1>1, <1>2, <1>3, <1>4, <1>5, <1>6, QuietWait DEF Goes

\* What vTaskPlaceOnEventList does when a task calls it.
LEMMA PlacedOk ==
  ASSUME KernelInv, WaitInv, NEW t \in Tasks, Place(t)
  PROVE  /\ k' \in Kernels /\ KernelOk(k') /\ Delayed(k, k', call[t].ticks, TRUE)
         /\ \A d \in Events : Waits(k', d) = IF d = call[t].kind THEN Waits(k, d) \cup {t} ELSE Waits(k, d)
         /\ k.cur = t /\ k.susp = 1 /\ call[t] \in QueueCalls /\ call[t].ticks > 0 /\ pc[t] = "block"
         /\ Goes(t, "unlocktx", "blocked", call[t])
         /\ t \notin Members(k.pend) /\ \A d \in Events : t \notin Waits(k, d)
<1>1. /\ Runs(t) /\ pc[t] = "block" /\ pc' = [pc EXCEPT ![t] = "unlocktx"]
      /\ after' = [after EXCEPT ![t] = "blocked"] /\ UNCHANGED call
      /\ k' = vTaskPlaceOnEventList(k, call[t].kind, call[t].ticks)
  BY DEF Place, Goto
<1>2. /\ pc[t] \notin Leaving /\ k \in Kernels /\ call[t] \in QueueCalls /\ k.cur = t
      /\ k.susp = 1 /\ KernelOk(k) /\ call[t].ticks > 0
  BY <1>1, Running DEF CallState, Leaving, Locked, WaitInv, Waiting
<1>3. PICK e \in Events, n \in Ticks : e = call[t].kind /\ n = call[t].ticks
  BY <1>2, QueueAssumption DEF QueueCalls
<1>4. k.list[t] = "ready" /\ t \notin Members(k.pend) /\ \A d \in Events : t \notin Waits(k, d)
  BY <1>1, <1>2, Untouched
<1>5. PICK y : y = k'
  OBVIOUS
<1>6. /\ y \in Kernels /\ KernelOk(y) /\ Delayed(k, y, n, TRUE)
      /\ Waits(y, e) = Waits(k, e) \cup {t}
      /\ \A d \in Events \ {e} : Waits(y, d) = Waits(k, d)
  <2>1. y = vTaskPlaceOnEventList(k, e, n) /\ n > 0 /\ k.list[k.cur] = "ready"
        /\ k.cur \notin Members(k.pend)
    BY <1>1, <1>2, <1>3, <1>4, <1>5
  <2>2. LET z == vTaskPlaceOnEventList(k, e, n) IN
        /\ z \in Kernels /\ KernelOk(z) /\ Delayed(k, z, n, TRUE)
        /\ Waits(z, e) = Waits(k, e) \cup {k.cur}
        /\ \A d \in Events \ {e} : Waits(z, d) = Waits(k, d)
    BY <1>2, <2>1, PlaceOk
  <2> QED
    BY <1>2, <2>1, <2>2, Zenon
<1>7. Goes(t, "unlocktx", "blocked", call[t])
  BY <1>1, Unmoved, GoesBy
<1>8. \A d \in Events : Waits(y, d) = IF d = e THEN Waits(k, d) \cup {t} ELSE Waits(k, d)
  BY <1>6
<1> QED
  BY <1>1, <1>2, <1>3, <1>4, <1>5, <1>6, <1>7, <1>8

LEMMA PlaceWait ==
  ASSUME KernelInv, WaitInv, NEW t \in Tasks, Place(t)
  PROVE  WaitInv'
<1>1. /\ k' \in Kernels /\ KernelOk(k') /\ Delayed(k, k', call[t].ticks, TRUE)
      /\ \A d \in Events : Waits(k', d) = IF d = call[t].kind THEN Waits(k, d) \cup {t} ELSE Waits(k, d)
      /\ k.susp = 1 /\ Goes(t, "unlocktx", "blocked", call[t])
      /\ t \notin Members(k.pend) /\ \A d \in Events : t \notin Waits(k, d)
  BY PlacedOk
<1>2. k'.pend = k.pend /\ k'.susp = 1
  BY <1>1 DEF Delayed
<1>3. TriesAgain(t)' /\ call'[t].kind = call[t].kind
  BY <1>1 DEF Goes, TriesAgain, Leaving
<1>4. \A d \in Events : t \in Waits(k', d) => d = call[t].kind
  BY <1>1
<1>5. \A d \in Events : \A u \in Waits(k', d) : u # t => u \in Waits(k, d)
  BY <1>1
<1> QED
  BY <1>1, <1>2, <1>3, <1>4, <1>5, WaitKept DEF Goes, Waiting

\* What vTaskDelay does with the kernel.
LEMMA SleepsOk ==
  ASSUME KernelInv, WaitInv, NEW t \in Tasks, NEW c \in Calls[t], vTaskDelay(t, c)
  PROVE  /\ k' \in Kernels /\ KernelOk(k') /\ k'.susp = 1 /\ k'.ev = k.ev /\ Fewer(k, k')
         /\ \E s \in Kernels : /\ Alike(k, s) /\ s.pended = k.pended /\ s.cur = t
                               /\ Delayed(s, k', c.ticks, FALSE)
         /\ Goes(t, "resume", "slept", call[t]) /\ Runs(t) /\ pc[t] = "idle"
         /\ c.ticks \in Ticks /\ c.ticks > 0
<1>1. PICK s : s = vTaskSuspendAll(k)
  OBVIOUS
<1>2. /\ Runs(t) /\ pc[t] = "idle" /\ pc' = [pc EXCEPT ![t] = "resume"]
      /\ after' = [after EXCEPT ![t] = "slept"] /\ UNCHANGED call
      /\ k' = prvAddCurrentTaskToDelayedList(s, c.ticks, FALSE) /\ c.ticks > 0
  BY <1>1 DEF vTaskDelay, Goto
<1>3. /\ pc[t] \notin Leaving /\ k \in Kernels /\ k.cur = t
      /\ k.susp = 0 /\ KernelOk(k)
  BY <1>2, Running DEF CallState, Leaving, Locked, WaitInv
<1>4. c.ticks \in Ticks
  BY QueueAssumption
<1>5. Alike(k, s) /\ s \in Kernels /\ s.susp = 1 /\ s.pended = k.pended /\ s.cur = t
  BY <1>1, <1>3, SuspendAlike
<1>6. KernelOk(s)
  BY <1>3, <1>5, AlikeOk
<1>7. PICK y : y = k'
  OBVIOUS
<1>8. y \in Kernels /\ KernelOk(y) /\ Delayed(s, y, c.ticks, FALSE) /\ y.ev = s.ev
  BY <1>2, <1>4, <1>5, <1>6, <1>7, DelayOk
<1>9. y.susp = 1 /\ Fewer(k, y) /\ y.ev = k.ev
  BY <1>5, <1>8 DEF Delayed, Alike, Fewer, Waits
<1>10. Goes(t, "resume", "slept", call[t])
  BY <1>2, Unmoved, GoesBy
<1> QED
  BY <1>2, <1>4, <1>5, <1>7, <1>8, <1>9, <1>10

LEMMA DelayWait ==
  ASSUME KernelInv, WaitInv, NEW t \in Tasks, NEW c \in Calls[t], vTaskDelay(t, c)
  PROVE  WaitInv'
<1>1. /\ k' \in Kernels /\ KernelOk(k') /\ k'.susp = 1 /\ Fewer(k, k')
      /\ Goes(t, "resume", "slept", call[t]) /\ Runs(t) /\ pc[t] = "idle"
  BY SleepsOk
<1>2. Own(t) /\ pc'[t] \notin Waiting /\ pc[t] \notin Leaving
  BY <1>1 DEF Goes, Waiting, Leaving
<1> QED
  BY <1>1, <1>2, WakingWait

\* A task that has begun to wait goes on leaving.
LEMMA LeavingWait ==
  ASSUME KernelInv, WaitInv, NEW t \in Tasks, NEW l, pc[t] \in Leaving,
         l \in Leaving, Goes(t, l, after[t], call[t]),
         k' \in Kernels, KernelOk(k'), Fewer(k, k'), k'.susp = 0 => k'.pend = <<>> /\ k'.pended = 0
  PROVE  WaitInv'
<1>1. pc'[t] \notin Waiting
  BY DEF Goes, Leaving, Waiting
<1>2. TriesAgain(t) => TriesAgain(t)'
  BY DEF TriesAgain, Goes, Leaving
<1>3. \A e \in Events : t \in Waits(k, e) => call'[t].kind = e /\ TriesAgain(t)
  BY DEF WaitInv, Goes
<1>4. t \in Members(k.pend) => TriesAgain(t)
  BY DEF WaitInv
<1>5. t \in Members(k'.pend) => TriesAgain(t)
  BY <1>3, <1>4 DEF Fewer
<1>6. \A e \in Events : t \in Waits(k', e) => call'[t].kind = e /\ TriesAgain(t)
  BY <1>3 DEF Fewer
<1>7. \A e \in Events : t \in Waits(k', e) => call'[t].kind = e /\ TriesAgain(t)'
  BY <1>2, <1>6
<1>8. t \in Members(k'.pend) => TriesAgain(t)'
  BY <1>2, <1>5
<1> HIDE DEF TriesAgain
<1> QED
  BY <1>1, <1>7, <1>8, WaitKept DEF Fewer, Goes

LEMMA UnlockWait ==
  ASSUME KernelInv, WaitInv, NEW t \in Tasks, UnlockTx(t) \/ UnlockRx(t)
  PROVE  WaitInv'
<1>1. ASSUME NEW e \in Events, NEW n \in Int, NEW l \in Leaving, k' = UnlockWakes(k, e, n),
             pc' = [pc EXCEPT ![t] = l], UNCHANGED <<after, call>>, Runs(t), pc[t] \in Leaving
      PROVE  WaitInv'
  <2>1. PICK y : y = k'
    OBVIOUS
  <2>2. k \in Kernels /\ KernelOk(k) /\ k.susp = 1
    BY <1>1, Running DEF WaitInv, Leaving, Locked
  <2>3. y \in Kernels /\ KernelOk(y) /\ AsMany(k, y, e, Positive(n))
    BY <1>1, <2>1, <2>2, UnlockOk
  <2>4. PICK S : Served(k, y, e, S)
    BY <2>3 DEF AsMany
  <2>5. Fewer(k, y) /\ y.susp = 1
    BY <2>2, <2>4, ServedFewer DEF Served
  <2>6. Goes(t, l, after[t], call[t])
    BY <1>1, Unmoved, GoesBy
  <2> QED
    BY <1>1, <2>1, <2>3, <2>5, <2>6, LeavingWait
<1>2. "send" \in Events /\ "receive" \in Events /\ cTxLock \in Int /\ cRxLock \in Int
  BY QueueAssumption DEF KernelInv, KernelTypes
<1>3. CASE UnlockTx(t)
  <2>1. /\ k' = UnlockWakes(k, "receive", cTxLock) /\ pc' = [pc EXCEPT ![t] = "unlockrx"]
        /\ UNCHANGED <<after, call>> /\ Runs(t) /\ pc[t] \in Leaving /\ "unlockrx" \in Leaving
    BY <1>3 DEF UnlockTx, Goto, Leaving
  <2> QED
    BY <1>1, <1>2, <2>1
<1>4. CASE UnlockRx(t)
  <2>1. /\ k' = UnlockWakes(k, "send", cRxLock) /\ pc' = [pc EXCEPT ![t] = "resume"]
        /\ UNCHANGED <<after, call>> /\ Runs(t) /\ pc[t] \in Leaving /\ "resume" \in Leaving
    BY <1>4 DEF UnlockRx, Goto, Leaving
  <2> QED
    BY <1>1, <1>2, <2>1
<1> QED
  BY <1>3, <1>4

LEMMA YieldAlike ==
  ASSUME NEW x \in Kernels, NEW y, y = portYIELD(x)
  PROVE  Alike(x, y) /\ y \in Kernels /\ y.susp = x.susp /\ y.pended = x.pended /\ y.cur = x.cur
BY DEF portYIELD, Kernels, Alike

\* xTaskResumeAll, with the yield that may follow.
LEMMA ResumedOk ==
  ASSUME KernelInv, WaitInv, NEW t \in Tasks, Resume(t)
  PROVE  /\ k' \in Kernels /\ KernelOk(k') /\ k'.pended = 0 /\ k'.pend = <<>>
         /\ \E r \in Kernels : KernelOk(r) /\ Readied(k, r) /\ Ticked(r, k', k.pended)
<1>1. k \in Kernels /\ KernelOk(k)
  BY DEF KernelInv, KernelTypes, WaitInv
<1>2. PICK y : y = xTaskResumeAll(k)
  OBVIOUS
<1>3. /\ y \in Kernels /\ KernelOk(y) /\ y.pended = 0 /\ y.pend = <<>>
      /\ \E r \in Kernels : KernelOk(r) /\ Readied(k, r) /\ Ticked(r, y, k.pended)
  BY <1>1, <1>2, ResumeOk
<1>4. k' = portYIELD(y) \/ k' = y
  BY <1>2 DEF Resume
<1>5. CASE k' = y
  BY <1>3, <1>5
<1>6. CASE k' = portYIELD(y)
  <2>1. PICK z : z = k'
    OBVIOUS
  <2>2. Alike(y, z) /\ z \in Kernels /\ z.pended = 0
    BY <1>3, <1>6, <2>1, YieldAlike
  <2>3. KernelOk(z) /\ z.pend = <<>>
    BY <1>3, <2>2, AlikeOk DEF Alike
  <2>4. PICK r \in Kernels : KernelOk(r) /\ Readied(k, r) /\ Ticked(r, y, k.pended)
    BY <1>3
  <2>5. Ticked(r, z, k.pended)
    BY <2>2, <2>4, TickedAlike
  <2> QED
    BY <2>1, <2>2, <2>3, <2>4, <2>5
<1> QED
  BY <1>4, <1>5, <1>6

\* Where a task goes after xTaskResumeAll.
LEMMA ResumeGoes ==
  ASSUME KernelInv, NEW t \in Tasks, Resume(t)
  PROVE  /\ Goes(t, GoesOn(after[t]), "none", call[t]) /\ pc[t] = "resume" /\ Runs(t)
         /\ after[t] \in Reasons
<1>1. /\ Runs(t) /\ pc[t] = "resume" /\ pc' = [pc EXCEPT ![t] = GoesOn(after[t])]
      /\ after' = [after EXCEPT ![t] = "none"] /\ UNCHANGED call
  BY DEF Resume, Goto, GoesOn
<1>2. after[t] \in Reasons
  BY <1>1, Running DEF CallState, Leaving
<1> QED
  BY <1>1, <1>2, Unmoved, GoesBy

LEMMA ResumeWait ==
  ASSUME KernelInv, WaitInv, NEW t \in Tasks, Resume(t)
  PROVE  WaitInv'
<1>1. /\ k' \in Kernels /\ KernelOk(k') /\ k'.pended = 0 /\ k'.pend = <<>>
      /\ \E r \in Kernels : KernelOk(r) /\ Readied(k, r) /\ Ticked(r, k', k.pended)
  BY ResumedOk
<1>2. PICK y : y = k'
  OBVIOUS
<1>3. PICK r \in Kernels : KernelOk(r) /\ Readied(k, r) /\ Ticked(r, y, k.pended)
  BY <1>1, <1>2
<1>4. \A e \in Events : Waits(y, e) \subseteq Waits(k, e)
  BY <1>3, ReadiedFewer
<1>5. Goes(t, GoesOn(after[t]), "none", call[t]) /\ pc[t] = "resume" /\ after[t] \in Reasons
  BY ResumeGoes
<1>6. Members(y.pend) = {}
  BY <1>1, <1>2, EmptyFacts
<1>7. pc'[t] \notin Waiting
  BY <1>5 DEF Goes, GoesOn, Reasons, Waiting
<1>8. \A e \in Events : t \in Waits(k, e) => call[t].kind = e /\ TriesAgain(t)
  BY DEF WaitInv
<1>9. TriesAgain(t) => TriesAgain(t)'
  BY <1>5 DEF TriesAgain, Goes, GoesOn
<1>10. \A e \in Events : t \in Waits(y, e) => call'[t].kind = e /\ TriesAgain(t)'
  BY <1>4, <1>5, <1>8, <1>9 DEF Goes
<1> HIDE DEF TriesAgain
<1> QED
  BY <1>1, <1>2, <1>4, <1>5, <1>6, <1>7, <1>10, WaitKept DEF Goes

LEMMA IsrWait ==
  ASSUME KernelInv, WaitInv, (\E v \in IsrItems : xQueueGenericSendFromISR(v)) \/ xQueueReceiveFromISR
  PROVE  WaitInv'
<1>1. UNCHANGED <<pc, after, call>> /\ (UNCHANGED k \/ \E e \in Events : k' = Wake(k, e))
  BY QueueAssumption DEF xQueueGenericSendFromISR, xQueueReceiveFromISR, taskVars
<1>2. /\ k \in Kernels /\ KernelOk(k) /\ (k.susp = 0 => k.pend = <<>> /\ k.pended = 0)
  BY DEF KernelInv, KernelTypes, WaitInv
<1>3. PICK y : y = k'
  OBVIOUS
<1>4. /\ y \in Kernels /\ KernelOk(y) /\ Fewer(k, y)
      /\ y.susp = 0 => y.pend = <<>> /\ y.pended = 0
  <2>1. CASE UNCHANGED k
    BY <1>2, <1>3, <2>1 DEF Fewer
  <2>2. CASE \E e \in Events : k' = Wake(k, e)
    BY <1>2, <1>3, <2>2, WakeFewer
  <2> QED
    BY <1>1, <2>1, <2>2
<1> QED
  BY <1>1, <1>3, <1>4, InterruptWait DEF Fewer

LEMMA TickWait ==
  ASSUME KernelInv, WaitInv, xPortSysTickHandler
  PROVE  WaitInv'
<1>1. UNCHANGED <<pc, after, call>> /\ k' = xTaskIncrementTick(k)
  BY DEF xPortSysTickHandler, taskVars
<1>2. /\ k \in Kernels /\ KernelOk(k) /\ (k.susp = 0 => k.pend = <<>> /\ k.pended = 0)
      /\ k.susp \in Nat
  BY DEF KernelInv, KernelTypes, WaitInv, Kernels
<1>3. PICK y : y = k'
  OBVIOUS
<1>4. /\ y \in Kernels /\ KernelOk(y)
      /\ k.susp > 0 => Alike(k, y)
      /\ ~(k.susp > 0) => Ticked(k, y, 1) /\ y.pended = k.pended
  BY <1>1, <1>2, <1>3, IncrementOk
<1>5. Fewer(k, y)
  BY <1>4, AlikeFewer, TickedFewer
<1>6. y.susp = k.susp
  BY <1>1, <1>3, IncrementFacts DEF xPortSysTickHandler, KernelInv, KernelTypes, SwitchKnown
<1>7. y.susp = 0 => y.pend = <<>> /\ y.pended = 0
  BY <1>2, <1>4, <1>6 DEF Ticked
<1> QED
  BY <1>1, <1>3, <1>4, <1>5, <1>7, InterruptWait DEF Fewer

LEMMA SwitchAlike ==
  ASSUME NEW x \in Kernels, NEW t \in Tasks, NEW y, y = vTaskSwitchContext(x, t)
  PROVE  Alike(x, y) /\ y \in Kernels /\ y.susp = x.susp /\ y.pended = x.pended
BY DEF vTaskSwitchContext, Kernels, Alike

LEMMA SwitchWait ==
  ASSUME KernelInv, WaitInv, NEW t \in Tasks, xPortPendSVHandler(t)
  PROVE  WaitInv'
<1>1. UNCHANGED <<pc, after, call>> /\ k' = vTaskSwitchContext(k, t)
  BY DEF xPortPendSVHandler, taskVars
<1>2. /\ k \in Kernels /\ KernelOk(k) /\ (k.susp = 0 => k.pend = <<>> /\ k.pended = 0)
  BY DEF KernelInv, KernelTypes, WaitInv
<1>3. PICK y : y = k'
  OBVIOUS
<1>4. Alike(k, y) /\ y \in Kernels /\ y.susp = k.susp /\ y.pended = k.pended
  BY <1>1, <1>2, <1>3, SwitchAlike
<1>5. KernelOk(y) /\ Fewer(k, y) /\ y.pend = k.pend
  BY <1>2, <1>4, AlikeOk, AlikeFewer DEF Alike
<1> QED
  BY <1>1, <1>2, <1>3, <1>4, <1>5, InterruptWait DEF Fewer

LEMMA NextWaitInv == KernelInv /\ WaitInv /\ [Next]_vars => WaitInv'
<1> SUFFICES ASSUME KernelInv, WaitInv, [Next]_vars PROVE WaitInv'
  OBVIOUS
<1>1. CASE UNCHANGED vars
  BY <1>1 DEF vars, taskVars, WaitInv, TriesAgain
<1>2. ASSUME NEW t \in Tasks, TaskStep(t) PROVE WaitInv'
  <2>1. CASE \E c \in Calls[t] : vTaskDelay(t, c)
    BY <2>1, DelayWait
  <2>2. CASE SendTry(t) \/ ReceiveTry(t)
    BY <2>2, ServedWait
  <2>3. CASE SuspendAll(t)
    BY <2>3, SuspendWait
  <2>4. CASE Place(t)
    BY <2>4, PlaceWait
  <2>5. CASE UnlockTx(t) \/ UnlockRx(t)
    BY <2>5, UnlockWait
  <2>6. CASE Resume(t)
    BY <2>6, ResumeWait
  <2> QED
    BY <1>2, <2>1, <2>2, <2>3, <2>4, <2>5, <2>6, QuietStep DEF TaskStep
<1>3. CASE \E t \in Tasks : xPortPendSVHandler(t)
  BY <1>3, SwitchWait
<1>4. CASE (\E v \in IsrItems : xQueueGenericSendFromISR(v)) \/ xQueueReceiveFromISR
  BY <1>4, IsrWait
<1>5. CASE xPortSysTickHandler
  BY <1>5, TickWait
<1> QED
  BY <1>1, <1>2, <1>3, <1>4, <1>5 DEF Next

\* The waiting tasks will try again.
LEMMA WaitInvHolds == Spec => [](KernelInv /\ WaitInv)
<1>1. KernelInv /\ WaitInv /\ [Next]_vars => (KernelInv /\ WaitInv)'
  BY NextKernelInv, NextWaitInv
<1>2. Init => KernelInv /\ WaitInv
  BY InitKernelInv, InitWaitInv
<1> QED
  BY <1>1, <1>2, PTL DEF Spec

-----------------------------------------------------------------------------
(* The locks *)

\* What a call of kind c needs, and the lock that counts what interrupts bring.
Available(c) == IF c = "receive" THEN uxMessagesWaiting ELSE uxLength - uxMessagesWaiting
Lock(c) == IF c = "receive" THEN cTxLock ELSE cRxLock

\* While a task checks whether to wait, the queue is locked; when it has found that it
\* must, what has come since has been counted.
LockInv ==
  /\ cTxLock >= -1 /\ cRxLock >= -1
  /\ \A t \in Tasks : pc[t] \in {"check", "place", "block"} => cTxLock >= 0 /\ cRxLock >= 0
  /\ \A t \in Tasks : pc[t] = "block" => Available(call[t].kind) <= Lock(call[t].kind)

LEMMA InitLockInv == Init => LockInv
BY DEF Init, LockInv

\* The counts are numbers.
LEMMA Numbers ==
  ASSUME KernelInv, QueueInv
  PROVE  /\ uxLength \in Nat /\ uxMessagesWaiting \in Nat /\ uxMessagesWaiting <= uxLength
         /\ cTxLock \in Int /\ cRxLock \in Int
         /\ \A c : Available(c) \in Nat /\ Lock(c) \in Int
<1>1. /\ uxLength \in Nat /\ uxMessagesWaiting \in Nat /\ uxMessagesWaiting <= uxLength
      /\ cTxLock \in Int /\ cRxLock \in Int
  BY QueueAssumption DEF QueueInv, KernelInv, KernelTypes
<1> QED
  BY <1>1 DEF Available, Lock

\* A task runs: no other is in a stretch with the scheduler suspended.
LEMMA OnlyOne ==
  ASSUME KernelInv, NEW t \in Tasks, Runs(t)
  PROVE  \A u \in Tasks \ {t} : pc[u] \notin {"check", "place", "block"}
BY DEF KernelInv, SuspendedOnce, Runs, Locked

\* What a step of task t has to keep.
LEMMA LockKept ==
  ASSUME KernelInv, NEW t \in Tasks, Runs(t), NEW l, pc' = [pc EXCEPT ![t] = l],
         cTxLock' >= -1, cRxLock' >= -1,
         l \in {"check", "place", "block"} => cTxLock' >= 0 /\ cRxLock' >= 0,
         l = "block" => (Available(call[t].kind) <= Lock(call[t].kind))'
  PROVE  LockInv'
<1>1. pc'[t] = l /\ \A u \in Tasks \ {t} : pc'[u] = pc[u]
  BY DEF KernelInv, KernelTypes
<1>2. \A u \in Tasks \ {t} : pc'[u] \notin {"check", "place", "block"}
  BY <1>1, OnlyOne
<1>3. \A u \in Tasks : pc'[u] \in {"check", "place", "block"} => u = t
  BY <1>2
<1>4. \A u \in Tasks : pc'[u] = "block" => u = t
  BY <1>3
<1> QED
  BY <1>1, <1>3, <1>4 DEF LockInv

\* The steps of a task and the locks.
LEMMA TaskLock ==
  ASSUME KernelInv, QueueInv, LockInv, NEW t \in Tasks, TaskStep(t)
  PROVE  LockInv'
<1>1. cTxLock \in Int /\ cRxLock \in Int /\ cTxLock >= -1 /\ cRxLock >= -1
  BY Numbers DEF LockInv
<1>2. ASSUME NEW l, l \notin {"check", "place", "block"}, Runs(t), Goto(t, l),
             cTxLock' \in {cTxLock, -1}, cRxLock' \in {cRxLock, -1}
      PROVE  LockInv'
  <2>1. cTxLock' >= -1 /\ cRxLock' >= -1
    BY <1>1, <1>2
  <2>2. pc' = [pc EXCEPT ![t] = l] /\ l # "block"
    BY <1>2 DEF Goto
  <2> QED
    BY <1>2, <2>1, <2>2, LockKept
<1>3. ASSUME Runs(t), \E v : Returns(t, v), UNCHANGED lockVars
      PROVE  LockInv'
  BY <1>2, <1>3 DEF Returns, lockVars
<1>4. CASE \/ \E c \in Calls[t] : Call(t, c) \/ vTaskDelay(t, c)
           \/ SuspendAll(t) \/ NoLongerBlocks(t) \/ Place(t) \/ UnlockTx(t) \/ UnlockRx(t)
  <2>1. Runs(t) /\ cTxLock' \in {cTxLock, -1} /\ cRxLock' \in {cRxLock, -1}
    BY <1>4 DEF Call, vTaskDelay, SuspendAll, NoLongerBlocks, Place, UnlockTx, UnlockRx, lockVars
  <2>2. \E l : l \notin {"check", "place", "block"} /\ Goto(t, l)
    BY <1>4 DEF Call, vTaskDelay, SuspendAll, NoLongerBlocks, Place, UnlockTx, UnlockRx
  <2> QED
    BY <1>2, <2>1, <2>2
<1>5. CASE SendTry(t) \/ ReceiveTry(t) \/ DelayReturns(t)
  BY <1>3, <1>5 DEF SendTry, ReceiveTry, DelayReturns
<1>6. CASE TryBlocks(t)
  <2>1. Runs(t) /\ UNCHANGED lockVars /\ (Returns(t, "refused") \/ Goto(t, "suspend"))
    BY <1>6 DEF TryBlocks
  <2> QED
    BY <1>2, <1>3, <2>1 DEF lockVars
<1>7. CASE Expired(t)
  <2>1. Runs(t) /\ UNCHANGED lockVars /\ (Returns(t, "refused") \/ Goto(t, "try"))
    BY <1>7 DEF Expired
  <2> QED
    BY <1>2, <1>3, <2>1 DEF lockVars
<1>8. CASE Resume(t)
  <2>1. after[t] \in Reasons /\ Runs(t) /\ Goto(t, GoesOn(after[t])) /\ UNCHANGED lockVars
    BY <1>8, ResumeGoes DEF Resume, GoesOn
  <2>2. GoesOn(after[t]) \notin {"check", "place", "block"}
    BY <2>1 DEF GoesOn, Reasons
  <2> QED
    BY <1>2, <2>1, <2>2 DEF lockVars
<1>9. CASE prvLockQueue(t)
  <2>1. /\ Runs(t) /\ pc' = [pc EXCEPT ![t] = "check"]
        /\ cTxLock' = IF cTxLock = -1 THEN 0 ELSE cTxLock
        /\ cRxLock' = IF cRxLock = -1 THEN 0 ELSE cRxLock
    BY <1>9 DEF prvLockQueue, Goto
  <2>2. cTxLock' >= 0 /\ cRxLock' >= 0 /\ cTxLock' >= -1 /\ cRxLock' >= -1
    BY <1>1, <2>1
  <2> QED
    BY <2>1, <2>2, LockKept
<1>10. CASE xTaskCheckForTimeOut(t)
  <2>1. PICK l \in {"unlocktx", "place"} : pc' = [pc EXCEPT ![t] = l]
    BY <1>10 DEF xTaskCheckForTimeOut, Goto
  <2>2. Runs(t) /\ cTxLock >= 0 /\ cRxLock >= 0 /\ UNCHANGED lockVars
    BY <1>10 DEF xTaskCheckForTimeOut, LockInv
  <2> QED
    BY <1>1, <2>1, <2>2, LockKept DEF lockVars
<1>11. CASE StillBlocks(t)
  <2>1. /\ Runs(t) /\ pc' = [pc EXCEPT ![t] = "block"] /\ UNCHANGED <<lockVars, queueVars, call>>
        /\ Blocks(call[t].kind) /\ pc[t] = "place"
    BY <1>11 DEF StillBlocks, Goto
  <2>2. cTxLock >= 0 /\ cRxLock >= 0
    BY <2>1 DEF LockInv
  <2>3. call[t].kind \in {"send", "receive"}
    BY <2>1, Running DEF CallState, Leaving, QueueCalls
  <2>4. Available(call[t].kind) = 0
    BY <2>1, <2>3, Numbers DEF Blocks, Available
  <2>5. (Available(call[t].kind) <= Lock(call[t].kind))'
    <3>1. Lock(call[t].kind) >= 0
      BY <2>2 DEF Lock
    <3>2. Available(call[t].kind)' = Available(call[t].kind) /\ Lock(call[t].kind)' = Lock(call[t].kind)
      BY <2>1 DEF Available, Lock, lockVars, queueVars
    <3> QED
      BY <2>4, <3>1, <3>2, Numbers
  <2> QED
    BY <1>1, <2>1, <2>2, <2>5, LockKept DEF lockVars
<1> QED
  BY <1>4, <1>5, <1>6, <1>7, <1>8, <1>9, <1>10, <1>11 DEF TaskStep

\* What an interrupt does to the queue and its locks.
Brings(c) ==
  /\ Available(c)' = Available(c) + 1
  /\ \A d \in Events \ {c} : Available(d)' = Available(d) - 1 /\ Lock(d)' = Lock(d)
  /\ IF Lock(c) = -1 THEN k' = Wake(k, c) /\ Lock(c)' = -1
     ELSE UNCHANGED k /\ Lock(c)' = Lock(c) + 1
  /\ UNCHANGED <<taskVars, timeVars>>

\* An interrupt brings an item or room.
LEMMA IsrBrings ==
  ASSUME KernelInv, QueueInv,
         (\E v \in IsrItems : xQueueGenericSendFromISR(v)) \/ xQueueReceiveFromISR
  PROVE  \E c \in Events : Brings(c)
<1>1. CASE \E v \in IsrItems : xQueueGenericSendFromISR(v)
  <2>1. /\ uxMessagesWaiting' = uxMessagesWaiting + 1
        /\ IF cTxLock = -1 THEN k' = Wake(k, "receive") /\ cTxLock' = -1
                           ELSE UNCHANGED k /\ cTxLock' = cTxLock + 1
        /\ UNCHANGED <<cRxLock, taskVars, timeVars>>
    BY <1>1 DEF xQueueGenericSendFromISR, prvCopyDataToQueue, Counted
  <2>2. Available("receive")' = Available("receive") + 1 /\ Available("send")' = Available("send") - 1
    BY <2>1, Numbers DEF Available
  <2>3. /\ Lock("receive") = cTxLock /\ Lock("receive")' = cTxLock' /\ Lock("send")' = Lock("send")
    BY <2>1 DEF Lock
  <2>4. Brings("receive")
    BY <2>1, <2>2, <2>3, QueueAssumption DEF Brings
  <2> QED
    BY <2>4, QueueAssumption
<1>2. CASE xQueueReceiveFromISR
  <2>1. /\ uxMessagesWaiting' = uxMessagesWaiting - 1
        /\ IF cRxLock = -1 THEN k' = Wake(k, "send") /\ cRxLock' = -1
                           ELSE UNCHANGED k /\ cRxLock' = cRxLock + 1
        /\ UNCHANGED <<cTxLock, taskVars, timeVars>>
    BY <1>2 DEF xQueueReceiveFromISR, prvCopyDataFromQueue, Counted
  <2>2. Available("send")' = Available("send") + 1 /\ Available("receive")' = Available("receive") - 1
    BY <2>1, Numbers DEF Available
  <2>3. /\ Lock("send") = cRxLock /\ Lock("send")' = cRxLock' /\ Lock("receive")' = Lock("receive")
    BY <2>1 DEF Lock
  <2>4. Brings("send")
    BY <2>1, <2>2, <2>3, QueueAssumption DEF Brings
  <2> QED
    BY <2>4, QueueAssumption
<1> QED
  BY <1>1, <1>2

LEMMA IsrLock ==
  ASSUME KernelInv, QueueInv, LockInv, NEW c \in Events, Brings(c)
  PROVE  LockInv'
<1>1. \A d \in Events : Lock(d) \in Int /\ Available(d) \in Nat /\ Lock(d) >= -1
  BY Numbers DEF LockInv, Lock
<1>2. \A d \in Events : Lock(d)' >= Lock(d) /\ Lock(d)' >= -1
  BY <1>1 DEF Brings
<1>3. \A d \in Events : Lock(d) >= 0 => Available(d)' - Lock(d)' <= Available(d) - Lock(d) /\ Lock(d)' >= 0
  BY <1>1 DEF Brings
<1>4. /\ cTxLock = Lock("receive") /\ cTxLock' = Lock("receive")' /\ "receive" \in Events
      /\ cRxLock = Lock("send") /\ cRxLock' = Lock("send")' /\ "send" \in Events
  BY QueueAssumption DEF Lock
<1>5. cTxLock' >= -1 /\ cRxLock' >= -1
  BY <1>2, <1>4
<1>6. UNCHANGED <<pc, call>>
  BY DEF Brings, taskVars
<1>7. \A t \in Tasks : pc[t] \in {"check", "place", "block"} => cTxLock' >= 0 /\ cRxLock' >= 0
  BY <1>3, <1>4 DEF LockInv
<1>8. ASSUME NEW t \in Tasks, pc[t] = "block" PROVE (Available(call[t].kind) <= Lock(call[t].kind))'
  <2>1. call[t] \in QueueCalls
    BY <1>8 DEF KernelInv, InCall, CallState, Leaving
  <2>2. PICK d \in Events : d = call[t].kind
    BY <2>1, QueueAssumption DEF QueueCalls
  <2>3. Lock(d) >= 0 /\ Available(d) <= Lock(d)
    BY <1>4, <1>8, <2>2 DEF LockInv, Lock
  <2>4. Available(d)' - Lock(d)' <= Available(d) - Lock(d) /\ Available(d)' \in Int /\ Lock(d)' \in Int
    BY <1>1, <1>3, <2>3 DEF Brings
  <2>5. Available(d)' <= Lock(d)'
    BY <1>1, <2>3, <2>4
  <2> QED
    BY <1>6, <2>2, <2>5
<1> QED
  BY <1>5, <1>6, <1>7, <1>8 DEF LockInv

LEMMA NextLockInv == KernelInv /\ QueueInv /\ LockInv /\ [Next]_vars => LockInv'
<1> SUFFICES ASSUME KernelInv, QueueInv, LockInv, [Next]_vars PROVE LockInv'
  OBVIOUS
<1>1. CASE UNCHANGED <<pc, call, lockVars, queueVars>>
  BY <1>1 DEF LockInv, Available, Lock, lockVars, queueVars
<1>2. CASE \E t \in Tasks : TaskStep(t)
  BY <1>2, TaskLock
<1>3. CASE (\E v \in IsrItems : xQueueGenericSendFromISR(v)) \/ xQueueReceiveFromISR
  BY <1>3, IsrBrings, IsrLock
<1> QED
  BY <1>1, <1>2, <1>3 DEF Next, vars, taskVars, xPortPendSVHandler, xPortSysTickHandler

-----------------------------------------------------------------------------
(* Counting the tasks that come back to the queue *)

\* The tasks that are certain to try a call of kind c again.
Sure(c) ==
  {t \in Tasks : /\ call[t].kind = c /\ t \notin Waits(k, c)
                 /\ pc[t] = "try" \/ (pc[t] \in Leaving /\ after[t] \in {"retry", "blocked"})}

\* While tasks wait, there is for everything they could have a task that comes, or it
\* is counted in the lock.
Enough(c) == Waits(k, c) # {} => Available(c) <= Cardinality(Sure(c)) + Positive(Lock(c))

CountInv == \A c \in Events : Enough(c)

\* A set of tasks is finite.
LEMMA Count ==
  ASSUME NEW A, A \subseteq Tasks
  PROVE  IsFiniteSet(A) /\ Cardinality(A) \in Nat
BY SchedulerAssumption, FS_Subset, FS_CardinalityType

\* Comparing sizes: of a subset,
LEMMA CountMore ==
  ASSUME NEW A, NEW B, A \subseteq B, B \subseteq Tasks
  PROVE  Cardinality(A) <= Cardinality(B)
BY Count, FS_Subset

\* of one that has one more,
LEMMA CountOne ==
  ASSUME NEW A, NEW B, A \subseteq B, B \subseteq Tasks, NEW u \in B \ A
  PROVE  Cardinality(A) + 1 <= Cardinality(B)
<1>1. PICK C : C = A \cup {u}
  OBVIOUS
<1>2. IsFiniteSet(A)
  BY Count
<1>3. Cardinality(C) = Cardinality(A) + 1
  BY <1>1, <1>2, FS_AddElement
<1> QED
  BY <1>1, <1>3, CountMore

\* of one that lacks at most one,
LEMMA CountLess ==
  ASSUME NEW A, NEW B, A \subseteq Tasks, B \subseteq Tasks, NEW t, A \ {t} \subseteq B
  PROVE  Cardinality(A) - 1 <= Cardinality(B)
<1>1. PICK C : C = A \ {t}
  OBVIOUS
<1>2. IsFiniteSet(A) /\ Cardinality(A) \in Nat
  BY Count
<1>3. Cardinality(C) \in {Cardinality(A), Cardinality(A) - 1}
  BY <1>1, <1>2, FS_RemoveElement
<1>4. Cardinality(C) <= Cardinality(B) /\ Cardinality(B) \in Nat
  BY <1>1, Count, CountMore
<1> QED
  BY <1>2, <1>3, <1>4

\* and of a union.
LEMMA CountMany ==
  ASSUME NEW A, NEW B, NEW S, A \subseteq B, S \subseteq B, B \subseteq Tasks, A \cap S = {}
  PROVE  Cardinality(A) + Cardinality(S) <= Cardinality(B)
<1>1. PICK C : C = A \cup S
  OBVIOUS
<1>2. PICK D : D = A \cap S
  OBVIOUS
<1>3. Cardinality(D) = 0
  BY <1>2, FS_EmptySet
<1>4. IsFiniteSet(A) /\ IsFiniteSet(S) /\ Cardinality(A) \in Nat /\ Cardinality(S) \in Nat
  BY Count
<1>5. Cardinality(A \cup S) = Cardinality(A) + Cardinality(S) - Cardinality(A \cap S)
  BY <1>4, FS_Union
<1>6. Cardinality(C) = Cardinality(A) + Cardinality(S) - Cardinality(D)
  BY <1>1, <1>2, <1>5
<1>7. Cardinality(C) = Cardinality(A) + Cardinality(S)
  BY <1>3, <1>4, <1>6
<1> QED
  BY <1>1, <1>7, CountMore

\* Those that come are tasks.
LEMMA SureTasks == \A c : Sure(c) \subseteq Tasks /\ Sure(c)' \subseteq Tasks
BY DEF Sure

\* A step of t changes only whether t comes.
LEMMA SureOthers ==
  ASSUME NEW t \in Tasks, Own(t), NEW c, Waits(k', c) \ {t} \subseteq Waits(k, c)
  PROVE  Sure(c) \ {t} \subseteq Sure(c)'
BY DEF Sure, Own

\* The ways in which a step keeps the count.
LEMMA EnoughKept ==
  ASSUME KernelInv, QueueInv, NEW c, Enough(c), Sure(c) \subseteq Sure(c)',
         Waits(k', c) \subseteq Waits(k, c), Available(c)' \in {Available(c), Available(c) - 1},
         Lock(c)' = Lock(c) \/ (Lock(c) = -1 /\ Lock(c)' = 0)
  PROVE  Enough(c)'
<1>1. PICK A : A = Sure(c)
  OBVIOUS
<1>2. PICK B : B = Sure(c)'
  OBVIOUS
<1>3. A \subseteq B /\ A \subseteq Tasks /\ B \subseteq Tasks
  BY <1>1, <1>2, SureTasks
<1>4. Cardinality(A) <= Cardinality(B) /\ Cardinality(A) \in Nat /\ Cardinality(B) \in Nat
  BY <1>3, Count, CountMore
<1>5. Available(c) \in Nat /\ Lock(c) \in Int
  BY Numbers
<1>6. Positive(Lock(c)') = Positive(Lock(c)) /\ Positive(Lock(c)) \in Nat
  BY <1>5 DEF Positive
<1>7. Waits(k, c) # {} => Available(c) <= Cardinality(A) + Positive(Lock(c))
  BY <1>1 DEF Enough
<1>8. Waits(k', c) # {} => Available(c)' <= Cardinality(B) + Positive(Lock(c)')
  BY <1>4, <1>5, <1>6, <1>7
<1> QED
  BY <1>2, <1>8 DEF Enough

\* Nobody waits, or there is nothing to be had.
LEMMA EnoughNone ==
  ASSUME NEW c, Waits(k', c) = {} \/ Available(c)' = 0, Lock(c)' \in Int
  PROVE  Enough(c)'
<1>1. PICK B : B = Sure(c)'
  OBVIOUS
<1>2. Cardinality(B) \in Nat
  BY <1>1, SureTasks, Count
<1>3. Positive(Lock(c)') \in Nat
  BY DEF Positive
<1>4. Waits(k', c) # {} => Available(c)' <= Cardinality(B) + Positive(Lock(c)')
  BY <1>2, <1>3
<1> QED
  BY <1>1, <1>4 DEF Enough

\* Something is there that a task takes.
LEMMA EnoughTaken ==
  ASSUME KernelInv, QueueInv, NEW c, Enough(c), NEW t, Sure(c) \ {t} \subseteq Sure(c)',
         Waits(k', c) \subseteq Waits(k, c), Available(c)' = Available(c) - 1, Lock(c)' = Lock(c)
  PROVE  Enough(c)'
<1>1. PICK A : A = Sure(c)
  OBVIOUS
<1>2. PICK B : B = Sure(c)'
  OBVIOUS
<1>3. A \ {t} \subseteq B /\ A \subseteq Tasks /\ B \subseteq Tasks
  BY <1>1, <1>2, SureTasks
<1>4. Cardinality(A) - 1 <= Cardinality(B) /\ Cardinality(A) \in Nat /\ Cardinality(B) \in Nat
  BY <1>3, Count, CountLess
<1>5. Available(c) \in Nat /\ Lock(c) \in Int
  BY Numbers
<1>6. Positive(Lock(c)) \in Nat
  BY <1>5 DEF Positive
<1>7. Waits(k, c) # {} => Available(c) <= Cardinality(A) + Positive(Lock(c))
  BY <1>1 DEF Enough
<1>8. Waits(k', c) # {} => Available(c)' <= Cardinality(B) + Positive(Lock(c)')
  BY <1>4, <1>5, <1>6, <1>7
<1> QED
  BY <1>2, <1>8 DEF Enough

\* Something comes and a task is woken for it.
LEMMA EnoughWoken ==
  ASSUME KernelInv, QueueInv, NEW c, Enough(c), Sure(c) \subseteq Sure(c)',
         NEW u, u \in Sure(c)', u \notin Sure(c), Waits(k, c) # {},
         Available(c)' = Available(c) + 1, Lock(c)' = Lock(c)
  PROVE  Enough(c)'
<1>1. PICK A : A = Sure(c)
  OBVIOUS
<1>2. PICK B : B = Sure(c)'
  OBVIOUS
<1>3. A \subseteq B /\ A \subseteq Tasks /\ B \subseteq Tasks /\ u \in B \ A
  BY <1>1, <1>2, SureTasks
<1>4. Cardinality(A) + 1 <= Cardinality(B) /\ Cardinality(A) \in Nat /\ Cardinality(B) \in Nat
  BY <1>3, Count, CountOne
<1>5. Available(c) \in Nat /\ Lock(c) \in Int
  BY Numbers
<1>6. Positive(Lock(c)) \in Nat
  BY <1>5 DEF Positive
<1>7. Available(c) <= Cardinality(A) + Positive(Lock(c))
  BY <1>1 DEF Enough
<1>8. Available(c)' <= Cardinality(B) + Positive(Lock(c)')
  BY <1>4, <1>5, <1>6, <1>7
<1> QED
  BY <1>2, <1>8 DEF Enough

\* ... or it is counted.
LEMMA EnoughCounted ==
  ASSUME KernelInv, QueueInv, NEW c, Enough(c), Sure(c) \subseteq Sure(c)',
         Waits(k', c) \subseteq Waits(k, c), Lock(c) >= 0,
         Available(c)' = Available(c) + 1, Lock(c)' = Lock(c) + 1
  PROVE  Enough(c)'
<1>1. PICK A : A = Sure(c)
  OBVIOUS
<1>2. PICK B : B = Sure(c)'
  OBVIOUS
<1>3. A \subseteq B /\ A \subseteq Tasks /\ B \subseteq Tasks
  BY <1>1, <1>2, SureTasks
<1>4. Cardinality(A) <= Cardinality(B) /\ Cardinality(A) \in Nat /\ Cardinality(B) \in Nat
  BY <1>3, Count, CountMore
<1>5. Available(c) \in Nat /\ Lock(c) \in Int
  BY Numbers
<1>6. Positive(Lock(c)') = Positive(Lock(c)) + 1 /\ Positive(Lock(c)) \in Nat
  BY <1>5 DEF Positive
<1>7. Waits(k, c) # {} => Available(c) <= Cardinality(A) + Positive(Lock(c))
  BY <1>1 DEF Enough
<1>8. Waits(k', c) # {} => Available(c)' <= Cardinality(B) + Positive(Lock(c)')
  BY <1>4, <1>5, <1>6, <1>7
<1> QED
  BY <1>2, <1>8 DEF Enough

\* The queue is unlocked and a task woken for each that was counted.
LEMMA EnoughUnlocked ==
  ASSUME KernelInv, QueueInv, NEW c, Enough(c), Sure(c) \subseteq Sure(c)', Lock(c)' = -1,
         NEW S, S \subseteq Sure(c)', Sure(c) \cap S = {}, Cardinality(S) = Positive(Lock(c)),
         Waits(k', c) \subseteq Waits(k, c), Available(c)' = Available(c)
  PROVE  Enough(c)'
<1>1. PICK A : A = Sure(c)
  OBVIOUS
<1>2. PICK B : B = Sure(c)'
  OBVIOUS
<1>3. A \subseteq B /\ A \subseteq Tasks /\ B \subseteq Tasks /\ S \subseteq B /\ A \cap S = {}
  BY <1>1, <1>2, SureTasks
<1>4. /\ Cardinality(A) + Cardinality(S) <= Cardinality(B)
      /\ Cardinality(A) \in Nat /\ Cardinality(B) \in Nat
  BY <1>3, Count, CountMany
<1>5. Available(c) \in Nat /\ Lock(c) \in Int
  BY Numbers
<1>6. Positive(Lock(c)') = 0 /\ Positive(Lock(c)) \in Nat
  BY <1>5 DEF Positive
<1>7. Waits(k, c) # {} => Available(c) <= Cardinality(A) + Positive(Lock(c))
  BY <1>1 DEF Enough
<1>8. Waits(k', c) # {} => Available(c)' <= Cardinality(B) + Positive(Lock(c)')
  BY <1>4, <1>5, <1>6, <1>7
<1> QED
  BY <1>2, <1>8 DEF Enough

\* A task that is taken from an event list comes.
LEMMA WokenSure ==
  ASSUME WaitInv, NEW c \in Events, NEW u \in Waits(k, c), u \in Tasks, u \notin Waits(k', c),
         TriesAgain(u)', call'[u] = call[u]
  PROVE  u \in Sure(c)' /\ u \notin Sure(c)
<1>1. call[u].kind = c
  BY DEF WaitInv
<1> QED
  BY <1>1 DEF Sure, TriesAgain

\* A step of a task that was not about to try.
LEMMA QuietCount ==
  ASSUME KernelInv, QueueInv, CountInv, NEW t \in Tasks, Own(t), pc[t] \notin Leaving \cup {"try"},
         NEW c \in Events, Waits(k', c) \subseteq Waits(k, c), UNCHANGED uxMessagesWaiting,
         Lock(c)' = Lock(c) \/ (Lock(c) = -1 /\ Lock(c)' = 0)
  PROVE  Enough(c)'
<1>1. t \notin Sure(c)
  BY DEF Sure
<1>2. Sure(c) \subseteq Sure(c)'
  BY <1>1, SureOthers
<1>3. Available(c)' = Available(c) /\ Enough(c)
  BY DEF Available, CountInv
<1> QED
  BY <1>2, <1>3, EnoughKept

LEMMA QuietCounts ==
  ASSUME KernelInv, QueueInv, WaitInv, CountInv, NEW t \in Tasks,
         \/ \E c \in Calls[t] : Call(t, c) \/ vTaskDelay(t, c)
         \/ SuspendAll(t) \/ prvLockQueue(t) \/ xTaskCheckForTimeOut(t) \/ NoLongerBlocks(t)
         \/ StillBlocks(t) \/ Expired(t) \/ DelayReturns(t)
  PROVE  CountInv'
<1>1. /\ pc[t] \notin Leaving \cup {"try"} /\ UNCHANGED uxMessagesWaiting /\ Runs(t)
  BY DEF Call, vTaskDelay, SuspendAll, prvLockQueue, xTaskCheckForTimeOut, NoLongerBlocks, StillBlocks,
    Expired, DelayReturns, Leaving, queueVars
<1>2. \A c : Lock(c)' = Lock(c) \/ (Lock(c) = -1 /\ Lock(c)' = 0)
  BY DEF Call, vTaskDelay, SuspendAll, prvLockQueue, xTaskCheckForTimeOut, NoLongerBlocks, StillBlocks,
    Expired, DelayReturns, lockVars, Lock
<1>3. Own(t)
  <2>1. \E l : pc' = [pc EXCEPT ![t] = l]
    BY DEF Call, vTaskDelay, SuspendAll, prvLockQueue, xTaskCheckForTimeOut, NoLongerBlocks, StillBlocks,
      Expired, DelayReturns, Returns, Goto
  <2>2. \E r : after' = [after EXCEPT ![t] = r]
    <3>1. UNCHANGED after \/ \E r : after' = [after EXCEPT ![t] = r]
      BY DEF Call, vTaskDelay, SuspendAll, prvLockQueue, xTaskCheckForTimeOut, NoLongerBlocks, StillBlocks,
        Expired, DelayReturns, Returns
    <3> QED
      BY <3>1, Unmoved
  <2>3. \E d : call' = [call EXCEPT ![t] = d]
    <3>1. UNCHANGED call \/ \E d : call' = [call EXCEPT ![t] = d]
      BY DEF Call, vTaskDelay, SuspendAll, prvLockQueue, xTaskCheckForTimeOut, NoLongerBlocks, StillBlocks,
        Expired, DelayReturns, Returns
    <3> QED
      BY <3>1, Unmoved
  <2> QED
    BY <2>1, <2>2, <2>3, GoesBy DEF Goes
<1>4. \A c \in Events : Waits(k', c) \subseteq Waits(k, c)
  <2>1. CASE UNCHANGED k
    BY <2>1
  <2>2. CASE SuspendAll(t)
    <3>1. k' = vTaskSuspendAll(k) /\ k \in Kernels
      BY <2>2 DEF SuspendAll, KernelInv, KernelTypes
    <3>2. PICK y : y = k'
      OBVIOUS
    <3>3. Alike(k, y)
      BY <3>1, <3>2, SuspendAlike
    <3> QED
      BY <3>2, <3>3, AlikeFewer DEF Fewer
  <2>3. CASE \E c \in Calls[t] : vTaskDelay(t, c)
    <3>1. PICK c \in Calls[t] : vTaskDelay(t, c)
      BY <2>3
    <3> QED
      BY <3>1, SleepsOk DEF Waits
  <2> QED
    BY <2>1, <2>2, <2>3 DEF Call, prvLockQueue, xTaskCheckForTimeOut, NoLongerBlocks, StillBlocks,
      Expired, DelayReturns
<1> QED
  BY <1>1, <1>2, <1>3, <1>4, QuietCount DEF CountInv

LEMMA TryBlocksCount ==
  ASSUME KernelInv, QueueInv, CountInv, NEW t \in Tasks, TryBlocks(t)
  PROVE  CountInv'
<1>1. /\ Runs(t) /\ pc[t] = "try" /\ Blocks(call[t].kind) /\ UNCHANGED <<k, queueVars, lockVars>>
      /\ pc' \in {[pc EXCEPT ![t] = "idle"], [pc EXCEPT ![t] = "suspend"]} /\ UNCHANGED after
      /\ call' \in {call, [call EXCEPT ![t] = NoCall]}
  BY DEF TryBlocks, Returns, Goto
<1>2. Own(t)
  BY <1>1 DEF Own, KernelInv, KernelTypes
<1>3. call[t].kind \in {"send", "receive"}
  BY <1>1, Running DEF CallState, Leaving, QueueCalls
<1>4. \A c : Available(c)' = Available(c) /\ Lock(c)' = Lock(c)
  BY <1>1 DEF Available, Lock, queueVars, lockVars
<1>5. ASSUME NEW c \in Events PROVE Enough(c)'
  <2>1. CASE c = call[t].kind
    <3>1. Available(c) = 0 /\ Lock(c) \in Int
      BY <1>1, <1>3, <2>1, Numbers DEF Blocks, Available
    <3> QED
      BY <1>4, <3>1, EnoughNone
  <2>2. CASE c # call[t].kind
    <3>1. t \notin Sure(c)
      BY <2>2 DEF Sure
    <3>2. Waits(k', c) = Waits(k, c)
      BY <1>1
    <3>3. Sure(c) \subseteq Sure(c)'
      BY <1>2, <3>1, <3>2, SureOthers
    <3> QED
      BY <1>4, <3>2, <3>3, EnoughKept DEF CountInv
  <2> QED
    BY <2>1, <2>2
<1> QED
  BY <1>5 DEF CountInv

LEMMA PlaceCount ==
  ASSUME KernelInv, QueueInv, WaitInv, LockInv, CountInv, NEW t \in Tasks, Place(t)
  PROVE  CountInv'
<1>1. /\ Runs(t) /\ pc[t] = "block" /\ UNCHANGED <<queueVars, lockVars, call>>
      /\ pc' = [pc EXCEPT ![t] = "unlocktx"] /\ after' = [after EXCEPT ![t] = "blocked"]
  BY DEF Place, Goto
<1>2. Own(t)
  BY <1>1, Unmoved, GoesBy DEF Goes
<1>3. \A c : Available(c)' = Available(c) /\ Lock(c)' = Lock(c)
  BY <1>1 DEF Available, Lock, queueVars, lockVars
<1>4. \A c \in Events : c # call[t].kind => Waits(k', c) = Waits(k, c)
  BY PlacedOk
<1>5. ASSUME NEW c \in Events PROVE Enough(c)'
  <2>1. CASE c = call[t].kind
    <3>1. PICK B : B = Sure(c)'
      OBVIOUS
    <3>2. Cardinality(B) \in Nat /\ Available(c) \in Nat /\ Lock(c) \in Int
      BY <3>1, SureTasks, Count, Numbers
    <3>3. Available(c) <= Lock(c)
      BY <1>1, <2>1 DEF LockInv
    <3>4. Available(c)' <= Cardinality(B) + Positive(Lock(c)')
      BY <1>3, <3>2, <3>3 DEF Positive
    <3> QED
      BY <3>1, <3>4 DEF Enough
  <2>2. CASE c # call[t].kind
    <3>1. pc[t] \notin Leaving \cup {"try"} /\ UNCHANGED uxMessagesWaiting
      BY <1>1 DEF Leaving, queueVars
    <3> QED
      BY <1>2, <1>3, <1>4, <2>2, <3>1, QuietCount
  <2> QED
    BY <2>1, <2>2
<1> QED
  BY <1>5 DEF CountInv

\* What is brought for a call of kind c while the queue is not locked: a task is woken.
LEMMA WakeCount ==
  ASSUME KernelInv, QueueInv, WaitInv, CountInv, NEW c \in Events, k' = Wake(k, c),
         Available(c)' = Available(c) + 1, Lock(c)' = Lock(c), Sure(c) \subseteq Sure(c)',
         \A u \in Waits(k, c) : TriesAgain(u)' /\ call'[u] = call[u]
  PROVE  Enough(c)'
<1>1. k \in Kernels /\ KernelOk(k) /\ Lock(c) \in Int
  BY Numbers DEF KernelInv, KernelTypes, WaitInv
<1>2. PICK y : y = k'
  OBVIOUS
<1>3. /\ y \in Kernels /\ KernelOk(y)
      /\ IF k.ev[c] = <<>> THEN y = k
         ELSE Head(k.ev[c]) \in Tasks /\ Served(k, y, c, {Head(k.ev[c])})
  BY <1>1, <1>2, WakeOk
<1>4. CASE k.ev[c] = <<>>
  <2>1. Waits(k', c) = {}
    BY <1>2, <1>3, <1>4, EmptyFacts DEF Waits
  <2> QED
    BY <1>1, <2>1, EnoughNone
<1>5. CASE k.ev[c] # <<>>
  <2>1. PICK u : u = Head(k.ev[c])
    OBVIOUS
  <2>2. u \in Tasks /\ Served(k, y, c, {u})
    BY <1>3, <1>5, <2>1
  <2>3. u \in Waits(k, c) /\ u \notin Waits(y, c)
    BY <2>2 DEF Served
  <2>4. u \in Sure(c)' /\ u \notin Sure(c)
    BY <1>2, <2>2, <2>3, WokenSure
  <2> QED
    BY <2>3, <2>4, EnoughWoken DEF CountInv
<1> QED
  BY <1>4, <1>5

\* ... and for the other kind the lists are the same.
LEMMA WakeOther ==
  ASSUME KernelInv, WaitInv, NEW c \in Events, k' = Wake(k, c), NEW d \in Events, d # c
  PROVE  Waits(k', d) = Waits(k, d)
<1>1. k \in Kernels /\ KernelOk(k)
  BY DEF KernelInv, KernelTypes, WaitInv
<1>2. PICK y : y = k'
  OBVIOUS
<1>3. IF k.ev[c] = <<>> THEN y = k ELSE Served(k, y, c, {Head(k.ev[c])})
  BY <1>1, <1>2, WakeOk
<1>4. y = k \/ \E S : Served(k, y, c, S)
  BY <1>3
<1> QED
  BY <1>2, <1>4 DEF Served

\* ... and no list grows.
LEMMA WakeShrinks ==
  ASSUME KernelInv, WaitInv, NEW c \in Events, k' = Wake(k, c)
  PROVE  Fewer(k, k')
<1>1. k \in Kernels /\ KernelOk(k) /\ (k.susp = 0 => k.pend = <<>> /\ k.pended = 0)
  BY DEF KernelInv, KernelTypes, WaitInv
<1>2. PICK y : y = k'
  OBVIOUS
<1> QED
  BY <1>1, <1>2, WakeFewer

\* A task takes something of one kind and so brings something of the other.
LEMMA TakeCount ==
  ASSUME KernelInv, QueueInv, WaitInv, CountInv, NEW t \in Tasks, Runs(t), pc[t] = "try",
         NEW c \in Events, NEW d \in Events, c # d, call[t].kind = d, k' = Wake(k, c), Own(t),
         Available(c)' = Available(c) + 1, Available(d)' = Available(d) - 1,
         Lock(c)' = Lock(c), Lock(d)' = Lock(d)
  PROVE  Enough(c)' /\ Enough(d)'
<1>1. Waits(k', d) = Waits(k, d) /\ Waits(k', c) \subseteq Waits(k, c)
  BY WakeOther, WakeShrinks DEF Fewer
<1>2. Sure(c) \ {t} \subseteq Sure(c)' /\ Sure(d) \ {t} \subseteq Sure(d)'
  BY <1>1, SureOthers
<1>3. t \notin Sure(c)
  BY DEF Sure
<1>4. Enough(c)'
  <2>1. t \notin Waits(k, c) /\ Waits(k, c) \subseteq Tasks
    BY Untouched, WaitsTasks DEF KernelInv, KernelTypes, Leaving
  <2>2. \A u \in Waits(k, c) : TriesAgain(u)' /\ call'[u] = call[u]
    BY <2>1 DEF Own, TriesAgain, WaitInv
  <2>3. Sure(c) \subseteq Sure(c)'
    BY <1>2, <1>3
  <2> QED
    BY <2>2, <2>3, WakeCount
<1>5. Enough(d)'
  BY <1>1, <1>2, EnoughTaken DEF CountInv
<1> QED
  BY <1>4, <1>5

\* The first critical sections of xQueueGenericSend and xQueueReceive.
LEMMA ServedCount ==
  ASSUME KernelInv, QueueInv, WaitInv, CountInv, NEW t \in Tasks, SendTry(t) \/ ReceiveTry(t)
  PROVE  CountInv'
<1>1. "send" \in Events /\ "receive" \in Events /\ \A c \in Events : c \in {"send", "receive"}
  BY QueueAssumption
<1>2. Own(t) /\ Runs(t) /\ pc[t] = "try" /\ UNCHANGED lockVars
  <2>1. \E v : Returns(t, v)
    BY DEF SendTry, ReceiveTry
  <2> QED
    BY <2>1, ReturnGoes DEF Goes, SendTry, ReceiveTry
<1>3. \A c : Lock(c)' = Lock(c)
  BY <1>2 DEF Lock, lockVars
<1>4. CASE SendTry(t)
  <2>1. /\ call[t].kind = "send" /\ uxMessagesWaiting' = uxMessagesWaiting + 1
        /\ k' = Wake(k, "receive")
    BY <1>4 DEF SendTry, prvCopyDataToQueue
  <2>2. Available("receive")' = Available("receive") + 1 /\ Available("send")' = Available("send") - 1
    BY <2>1, Numbers DEF Available
  <2>3. Enough("receive")' /\ Enough("send")'
    BY <1>1, <1>2, <1>3, <2>1, <2>2, TakeCount
  <2> QED
    BY <1>1, <2>3 DEF CountInv
<1>5. CASE ReceiveTry(t)
  <2>1. /\ call[t].kind = "receive" /\ uxMessagesWaiting' = uxMessagesWaiting - 1
        /\ k' = Wake(k, "send")
    BY <1>5 DEF ReceiveTry, prvCopyDataFromQueue
  <2>2. Available("send")' = Available("send") + 1 /\ Available("receive")' = Available("receive") - 1
    BY <2>1, Numbers DEF Available
  <2>3. Enough("receive")' /\ Enough("send")'
    BY <1>1, <1>2, <1>3, <2>1, <2>2, TakeCount
  <2> QED
    BY <1>1, <2>3 DEF CountInv
<1> QED
  BY <1>4, <1>5

\* One half of prvUnlockQueue.
LEMMA UnlockCount ==
  ASSUME KernelInv, QueueInv, WaitInv, CountInv, NEW t \in Tasks, Runs(t), pc[t] \in Leaving,
         NEW l \in Leaving, pc' = [pc EXCEPT ![t] = l], UNCHANGED <<after, call>>,
         NEW c \in Events, k' = UnlockWakes(k, c, Lock(c)), Lock(c)' = -1,
         \A d \in Events \ {c} : Lock(d)' = Lock(d), UNCHANGED uxMessagesWaiting
  PROVE  CountInv'
<1>1. k \in Kernels /\ KernelOk(k) /\ Lock(c) \in Int
  BY Numbers DEF KernelInv, KernelTypes, WaitInv
<1>2. PICK y : y = k'
  OBVIOUS
<1>3. y \in Kernels /\ KernelOk(y) /\ AsMany(k, y, c, Positive(Lock(c)))
  BY <1>1, <1>2, UnlockOk
<1>4. PICK S \in SUBSET Tasks :
        /\ Served(k, y, c, S) /\ IsFiniteSet(S)
        /\ y.ev[c] = <<>> \/ Cardinality(S) = Positive(Lock(c))
  BY <1>3 DEF AsMany
<1>5. \A d \in Events : Waits(k', d) \subseteq Waits(k, d)
  BY <1>2, <1>4 DEF Served
<1>6. Goes(t, l, after[t], call[t])
  BY Unmoved, GoesBy
<1>7. \A d \in Events : Sure(d) \subseteq Sure(d)'
  <2>1. \A d : t \in Sure(d) => t \notin Waits(k, d) /\ call'[t].kind = d /\ after'[t] \in {"retry", "blocked"}
    BY <1>6 DEF Sure, Goes, Leaving
  <2>2. \A d \in Events : t \in Sure(d) => t \in Sure(d)'
    BY <1>5, <1>6, <2>1 DEF Sure, Goes
  <2>3. \A d \in Events : Sure(d) \ {t} \subseteq Sure(d)'
    BY <1>5, <1>6, SureOthers DEF Goes
  <2> QED
    BY <2>2, <2>3
<1>8. \A d : Available(d)' = Available(d)
  BY DEF Available
<1>9. Enough(c)'
  <2>1. CASE y.ev[c] = <<>>
    <3>1. Waits(k', c) = {}
      BY <1>2, <2>1, EmptyFacts DEF Waits
    <3> QED
      BY <3>1, EnoughNone
  <2>2. CASE Cardinality(S) = Positive(Lock(c))
    <3>1. S \subseteq Waits(k, c) /\ S \cap Waits(k', c) = {}
      BY <1>2, <1>4 DEF Served
    <3>2. ASSUME NEW u \in S PROVE u \in Sure(c)' /\ u \notin Sure(c)
      <4>1. u \in Tasks /\ u \in Waits(k, c) /\ u \notin Waits(k', c)
        BY <3>1
      <4>2. TriesAgain(u)
        BY <4>1 DEF WaitInv
      <4>3. TriesAgain(u)' /\ call'[u] = call[u]
        BY <1>6, <4>1, <4>2 DEF TriesAgain, Goes, Own, Leaving
      <4> QED
        BY <4>1, <4>3, WokenSure
    <3>3. S \subseteq Sure(c)' /\ Sure(c) \cap S = {}
      BY <3>2
    <3> QED
      BY <1>5, <1>7, <1>8, <2>2, <3>3, EnoughUnlocked DEF CountInv
  <2> QED
    BY <1>4, <2>1, <2>2
<1>10. \A d \in Events \ {c} : Enough(d)'
  BY <1>5, <1>7, <1>8, EnoughKept DEF CountInv
<1> QED
  BY <1>9, <1>10 DEF CountInv

LEMMA UnlockCounts ==
  ASSUME KernelInv, QueueInv, WaitInv, CountInv, NEW t \in Tasks, UnlockTx(t) \/ UnlockRx(t)
  PROVE  CountInv'
<1>1. /\ "send" \in Events /\ "receive" \in Events /\ \A c \in Events : c \in {"send", "receive"}
      /\ Lock("receive") = cTxLock /\ Lock("send") = cRxLock
      /\ Lock("receive")' = cTxLock' /\ Lock("send")' = cRxLock'
  BY QueueAssumption DEF Lock
<1>2. CASE UnlockTx(t)
  <2>1. /\ k' = UnlockWakes(k, "receive", Lock("receive")) /\ pc' = [pc EXCEPT ![t] = "unlockrx"]
        /\ UNCHANGED <<after, call>> /\ Runs(t) /\ pc[t] \in Leaving /\ "unlockrx" \in Leaving
        /\ Lock("receive")' = -1 /\ Lock("send")' = Lock("send") /\ UNCHANGED uxMessagesWaiting
    BY <1>1, <1>2 DEF UnlockTx, Goto, Leaving, queueVars
  <2> QED
    BY <1>1, <2>1, UnlockCount
<1>3. CASE UnlockRx(t)
  <2>1. /\ k' = UnlockWakes(k, "send", Lock("send")) /\ pc' = [pc EXCEPT ![t] = "resume"]
        /\ UNCHANGED <<after, call>> /\ Runs(t) /\ pc[t] \in Leaving /\ "resume" \in Leaving
        /\ Lock("send")' = -1 /\ Lock("receive")' = Lock("receive") /\ UNCHANGED uxMessagesWaiting
    BY <1>1, <1>3 DEF UnlockRx, Goto, Leaving, queueVars
  <2> QED
    BY <1>1, <2>1, UnlockCount
<1> QED
  BY <1>2, <1>3

LEMMA ResumeCount ==
  ASSUME KernelInv, QueueInv, WaitInv, CountInv, NEW t \in Tasks, Resume(t)
  PROVE  CountInv'
<1>1. \A c : Available(c)' = Available(c) /\ Lock(c)' = Lock(c)
  BY DEF Resume, Available, Lock, queueVars, lockVars
<1>2. Goes(t, GoesOn(after[t]), "none", call[t]) /\ pc[t] = "resume"
  BY ResumeGoes
<1>3. \A c \in Events : Waits(k', c) \subseteq Waits(k, c)
  <2>1. PICK y : y = k'
    OBVIOUS
  <2>2. \E r \in Kernels : Readied(k, r) /\ Ticked(r, y, k.pended)
    BY <2>1, ResumedOk
  <2> QED
    BY <2>1, <2>2, ReadiedFewer
<1>4. ASSUME NEW c \in Events PROVE Sure(c) \subseteq Sure(c)'
  <2>1. t \in Sure(c) => after[t] \in {"retry", "blocked"} /\ call'[t].kind = c /\ t \notin Waits(k', c)
    BY <1>2, <1>3 DEF Sure, Goes, Leaving
  <2>2. t \in Sure(c) => t \in Sure(c)'
    BY <1>2, <2>1 DEF Sure, Goes, GoesOn
  <2>3. Sure(c) \ {t} \subseteq Sure(c)'
    BY <1>2, <1>3, SureOthers DEF Goes
  <2> QED
    BY <2>2, <2>3
<1> QED
  BY <1>1, <1>3, <1>4, EnoughKept DEF CountInv

LEMMA IsrCount ==
  ASSUME KernelInv, QueueInv, WaitInv, LockInv, CountInv, NEW c \in Events, Brings(c)
  PROVE  CountInv'
<1>1. UNCHANGED <<pc, after, call>> /\ Available(c)' = Available(c) + 1
  BY DEF Brings, taskVars
<1>2. Lock(c) \in Int /\ Lock(c) >= -1
  BY Numbers DEF LockInv, Lock
<1>3. ASSUME NEW d \in Events, Waits(k', d) \subseteq Waits(k, d) PROVE Sure(d) \subseteq Sure(d)'
  BY <1>1, <1>3 DEF Sure
<1>4. CASE Lock(c) = -1
  <2>1. k' = Wake(k, c) /\ Lock(c)' = Lock(c)
    BY <1>4 DEF Brings
  <2>2. Fewer(k, k')
    BY <2>1, WakeShrinks
  <2>3. \A u \in Waits(k, c) : TriesAgain(u)' /\ call'[u] = call[u]
    BY <1>1 DEF WaitInv, TriesAgain
  <2>4. Enough(c)'
    BY <1>1, <1>3, <2>1, <2>2, <2>3, WakeCount DEF Fewer
  <2>5. \A d \in Events \ {c} : Enough(d)'
    BY <1>3, <2>2, EnoughKept DEF CountInv, Brings, Fewer
  <2> QED
    BY <2>4, <2>5 DEF CountInv
<1>5. CASE Lock(c) # -1
  <2>1. UNCHANGED k /\ Lock(c)' = Lock(c) + 1 /\ Lock(c) >= 0
    BY <1>2, <1>5 DEF Brings
  <2>2. \A d \in Events : Waits(k', d) \subseteq Waits(k, d)
    BY <2>1
  <2>3. Enough(c)'
    BY <1>1, <1>3, <2>1, <2>2, EnoughCounted DEF CountInv
  <2>4. \A d \in Events \ {c} : Enough(d)'
    BY <1>3, <2>2, EnoughKept DEF CountInv, Brings
  <2> QED
    BY <2>3, <2>4 DEF CountInv
<1> QED
  BY <1>4, <1>5

\* Ticks and switches only take tasks from the lists.
LEMMA ClockCount ==
  ASSUME KernelInv, QueueInv, WaitInv, CountInv,
         xPortSysTickHandler \/ \E t \in Tasks : xPortPendSVHandler(t)
  PROVE  CountInv'
<1>1. UNCHANGED <<pc, after, call, uxMessagesWaiting, cTxLock, cRxLock>>
  BY DEF xPortSysTickHandler, xPortPendSVHandler, taskVars, queueVars, lockVars
<1>2. k \in Kernels /\ KernelOk(k) /\ k.susp \in Nat
  BY DEF KernelInv, KernelTypes, WaitInv, Kernels
<1>3. PICK y : y = k'
  OBVIOUS
<1>4. Fewer(k, y)
  <2>1. CASE xPortSysTickHandler
    <3>1. y = xTaskIncrementTick(k)
      BY <1>3, <2>1 DEF xPortSysTickHandler
    <3>2. /\ k.susp > 0 => Alike(k, y)
          /\ ~(k.susp > 0) => Ticked(k, y, 1)
      BY <1>2, <3>1, IncrementOk
    <3> QED
      BY <3>2, AlikeFewer, TickedFewer
  <2>2. CASE \E t \in Tasks : xPortPendSVHandler(t)
    <3>1. PICK t \in Tasks : y = vTaskSwitchContext(k, t)
      BY <1>3, <2>2 DEF xPortPendSVHandler
    <3>2. Alike(k, y)
      BY <1>2, <3>1, SwitchAlike
    <3> QED
      BY <3>2, AlikeFewer
  <2> QED
    BY <2>1, <2>2
<1>5. \A c \in Events : Waits(k', c) \subseteq Waits(k, c)
  BY <1>3, <1>4 DEF Fewer
<1>6. \A c \in Events : Sure(c) \subseteq Sure(c)'
  BY <1>1, <1>5 DEF Sure
<1>7. \A c : Available(c)' = Available(c) /\ Lock(c)' = Lock(c)
  BY <1>1 DEF Available, Lock
<1> QED
  BY <1>5, <1>6, <1>7, EnoughKept DEF CountInv

LEMMA InitCountInv == Init => CountInv
<1> SUFFICES ASSUME Init PROVE CountInv
  OBVIOUS
<1>1. k.ev = [e \in Events |-> <<>>]
  BY DEF Init
<1>2. \A c \in Events : Waits(k, c) = {}
  BY <1>1, EmptyFacts DEF Waits
<1> QED
  BY <1>2 DEF CountInv, Enough

LEMMA NextCountInv ==
  KernelInv /\ QueueInv /\ WaitInv /\ LockInv /\ CountInv /\ [Next]_vars => CountInv'
<1> SUFFICES ASSUME KernelInv, QueueInv, WaitInv, LockInv, CountInv, [Next]_vars PROVE CountInv'
  OBVIOUS
<1>1. CASE UNCHANGED vars
  BY <1>1 DEF vars, taskVars, queueVars, lockVars, CountInv, Enough, Available, Lock, Sure
<1>2. ASSUME NEW t \in Tasks, TaskStep(t) PROVE CountInv'
  <2>1. CASE TryBlocks(t)
    BY <2>1, TryBlocksCount
  <2>2. CASE SendTry(t) \/ ReceiveTry(t)
    BY <2>2, ServedCount
  <2>3. CASE Place(t)
    BY <2>3, PlaceCount
  <2>4. CASE UnlockTx(t) \/ UnlockRx(t)
    BY <2>4, UnlockCounts
  <2>5. CASE Resume(t)
    BY <2>5, ResumeCount
  <2> QED
    BY <1>2, <2>1, <2>2, <2>3, <2>4, <2>5, QuietCounts DEF TaskStep
<1>3. CASE xPortSysTickHandler \/ \E t \in Tasks : xPortPendSVHandler(t)
  BY <1>3, ClockCount
<1>4. CASE (\E v \in IsrItems : xQueueGenericSendFromISR(v)) \/ xQueueReceiveFromISR
  BY <1>4, IsrBrings, IsrCount
<1> QED
  BY <1>1, <1>2, <1>3, <1>4 DEF Next

\* What the count says of the tasks.
LEMMA CountSays ==
  ASSUME KernelInv, QueueInv, WaitInv, CountInv, NEW c \in Events, k.ev[c] # <<>>, Available(c) > 0
  PROVE  Lock(c) > 0 \/ \E t \in Tasks : Looking(t, c)
<1>1. k.ev[c] \in Seq(Tasks)
  BY DEF KernelInv, KernelTypes, Kernels
<1>2. Waits(k, c) # {}
  BY <1>1, SomeFacts DEF Waits
<1>3. Available(c) <= Cardinality(Sure(c)) + Positive(Lock(c))
  BY <1>2 DEF CountInv, Enough
<1>4. PICK A : A = Sure(c)
  OBVIOUS
<1>5. Cardinality(A) \in Nat /\ Available(c) \in Nat /\ Lock(c) \in Int
  BY <1>4, SureTasks, Count, Numbers
<1>6. A = {} => Cardinality(A) = 0
  BY FS_EmptySet
<1>7. A # {} \/ Lock(c) > 0
  BY <1>3, <1>4, <1>5, <1>6 DEF Positive
<1>8. ASSUME NEW t \in A PROVE t \in Tasks /\ Looking(t, c)
  <2>1. /\ t \in Tasks /\ call[t].kind = c /\ t \notin Members(k.ev[c])
        /\ pc[t] = "try" \/ (pc[t] \in Leaving /\ after[t] \in {"retry", "blocked"})
    BY <1>4, <1>8 DEF Sure, Waits
  <2>2. call[t] # NoCall
    BY <2>1, QueueAssumption DEF NoCall
  <2>3. \A i \in DOMAIN k.ev[c] : k.ev[c][i] # t
    BY <1>1, <2>1 DEF Members
  <2>4. pc[t] = "try" => after[t] = "none"
    BY <2>1 DEF KernelInv, InCall, CallState, Leaving
  <2>5. pc[t] \notin {"block", "expired"} /\ after[t] # "expired"
    BY <2>1, <2>4 DEF Leaving
  <2> QED
    BY <2>1, <2>2, <2>3, <2>5 DEF Looking
<1> QED
  BY <1>7, <1>8

\* No wakeup is lost, between a task that looks at the queue and finds that it must wait
\* and the tasks and interrupts that change the queue meanwhile.
THEOREM NoWakeupIsLost == Spec => []NoLostWakeup
<1> DEFINE Inv == KernelInv /\ QueueInv /\ WaitInv /\ LockInv /\ CountInv
<1>1. Init => Inv
  BY InitKernelInv, FifoInit, InitWaitInv, InitLockInv, InitCountInv
<1>2. Inv /\ [Next]_vars => Inv'
  BY NextKernelInv, FifoStep, NextWaitInv, NextLockInv, NextCountInv
<1>3. Inv => NoLostWakeup
  <2> SUFFICES ASSUME Inv PROVE NoLostWakeup
    OBVIOUS
  <2>1. /\ "send" \in Events /\ "receive" \in Events /\ Lock("receive") = cTxLock /\ Lock("send") = cRxLock
    BY QueueAssumption DEF Lock
  <2>2. /\ uxMessagesWaiting > 0 => Available("receive") > 0
        /\ uxMessagesWaiting < uxLength => Available("send") > 0
    BY Numbers DEF Available
  <2> QED
    BY <2>1, <2>2, CountSays DEF NoLostWakeup
<1> QED
  BY <1>1, <1>2, <1>3, PTL DEF Spec

-----------------------------------------------------------------------------
(* The time that tasks wait *)

\* A call with n ticks to wait that has asked for a and waited w, counted from o on: what
\* is left of the limit, less the ticks since o and those that are pended.
Limited(x, n, o, a, w) ==
  /\ a - w = (n - Since(x, o.at)) - x.pended
  /\ n <= a /\ a # MAX_DELAY /\ o.at \in Ticks
  /\ x.tick >= o.at => x.over = o.over

Counts(x, n, o, a, w) ==
  /\ n = MAX_DELAY => a \in {0, MAX_DELAY} /\ o = Unset /\ w = 0
  /\ n = 0 => w >= a
  /\ n # MAX_DELAY /\ n # 0 /\ a # 0 => Limited(x, n, o, a, w)

\* What holds of a task at l, with after r, call c and list q.
TaskTime(x, l, r, c, o, a, w, q) ==
  /\ a \in Ticks /\ w \in Ticks /\ o \in Times
  /\ a = 0 => w = 0 /\ o = Unset
  /\ l = "idle" => a = 0
  /\ c # NoCall => Counts(x, c.ticks, o, a, w)
  /\ l \in Waiting => a # 0
  /\ l \in {"place", "block"} /\ c.ticks # MAX_DELAY => Since(x, o.at) = 0
  /\ l = "expired" \/ r = "expired" => c.ticks = 0
  /\ l = "slept" \/ r = "slept" => a # 0 /\ q # "suspended" /\ (q = "ready" => w >= a)

TaskTimes(t) ==
  TaskTime(k, pc[t], after[t], call[t], xTimeOut[t], asked[t], waited[t], k.list[t])

\* The time that is left to a task in a list of delayed tasks.
Remains(x, t, c, a, w) ==
  Left(x, t) = x.pended + (a - w) /\ a # 0 /\ (a = MAX_DELAY => c = NoCall)

TimeInv ==
  /\ asked \in [Tasks -> Ticks] /\ waited \in [Tasks -> Ticks]
  /\ \A t \in Timed(k) : Remains(k, t, call[t], asked[t], waited[t])
  /\ \A t \in Tasks : TaskTimes(t)

\* Tick counts are numbers up to MAX_DELAY.
LEMMA TickNumbers == MAX_DELAY \in Nat /\ MAX_DELAY # 0 /\ \A n \in Ticks : n \in Nat /\ n <= MAX_DELAY
BY SchedulerAssumption DEF Ticks

\* No time has passed since now.
LEMMA SinceNow ==
  ASSUME NEW x \in Kernels
  PROVE  Since(x, x.tick) = 0 /\ x.tick \in Ticks
<1>1. x.tick \in Ticks
  BY DEF Kernels
<1>2. PICK n \in Ticks : n = x.tick
  BY <1>1
<1>3. Since(x, n) = x.tick - n
  BY <1>2, TickNumbers, SinceIs
<1> QED
  BY <1>2, <1>3, TickNumbers

\* The clock goes on by m ticks, or ticks are pended, and w counts them.
LEMMA LimitedOn ==
  ASSUME NEW x \in Kernels, NEW y \in Kernels, NEW m \in Nat, ClockOn(x, y, m),
         NEW n \in Ticks, NEW o \in Times, NEW a \in Ticks, NEW w \in Ticks, NEW v \in Ticks,
         v - w = (m + y.pended) - x.pended, Limited(x, n, o, a, w)
  PROVE  Limited(y, n, o, a, v)
<1>1. PICK s \in 0 .. MAX_DELAY : s = Since(x, o.at)
  BY SinceIs DEF Limited
<1>2. PICK p \in Nat : p = x.pended
  BY DEF Kernels
<1>3. PICK q \in Nat : q = y.pended
  BY DEF Kernels
<1>4. MAX_DELAY \in Nat /\ n \in Nat /\ a \in Nat /\ w \in Nat /\ v \in Nat /\ v <= MAX_DELAY
  BY TickNumbers
<1>5. a - w = (n - s) - p /\ n <= a /\ a # MAX_DELAY /\ o.at \in Ticks /\ o.over \in Nat
  BY <1>1, <1>2 DEF Limited, Times
<1>6. v - w = (m + q) - p
  BY <1>2, <1>3
<1>7. s + m <= MAX_DELAY
  BY <1>4, <1>5, <1>6
<1>8. Since(y, o.at) = s + m /\ (y.tick >= o.at => y.over = o.over)
  BY <1>1, <1>5, <1>7 DEF ClockOn, Limited
<1>9. a - v = (n - (s + m)) - q
  BY <1>4, <1>5, <1>6
<1> QED
  BY <1>3, <1>5, <1>8, <1>9 DEF Limited

\* The clock stands still.
LEMMA ClockStill ==
  ASSUME NEW x \in Kernels, NEW y \in Kernels, y.tick = x.tick, y.over = x.over
  PROVE  ClockOn(x, y, 0)
<1>1. \A a \in Ticks : Since(y, a) = Since(x, a) /\ Since(x, a) \in 0 .. MAX_DELAY
  BY SinceIs DEF Since
<1> QED
  BY <1>1, TickNumbers DEF ClockOn

\* Counts is about the clock only.
LEMMA CountsSame ==
  ASSUME NEW x, NEW y, y.tick = x.tick, y.over = x.over, y.pended = x.pended,
         NEW n, NEW o, NEW a, NEW w, Counts(x, n, o, a, w)
  PROVE  Counts(y, n, o, a, w)
BY DEF Counts, Limited, Since

\* A step in which a task does nothing and the clock stands still.
LEMMA TimeSame ==
  ASSUME NEW x, NEW y, y.tick = x.tick, y.over = x.over, y.pended = x.pended,
         NEW l, NEW r, NEW c, NEW o, NEW a, NEW w, NEW q, NEW p, TaskTime(x, l, r, c, o, a, w, q),
         l = "slept" \/ r = "slept" => p = q
  PROVE  TaskTime(y, l, r, c, o, a, w, p)
<1>1. \A b : Since(y, b) = Since(x, b)
  BY DEF Since
<1>2. c # NoCall => Counts(y, c.ticks, o, a, w)
  BY CountsSame DEF TaskTime
<1> QED
  BY <1>1, <1>2 DEF TaskTime

LEMMA RemainsSame ==
  ASSUME NEW x, NEW y, NEW t, Left(y, t) = Left(x, t), y.pended = x.pended,
         NEW c, NEW a, NEW w, Remains(x, t, c, a, w)
  PROVE  Remains(y, t, c, a, w)
BY DEF Remains

\* The own step of task t.
OwnTime(t, o, a, w) ==
  /\ xTimeOut' = [xTimeOut EXCEPT ![t] = o]
  /\ asked' = [asked EXCEPT ![t] = a] /\ waited' = [waited EXCEPT ![t] = w]

\* What a step of task t has to keep.
LEMMA TimeKept ==
  ASSUME KernelInv, TimeInv, NEW t \in Tasks, NEW l, NEW r, NEW c, NEW o, NEW a, NEW w,
         Goes(t, l, r, c), OwnTime(t, o, a, w),
         k'.tick = k.tick, k'.over = k.over, k'.pended = k.pended,
         \A u \in Timed(k') : u # t => u \in Timed(k) /\ Left(k', u) = Left(k, u),
         t \in Timed(k') => Remains(k', t, c, a, w),
         \A u \in Tasks \ {t} : pc[u] = "slept" \/ after[u] = "slept" => k'.list[u] = k.list[u],
         TaskTime(k', l, r, c, o, a, w, k'.list[t])
  PROVE  TimeInv'
<1>1. PICK y : y = k'
  OBVIOUS
<1>2. /\ xTimeOut'[t] = o /\ asked'[t] = a /\ waited'[t] = w
      /\ \A u \in Tasks \ {t} : xTimeOut'[u] = xTimeOut[u] /\ asked'[u] = asked[u] /\ waited'[u] = waited[u]
      /\ asked' \in [Tasks -> Ticks] /\ waited' \in [Tasks -> Ticks]
  <2>1. a \in Ticks /\ w \in Ticks
    BY DEF TaskTime
  <2> QED
    BY <2>1 DEF OwnTime, TimeInv, KernelInv, KernelTypes
<1>3. /\ pc'[t] = l /\ after'[t] = r /\ call'[t] = c
      /\ \A u \in Tasks \ {t} : pc'[u] = pc[u] /\ after'[u] = after[u] /\ call'[u] = call[u]
  BY DEF Goes, Own
<1>4. ASSUME NEW u \in Timed(k') PROVE Remains(k', u, call'[u], asked'[u], waited'[u])
  <2>1. u \in Tasks
    BY DEF Timed
  <2>2. CASE u = t
    BY <1>2, <1>3, <2>2
  <2>3. CASE u # t
    <3>1. Remains(k, u, call[u], asked[u], waited[u])
      BY <2>3 DEF TimeInv
    <3>2. Remains(y, u, call[u], asked[u], waited[u])
      BY <1>1, <2>3, <3>1, RemainsSame
    <3> QED
      BY <1>1, <1>2, <1>3, <2>1, <2>3, <3>2
  <2> QED
    BY <2>2, <2>3
<1>5. ASSUME NEW u \in Tasks PROVE TaskTimes(u)'
  <2>1. CASE u = t
    BY <1>2, <1>3, <2>1 DEF TaskTimes
  <2>2. CASE u # t
    <3>1. TaskTime(k, pc[u], after[u], call[u], xTimeOut[u], asked[u], waited[u], k.list[u])
      BY DEF TimeInv, TaskTimes
    <3>2. TaskTime(y, pc[u], after[u], call[u], xTimeOut[u], asked[u], waited[u], y.list[u])
      BY <1>1, <2>2, <3>1, TimeSame
    <3> QED
      BY <1>1, <1>2, <1>3, <2>2, <3>2 DEF TaskTimes
  <2> QED
    BY <2>1, <2>2
<1> QED
  BY <1>2, <1>4, <1>5 DEF TimeInv

\* ... which leaves its times as they are.
LEMMA UnmovedTime ==
  ASSUME KernelInv, TimeInv, NEW t \in Tasks, UNCHANGED <<xTimeOut, asked, waited>>
  PROVE  OwnTime(t, xTimeOut[t], asked[t], waited[t])
BY DEF OwnTime, KernelInv, KernelTypes, TimeInv

\* The times of a call that returns.
LEMMA ReturnTime ==
  ASSUME NEW t \in Tasks, NEW v, Returns(t, v)
  PROVE  OwnTime(t, Unset, 0, 0)
BY DEF OwnTime, Returns

\* The times of a task that has returned.
LEMMA IdleTime ==
  ASSUME NEW x, NEW q
  PROVE  TaskTime(x, "idle", "none", NoCall, Unset, 0, 0, q)
<1>1. 0 \in Ticks /\ Unset \in Times
  BY TickNumbers DEF Ticks, Times, Unset
<1> QED
  BY <1>1 DEF TaskTime, Waiting

\* A task that runs outside the end of a call, and that leaves the lists alone.
LEMMA QuietTime ==
  ASSUME KernelInv, WaitInv, TimeInv, NEW t \in Tasks, Runs(t), pc[t] \notin Leaving,
         NEW l, NEW r, NEW c, NEW o, NEW a, NEW w, Goes(t, l, r, c), OwnTime(t, o, a, w),
         Alike(k, k'), k'.pended = k.pended, TaskTime(k, l, r, c, o, a, w, "ready")
  PROVE  TimeInv'
<1>1. PICK y : y = k'
  OBVIOUS
<1>2. /\ y.tick = k.tick /\ y.over = k.over /\ y.pended = k.pended /\ y.list = k.list /\ y.wake = k.wake
  BY <1>1 DEF Alike
<1>3. k.list[t] = "ready"
  BY Untouched
<1>4. t \notin Timed(y) /\ Timed(y) = Timed(k) /\ \A u : Left(y, u) = Left(k, u)
  BY <1>2, <1>3 DEF Timed, Left
<1>5. TaskTime(y, l, r, c, o, a, w, y.list[t])
  BY <1>2, <1>3, TimeSame
<1> QED
  BY <1>1, <1>2, <1>4, <1>5, TimeKept

\* The times of the task that runs.
LEMMA RunningTime ==
  ASSUME KernelInv, WaitInv, TimeInv, NEW t \in Tasks, Runs(t), pc[t] \notin Leaving
  PROVE  /\ TaskTime(k, pc[t], after[t], call[t], xTimeOut[t], asked[t], waited[t], "ready")
         /\ after[t] = "none" /\ k \in Kernels /\ CallState(pc[t], after[t], call[t])
         /\ pc[t] \notin Locked => k.susp = 0 /\ k.pended = 0
<1>1. k.list[t] = "ready"
  BY Untouched
<1>2. /\ k \in Kernels /\ CallState(pc[t], after[t], call[t])
      /\ pc[t] \notin Locked => k.susp = 0
  BY Running
<1>3. k.susp = 0 => k.pended = 0
  BY DEF WaitInv
<1>4. after[t] = "none"
  BY <1>2 DEF CallState
<1> QED
  BY <1>1, <1>2, <1>3, <1>4 DEF TimeInv, TaskTimes

\* The kernel does not change.
LEMMA StillAlike == UNCHANGED k => Alike(k, k') /\ k'.pended = k.pended
BY DEF Alike

LEMMA ReturnsTime ==
  ASSUME KernelInv, WaitInv, TimeInv, NEW t \in Tasks, Runs(t), pc[t] \notin Leaving, UNCHANGED k,
         NEW v, Returns(t, v)
  PROVE  TimeInv'
<1>1. Goes(t, "idle", "none", NoCall) /\ OwnTime(t, Unset, 0, 0)
  BY RunningTime, ReturnGoes, ReturnTime
<1> QED
  BY <1>1, IdleTime, StillAlike, QuietTime

LEMMA CallTime ==
  ASSUME KernelInv, WaitInv, TimeInv, NEW t \in Tasks, NEW c \in Calls[t], Call(t, c)
  PROVE  TimeInv'
<1>1. /\ Runs(t) /\ pc[t] = "idle" /\ pc' = [pc EXCEPT ![t] = "try"] /\ call' = [call EXCEPT ![t] = c]
      /\ UNCHANGED <<k, after, xTimeOut, asked, waited>>
  BY DEF Call, Goto, timeVars
<1>2. /\ pc[t] \notin Leaving /\ after[t] = "none"
      /\ TaskTime(k, "idle", "none", call[t], xTimeOut[t], asked[t], waited[t], "ready")
  BY <1>1, RunningTime DEF Leaving
<1>3. asked[t] = 0 /\ waited[t] = 0 /\ xTimeOut[t] = Unset
  BY <1>2 DEF TaskTime
<1>4. Goes(t, "try", "none", c) /\ OwnTime(t, xTimeOut[t], asked[t], waited[t])
  BY <1>1, <1>2, Unmoved, GoesBy, UnmovedTime
<1>5. Counts(k, c.ticks, xTimeOut[t], asked[t], waited[t])
  BY <1>3 DEF Counts
<1>6. TaskTime(k, "try", "none", c, xTimeOut[t], asked[t], waited[t], "ready")
  BY <1>2, <1>3, <1>5 DEF TaskTime, Waiting
<1> QED
  BY <1>1, <1>2, <1>4, <1>6, StillAlike, QuietTime

\* The limit begins with the first look at the queue.
LEMMA LimitBegins ==
  ASSUME NEW x \in Kernels, x.pended = 0, NEW n \in Ticks, n # MAX_DELAY
  PROVE  Limited(x, n, [over |-> x.over, at |-> x.tick], n, 0)
<1>1. Since(x, x.tick) = 0 /\ x.tick \in Ticks
  BY SinceNow
<1>2. n - 0 = (n - 0) - 0 /\ n <= n
  BY TickNumbers
<1> QED
  BY <1>1, <1>2 DEF Limited

LEMMA TryBlocksTime ==
  ASSUME KernelInv, WaitInv, TimeInv, NEW t \in Tasks, TryBlocks(t)
  PROVE  TimeInv'
<1>1. Runs(t) /\ pc[t] = "try" /\ UNCHANGED k
  BY DEF TryBlocks
<1>2. CASE call[t].ticks = 0
  BY <1>1, <1>2, ReturnsTime DEF TryBlocks, Leaving
<1>3. CASE call[t].ticks # 0
  <2>1. PICK n : n = call[t].ticks
    OBVIOUS
  <2>2. PICK o : o = IF xTimeOut[t] = Unset /\ n # MAX_DELAY THEN Now ELSE xTimeOut[t]
    OBVIOUS
  <2>3. PICK a : a = IF asked[t] = 0 THEN n ELSE asked[t]
    OBVIOUS
  <2>4. /\ pc' = [pc EXCEPT ![t] = "suspend"] /\ UNCHANGED <<call, after, waited>>
        /\ xTimeOut' = [xTimeOut EXCEPT ![t] = o] /\ asked' = [asked EXCEPT ![t] = a]
    BY <1>3, <2>1, <2>2, <2>3 DEF TryBlocks, Goto
  <2>5. /\ pc[t] \notin Leaving /\ after[t] = "none" /\ k \in Kernels /\ k.pended = 0
        /\ TaskTime(k, "try", "none", call[t], xTimeOut[t], asked[t], waited[t], "ready")
        /\ call[t] \in QueueCalls
    BY <1>1, RunningTime DEF Leaving, Locked, CallState
  <2>6. Goes(t, "suspend", "none", call[t]) /\ OwnTime(t, o, a, waited[t])
    <3>1. waited' = [waited EXCEPT ![t] = waited[t]]
      BY <2>4 DEF TimeInv
    <3> QED
      BY <2>4, <2>5, <3>1, Unmoved, GoesBy DEF OwnTime
  <2>7. /\ call[t] # NoCall /\ n \in Ticks /\ n # 0
        /\ Counts(k, n, xTimeOut[t], asked[t], waited[t]) /\ (asked[t] = 0 => waited[t] = 0 /\ xTimeOut[t] = Unset)
        /\ asked[t] \in Ticks /\ waited[t] \in Ticks /\ xTimeOut[t] \in Times
    BY <1>3, <2>1, <2>5, SeenFacts DEF TaskTime, QueueCalls
  <2>8. Now \in Times /\ Now = [over |-> k.over, at |-> k.tick]
    BY <2>5, TickNumbers DEF Now, Times, Kernels
  <2>9. Unset.at \notin Ticks
    BY TickNumbers DEF Unset
  <2>10. Counts(k, n, o, a, waited[t])
    <3>1. CASE n = MAX_DELAY
      BY <2>2, <2>3, <2>7, <3>1 DEF Counts
    <3>2. CASE n # MAX_DELAY /\ asked[t] = 0
      <4>1. o = [over |-> k.over, at |-> k.tick] /\ a = n /\ waited[t] = 0
        BY <2>2, <2>3, <2>7, <2>8, <3>2
      <4>2. Limited(k, n, o, a, waited[t])
        BY <2>5, <2>7, <3>2, <4>1, LimitBegins
      <4> QED
        BY <2>7, <3>2, <4>2 DEF Counts
    <3>3. CASE n # MAX_DELAY /\ asked[t] # 0
      <4>1. Limited(k, n, xTimeOut[t], asked[t], waited[t])
        BY <2>7, <3>3 DEF Counts
      <4>2. xTimeOut[t] # Unset
        BY <2>9, <4>1 DEF Limited
      <4>3. o = xTimeOut[t] /\ a = asked[t]
        BY <2>2, <2>3, <3>3, <4>2
      <4> QED
        BY <2>7, <4>3
    <3> QED
      BY <3>1, <3>2, <3>3
  <2>11. a \in Ticks /\ a # 0 /\ o \in Times
    BY <2>2, <2>3, <2>7, <2>8
  <2>12. TaskTime(k, "suspend", "none", call[t], o, a, waited[t], "ready")
    BY <2>1, <2>7, <2>10, <2>11 DEF TaskTime
  <2> QED
    BY <1>1, <2>5, <2>6, <2>12, StillAlike, QuietTime
<1> QED
  BY <1>2, <1>3

\* Only the location changes.
LEMMA WalkTime ==
  ASSUME KernelInv, WaitInv, TimeInv, NEW t \in Tasks, Runs(t), pc[t] \notin Leaving,
         NEW l, NEW r, Goes(t, l, r, call[t]), UNCHANGED <<xTimeOut, asked, waited>>,
         Alike(k, k'), k'.pended = k.pended,
         l \notin {"idle", "expired", "slept"} /\ r \notin {"expired", "slept"},
         l \in Waiting => pc[t] \in Waiting,
         l \in {"place", "block"} => pc[t] = "place"
  PROVE  TimeInv'
<1>1. TaskTime(k, pc[t], after[t], call[t], xTimeOut[t], asked[t], waited[t], "ready")
  BY RunningTime
<1>2. TaskTime(k, l, r, call[t], xTimeOut[t], asked[t], waited[t], "ready")
  BY <1>1 DEF TaskTime
<1> QED
  BY <1>2, UnmovedTime, QuietTime

LEMMA WalksTime ==
  ASSUME KernelInv, WaitInv, TimeInv, NEW t \in Tasks,
         SuspendAll(t) \/ prvLockQueue(t) \/ NoLongerBlocks(t) \/ StillBlocks(t)
  PROVE  TimeInv'
<1>1. Runs(t) /\ pc[t] \in Waiting /\ pc[t] \notin Leaving /\ UNCHANGED <<xTimeOut, asked, waited, call>>
  BY DEF SuspendAll, prvLockQueue, NoLongerBlocks, StillBlocks, Waiting, Leaving, timeVars
<1>2. Alike(k, k') /\ k'.pended = k.pended
  <2>1. CASE UNCHANGED k
    BY <2>1, StillAlike
  <2>2. CASE SuspendAll(t)
    <3>1. k' = vTaskSuspendAll(k) /\ k \in Kernels
      BY <2>2 DEF SuspendAll, KernelInv, KernelTypes
    <3>2. PICK y : y = k'
      OBVIOUS
    <3> QED
      BY <3>1, <3>2, SuspendAlike
  <2> QED
    BY <2>1, <2>2 DEF prvLockQueue, NoLongerBlocks, StillBlocks
<1>3. CASE SuspendAll(t) \/ prvLockQueue(t) \/ StillBlocks(t)
  <2>1. PICK l \in {"lock", "check", "block"} :
          pc' = [pc EXCEPT ![t] = l] /\ UNCHANGED after /\ (l = "block" => pc[t] = "place")
    BY <1>3 DEF SuspendAll, prvLockQueue, StillBlocks, Goto
  <2>2. Goes(t, l, after[t], call[t]) /\ after[t] = "none"
    BY <1>1, <2>1, Unmoved, GoesBy, RunningTime
  <2> QED
    BY <1>1, <1>2, <2>1, <2>2, WalkTime
<1>4. CASE NoLongerBlocks(t)
  <2>1. pc' = [pc EXCEPT ![t] = "unlocktx"] /\ after' = [after EXCEPT ![t] = "retry"]
    BY <1>4 DEF NoLongerBlocks, Goto
  <2>2. Goes(t, "unlocktx", "retry", call[t])
    BY <1>1, <2>1, Unmoved, GoesBy
  <2> QED
    BY <1>1, <1>2, <2>2, WalkTime DEF Waiting
<1> QED
  BY <1>3, <1>4

LEMMA ExpiredTime ==
  ASSUME KernelInv, WaitInv, TimeInv, NEW t \in Tasks, Expired(t)
  PROVE  TimeInv'
<1>1. Runs(t) /\ pc[t] \notin Leaving /\ UNCHANGED k
  BY DEF Expired, Leaving
<1>2. CASE Returns(t, "refused")
  BY <1>1, <1>2, ReturnsTime
<1>3. CASE Goto(t, "try") /\ UNCHANGED <<call, xTimeOut, after, timeVars>>
  <2>1. Goes(t, "try", after[t], call[t]) /\ after[t] = "none"
    BY <1>1, <1>3, Unmoved, GoesBy, RunningTime DEF Goto
  <2> QED
    BY <1>1, <1>3, <2>1, StillAlike, WalkTime DEF Waiting, timeVars
<1> QED
  BY <1>2, <1>3 DEF Expired

\* xTaskCheckForTimeOut
LEMMA CheckTime ==
  ASSUME KernelInv, WaitInv, TimeInv, NEW t \in Tasks, xTaskCheckForTimeOut(t)
  PROVE  TimeInv'
<1>1. Runs(t) /\ pc[t] = "check" /\ pc[t] \notin Leaving /\ UNCHANGED <<k, asked, waited>>
  BY DEF xTaskCheckForTimeOut, Leaving, timeVars
<1>2. /\ TaskTime(k, "check", "none", call[t], xTimeOut[t], asked[t], waited[t], "ready")
      /\ after[t] = "none" /\ k \in Kernels /\ call[t] \in QueueCalls
  BY <1>1, RunningTime DEF CallState, Leaving
<1>3. PICK n \in Ticks : n = call[t].ticks
  BY <1>2 DEF QueueCalls
<1>4. PICK o \in Times : o = xTimeOut[t]
  BY DEF KernelInv, KernelTypes
<1>5. n # 0 /\ call[t] # NoCall
  BY <1>1, <1>2, <1>3, TickNumbers, SeenFacts DEF WaitInv, Waiting
<1>6. PICK a \in Ticks : a = asked[t]
  BY DEF TimeInv
<1>7. PICK w \in Ticks : w = waited[t]
  BY DEF TimeInv
<1>8. a # 0 /\ Counts(k, n, o, a, w)
  BY <1>2, <1>3, <1>4, <1>5, <1>6, <1>7 DEF TaskTime, Waiting
<1>9. PICK p \in Nat : p = k.pended
  BY <1>2 DEF Kernels
<1>10. asked' = [asked EXCEPT ![t] = a] /\ waited' = [waited EXCEPT ![t] = w]
  BY <1>1, <1>6, <1>7 DEF TimeInv
<1>11. n # MAX_DELAY => Limited(k, n, o, a, w)
  BY <1>5, <1>8 DEF Counts
<1>12. CASE TimedOut(t)
  <2>1. n # MAX_DELAY /\ (WholeRound(t) \/ Elapsed(t) >= n)
    BY <1>3, <1>12 DEF TimedOut
  <2>2. ~WholeRound(t)
    BY <1>4, <1>11, <2>1 DEF Limited, WholeRound
  <2>3. PICK s \in 0 .. MAX_DELAY : s = Since(k, o.at)
    BY <1>2, <1>11, <2>1, SinceIs DEF Limited
  <2>4. s >= n
    BY <1>4, <2>1, <2>2, <2>3 DEF Elapsed, Since
  <2>5. w >= a
    <3>1. a - w = (n - s) - p
      BY <1>9, <1>11, <2>1, <2>3 DEF Limited
    <3> QED
      BY <1>9, <2>3, <2>4, <3>1, TickNumbers
  <2>6. PICK c : c = [call[t] EXCEPT !.ticks = 0]
    OBVIOUS
  <2>7. /\ pc' = [pc EXCEPT ![t] = "unlocktx"] /\ after' = [after EXCEPT ![t] = "expired"]
        /\ call' = [call EXCEPT ![t] = c] /\ UNCHANGED xTimeOut
    BY <1>12, <2>2, <2>6 DEF xTaskCheckForTimeOut, Goto
  <2>8. Goes(t, "unlocktx", "expired", c) /\ OwnTime(t, o, a, w)
    <3>1. xTimeOut' = [xTimeOut EXCEPT ![t] = o]
      BY <1>4, <2>7 DEF KernelInv, KernelTypes
    <3> QED
      BY <1>10, <2>7, <3>1, GoesBy DEF OwnTime
  <2>9. c.ticks = 0
    BY <1>2, <2>6 DEF QueueCalls
  <2>10. Counts(k, 0, o, a, w)
    BY <2>5, TickNumbers DEF Counts
  <2>11. TaskTime(k, "unlocktx", "expired", c, o, a, w, "ready")
    BY <1>8, <2>9, <2>10 DEF TaskTime, Waiting
  <2> QED
    BY <1>1, <2>8, <2>11, StillAlike, QuietTime
<1>13. CASE ~TimedOut(t)
  <2>1. CASE n = MAX_DELAY
    <3>1. /\ pc' = [pc EXCEPT ![t] = "place"] /\ UNCHANGED <<after, xTimeOut>>
          /\ call' = [call EXCEPT ![t] = call[t]]
      <4>1. PICK c : c = [call[t] EXCEPT !.ticks = n]
        OBVIOUS
      <4>2. c = call[t]
        BY <1>2, <1>3, <4>1 DEF QueueCalls
      <4>3. /\ pc' = [pc EXCEPT ![t] = "place"] /\ UNCHANGED after
            /\ call' = [call EXCEPT ![t] = c]
            /\ xTimeOut' = [xTimeOut EXCEPT ![t] = xTimeOut[t]]
        BY <1>3, <1>13, <2>1, <4>1 DEF xTaskCheckForTimeOut, Goto
      <4>4. UNCHANGED xTimeOut
        BY <4>3 DEF KernelInv, KernelTypes
      <4> QED
        BY <4>2, <4>3, <4>4
    <3>2. Goes(t, "place", "none", call[t]) /\ OwnTime(t, o, a, w)
      <4>1. xTimeOut' = [xTimeOut EXCEPT ![t] = o]
        BY <1>4, <3>1 DEF KernelInv, KernelTypes
      <4> QED
        BY <1>2, <1>10, <3>1, <4>1, Unmoved, GoesBy DEF OwnTime
    <3>3. TaskTime(k, "place", "none", call[t], o, a, w, "ready")
      BY <1>2, <1>3, <1>4, <1>6, <1>7, <1>8, <2>1 DEF TaskTime
    <3> QED
      BY <1>1, <3>2, <3>3, StillAlike, QuietTime
  <2>2. CASE n # MAX_DELAY
    <3>1. PICK s \in 0 .. MAX_DELAY : s = Since(k, o.at)
      BY <1>2, <1>11, <2>2, SinceIs DEF Limited
    <3>2. Elapsed(t) = s /\ ~(s >= n)
      BY <1>3, <1>4, <1>13, <2>2, <3>1 DEF TimedOut, Elapsed, Since
    <3>3. PICK m : m = n - s
      OBVIOUS
    <3>4. m \in Ticks /\ m # 0 /\ m # MAX_DELAY /\ m <= n
      BY <1>5, <2>2, <3>1, <3>2, <3>3, TickNumbers DEF Ticks
    <3>5. PICK c : c = [call[t] EXCEPT !.ticks = m]
      OBVIOUS
    <3>6. PICK v \in Times : v = Now
      <4>1. k.over \in Nat /\ k.tick \in Ticks
        BY <1>2 DEF Kernels
      <4>2. k.tick \in Int
        BY <4>1, TickNumbers
      <4> QED
        BY <4>1, <4>2 DEF Now, Times
    <3>7. /\ pc' = [pc EXCEPT ![t] = "place"] /\ UNCHANGED after
          /\ call' = [call EXCEPT ![t] = c] /\ xTimeOut' = [xTimeOut EXCEPT ![t] = v]
      BY <1>3, <1>13, <2>2, <3>2, <3>3, <3>5, <3>6 DEF xTaskCheckForTimeOut, Goto
    <3>8. Goes(t, "place", "none", c) /\ OwnTime(t, v, a, w)
      BY <1>2, <1>10, <3>7, Unmoved, GoesBy DEF OwnTime
    <3>9. v.at = k.tick /\ v.over = k.over /\ Since(k, v.at) = 0 /\ v.at \in Ticks
      BY <1>2, <3>6, SinceNow DEF Now
    <3>10. Limited(k, m, v, a, w)
      <4>1. a - w = (n - s) - p /\ n <= a /\ a # MAX_DELAY
        BY <1>9, <1>11, <2>2, <3>1 DEF Limited
      <4>2. a - w = (m - 0) - p /\ m <= a
        BY <1>9, <3>1, <3>3, <3>4, <4>1, TickNumbers
      <4> QED
        BY <1>9, <3>9, <4>1, <4>2 DEF Limited
    <3>11. Counts(k, m, v, a, w) /\ c.ticks = m
      BY <1>2, <3>4, <3>5, <3>10 DEF Counts, QueueCalls
    <3>12. TaskTime(k, "place", "none", c, v, a, w, "ready")
      BY <1>8, <3>9, <3>11 DEF TaskTime
    <3> QED
      BY <1>1, <3>8, <3>12, StillAlike, QuietTime
  <2> QED
    BY <2>1, <2>2
<1> QED
  BY <1>12, <1>13

\* A task that sleeps waits for no queue.
LEMMA SleeperWaits ==
  ASSUME KernelInv, WaitInv, NEW u \in Tasks, pc[u] = "slept" \/ after[u] = "slept"
  PROVE  ~TriesAgain(u) /\ u \notin Members(k.pend) /\ \A e \in Events : u \notin Waits(k, e)
<1>1. CallState(pc[u], after[u], call[u])
  BY DEF KernelInv, InCall
<1>2. ~TriesAgain(u)
  BY <1>1 DEF CallState, TriesAgain, Leaving
<1> QED
  BY <1>2 DEF WaitInv

\* The clock stands still; tasks may be woken, and none is delayed.
Standing(x, y) ==
  /\ y.tick = x.tick /\ y.over = x.over /\ y.pended = x.pended
  /\ \A u \in Timed(y) : u \in Timed(x) /\ Left(y, u) = Left(x, u)

\* Waking tasks does not move the clock, and does not wake one that sleeps.
LEMMA ServedStanding ==
  ASSUME KernelInv, WaitInv, NEW e \in Events, NEW S, NEW y, Served(k, y, e, S)
  PROVE  /\ Standing(k, y)
         /\ \A u \in Tasks : pc[u] = "slept" \/ after[u] = "slept" => y.list[u] = k.list[u]
<1>1. \A u \in Tasks : pc[u] = "slept" \/ after[u] = "slept" => u \notin S
  BY SleeperWaits DEF Served
<1> QED
  BY <1>1 DEF Served, Standing

LEMMA WakeStanding ==
  ASSUME KernelInv, WaitInv, NEW e \in Events, NEW y, y = Wake(k, e)
  PROVE  /\ Standing(k, y)
         /\ \A u \in Tasks : pc[u] = "slept" \/ after[u] = "slept" => y.list[u] = k.list[u]
<1>1. k \in Kernels /\ KernelOk(k)
  BY DEF KernelInv, KernelTypes, WaitInv
<1>2. IF k.ev[e] = <<>> THEN y = k ELSE Served(k, y, e, {Head(k.ev[e])})
  BY <1>1, WakeOk
<1>3. y = k \/ \E S : Served(k, y, e, S)
  BY <1>2
<1>4. CASE y = k
  BY <1>4 DEF Standing
<1> QED
  BY <1>3, <1>4, ServedStanding

LEMMA ServedTime ==
  ASSUME KernelInv, WaitInv, TimeInv, NEW t \in Tasks, SendTry(t) \/ ReceiveTry(t)
  PROVE  TimeInv'
<1>1. Runs(t) /\ pc[t] \notin Leaving
  BY DEF SendTry, ReceiveTry, Leaving
<1>2. PICK e \in Events : k' = Wake(k, e)
  BY QueueAssumption DEF SendTry, ReceiveTry
<1>3. \E v : Returns(t, v)
  BY DEF SendTry, ReceiveTry
<1>4. Goes(t, "idle", "none", NoCall) /\ OwnTime(t, Unset, 0, 0)
  BY <1>1, <1>3, RunningTime, ReturnGoes, ReturnTime
<1>5. PICK y : y = k'
  OBVIOUS
<1>6. /\ Standing(k, y)
      /\ \A u \in Tasks : pc[u] = "slept" \/ after[u] = "slept" => y.list[u] = k.list[u]
  BY <1>2, <1>5, WakeStanding
<1>7. k.list[t] = "ready"
  BY <1>1, Untouched
<1>8. t \notin Timed(y)
  BY <1>6, <1>7 DEF Standing, Timed
<1>9. TaskTime(y, "idle", "none", NoCall, Unset, 0, 0, y.list[t])
  BY IdleTime
<1> QED
  BY <1>4, <1>5, <1>6, <1>8, <1>9, TimeKept DEF Standing

LEMMA UnlockTime ==
  ASSUME KernelInv, WaitInv, TimeInv, NEW t \in Tasks, UnlockTx(t) \/ UnlockRx(t)
  PROVE  TimeInv'
<1>1. Runs(t) /\ pc[t] \in Leaving /\ UNCHANGED <<after, call, xTimeOut, asked, waited>>
  BY DEF UnlockTx, UnlockRx, Leaving, timeVars
<1>2. PICK l \in Leaving : pc' = [pc EXCEPT ![t] = l]
  BY DEF UnlockTx, UnlockRx, Goto, Leaving
<1>3. PICK e \in Events : \E n \in Int : k' = UnlockWakes(k, e, n)
  BY QueueAssumption DEF UnlockTx, UnlockRx, KernelInv, KernelTypes
<1>4. PICK y : y = k'
  OBVIOUS
<1>5. \E S : Served(k, y, e, S)
  <2>1. PICK n \in Int : y = UnlockWakes(k, e, n)
    BY <1>3, <1>4
  <2>2. k \in Kernels /\ KernelOk(k)
    BY DEF KernelInv, KernelTypes, WaitInv
  <2>3. AsMany(k, y, e, Positive(n))
    BY <2>1, <2>2, UnlockOk
  <2> QED
    BY <2>3 DEF AsMany
<1>6. /\ Standing(k, y)
      /\ \A u \in Tasks : pc[u] = "slept" \/ after[u] = "slept" => y.list[u] = k.list[u]
  BY <1>5, ServedStanding
<1>7. Goes(t, l, after[t], call[t]) /\ OwnTime(t, xTimeOut[t], asked[t], waited[t])
  BY <1>1, <1>2, Unmoved, GoesBy, UnmovedTime
<1>8. t \in Timed(y) => Remains(y, t, call[t], asked[t], waited[t])
  BY <1>6, RemainsSame DEF TimeInv, Standing
<1>9. TaskTime(k, pc[t], after[t], call[t], xTimeOut[t], asked[t], waited[t], k.list[t])
  BY DEF TimeInv, TaskTimes
<1>10. TaskTime(k, l, after[t], call[t], xTimeOut[t], asked[t], waited[t], k.list[t])
  BY <1>1, <1>9 DEF TaskTime, Leaving, Waiting
<1>11. TaskTime(y, l, after[t], call[t], xTimeOut[t], asked[t], waited[t], y.list[t])
  BY <1>6, <1>10, TimeSame DEF Standing, Leaving
<1> QED
  BY <1>4, <1>6, <1>7, <1>8, <1>11, TimeKept DEF Standing

\* The task that runs is delayed by n ticks from now.
LEMMA DelayedOthers ==
  ASSUME NEW x, NEW y, NEW n, NEW b, Delayed(x, y, n, b), NEW t, x.cur = t
  PROVE  \A u \in Timed(y) : u # t => u \in Timed(x) /\ Left(y, u) = Left(x, u)
BY DEF Delayed, Timed, Left

LEMMA PlaceTime ==
  ASSUME KernelInv, WaitInv, TimeInv, NEW t \in Tasks, Place(t)
  PROVE  TimeInv'
<1>1. /\ k' \in Kernels /\ Delayed(k, k', call[t].ticks, TRUE)
      /\ k.cur = t /\ call[t] \in QueueCalls /\ call[t].ticks > 0 /\ pc[t] = "block"
      /\ Goes(t, "unlocktx", "blocked", call[t])
  BY PlacedOk
<1>2. PICK y : y = k'
  OBVIOUS
<1>3. PICK n \in Ticks : n = call[t].ticks
  BY <1>1 DEF QueueCalls
<1>4. /\ TaskTime(k, "block", "none", call[t], xTimeOut[t], asked[t], waited[t], "ready")
      /\ k \in Kernels
  <2>1. Runs(t) /\ pc[t] \notin Leaving
    BY <1>1 DEF Leaving, Place
  <2>2. /\ TaskTime(k, pc[t], after[t], call[t], xTimeOut[t], asked[t], waited[t], "ready")
        /\ after[t] = "none" /\ k \in Kernels
    BY <2>1, RunningTime
  <2> QED
    BY <1>1, <2>2
<1>5. OwnTime(t, xTimeOut[t], asked[t], waited[t])
  BY UnmovedTime DEF Place, timeVars
<1>6. y.tick = k.tick /\ y.over = k.over /\ y.pended = k.pended /\ y.pended \in Nat
  BY <1>1, <1>2 DEF Delayed, Kernels
<1>7. \A u \in Timed(y) : u # t => u \in Timed(k) /\ Left(y, u) = Left(k, u)
  <2>1. PICK b, m : Delayed(k, y, m, b)
    BY <1>1, <1>2, Zenon
  <2> QED
    BY <1>1, <2>1, DelayedOthers
<1>8. \A u \in Tasks \ {t} : y.list[u] = k.list[u]
  BY <1>1, <1>2 DEF Delayed
<1>9. ASSUME t \in Timed(y) PROVE Remains(y, t, call[t], asked[t], waited[t])
  <2>1. n # MAX_DELAY /\ Left(y, t) = n
    BY <1>1, <1>2, <1>3, <1>9 DEF Delayed, Timed
  <2>2. /\ Counts(k, n, xTimeOut[t], asked[t], waited[t]) /\ Since(k, xTimeOut[t].at) = 0
        /\ asked[t] # 0 /\ asked[t] \in Ticks /\ waited[t] \in Ticks
    BY <1>1, <1>3, <1>4, <2>1, SeenFacts DEF TaskTime, Waiting
  <2>3. Limited(k, n, xTimeOut[t], asked[t], waited[t])
    BY <1>1, <1>3, <2>1, <2>2, TickNumbers DEF Counts
  <2>4. asked[t] - waited[t] = (n - 0) - y.pended /\ asked[t] # MAX_DELAY
    BY <1>6, <2>2, <2>3 DEF Limited
  <2>5. n = y.pended + (asked[t] - waited[t])
    BY <1>6, <2>2, <2>4, TickNumbers
  <2> QED
    BY <2>1, <2>2, <2>4, <2>5 DEF Remains
<1>10. TaskTime(k, "unlocktx", "blocked", call[t], xTimeOut[t], asked[t], waited[t], "ready")
  BY <1>4 DEF TaskTime, Waiting
<1>11. TaskTime(y, "unlocktx", "blocked", call[t], xTimeOut[t], asked[t], waited[t], y.list[t])
  BY <1>6, <1>10, TimeSame
<1> QED
  BY <1>1, <1>2, <1>5, <1>6, <1>7, <1>8, <1>9, <1>11, TimeKept

LEMMA DelayTime ==
  ASSUME KernelInv, WaitInv, TimeInv, NEW t \in Tasks, NEW c \in Calls[t], vTaskDelay(t, c)
  PROVE  TimeInv'
<1>1. PICK n \in Ticks : n = c.ticks /\ n > 0
  BY SleepsOk
<1>2. PICK y : y = k'
  OBVIOUS
<1>3. PICK s \in Kernels : /\ Alike(k, s) /\ s.pended = k.pended /\ s.cur = t
                           /\ Delayed(s, y, n, FALSE)
  BY <1>1, <1>2, SleepsOk
<1>4. Goes(t, "resume", "slept", call[t]) /\ Runs(t) /\ pc[t] = "idle"
  BY SleepsOk
<1>5. /\ TaskTime(k, "idle", "none", call[t], xTimeOut[t], asked[t], waited[t], "ready")
      /\ k.pended = 0 /\ call[t] = NoCall
  BY <1>4, RunningTime DEF Leaving, Locked, CallState
<1>6. OwnTime(t, xTimeOut[t], n, 0)
  <2>1. UNCHANGED xTimeOut /\ asked' = [asked EXCEPT ![t] = n] /\ waited' = [waited EXCEPT ![t] = 0]
    BY <1>1 DEF vTaskDelay
  <2> QED
    <3>1. xTimeOut = [xTimeOut EXCEPT ![t] = xTimeOut[t]]
      BY DEF KernelInv, KernelTypes
    <3> QED
      BY <2>1, <3>1 DEF OwnTime
<1>7. y.tick = k.tick /\ y.over = k.over /\ y.pended = k.pended
  BY <1>3 DEF Delayed, Alike
<1>8. \A u \in Timed(y) : u # t => u \in Timed(k) /\ Left(y, u) = Left(k, u)
  <2>1. Timed(s) = Timed(k) /\ \A u : Left(s, u) = Left(k, u)
    BY <1>3 DEF Alike, Timed, Left
  <2> QED
    <3>1. PICK b : Delayed(s, y, n, b)
      BY <1>3, Zenon
    <3>2. \A u \in Timed(y) : u # t => u \in Timed(s) /\ Left(y, u) = Left(s, u)
      BY <1>3, <3>1, DelayedOthers
    <3> QED
      BY <2>1, <3>2
<1>9. \A u \in Tasks \ {t} : y.list[u] = k.list[u]
  BY <1>3 DEF Delayed, Alike
<1>10. t \in Timed(y) /\ Left(y, t) = n
  BY <1>3 DEF Delayed
<1>11. n \in Nat /\ n # 0 /\ 0 \in Ticks
  BY <1>1, TickNumbers DEF Ticks
<1>12. Remains(y, t, call[t], n, 0)
  <2>1. n = y.pended + (n - 0)
    BY <1>5, <1>7, <1>11
  <2> QED
    BY <1>5, <1>10, <1>11, <2>1 DEF Remains
<1>13. y.list[t] # "suspended" /\ y.list[t] # "ready"
  BY <1>10 DEF Timed
<1>14. TaskTime(y, "resume", "slept", call[t], xTimeOut[t], n, 0, y.list[t])
  BY <1>5, <1>11, <1>13 DEF TaskTime, Waiting
<1> QED
  BY <1>2, <1>4, <1>6, <1>7, <1>8, <1>9, <1>12, <1>14, TimeKept

\* The clock goes on by n ticks and tasks are woken: in time, or because of an event.
Passed(x, y, n) ==
  /\ ClockOn(x, y, n)
  /\ \A u \in Timed(y) : u \in Timed(x) /\ Left(y, u) = Left(x, u) - n
  /\ \A u \in Tasks \ Members(x.pend) :
       /\ x.list[u] # "suspended" => y.list[u] # "suspended"
       /\ y.list[u] = "ready" => x.list[u] = "ready" \/ (u \in Timed(x) /\ Left(x, u) <= n)

\* The ways in which time passes: ticks,
LEMMA TickedPassed ==
  ASSUME NEW x \in Kernels, NEW y, NEW n, Ticked(x, y, n)
  PROVE  Passed(x, y, n)
<1>1. \A u \in Timed(y) : u \in Timed(x)
  BY DEF Ticked, Timed
<1>2. \A u \in Timed(y) : y.list[u] # "ready"
  BY DEF Timed
<1>3. \A u \in Timed(y) : Left(y, u) = Left(x, u) - n
  BY <1>1, <1>2 DEF Ticked
<1>4. ASSUME NEW u \in Tasks
      PROVE  /\ x.list[u] # "suspended" => y.list[u] # "suspended"
             /\ y.list[u] = "ready" => x.list[u] = "ready" \/ (u \in Timed(x) /\ Left(x, u) <= n)
  <2>1. CASE u \in Timed(x)
    BY <2>1 DEF Ticked, Timed
  <2>2. CASE u \notin Timed(x)
    BY <2>2 DEF Ticked
  <2> QED
    BY <2>1, <2>2
<1> QED
  BY <1>1, <1>3, <1>4 DEF Passed, Ticked

\* no tick, or one that is pended,
LEMMA AlikePassed ==
  ASSUME NEW x \in Kernels, NEW y \in Kernels, Alike(x, y), KernelOk(x)
  PROVE  Passed(x, y, 0)
<1>1. y.tick = x.tick /\ y.over = x.over /\ y.list = x.list /\ y.wake = x.wake
  BY DEF Alike
<1>2. ClockOn(x, y, 0)
  BY <1>1, ClockStill
<1>3. Timed(y) = Timed(x) /\ \A u : Left(y, u) = Left(x, u)
  BY <1>1 DEF Timed, Left
<1>4. \A u \in Timed(x) : Left(x, u) \in Int
  BY LeftFacts DEF KernelOk
<1>5. \A u \in Timed(x) : Left(x, u) = Left(x, u) - 0
  BY <1>4
<1> QED
  BY <1>1, <1>2, <1>3, <1>5 DEF Passed

\* and those that are made up for in xTaskResumeAll.
LEMMA ReadiedPassed ==
  ASSUME NEW x \in Kernels, NEW r \in Kernels, NEW y, NEW n, Readied(x, r), Ticked(r, y, n)
  PROVE  Passed(x, y, n)
<1>1. Passed(r, y, n)
  BY TickedPassed
<1>2. Members(r.pend) = {}
  BY EmptyFacts DEF Readied
<1>3. \A u \in Tasks : u \notin Members(x.pend) =>
        r.list[u] = x.list[u] /\ r.wake[u] = x.wake[u] /\ (u \in Timed(r) <=> u \in Timed(x))
  BY DEF Readied, Timed
<1>4. \A u \in Timed(r) : u \in Tasks /\ u \notin Members(x.pend)
  BY DEF Readied, Timed
<1>5. \A u \in Timed(r) : u \in Timed(x) /\ Left(r, u) = Left(x, u)
  BY <1>3, <1>4 DEF Left, Readied
<1>6. \A a : Since(r, a) = Since(x, a)
  BY DEF Since, Readied
<1>7. ClockOn(x, y, n)
  BY <1>1, <1>6 DEF Passed, ClockOn, Readied
<1>8. \A u \in Timed(y) : u \in Timed(x) /\ Left(y, u) = Left(x, u) - n
  BY <1>1, <1>5 DEF Passed
<1>9. ASSUME NEW u \in Tasks, u \notin Members(x.pend)
      PROVE  /\ x.list[u] # "suspended" => y.list[u] # "suspended"
             /\ y.list[u] = "ready" => x.list[u] = "ready" \/ (u \in Timed(x) /\ Left(x, u) <= n)
  BY <1>1, <1>2, <1>3, <1>5, <1>9 DEF Passed
<1> QED
  BY <1>7, <1>8, <1>9 DEF Passed

\* What is left to a task when time has passed.
LEMMA RemainsOn ==
  ASSUME NEW x \in Kernels, NEW y \in Kernels, NEW m \in Nat, Passed(x, y, m), KernelOk(x),
         NEW t \in Timed(y), NEW c, NEW a \in Ticks, NEW w \in Ticks, NEW v \in Ticks,
         v - w = (m + y.pended) - x.pended, Remains(x, t, c, a, w)
  PROVE  Remains(y, t, c, a, v)
<1>1. Left(y, t) = Left(x, t) - m /\ t \in Timed(x)
  BY DEF Passed
<1>2. PICK n \in Int : n = Left(x, t)
  BY <1>1, LeftFacts DEF KernelOk
<1>3. PICK p \in Nat : p = x.pended
  BY DEF Kernels
<1>4. PICK q \in Nat : q = y.pended
  BY DEF Kernels
<1>5. n = p + (a - w) /\ v - w = (m + q) - p
  BY <1>2, <1>3, <1>4 DEF Remains
<1>6. n - m = q + (a - v)
  BY <1>5, TickNumbers
<1> QED
  BY <1>1, <1>2, <1>4, <1>6 DEF Remains

\* A task that sleeps is woken in time.
LEMMA SleepOn ==
  ASSUME NEW x \in Kernels, NEW y \in Kernels, NEW m \in Nat, Passed(x, y, m), KernelOk(x),
         NEW t \in Tasks \ Members(x.pend), NEW c, NEW a \in Ticks, NEW w \in Ticks, NEW v \in Ticks,
         v - w = (m + y.pended) - x.pended, w <= v, t \in Timed(x) => Remains(x, t, c, a, w),
         x.list[t] # "suspended", x.list[t] = "ready" => w >= a
  PROVE  y.list[t] # "suspended" /\ (y.list[t] = "ready" => v >= a)
<1>1. /\ y.list[t] # "suspended"
      /\ y.list[t] = "ready" => x.list[t] = "ready" \/ (t \in Timed(x) /\ Left(x, t) <= m)
  BY DEF Passed
<1>2. CASE x.list[t] = "ready"
  BY <1>1, <1>2, TickNumbers
<1>3. CASE t \in Timed(x) /\ Left(x, t) <= m
  <2>1. PICK n \in Int : n = Left(x, t)
    BY <1>3, LeftFacts DEF KernelOk
  <2>2. PICK p \in Nat : p = x.pended
    BY DEF Kernels
  <2>3. PICK q \in Nat : q = y.pended
    BY DEF Kernels
  <2>4. n = p + (a - w) /\ v - w = (m + q) - p /\ n <= m
    BY <1>3, <2>1, <2>2, <2>3 DEF Remains
  <2>5. v >= a
    BY <2>4, TickNumbers
  <2> QED
    BY <1>1, <2>5
<1> QED
  BY <1>1, <1>2, <1>3

\* The times of a task when time has passed.
LEMMA TimeOn ==
  ASSUME NEW x \in Kernels, NEW y \in Kernels, NEW m \in Nat, ClockOn(x, y, m),
         NEW l, NEW r, NEW c, NEW o, NEW a, NEW w, NEW q, NEW v \in Ticks, NEW p,
         TaskTime(x, l, r, c, o, a, w, q), c = NoCall \/ c \in QueueCalls,
         a = 0 => v = 0,
         c # NoCall /\ c.ticks = MAX_DELAY => v = 0,
         c # NoCall /\ c.ticks = 0 => v >= a,
         c # NoCall /\ c.ticks # MAX_DELAY /\ c.ticks # 0 /\ a # 0 => v - w = (m + y.pended) - x.pended,
         l \in {"place", "block"} => y.tick = x.tick,
         l = "slept" \/ r = "slept" => p # "suspended" /\ (p = "ready" => v >= a)
  PROVE  TaskTime(y, l, r, c, o, a, v, p)
<1>1. a \in Ticks /\ w \in Ticks /\ o \in Times
  BY DEF TaskTime
<1>2. ASSUME c # NoCall PROVE Counts(y, c.ticks, o, a, v)
  <2>1. PICK n \in Ticks : n = c.ticks
    BY <1>2 DEF QueueCalls
  <2>2. Counts(x, n, o, a, w)
    BY <1>2, <2>1 DEF TaskTime
  <2>3. ASSUME n # MAX_DELAY, n # 0, a # 0 PROVE Limited(y, n, o, a, v)
    <3>1. Limited(x, n, o, a, w) /\ v - w = (m + y.pended) - x.pended
      BY <1>2, <2>1, <2>2, <2>3 DEF Counts
    <3> QED
      BY <1>1, <3>1, LimitedOn
  <2>4. (n = MAX_DELAY => v = 0) /\ (n = 0 => v >= a)
    BY <1>2, <2>1
  <2> QED
    BY <2>1, <2>2, <2>3, <2>4 DEF Counts
<1>3. l \in {"place", "block"} => Since(y, o.at) = Since(x, o.at)
  BY DEF Since
<1> QED
  BY <1>1, <1>2, <1>3 DEF TaskTime

LEMMA ResumeTime ==
  ASSUME KernelInv, WaitInv, TimeInv, NEW t \in Tasks, Resume(t)
  PROVE  TimeInv'
<1>1. PICK y : y = k'
  OBVIOUS
<1>2. /\ y \in Kernels /\ y.pended = 0 /\ k \in Kernels /\ KernelOk(k)
      /\ \E r \in Kernels : Readied(k, r) /\ Ticked(r, y, k.pended)
  BY <1>1, ResumedOk DEF KernelInv, KernelTypes, WaitInv
<1>3. PICK m \in Nat : m = k.pended
  BY <1>2 DEF Kernels
<1>4. Passed(k, y, m)
  BY <1>2, <1>3, ReadiedPassed
<1>5. UNCHANGED <<xTimeOut, asked, waited, call>>
  BY DEF Resume, timeVars
<1>6. Goes(t, GoesOn(after[t]), "none", call[t]) /\ pc[t] = "resume" /\ after[t] \in Reasons /\ Runs(t)
  BY ResumeGoes
<1>7. \A u \in Tasks : pc[u] \notin {"place", "block"}
  BY <1>6, OnlyOne
<1>8. \A w \in Ticks : w - w = (m + y.pended) - k.pended /\ w <= w
  BY <1>2, <1>3, TickNumbers
<1>9. ASSUME NEW u \in Timed(y) PROVE Remains(y, u, call[u], asked[u], waited[u])
  <2>1. u \in Tasks /\ u \in Timed(k)
    BY <1>4 DEF Passed, Timed
  <2>2. Remains(k, u, call[u], asked[u], waited[u]) /\ asked[u] \in Ticks /\ waited[u] \in Ticks
    BY <2>1 DEF TimeInv
  <2> QED
    BY <1>2, <1>4, <1>8, <2>2, RemainsOn
<1>10. ASSUME NEW u \in Tasks
       PROVE  /\ TaskTime(y, pc[u], after[u], call[u], xTimeOut[u], asked[u], waited[u], y.list[u])
  <2>1. /\ TaskTime(k, pc[u], after[u], call[u], xTimeOut[u], asked[u], waited[u], k.list[u])
        /\ asked[u] \in Ticks /\ waited[u] \in Ticks
    BY DEF TimeInv, TaskTimes
  <2>2. call[u] = NoCall \/ call[u] \in QueueCalls
    BY DEF KernelInv, KernelTypes
  <2>3. /\ asked[u] = 0 => waited[u] = 0
        /\ call[u] # NoCall /\ call[u].ticks = MAX_DELAY => waited[u] = 0
        /\ call[u] # NoCall /\ call[u].ticks = 0 => waited[u] >= asked[u]
    BY <2>1 DEF TaskTime, Counts
  <2>4. ASSUME pc[u] = "slept" \/ after[u] = "slept"
        PROVE  y.list[u] # "suspended" /\ (y.list[u] = "ready" => waited[u] >= asked[u])
    <3>1. u \notin Members(k.pend)
      BY <2>4, SleeperWaits
    <3>2. k.list[u] # "suspended" /\ (k.list[u] = "ready" => waited[u] >= asked[u])
      BY <2>1, <2>4 DEF TaskTime
    <3>3. u \in Timed(k) => Remains(k, u, call[u], asked[u], waited[u])
      BY DEF TimeInv
    <3> QED
      BY <1>2, <1>4, <1>8, <2>1, <3>1, <3>2, <3>3, SleepOn
  <2> QED
    <3>1. ClockOn(k, y, m) /\ waited[u] - waited[u] = (m + y.pended) - k.pended
      BY <1>4, <1>8, <2>1 DEF Passed
    <3>2. PICK p : p = y.list[u]
      OBVIOUS
    <3>3. PICK q : q = k.list[u]
      OBVIOUS
    <3>4. pc[u] = "slept" \/ after[u] = "slept" => p # "suspended" /\ (p = "ready" => waited[u] >= asked[u])
      BY <2>4, <3>2
    <3>5. TaskTime(k, pc[u], after[u], call[u], xTimeOut[u], asked[u], waited[u], q)
      BY <2>1, <3>3
    <3>6. TaskTime(y, pc[u], after[u], call[u], xTimeOut[u], asked[u], waited[u], p)
      BY <1>2, <1>7, <2>1, <2>2, <2>3, <3>1, <3>4, <3>5, TimeOn
    <3> QED
      BY <3>2, <3>6
<1>11. TaskTime(y, GoesOn(after[t]), "none", call[t], xTimeOut[t], asked[t], waited[t], y.list[t])
  <2>1. TaskTime(y, "resume", after[t], call[t], xTimeOut[t], asked[t], waited[t], y.list[t])
    BY <1>6, <1>10
  <2>2. GoesOn(after[t]) \in {"try", "expired", "slept"}
    BY <1>6 DEF GoesOn, Reasons
  <2>3. /\ GoesOn(after[t]) = "expired" => after[t] = "expired"
        /\ GoesOn(after[t]) = "slept" => after[t] = "slept"
    BY <1>6 DEF GoesOn, Reasons
  <2> QED
    BY <2>1, <2>2, <2>3 DEF TaskTime, Waiting
<1>12. ASSUME NEW u \in Tasks PROVE TaskTimes(u)'
  <2>1. CASE u = t
    BY <1>1, <1>5, <1>6, <1>11, <2>1 DEF TaskTimes, Goes
  <2>2. CASE u # t
    BY <1>1, <1>5, <1>6, <1>10, <2>2 DEF TaskTimes, Goes, Own
  <2> QED
    BY <2>1, <2>2
<1> QED
  BY <1>1, <1>5, <1>9, <1>12 DEF TimeInv

\* An interrupt or a switch.
LEMMA StandingTime ==
  ASSUME TimeInv, UNCHANGED <<pc, after, call, xTimeOut, asked, waited>>, Standing(k, k'),
         \A u \in Tasks : pc[u] = "slept" \/ after[u] = "slept" => k'.list[u] = k.list[u]
  PROVE  TimeInv'
<1>1. PICK y : y = k'
  OBVIOUS
<1>2. ASSUME NEW u \in Timed(y) PROVE Remains(y, u, call[u], asked[u], waited[u])
  <2>1. u \in Timed(k) /\ Left(y, u) = Left(k, u) /\ y.pended = k.pended
    BY <1>1 DEF Standing
  <2> QED
    BY <2>1, RemainsSame DEF TimeInv
<1>3. ASSUME NEW u \in Tasks
      PROVE  TaskTime(y, pc[u], after[u], call[u], xTimeOut[u], asked[u], waited[u], y.list[u])
  <2>1. TaskTime(k, pc[u], after[u], call[u], xTimeOut[u], asked[u], waited[u], k.list[u])
    BY DEF TimeInv, TaskTimes
  <2> QED
    BY <1>1, <2>1, TimeSame DEF Standing
<1> QED
  BY <1>1, <1>2, <1>3 DEF TimeInv, TaskTimes

LEMMA IsrTime ==
  ASSUME KernelInv, WaitInv, TimeInv,
         (\E v \in IsrItems : xQueueGenericSendFromISR(v)) \/ xQueueReceiveFromISR
  PROVE  TimeInv'
<1>1. UNCHANGED <<pc, after, call, xTimeOut, asked, waited>>
  BY DEF xQueueGenericSendFromISR, xQueueReceiveFromISR, taskVars, timeVars
<1>2. UNCHANGED k \/ \E e \in Events : k' = Wake(k, e)
  BY QueueAssumption DEF xQueueGenericSendFromISR, xQueueReceiveFromISR
<1>3. PICK y : y = k'
  OBVIOUS
<1>4. /\ Standing(k, y)
      /\ \A u \in Tasks : pc[u] = "slept" \/ after[u] = "slept" => y.list[u] = k.list[u]
  <2>1. CASE UNCHANGED k
    BY <1>3, <2>1 DEF Standing
  <2>2. CASE \E e \in Events : k' = Wake(k, e)
    BY <1>3, <2>2, WakeStanding
  <2> QED
    BY <1>2, <2>1, <2>2
<1> QED
  BY <1>1, <1>3, <1>4, StandingTime

LEMMA SwitchTime ==
  ASSUME KernelInv, WaitInv, TimeInv, NEW t \in Tasks, xPortPendSVHandler(t)
  PROVE  TimeInv'
<1>1. UNCHANGED <<pc, after, call, xTimeOut, asked, waited>> /\ k' = vTaskSwitchContext(k, t)
  BY DEF xPortPendSVHandler, taskVars, timeVars
<1>2. PICK y : y = k'
  OBVIOUS
<1>3. Alike(k, y) /\ y.pended = k.pended
  BY <1>1, <1>2, SwitchAlike DEF KernelInv, KernelTypes
<1>4. Standing(k, y) /\ y.list = k.list
  BY <1>3 DEF Alike, Standing, Timed, Left
<1> QED
  BY <1>1, <1>2, <1>4, StandingTime

\* The clock of the kernel and the ticks that are pended, over a tick.
LEMMA TickPassed ==
  ASSUME KernelInv, WaitInv, xPortSysTickHandler, NEW y, y = k'
  PROVE  /\ y \in Kernels /\ k \in Kernels /\ KernelOk(k)
         /\ \E m \in Nat : Passed(k, y, m) /\ (m + y.pended) - k.pended = 1
         /\ \A u \in Tasks : pc[u] \in {"place", "block"} => y.tick = k.tick
<1>1. k \in Kernels /\ KernelOk(k) /\ y = xTaskIncrementTick(k) /\ k.susp \in Nat /\ k.pended \in Nat
  BY DEF KernelInv, KernelTypes, WaitInv, xPortSysTickHandler, Kernels
<1>2. /\ y \in Kernels
      /\ k.susp > 0 => Alike(k, y) /\ y.pended = k.pended + 1
      /\ ~(k.susp > 0) => Ticked(k, y, 1) /\ y.pended = k.pended
  BY <1>1, IncrementOk
<1>3. CASE k.susp > 0
  <2>1. Passed(k, y, 0) /\ y.tick = k.tick
    BY <1>1, <1>2, <1>3, AlikePassed DEF Alike
  <2>2. (0 + y.pended) - k.pended = 1
    BY <1>1, <1>2, <1>3
  <2> QED
    BY <1>1, <1>2, <2>1, <2>2
<1>4. CASE ~(k.susp > 0)
  <2>1. Passed(k, y, 1)
    BY <1>1, <1>2, <1>4, TickedPassed
  <2>2. (1 + y.pended) - k.pended = 1
    BY <1>1, <1>2, <1>4
  <2>3. \A u \in Tasks : pc[u] \notin {"place", "block"}
    BY <1>1, <1>4 DEF KernelInv, SuspendedOnce, Locked
  <2> QED
    BY <1>1, <1>2, <2>1, <2>2, <2>3
<1> QED
  BY <1>3, <1>4

LEMMA TickTime ==
  ASSUME KernelInv, WaitInv, TimeInv, xPortSysTickHandler
  PROVE  TimeInv'
<1>1. PICK y : y = k'
  OBVIOUS
<1>2. /\ y \in Kernels /\ k \in Kernels /\ KernelOk(k)
      /\ \A u \in Tasks : pc[u] \in {"place", "block"} => y.tick = k.tick
  BY <1>1, TickPassed
<1>3. PICK m \in Nat : Passed(k, y, m) /\ (m + y.pended) - k.pended = 1
  BY <1>1, TickPassed
<1>4. /\ UNCHANGED <<pc, after, call, xTimeOut, asked>>
      /\ waited' = [u \in Tasks |-> IF asked[u] = 0 \/ WaitsForever(u) THEN 0 ELSE waited[u] + 1]
      /\ \A u \in Tasks : waited[u] < MAX_DELAY
  BY DEF xPortSysTickHandler, taskVars
<1>5. ASSUME NEW u \in Tasks
      PROVE  /\ waited'[u] \in Ticks /\ asked[u] \in Ticks /\ waited[u] \in Ticks
             /\ asked[u] = 0 \/ WaitsForever(u) => waited'[u] = 0
             /\ ~(asked[u] = 0 \/ WaitsForever(u)) =>
                  /\ waited'[u] - waited[u] = 1 /\ waited[u] <= waited'[u]
                  /\ waited[u] >= asked[u] => waited'[u] >= asked[u]
  <2>1. asked[u] \in Ticks /\ waited[u] \in Ticks /\ waited[u] < MAX_DELAY
    BY <1>4 DEF TimeInv
  <2>2. waited'[u] = IF asked[u] = 0 \/ WaitsForever(u) THEN 0 ELSE waited[u] + 1
    BY <1>4
  <2> HIDE DEF WaitsForever
  <2> QED
    BY <2>1, <2>2, TickNumbers DEF Ticks
<1>6. ASSUME NEW u \in Timed(y) PROVE Remains(y, u, call[u], asked[u], waited'[u])
  <2>1. u \in Tasks /\ u \in Timed(k)
    BY <1>3 DEF Passed, Timed
  <2>2. Remains(k, u, call[u], asked[u], waited[u])
    BY <2>1 DEF TimeInv
  <2>3. ~(asked[u] = 0 \/ WaitsForever(u))
    BY <2>2 DEF Remains, WaitsForever
  <2>4. PICK v \in Ticks : v = waited'[u]
    BY <1>5, <2>1
  <2>5. v - waited[u] = (m + y.pended) - k.pended /\ asked[u] \in Ticks /\ waited[u] \in Ticks
    BY <1>3, <1>5, <2>1, <2>3, <2>4
  <2>6. Remains(y, u, call[u], asked[u], v)
    BY <1>2, <1>3, <2>2, <2>5, RemainsOn
  <2> QED
    BY <2>4, <2>6
<1>7. ASSUME NEW u \in Tasks
      PROVE  TaskTime(y, pc[u], after[u], call[u], xTimeOut[u], asked[u], waited'[u], y.list[u])
  <2>1. TaskTime(k, pc[u], after[u], call[u], xTimeOut[u], asked[u], waited[u], k.list[u])
    BY DEF TimeInv, TaskTimes
  <2>2. call[u] = NoCall \/ call[u] \in QueueCalls
    BY DEF KernelInv, KernelTypes
  <2>3. PICK v \in Ticks : v = waited'[u]
    BY <1>5
  <2>4. PICK a \in Ticks : a = asked[u]
    BY <1>5
  <2>5. PICK w \in Ticks : w = waited[u]
    BY <1>5
  <2>6. /\ a = 0 \/ WaitsForever(u) => v = 0
        /\ ~(a = 0 \/ WaitsForever(u)) => v - w = (m + y.pended) - k.pended /\ w <= v /\ (w >= a => v >= a)
    BY <1>3, <1>5, <2>3, <2>4, <2>5
  <2>7. call[u] # NoCall => Counts(k, call[u].ticks, xTimeOut[u], a, w)
    BY <2>1, <2>4, <2>5 DEF TaskTime
  <2>8. call[u] # NoCall /\ call[u].ticks = MAX_DELAY => v = 0
    BY <2>4, <2>6, <2>7 DEF Counts, WaitsForever
  <2>9. call[u] # NoCall /\ call[u].ticks = 0 => v >= a
    <3>1. CASE WaitsForever(u)
      <4>1. a = MAX_DELAY /\ w < MAX_DELAY
        BY <1>4, <2>4, <2>5, <3>1 DEF WaitsForever
      <4>2. ~(w >= a)
        BY <4>1, TickNumbers
      <4> QED
        BY <2>7, <4>2 DEF Counts
    <3>2. CASE a = 0
      BY <2>6, <3>2
    <3>3. CASE ~(a = 0 \/ WaitsForever(u))
      BY <2>6, <2>7, <3>3 DEF Counts
    <3> QED
      BY <3>1, <3>2, <3>3
  <2>10. call[u] # NoCall /\ call[u].ticks # MAX_DELAY /\ call[u].ticks # 0 /\ a # 0
           => v - w = (m + y.pended) - k.pended
    BY <2>4, <2>6, <2>7 DEF Counts, Limited, WaitsForever
  <2>11. PICK p : p = y.list[u]
    OBVIOUS
  <2>12. PICK q : q = k.list[u]
    OBVIOUS
  <2>13. ASSUME pc[u] = "slept" \/ after[u] = "slept"
         PROVE  p # "suspended" /\ (p = "ready" => v >= a)
    <3>1. u \notin Members(k.pend)
      BY <2>13, SleeperWaits
    <3>2. k.list[u] # "suspended" /\ (k.list[u] = "ready" => w >= a) /\ a # 0
      BY <2>1, <2>4, <2>5, <2>13 DEF TaskTime
    <3>3. u \in Timed(k) => Remains(k, u, call[u], a, w)
      BY <2>4, <2>5 DEF TimeInv
    <3>4. CallState(pc[u], after[u], call[u])
      BY DEF KernelInv, InCall
    <3>5. call[u] = NoCall
      BY <2>13, <3>4 DEF CallState
    <3>6. ~WaitsForever(u)
      BY <3>5 DEF WaitsForever
    <3>7. v - w = (m + y.pended) - k.pended /\ w <= v
      BY <2>6, <3>2, <3>6
    <3>8. y.list[u] # "suspended" /\ (y.list[u] = "ready" => v >= a)
      BY <1>2, <1>3, <3>1, <3>2, <3>3, <3>7, SleepOn
    <3> QED
      BY <2>11, <3>8
  <2>14. TaskTime(k, pc[u], after[u], call[u], xTimeOut[u], a, w, q) /\ ClockOn(k, y, m)
         /\ (pc[u] \in {"place", "block"} => y.tick = k.tick) /\ (a = 0 => v = 0)
    BY <1>2, <1>3, <2>1, <2>4, <2>5, <2>6, <2>12 DEF Passed
  <2>15. TaskTime(y, pc[u], after[u], call[u], xTimeOut[u], a, v, p)
    BY <1>2, <2>2, <2>8, <2>9, <2>10, <2>13, <2>14, TimeOn
  <2> QED
    BY <2>3, <2>4, <2>11, <2>15
<1>8. waited' \in [Tasks -> Ticks]
  BY <1>4, <1>5
<1> QED
  BY <1>1, <1>4, <1>6, <1>7, <1>8 DEF TimeInv, TaskTimes

LEMMA InitTimeInv == Init => TimeInv
<1> SUFFICES ASSUME Init PROVE TimeInv
  OBVIOUS
<1>1. /\ asked = [t \in Tasks |-> 0] /\ waited = [t \in Tasks |-> 0] /\ pc = [t \in Tasks |-> "idle"]
      /\ call = [t \in Tasks |-> NoCall] /\ xTimeOut = [t \in Tasks |-> Unset]
      /\ after = [t \in Tasks |-> "none"]
  BY DEF Init
<1>2. k.list = [t \in Tasks |-> "ready"]
  BY DEF Init
<1>3. Timed(k) = {}
  BY <1>2 DEF Timed
<1>4. 0 \in Ticks
  BY TickNumbers DEF Ticks
<1>5. \A t \in Tasks : TaskTimes(t)
  BY <1>1, IdleTime DEF TaskTimes
<1> QED
  BY <1>1, <1>3, <1>4, <1>5 DEF TimeInv

LEMMA NextTimeInv == KernelInv /\ WaitInv /\ TimeInv /\ [Next]_vars => TimeInv'
<1> SUFFICES ASSUME KernelInv, WaitInv, TimeInv, [Next]_vars PROVE TimeInv'
  OBVIOUS
<1>1. CASE UNCHANGED vars
  BY <1>1 DEF vars, taskVars, timeVars, TimeInv, TaskTimes
<1>2. ASSUME NEW t \in Tasks, TaskStep(t) PROVE TimeInv'
  <2>1. CASE \E c \in Calls[t] : Call(t, c) \/ vTaskDelay(t, c)
    BY <2>1, CallTime, DelayTime
  <2>2. CASE SendTry(t) \/ ReceiveTry(t)
    BY <2>2, ServedTime
  <2>3. CASE TryBlocks(t)
    BY <2>3, TryBlocksTime
  <2>4. CASE SuspendAll(t) \/ prvLockQueue(t) \/ NoLongerBlocks(t) \/ StillBlocks(t)
    BY <2>4, WalksTime
  <2>5. CASE xTaskCheckForTimeOut(t)
    BY <2>5, CheckTime
  <2>6. CASE Place(t)
    BY <2>6, PlaceTime
  <2>7. CASE UnlockTx(t) \/ UnlockRx(t)
    BY <2>7, UnlockTime
  <2>8. CASE Resume(t)
    BY <2>8, ResumeTime
  <2>9. CASE Expired(t)
    BY <2>9, ExpiredTime
  <2>10. CASE DelayReturns(t)
    <3>1. Runs(t) /\ pc[t] \notin Leaving /\ UNCHANGED k /\ Returns(t, ret[t])
      BY <2>10 DEF DelayReturns, Leaving
    <3> QED
      BY <3>1, ReturnsTime
  <2> QED
    BY <1>2, <2>1, <2>2, <2>3, <2>4, <2>5, <2>6, <2>7, <2>8, <2>9, <2>10 DEF TaskStep
<1>3. CASE \E t \in Tasks : xPortPendSVHandler(t)
  BY <1>3, SwitchTime
<1>4. CASE (\E v \in IsrItems : xQueueGenericSendFromISR(v)) \/ xQueueReceiveFromISR
  BY <1>4, IsrTime
<1>5. CASE xPortSysTickHandler
  BY <1>5, TickTime
<1> QED
  BY <1>1, <1>2, <1>3, <1>4, <1>5 DEF Next

\* A task in a list of delayed tasks has not waited as long as it asked for, when the
\* scheduler runs: for every length of the tick count, number of tasks and limits.
THEOREM WokenWhenDue == Spec => []WokenInTime
<1> DEFINE Inv == KernelInv /\ WaitInv /\ TimeInv
<1>1. Init => Inv
  BY InitKernelInv, InitWaitInv, InitTimeInv
<1>2. Inv /\ [Next]_vars => Inv'
  BY NextKernelInv, NextWaitInv, NextTimeInv
<1>3. Inv => WokenInTime
  <2> SUFFICES ASSUME Inv, NEW t \in Tasks, k.susp = 0, k.list[t] \in {"delayed", "overflow"}
               PROVE  waited[t] < asked[t]
    BY DEF WokenInTime
  <2>1. k \in Kernels /\ TimesOk(k) /\ k.pended = 0 /\ t \in Timed(k)
    BY DEF KernelInv, KernelTypes, WaitInv, KernelOk, Timed
  <2>2. PICK n \in Int : n = Left(k, t) /\ n > 0
    BY <2>1, LeftFacts
  <2>3. n = 0 + (asked[t] - waited[t]) /\ asked[t] \in Ticks /\ waited[t] \in Ticks
    BY <2>1, <2>2 DEF TimeInv, Remains
  <2> QED
    BY <2>2, <2>3, TickNumbers
<1> QED
  BY <1>1, <1>2, <1>3, PTL DEF Spec

\* The steps that give ret[t] another value, or end a delay.
LEMMA RefusedLate ==
  ASSUME KernelInv, WaitInv, TimeInv, NEW t \in Tasks, Runs(t), pc[t] \notin Leaving,
         call[t] \in QueueCalls, call[t].ticks = 0
  PROVE  waited[t] >= asked[t]
BY RunningTime, SeenFacts DEF TaskTime, Counts

\* ... or sleeps until its time is over.
LEMMA SleptLate ==
  ASSUME KernelInv, WaitInv, TimeInv, NEW t \in Tasks, Runs(t), pc[t] = "slept"
  PROVE  waited[t] >= asked[t]
BY RunningTime DEF TaskTime, Leaving

NotEarlyStep ==
  \A t \in Tasks : (\/ ret'[t] = "refused" /\ ret[t] = "none"
                    \/ pc[t] = "slept" /\ pc'[t] = "idle")
                   => waited[t] >= asked[t]

\* Each step that ends a call or a delay, in the light of the times.
LEMMA NextNotEarly ==
  KernelInv /\ QueueInv /\ WaitInv /\ TimeInv /\ [Next]_vars => NotEarlyStep
<1> SUFFICES ASSUME KernelInv, QueueInv, WaitInv, TimeInv, [Next]_vars, NEW t \in Tasks,
                    \/ ret'[t] = "refused" /\ ret[t] = "none"
                    \/ pc[t] = "slept" /\ pc'[t] = "idle"
             PROVE  waited[t] >= asked[t]
  BY DEF NotEarlyStep
<1>1. ASSUME NEW u \in Tasks, Runs(u), UNCHANGED ret \/ \E v : ret' = [ret EXCEPT ![u] = v],
             \E l : pc' = [pc EXCEPT ![u] = l]
      PROVE  u = t
  BY <1>1 DEF KernelInv, KernelTypes
<1>2. ASSUME TaskStep(t) PROVE waited[t] >= asked[t]
  <2>1. CASE TryBlocks(t)
    <3>1. Runs(t) /\ pc[t] = "try" /\ call[t].ticks = 0
      BY <2>1 DEF TryBlocks
    <3>2. call[t] \in QueueCalls
      BY <3>1, Running DEF CallState, Leaving
    <3> QED
      BY <3>1, <3>2, RefusedLate DEF Leaving
  <2>2. CASE Expired(t)
    <3>1. Runs(t) /\ pc[t] = "expired"
      BY <2>2 DEF Expired
    <3>2. call[t] \in QueueCalls /\ call[t].ticks = 0
      BY <3>1, Running, RunningTime DEF CallState, Leaving, TaskTime
    <3> QED
      BY <3>1, <3>2, RefusedLate DEF Leaving
  <2>3. CASE DelayReturns(t)
    BY <2>3, SleptLate DEF DelayReturns
  <2>4. CASE SendTry(t)
    <3>1. ret' = [ret EXCEPT ![t] = "ok"] /\ pc[t] = "try"
      BY <2>4 DEF SendTry, Returns
    <3> QED
      BY <3>1 DEF KernelInv, KernelTypes
  <2>5. CASE ReceiveTry(t)
    <3>1. PICK v : v = storage[pcReadFrom']
      OBVIOUS
    <3>2. v \in Items /\ pc[t] = "try" /\ ret' = [ret EXCEPT ![t] = v]
      BY <2>5, <3>1, AdvanceIs DEF ReceiveTry, Returns, QueueInv, prvCopyDataFromQueue
    <3>3. v # "refused"
      BY <3>2, QueueAssumption
    <3> QED
      BY <3>2, <3>3 DEF KernelInv, KernelTypes
  <2>6. CASE \E c \in Calls[t] : Call(t, c)
    <3>1. ret' = [ret EXCEPT ![t] = "none"] /\ pc[t] = "idle"
      BY <2>6 DEF Call
    <3> QED
      BY <3>1 DEF KernelInv, KernelTypes
  <2>7. CASE \/ \E c \in Calls[t] : vTaskDelay(t, c)
             \/ SuspendAll(t) \/ prvLockQueue(t) \/ xTaskCheckForTimeOut(t) \/ NoLongerBlocks(t)
             \/ StillBlocks(t) \/ Place(t) \/ UnlockTx(t) \/ UnlockRx(t) \/ Resume(t)
    <3>1. UNCHANGED ret /\ pc[t] # "slept"
      BY <2>7 DEF vTaskDelay, SuspendAll, prvLockQueue, xTaskCheckForTimeOut, NoLongerBlocks,
        StillBlocks, Place, UnlockTx, UnlockRx, Resume
    <3> QED
      BY <3>1
  <2> QED
    BY <1>2, <2>1, <2>2, <2>3, <2>4, <2>5, <2>6, <2>7 DEF TaskStep
<1>3. ASSUME NEW u \in Tasks, TaskStep(u) PROVE waited[t] >= asked[t]
  <2>1. Runs(u)
    BY <1>3 DEF TaskStep, Call, vTaskDelay, SendTry, ReceiveTry, TryBlocks, SuspendAll, prvLockQueue,
      xTaskCheckForTimeOut, NoLongerBlocks, StillBlocks, Place, UnlockTx, UnlockRx, Resume, Expired,
      DelayReturns
  <2>2. UNCHANGED ret \/ \E v : ret' = [ret EXCEPT ![u] = v]
    BY <1>3 DEF TaskStep, Call, vTaskDelay, SendTry, ReceiveTry, TryBlocks, SuspendAll, prvLockQueue,
      xTaskCheckForTimeOut, NoLongerBlocks, StillBlocks, Place, UnlockTx, UnlockRx, Resume, Expired,
      DelayReturns, Returns
  <2>3. \E l : pc' = [pc EXCEPT ![u] = l]
    BY <1>3 DEF TaskStep, Call, vTaskDelay, SendTry, ReceiveTry, TryBlocks, SuspendAll, prvLockQueue,
      xTaskCheckForTimeOut, NoLongerBlocks, StillBlocks, Place, UnlockTx, UnlockRx, Resume, Expired,
      DelayReturns, Returns, Goto
  <2> QED
    BY <1>1, <1>2, <1>3, <2>1, <2>2, <2>3
<1>4. ASSUME UNCHANGED <<pc, ret>> PROVE FALSE
  BY <1>4
<1> QED
  BY <1>3, <1>4 DEF Next, vars, taskVars, xPortPendSVHandler, xPortSysTickHandler,
    xQueueGenericSendFromISR, xQueueReceiveFromISR

\* No call that may wait is refused, and no delay ends, before the limit it asked for,
\* whatever wakes the task in between and however often it waits again.
THEOREM NeverEarly == Spec => NotEarly
<1> DEFINE Inv == KernelInv /\ QueueInv /\ WaitInv /\ TimeInv
<1>1. Init => Inv
  BY InitKernelInv, FifoInit, InitWaitInv, InitTimeInv
<1>2. Inv /\ [Next]_vars => Inv'
  BY NextKernelInv, FifoStep, NextWaitInv, NextTimeInv
<1>3. Inv /\ [Next]_vars => [NotEarlyStep]_vars
  BY NextNotEarly
<1>4. NotEarly <=> [][NotEarlyStep]_vars
  BY DEF NotEarly, NotEarlyStep
<1> QED
  BY <1>1, <1>2, <1>3, <1>4, PTL DEF Spec

=============================================================================
