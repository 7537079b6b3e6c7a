---------------------------- MODULE LevelProofs -----------------------------
(***************************************************************************)
(* Proofs that mlfq.py (M), whatever the workload and options, neither     *)
(* loses nor doubles a job, and that no job games it: at a priority above  *)
(* the lowest it runs for its allotment of slices at most (Rule 4), or     *)
(* with -S between two I/Os.                                               *)
(***************************************************************************)
EXTENDS SchedProofs

-----------------------------------------------------------------------------
(* Recursions, step by step. *)

\* A recursion whose k-th value is in Steps[k].
LEMMA Loop ==
  ASSUME NEW n \in Nat, NEW V, NEW Steps \in [0..n -> SUBSET V], NEW start \in Steps[0], NEW g,
         \A k \in 1..n : \A v \in Steps[k - 1] : g[<<k, v>>] \in Steps[k]
  PROVE  \E W \in [0..n -> V] : Solves(n, start, g, W) /\ \A k \in 0..n : W[k] \in Steps[k]
<1> DEFINE f == [e \in (1..n) \X V |-> IF g[e] \in V THEN g[e] ELSE start]
<1>1. 0 \in 0..n /\ start \in V OBVIOUS
<1>2. \A k \in 1..n, v \in V : f[<<k, v>>] = IF g[<<k, v>>] \in V THEN g[<<k, v>>] ELSE start OBVIOUS
<1>3. \A k \in 1..n, v \in V : f[<<k, v>>] \in V BY <1>1, <1>2
<1> HIDE DEF f
<1>4. PICK W \in [0..n -> V] : Solves(n, start, f, W) BY <1>1, <1>3, Solvable
<1> DEFINE Q == {k \in 0..n : W[k] \in Steps[k]}
<1>5. 0 \in Q BY <1>1, <1>4 DEF Solves
<1>6. ASSUME NEW k \in 1..n, k - 1 \in Q PROVE k \in Q /\ W[k] = g[<<k, W[k - 1]>>]
  <2>1. k \in 0..n /\ k # 0 /\ k - 1 \in 0..n OBVIOUS
  <2>2. W[k] = f[<<k, W[k - 1]>>] BY <1>4, <2>1 DEF Solves
  <2>3. W[k - 1] \in Steps[k - 1] /\ W[k - 1] \in V BY <1>6, <2>1
  <2>4. g[<<k, W[k - 1]>>] \in Steps[k] /\ Steps[k] \subseteq V BY <2>1, <2>3
  <2>5. f[<<k, W[k - 1]>>] = g[<<k, W[k - 1]>>] BY <1>2, <2>3, <2>4
  <2> QED BY <2>1, <2>2, <2>4, <2>5
<1>7. \A k \in 0..n : k \in Q
  <2> HIDE DEF Q
  <2> QED BY <1>5, <1>6, Climb
<1>8. Solves(n, start, g, W)
  <2>1. ASSUME NEW k \in 0..n PROVE W[k] = IF k = 0 THEN start ELSE g[<<k, W[k - 1]>>]
    <3>1. CASE k = 0 BY <1>1, <1>4, <3>1 DEF Solves
    <3>2. CASE k # 0
      <4>1. k \in 1..n /\ k - 1 \in 0..n BY <3>2
      <4> HIDE DEF Q
      <4>2. k - 1 \in Q BY <1>7, <4>1
      <4> QED BY <1>6, <3>2, <4>1, <4>2
    <3> QED BY <3>1, <3>2
  <2>2. W = [k \in 0..n |-> W[k]] OBVIOUS
  <2> QED BY <2>1, <2>2 DEF Solves
<1> QED BY <1>7, <1>8

\* Any such recursion stays in its steps.
LEMMA LoopIs ==
  ASSUME NEW n \in Nat, NEW Steps, NEW Z, Z[0] \in Steps[0],
         \A k \in 1..n : Z[k - 1] \in Steps[k - 1] => Z[k] \in Steps[k]
  PROVE  \A k \in 0..n : Z[k] \in Steps[k]
<1> DEFINE Q == {k \in 0..n : Z[k] \in Steps[k]}
<1>1. 0 \in Q OBVIOUS
<1>2. ASSUME NEW k \in 1..n, k - 1 \in Q PROVE k \in Q
  <2>1. k \in 0..n /\ k - 1 \in 0..n OBVIOUS
  <2> QED BY <1>2, <2>1
<1> HIDE DEF Q
<1>3. \A k \in 0..n : k \in Q BY <1>1, <1>2, Climb
<1> QED BY <1>3 DEF Q

-----------------------------------------------------------------------------
(* Sequences that list the members of a set, each once. *)

\* s lists the members of T, each once.
Lists(s, T) ==
  /\ s \in Seq(T)
  /\ \A x \in T : \E k \in 1..Len(s) : s[k] = x
  /\ \A k, l \in 1..Len(s) : s[k] = s[l] => k = l

\* No set but the empty one is listed by nothing.
LEMMA ListsNone == Lists(<<>>, {})
BY DEF Lists
LEMMA ListsEmpty == ASSUME NEW T, Lists(<<>>, T) PROVE T = {}
BY DEF Lists
\* The first of a list, and the rest.
LEMMA ListsTail ==
  ASSUME NEW T, NEW s, Lists(s, T), s # <<>>
  PROVE  Head(s) \in T /\ Lists(Tail(s), T \ {Head(s)})
<1> DEFINE n == Len(s)
           t == Tail(s)
<1>1. s \in Seq(T) /\ n \in Nat /\ n > 0 BY DEF Lists
<1>2. Head(s) = s[1] /\ t \in Seq(T) /\ Len(t) = n - 1 /\ \A k \in 1..n - 1 : t[k] = s[k + 1] BY <1>1
<1>3. \A k \in 1..n : s[k] \in T BY <1>1
<1>4. \A k, l \in 1..n : s[k] = s[l] => k = l BY DEF Lists
<1>5. \A x \in T : \E k \in 1..n : s[k] = x BY DEF Lists
<1>6. Head(s) \in T BY <1>1, <1>2, <1>3
<1> HIDE DEF n, t
<1>7. ASSUME NEW k \in 1..n - 1 PROVE t[k] \in T \ {Head(s)}
  <2>1. k + 1 \in 1..n /\ 1 \in 1..n /\ k + 1 # 1 BY <1>1
  <2> QED BY <1>2, <1>3, <1>4, <2>1
<1>8. t \in Seq(T \ {Head(s)}) BY <1>1, <1>2, <1>7
<1>9. ASSUME NEW x \in T \ {Head(s)} PROVE \E k \in 1..n - 1 : t[k] = x
  <2>1. PICK k \in 1..n : s[k] = x BY <1>5
  <2>2. k # 1 BY <1>2, <2>1
  <2>3. k - 1 \in 1..n - 1 /\ (k - 1) + 1 = k BY <1>1, <2>2
  <2>4. t[k - 1] = x BY <1>2, <2>1, <2>3
  <2> QED BY <2>3, <2>4
<1>10. ASSUME NEW k \in 1..n - 1, NEW l \in 1..n - 1, t[k] = t[l] PROVE k = l
  <2>1. k + 1 \in 1..n /\ l + 1 \in 1..n BY <1>1
  <2>2. k + 1 = l + 1 BY <1>2, <1>4, <1>10, <2>1
  <2> QED BY <2>2
<1>11. Lists(t, T \ {Head(s)}) BY <1>2, <1>8, <1>9, <1>10 DEF Lists
<1> QED BY <1>6, <1>11 DEF t

\* Two lists of different things, one after the other.
LEMMA ListsJoin ==
  ASSUME NEW T, NEW s, Lists(s, T), NEW R, NEW t, Lists(t, R), T \cap R = {}
  PROVE  Lists(s \o t, T \cup R)
<1> DEFINE m == Len(s)
           n == Len(t)
           u == s \o t
<1>1. s \in Seq(T) /\ t \in Seq(R) /\ m \in Nat /\ n \in Nat BY DEF Lists
<1>2. s \in Seq(T \cup R) /\ t \in Seq(T \cup R) BY <1>1
<1>3. /\ u \in Seq(T \cup R) /\ Len(u) = m + n
      /\ \A k \in 1..m + n : u[k] = IF k <= m THEN s[k] ELSE t[k - m]
  BY <1>2
<1>4. /\ \A k \in 1..m : s[k] \in T
      /\ \A k \in 1..n : t[k] \in R
  BY <1>1
<1>5. /\ \A k, l \in 1..m : s[k] = s[l] => k = l
      /\ \A k, l \in 1..n : t[k] = t[l] => k = l
      /\ \A x \in T : \E k \in 1..m : s[k] = x
      /\ \A x \in R : \E k \in 1..n : t[k] = x
  BY DEF Lists
<1> HIDE DEF m, n, u
<1>6. ASSUME NEW x \in T \cup R PROVE \E k \in 1..m + n : u[k] = x
  <2>1. CASE x \in T
    <3>1. PICK k \in 1..m : s[k] = x BY <1>5, <2>1
    <3>2. k \in 1..m + n /\ k <= m BY <1>1
    <3> QED BY <1>3, <3>1, <3>2
  <2>2. CASE x \in R
    <3>1. PICK k \in 1..n : t[k] = x BY <1>5, <2>2
    <3>2. k + m \in 1..m + n /\ ~(k + m <= m) /\ (k + m) - m = k BY <1>1
    <3>3. u[k + m] = x BY <1>3, <3>1, <3>2
    <3> QED BY <3>2, <3>3
  <2> QED BY <2>1, <2>2
<1>7. ASSUME NEW k \in 1..m + n, NEW l \in 1..m + n, u[k] = u[l] PROVE k = l
  <2>1. (k <= m => k \in 1..m) /\ (~(k <= m) => k - m \in 1..n) BY <1>1
  <2>2. (l <= m => l \in 1..m) /\ (~(l <= m) => l - m \in 1..n) BY <1>1
  <2>3. CASE k <= m /\ l <= m BY <1>3, <1>5, <1>7, <2>1, <2>2, <2>3
  <2>4. CASE ~(k <= m) /\ ~(l <= m)
    <3>1. k - m = l - m BY <1>3, <1>5, <1>7, <2>1, <2>2, <2>4
    <3> QED BY <1>1, <3>1
  <2>5. CASE k <= m /\ ~(l <= m)
    <3>1. u[k] \in T /\ u[l] \in R BY <1>3, <1>4, <2>1, <2>2, <2>5
    <3> QED BY <1>7, <3>1
  <2>6. CASE ~(k <= m) /\ l <= m
    <3>1. u[k] \in R /\ u[l] \in T BY <1>3, <1>4, <2>1, <2>2, <2>6
    <3> QED BY <1>7, <3>1
  <2> QED BY <2>3, <2>4, <2>5, <2>6
<1>8. Lists(u, T \cup R) BY <1>3, <1>6, <1>7 DEF Lists
<1> QED BY <1>8 DEF u

\* One thing more, last or first.
LEMMA ListsMore ==
  ASSUME NEW T, NEW s, Lists(s, T), NEW x, x \notin T
  PROVE  Lists(Append(s, x), T \cup {x}) /\ Lists(<<x>> \o s, T \cup {x})
<1>1. Lists(<<x>>, {x}) BY DEF Lists
<1>2. T \cap {x} = {} /\ {x} \cap T = {} /\ {x} \cup T = T \cup {x} OBVIOUS
<1>3. Lists(s \o <<x>>, T \cup {x}) BY <1>1, <1>2, ListsJoin
<1>4. Lists(<<x>> \o s, {x} \cup T) BY <1>1, <1>2, ListsJoin
<1>5. Append(s, x) = s \o <<x>>
  <2>1. s \in Seq(T \cup {x})
    <3>1. s \in Seq(T) BY DEF Lists
    <3> QED BY <3>1
  <2> QED BY <2>1
<1> QED BY <1>2, <1>3, <1>4, <1>5

-----------------------------------------------------------------------------
(* mlfq.py: a job's priority, its slice and its allotment. *)

\* The options o, with priorities up to h.
OptIs(o, h) ==
  /\ h \in Nat /\ o.quantum \in [0..h -> Nat \ {0}] /\ o.allotment \in [0..h -> Int]
  /\ \A q \in 1..h : o.allotment[q] > 0
  /\ o.ioTime \in Nat /\ M!HiQueue(o) = h
Infos(h) == [currPri : 0..h, ticksLeft : Int, allotLeft : Int, runTime : Nat, timeLeft : Nat,
             ioFreq : Nat, doingIO : BOOLEAN]
\* What the job has run at its priority and may still run is at most its allotment of slices.
Within(o, info, r) ==
  /\ info.timeLeft <= info.runTime
  /\ info.timeLeft > 0 => info.ticksLeft > 0
  /\ info.currPri > 0 => r <= o.quantum[info.currPri] * o.allotment[info.currPri]
  /\ info.currPri > 0 /\ info.timeLeft > 0 =>
       /\ info.allotLeft > 0
       /\ r + (info.allotLeft - 1) * o.quantum[info.currPri] + info.ticksLeft
            <= o.quantum[info.currPri] * o.allotment[info.currPri]

\* So are all options.
LEMMA OptHolds == ASSUME NEW o \in MLFQOptions PROVE \E h : OptIs(o, h)
<1>1. PICK h \in DOMAIN o.quantum :
        /\ h \in Nat /\ o.quantum \in [0..h -> Nat \ {0}] /\ o.allotment \in [0..h -> Int]
        /\ \A q \in 1..h : o.allotment[q] > 0
        /\ o.ioTime \in Nat
  BY MLFQAssumption
<1>2. DOMAIN o.quantum = 0..h BY <1>1
<1>3. M!HiQueue(o) = h
  <2>1. h \in 0..h /\ \A y \in 0..h : h >= y BY <1>1
  <2>2. \A x \in 0..h : (\A y \in 0..h : x >= y) => x = h BY <1>1
  <2>3. M!HiQueue(o) = CHOOSE x \in 0..h : \A y \in 0..h : x >= y BY <1>2 DEF M!HiQueue, M!Max
  <2> QED BY <2>1, <2>2, <2>3
<1> QED BY <1>1, <1>3 DEF OptIs

\* A description, field by field.
Described(info, pri, ticks, allot, run, left, freq, io) ==
  info = [currPri |-> pri, ticksLeft |-> ticks, allotLeft |-> allot, runTime |-> run, timeLeft |-> left,
          ioFreq |-> freq, doingIO |-> io]
\* Its fields are of their types, and no other record is described so.
LEMMA InfoIs ==
  ASSUME NEW h, NEW info \in Infos(h)
  PROVE  /\ Described(info, info.currPri, info.ticksLeft, info.allotLeft, info.runTime, info.timeLeft,
                   info.ioFreq, info.doingIO)
         /\ info.currPri \in 0..h /\ info.ticksLeft \in Int /\ info.allotLeft \in Int /\ info.runTime \in Nat
         /\ info.timeLeft \in Nat /\ info.ioFreq \in Nat /\ info.doingIO \in BOOLEAN
BY DEF Infos, Described
LEMMA IsInfo ==
  ASSUME NEW pri, NEW ticks, NEW allot, NEW run, NEW left, NEW freq, NEW io, NEW info,
         Described(info, pri, ticks, allot, run, left, freq, io)
  PROVE  /\ info.currPri = pri /\ info.ticksLeft = ticks /\ info.allotLeft = allot /\ info.runTime = run
         /\ info.timeLeft = left /\ info.ioFreq = freq /\ info.doingIO = io
BY DEF Described
LEMMA TypedInfo ==
  ASSUME NEW h, NEW pri \in 0..h, NEW ticks \in Int, NEW allot \in Int, NEW run \in Nat, NEW left \in Nat,
         NEW freq \in Nat, NEW io \in BOOLEAN, NEW info, Described(info, pri, ticks, allot, run, left, freq, io)
  PROVE  info \in Infos(h)
BY DEF Infos, Described
\* One field is changed.
LEMMA Changed ==
  ASSUME NEW pri, NEW ticks, NEW allot, NEW run, NEW left, NEW freq, NEW io, NEW v, NEW info,
         Described(info, pri, ticks, allot, run, left, freq, io)
  PROVE  /\ Described([info EXCEPT !.currPri = v], v, ticks, allot, run, left, freq, io)
         /\ Described([info EXCEPT !.ticksLeft = v], pri, v, allot, run, left, freq, io)
         /\ Described([info EXCEPT !.allotLeft = v], pri, ticks, v, run, left, freq, io)
         /\ Described([info EXCEPT !.timeLeft = v], pri, ticks, allot, run, v, freq, io)
         /\ Described([info EXCEPT !.doingIO = v], pri, ticks, allot, run, left, freq, v)
BY DEF Described

\* A job that is put at a priority starts afresh there.
LEMMA AtPriorityIs ==
  ASSUME NEW pri, NEW ticks, NEW allot, NEW run, NEW left, NEW freq, NEW io, NEW info,
         Described(info, pri, ticks, allot, run, left, freq, io), NEW q, NEW o
  PROVE  Described(M!AtPriority(info, q, o), q, o.quantum[q], o.allotment[q], run, left, freq, io)
<1> DEFINE a == o.quantum[q]
           b == o.allotment[q]
<1>1. M!AtPriority(info, q, o) = [info EXCEPT !.currPri = q, !.ticksLeft = a, !.allotLeft = b]
  BY DEF M!AtPriority
<1> HIDE DEF a, b
<1>2. [info EXCEPT !.currPri = q, !.ticksLeft = a, !.allotLeft = b] =
        [[[info EXCEPT !.currPri = q] EXCEPT !.ticksLeft = a] EXCEPT !.allotLeft = b]
  OBVIOUS
<1>3. Described([info EXCEPT !.currPri = q], q, ticks, allot, run, left, freq, io) BY Changed
<1>4. Described([[info EXCEPT !.currPri = q] EXCEPT !.ticksLeft = a], q, a, allot, run, left, freq, io)
  BY <1>3, Changed
<1>5. Described([[[info EXCEPT !.currPri = q] EXCEPT !.ticksLeft = a] EXCEPT !.allotLeft = b], q, a, b, run, left, freq, io)
  BY <1>4, Changed
<1>6. Described(M!AtPriority(info, q, o), q, a, b, run, left, freq, io) BY <1>1, <1>2, <1>5
<1> QED BY <1>6 DEF a, b

\* The allotment of a job that starts afresh is not used up.
LEMMA FreshWithin ==
  ASSUME NEW o, NEW h, OptIs(o, h), NEW q \in 0..h, NEW run, NEW left, NEW freq, NEW io, left <= run, NEW info,
         Described(info, q, o.quantum[q], o.allotment[q], run, left, freq, io)
  PROVE  Within(o, info, 0)
<1> DEFINE Q == o.quantum[q]
           A == o.allotment[q]
<1>1. h \in Nat /\ Q \in Nat /\ Q > 0 /\ A \in Int /\ (q > 0 => A > 0) BY DEF OptIs
<1>2. q > 0 => 0 <= Q * A /\ 0 + (A - 1) * Q + Q <= Q * A
  <2> HIDE DEF Q, A
  <2>1. (A - 1) * Q + Q = A * Q BY <1>1
  <2>2. A * Q = Q * A BY <1>1
  <2>3. A > 0 => 0 <= A * Q BY <1>1
  <2> QED BY <1>1, <2>1, <2>2, <2>3
<1>3. Described(info, q, Q, A, run, left, freq, io) OBVIOUS
<1>4. o.quantum[q] = Q /\ o.allotment[q] = A OBVIOUS
<1> HIDE DEF Q, A
<1>5. info.currPri = q /\ info.ticksLeft = Q /\ info.allotLeft = A /\ info.timeLeft = left /\ info.runTime = run
  BY <1>3, IsInfo
<1> QED BY <1>1, <1>2, <1>4, <1>5 DEF Within

\* out is what a tick makes of info, and s of the r ticks it has run at its priority.
Ticked(info, out, r, s) ==
  /\ out = M!AfterTick(info, info.currPri)
  /\ s = IF out.currPri = info.currPri /\ ~(out.doingIO /\ options.stay) THEN r + 1 ELSE 0
\* A tick takes one from what the job may still run at its priority.
LEMMA TickIs ==
  ASSUME NEW h, OptIs(options, h), NEW info \in Infos(h), NEW r \in Nat, Within(options, info, r), info.timeLeft > 0,
         info.doingIO = FALSE,
         NEW out, NEW s, Ticked(info, out, r, s)
  PROVE  /\ out \in Infos(h) /\ s \in Nat /\ Within(options, out, s)
         /\ out.timeLeft = info.timeLeft - 1 /\ (out.timeLeft = 0 => out.doingIO = FALSE)
         /\ (out.currPri # info.currPri => info.ticksLeft = 1)
<1> DEFINE q == info.currPri
           Q == options.quantum[q]
           A == options.allotment[q]
           tk == info.ticksLeft
           al == info.allotLeft
           rt == info.runTime
           tl == info.timeLeft
           fr == info.ioFreq
           down == IF q > 0 THEN q - 1 ELSE q
           k2 == tk - 1
           l2 == tl - 1
           no == FALSE
           yes == TRUE
           ticked == [info EXCEPT !.timeLeft = @ - 1, !.ticksLeft = @ - 1]
           io == M!IssuesIO(ticked)
           rested == IF io THEN [M!Rested(ticked, q) EXCEPT !.doingIO = TRUE] ELSE ticked
           slept == io /\ options.stay
           tk1 == IF slept THEN Q ELSE k2
           al1 == IF slept THEN A ELSE al
           a2 == al1 - 1
<1>1. /\ Described(info, q, tk, al, rt, tl, fr, no)
      /\ q \in 0..h /\ tk \in Int /\ al \in Int /\ rt \in Nat /\ tl \in Nat /\ fr \in Nat
  BY InfoIs
<1>2. /\ h \in Nat /\ Q \in Nat /\ Q > 0 /\ A \in Int /\ (q > 0 => A > 0) /\ down \in 0..h /\ options.quantum[down] > 0
      /\ options.quantum[down] \in Nat /\ options.allotment[down] \in Int
  <2>1. h \in Nat /\ down \in 0..h BY <1>1 DEF OptIs
  <2>2. \A p \in 0..h : /\ options.quantum[p] \in Nat /\ options.quantum[p] > 0 /\ options.allotment[p] \in Int
                        /\ (p > 0 => options.allotment[p] > 0)
    BY <2>1 DEF OptIs
  <2> HIDE DEF down
  <2> QED BY <1>1, <2>1, <2>2
<1>3. /\ tl <= rt /\ tl > 0 /\ tk > 0 /\ (q > 0 => al > 0 /\ r + (al - 1) * Q + tk <= Q * A)
  BY DEF Within
<1>a. k2 \in Int /\ l2 \in Nat /\ l2 <= rt /\ k2 >= 0 BY <1>1, <1>3
<1>e. l2 = tl - 1 /\ k2 = tk - 1 OBVIOUS
<1>n. no = FALSE /\ yes = TRUE /\ no \in BOOLEAN /\ yes \in BOOLEAN OBVIOUS
<1>b. info.timeLeft - 1 = l2 /\ info.ticksLeft - 1 = k2 OBVIOUS
<1> SUFFICES /\ out \in Infos(h) /\ s \in Nat /\ Within(options, out, s)
             /\ out.timeLeft = l2 /\ (out.timeLeft = 0 => out.doingIO = FALSE)
             /\ (out.currPri # q => tk = 1)
  BY <1>b
<1> HIDE DEF k2, l2, no, yes
<1>4. Described(ticked, q, k2, al, rt, l2, fr, no)
  <2>1. ticked = [[info EXCEPT !.timeLeft = l2] EXCEPT !.ticksLeft = k2] BY <1>b
  <2>2. Described([info EXCEPT !.timeLeft = l2], q, tk, al, rt, l2, fr, no) BY <1>1, Changed
  <2>3. Described([[info EXCEPT !.timeLeft = l2] EXCEPT !.ticksLeft = k2], q, k2, al, rt, l2, fr, no)
    BY <2>2, Changed
  <2> QED BY <2>1, <2>3
<1>5. PICK b \in BOOLEAN : b <=> io OBVIOUS
<1>6. Described(rested, q, tk1, al1, rt, l2, fr, b)
  <2> HIDE DEF ticked
  <2>1. CASE ~io
    <3>1. rested = ticked /\ tk1 = k2 /\ al1 = al /\ b = no BY <2>1, <1>5, <1>n
    <3> QED BY <1>4, <3>1
  <2>2. CASE io /\ options.stay
    <3>1. Described(M!AtPriority(ticked, q, options), q, Q, A, rt, l2, fr, no) BY <1>4, AtPriorityIs
    <3>2. Described([M!AtPriority(ticked, q, options) EXCEPT !.doingIO = yes], q, Q, A, rt, l2, fr, yes)
      BY <3>1, Changed
    <3>3. rested = [M!AtPriority(ticked, q, options) EXCEPT !.doingIO = yes] BY <2>2, <1>n DEF M!Rested
    <3>4. tk1 = Q /\ al1 = A /\ b = yes BY <2>2, <1>5, <1>n
    <3> QED BY <3>2, <3>3, <3>4
  <2>3. CASE io /\ ~options.stay
    <3>2. Described([ticked EXCEPT !.doingIO = yes], q, k2, al, rt, l2, fr, yes)
      BY <1>4, Changed
    <3>3. rested = [ticked EXCEPT !.doingIO = yes] BY <2>3, <1>n DEF M!Rested
    <3>4. tk1 = k2 /\ al1 = al /\ b = yes BY <2>3, <1>5, <1>n
    <3> QED BY <3>2, <3>3, <3>4
  <2> QED BY <2>1, <2>2, <2>3
<1>7. out = IF ticked.timeLeft = 0 \/ ticked.ticksLeft > 0
              THEN (IF ticked.timeLeft = 0 THEN ticked ELSE rested) ELSE M!SliceEnded(rested, q)
  BY DEF M!AfterTick, Ticked
<1> HIDE DEF ticked, io, rested, slept
<1>8. ticked.timeLeft = l2 /\ ticked.ticksLeft = k2 BY <1>4, IsInfo
<1>9. CASE l2 = 0
  <2>1. out = ticked BY <1>7, <1>8, <1>9
  <2>2. Described(out, q, k2, al, rt, l2, fr, no) BY <1>4, <2>1
  <2>3. /\ out.currPri = q /\ out.ticksLeft = k2 /\ out.allotLeft = al /\ out.runTime = rt
        /\ out.timeLeft = l2 /\ out.doingIO = no
    BY <2>2, IsInfo
  <2>5. out \in Infos(h)
    <3> HIDE DEF q, al, rt, fr
    <3> QED BY <1>1, <1>a, <1>n, <2>2, TypedInfo
  <2>6. s = r + 1 /\ s \in Nat BY <1>n, <2>3 DEF Ticked
  <2>7. q > 0 => r + 1 <= Q * A
    <3> HIDE DEF Q, A, al, tk, q
    <3>1. q > 0 => (al - 1) * Q >= 0 BY <1>1, <1>2, <1>3
    <3>2. (al - 1) * Q \in Int /\ Q * A \in Int BY <1>1, <1>2
    <3> QED BY <1>1, <1>2, <1>3, <3>1, <3>2
  <2>8. Within(options, out, s)
    <3>1. rt \in Nat BY <1>1
    <3> HIDE DEF rt
    <3> QED BY <1>9, <1>a, <2>3, <2>6, <2>7, <3>1 DEF Within
  <2> QED BY <1>n, <2>3, <2>5, <2>6, <2>8
<1>10. CASE l2 # 0 /\ k2 > 0
  <2>1. out = rested BY <1>7, <1>8, <1>10
  <2>2. Described(out, q, tk1, al1, rt, l2, fr, b) BY <1>6, <2>1
  <2>3. /\ out.currPri = q /\ out.ticksLeft = tk1 /\ out.allotLeft = al1 /\ out.runTime = rt
        /\ out.timeLeft = l2 /\ out.doingIO = b
    BY <2>2, IsInfo
  <2>4. tk1 \in Int /\ al1 \in Int
    <3> HIDE DEF Q, A, al
    <3> QED BY <1>1, <1>2, <1>a
  <2>5. out \in Infos(h)
    <3> HIDE DEF tk1, al1
    <3> HIDE DEF q, rt, fr
    <3> QED BY <1>1, <1>5, <1>a, <2>2, <2>4, TypedInfo
  <2>6. s = (IF slept THEN 0 ELSE r + 1) /\ s \in Nat BY <1>5, <2>3 DEF Ticked, slept
  <2>7. l2 <= rt BY <1>a
  <2>8. CASE slept
    <3>1. Described(out, q, Q, A, rt, l2, fr, b) BY <2>2, <2>8
    <3>2. Within(options, out, 0) BY <1>1, <2>7, <3>1, FreshWithin
    <3> QED BY <1>10, <2>3, <2>5, <2>6, <2>8, <3>2
  <2>9. CASE ~slept
    <3>1. out.ticksLeft = k2 /\ out.allotLeft = al /\ s = r + 1 BY <2>3, <2>6, <2>9
    <3>2. q > 0 => r + 1 <= Q * A /\ (r + 1) + (al - 1) * Q + k2 <= Q * A
      <4> HIDE DEF Q, A, al, tk, q
      <4>1. q > 0 => (al - 1) * Q >= 0 BY <1>1, <1>2, <1>3
      <4>2. (al - 1) * Q \in Int /\ Q * A \in Int BY <1>1, <1>2
      <4> QED BY <1>1, <1>2, <1>3, <1>e, <4>1, <4>2
    <3>3. Within(options, out, s) BY <1>3, <1>10, <2>3, <2>7, <3>1, <3>2 DEF Within
    <3> QED BY <1>10, <2>3, <2>5, <2>6, <3>3
  <2> QED BY <2>8, <2>9
<1>11. CASE l2 # 0 /\ k2 = 0
  <2>0. tk = 1 /\ l2 \in Nat /\ l2 <= rt BY <1>1, <1>a, <1>e, <1>11
  <2>1. out = M!SliceEnded(rested, q) BY <1>7, <1>8, <1>11
  <2> DEFINE used == M!Used(rested, q)
  <2>2. tk1 \in Int /\ al1 \in Int
    <3> HIDE DEF Q, A, al
    <3> QED BY <1>1, <1>2, <1>a
  <2>3. Described(used, q, tk1, a2, rt, l2, fr, b)
    <3>1. rested.allotLeft = al1 BY <1>6, IsInfo
    <3>2. used = [rested EXCEPT !.allotLeft = a2] BY <3>1 DEF M!Used
    <3> HIDE DEF tk1, al1, a2
    <3>3. Described([rested EXCEPT !.allotLeft = a2], q, tk1, a2, rt, l2, fr, b) BY <1>6, Changed
    <3> QED BY <3>2, <3>3
  <2>c. a2 = al1 - 1 /\ a2 \in Int BY <2>2
  <2>4. used.allotLeft = a2 BY <2>3, IsInfo
  <2>5. out = IF a2 = 0 THEN M!AtPriority(rested, down, options) ELSE [used EXCEPT !.ticksLeft = Q]
    BY <2>1, <2>4 DEF M!SliceEnded
  <2> HIDE DEF used, a2
  <2>6. CASE a2 = 0
    <3>1. out = M!AtPriority(rested, down, options) BY <2>5, <2>6
    <3> HIDE DEF tk1, al1
    <3>2. Described(out, down, options.quantum[down], options.allotment[down], rt, l2, fr, b)
      BY <1>6, <3>1, AtPriorityIs
    <3> HIDE DEF down
    <3>3. /\ out.currPri = down /\ out.ticksLeft = options.quantum[down] /\ out.runTime = rt
          /\ out.timeLeft = l2 /\ out.doingIO = b
      BY <3>2, IsInfo
    <3>4. out \in Infos(h)
      <4> DEFINE Q2 == options.quantum[down]
                 A2 == options.allotment[down]
      <4>1. Q2 \in Int /\ A2 \in Int BY <1>2
      <4>2. Described(out, down, Q2, A2, rt, l2, fr, b) BY <3>2
      <4>3. down \in 0..h /\ rt \in Nat /\ fr \in Nat /\ l2 \in Nat BY <1>1, <1>2, <1>a
      <4> HIDE DEF Q2, A2, rt, fr, down
      <4> QED BY <1>5, <4>1, <4>2, <4>3, TypedInfo
    <3>5. Within(options, out, 0) BY <1>2, <2>0, <3>2, FreshWithin
    <3>6. s \in Nat /\ (q > 0 => s = 0)
      <4>1. q > 0 => down # q BY <1>1 DEF down
      <4> QED BY <3>3, <4>1 DEF Ticked
    <3>7. Within(options, out, s)
      <4>1. CASE q > 0 BY <3>5, <3>6, <4>1
      <4>2. CASE ~(q > 0)
        <5>1. out.currPri = q /\ ~(out.currPri > 0) BY <3>3, <4>2 DEF down
        <5> QED BY <3>5, <5>1 DEF Within
      <4> QED BY <4>1, <4>2
    <3> QED BY <1>11, <2>0, <3>3, <3>4, <3>6, <3>7
  <2>7. CASE a2 # 0
    <3>1. out = [used EXCEPT !.ticksLeft = Q] BY <2>5, <2>7
    <3>2. a2 \in Int BY <2>c
    <3> HIDE DEF tk1
    <3>3. Described(out, q, Q, a2, rt, l2, fr, b) BY <2>3, <3>1, Changed
    <3>4. /\ out.currPri = q /\ out.ticksLeft = Q /\ out.allotLeft = a2 /\ out.runTime = rt
          /\ out.timeLeft = l2 /\ out.doingIO = b
      BY <3>3, IsInfo
    <3>5. out \in Infos(h)
      <4> HIDE DEF al1
      <4>1. Q \in Int BY <1>2
      <4> HIDE DEF q, rt, fr, Q
      <4> QED BY <1>1, <1>5, <2>0, <3>2, <3>3, <4>1, TypedInfo
    <3>6. s = (IF slept THEN 0 ELSE r + 1) /\ s \in Nat BY <1>5, <3>4 DEF Ticked, slept
    <3>7. q > 0 => a2 > 0 BY <1>1, <1>2, <1>3, <2>7, <2>c
    <3>8. q > 0 => s <= Q * A /\ s + (a2 - 1) * Q + Q <= Q * A
      <4> SUFFICES ASSUME q > 0 PROVE s <= Q * A /\ s + (a2 - 1) * Q + Q <= Q * A OBVIOUS
      <4>1. CASE slept
        <5>1. s = 0 /\ a2 = A - 1 BY <3>6, <2>c, <4>1
        <5> HIDE DEF Q, A
        <5>2. ((A - 1) - 1) * Q + Q = A * Q - Q BY <1>2
        <5>3. A * Q = Q * A /\ A * Q \in Int /\ A * Q >= 0 BY <1>2
        <5>4. ((A - 1) - 1) * Q \in Int BY <1>2
        <5> QED BY <1>2, <5>1, <5>2, <5>3, <5>4
      <4>2. CASE ~slept
        <5>1. s = r + 1 /\ a2 = al - 1 BY <3>6, <2>c, <4>2
        <5> HIDE DEF Q, A, al
        <5>2. ((al - 1) - 1) * Q + Q = (al - 1) * Q BY <1>1, <1>2
        <5>3. (al - 1) * Q \in Int /\ Q * A \in Int /\ ((al - 1) - 1) * Q \in Int BY <1>1, <1>2
        <5>4. (al - 1) * Q >= 0 BY <1>1, <1>2, <1>3
        <5>5. r + (al - 1) * Q + 1 <= Q * A BY <1>3, <2>0
        <5> QED BY <1>2, <5>1, <5>2, <5>3, <5>4, <5>5
      <4> QED BY <4>1, <4>2
    <3>9. Within(options, out, s)
      <4> HIDE DEF al1
      <4> QED BY <1>2, <2>0, <3>4, <3>7, <3>8 DEF Within
    <3> QED BY <1>11, <2>0, <3>4, <3>5, <3>6, <3>9
  <2> QED BY <2>6, <2>7
<1>12. (l2 = 0) \/ (l2 # 0 /\ k2 > 0) \/ (l2 # 0 /\ k2 = 0) BY <1>a
<1> QED BY <1>9, <1>10, <1>11, <1>12, Zenon

-----------------------------------------------------------------------------
(* mlfq.py: the events that jobs wait for. *)

\* The empty sequence, and one element more.
LEMMA NoneIs == <<>> = <<>> /\ Len(<<>>) = 0 /\ \A T : <<>> \in Seq(T)
OBVIOUS
LEMMA MoreIs ==
  ASSUME NEW T, NEW s \in Seq(T), NEW x \in T
  PROVE  /\ Len(s) \in Nat /\ Append(s, x) \in Seq(T) /\ Len(Append(s, x)) = Len(s) + 1
         /\ Append(s, x)[Len(s) + 1] = x /\ \A k \in 1..Len(s) : Append(s, x)[k] = s[k]
OBVIOUS

Events(n) == [job : 1..n, type : {"JOB BEGINS", "IO_DONE"}]
\* The events of E, none before the time t0, are of the jobs W, one of each.
Awaits(E, n, t0, W) ==
  /\ \A t \in DOMAIN E : t \in Nat /\ t >= t0 /\ E[t] \in Seq(Events(n))
  /\ \A t \in DOMAIN E : \A k \in 1..Len(E[t]) : E[t][k].job \in W
  /\ \A j \in W : \E t \in DOMAIN E : \E k \in 1..Len(E[t]) : E[t][k].job = j
  /\ \A t, u \in DOMAIN E : \A k \in 1..Len(E[t]), l \in 1..Len(E[u]) : E[t][k].job = E[u][l].job => t = u /\ k = l

\* One event more, of a job that awaits none.
LEMMA EventAdded ==
  ASSUME NEW E, NEW n \in Nat, NEW t0 \in Nat, NEW W, Awaits(E, n, t0, W), NEW e \in Events(n), NEW j, e.job = j,
         j \notin W, NEW t \in Nat, t >= t0
  PROVE  Awaits(M!Added(E, t, e), n, t0, W \cup {j})
<1> DEFINE F == M!Added(E, t, e)
           old == M!At(E, t)
<1>1. e \in Events(n) /\ e.job = j OBVIOUS
<1>2. (t \in DOMAIN E => old = E[t]) /\ (t \notin DOMAIN E => old = <<>>) BY DEF M!At
<1>3. /\ DOMAIN F = DOMAIN E \cup {t} /\ F[t] = Append(old, e)
      /\ \A u \in DOMAIN E : u # t => F[u] = E[u]
  BY DEF M!Added
<1> HIDE DEF F, old
<1>z. old \in Seq(Events(n))
  <2>1. t \in DOMAIN E => E[t] \in Seq(Events(n)) BY DEF Awaits
  <2>2. <<>> \in Seq(Events(n)) BY NoneIs
  <2> QED BY <1>2, <2>1, <2>2
<1>w. /\ Len(old) \in Nat /\ Append(old, e) \in Seq(Events(n)) /\ Len(Append(old, e)) = Len(old) + 1
      /\ Append(old, e)[Len(old) + 1] = e /\ \A k \in 1..Len(old) : Append(old, e)[k] = old[k]
  BY <1>1, <1>z, MoreIs
<1>v. (t \notin DOMAIN E => Len(old) = 0) /\ (t \in DOMAIN E => Len(old) = Len(E[t])) BY <1>2, NoneIs
<1> DEFINE m == Len(old)
<1>x. m \in Nat BY <1>w
<1>y. (t \notin DOMAIN E => m = 0) /\ (t \in DOMAIN E => m = Len(E[t])) BY <1>v
<1>4. /\ F[t] \in Seq(Events(n)) /\ Len(F[t]) = m + 1 /\ F[t][m + 1] = e
      /\ \A k \in 1..m : F[t][k] = old[k]
  BY <1>3, <1>w
<1> HIDE DEF m
<1>5. ASSUME NEW u \in DOMAIN F, NEW k \in 1..Len(F[u])
      PROVE  \/ u = t /\ k = m + 1 /\ F[u][k].job = j
             \/ u \in DOMAIN E /\ k \in 1..Len(E[u]) /\ F[u][k] = E[u][k] /\ F[u][k].job \in W
  <2>1. CASE u = t
    <3>0. k \in 1..m + 1 BY <1>4, <2>1
    <3>1. k = m + 1 \/ k \in 1..m BY <1>x, <3>0
    <3>2. CASE k = m + 1 BY <1>1, <1>4, <2>1, <3>2
    <3>3. CASE k \in 1..m
      <4>0. m # 0 BY <1>x, <3>3
      <4>1. t \in DOMAIN E /\ old = E[t] /\ m = Len(E[t]) BY <1>2, <1>y, <4>0
      <4>2. k \in 1..Len(E[t]) BY <3>3, <4>1
      <4>3. F[u][k] = E[u][k] BY <1>4, <2>1, <3>3, <4>1
      <4> QED BY <2>1, <4>1, <4>2, <4>3 DEF Awaits
    <3> QED BY <3>1, <3>2, <3>3
  <2>2. CASE u # t
    <3>1. u \in DOMAIN E /\ F[u] = E[u] BY <1>3, <2>2
    <3> QED BY <3>1 DEF Awaits
  <2> QED BY <2>1, <2>2
<1>6. \A u \in DOMAIN F : u \in Nat /\ u >= t0 /\ F[u] \in Seq(Events(n)) BY <1>3, <1>4 DEF Awaits
<1>7. ASSUME NEW u \in DOMAIN E, NEW k \in 1..Len(E[u]) PROVE k \in 1..Len(F[u]) /\ F[u][k] = E[u][k]
  <2>1. CASE u = t
    <3>1. old = E[u] /\ k \in 1..m BY <1>2, <1>y, <2>1
    <3>2. k \in 1..m + 1 BY <1>x, <3>1
    <3> QED BY <1>4, <2>1, <3>1, <3>2
  <2>2. CASE u # t BY <1>3, <2>2
  <2> QED BY <2>1, <2>2
<1>8. \A x \in W \cup {j} : \E u \in DOMAIN F : \E k \in 1..Len(F[u]) : F[u][k].job = x
  <2> SUFFICES ASSUME NEW x \in W \cup {j} PROVE \E u \in DOMAIN F : \E k \in 1..Len(F[u]) : F[u][k].job = x OBVIOUS
  <2>1. CASE x = j
    <3>2. m + 1 \in 1..m + 1 BY <1>x
    <3>1. t \in DOMAIN F /\ m + 1 \in 1..Len(F[t]) /\ F[t][m + 1].job = j BY <1>1, <1>3, <1>4, <3>2
    <3> QED BY <2>1, <3>1
  <2>2. CASE x \in W
    <3>1. PICK u \in DOMAIN E : \E k \in 1..Len(E[u]) : E[u][k].job = x BY <2>2 DEF Awaits
    <3>2. PICK k \in 1..Len(E[u]) : E[u][k].job = x BY <3>1
    <3>3. u \in DOMAIN F /\ k \in 1..Len(F[u]) /\ F[u][k].job = x BY <1>3, <1>7, <3>2
    <3> QED BY <3>3
  <2> QED BY <2>1, <2>2
<1>9. \A u \in DOMAIN F : \A k \in 1..Len(F[u]) : F[u][k].job \in W \cup {j}
  <2> TAKE u \in DOMAIN F
  <2> TAKE k \in 1..Len(F[u])
  <2> QED BY <1>5
<1>10. ASSUME NEW u \in DOMAIN F, NEW v \in DOMAIN F, NEW k \in 1..Len(F[u]), NEW l \in 1..Len(F[v]),
              F[u][k].job = F[v][l].job
       PROVE  u = v /\ k = l
  <2> DEFINE New(w, i) == w = t /\ i = m + 1 /\ F[w][i].job = j
             Old(w, i) == w \in DOMAIN E /\ i \in 1..Len(E[w]) /\ F[w][i] = E[w][i] /\ F[w][i].job \in W
  <2>1. (New(u, k) \/ Old(u, k)) /\ (New(v, l) \/ Old(v, l)) BY <1>5
  <2>2. CASE New(u, k) /\ New(v, l) BY <2>2
  <2>3. CASE Old(u, k) /\ Old(v, l)
    <3>1. /\ E[u][k].job = E[v][l].job /\ u \in DOMAIN E /\ v \in DOMAIN E
          /\ k \in 1..Len(E[u]) /\ l \in 1..Len(E[v])
      BY <1>10, <2>3
    <3>2. \A t1, t2 \in DOMAIN E : \A k1 \in 1..Len(E[t1]), k2 \in 1..Len(E[t2]) :
             E[t1][k1].job = E[t2][k2].job => t1 = t2 /\ k1 = k2
      BY DEF Awaits
    <3> QED BY <3>1, <3>2
  <2>4. CASE New(u, k) /\ Old(v, l) BY <1>10, <2>4
  <2>5. CASE Old(u, k) /\ New(v, l) BY <1>10, <2>5
  <2> QED BY <2>1, <2>2, <2>3, <2>4, <2>5
<1>11. Awaits(F, n, t0, W \cup {j}) BY <1>6, <1>8, <1>9, <1>10 DEF Awaits
<1> QED BY <1>11 DEF F
\* The same of a job by its number.
LEMMA AddedAwaits ==
  ASSUME NEW E, NEW n \in Nat, NEW t0 \in Nat, NEW W, Awaits(E, n, t0, W), NEW j \in 1..n, j \notin W,
         NEW t \in Nat, t >= t0, NEW type \in {"JOB BEGINS", "IO_DONE"}
  PROVE  Awaits(M!Added(E, t, M!Event(j, type)), n, t0, W \cup {j})
<1> DEFINE e == M!Event(j, type)
<1>1. e \in Events(n) /\ e.job = j BY DEF M!Event, Events
<1> HIDE DEF e
<1>2. Awaits(M!Added(E, t, e), n, t0, W \cup {j}) BY <1>1, EventAdded
<1> QED BY <1>2 DEF e

\* The events of the time t0 are past.
LEMMA RestAwaits ==
  ASSUME NEW E, NEW n, NEW t0 \in Nat, NEW W, Awaits(E, n, t0, W), NEW past,
         \A j : j \in past <=> \E k \in 1..Len(M!At(E, t0)) : M!At(E, t0)[k].job = j
  PROVE  Awaits([t \in DOMAIN E \ {t0} |-> E[t]], n, t0 + 1, W \ past)
<1> DEFINE F == [t \in DOMAIN E \ {t0} |-> E[t]]
<1>1. DOMAIN F = DOMAIN E \ {t0} /\ \A t \in DOMAIN F : F[t] = E[t] OBVIOUS
<1>2. \A j : j \in past <=> t0 \in DOMAIN E /\ \E k \in 1..Len(E[t0]) : E[t0][k].job = j BY DEF M!At
<1> HIDE DEF F
<1>3. \A t \in DOMAIN F : t \in Nat /\ t >= t0 + 1 /\ F[t] \in Seq(Events(n)) BY <1>1 DEF Awaits
<1>4. ASSUME NEW t \in DOMAIN F, NEW k \in 1..Len(F[t]) PROVE F[t][k].job \in W \ past
  <2>1. t \in DOMAIN E /\ t # t0 /\ F[t] = E[t] BY <1>1
  <2>2. E[t][k].job \in W BY <2>1 DEF Awaits
  <2>3. E[t][k].job \notin past
    <3> SUFFICES ASSUME E[t][k].job \in past PROVE FALSE OBVIOUS
    <3>1. t0 \in DOMAIN E BY <1>2
    <3>2. PICK l \in 1..Len(E[t0]) : E[t0][l].job = E[t][k].job BY <1>2
    <3> QED BY <2>1, <3>1, <3>2 DEF Awaits
  <2> QED BY <2>1, <2>2, <2>3
<1>5. ASSUME NEW j \in W \ past PROVE \E t \in DOMAIN F : \E k \in 1..Len(F[t]) : F[t][k].job = j
  <2>1. PICK t \in DOMAIN E : \E k \in 1..Len(E[t]) : E[t][k].job = j BY DEF Awaits
  <2>2. t # t0 BY <1>2, <2>1
  <2> QED BY <1>1, <2>1, <2>2
<1>6. \A t, u \in DOMAIN F : \A k \in 1..Len(F[t]), l \in 1..Len(F[u]) : F[t][k].job = F[u][l].job => t = u /\ k = l
  BY <1>1 DEF Awaits
<1>7. Awaits(F, n, t0 + 1, W \ past) BY <1>3, <1>4, <1>5, <1>6 DEF Awaits
<1> QED BY <1>7 DEF F

\* The elements of a sequence.
LEMMA MemberOf == ASSUME NEW T, NEW s \in Seq(T) PROVE Len(s) \in Nat /\ \A k \in 1..Len(s) : s[k] \in T
OBVIOUS
\* The jobs of a workload, all of which are to begin.
LEMMA BeginsAwaits ==
  ASSUME NEW w \in Seq([startTime : Nat, runTime : Nat \ {0}, ioFreq : Nat])
  PROVE  Awaits(M!Begins(w), Len(w), 0, 1..Len(w))
<1> DEFINE n == Len(w)
           V == UNION {[T -> Seq(Events(n))] : T \in SUBSET Nat}
           Next(k, E) == M!Added(E, w[k].startTime, M!Event(k, "JOB BEGINS"))
           g == [e \in (1..n) \X V |-> Next(e[1], e[2])]
           Is(W) == W = [k \in 0..n |-> IF k = 0 THEN <<>> ELSE Next(k, W[k - 1])]
           Z == CHOOSE Z : Is(Z)
<1>1. n \in Nat /\ \A k \in 1..n : w[k].startTime \in Nat
  <2> DEFINE T == [startTime : Nat, runTime : Nat \ {0}, ioFreq : Nat]
  <2>1. \A x \in T : x.startTime \in Nat OBVIOUS
  <2>2. w \in Seq(T) OBVIOUS
  <2> HIDE DEF T
  <2>3. Len(w) \in Nat /\ \A k \in 1..Len(w) : w[k] \in T BY <2>2, MemberOf
  <2> QED BY <2>1, <2>3
<1>2. M!Begins(w) = Z[n] BY DEF M!Begins
<1>3. ASSUME NEW k \in 1..n, NEW E \in V PROVE Next(k, E) \in V
  <2> DEFINE t == w[k].startTime
             e == M!Event(k, "JOB BEGINS")
  <2>1. t \in Nat /\ e \in Events(n) BY <1>1 DEF M!Event, Events
  <2>2. PICK T \in SUBSET Nat : E \in [T -> Seq(Events(n))] OBVIOUS
  <2>3. Next(k, E) = M!Added(E, t, e) OBVIOUS
  <2> HIDE DEF t, e, Next
  <2>4. Append(M!At(E, t), e) \in Seq(Events(n))
    <3>1. M!At(E, t) \in Seq(Events(n)) BY <2>2, NoneIs DEF M!At
    <3> QED BY <2>1, <3>1, MoreIs
  <2>5. M!Added(E, t, e) \in [T \cup {t} -> Seq(Events(n))] BY <2>2, <2>4 DEF M!Added
  <2>6. T \cup {t} \in SUBSET Nat BY <2>1
  <2> QED BY <2>3, <2>5, <2>6
<1>4. <<>> \in V
  <2>1. <<>> \in [{} -> Seq(Events(n))] OBVIOUS
  <2> QED BY <2>1
<1>5. \A k \in 1..n, E \in V : g[<<k, E>>] = Next(k, E) OBVIOUS
<1> HIDE DEF g, V, Next, n
<1>v. \A k \in 1..n, E \in V : g[<<k, E>>] \in V BY <1>3, <1>5
<1>6. PICK W \in [0..n -> V] : Solves(n, <<>>, g, W) BY <1>1, <1>4, <1>v, Solvable
<1>7. Is(W)
  <2>1. ASSUME NEW k \in 0..n PROVE W[k] = IF k = 0 THEN <<>> ELSE Next(k, W[k - 1])
    <3>1. W[k] = IF k = 0 THEN <<>> ELSE g[<<k, W[k - 1]>>] BY <1>6 DEF Solves
    <3>2. k # 0 => k \in 1..n /\ k - 1 \in 0..n BY <1>1
    <3>3. k # 0 => g[<<k, W[k - 1]>>] = Next(k, W[k - 1]) BY <1>5, <3>2
    <3> QED BY <3>1, <3>3
  <2>2. W = [k \in 0..n |-> W[k]] OBVIOUS
  <2> QED BY <2>1, <2>2
<1>8. Is(Z) BY <1>7
<1> HIDE DEF Z
<1> DEFINE Q == {k \in 0..n : Awaits(Z[k], n, 0, 1..k)}
<1>9. 0 \in Q
  <2>1. Z[0] = <<>> /\ 0 \in 0..n BY <1>1, <1>8
  <2>2. 1..0 = {} OBVIOUS
  <2>3. DOMAIN <<>> = {} OBVIOUS
  <2>4. Awaits(<<>>, n, 0, {}) BY <2>3 DEF Awaits
  <2> QED BY <2>1, <2>2, <2>4
<1>10. ASSUME NEW k \in 1..n, k - 1 \in Q PROVE k \in Q
  <2>1. Z[k] = Next(k, Z[k - 1]) /\ k \in 0..n
    <3>1. k \in 0..n /\ k # 0 BY <1>1
    <3> QED BY <1>8, <3>1
  <2>2. Awaits(Z[k - 1], n, 0, 1..k - 1) BY <1>10
  <2>3. (1..k - 1) \cup {k} = 1..k /\ k \notin 1..k - 1 BY <1>1
  <2>4. w[k].startTime \in Nat /\ w[k].startTime >= 0 BY <1>1
  <2> DEFINE st == w[k].startTime
             e == M!Event(k, "JOB BEGINS")
             G == Z[k - 1]
             R == 1..k - 1
  <2>6. e \in Events(n) /\ e.job = k BY DEF M!Event, Events
  <2>7. st \in Nat /\ st >= 0 BY <2>4
  <2>8. Awaits(G, n, 0, R) BY <2>2
  <2>9. k \notin R BY <2>3
  <2>10. 0 \in Nat OBVIOUS
  <2>11. n \in Nat BY <1>1
  <2> HIDE DEF st, e, G, R
  <2>12. Awaits(M!Added(G, st, e), n, 0, R \cup {k}) BY <2>6, <2>7, <2>8, <2>9, <2>10, <2>11, EventAdded
  <2>5. Awaits(M!Added(Z[k - 1], w[k].startTime, M!Event(k, "JOB BEGINS")), n, 0, (1..k - 1) \cup {k})
    BY <2>12 DEF st, e, G, R
  <2> QED BY <2>1, <2>3, <2>5 DEF Next
<1>11. n \in Q
  <2> HIDE DEF Q
  <2>1. \A k \in 0..n : k \in Q BY <1>1, <1>9, <1>10, Climb
  <2> QED BY <1>1, <2>1
<1> QED BY <1>2, <1>11 DEF n

-----------------------------------------------------------------------------
(* The state of the queues, when the jobs of W wait for an event. *)
Shelves(n, h) == [job : [1..n -> Infos(h)], queue : [0..h -> Seq(1..n)], ran : [1..n -> Nat]]
Left(info, n, W) == {j \in 1..n : info[j].timeLeft > 0 /\ j \notin W}
Members(info, n, q, W) == {j \in Left(info, n, W) : info[j].currPri = q}
Shelved(S, n, h, W) ==
  /\ S \in Shelves(n, h)
  /\ \A q \in 0..h : Lists(S.queue[q], Members(S.job, n, q, W))
  /\ \A j \in 1..n : Within(options, S.job[j], S.ran[j])
  /\ \A j \in Left(S.job, n, W) : S.job[j].doingIO = FALSE
  /\ \A j \in W : j \in 1..n /\ S.job[j].timeLeft > 0

\* Its parts.
LEMMA StateParts ==
  ASSUME NEW n, NEW h, NEW S \in Shelves(n, h)
  PROVE  /\ S.job \in [1..n -> Infos(h)] /\ S.queue \in [0..h -> Seq(1..n)] /\ S.ran \in [1..n -> Nat]
         /\ S = [job |-> S.job, queue |-> S.queue, ran |-> S.ran]
BY DEF Shelves
\* A state from its parts.
LEMMA IsState ==
  ASSUME NEW n, NEW h, NEW a \in [1..n -> Infos(h)], NEW b \in [0..h -> Seq(1..n)], NEW c \in [1..n -> Nat]
  PROVE  /\ [job |-> a, queue |-> b, ran |-> c] \in Shelves(n, h)
         /\ [job |-> a, queue |-> b, ran |-> c].job = a
         /\ [job |-> a, queue |-> b, ran |-> c].queue = b
         /\ [job |-> a, queue |-> b, ran |-> c].ran = c
BY DEF Shelves
\* What lists numbers up to n is a sequence of them.
LEMMA SeqOf == ASSUME NEW T, NEW R, T \subseteq R, NEW s \in Seq(T) PROVE s \in Seq(R)
OBVIOUS
LEMMA ListsSeq == ASSUME NEW T, NEW n, T \subseteq 1..n, NEW s, Lists(s, T) PROVE s \in Seq(1..n)
<1> DEFINE R == 1..n
<1>1. T \subseteq R /\ s \in Seq(T) BY DEF Lists
<1> HIDE DEF R
<1>2. s \in Seq(R) BY <1>1, SeqOf
<1> QED BY <1>2 DEF R

\* A job that begins or is done with its I/O joins the queue of its priority.
LEMMA ArriveShelves ==
  ASSUME NEW n \in Nat, NEW h \in Nat, NEW W, NEW S, Shelved(S, n, h, W), NEW e, NEW j, e.job = j, j \in W,
         NEW f, NEW T, T = W \ {j}, f = M!Arrive(S, e)
  PROVE  Shelved(f, n, h, T)
<1> DEFINE info == S.job[j]
           p == info.currPri
           out == [info EXCEPT !.doingIO = FALSE]
           a == [S.job EXCEPT ![j] = out]
           old == S.queue[p]
           new == IF ~options.iobump \/ e.type = "JOB BEGINS" THEN Append(old, j) ELSE <<j>> \o old
           b == [S.queue EXCEPT ![p] = new]
<1>1. /\ S \in Shelves(n, h) /\ S.job \in [1..n -> Infos(h)] /\ S.queue \in [0..h -> Seq(1..n)]
      /\ S.ran \in [1..n -> Nat] /\ S = [job |-> S.job, queue |-> S.queue, ran |-> S.ran]
  BY StateParts DEF Shelved
<1>2. j \in 1..n /\ info \in Infos(h) /\ info.timeLeft > 0 BY <1>1 DEF Shelved
<1>3. p \in 0..h BY <1>2, InfoIs
<1>4. f = [job |-> a, queue |-> b, ran |-> S.ran]
  <2>1. f = [S EXCEPT !.job[j].doingIO = FALSE,
                      !.queue[p] = IF ~options.iobump \/ e.type = "JOB BEGINS" THEN Append(@, j) ELSE <<j>> \o @]
    BY DEF M!Arrive
  <2> QED BY <1>1, <1>2, <1>3, <2>1
<1>5. Described(info, p, info.ticksLeft, info.allotLeft, info.runTime, info.timeLeft, info.ioFreq, info.doingIO)
  BY <1>2, InfoIs
<1>6. Described(out, p, info.ticksLeft, info.allotLeft, info.runTime, info.timeLeft, info.ioFreq, FALSE)
  BY <1>5, Changed
<1>7. /\ out.currPri = p /\ out.ticksLeft = info.ticksLeft /\ out.allotLeft = info.allotLeft
      /\ out.runTime = info.runTime /\ out.timeLeft = info.timeLeft /\ out.doingIO = FALSE
  BY <1>6, IsInfo
<1>8. out \in Infos(h) BY <1>2 DEF Infos
<1>9. Within(options, out, S.ran[j])
  <2>1. Within(options, info, S.ran[j]) BY <1>2 DEF Shelved
  <2> HIDE DEF out
  <2> QED BY <1>7, <2>1 DEF Within
<1> HIDE DEF out
<1>10. a \in [1..n -> Infos(h)] /\ a[j] = out /\ \A i \in 1..n : i # j => a[i] = S.job[i] BY <1>1, <1>2, <1>8
<1> HIDE DEF a
<1>11. \A i \in 1..n : a[i].timeLeft = S.job[i].timeLeft /\ a[i].currPri = S.job[i].currPri BY <1>7, <1>10
<1>12. ASSUME NEW q
       PROVE  Members(a, n, q, T) = IF q = p THEN Members(S.job, n, q, W) \cup {j} ELSE Members(S.job, n, q, W)
  BY <1>2, <1>11 DEF Members, Left
<1>13. Lists(new, Members(a, n, p, T)) /\ new \in Seq(1..n)
  <2>1. Lists(old, Members(S.job, n, p, W)) BY <1>3 DEF Shelved
  <2>2. j \notin Members(S.job, n, p, W) BY DEF Members, Left
  <2>3. Lists(Append(old, j), Members(S.job, n, p, W) \cup {j}) /\ Lists(<<j>> \o old, Members(S.job, n, p, W) \cup {j})
    <3> DEFINE R == Members(S.job, n, p, W)
    <3> HIDE DEF R, old
    <3>1. Lists(old, R) /\ j \notin R BY <2>1, <2>2 DEF R, old
    <3>2. Lists(Append(old, j), R \cup {j}) /\ Lists(<<j>> \o old, R \cup {j}) BY <3>1, ListsMore
    <3> QED BY <3>2 DEF R
  <2>4. Lists(new, Members(S.job, n, p, W) \cup {j}) BY <2>3
  <2>5. Lists(new, Members(a, n, p, T)) BY <1>12, <2>4
  <2>6. Members(a, n, p, T) \subseteq 1..n BY DEF Members, Left
  <2> HIDE DEF new
  <2> QED BY <2>5, <2>6, ListsSeq
<1> HIDE DEF new
<1>14. b \in [0..h -> Seq(1..n)] /\ b[p] = new /\ \A q \in 0..h : q # p => b[q] = S.queue[q] BY <1>1, <1>3, <1>13
<1> HIDE DEF b
<1>15. f \in Shelves(n, h) /\ f.job = a /\ f.queue = b /\ f.ran = S.ran
  <2> DEFINE c == S.ran
  <2>1. c \in [1..n -> Nat] /\ f = [job |-> a, queue |-> b, ran |-> c] BY <1>1, <1>4
  <2>2. a \in [1..n -> Infos(h)] /\ b \in [0..h -> Seq(1..n)] BY <1>10, <1>14
  <2> HIDE DEF c
  <2>3. f \in Shelves(n, h) /\ f.job = a /\ f.queue = b /\ f.ran = c BY <2>1, <2>2, IsState
  <2> QED BY <2>3 DEF c
<1>16. \A q \in 0..h : Lists(f.queue[q], Members(f.job, n, q, T))
  <2> SUFFICES ASSUME NEW q \in 0..h PROVE Lists(b[q], Members(a, n, q, T)) BY <1>15
  <2>1. CASE q = p BY <1>13, <1>14, <2>1
  <2>2. CASE q # p
    <3>1. Lists(S.queue[q], Members(S.job, n, q, W)) BY DEF Shelved
    <3> QED BY <1>12, <1>14, <2>2, <3>1
  <2> QED BY <2>1, <2>2
<1>17. \A i \in 1..n : Within(options, f.job[i], f.ran[i])
  <2> SUFFICES ASSUME NEW i \in 1..n PROVE Within(options, a[i], S.ran[i]) BY <1>15
  <2> QED BY <1>9, <1>10 DEF Shelved
<1>18. \A i \in Left(f.job, n, T) : f.job[i].doingIO = FALSE
  <2> SUFFICES ASSUME NEW i \in Left(a, n, T) PROVE a[i].doingIO = FALSE BY <1>15
  <2>1. i \in 1..n /\ (i # j => i \in Left(S.job, n, W)) BY <1>11 DEF Left
  <2> QED BY <1>7, <1>10, <2>1 DEF Shelved
<1>19. \A i \in T : i \in 1..n /\ f.job[i].timeLeft > 0
  <2> SUFFICES ASSUME NEW i \in T PROVE i \in 1..n /\ a[i].timeLeft > 0 BY <1>15
  <2> QED BY <1>11 DEF Shelved
<1> QED BY <1>15, <1>16, <1>17, <1>18, <1>19 DEF Shelved

\* The jobs of the events of this time.
Past == {M!At(ioDone, currTime)[k].job : k \in 1..Len(M!At(ioDone, currTime))}
\* All of them join their queues.
LEMMA ArrivedShelves ==
  ASSUME NEW n \in Nat, NEW h \in Nat, NEW W, NEW S, Shelved(S, n, h, W), Awaits(ioDone, n, currTime, W)
  PROVE  Shelved(M!Arrived(S), n, h, W \ Past)
<1> DEFINE L == M!At(ioDone, currTime)
           m == Len(L)
           Gone(k) == {L[i].job : i \in 1..k}
           V == Shelves(n, h)
           Steps == [k \in 0..m |-> {s \in V : Shelved(s, n, h, W \ Gone(k))}]
           g == [e \in (1..m) \X V |-> M!Arrive(e[2], L[e[1]])]
           Is(F) == F = [k \in 0..m |-> IF k = 0 THEN S ELSE M!Arrive(F[k - 1], L[k])]
           Z == CHOOSE F : Is(F)
<1>1. M!Arrived(S) = Z[m] BY DEF M!Arrived
<1>2. Past = Gone(m) BY DEF Past
<1>3. /\ L \in Seq(Events(n)) /\ \A k \in 1..m : L[k].job \in W
      /\ \A k, l \in 1..m : L[k].job = L[l].job => k = l
  <2>1. CASE currTime \in DOMAIN ioDone BY <2>1 DEF Awaits, M!At
  <2>2. CASE currTime \notin DOMAIN ioDone
    <3>1. L = <<>> BY <2>2 DEF M!At
    <3>2. L \in Seq(Events(n)) /\ Len(L) = 0 BY <3>1, NoneIs
    <3>3. 1..m = {} BY <3>2
    <3> HIDE DEF m
    <3> QED BY <3>2, <3>3
  <2> QED BY <2>1, <2>2
<1>4. m \in Nat
  <2> HIDE DEF L
  <2> QED BY <1>3, MemberOf
<1> HIDE DEF m, L
<1>5. Steps \in [0..m -> SUBSET V] OBVIOUS
<1>6. S \in Steps[0]
  <2>1. Gone(0) = {} /\ 0 \in 0..m BY <1>4
  <2>2. S \in V BY DEF Shelved
  <2>3. W \ Gone(0) = W BY <2>1
  <2> HIDE DEF Gone, V
  <2> QED BY <2>1, <2>2, <2>3
<1>7. \A k \in 1..m, v \in V : g[<<k, v>>] = M!Arrive(v, L[k]) OBVIOUS
<1>8. ASSUME NEW k \in 1..m, NEW v \in Steps[k - 1] PROVE g[<<k, v>>] \in Steps[k]
  <2> DEFINE e == L[k]
             j == L[k].job
             U == W \ Gone(k - 1)
             T == W \ Gone(k)
             f == M!Arrive(v, e)
  <2>1. k \in 0..m /\ k - 1 \in 0..m BY <1>4
  <2>2. v \in V /\ Shelved(v, n, h, U) BY <2>1
  <2>3. j \notin Gone(k - 1)
    <3>1. \A i \in 1..k - 1 : i \in 1..m /\ i # k BY <1>4
    <3> QED BY <1>3, <3>1
  <2>4. Gone(k) = Gone(k - 1) \cup {j}
    <3>1. 1..k = (1..k - 1) \cup {k} BY <1>4
    <3> QED BY <3>1
  <2>5. j \in U /\ T = U \ {j} /\ e.job = j BY <1>3, <2>3, <2>4
  <2> HIDE DEF e, j, U, T, f, Gone, g, Steps
  <2>6. Shelved(f, n, h, T) BY <2>2, <2>5, ArriveShelves DEF f
  <2>7. f \in V BY <2>6 DEF Shelved
  <2>8. g[<<k, v>>] = f BY <1>7, <2>2 DEF f, e
  <2> QED BY <2>1, <2>6, <2>7, <2>8 DEF Steps, T
<1> HIDE DEF Steps, V, g
<1>9. PICK F \in [0..m -> V] : Solves(m, S, g, F) /\ \A k \in 0..m : F[k] \in Steps[k] BY <1>4, <1>5, <1>6, <1>8, Loop
<1>10. Is(F)
  <2>1. ASSUME NEW k \in 0..m PROVE F[k] = IF k = 0 THEN S ELSE M!Arrive(F[k - 1], L[k])
    <3>1. F[k] = IF k = 0 THEN S ELSE g[<<k, F[k - 1]>>] BY <1>9 DEF Solves
    <3>2. k # 0 => k \in 1..m /\ k - 1 \in 0..m BY <1>4
    <3> QED BY <1>7, <3>1, <3>2
  <2>2. F = [k \in 0..m |-> F[k]] OBVIOUS
  <2> QED BY <2>1, <2>2
<1>11. Is(Z) BY <1>10
<1> HIDE DEF Z
<1>12. Z[0] = S /\ \A k \in 1..m : Z[k] = M!Arrive(Z[k - 1], L[k])
  <2>1. 0 \in 0..m /\ \A k \in 1..m : k \in 0..m /\ k # 0 BY <1>4
  <2> QED BY <1>11, <2>1
<1>13. \A k \in 1..m : Z[k - 1] \in Steps[k - 1] => Z[k] \in Steps[k]
  <2> SUFFICES ASSUME NEW k \in 1..m, Z[k - 1] \in Steps[k - 1] PROVE Z[k] \in Steps[k] OBVIOUS
  <2>1. k - 1 \in 0..m BY <1>4
  <2>2. Z[k - 1] \in V BY <1>5, <2>1
  <2> QED BY <1>7, <1>8, <1>12, <2>2
<1>14. \A k \in 0..m : Z[k] \in Steps[k]
  <2>1. Z[0] \in Steps[0] BY <1>6, <1>12
  <2> QED BY <1>4, <1>13, <2>1, LoopIs
<1>15. Z[m] \in Steps[m] /\ m \in 0..m BY <1>4, <1>14
<1>16. Shelved(Z[m], n, h, W \ Gone(m)) BY <1>15 DEF Steps
<1> HIDE DEF Gone
<1> QED BY <1>1, <1>2, <1>16

\* Sequences are equal if their elements are.
LEMMA SameSeq ==
  ASSUME NEW T, NEW s \in Seq(T), NEW t \in Seq(T), Len(s) = Len(t), \A k \in 1..Len(s) : s[k] = t[k]
  PROVE  s = t
OBVIOUS
\* When none of a queue's jobs does I/O, all of them are runnable.
LEMMA AllRunnable ==
  ASSUME NEW T, NEW s \in Seq(T), NEW S, \A x \in T : S.job[x].doingIO = FALSE
  PROVE  M!Runnable(S, s) = s
<1> DEFINE n == Len(s)
           V == Seq(T)
           Steps == [k \in 0..n |-> {t \in V : Len(t) = k /\ \A i \in 1..k : t[i] = s[i]}]
           g == [e \in (1..n) \X V |-> IF S.job[s[e[1]]].doingIO THEN e[2] ELSE Append(e[2], s[e[1]])]
           Is(F) == F = [k \in 0..n |->
                           IF k = 0 THEN <<>> ELSE IF S.job[s[k]].doingIO THEN F[k - 1] ELSE Append(F[k - 1], s[k])]
           Z == CHOOSE F : Is(F)
<1>1. M!Runnable(S, s) = Z[n] BY DEF M!Runnable
<1>2. n \in Nat /\ \A k \in 1..n : s[k] \in T BY MemberOf
<1>3. \A k \in 1..n : S.job[s[k]].doingIO = FALSE BY <1>2
<1>4. <<>> \in Steps[0]
  <2>1. <<>> \in V /\ Len(<<>>) = 0 BY NoneIs
  <2>2. 0 \in 0..n /\ \A i \in 1..0 : FALSE BY <1>2
  <2> HIDE DEF V
  <2> QED BY <2>1, <2>2
<1>5. Steps \in [0..n -> SUBSET V] OBVIOUS
<1>6. ASSUME NEW k \in 1..n, NEW v \in V PROVE g[<<k, v>>] = Append(v, s[k]) BY <1>3
<1>7. ASSUME NEW k \in 1..n, NEW v \in Steps[k - 1] PROVE g[<<k, v>>] \in Steps[k]
  <2> DEFINE x == s[k]
             u == Append(v, x)
  <2>1. k - 1 \in 0..n /\ k \in 0..n BY <1>2
  <2>2. v \in V /\ Len(v) = k - 1 /\ \A i \in 1..k - 1 : v[i] = s[i] BY <2>1
  <2>3. x \in T BY <1>2
  <2>4. g[<<k, v>>] = u BY <1>6, <2>2
  <2> HIDE DEF x
  <2>5. u \in V /\ Len(u) = Len(v) + 1 /\ u[Len(v) + 1] = x /\ \A i \in 1..Len(v) : u[i] = v[i] BY <2>2, <2>3, MoreIs
  <2> HIDE DEF V, u, g
  <2>6. u \in V /\ Len(u) = k /\ u[k] = x /\ \A i \in 1..k - 1 : u[i] = v[i] BY <1>2, <2>2, <2>5
  <2>7. \A i \in 1..k : u[i] = s[i]
    <3> SUFFICES ASSUME NEW i \in 1..k PROVE u[i] = s[i] OBVIOUS
    <3>1. i = k \/ i \in 1..k - 1 BY <1>2
    <3> QED BY <2>2, <2>6, <3>1 DEF x
  <2> QED BY <2>1, <2>4, <2>6, <2>7
<1> HIDE DEF Steps, V, g, n
<1>9. PICK F \in [0..n -> V] : Solves(n, <<>>, g, F) /\ \A k \in 0..n : F[k] \in Steps[k] BY <1>2, <1>4, <1>5, <1>7, Loop
<1>10. Is(F)
  <2>1. ASSUME NEW k \in 0..n
        PROVE  F[k] = IF k = 0 THEN <<>> ELSE IF S.job[s[k]].doingIO THEN F[k - 1] ELSE Append(F[k - 1], s[k])
    <3>1. F[k] = IF k = 0 THEN <<>> ELSE g[<<k, F[k - 1]>>] BY <1>9 DEF Solves
    <3>2. k # 0 => k \in 1..n /\ k - 1 \in 0..n BY <1>2
    <3>3. k # 0 => g[<<k, F[k - 1]>>] = Append(F[k - 1], s[k]) BY <1>6, <3>2
    <3> QED BY <1>3, <3>1, <3>2, <3>3
  <2>2. F = [k \in 0..n |-> F[k]] OBVIOUS
  <2> QED BY <2>1, <2>2
<1>11. Is(Z) BY <1>10
<1> HIDE DEF Z
<1>12. Z[0] = <<>> /\ \A k \in 1..n : Z[k] = Append(Z[k - 1], s[k])
  <2>1. 0 \in 0..n /\ \A k \in 1..n : k \in 0..n /\ k # 0 BY <1>2
  <2> QED BY <1>3, <1>11, <2>1
<1>13. \A k \in 1..n : Z[k - 1] \in Steps[k - 1] => Z[k] \in Steps[k]
  <2> SUFFICES ASSUME NEW k \in 1..n, Z[k - 1] \in Steps[k - 1] PROVE Z[k] \in Steps[k] OBVIOUS
  <2>1. k - 1 \in 0..n BY <1>2
  <2>2. Z[k - 1] \in V BY <1>5, <2>1
  <2> QED BY <1>6, <1>7, <1>12, <2>2
<1>14. \A k \in 0..n : Z[k] \in Steps[k]
  <2>1. Z[0] \in Steps[0] BY <1>4, <1>12
  <2> QED BY <1>2, <1>13, <2>1, LoopIs
<1>15. Z[n] \in V /\ Len(Z[n]) = n /\ \A i \in 1..n : Z[n][i] = s[i]
  <2>1. n \in 0..n BY <1>2
  <2> QED BY <1>14, <2>1 DEF Steps
<1>16. Z[n] = s
  <2> DEFINE z == Z[n]
  <2>1. z \in Seq(T) /\ Len(z) = Len(s) /\ \A i \in 1..Len(z) : z[i] = s[i] BY <1>15 DEF V, n
  <2> HIDE DEF z
  <2>2. z = s BY <2>1, SameSeq
  <2> QED BY <2>2 DEF z
<1> QED BY <1>1, <1>16

\* What a boost collects are the jobs that wait in a queue.
LEMMA CollectedLists ==
  ASSUME NEW n \in Nat, NEW h \in Nat, NEW W, NEW S, Shelved(S, n, h, W), M!hiQueue = h
  PROVE  Lists(M!Collected(S), Left(S.job, n, W))
<1> DEFINE Under(q) == {j \in Left(S.job, n, W) : S.job[j].currPri = h \/ S.job[j].currPri < q}
           V == Seq(1..n)
           Steps == [q \in 0..h |-> {s \in V : Lists(s, Under(q))}]
           Next(q, v) == v \o M!Runnable(S, S.queue[q - 1])
           g == [e \in (1..h) \X V |-> Next(e[1], e[2])]
           Is(F) == F = [q \in 0..h |-> IF q = 0 THEN S.queue[h] ELSE Next(q, F[q - 1])]
           Z == CHOOSE F : Is(F)
           M0(q) == Members(S.job, n, q, W)
<1>1. M!Collected(S) = Z[h] BY DEF M!Collected
<1>2. /\ S.job \in [1..n -> Infos(h)] /\ S.queue \in [0..h -> Seq(1..n)] /\ \A q \in 0..h : Lists(S.queue[q], M0(q))
  BY StateParts DEF Shelved
<1>3. \A j \in Left(S.job, n, W) : S.job[j].currPri \in 0..h
  <2> SUFFICES ASSUME NEW j \in Left(S.job, n, W) PROVE S.job[j].currPri \in 0..h OBVIOUS
  <2>1. S.job[j] \in Infos(h) BY <1>2 DEF Left
  <2> QED BY <2>1, InfoIs
<1>4. Under(0) = M0(h) /\ Under(h) = Left(S.job, n, W) BY <1>3 DEF Members
<1>5. ASSUME NEW q \in 1..h PROVE Under(q) = Under(q - 1) \cup M0(q - 1) /\ Under(q - 1) \cap M0(q - 1) = {}
  BY <1>3 DEF Members
<1>u. \A q : Under(q) \subseteq 1..n BY DEF Left
<1>6. ASSUME NEW q \in 1..h PROVE M!Runnable(S, S.queue[q - 1]) = S.queue[q - 1]
  <2> DEFINE T == M0(q - 1)
             s == S.queue[q - 1]
  <2>1. q - 1 \in 0..h OBVIOUS
  <2>2. Lists(s, T) BY <1>2, <2>1
  <2>3. s \in Seq(T) BY <2>2 DEF Lists
  <2>4. \A x \in T : S.job[x].doingIO = FALSE BY DEF Members, Shelved
  <2> HIDE DEF T, s
  <2>5. M!Runnable(S, s) = s BY <2>3, <2>4, AllRunnable
  <2> QED BY <2>5 DEF s
<1> HIDE DEF Under, M0
<1>7. Steps \in [0..h -> SUBSET V] OBVIOUS
<1>8. S.queue[h] \in Steps[0]
  <2>1. h \in 0..h /\ 0 \in 0..h OBVIOUS
  <2>2. S.queue[h] \in V /\ Lists(S.queue[h], Under(0)) BY <1>2, <1>4, <2>1
  <2> HIDE DEF V
  <2> QED BY <2>1, <2>2
<1>9. \A q \in 1..h, v \in V : g[<<q, v>>] = Next(q, v) OBVIOUS
<1>10. ASSUME NEW q \in 1..h, NEW v \in Steps[q - 1] PROVE g[<<q, v>>] \in Steps[q]
  <2> DEFINE T == Under(q - 1)
             R == M0(q - 1)
             s == S.queue[q - 1]
  <2>1. q - 1 \in 0..h /\ q \in 0..h OBVIOUS
  <2>2. v \in V /\ Lists(v, T) BY <2>1
  <2>3. Lists(s, R) BY <1>2, <2>1
  <2>4. T \cap R = {} /\ T \cup R = Under(q) BY <1>5
  <2>5. g[<<q, v>>] = v \o s BY <1>6, <1>9, <2>2
  <2> HIDE DEF T, R, s, g, Next, V
  <2>6. Lists(v \o s, T \cup R) BY <2>2, <2>3, <2>4, ListsJoin
  <2>7. Lists(v \o s, Under(q)) BY <2>4, <2>6
  <2> DEFINE u == v \o s
  <2> HIDE DEF u
  <2>8. u \in V
    <3>1. Under(q) \subseteq 1..n /\ Lists(u, Under(q)) BY <1>u, <2>7 DEF u
    <3> QED BY <3>1, ListsSeq DEF V
  <2> QED BY <2>1, <2>5, <2>7, <2>8 DEF u
<1> HIDE DEF Steps, V, g, Next
<1>11. PICK F \in [0..h -> V] : Solves(h, S.queue[h], g, F) /\ \A k \in 0..h : F[k] \in Steps[k]
  <2> DEFINE st == S.queue[h]
  <2>1. st \in Steps[0] BY <1>8
  <2> HIDE DEF st
  <2>2. \E F \in [0..h -> V] : Solves(h, st, g, F) /\ \A k \in 0..h : F[k] \in Steps[k] BY <1>7, <1>10, <2>1, Loop
  <2> QED BY <2>2 DEF st
<1>12. Is(F)
  <2>1. ASSUME NEW k \in 0..h PROVE F[k] = IF k = 0 THEN S.queue[h] ELSE Next(k, F[k - 1])
    <3>1. F[k] = IF k = 0 THEN S.queue[h] ELSE g[<<k, F[k - 1]>>] BY <1>11 DEF Solves
    <3>2. k # 0 => k \in 1..h /\ k - 1 \in 0..h OBVIOUS
    <3> QED BY <1>9, <3>1, <3>2
  <2>2. F = [k \in 0..h |-> F[k]] OBVIOUS
  <2> QED BY <2>1, <2>2
<1>13. Is(Z) BY <1>12
<1> HIDE DEF Z
<1>14. Z[0] = S.queue[h] /\ \A k \in 1..h : Z[k] = Next(k, Z[k - 1])
  <2>1. 0 \in 0..h /\ \A k \in 1..h : k \in 0..h /\ k # 0 OBVIOUS
  <2> QED BY <1>13, <2>1
<1>15. \A k \in 1..h : Z[k - 1] \in Steps[k - 1] => Z[k] \in Steps[k]
  <2> SUFFICES ASSUME NEW k \in 1..h, Z[k - 1] \in Steps[k - 1] PROVE Z[k] \in Steps[k] OBVIOUS
  <2>1. k - 1 \in 0..h OBVIOUS
  <2>2. Z[k - 1] \in V BY <1>7, <2>1
  <2> QED BY <1>9, <1>10, <1>14, <2>2
<1>16. \A k \in 0..h : Z[k] \in Steps[k]
  <2>1. Z[0] \in Steps[0] BY <1>8, <1>14
  <2> QED BY <1>15, <2>1, LoopIs
<1>17. Lists(Z[h], Under(h)) BY <1>16 DEF Steps
<1> QED BY <1>1, <1>4, <1>17

\* What a boost makes of a job, and of the ticks it has run at its priority.
LEMMA BoostWithin ==
  ASSUME NEW h, OptIs(options, h), NEW info \in Infos(h), NEW r \in Nat, Within(options, info, r), NEW out,
         out = IF info.timeLeft > 0 THEN M!AtPriority(info, h, options) ELSE info
  PROVE  /\ out \in Infos(h) /\ Within(options, out, 0) /\ out.timeLeft = info.timeLeft
         /\ out.doingIO = info.doingIO /\ (info.timeLeft > 0 => out.currPri = h)
<1>1. CASE info.timeLeft > 0
  <2> DEFINE Q == options.quantum[h]
             A == options.allotment[h]
             rt == info.runTime
             tl == info.timeLeft
             fr == info.ioFreq
             io == info.doingIO
  <2>1. h \in Nat /\ h \in 0..h /\ Q \in Int /\ A \in Int BY DEF OptIs
  <2>2. /\ Described(info, info.currPri, info.ticksLeft, info.allotLeft, rt, tl, fr, io)
        /\ rt \in Nat /\ tl \in Nat /\ fr \in Nat /\ io \in BOOLEAN
    BY InfoIs
  <2>3. Described(out, h, Q, A, rt, tl, fr, io) BY <1>1, <2>2, AtPriorityIs
  <2>4. tl <= rt BY DEF Within
  <2>5. Within(options, out, 0) BY <2>1, <2>3, <2>4, FreshWithin
  <2> HIDE DEF Q, A
  <2>6. out.currPri = h /\ out.timeLeft = tl /\ out.doingIO = io BY <2>3, IsInfo
  <2>7. out \in Infos(h)
    <3>1. rt \in Nat /\ tl \in Nat /\ fr \in Nat /\ io \in BOOLEAN BY <2>2
    <3> HIDE DEF rt, tl, fr, io
    <3> QED BY <2>1, <2>3, <3>1 DEF Infos, Described
  <2> QED BY <2>5, <2>6, <2>7
<1>2. CASE ~(info.timeLeft > 0)
  <2>1. out = info BY <1>2
  <2>2. info.currPri > 0 => 0 <= options.quantum[info.currPri] * options.allotment[info.currPri]
    <3> DEFINE Q == options.quantum[info.currPri]
               A == options.allotment[info.currPri]
    <3>1. info.currPri \in 0..h BY InfoIs
    <3>2. Q \in Nat /\ A \in Int /\ (info.currPri > 0 => A > 0) BY <3>1 DEF OptIs
    <3> HIDE DEF Q, A
    <3>3. info.currPri > 0 => 0 <= Q * A BY <3>2
    <3> QED BY <3>3 DEF Q, A
  <2>3. Within(options, info, 0) BY <1>2, <2>2 DEF Within
  <2> QED BY <1>2, <2>1, <2>3
<1> QED BY <1>1, <1>2

\* A boost leaves every job where its state says.
LEMMA BoostShelves ==
  ASSUME NEW n \in Nat, NEW h \in Nat, OptIs(options, h), NEW W, NEW S, Shelved(S, n, h, W)
  PROVE  Shelved(M!Boosted(S), n, h, W)
<1> DEFINE Out(j) == IF S.job[j].timeLeft > 0 THEN M!AtPriority(S.job[j], h, options) ELSE S.job[j]
           a == [j \in 1..n |-> Out(j)]
           all == M!Collected(S)
           b == [q \in 0..h |-> IF q = h THEN all ELSE <<>>]
           c == [j \in 1..n |-> 0]
           f == M!Boosted(S)
<1>1. /\ S \in Shelves(n, h) /\ S.job \in [1..n -> Infos(h)] /\ S.queue \in [0..h -> Seq(1..n)]
      /\ S.ran \in [1..n -> Nat] /\ S = [job |-> S.job, queue |-> S.queue, ran |-> S.ran]
  BY StateParts DEF Shelved
<1>2. M!hiQueue = h BY DEF OptIs, M!hiQueue
<1>3. Lists(all, Left(S.job, n, W)) BY <1>2, CollectedLists
<1> HIDE DEF all
<1>4. all \in Seq(1..n)
  <2>1. Left(S.job, n, W) \subseteq 1..n BY DEF Left
  <2> QED BY <1>3, <2>1, ListsSeq
<1>5. f = [job |-> a, queue |-> b, ran |-> c]
  <2>1. M!BoostedQueuesOnly(S) = [job |-> S.job, queue |-> b, ran |-> S.ran]
    <3>1. M!BoostedQueuesOnly(S) = [S EXCEPT !.queue = [q \in DOMAIN @ |-> IF q = h THEN all ELSE <<>>]]
      BY <1>2 DEF M!BoostedQueuesOnly, all
    <3>2. DOMAIN S.queue = 0..h BY <1>1
    <3>3. M!BoostedQueuesOnly(S) = [S EXCEPT !.queue = b] BY <3>1, <3>2
    <3> HIDE DEF b
    <3> QED BY <1>1, <3>3
  <2> DEFINE R == [job |-> S.job, queue |-> b, ran |-> S.ran]
  <2>2. f = [R EXCEPT !.job = [j \in DOMAIN @ |-> IF @[j].timeLeft > 0 THEN M!AtPriority(@[j], h, options) ELSE @[j]],
                      !.ran = [j \in DOMAIN @ |-> 0]]
    BY <1>2, <2>1 DEF M!Boosted
  <2>3. R.job = S.job /\ R.ran = S.ran /\ DOMAIN S.job = 1..n /\ DOMAIN S.ran = 1..n BY <1>1
  <2>4. f = [R EXCEPT !.job = a, !.ran = c] BY <2>2, <2>3
  <2> HIDE DEF a, b, c
  <2> QED BY <2>4
<1>6. ASSUME NEW j \in 1..n
      PROVE  /\ a[j] \in Infos(h) /\ Within(options, a[j], 0) /\ a[j].timeLeft = S.job[j].timeLeft
             /\ a[j].doingIO = S.job[j].doingIO /\ (S.job[j].timeLeft > 0 => a[j].currPri = h)
  <2> DEFINE info == S.job[j]
             r == S.ran[j]
             out == a[j]
  <2>1. info \in Infos(h) /\ r \in Nat /\ Within(options, info, r) BY <1>1 DEF Shelved
  <2>2. out = IF info.timeLeft > 0 THEN M!AtPriority(info, h, options) ELSE info OBVIOUS
  <2> HIDE DEF info, r, out
  <2>3. /\ out \in Infos(h) /\ Within(options, out, 0) /\ out.timeLeft = info.timeLeft
        /\ out.doingIO = info.doingIO /\ (info.timeLeft > 0 => out.currPri = h)
    BY <2>1, <2>2, BoostWithin
  <2> QED BY <2>3 DEF info, out
<1>7. a \in [1..n -> Infos(h)] BY <1>6
<1>8. b \in [0..h -> Seq(1..n)]
  <2>1. <<>> \in Seq(1..n) BY NoneIs
  <2> QED BY <1>4, <2>1
<1>9. c \in [1..n -> Nat] /\ \A j \in 1..n : c[j] = 0 OBVIOUS
<1>10. b[h] = all /\ \A q \in 0..h : q # h => b[q] = <<>> OBVIOUS
<1> HIDE DEF a, b, c, f
<1>11. f \in Shelves(n, h) /\ f.job = a /\ f.queue = b /\ f.ran = c BY <1>5, <1>7, <1>8, <1>9, IsState
<1>12. \A q \in 0..h : Lists(f.queue[q], Members(f.job, n, q, W))
  <2> SUFFICES ASSUME NEW q \in 0..h PROVE Lists(b[q], Members(a, n, q, W)) BY <1>11
  <2>1. CASE q = h
    <3>1. Members(a, n, h, W) = Left(S.job, n, W) BY <1>6 DEF Members, Left
    <3> QED BY <1>3, <1>10, <2>1, <3>1
  <2>2. CASE q # h
    <3>1. Members(a, n, q, W) = {} BY <1>6, <2>2 DEF Members, Left
    <3> QED BY <1>10, <2>2, <3>1, ListsNone
  <2> QED BY <2>1, <2>2
<1>13. \A j \in 1..n : Within(options, f.job[j], f.ran[j]) BY <1>6, <1>9, <1>11
<1>14. \A j \in Left(f.job, n, W) : f.job[j].doingIO = FALSE
  <2> SUFFICES ASSUME NEW j \in Left(a, n, W) PROVE a[j].doingIO = FALSE BY <1>11
  <2>1. j \in 1..n /\ j \in Left(S.job, n, W) BY <1>6 DEF Left
  <2> QED BY <1>6, <2>1 DEF Shelved
<1>15. \A j \in W : j \in 1..n /\ f.job[j].timeLeft > 0
  <2> SUFFICES ASSUME NEW j \in W PROVE j \in 1..n /\ a[j].timeLeft > 0 BY <1>11
  <2> QED BY <1>6 DEF Shelved
<1> QED BY <1>11, <1>12, <1>13, <1>14, <1>15 DEF Shelved, f

\* The highest queue that is not empty.
LEMMA FindIs ==
  ASSUME NEW h \in Nat, NEW S, DOMAIN S.queue = 0..h, M!FindQueue(S) # -1
  PROVE  M!FindQueue(S) \in 0..h /\ S.queue[M!FindQueue(S)] # <<>>
<1> DEFINE T == {q \in 0..h : S.queue[q] # <<>>}
           B == {h - q : q \in T}
<1>1. T # {} /\ M!FindQueue(S) = M!Max(T) BY DEF M!FindQueue
<1>2. \E x \in T : \A y \in T : x >= y
  <2>1. B \in SUBSET Nat /\ B # {} BY <1>1
  <2>2. PICK m \in B : \A y \in B : m <= y
    <3> HIDE DEF B
    <3> QED BY <2>1, LeastNumber
  <2>3. PICK x \in T : m = h - x BY <2>2
  <2>4. \A y \in T : x >= y
    <3> SUFFICES ASSUME NEW y \in T PROVE x >= y OBVIOUS
    <3>1. h - x <= h - y BY <2>2, <2>3
    <3> QED BY <3>1
  <2> QED BY <2>4
<1>3. M!Max(T) = CHOOSE x \in T : \A y \in T : x >= y BY DEF M!Max
<1> HIDE DEF T
<1>4. M!Max(T) \in T BY <1>2, <1>3
<1> QED BY <1>1, <1>4 DEF T

\* The first job of the queue q runs for a tick; those of U wait for an event then.
RunIn(S, q, j, out, f, U, W) ==
  /\ j = Head(S.queue[q]) /\ out = M!AfterTick(S.job[j], q)
  /\ f = [job |-> [S.job EXCEPT ![j] = out], queue |-> M!Requeued(S, q, j, out),
          ran |-> [S.ran EXCEPT ![j] = IF out.currPri = q /\ ~(out.doingIO /\ options.stay) THEN @ + 1 ELSE 0]]
  /\ U = IF out.doingIO THEN W \cup {j} ELSE W
LEMMA RunShelves ==
  ASSUME NEW n \in Nat, NEW h \in Nat, OptIs(options, h), NEW W, NEW S, Shelved(S, n, h, W),
         NEW q \in 0..h, S.queue[q] # <<>>, NEW j, NEW out, NEW f, NEW U, RunIn(S, q, j, out, f, U, W)
  PROVE  j \in 1..n /\ j \notin W /\ Shelved(f, n, h, U)
<1> DEFINE info == S.job[j]
           r == S.ran[j]
           s == IF out.currPri = q /\ ~(out.doingIO /\ options.stay) THEN r + 1 ELSE 0
           p == out.currPri
           a == [S.job EXCEPT ![j] = out]
           b == M!Requeued(S, q, j, out)
           c == [S.ran EXCEPT ![j] = s]
           old == S.queue[q]
           rest == Tail(old)
           T0(k) == Members(S.job, n, k, W)
           T1(k) == Members(a, n, k, U)
<1>1. /\ S \in Shelves(n, h) /\ S.job \in [1..n -> Infos(h)] /\ S.queue \in [0..h -> Seq(1..n)]
      /\ S.ran \in [1..n -> Nat] /\ S = [job |-> S.job, queue |-> S.queue, ran |-> S.ran]
  BY StateParts DEF Shelved
<1>2. j \in T0(q) /\ Lists(rest, T0(q) \ {j})
  <2> DEFINE T == T0(q)
  <2>1. Lists(old, T) /\ old # <<>> /\ j = Head(old) BY DEF Shelved, RunIn
  <2> HIDE DEF T, old
  <2>2. Head(old) \in T /\ Lists(Tail(old), T \ {Head(old)}) BY <2>1, ListsTail
  <2> QED BY <2>1, <2>2 DEF T
<1>3. /\ j \in 1..n /\ j \notin W /\ info.timeLeft > 0 /\ info.currPri = q /\ info.doingIO = FALSE
      /\ info \in Infos(h) /\ r \in Nat /\ Within(options, info, r)
  <2>1. j \in 1..n /\ j \notin W /\ info.timeLeft > 0 /\ info.currPri = q BY <1>2 DEF Members, Left
  <2>2. info.doingIO = FALSE BY <1>2 DEF Members, Shelved
  <2> QED BY <1>1, <2>1, <2>2 DEF Shelved
<1>4. f = [job |-> a, queue |-> b, ran |-> c] BY <1>1, <1>3 DEF RunIn
<1>5. Ticked(info, out, r, s) BY <1>3 DEF Ticked, RunIn
<1>6. U = IF out.doingIO THEN W \cup {j} ELSE W BY DEF RunIn
<1>e. b = (LET popped == [S.queue EXCEPT ![q] = rest]
           IN CASE out.timeLeft = 0 \/ out.doingIO -> popped
                [] out.timeLeft # 0 /\ ~out.doingIO /\ info.ticksLeft = 1 -> [popped EXCEPT ![p] = Append(@, j)]
                [] OTHER -> S.queue)
  BY <1>1 DEF M!Requeued
<1> HIDE DEF b, c, s
<1>7. /\ out \in Infos(h) /\ s \in Nat /\ Within(options, out, s)
      /\ out.timeLeft = info.timeLeft - 1 /\ (out.timeLeft = 0 => out.doingIO = FALSE)
      /\ (p # q => info.ticksLeft = 1)
  <2> HIDE DEF info, r
  <2>1. /\ out \in Infos(h) /\ s \in Nat /\ Within(options, out, s)
        /\ out.timeLeft = info.timeLeft - 1 /\ (out.timeLeft = 0 => out.doingIO = FALSE)
        /\ (p # info.currPri => info.ticksLeft = 1)
    BY <1>3, <1>5, TickIs
  <2> QED BY <1>3, <2>1
<1>8. p \in 0..h /\ out.doingIO \in BOOLEAN /\ out.timeLeft \in Nat BY <1>7, InfoIs
<1>9. a \in [1..n -> Infos(h)] /\ a[j] = out /\ \A i \in 1..n : i # j => a[i] = S.job[i] BY <1>1, <1>3, <1>7
<1>10. c \in [1..n -> Nat] /\ c[j] = s /\ \A i \in 1..n : i # j => c[i] = S.ran[i] BY <1>1, <1>3, <1>7 DEF c, s
<1> HIDE DEF a
<1>11. \A i \in U : i \in 1..n /\ a[i].timeLeft > 0
  <2> SUFFICES ASSUME NEW i \in U PROVE i \in 1..n /\ a[i].timeLeft > 0 OBVIOUS
  <2>1. CASE i = j
    <3>1. out.doingIO BY <1>3, <1>6, <2>1
    <3>2. out.timeLeft # 0 BY <1>7, <3>1
    <3> QED BY <1>3, <1>8, <1>9, <2>1, <3>2
  <2>2. CASE i # j
    <3>1. i \in W BY <1>6, <2>2
    <3> QED BY <1>9, <2>2, <3>1 DEF Shelved
  <2> QED BY <2>1, <2>2
\* The other jobs stay where they are; this one is in its queue if it has time left and does no I/O.
<1>12. ASSUME NEW k, NEW i, i # j PROVE i \in T1(k) <=> i \in T0(k)
  <2>1. i \in U <=> i \in W BY <1>6, <1>12
  <2> QED BY <1>9, <1>12, <2>1 DEF Members, Left
<1>13. ASSUME NEW k PROVE j \in T1(k) <=> out.timeLeft > 0 /\ ~out.doingIO /\ p = k
  <2>1. j \in U <=> out.doingIO BY <1>3, <1>6
  <2> QED BY <1>3, <1>9, <2>1 DEF Members, Left
<1>14. ASSUME NEW k PROVE j \in T0(k) <=> k = q BY <1>3 DEF Members, Left
<1>15. \A k \in 0..h : Lists(S.queue[k], T0(k)) /\ T1(k) \subseteq 1..n BY DEF Shelved, Members, Left
<1> HIDE DEF T0, T1
<1>r. rest \in Seq(1..n)
  <2> DEFINE T == T0(q) \ {j}
  <2>1. T \subseteq 1..n BY <1>14 DEF T0, Members, Left
  <2>2. Lists(rest, T) BY <1>2
  <2> HIDE DEF T, rest
  <2> QED BY <2>1, <2>2, ListsSeq
<1>16. b \in [0..h -> Seq(1..n)] /\ \A k \in 0..h : Lists(b[k], T1(k))
  <2> DEFINE popped == [S.queue EXCEPT ![q] = rest]
  <2>1. /\ popped \in [0..h -> Seq(1..n)] /\ popped[q] = rest
        /\ \A k \in 0..h : k # q => popped[k] = S.queue[k]
    BY <1>1, <1>r
  <2>2. \A k \in 0..h : Lists(popped[k], T0(k) \ {j})
    <3> SUFFICES ASSUME NEW k \in 0..h PROVE Lists(popped[k], T0(k) \ {j}) OBVIOUS
    <3>1. CASE k = q BY <1>2, <2>1, <3>1
    <3>2. CASE k # q
      <4>1. T0(k) \ {j} = T0(k) BY <1>14, <3>2
      <4> QED BY <1>15, <2>1, <3>2, <4>1
    <3> QED BY <3>1, <3>2
  <2> HIDE DEF popped
  <2>3. CASE out.timeLeft = 0 \/ out.doingIO
    <3>1. b = popped BY <1>e, <2>3 DEF popped
    <3>2. ASSUME NEW k \in 0..h PROVE T1(k) = T0(k) \ {j} BY <1>8, <1>12, <1>13, <2>3
    <3> QED BY <2>1, <2>2, <3>1, <3>2
  <2>4. CASE out.timeLeft # 0 /\ ~out.doingIO /\ info.ticksLeft = 1
    <3> DEFINE more == Append(popped[p], j)
    <3>1. b = [popped EXCEPT ![p] = more] BY <1>e, <2>4 DEF popped
    <3>2. Lists(more, T1(p))
      <4> DEFINE T == T0(p) \ {j}
                 l == popped[p]
      <4>1. Lists(l, T) /\ j \notin T BY <1>8, <2>2
      <4>2. T1(p) = T \cup {j} BY <1>8, <1>12, <1>13, <2>4
      <4> HIDE DEF T, l
      <4>3. Lists(Append(l, j), T \cup {j}) BY <4>1, ListsMore
      <4> QED BY <4>2, <4>3 DEF l
    <3>3. more \in Seq(1..n)
      <4>1. T1(p) \subseteq 1..n BY <1>8, <1>15
      <4> HIDE DEF more
      <4> QED BY <3>2, <4>1, ListsSeq
    <3> HIDE DEF more
    <3>4. /\ b \in [0..h -> Seq(1..n)] /\ b[p] = more /\ \A k \in 0..h : k # p => b[k] = popped[k]
      BY <1>8, <2>1, <3>1, <3>3
    <3>5. ASSUME NEW k \in 0..h PROVE Lists(b[k], T1(k))
      <4>1. CASE k = p BY <3>2, <3>4, <4>1
      <4>2. CASE k # p
        <5>1. T1(k) = T0(k) \ {j} BY <1>12, <1>13, <4>2
        <5> QED BY <2>2, <3>4, <4>2, <5>1
      <4> QED BY <4>1, <4>2
    <3> QED BY <3>4, <3>5
  <2>5. CASE ~(out.timeLeft = 0 \/ out.doingIO) /\ info.ticksLeft # 1
    <3>1. b = S.queue BY <1>e, <2>5
    <3>2. p = q BY <1>7, <2>5
    <3>3. ASSUME NEW k \in 0..h PROVE T1(k) = T0(k)
      <4>1. j \in T1(k) <=> j \in T0(k) BY <1>8, <1>13, <1>14, <2>5, <3>2
      <4> QED BY <1>12, <4>1
    <3> QED BY <1>1, <1>15, <3>1, <3>3
  <2> QED BY <2>3, <2>4, <2>5
<1>17. f \in Shelves(n, h) /\ f.job = a /\ f.queue = b /\ f.ran = c BY <1>4, <1>9, <1>10, <1>16, IsState
<1>18. \A k \in 0..h : Lists(f.queue[k], Members(f.job, n, k, U)) BY <1>16, <1>17 DEF T1
<1>19. \A i \in 1..n : Within(options, f.job[i], f.ran[i])
  <2> SUFFICES ASSUME NEW i \in 1..n PROVE Within(options, a[i], c[i]) BY <1>17
  <2> QED BY <1>7, <1>9, <1>10 DEF Shelved
<1>20. \A i \in Left(f.job, n, U) : f.job[i].doingIO = FALSE
  <2> SUFFICES ASSUME NEW i \in Left(a, n, U) PROVE a[i].doingIO = FALSE BY <1>17
  <2>1. CASE i = j
    <3>1. ~out.doingIO BY <1>6, <2>1 DEF Left
    <3> QED BY <1>8, <1>9, <2>1, <3>1
  <2>2. CASE i # j
    <3>1. i \in 1..n /\ i \in Left(S.job, n, W) BY <1>6, <1>9, <2>2 DEF Left
    <3> QED BY <1>9, <2>2, <3>1 DEF Shelved
  <2> QED BY <2>1, <2>2
<1>21. \A i \in U : i \in 1..n /\ f.job[i].timeLeft > 0 BY <1>11, <1>17
<1>22. Shelved(f, n, h, U) BY <1>17, <1>18, <1>19, <1>20, <1>21 DEF Shelved
<1> QED BY <1>3, <1>22

\* THE INVARIANT.  Every job that has time left is in the queue of its priority, or in W
\* and waits for one event; what it may still run at its priority is its allotment.
LevelsAre(n, h, W) ==
  /\ n \in Nat /\ options \in MLFQOptions /\ OptIs(options, h) /\ currTime \in Nat
  /\ Shelved(M!Now, n, h, W) /\ Awaits(ioDone, n, currTime, W)
LevelsInv == \E n, h, W : LevelsAre(n, h, W)

\* A job that is loaded starts afresh at the highest priority.
LEMMA NewJobIs ==
  ASSUME NEW o, NEW h, OptIs(o, h), NEW w, NEW rt \in Nat, rt > 0, NEW fr \in Nat, w.runTime = rt, w.ioFreq = fr,
         NEW out, out = M!NewJob(w, o)
  PROVE  out \in Infos(h) /\ Within(o, out, 0) /\ out.timeLeft > 0
<1> DEFINE Q == o.quantum[h]
           A == o.allotment[h]
           z == 0
           no == FALSE
           blank == [currPri |-> z, ticksLeft |-> z, allotLeft |-> z, runTime |-> rt, timeLeft |-> rt,
                     ioFreq |-> fr, doingIO |-> no]
<1>1. h \in Nat /\ h \in 0..h /\ Q \in Int /\ A \in Int /\ M!HiQueue(o) = h BY DEF OptIs
<1>2. Described(blank, z, z, z, rt, rt, fr, no) BY DEF Described
<1>3. out = M!AtPriority(blank, h, o) BY <1>1 DEF M!NewJob
<1>4. no \in BOOLEAN OBVIOUS
<1> HIDE DEF blank, no, z
<1>5. Described(out, h, Q, A, rt, rt, fr, no) BY <1>2, <1>3, AtPriorityIs
<1>6. rt <= rt OBVIOUS
<1>7. Within(o, out, 0) BY <1>1, <1>5, <1>6, FreshWithin
<1> HIDE DEF Q, A
<1>8. out.timeLeft = rt BY <1>5, IsInfo
<1>9. out \in Infos(h) BY <1>1, <1>4, <1>5 DEF Infos, Described
<1> QED BY <1>7, <1>8, <1>9

\* It holds at the start.
LEMMA LevelsInit == M!Init => LevelsInv
<1> SUFFICES ASSUME M!Init PROVE LevelsInv OBVIOUS
<1>1. PICK w \in MLFQWorkloads, o \in MLFQOptions :
        /\ options = o /\ job = [j \in DOMAIN w |-> M!NewJob(w[j], o)]
        /\ queue = [q \in DOMAIN o.quantum |-> <<>>] /\ ioDone = M!Begins(w) /\ currTime = 0
        /\ ran = [j \in DOMAIN w |-> 0]
  BY DEF M!Init
<1> DEFINE n == Len(w)
           Work == [startTime : Nat, runTime : Nat \ {0}, ioFreq : Nat]
           a == [j \in 1..n |-> M!NewJob(w[j], o)]
           c == [j \in 1..n |-> 0]
<1>2. w \in Seq(Work) BY MLFQAssumption
<1>3. PICK h : OptIs(o, h) BY OptHolds
<1>4. Awaits(ioDone, n, 0, 1..n) BY <1>1, <1>2, BeginsAwaits
<1>5. DOMAIN w = 1..n BY <1>2
<1>6. ASSUME NEW x \in Work PROVE x.runTime \in Nat /\ x.runTime > 0 /\ x.ioFreq \in Nat OBVIOUS
<1> HIDE DEF Work
<1>7. n \in Nat /\ \A j \in 1..n : w[j] \in Work BY <1>2, MemberOf
<1> HIDE DEF n
<1> DEFINE b == [q \in 0..h |-> <<>>]
<1>8. job = a /\ queue = b /\ ran = c
  <2>1. DOMAIN o.quantum = 0..h BY <1>3 DEF OptIs
  <2> QED BY <1>1, <1>5, <2>1
<1>9. ASSUME NEW j \in 1..n PROVE a[j] \in Infos(h) /\ Within(o, a[j], 0) /\ a[j].timeLeft > 0
  <2> DEFINE x == w[j]
             rt == x.runTime
             fr == x.ioFreq
             out == M!NewJob(x, o)
  <2>1. rt \in Nat /\ rt > 0 /\ fr \in Nat BY <1>6, <1>7
  <2>2. x.runTime = rt /\ x.ioFreq = fr OBVIOUS
  <2>3. a[j] = out OBVIOUS
  <2> HIDE DEF rt, fr, x, a
  <2>4. out \in Infos(h) /\ Within(o, out, 0) /\ out.timeLeft > 0 BY <1>3, <2>1, <2>2, NewJobIs
  <2> QED BY <2>3, <2>4
<1>10. a \in [1..n -> Infos(h)] BY <1>9
<1>11. b \in [0..h -> Seq(1..n)] /\ \A q \in 0..h : b[q] = <<>>
  <2>1. <<>> \in Seq(1..n) BY NoneIs
  <2> QED BY <2>1
<1>12. c \in [1..n -> Nat] /\ \A j \in 1..n : c[j] = 0 OBVIOUS
<1> HIDE DEF a, b, c
<1> DEFINE f == [job |-> a, queue |-> b, ran |-> c]
<1>13. M!Now = f BY <1>8 DEF M!Now
<1>14. f \in Shelves(n, h) /\ f.job = a /\ f.queue = b /\ f.ran = c BY <1>10, <1>11, <1>12, IsState
<1> HIDE DEF f
<1>15. Shelved(f, n, h, 1..n)
  <2>1. Left(a, n, 1..n) = {} BY DEF Left
  <2>2. \A q \in 0..h : Lists(f.queue[q], Members(f.job, n, q, 1..n))
    <3> SUFFICES ASSUME NEW q \in 0..h PROVE Lists(b[q], Members(a, n, q, 1..n)) BY <1>14
    <3>1. Members(a, n, q, 1..n) = {} BY <2>1 DEF Members
    <3> QED BY <1>11, <3>1, ListsNone
  <2>3. \A j \in 1..n : Within(options, f.job[j], f.ran[j]) BY <1>1, <1>9, <1>12, <1>14
  <2>4. \A j \in 1..n : f.job[j].timeLeft > 0 BY <1>9, <1>14
  <2>5. \A j \in Left(f.job, n, 1..n) : f.job[j].doingIO = FALSE BY <1>14, <2>1
  <2> QED BY <1>14, <2>2, <2>3, <2>4, <2>5 DEF Shelved
<1>16. LevelsAre(n, h, 1..n) BY <1>1, <1>3, <1>4, <1>7, <1>13, <1>15 DEF LevelsAre
<1> QED BY <1>16 DEF LevelsInv

\* A turn of the main loop keeps it: boost, arrivals, and the tick of the first job.
LEMMA LevelsStep == LevelsInv /\ M!Next => LevelsInv'
<1> SUFFICES ASSUME LevelsInv, M!Turn PROVE LevelsInv' BY DEF M!Next
<1>1. PICK n, h, W : LevelsAre(n, h, W) BY DEF LevelsInv
<1>2. n \in Nat /\ OptIs(options, h) /\ currTime \in Nat /\ Shelved(M!Now, n, h, W) /\ Awaits(ioDone, n, currTime, W)
  BY <1>1 DEF LevelsAre
<1>3. h \in Nat BY <1>2 DEF OptIs
<1> DEFINE B == IF M!BoostDue THEN M!Boosted(M!Now) ELSE M!Now
           S == M!Arrived(B)
           q == M!FindQueue(S)
           R == W \ Past
           later == [t \in DOMAIN ioDone \ {currTime} |-> ioDone[t]]
<1>4. /\ IF q = -1 THEN job' = S.job /\ queue' = S.queue /\ ran' = S.ran /\ ioDone' = later ELSE M!RunFirst(S, q)
      /\ currTime' = currTime + 1 /\ options' = options
  BY DEF M!Turn
<1>5. Shelved(B, n, h, W)
  <2>1. Shelved(M!Boosted(M!Now), n, h, W) BY <1>2, <1>3, BoostShelves
  <2> QED BY <1>2, <2>1
<1>6. Awaits(later, n, currTime + 1, R)
  <2>1. \A j : j \in Past <=> \E k \in 1..Len(M!At(ioDone, currTime)) : M!At(ioDone, currTime)[k].job = j BY DEF Past
  <2> QED BY <1>2, <2>1, RestAwaits
<1> HIDE DEF B, later
<1>7. Shelved(S, n, h, R) BY <1>2, <1>3, <1>5, ArrivedShelves
<1> HIDE DEF S, R
<1>8. currTime' \in Nat /\ OptIs(options', h) /\ n \in Nat /\ options' \in MLFQOptions BY <1>1, <1>2, <1>4 DEF LevelsAre
<1>9. M!Now' = [job |-> job', queue |-> queue', ran |-> ran'] BY DEF M!Now
<1>10. /\ S \in Shelves(n, h) /\ S.queue \in [0..h -> Seq(1..n)]
       /\ S = [job |-> S.job, queue |-> S.queue, ran |-> S.ran]
  BY <1>7, StateParts DEF Shelved
<1> SUFFICES \E U : Shelved(M!Now', n, h, U) /\ Awaits(ioDone', n, currTime', U)
  <2>1. PICK U : Shelved(M!Now', n, h, U) /\ Awaits(ioDone', n, currTime', U) OBVIOUS
  <2>2. Shelved(M!Now, n, h, U)'
    <3>1. (\A i \in 1..n : Within(options, M!Now.job[i], M!Now.ran[i]))' BY <1>4, <2>1 DEF Shelved, Within
    <3> QED BY <2>1, <3>1 DEF Shelved
  <2>3. LevelsAre(n, h, U)' BY <1>8, <2>1, <2>2 DEF LevelsAre, OptIs, Awaits
  <2> QED BY <2>3 DEF LevelsInv
<1>11. CASE q = -1
  <2>1. M!Now' = S /\ ioDone' = later /\ currTime' = currTime + 1 BY <1>4, <1>9, <1>10, <1>11
  <2> QED BY <1>6, <1>7, <2>1
<1>12. CASE q # -1
  <2>1. q \in 0..h /\ S.queue[q] # <<>>
    <3>1. DOMAIN S.queue = 0..h BY <1>10
    <3> QED BY <1>3, <1>12, <3>1, FindIs
  <2>2. M!RunFirst(S, q) BY <1>4, <1>12
  <2> HIDE DEF q
  <2> DEFINE j == Head(S.queue[q])
             out == M!AfterTick(S.job[j], q)
             ended == currTime + 1 + options.ioTime
             U == IF out.doingIO THEN R \cup {j} ELSE R
             f == M!Now'
  <2>3. /\ job' = [S.job EXCEPT ![j] = out] /\ queue' = M!Requeued(S, q, j, out)
        /\ ioDone' = IF out.doingIO THEN M!Added(later, ended, M!Event(j, "IO_DONE")) ELSE later
        /\ ran' = [S.ran EXCEPT ![j] = IF out.currPri = q /\ ~(out.doingIO /\ options.stay) THEN @ + 1 ELSE 0]
    BY <2>2 DEF M!RunFirst, later
  <2>4. RunIn(S, q, j, out, f, U, R) BY <1>9, <2>3 DEF RunIn
  <2>5. currTime' = currTime + 1 /\ ended \in Nat /\ ended >= currTime + 1 /\ currTime + 1 \in Nat
    <3>1. options.ioTime \in Nat BY <1>2 DEF OptIs
    <3> DEFINE io == options.ioTime
    <3>2. ended = currTime + 1 + io /\ io \in Nat BY <3>1
    <3> HIDE DEF io, ended
    <3> QED BY <1>2, <1>4, <3>2
  <2>u. U = IF out.doingIO THEN R \cup {j} ELSE R OBVIOUS
  <2> HIDE DEF j, out, U, f, ended
  <2>6. j \in 1..n /\ j \notin R /\ Shelved(f, n, h, U) BY <1>2, <1>3, <1>7, <2>1, <2>4, RunShelves
  <2>7. Awaits(ioDone', n, currTime + 1, U)
    <3> DEFINE t0 == currTime + 1
               e == M!Event(j, "IO_DONE")
    <3>1. e \in Events(n) /\ e.job = j BY <2>6 DEF M!Event, Events
    <3>2. ioDone' = IF out.doingIO THEN M!Added(later, ended, e) ELSE later BY <2>3
    <3>3. t0 \in Nat /\ ended \in Nat /\ ended >= t0 /\ n \in Nat BY <1>2, <2>5
    <3>4. Awaits(later, n, t0, R) BY <1>6
    <3> HIDE DEF t0, e
    <3>5. Awaits(M!Added(later, ended, e), n, t0, R \cup {j}) BY <2>6, <3>1, <3>3, <3>4, EventAdded
    <3>6. Awaits(ioDone', n, t0, U) BY <2>u, <3>2, <3>4, <3>5
    <3> QED BY <3>6 DEF t0
  <2> QED BY <2>5, <2>6, <2>7 DEF f
<1> QED BY <1>11, <1>12

\* The module of the instance counts as FiniteSets does.
LEMMA LevelCounts ==
  /\ M!Cardinality({}) = 0 /\ \A x : M!Cardinality({x}) = 1
<1>1. \A S : M!Cardinality(S) = Cardinality(S) BY DEF M!Cardinality, Cardinality
<1>2. Cardinality({}) = 0 BY FS_EmptySet
<1>3. \A x : Cardinality({x}) = 1 BY FS_Singleton
<1> QED BY <1>1, <1>2, <1>3
\* The properties follow: the entries of a queue, and of the events, are told apart.
LEMMA LevelsHold == LevelsInv => M!TypeOK /\ M!OnePlace /\ M!NoGaming
<1> SUFFICES ASSUME LevelsInv PROVE M!TypeOK /\ M!OnePlace /\ M!NoGaming OBVIOUS
<1>1. PICK n, h, W : LevelsAre(n, h, W) BY DEF LevelsInv
<1>2. /\ n \in Nat /\ OptIs(options, h) /\ options \in MLFQOptions /\ Shelved(M!Now, n, h, W)
      /\ Awaits(ioDone, n, currTime, W)
  BY <1>1 DEF LevelsAre
<1>3. M!Now.job = job /\ M!Now.queue = queue /\ M!Now.ran = ran BY DEF M!Now
<1>4. /\ job \in [1..n -> Infos(h)] /\ queue \in [0..h -> Seq(1..n)] /\ ran \in [1..n -> Nat]
  BY <1>2, <1>3, StateParts DEF Shelved
<1>5. /\ \A q \in 0..h : Lists(queue[q], Members(job, n, q, W))
      /\ \A j \in 1..n : Within(options, job[j], ran[j])
      /\ \A j \in Left(job, n, W) : job[j].doingIO = FALSE
      /\ \A j \in W : j \in 1..n /\ job[j].timeLeft > 0
  BY <1>2, <1>3 DEF Shelved
<1>6. M!Jobs = 1..n /\ DOMAIN queue = 0..h BY <1>4 DEF M!Jobs
<1>7. ASSUME NEW j \in 1..n
      PROVE  /\ job[j].currPri \in 0..h /\ job[j].timeLeft \in Nat /\ job[j].runTime \in Nat
             /\ job[j].timeLeft <= job[j].runTime
  <2>1. job[j] \in Infos(h) BY <1>4
  <2>2. job[j].currPri \in 0..h /\ job[j].timeLeft \in Nat /\ job[j].runTime \in Nat BY <2>1, InfoIs
  <2> QED BY <1>5, <2>2 DEF Within
\* Where a job is found in a queue or among the events.
<1>8. ASSUME NEW q \in 0..h, NEW k \in DOMAIN queue[q]
      PROVE  /\ queue[q][k] \in Members(job, n, q, W) /\ queue[q][k] \in 1..n /\ k \in 1..Len(queue[q])
  <2>1. Lists(queue[q], Members(job, n, q, W)) /\ queue[q] \in Seq(1..n) BY <1>4, <1>5
  <2> DEFINE s == queue[q]
             T == Members(job, n, q, W)
  <2>2. s \in Seq(T) /\ T \subseteq 1..n BY <2>1 DEF Lists, Members, Left
  <2> HIDE DEF s, T
  <2>3. DOMAIN s = 1..Len(s) /\ \A i \in 1..Len(s) : s[i] \in T BY <2>2
  <2> QED BY <2>2, <2>3 DEF s, T
<1>9. ASSUME NEW t \in DOMAIN ioDone PROVE DOMAIN ioDone[t] = 1..Len(ioDone[t])
  <2>1. ioDone[t] \in Seq(Events(n)) BY <1>2 DEF Awaits
  <2> QED BY <2>1
<1>10. M!TypeOK
  <2>1. \A j \in M!Jobs : job[j].currPri \in DOMAIN queue /\ job[j].timeLeft \in 0..job[j].runTime
    BY <1>6, <1>7
  <2>2. \A q \in DOMAIN queue : M!Range(queue[q]) \subseteq M!Jobs BY <1>6, <1>8 DEF M!Range
  <2>3. \A t \in DOMAIN ioDone : t >= currTime /\ {ioDone[t][k].job : k \in DOMAIN ioDone[t]} \subseteq M!Jobs
    <3> SUFFICES ASSUME NEW t \in DOMAIN ioDone
                 PROVE  t >= currTime /\ \A k \in DOMAIN ioDone[t] : ioDone[t][k].job \in 1..n
      BY <1>6
    <3>1. t >= currTime /\ \A k \in 1..Len(ioDone[t]) : ioDone[t][k].job \in W BY <1>2 DEF Awaits
    <3> QED BY <1>5, <1>9, <3>1
  <2> QED BY <1>2, <2>1, <2>2, <2>3 DEF M!TypeOK
<1>11. ASSUME NEW j, NEW x
       PROVE  /\ x \in M!Places(j) <=> \E q \in 0..h : \E k \in DOMAIN queue[q] : queue[q][k] = j /\ x = <<q, k>>
              /\ x \in M!Waits(j) <=>
                    \E t \in DOMAIN ioDone : \E k \in DOMAIN ioDone[t] : ioDone[t][k].job = j /\ x = <<t, k>>
  BY <1>6 DEF M!Places, M!Waits
\* A job in a queue has time left and waits for no event; one that waits is of W.
<1>12. ASSUME NEW j, NEW x \in M!Places(j)
       PROVE  x[1] = job[j].currPri /\ job[j].timeLeft > 0 /\ j \notin W /\ job[j].doingIO = FALSE
  <2>1. PICK q \in 0..h : \E k \in DOMAIN queue[q] : queue[q][k] = j /\ x = <<q, k>> BY <1>11
  <2>2. PICK k \in DOMAIN queue[q] : queue[q][k] = j /\ x = <<q, k>> BY <2>1
  <2>3. j \in Members(job, n, q, W) /\ x[1] = q BY <1>8, <2>2
  <2>4. j \in Left(job, n, W) /\ job[j].currPri = q BY <2>3 DEF Members
  <2>5. job[j].timeLeft > 0 /\ j \notin W BY <2>4 DEF Left
  <2> QED BY <1>5, <2>3, <2>4, <2>5
<1>13. ASSUME NEW j, NEW x \in M!Waits(j) PROVE j \in W
  <2>1. PICK t \in DOMAIN ioDone : \E k \in DOMAIN ioDone[t] : ioDone[t][k].job = j /\ x = <<t, k>> BY <1>11
  <2>2. PICK k \in 1..Len(ioDone[t]) : ioDone[t][k].job = j BY <1>9, <2>1
  <2>3. ioDone[t][k].job \in W BY <1>2 DEF Awaits
  <2> QED BY <2>2, <2>3
<1>14. ASSUME NEW j \in W PROVE \E x : M!Waits(j) = {x}
  <2>1. PICK t \in DOMAIN ioDone : \E k \in 1..Len(ioDone[t]) : ioDone[t][k].job = j BY <1>2 DEF Awaits
  <2>2. PICK k \in 1..Len(ioDone[t]) : ioDone[t][k].job = j BY <2>1
  <2>3. <<t, k>> \in M!Waits(j) BY <1>9, <1>11, <2>2
  <2>4. ASSUME NEW x \in M!Waits(j) PROVE x = <<t, k>>
    <3>1. PICK u \in DOMAIN ioDone : \E l \in DOMAIN ioDone[u] : ioDone[u][l].job = j /\ x = <<u, l>> BY <1>11
    <3>2. PICK l \in 1..Len(ioDone[u]) : ioDone[u][l].job = j /\ x = <<u, l>> BY <1>9, <3>1
    <3>3. ioDone[u][l].job = ioDone[t][k].job BY <2>2, <3>2
    <3>4. u = t /\ l = k BY <1>2, <3>3 DEF Awaits
    <3> QED BY <3>2, <3>4
  <2>5. M!Waits(j) = {<<t, k>>} BY <2>3, <2>4
  <2> QED BY <2>5
<1>15. ASSUME NEW j \in Left(job, n, W) PROVE \E x : M!Places(j) = {x}
  <2> DEFINE q == job[j].currPri
             s == queue[q]
             T == Members(job, n, q, W)
  <2>1. j \in 1..n BY DEF Left
  <2>2. q \in 0..h BY <1>7, <2>1
  <2>3. j \in T BY DEF Members
  <2>4. Lists(s, T) BY <1>5, <2>2
  <2>5. PICK k \in 1..Len(s) : s[k] = j BY <2>3, <2>4 DEF Lists
  <2>6. DOMAIN s = 1..Len(s)
    <3>1. s \in Seq(1..n) BY <1>4, <2>2
    <3> HIDE DEF s
    <3> QED BY <3>1
  <2>7. <<q, k>> \in M!Places(j) BY <1>11, <2>2, <2>5, <2>6
  <2>8. ASSUME NEW x \in M!Places(j) PROVE x = <<q, k>>
    <3>1. PICK p \in 0..h : \E l \in DOMAIN queue[p] : queue[p][l] = j /\ x = <<p, l>> BY <1>11
    <3>2. PICK l \in DOMAIN queue[p] : queue[p][l] = j /\ x = <<p, l>> BY <3>1
    <3>3. p = q BY <1>12, <3>2
    <3>4. l \in 1..Len(s) /\ s[l] = s[k] BY <2>5, <2>6, <3>2, <3>3
    <3>5. l = k BY <2>4, <3>4 DEF Lists
    <3> QED BY <3>2, <3>3, <3>5
  <2>9. M!Places(j) = {<<q, k>>} BY <2>7, <2>8
  <2> QED BY <2>9
<1>16. M!OnePlace
  <2> SUFFICES ASSUME NEW j \in 1..n
               PROVE  IF job[j].timeLeft = 0 THEN M!Places(j) = {} /\ M!Waits(j) = {}
                      ELSE /\ M!Cardinality(M!Places(j)) + M!Cardinality(M!Waits(j)) = 1
                           /\ \A x \in M!Places(j) : x[1] = job[j].currPri /\ ~job[j].doingIO
    BY <1>6 DEF M!OnePlace, M!Finished
  <2>1. CASE job[j].timeLeft = 0
    <3>1. M!Places(j) = {}
      <4> SUFFICES ASSUME NEW x \in M!Places(j) PROVE FALSE OBVIOUS
      <4>1. job[j].timeLeft > 0 BY <1>12
      <4> QED BY <2>1, <4>1
    <3>2. M!Waits(j) = {} BY <1>5, <1>13, <2>1
    <3> QED BY <2>1, <3>1, <3>2
  <2>2. CASE job[j].timeLeft # 0 /\ j \in W
    <3>1. M!Places(j) = {} BY <1>12, <2>2
    <3>2. PICK x : M!Waits(j) = {x} BY <1>14, <2>2
    <3>3. M!Cardinality(M!Places(j)) = 0 /\ M!Cardinality(M!Waits(j)) = 1 BY <3>1, <3>2, LevelCounts
    <3> QED BY <2>2, <3>1, <3>3
  <2>3. CASE job[j].timeLeft # 0 /\ j \notin W
    <3>1. j \in Left(job, n, W) BY <1>7, <2>3 DEF Left
    <3>2. M!Waits(j) = {} BY <1>13, <2>3
    <3>3. PICK x : M!Places(j) = {x} BY <1>15, <3>1
    <3>4. M!Cardinality(M!Places(j)) = 1 /\ M!Cardinality(M!Waits(j)) = 0 BY <3>2, <3>3, LevelCounts
    <3>5. \A y \in M!Places(j) : y[1] = job[j].currPri /\ job[j].doingIO = FALSE BY <1>12
    <3> QED BY <2>3, <3>4, <3>5
  <2> QED BY <2>1, <2>2, <2>3
<1>17. M!NoGaming
  <2> SUFFICES ASSUME NEW j \in 1..n, job[j].currPri > 0
               PROVE  ran[j] <= options.quantum[job[j].currPri] * options.allotment[job[j].currPri]
    BY <1>6 DEF M!NoGaming
  <2> QED BY <1>5 DEF Within
<1> QED BY <1>10, <1>16, <1>17

-----------------------------------------------------------------------------
(* The theorem. *)

\* mlfq.py's invariant, while it runs.
LevelsSafe == Of("mlfq.py", LevelsInv)
\* THE THEOREM.  mlfq.py's conjuncts of SchedTypeOK, OnePlace and FairShare, for any
\* workload and options: no boost, arrival, I/O or end of a slice loses or doubles a job,
\* and no job runs at a priority above the lowest for longer than its allotment of slices,
\* however it divides them with I/O; with -S, for no longer between two I/Os.
THEOREM LevelsSound == MCSpec => []Of("mlfq.py", M!TypeOK /\ M!OnePlace /\ M!NoGaming)
<1>1. MCInit => LevelsSafe BY LevelsInit DEF MCInit, LevelsSafe, Of
<1>2. LevelsSafe /\ [MCNext]_vars => LevelsSafe'
  <2> SUFFICES ASSUME LevelsSafe, [MCNext]_vars PROVE LevelsSafe' OBVIOUS
  <2>0. package' = package BY DEF MCNext, vars
  <2>1. CASE package = "mlfq.py" /\ M!Next BY <2>0, <2>1, LevelsStep DEF LevelsSafe, Of
  <2>2. CASE package # "mlfq.py" BY <2>0, <2>2 DEF LevelsSafe, Of
  <2>3. CASE UNCHANGED vars
    <3>1. UNCHANGED <<package, options, job, queue, ioDone, currTime, ran>> BY <2>3 DEF vars, mvars
    <3>2. ASSUME LevelsInv PROVE LevelsInv'
      <4>1. PICK n, h, W : LevelsAre(n, h, W) BY <3>2 DEF LevelsInv
      <4>2. M!Now' = M!Now /\ options' = options /\ currTime' = currTime /\ ioDone' = ioDone BY <3>1 DEF M!Now
      <4>3. Shelved(M!Now, n, h, W)' BY <4>1, <4>2 DEF LevelsAre, Shelved, Within
      <4>4. LevelsAre(n, h, W)' BY <4>1, <4>2, <4>3 DEF LevelsAre, OptIs, Awaits
      <4> QED BY <4>4 DEF LevelsInv
    <3> QED BY <3>1, <3>2 DEF LevelsSafe, Of
  <2> QED BY <2>1, <2>2, <2>3 DEF MCNext
<1>3. LevelsSafe => Of("mlfq.py", M!TypeOK /\ M!OnePlace /\ M!NoGaming) BY LevelsHold DEF LevelsSafe, Of
<1> QED BY <1>1, <1>2, <1>3, PTL DEF MCSpec
=============================================================================
