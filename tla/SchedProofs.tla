---------------------------- MODULE SchedProofs -----------------------------
(***************************************************************************)
(* Proofs that the processor is given to whom it should be: by             *)
(* process-run.py (P), for any programs and options, by multi.py (C), for  *)
(* any workload and number of processors, and, with X86Proofs, by x86.py   *)
(* (X), for any program and schedule.                                      *)
(***************************************************************************)
EXTENDS MCSched, TLAPS, NaturalsInduction, WellFoundedInduction, FiniteSetTheorems

-----------------------------------------------------------------------------
(* Induction up to a number, and recursive functions. *)

\* A set of numbers that is not empty has a least one.
LEMMA LeastNumber ==
  ASSUME NEW S \in SUBSET Nat, S # {}
  PROVE  \E x \in S : \A y \in S : x <= y
<1>1. PICK x \in S : \A y \in S : ~ (<<y, x>> \in OpToRel(<, Nat))
  BY NatLessThanWellFounded, WFMin, Zenon
<1>2. \A y \in S : <<y, x>> \in OpToRel(<, Nat) <=> y < x
  BY DEF OpToRel
<1>3. \A y \in S : ~ (y < x) BY <1>1, <1>2, Zenon
<1> QED BY ONLY S \in SUBSET Nat, x \in S, <1>3

\* A set with 0 and with the successor of each of its numbers below n reaches n.
LEMMA Climb ==
  ASSUME NEW n \in Nat, NEW Q, 0 \in Q, \A k \in 1..n : k - 1 \in Q => k \in Q
  PROVE  \A k \in 0..n : k \in Q
<1> SUFFICES ASSUME NEW z \in 0..n, z \notin Q PROVE FALSE OBVIOUS
<1> DEFINE Bad == {k \in 0..n : k \notin Q}
<1>1. Bad \in SUBSET Nat /\ Bad # {} OBVIOUS
<1>2. PICK i \in Bad : \A y \in Bad : i <= y
  <2> HIDE DEF Bad
  <2> QED BY <1>1, LeastNumber
<1>3. i \in 1..n /\ i - 1 \in 0..n /\ ~(i <= i - 1) OBVIOUS
<1> QED BY <1>2, <1>3

\* A recursion over the numbers up to n with values in V has a solution.
Solves(n, start, g, W) == W = [k \in 0..n |-> IF k = 0 THEN start ELSE g[<<k, W[k - 1]>>]]
LEMMA Solvable ==
  ASSUME NEW n \in Nat, NEW V, NEW start \in V, NEW g, \A k \in 1..n, v \in V : g[<<k, v>>] \in V
  PROVE  \E W \in [0..n -> V] : Solves(n, start, g, W)
<1> DEFINE Q == {k \in 0..n : \E W \in [0..k -> V] : Solves(k, start, g, W)}
<1>1. 0 \in Q
  <2> DEFINE W == [k \in 0..0 |-> start]
  <2>1. \A k \in 0..0 : k = 0 OBVIOUS
  <2>2. W \in [0..0 -> V] /\ Solves(0, start, g, W) BY <2>1 DEF Solves
  <2> HIDE DEF W
  <2> QED BY <2>2
<1>2. ASSUME NEW i \in 1..n, i - 1 \in Q PROVE i \in Q
  <2>1. PICK W \in [0..i - 1 -> V] : Solves(i - 1, start, g, W) BY <1>2
  <2> DEFINE U == [k \in 0..i |-> IF k = i THEN g[<<i, W[i - 1]>>] ELSE W[k]]
  <2>2. i - 1 \in 0..i - 1 /\ i \in 0..n /\ i # 0 BY <1>2
  <2>3. ASSUME NEW k \in 0..i, k # i PROVE k \in 0..i - 1 BY <1>2, <2>3
  <2>4. U \in [0..i -> V] BY <2>1, <2>2, <2>3
  <2>5. ASSUME NEW k \in 0..i PROVE U[k] = IF k = 0 THEN start ELSE g[<<k, U[k - 1]>>]
    <3>1. CASE k = i
      <4>1. i - 1 \in 0..i /\ i - 1 # i BY <2>2
      <4> QED BY <2>2, <3>1, <4>1
    <3>2. CASE k # i
      <4>1. k \in 0..i - 1 /\ U[k] = W[k] BY <2>3, <3>2
      <4>2. W[k] = IF k = 0 THEN start ELSE g[<<k, W[k - 1]>>] BY <2>1, <4>1 DEF Solves
      <4>3. k # 0 => k - 1 \in 0..i /\ k - 1 # i BY <4>1
      <4>4. k # 0 => U[k - 1] = W[k - 1] BY <4>3
      <4> QED BY <4>1, <4>2, <4>4
    <3> QED BY <3>1, <3>2
  <2>6. U = [k \in 0..i |-> U[k]] OBVIOUS
  <2> HIDE DEF U
  <2>7. Solves(i, start, g, U) BY <2>5, <2>6 DEF Solves
  <2> QED BY <2>2, <2>4, <2>7
<1>3. n \in Q
  <2> HIDE DEF Q
  <2>1. \A k \in 0..n : k \in Q BY <1>1, <1>2, Climb
  <2> QED BY <2>1
<1> QED BY <1>3

\* The modules of the instances count and choose as this one does.
LEMMA Counts == \A S : P!Cardinality(S) = Cardinality(S) /\ C!Cardinality(S) = Cardinality(S)
BY DEF P!Cardinality, C!Cardinality, Cardinality

\* The least of some numbers.
LEMMA LeastIs ==
  ASSUME NEW S \in SUBSET Nat, S # {}
  PROVE  /\ P!Min(S) \in S /\ \A y \in S : P!Min(S) <= y
         /\ C!Min(S) \in S /\ \A y \in S : C!Min(S) <= y
<1>1. \E x \in S : \A y \in S : x <= y BY LeastNumber
<1> QED BY <1>1, Zenon DEF P!Min, C!Min

-----------------------------------------------------------------------------
(* process-run.py: what its procedures do to the scheduler's state. *)

States == {"RUNNING", "READY", "BLOCKED", "DONE"}
Texts == Seq({"cpu", "io", "io_done"})
\* The states of a scheduler of n processes.
Scheds(n) == [info : [0..n - 1 -> [code : Texts, state : States]], curr : 0..n - 1, failed : BOOLEAN]
\* There are n processes.
Procs(n) == n \in Nat \ {0} /\ P!Pids = 0..n - 1
\* In U the process pid has the state st, and nothing else has changed but, perhaps, which one is current.
Moved(S, U, n, pid, st) ==
  /\ U \in Scheds(n) /\ U.failed = S.failed
  /\ \A q \in 0..n - 1 : /\ U.info[q].code = S.info[q].code
                         /\ U.info[q].state = IF q = pid THEN st ELSE S.info[q].state

\* The parts of a state.
LEMMA Parts ==
  ASSUME NEW n, NEW S \in Scheds(n)
  PROVE  /\ S = [info |-> S.info, curr |-> S.curr, failed |-> S.failed]
         /\ S.info \in [0..n - 1 -> [code : Texts, state : States]] /\ S.curr \in 0..n - 1 /\ S.failed \in BOOLEAN
         /\ \A q \in 0..n - 1 : S.info[q].code \in Texts /\ S.info[q].state \in States
BY DEF Scheds

\* What move_to_* gives is a state, and if its assertion holds, the move.
LEMMA MoveIs ==
  ASSUME NEW n, NEW S \in Scheds(n), NEW pid \in 0..n - 1, NEW e, NEW st \in States
  PROVE  /\ P!Move(S, pid, e, st) \in Scheds(n) /\ P!Move(S, pid, e, st).curr = S.curr
         /\ S.info[pid].state = e => Moved(S, P!Move(S, pid, e, st), n, pid, st)
<1> DEFINE one == [S.info EXCEPT ![pid].state = st]
           U == [info |-> one, curr |-> S.curr, failed |-> S.failed]
           E == [info |-> S.info, curr |-> S.curr, failed |-> TRUE]
<1>1. /\ S = [info |-> S.info, curr |-> S.curr, failed |-> S.failed]
      /\ S.info \in [0..n - 1 -> [code : Texts, state : States]] /\ S.curr \in 0..n - 1 /\ S.failed \in BOOLEAN
  BY Parts
<1>2. one \in [0..n - 1 -> [code : Texts, state : States]]
      /\ \A q \in 0..n - 1 : /\ one[q].code = S.info[q].code
                             /\ one[q].state = IF q = pid THEN st ELSE S.info[q].state
  BY <1>1
<1>3. [S EXCEPT !.info[pid].state = st] = U BY <1>1
<1>4. [S EXCEPT !.failed = TRUE] = E
  <2>1. \A v : [S EXCEPT !.failed = v] = [info |-> S.info, curr |-> S.curr, failed |-> v] BY <1>1
  <2> QED BY <2>1
<1>5. P!Move(S, pid, e, st) = IF S.info[pid].state = e THEN U ELSE E BY <1>3, <1>4 DEF P!Move, P!Is
<1> HIDE DEF one
<1>6. U \in Scheds(n) /\ U.curr = S.curr /\ U.failed = S.failed /\ U.info = one BY <1>1, <1>2 DEF Scheds
<1>7. E \in Scheds(n) /\ E.curr = S.curr BY <1>1 DEF Scheds
<1> HIDE DEF U, E
<1> QED BY <1>2, <1>5, <1>6, <1>7 DEF Moved

\* next_proc(pid) makes pid the current process, and runs it if it is ready.
LEMMA RunIs ==
  ASSUME NEW n, NEW S \in Scheds(n), NEW pid \in 0..n - 1
  PROVE  /\ P!RunProc(S, pid) \in Scheds(n) /\ P!RunProc(S, pid).curr = pid
         /\ S.info[pid].state = "READY" => Moved(S, P!RunProc(S, pid), n, pid, "RUNNING")
<1> DEFINE U == [info |-> S.info, curr |-> pid, failed |-> S.failed]
<1>1. /\ S = [info |-> S.info, curr |-> S.curr, failed |-> S.failed]
      /\ S.info \in [0..n - 1 -> [code : Texts, state : States]] /\ S.curr \in 0..n - 1 /\ S.failed \in BOOLEAN
  BY Parts
<1>2. [S EXCEPT !.curr = pid] = U BY <1>1
<1>3. U \in Scheds(n) /\ U.curr = pid /\ U.failed = S.failed /\ U.info = S.info BY <1>1 DEF Scheds
<1>4. P!RunProc(S, pid) = P!Move(U, pid, "READY", "RUNNING") BY <1>2 DEF P!RunProc
<1>5. "RUNNING" \in States BY DEF States
<1> HIDE DEF U
<1>6. /\ P!Move(U, pid, "READY", "RUNNING") \in Scheds(n)
      /\ P!Move(U, pid, "READY", "RUNNING").curr = U.curr
      /\ U.info[pid].state = "READY" => Moved(U, P!Move(U, pid, "READY", "RUNNING"), n, pid, "RUNNING")
  BY <1>3, <1>5, MoveIs
<1> QED BY <1>3, <1>4, <1>6 DEF Moved

\* next_proc() looks at every process, the next one by number first.
LEMMA AheadIs ==
  ASSUME NEW n, Procs(n), NEW S \in Scheds(n)
  PROVE  /\ P!Cardinality(P!Pids) = n
         /\ \A k \in 1..n : P!Ahead(S, k) \in 0..n - 1
         /\ \A q \in 0..n - 1 : \E k \in 1..n : P!Ahead(S, k) = q
         /\ S.curr + 1 < n => P!Ahead(S, 1) = S.curr + 1
<1>1. P!Cardinality(P!Pids) = n
  <2>1. Cardinality(0..n - 1) = n BY FS_Interval DEF Procs
  <2> QED BY <2>1, Counts DEF Procs
<1>2. n \in Nat /\ n > 0 /\ S.curr \in 0..n - 1 BY Parts DEF Procs
<1> DEFINE a == S.curr
<1>3. \A k \in 1..n : P!Ahead(S, k) = (a + k) % n BY <1>1 DEF P!Ahead
<1> HIDE DEF a
<1>4. a \in Nat /\ a < n BY <1>2 DEF a
<1>5. \A k \in 1..n : (a + k) % n = IF a + k < n THEN a + k ELSE a + k - n
  <2> SUFFICES ASSUME NEW k \in 1..n PROVE (a + k) % n = IF a + k < n THEN a + k ELSE a + k - n OBVIOUS
  <2>1. CASE a + k < n BY <1>2, <1>4, <2>1
  <2>2. CASE a + k >= n
    <3>1. a + k - n \in Nat /\ a + k - n < n BY <1>2, <1>4, <2>2
    <3>2. \A m \in Nat : m < n => (m + n) % n = m BY <1>2
    <3>3. ((a + k - n) + n) % n = a + k - n BY <3>1, <3>2
    <3>4. (a + k - n) + n = a + k BY <1>2, <1>4
    <3> QED BY <1>2, <1>4, <2>2, <3>3, <3>4
  <2> QED BY <1>2, <1>4, <2>1, <2>2
<1>6. ASSUME NEW q \in 0..n - 1 PROVE \E k \in 1..n : (a + k) % n = q
  <2>1. CASE q > a
    <3>1. q - a \in 1..n /\ a + (q - a) = q /\ q < n BY <1>2, <1>4, <2>1
    <3>2. (a + (q - a)) % n = q BY <1>5, <3>1
    <3> QED BY <3>1, <3>2
  <2>2. CASE q <= a
    <3>1. q - a + n \in 1..n BY <1>2, <1>4, <2>2
    <3>2. \A k \in 1..n : k = q - a + n => (IF a + k < n THEN a + k ELSE a + k - n) = q BY <1>2, <1>4
    <3>3. \A k \in 1..n : k = q - a + n => (a + k) % n = q BY <1>5, <3>2
    <3> QED BY <3>1, <3>3
  <2> QED BY <1>4, <2>1, <2>2
<1>7. \A k \in 1..n : (a + k) % n \in 0..n - 1 BY <1>2, <1>4
<1>8. 1 \in 1..n BY <1>2
<1> QED BY <1>1, <1>3, <1>5, <1>6, <1>7, <1>8 DEF a

\* next_proc() runs a ready process if there is one, the next one by number if it is ready.
LEMMA NextIs ==
  ASSUME NEW n, Procs(n), NEW S \in Scheds(n)
  PROVE  /\ (\A q \in 0..n - 1 : S.info[q].state # "READY") => P!NextProc(S) = S
         /\ (\E q \in 0..n - 1 : S.info[q].state = "READY") =>
              \E pid \in 0..n - 1 : /\ S.info[pid].state = "READY" /\ P!NextProc(S) = P!RunProc(S, pid)
                                   /\ (S.curr + 1 < n /\ S.info[S.curr + 1].state = "READY" => pid = S.curr + 1)
         /\ P!NextProc(S) \in Scheds(n)
<1> DEFINE R == {k \in 1..n : S.info[P!Ahead(S, k)].state = "READY"}
           pid == P!Ahead(S, P!Min(R))
<1>1. P!NextProc(S) = IF R = {} THEN S ELSE P!RunProc(S, pid)
  <2>1. P!Cardinality(P!Pids) = n BY AheadIs
  <2> QED BY <2>1 DEF P!NextProc, P!Is
<1>2. n \in Nat /\ n > 0 /\ S.curr \in 0..n - 1 BY Parts DEF Procs
<1>3. R \in SUBSET Nat /\ \A k \in R : k \in 1..n /\ S.info[P!Ahead(S, k)].state = "READY" BY <1>2
<1>4. ASSUME NEW q \in 0..n - 1, S.info[q].state = "READY" PROVE R # {}
  <2>1. PICK k \in 1..n : P!Ahead(S, k) = q BY AheadIs
  <2>2. k \in R BY <1>4, <2>1
  <2> QED BY <2>2
<1>5. S.curr + 1 < n /\ S.info[S.curr + 1].state = "READY" => 1 \in R
  <2>1. 1 \in 1..n BY <1>2
  <2> QED BY <2>1, AheadIs
<1>6. R # {} => /\ P!Min(R) \in R /\ \A y \in R : P!Min(R) <= y
  <2> HIDE DEF R
  <2> QED BY <1>3, LeastIs
<1>7. 1 \in R => P!Min(R) = 1
  <2> HIDE DEF R
  <2> SUFFICES ASSUME 1 \in R PROVE P!Min(R) = 1 OBVIOUS
  <2>1. P!Min(R) \in 1..n /\ P!Min(R) <= 1 BY <1>3, <1>6
  <2> QED BY <1>2, <2>1
<1>8. R # {} => pid \in 0..n - 1 /\ S.info[pid].state = "READY"
  <2> HIDE DEF R
  <2> QED BY <1>3, <1>6, AheadIs
<1>9. S.curr + 1 < n /\ S.info[S.curr + 1].state = "READY" => pid = S.curr + 1
  <2> HIDE DEF R
  <2> QED BY <1>5, <1>7, AheadIs
<1>10. (\A q \in 0..n - 1 : S.info[q].state # "READY") => R = {} BY AheadIs
<1> HIDE DEF R, pid
<1> QED BY <1>1, <1>4, <1>8, <1>9, <1>10, RunIs

\* Nothing has failed, no process but the current one runs, those in W are blocked,
\* and who is done has executed everything.
Base(S, n, W) ==
  /\ S \in Scheds(n) /\ S.failed = FALSE
  /\ \A q \in 0..n - 1 :
       /\ S.info[q].state = "RUNNING" => q = S.curr
       /\ S.info[q].state = "BLOCKED" <=> q \in W
       /\ S.info[q].state = "DONE" => S.info[q].code = <<>>
\* SWITCH_ON_IO: some process runs while one is ready.
Busy(S, n) == (\E q \in 0..n - 1 : S.info[q].state = "READY") => S.info[S.curr].state = "RUNNING"
\* SWITCH_ON_END: the processes before the current one are done, those after it have to wait.
InTurn(S, n) ==
  /\ \A q \in 0..n - 1 : (q < S.curr => S.info[q].state = "DONE") /\ (q > S.curr => S.info[q].state = "READY")
  /\ S.info[S.curr].state # "READY"
  /\ S.info[S.curr].state = "DONE" => S.curr = n - 1
Right(S, n, on) == IF on THEN Busy(S, n) ELSE InTurn(S, n)

\* A process that is ready may be run when none is running.
LEMMA Resumes ==
  ASSUME NEW n, NEW W, NEW S, Base(S, n, W), NEW pid \in 0..n - 1, S.info[pid].state = "READY",
         \A q \in 0..n - 1 : S.info[q].state # "RUNNING"
  PROVE  /\ Base(P!RunProc(S, pid), n, W) /\ P!RunProc(S, pid).curr = pid
         /\ \A q \in 0..n - 1 : P!RunProc(S, pid).info[q].state = IF q = pid THEN "RUNNING" ELSE S.info[q].state
<1>1. P!RunProc(S, pid).curr = pid /\ Moved(S, P!RunProc(S, pid), n, pid, "RUNNING") BY RunIs DEF Base
<1> QED BY <1>1 DEF Base, Moved

\* next_proc() keeps Base when the current process does not run, and leaves the
\* processor idle only when no process is ready; the next in turn is the next one.
LEMMA NextKeeps ==
  ASSUME NEW n, Procs(n), NEW W, NEW S, Base(S, n, W), S.info[S.curr].state # "RUNNING"
  PROVE  /\ Base(P!NextProc(S), n, W) /\ Busy(P!NextProc(S), n)
         /\ /\ S.info[S.curr].state = "DONE"
            /\ \A q \in 0..n - 1 : (q < S.curr => S.info[q].state = "DONE") /\ (q > S.curr => S.info[q].state = "READY")
            => InTurn(P!NextProc(S), n) /\ P!NextProc(S).curr >= S.curr
<1> DEFINE U == P!NextProc(S)
<1>1. n \in Nat /\ n > 0 /\ S \in Scheds(n) /\ S.curr \in 0..n - 1 BY Parts DEF Procs, Base
<1>2. \A q \in 0..n - 1 : S.info[q].state # "RUNNING" BY DEF Base
<1>3. CASE \A q \in 0..n - 1 : S.info[q].state # "READY"
  <2>1. U = S BY <1>1, <1>3, NextIs
  <2>2. (\A q \in 0..n - 1 : q > S.curr => S.info[q].state = "READY") => S.curr = n - 1
    <3> SUFFICES ASSUME \A q \in 0..n - 1 : q > S.curr => S.info[q].state = "READY" PROVE S.curr = n - 1 OBVIOUS
    <3>1. n - 1 \in 0..n - 1 BY <1>1
    <3>2. ~(n - 1 > S.curr) BY <1>3, <3>1
    <3> QED BY <1>1, <3>2
  <2>3. S.curr >= S.curr BY <1>1
  <2> QED BY <1>3, <2>1, <2>2, <2>3 DEF Busy, InTurn
<1>4. CASE \E q \in 0..n - 1 : S.info[q].state = "READY"
  <2>1. PICK pid \in 0..n - 1 : /\ S.info[pid].state = "READY" /\ U = P!RunProc(S, pid)
                                /\ (S.curr + 1 < n /\ S.info[S.curr + 1].state = "READY" => pid = S.curr + 1)
    BY <1>1, <1>4, NextIs
  <2>2. /\ Base(U, n, W) /\ U.curr = pid
        /\ \A q \in 0..n - 1 : U.info[q].state = IF q = pid THEN "RUNNING" ELSE S.info[q].state
    BY <1>2, <2>1, Resumes
  <2> HIDE DEF U
  <2>3. Busy(U, n) BY <2>2 DEF Busy
  <2>4. ASSUME S.info[S.curr].state = "DONE",
               \A q \in 0..n - 1 : (q < S.curr => S.info[q].state = "DONE") /\ (q > S.curr => S.info[q].state = "READY")
        PROVE  InTurn(U, n) /\ U.curr >= S.curr
    <3>1. pid > S.curr BY <1>1, <2>1, <2>4
    <3>2. S.curr + 1 \in 0..n - 1 /\ S.curr + 1 > S.curr /\ S.curr + 1 < n BY <1>1, <3>1
    <3>3. pid = S.curr + 1 BY <2>1, <2>4, <3>2
    <3>4. \A q \in 0..n - 1 : (q < pid => q < S.curr \/ q = S.curr) /\ (q > pid => q > S.curr) /\ (q < pid => q # pid) /\ (q > pid => q # pid)
      BY <1>1, <3>3
    <3>5. \A q \in 0..n - 1 : (q < pid => U.info[q].state = "DONE") /\ (q > pid => U.info[q].state = "READY")
      BY <2>2, <2>4, <3>4
    <3>6. U.info[pid].state = "RUNNING" BY <2>2
    <3>7. pid >= S.curr BY <1>1, <3>1
    <3> QED BY <2>2, <3>5, <3>6, <3>7 DEF InTurn
  <2> QED BY <2>2, <2>3, <2>4 DEF U
<1> QED BY <1>3, <1>4

\* check_if_done keeps both, and in turn only goes on.
LEMMA CheckKeeps ==
  ASSUME NEW n, Procs(n), NEW W, NEW S, Base(S, n, W), NEW on, Right(S, n, on)
  PROVE  /\ Base(P!CheckIfDone(S), n, W) /\ Right(P!CheckIfDone(S), n, on)
         /\ ~on => P!CheckIfDone(S).curr >= S.curr
<1>1. n \in Nat /\ n > 0 /\ S \in Scheds(n) /\ S.curr \in 0..n - 1 BY Parts DEF Procs, Base
<1>2. CASE ~(S.info[S.curr].code = <<>> /\ S.info[S.curr].state = "RUNNING")
  <2>1. P!CheckIfDone(S) = S BY <1>2 DEF P!CheckIfDone, P!Is
  <2> QED BY <1>1, <2>1
<1>3. CASE S.info[S.curr].code = <<>> /\ S.info[S.curr].state = "RUNNING"
  <2> DEFINE U == P!Move(S, S.curr, "RUNNING", "DONE")
  <2>1. P!CheckIfDone(S) = P!NextProc(U) BY <1>3 DEF P!CheckIfDone, P!Is
  <2>2. U.curr = S.curr /\ Moved(S, U, n, S.curr, "DONE") BY <1>1, <1>3, MoveIs DEF States
  <2> HIDE DEF U
  <2>3. Base(U, n, W) /\ U.info[U.curr].state = "DONE" BY <1>1, <1>3, <2>2 DEF Base, Moved
  <2>4. /\ Base(P!NextProc(U), n, W) /\ Busy(P!NextProc(U), n)
        /\ (\A q \in 0..n - 1 : (q < U.curr => U.info[q].state = "DONE") /\ (q > U.curr => U.info[q].state = "READY"))
           => InTurn(P!NextProc(U), n) /\ P!NextProc(U).curr >= U.curr
    BY <2>3, NextKeeps
  <2>5. ~on => \A q \in 0..n - 1 : (q < U.curr => U.info[q].state = "DONE") /\ (q > U.curr => U.info[q].state = "READY")
    BY <1>1, <2>2 DEF Right, InTurn, Moved
  <2> QED BY <2>1, <2>2, <2>4, <2>5 DEF Right
<1> QED BY <1>2, <1>3

\* A process that could run is the only one, or there is another.
Runnable(S, q) == S.info[q].state = "READY" \/ S.info[q].state = "RUNNING"
Alone(S, n, pid) == \A q \in 0..n - 1 : Runnable(S, q) => q = pid
LEMMA RunnableIs ==
  ASSUME NEW n, Procs(n), NEW S, NEW pid \in 0..n - 1, Runnable(S, pid)
  PROVE  /\ P!NumRunnable(S) = 1 <=> Alone(S, n, pid)
         /\ P!NumRunnable(S) > 1 <=> ~Alone(S, n, pid)
<1> DEFINE R == {q \in 0..n - 1 : Runnable(S, q)}
<1>1. P!NumRunnable(S) = Cardinality(R)
  <2>1. P!NumRunnable(S) = P!Cardinality(R) BY DEF P!NumRunnable, P!Is, Runnable, Procs
  <2> QED BY <2>1, Counts
<1>2. IsFiniteSet(R)
  <2>1. n - 1 \in Int /\ 0 \in Int BY DEF Procs
  <2>2. IsFiniteSet(0..n - 1) BY <2>1, FS_Interval
  <2> QED BY <2>2, FS_Subset
<1>3. pid \in R OBVIOUS
<1>4. Alone(S, n, pid) <=> \A q \in R : q = pid BY DEF Alone
<1> HIDE DEF R
<1>5. Cardinality(R) \in Nat /\ Cardinality(R) # 0 BY <1>2, <1>3, FS_CardinalityType, FS_EmptySet
<1>6. Cardinality(R) = 1 <=> \E x : R = {x} BY <1>2, FS_Singleton
<1>7. (\E x : R = {x}) <=> \A q \in R : q = pid
  <2>1. (\A q \in R : q = pid) => R = {pid} BY <1>3
  <2> QED BY <1>3, <2>1
<1>8. Cardinality(R) = 1 <=> Alone(S, n, pid) BY <1>4, <1>6, <1>7, Zenon
<1>9. Cardinality(R) > 1 <=> ~(Cardinality(R) = 1) BY <1>5
<1>10. Cardinality(R) > 1 <=> ~Alone(S, n, pid) BY <1>8, <1>9, Zenon
<1> QED BY <1>1, <1>8, <1>10, Zenon

\* IO_RUN_LATER runs the process when it is alone, or was waited for.
LEMMA LaterIs ==
  ASSUME NEW n, Procs(n), NEW S \in Scheds(n), NEW pid \in 0..n - 1, S.info[pid].state = "READY"
  PROVE  P!RunLater(S, pid) = IF Alone(S, n, pid) \/ ~options.on_io THEN P!RunProc(S, pid) ELSE S
<1> DEFINE U == P!RunProc(S, pid)
<1>1. Moved(S, U, n, pid, "RUNNING") BY RunIs
<1>2. Runnable(S, pid) /\ Runnable(U, pid) BY <1>1 DEF Runnable, Moved
<1>3. Alone(U, n, pid) <=> Alone(S, n, pid) BY <1>1, <1>2 DEF Alone, Runnable, Moved
<1>4. /\ P!NumRunnable(S) = 1 <=> Alone(S, n, pid)
      /\ P!NumRunnable(S) > 1 <=> ~Alone(S, n, pid)
      /\ P!NumRunnable(U) = 1 <=> Alone(U, n, pid)
  BY <1>2, RunnableIs
<1> DEFINE V == IF ~options.on_io /\ P!NumRunnable(S) > 1 THEN U ELSE S
<1>5. P!RunLater(S, pid) = IF P!NumRunnable(V) = 1 THEN P!RunProc(V, pid) ELSE V BY DEF P!RunLater
<1>6. /\ ~options.on_io /\ ~Alone(S, n, pid) => V = U
      /\ options.on_io \/ Alone(S, n, pid) => V = S
  <2>1. ~options.on_io /\ ~Alone(S, n, pid) => ~options.on_io /\ P!NumRunnable(S) > 1 BY <1>4, Zenon
  <2>2. options.on_io \/ Alone(S, n, pid) => ~(~options.on_io /\ P!NumRunnable(S) > 1) BY <1>4, Zenon
  <2> HIDE DEF U
  <2> QED BY <2>1, <2>2
<1> HIDE DEF V
<1>7. CASE Alone(S, n, pid)
  <2>1. V = S /\ P!NumRunnable(V) = 1 BY <1>4, <1>6, <1>7, Zenon
  <2> QED BY <1>5, <1>7, <2>1
<1>8. CASE ~Alone(S, n, pid) /\ options.on_io
  <2>1. V = S /\ ~(P!NumRunnable(V) = 1) BY <1>4, <1>6, <1>8, Zenon
  <2> QED BY <1>5, <1>8, <2>1
<1>9. CASE ~Alone(S, n, pid) /\ ~options.on_io
  <2>1. V = U BY <1>6, <1>9, Zenon
  <2>2. ~(P!NumRunnable(V) = 1) BY <1>3, <1>4, <1>9, <2>1, Zenon
  <2> QED BY <1>5, <1>9, <2>1, <2>2
<1> QED BY <1>7, <1>8, <1>9

\* Whatever the scheduler's state, check_if_done and the end of an I/O lead to one.
LEMMA IoDoneState ==
  ASSUME NEW n, Procs(n), NEW S \in Scheds(n), NEW pid \in 0..n - 1
  PROVE  P!IoDone(S, pid) \in Scheds(n)
<1>1. \A T \in Scheds(n) : P!CheckIfDone(T) \in Scheds(n)
  <2> TAKE T \in Scheds(n)
  <2>1. T.curr \in 0..n - 1 /\ "DONE" \in States BY Parts DEF States
  <2>2. P!Move(T, T.curr, "RUNNING", "DONE") \in Scheds(n) BY <2>1, MoveIs
  <2> QED BY <2>2, NextIs DEF P!CheckIfDone
<1> DEFINE U == P!Move(S, pid, "BLOCKED", "READY")
<1>2. U \in Scheds(n) /\ U.curr \in 0..n - 1 /\ "READY" \in States
  <2>1. "READY" \in States BY DEF States
  <2>2. U \in Scheds(n) BY <2>1, MoveIs
  <2> QED BY <2>1, <2>2, Parts
<1>3. P!IoDone(S, pid) = P!CheckIfDone(IF options.immediate THEN P!RunImmediately(U, pid) ELSE P!RunLater(U, pid))
  BY DEF P!IoDone
<1> HIDE DEF U
<1>4. P!RunImmediately(U, pid) \in Scheds(n)
  <2>1. P!Move(U, U.curr, "RUNNING", "READY") \in Scheds(n) BY <1>2, MoveIs
  <2> QED BY <1>2, <2>1, RunIs DEF P!RunImmediately
<1>5. P!RunLater(U, pid) \in Scheds(n)
  <2>1. P!RunProc(U, pid) \in Scheds(n) BY <1>2, RunIs
  <2>2. P!RunProc(P!RunProc(U, pid), pid) \in Scheds(n) BY <2>1, RunIs
  <2> QED BY <1>2, <2>1, <2>2 DEF P!RunLater
<1> QED BY <1>1, <1>3, <1>4, <1>5

\* The end of an I/O keeps both: the process that waited is blocked no longer.
LEMMA IoDoneKeeps ==
  ASSUME NEW n, Procs(n), NEW W, NEW S, Base(S, n, W), Right(S, n, options.on_io), NEW pid \in 0..n - 1, pid \in W,
         options.on_io \in BOOLEAN
  PROVE  /\ Base(P!IoDone(S, pid), n, W \ {pid}) /\ Right(P!IoDone(S, pid), n, options.on_io)
         /\ ~options.on_io => P!IoDone(S, pid).curr >= S.curr
<1> DEFINE U == P!Move(S, pid, "BLOCKED", "READY")
           V == IF options.immediate THEN P!RunImmediately(U, pid) ELSE P!RunLater(U, pid)
<1>0. n \in Nat /\ n > 0 /\ S \in Scheds(n) /\ S.curr \in 0..n - 1 BY Parts DEF Procs, Base
<1>1. S.info[pid].state = "BLOCKED" BY DEF Base
<1>2. U.curr = S.curr /\ Moved(S, U, n, pid, "READY") BY <1>0, <1>1, MoveIs DEF States
<1>3. P!IoDone(S, pid) = P!CheckIfDone(V) BY DEF P!IoDone
<1>r. /\ options.immediate => V = P!RunImmediately(U, pid)
      /\ ~options.immediate => V = P!RunLater(U, pid)
  OBVIOUS
<1> HIDE DEF U, V
<1>4. Base(U, n, W \ {pid}) /\ U.info[pid].state = "READY" BY <1>0, <1>1, <1>2 DEF Base, Moved
<1>5. ~options.on_io => /\ pid = S.curr
                        /\ \A q \in 0..n - 1 : q # pid => U.info[q].state # "RUNNING"
                        /\ \A q \in 0..n - 1 : (q < pid => U.info[q].state = "DONE") /\ (q > pid => U.info[q].state = "READY")
  <2> SUFFICES ASSUME ~options.on_io
               PROVE  /\ pid = S.curr
                      /\ \A q \in 0..n - 1 : q # pid => U.info[q].state # "RUNNING"
                      /\ \A q \in 0..n - 1 : (q < pid => U.info[q].state = "DONE") /\ (q > pid => U.info[q].state = "READY")
    OBVIOUS
  <2>1. InTurn(S, n) BY DEF Right
  <2>2. ~(pid < S.curr) /\ ~(pid > S.curr) BY <1>1, <2>1 DEF InTurn
  <2>3. pid = S.curr BY <1>0, <2>2
  <2>4. \A q \in 0..n - 1 : (q < pid => q # pid) /\ (q > pid => q # pid) BY <1>0
  <2> QED BY <1>2, <1>4, <2>1, <2>3, <2>4 DEF InTurn, Moved, Base
\* The process is run, nobody else running.
<1>6. ASSUME NEW A, Base(A, n, W \ {pid}), A.info[pid].state = "READY", V = P!RunProc(A, pid),
             \A q \in 0..n - 1 : A.info[q].state # "RUNNING", ~options.on_io => A = U
      PROVE  Base(V, n, W \ {pid}) /\ Right(V, n, options.on_io) /\ (~options.on_io => V.curr >= S.curr)
  <2>1. /\ Base(V, n, W \ {pid}) /\ V.curr = pid
        /\ \A q \in 0..n - 1 : V.info[q].state = IF q = pid THEN "RUNNING" ELSE A.info[q].state
    BY <1>6, Resumes
  <2>2. options.on_io => Right(V, n, options.on_io) BY <2>1 DEF Right, Busy
  <2>3. ~options.on_io => Right(V, n, options.on_io)
    <3> SUFFICES ASSUME ~options.on_io PROVE InTurn(V, n) BY DEF Right
    <3>1. A = U BY <1>6
    <3>2. V.info[pid].state = "RUNNING" BY <2>1
    <3>3. \A q \in 0..n - 1 : (q < pid => q # pid) /\ (q > pid => q # pid) BY <1>0
    <3>4. \A q \in 0..n - 1 : (q < pid => V.info[q].state = "DONE") /\ (q > pid => V.info[q].state = "READY")
      BY <1>5, <2>1, <3>1, <3>3
    <3> QED BY <2>1, <3>2, <3>4 DEF InTurn
  <2>4. ~options.on_io => V.curr >= S.curr BY <1>0, <1>5, <2>1
  <2> QED BY <2>1, <2>2, <2>3, <2>4
<1>7. ASSUME options.immediate
      PROVE  Base(V, n, W \ {pid}) /\ Right(V, n, options.on_io) /\ (~options.on_io => V.curr >= S.curr)
  <2> DEFINE A == IF U.curr # pid /\ P!Is(U, U.curr, "RUNNING") THEN P!Move(U, U.curr, "RUNNING", "READY") ELSE U
  <2>1. V = P!RunProc(A, pid) BY <1>7, <1>r DEF P!RunImmediately
  <2>2. CASE U.curr # pid /\ U.info[U.curr].state = "RUNNING"
    <3>1. U \in Scheds(n) /\ U.curr \in 0..n - 1 BY <1>0, <1>2 DEF Moved
    <3>2. A.curr = U.curr /\ Moved(U, A, n, U.curr, "READY") BY <2>2, <3>1, MoveIs DEF P!Is, States
    <3> HIDE DEF A
    <3>3. Base(A, n, W \ {pid}) /\ A.info[pid].state = "READY" BY <1>4, <2>2, <3>1, <3>2 DEF Base, Moved
    <3>4. \A q \in 0..n - 1 : A.info[q].state # "RUNNING" BY <1>4, <3>1, <3>2 DEF Base, Moved
    <3>5. options.on_io BY <1>2, <1>5, <2>2
    <3> QED BY <1>6, <2>1, <3>3, <3>4, <3>5
  <2>3. CASE ~(U.curr # pid /\ U.info[U.curr].state = "RUNNING")
    <3>1. A = U BY <2>3 DEF P!Is
    <3> HIDE DEF A
    <3>2. \A q \in 0..n - 1 : U.info[q].state # "RUNNING" BY <1>4, <2>3 DEF Base
    <3> QED BY <1>4, <1>6, <2>1, <3>1, <3>2
  <2> QED BY <2>2, <2>3
<1>8. ASSUME ~options.immediate
      PROVE  Base(V, n, W \ {pid}) /\ Right(V, n, options.on_io) /\ (~options.on_io => V.curr >= S.curr)
  <2>1. V = IF Alone(U, n, pid) \/ ~options.on_io THEN P!RunProc(U, pid) ELSE U
    <3>1. U \in Scheds(n) BY <1>2 DEF Moved
    <3> QED BY <1>4, <1>8, <1>r, <3>1, LaterIs
  <2>2. CASE Alone(U, n, pid) \/ ~options.on_io
    <3>1. \A q \in 0..n - 1 : U.info[q].state # "RUNNING" BY <1>4, <1>5, <2>2 DEF Alone, Runnable
    <3> QED BY <1>4, <1>6, <2>1, <2>2, <3>1
  <2>3. CASE ~Alone(U, n, pid) /\ options.on_io
    <3>1. V = U BY <2>1, <2>3
    <3>2. PICK q \in 0..n - 1 : Runnable(U, q) /\ q # pid BY <2>3 DEF Alone
    <3>3. S.info[q].state = "READY" \/ S.info[q].state = "RUNNING" BY <1>2, <3>2 DEF Runnable, Moved
    <3>4. S.info[S.curr].state = "RUNNING" BY <2>3, <3>3 DEF Base, Right, Busy
    <3>5. U.info[U.curr].state = "RUNNING" BY <1>0, <1>1, <1>2, <3>4 DEF Moved
    <3> QED BY <1>4, <2>3, <3>1, <3>5 DEF Right, Busy
  <2> QED BY <2>2, <2>3
<1>9. Base(V, n, W \ {pid}) /\ Right(V, n, options.on_io) /\ (~options.on_io => V.curr >= S.curr) BY <1>7, <1>8
<1>10. /\ Base(P!CheckIfDone(V), n, W \ {pid}) /\ Right(P!CheckIfDone(V), n, options.on_io)
       /\ ~options.on_io => P!CheckIfDone(V).curr >= V.curr
  BY <1>9, CheckKeeps
<1>11. V.curr \in 0..n - 1 /\ P!CheckIfDone(V).curr \in 0..n - 1 BY <1>9, <1>10, Parts DEF Base
<1>12. ~options.on_io => P!CheckIfDone(V).curr >= S.curr BY <1>0, <1>9, <1>10, <1>11
<1> QED BY <1>3, <1>10, <1>12

\* V[k] is the state after the ends of I/O of the first k processes.
After(S, tick, n, V) ==
  V = [k \in 0..n |-> IF k = 0 THEN S
                      ELSE IF tick \in io_finish_times[k - 1] THEN P!IoDone(V[k - 1], k - 1)
                      ELSE V[k - 1]]

\* The interrupts of a tick can be taken process by process.
LEMMA InterruptedIs ==
  ASSUME NEW n, Procs(n), NEW S \in Scheds(n), NEW tick
  PROVE  \E V : After(S, tick, n, V) /\ P!Interrupted(S, tick) = V[n]
<1> DEFINE g == [e \in (1..n) \X Scheds(n) |-> IF tick \in io_finish_times[e[1] - 1] THEN P!IoDone(e[2], e[1] - 1) ELSE e[2]]
<1>0. n \in Nat BY DEF Procs
<1>1. \A k \in 1..n, v \in Scheds(n) :
        g[<<k, v>>] = IF tick \in io_finish_times[k - 1] THEN P!IoDone(v, k - 1) ELSE v
  OBVIOUS
<1> HIDE DEF g
<1>2. \A k \in 1..n, v \in Scheds(n) : g[<<k, v>>] \in Scheds(n)
  <2> TAKE k \in 1..n, v \in Scheds(n)
  <2>1. k - 1 \in 0..n - 1 BY <1>0
  <2>2. P!IoDone(v, k - 1) \in Scheds(n) BY <2>1, IoDoneState
  <2> QED BY <1>1, <2>2
<1>3. PICK W \in [0..n -> Scheds(n)] : Solves(n, S, g, W) BY <1>0, <1>2, Solvable
<1>4. ASSUME NEW k \in 0..n
      PROVE  W[k] = IF k = 0 THEN S
                    ELSE IF tick \in io_finish_times[k - 1] THEN P!IoDone(W[k - 1], k - 1)
                    ELSE W[k - 1]
  <2>1. W[k] = IF k = 0 THEN S ELSE g[<<k, W[k - 1]>>] BY <1>3 DEF Solves
  <2>2. CASE k = 0 BY <2>1, <2>2
  <2>3. CASE k # 0
    <3>1. k \in 1..n /\ k - 1 \in 0..n BY <1>0, <2>3
    <3>2. W[k - 1] \in Scheds(n) BY <3>1
    <3> QED BY <1>1, <2>1, <2>3, <3>1, <3>2
  <2> QED BY <2>2, <2>3
<1>5. W = [k \in 0..n |-> W[k]] OBVIOUS
<1>6. After(S, tick, n, W) BY <1>4, <1>5 DEF After
<1> DEFINE V == CHOOSE V : After(S, tick, n, V)
<1>7. After(S, tick, n, V) BY <1>6
<1>8. P!Cardinality(P!Pids) = n BY AheadIs
<1>9. P!Interrupted(S, tick) = V[n] BY <1>8 DEF P!Interrupted, After
<1> QED BY <1>7, <1>9

\* After the interrupts of a tick no process whose I/O ends then is blocked, and the
\* right one runs.
LEMMA InterruptedKeeps ==
  ASSUME NEW n, Procs(n), NEW W, NEW S, Base(S, n, W), Right(S, n, options.on_io), options.on_io \in BOOLEAN,
         NEW tick, \A q \in 0..n - 1 : tick \in io_finish_times[q] => q \in W,
         NEW rest, rest = W \ {q \in 0..n - 1 : tick \in io_finish_times[q]}
  PROVE  /\ Base(P!Interrupted(S, tick), n, rest) /\ Right(P!Interrupted(S, tick), n, options.on_io)
         /\ ~options.on_io => P!Interrupted(S, tick).curr >= S.curr
<1> DEFINE Ended(k) == {q \in 0..n - 1 : q < k /\ tick \in io_finish_times[q]}
           Good(T, k) == /\ Base(T, n, W \ Ended(k)) /\ Right(T, n, options.on_io)
                         /\ ~options.on_io => T.curr >= S.curr
<1>0. n \in Nat /\ S \in Scheds(n) BY DEF Procs, Base
<1>1. PICK V : After(S, tick, n, V) /\ P!Interrupted(S, tick) = V[n] BY <1>0, InterruptedIs
<1>2. /\ V[0] = S
      /\ \A k \in 1..n : V[k] = IF tick \in io_finish_times[k - 1] THEN P!IoDone(V[k - 1], k - 1) ELSE V[k - 1]
  <2>1. 0 \in 0..n /\ \A k \in 1..n : k \in 0..n /\ k # 0 BY <1>0
  <2> QED BY <1>1, <2>1 DEF After
<1> DEFINE Q == {k \in 0..n : Good(V[k], k)}
<1>3. 0 \in Q
  <2>1. 0 \in 0..n BY <1>0
  <2>2. S.curr \in 0..n - 1 BY <1>0, Parts
  <2>3. Ended(0) = {} /\ W \ {} = W BY <1>0
  <2>4. S.curr >= S.curr BY <2>2
  <2> HIDE DEF Ended
  <2>5. Good(S, 0) BY <2>3, <2>4
  <2> QED BY <1>2, <2>1, <2>5
<1>4. ASSUME NEW k \in 1..n, k - 1 \in Q PROVE k \in Q
  <2>1. k \in 0..n /\ k - 1 \in 0..n - 1 BY <1>0
  <2>2. Good(V[k - 1], k - 1) BY <1>4
  <2>3. CASE tick \in io_finish_times[k - 1]
    <3>1. Ended(k) = Ended(k - 1) \cup {k - 1}
      <4>1. \A q \in 0..n - 1 : q < k <=> q < k - 1 \/ q = k - 1 BY <1>0
      <4> QED BY <2>1, <2>3, <4>1
    <3>2. k - 1 \in W \ Ended(k - 1) BY <1>0, <2>1, <2>3
    <3> HIDE DEF Ended
    <3>3. (W \ Ended(k - 1)) \ {k - 1} = W \ Ended(k) BY <3>1
    <3>4. /\ Base(P!IoDone(V[k - 1], k - 1), n, (W \ Ended(k - 1)) \ {k - 1})
          /\ Right(P!IoDone(V[k - 1], k - 1), n, options.on_io)
          /\ ~options.on_io => P!IoDone(V[k - 1], k - 1).curr >= V[k - 1].curr
      BY <2>1, <2>2, <3>2, IoDoneKeeps
    <3>5. V[k] = P!IoDone(V[k - 1], k - 1) BY <1>2, <2>3
    <3>6. V[k].curr \in 0..n - 1 /\ V[k - 1].curr \in 0..n - 1 /\ S.curr \in 0..n - 1
      BY <1>0, <2>2, <3>4, <3>5, Parts DEF Base
    <3>7. ~options.on_io => V[k].curr >= S.curr BY <2>2, <3>4, <3>5, <3>6
    <3> QED BY <2>1, <3>3, <3>4, <3>5, <3>7
  <2>4. CASE tick \notin io_finish_times[k - 1]
    <3>1. Ended(k) = Ended(k - 1)
      <4>1. \A q \in 0..n - 1 : q < k <=> q < k - 1 \/ q = k - 1 BY <1>0
      <4> QED BY <2>1, <2>4, <4>1
    <3> HIDE DEF Ended
    <3>2. V[k] = V[k - 1] BY <1>2, <2>4
    <3> QED BY <2>1, <2>2, <3>1, <3>2
  <2> QED BY <2>3, <2>4
<1>5. n \in Q
  <2> HIDE DEF Q
  <2>1. \A k \in 0..n : k \in Q BY <1>0, <1>3, <1>4, Climb
  <2> QED BY <1>0, <2>1
<1>6. Ended(n) = {q \in 0..n - 1 : tick \in io_finish_times[q]} BY <1>0
<1> HIDE DEF Ended
<1> QED BY <1>1, <1>5, <1>6

\* An instruction of the current process changes no state of a process, but takes it
\* from its code.
LEMMA ExecutedKeeps ==
  ASSUME NEW n, NEW W, NEW S, Base(S, n, W), NEW on, Right(S, n, on)
  PROVE  /\ Base(P!Executed(S), n, W) /\ Right(P!Executed(S), n, on)
         /\ P!Executed(S).curr = S.curr /\ \A q \in 0..n - 1 : P!Executed(S).info[q].state = S.info[q].state
<1> DEFINE c0 == S.curr
           one == [S.info EXCEPT ![c0].code = Tail(@)]
           U == [info |-> one, curr |-> c0, failed |-> S.failed]
<1>1. /\ S = [info |-> S.info, curr |-> S.curr, failed |-> S.failed]
      /\ S.info \in [0..n - 1 -> [code : Texts, state : States]] /\ S.curr \in 0..n - 1 /\ S.failed \in BOOLEAN
  BY Parts DEF Base
<1>2. CASE P!Executes(S)
  <2>1. P!Executed(S) = [S EXCEPT !.info[S.curr].code = Tail(@)] BY <1>2 DEF P!Executed
  <2>2. [S EXCEPT !.info[S.curr].code = Tail(@)] = U
    <3>1. \A v : [S EXCEPT !.info = v] = [info |-> v, curr |-> S.curr, failed |-> S.failed] BY <1>1
    <3> QED BY <3>1
  <2>3. S.info[c0].code # <<>> /\ S.info[c0].state = "RUNNING" BY <1>2 DEF P!Executes, P!Is
  <2>4. Tail(S.info[c0].code) \in Texts
    <3>1. S.info[c0].code \in Texts BY <1>1
    <3> QED BY <2>3, <3>1 DEF Texts
  <2>5. one \in [0..n - 1 -> [code : Texts, state : States]]
        /\ \A q \in 0..n - 1 : /\ one[q].state = S.info[q].state
                               /\ q # c0 => one[q].code = S.info[q].code
    BY <1>1, <2>4
  <2> HIDE DEF one
  <2>6. U \in Scheds(n) /\ U.curr = c0 /\ U.info = one /\ U.failed = S.failed BY <1>1, <2>5 DEF Scheds
  <2> HIDE DEF U
  <2>7. \A q \in 0..n - 1 : U.info[q].state = S.info[q].state /\ (q # c0 => U.info[q].code = S.info[q].code)
    BY <2>5, <2>6
  <2>8. Base(U, n, W) BY <2>3, <2>6, <2>7 DEF Base
  <2>9. U.curr = S.curr /\ \A q \in 0..n - 1 : U.info[q].state = S.info[q].state BY <2>6, <2>7
  <2>10. Right(U, n, on) BY <1>1, <2>9 DEF Right, Busy, InTurn
  <2> QED BY <2>1, <2>2, <2>8, <2>9, <2>10 DEF U
<1>3. CASE ~P!Executes(S)
  <2>1. P!Executed(S) = S BY <1>3 DEF P!Executed
  <2> QED BY <2>1
<1> QED BY <1>2, <1>3

\* The start of an I/O blocks the current process.
LEMMA BlockedKeeps ==
  ASSUME NEW n, Procs(n), NEW W, NEW S, Base(S, n, W), Right(S, n, options.on_io),
         S.info[S.curr].state = "RUNNING"
  PROVE  /\ Base(P!Blocked(S), n, W \cup {S.curr}) /\ Right(P!Blocked(S), n, options.on_io)
         /\ ~options.on_io => P!Blocked(S).curr = S.curr
<1> DEFINE U == P!Move(S, S.curr, "RUNNING", "BLOCKED")
<1>1. S \in Scheds(n) /\ S.curr \in 0..n - 1 BY Parts DEF Base
<1>2. U.curr = S.curr /\ Moved(S, U, n, S.curr, "BLOCKED") BY <1>1, MoveIs DEF States
<1>3. P!Blocked(S) = IF options.on_io THEN P!NextProc(U) ELSE U BY DEF P!Blocked
<1> HIDE DEF U
<1>4. Base(U, n, W \cup {S.curr}) BY <1>1, <1>2 DEF Base, Moved
<1>5. U.info[U.curr].state = "BLOCKED" BY <1>1, <1>2 DEF Moved
<1>6. CASE options.on_io
  <2>1. Base(P!NextProc(U), n, W \cup {S.curr}) /\ Busy(P!NextProc(U), n) BY <1>4, <1>5, NextKeeps
  <2> QED BY <1>3, <1>6, <2>1 DEF Right
<1>7. CASE ~options.on_io
  <2>1. \A q \in 0..n - 1 : (q < S.curr => q # S.curr) /\ (q > S.curr => q # S.curr) BY <1>1
  <2>2. \A q \in 0..n - 1 : q # S.curr => U.info[q].state = S.info[q].state BY <1>2 DEF Moved
  <2>3. InTurn(S, n) BY <1>7 DEF Right
  <2>4. InTurn(U, n) BY <1>2, <1>5, <2>1, <2>2, <2>3 DEF InTurn
  <2> QED BY <1>2, <1>3, <1>4, <1>7, <2>4 DEF Right
<1> QED BY <1>6, <1>7

\* Sequences put one behind the other are a sequence.
LEMMA FlattenIs ==
  ASSUME NEW T, NEW L \in Seq(Seq(T))
  PROVE  P!FlattenSeq(L) \in Seq(T)
<1> DEFINE n == Len(L)
           F(W) == W = [i \in 1..n |-> IF i = 1 THEN L[1] ELSE W[i - 1] \o L[i]]
<1>1. CASE n = 0
  <2>1. L = <<>> BY <1>1
  <2> QED BY <2>1 DEF P!FlattenSeq
<1>2. CASE n # 0
  <2>1. n \in Nat /\ n >= 1 /\ \A k \in 1..n : L[k] \in Seq(T) BY <1>2
  <2> DEFINE g == [e \in (1..n) \X Seq(T) |-> IF e[1] = 1 THEN L[1] ELSE e[2] \o L[e[1]]]
  <2>2. \A k \in 1..n, v \in Seq(T) : g[<<k, v>>] = IF k = 1 THEN L[1] ELSE v \o L[k] OBVIOUS
  <2> HIDE DEF g, n
  <2>3. 1 \in 1..n BY <2>1
  <2>j. \A a, b \in Seq(T) : a \o b \in Seq(T) OBVIOUS
  <2>4. ASSUME NEW k \in 1..n, NEW v \in Seq(T) PROVE g[<<k, v>>] \in Seq(T)
    <3>1. L[k] \in Seq(T) /\ L[1] \in Seq(T) /\ v \o L[k] \in Seq(T) BY <2>1, <2>3, <2>j
    <3>2. g[<<k, v>>] = IF k = 1 THEN L[1] ELSE v \o L[k] BY <2>2
    <3> QED BY <3>1, <3>2, Zenon
  <2>5. <<>> \in Seq(T) OBVIOUS
  <2>6. PICK W \in [0..n -> Seq(T)] : Solves(n, <<>>, g, W) BY <2>1, <2>4, <2>5, Solvable
  <2> DEFINE U == [i \in 1..n |-> W[i]]
  <2>7. ASSUME NEW i \in 1..n PROVE U[i] = IF i = 1 THEN L[1] ELSE U[i - 1] \o L[i]
    <3>1. i \in 0..n /\ i # 0 /\ i - 1 \in 0..n /\ (i # 1 => i - 1 \in 1..n) BY <2>1
    <3>2. W[i] = g[<<i, W[i - 1]>>] BY <2>6, <3>1 DEF Solves
    <3>3. W[i - 1] \in Seq(T) BY <3>1
    <3>4. W[i] = IF i = 1 THEN L[1] ELSE W[i - 1] \o L[i] BY <2>2, <3>2, <3>3
    <3> QED BY <3>1, <3>4
  <2>8. U = [i \in 1..n |-> U[i]] OBVIOUS
  <2> HIDE DEF U
  <2>9. F(U) BY <2>7, <2>8
  <2> DEFINE Z == CHOOSE Z : F(Z)
  <2>10. F(Z) BY <2>9
  <2>11. P!FlattenSeq(L) = Z[n] BY <1>2 DEF P!FlattenSeq, n
  <2> HIDE DEF Z
  <2> DEFINE Q == {k \in 0..n : k = 0 \/ Z[k] \in Seq(T)}
  <2>12. 0 \in Q BY <2>1
  <2>13. ASSUME NEW k \in 1..n, k - 1 \in Q PROVE k \in Q
    <3>1. k \in 0..n BY <2>1
    <3>2. Z[k] = IF k = 1 THEN L[1] ELSE Z[k - 1] \o L[k] BY <2>10
    <3>3. k # 1 => Z[k - 1] \in Seq(T) BY <2>1, <2>13
    <3>4. L[k] \in Seq(T) /\ L[1] \in Seq(T) BY <2>1, <2>3
    <3>5. k # 1 => Z[k - 1] \o L[k] \in Seq(T) BY <2>j, <3>3, <3>4
    <3>6. Z[k] \in Seq(T) BY <3>2, <3>4, <3>5, Zenon
    <3> QED BY <3>1, <3>6
  <2>14. n \in Q
    <3> HIDE DEF Q
    <3>1. \A k \in 0..n : k \in Q BY <2>1, <2>12, <2>13, Climb
    <3> QED BY <2>1, <3>1
  <2> QED BY <1>2, <2>11, <2>14
<1> QED BY <1>1, <1>2

\* What load_program makes of a process's list is a text.
LEMMA LoadedIs ==
  ASSUME NEW L \in Seq({"cpu", "io"}), NEW o
  PROVE  P!Loaded(L, o) \in Texts
<1> DEFINE R == [k \in DOMAIN L |-> IF L[k] = "io" /\ o.handles THEN <<"io", "io_done">> ELSE <<L[k]>>]
<1>1. \A k \in 1..Len(L) : L[k] \in {"cpu", "io"} OBVIOUS
<1>2. <<"io", "io_done">> \in Texts /\ <<"cpu">> \in Texts /\ <<"io">> \in Texts BY DEF Texts
<1>3. R \in [1..Len(L) -> Texts] BY <1>1, <1>2
<1>4. R \in Seq(Texts)
  <2> HIDE DEF R
  <2> QED BY <1>3
<1> QED BY <1>4, FlattenIs DEF P!Loaded, Texts

-----------------------------------------------------------------------------
(* process-run.py: the invariant. *)

\* The processes whose I/O has not ended.
Waiting(n, F, tick) == {q \in 0..n - 1 : \E t \in F[q] : t > tick}
\* There are n processes in a good state; those blocked, and no others, wait for one
\* end of I/O; without switches nobody behind the current one has started.
ProcIs(n) ==
  /\ Procs(n) /\ options \in ProcessOptions /\ clock_tick \in Nat
  /\ io_finish_times \in [0..n - 1 -> SUBSET Nat]
  /\ \A q \in 0..n - 1 : \A t, u \in io_finish_times[q] : t > clock_tick /\ u > clock_tick => t = u
  /\ Base(P!Now, n, Waiting(n, io_finish_times, clock_tick))
  /\ Right(P!Now, n, options.on_io)
  /\ started \subseteq 0..n - 1
  /\ ~options.on_io => \A q \in started : q <= curr_proc
ProcInv == \E n \in 1..3 : ProcIs(n)

\* The invariant holds when the programs have been loaded.
LEMMA ProcInit == P!Init => ProcInv
<1> SUFFICES ASSUME P!Init PROVE ProcInv OBVIOUS
<1>1. PICK n \in 1..3 : \E text \in [0..n - 1 -> Programs] :
        /\ proc_info = [q \in 0..n - 1 |->
                          [code |-> P!Loaded(text[q], options), state |-> IF q = 0 THEN "RUNNING" ELSE "READY"]]
        /\ io_finish_times = [q \in 0..n - 1 |-> {}]
  BY DEF P!Init
<1>2. PICK text \in [0..n - 1 -> Programs] :
        /\ proc_info = [q \in 0..n - 1 |->
                          [code |-> P!Loaded(text[q], options), state |-> IF q = 0 THEN "RUNNING" ELSE "READY"]]
        /\ io_finish_times = [q \in 0..n - 1 |-> {}]
  BY <1>1
<1>3. n \in Nat \ {0} /\ 0 \in 0..n - 1 OBVIOUS
<1>4. options \in ProcessOptions /\ clock_tick = 0 /\ curr_proc = 0 /\ started = {} /\ failed = FALSE BY DEF P!Init
<1>5. \A q \in 0..n - 1 : P!Loaded(text[q], options) \in Texts
  <2> TAKE q \in 0..n - 1
  <2>1. text[q] \in Seq({"cpu", "io"}) BY ProcessAssumption
  <2> QED BY <2>1, LoadedIs
<1>6. /\ proc_info \in [0..n - 1 -> [code : Texts, state : States]]
      /\ \A q \in 0..n - 1 : proc_info[q].state = IF q = 0 THEN "RUNNING" ELSE "READY"
  BY <1>2, <1>5 DEF States
<1>7. DOMAIN proc_info = 0..n - 1 BY <1>2
<1>8. Procs(n) BY <1>3, <1>7 DEF Procs, P!Pids
<1>9. P!Now.info = proc_info /\ P!Now.curr = curr_proc /\ P!Now.failed = failed BY DEF P!Now
<1>10. P!Now \in Scheds(n) BY <1>3, <1>4, <1>6 DEF P!Now, Scheds
<1>11. Waiting(n, io_finish_times, clock_tick) = {} BY <1>2 DEF Waiting
<1>12. Base(P!Now, n, {}) BY <1>4, <1>6, <1>9, <1>10 DEF Base
<1>13. \A q \in 0..n - 1 : ~(q < 0) /\ (q > 0 => q # 0) OBVIOUS
<1>14. Right(P!Now, n, options.on_io)
  <2>1. P!Now.curr = 0 /\ P!Now.info[0].state = "RUNNING" BY <1>3, <1>4, <1>6, <1>9
  <2>2. Busy(P!Now, n) BY <2>1 DEF Busy
  <2>3. InTurn(P!Now, n) BY <1>6, <1>9, <1>13, <2>1 DEF InTurn
  <2> QED BY <2>2, <2>3 DEF Right
<1> QED BY <1>2, <1>4, <1>8, <1>11, <1>12, <1>14 DEF ProcInv, ProcIs

\* One tick keeps it.
LEMMA ProcStep == ProcInv /\ P!Next => ProcInv'
<1> SUFFICES ASSUME ProcInv, P!Next PROVE ProcInv' OBVIOUS
<1>1. PICK n \in 1..3 : ProcIs(n) BY DEF ProcInv
<1> DEFINE F == io_finish_times
           W == Waiting(n, F, clock_tick)
           tick == clock_tick + 1
           S == P!Interrupted(P!Now, tick)
           E == P!Executed(S)
           B == IF P!StartsIo(S) THEN P!Blocked(E) ELSE E
           U == P!CheckIfDone(B)
           G == IF P!StartsIo(S) THEN [F EXCEPT ![S.curr] = @ \cup {P!FinishTime(tick)}] ELSE F
           W1 == Waiting(n, F, tick)
           W2 == Waiting(n, G, tick)
<1>2. /\ clock_tick' = tick /\ options' = options
      /\ proc_info' = U.info /\ curr_proc' = U.curr /\ failed' = U.failed /\ io_finish_times' = G
      /\ started' = IF P!Executes(S) THEN started \cup {S.curr} ELSE started
  BY DEF P!Next, P!Tick
<1>3. /\ n \in Nat /\ Procs(n) /\ options \in ProcessOptions /\ clock_tick \in Nat /\ tick \in Nat
      /\ F \in [0..n - 1 -> SUBSET Nat] /\ started \subseteq 0..n - 1
      /\ P!Now \in Scheds(n) /\ P!Now.curr = curr_proc
  <2>1. P!Now.curr = curr_proc BY DEF P!Now
  <2> QED BY <1>1, <2>1 DEF ProcIs, Base
<1>4. options.on_io \in BOOLEAN /\ options.io_length \in Nat /\ (options.handles \/ options.io_length > 0)
  BY <1>3, ProcessAssumption
<1>5. P!FinishTime(tick) \in Nat /\ P!FinishTime(tick) > tick BY <1>3, <1>4 DEF P!FinishTime
<1>6. \A q \in 0..n - 1 : \A t, u \in F[q] : t \in Nat /\ u \in Nat /\ (t > clock_tick /\ u > clock_tick => t = u)
  BY <1>1, <1>3 DEF ProcIs
<1>7. W1 = W \ {q \in 0..n - 1 : tick \in F[q]}
  <2>1. \A t \in Nat : t > clock_tick <=> t > tick \/ t = tick BY <1>3
  <2>2. ~(tick > tick) BY <1>3
  <2>3. ASSUME NEW q \in 0..n - 1 PROVE q \in W1 <=> q \in W /\ tick \notin F[q]
    <3>1. q \in W1 <=> \E t \in F[q] : t > tick BY DEF Waiting
    <3>2. q \in W <=> \E t \in F[q] : t > clock_tick BY DEF Waiting
    <3> QED BY <1>6, <2>1, <2>2, <3>1, <3>2
  <2>4. W1 \subseteq 0..n - 1 /\ W \subseteq 0..n - 1 BY DEF Waiting
  <2> HIDE DEF W1, W, tick, F
  <2> QED BY <2>3, <2>4
<1>8. \A q \in 0..n - 1 : tick \in F[q] => q \in W BY <1>3 DEF Waiting
<1>9. /\ Base(S, n, W1) /\ Right(S, n, options.on_io)
      /\ ~options.on_io => S.curr >= curr_proc
  <2>1. Base(P!Now, n, W) /\ Right(P!Now, n, options.on_io) BY <1>1 DEF ProcIs
  <2> DEFINE N == P!Now
  <2> HIDE DEF S, W, W1, tick, F, N
  <2>2. S = P!Interrupted(N, tick) BY DEF S, N
  <2>3. \A q \in 0..n - 1 : tick \in io_finish_times[q] => q \in W BY <1>8 DEF F
  <2>4. Base(N, n, W) /\ Right(N, n, options.on_io) /\ N.curr = curr_proc BY <1>3, <2>1 DEF N
  <2>5. W1 = W \ {q \in 0..n - 1 : tick \in io_finish_times[q]} BY <1>7 DEF F
  <2>6. /\ Base(P!Interrupted(N, tick), n, W1) /\ Right(P!Interrupted(N, tick), n, options.on_io)
        /\ ~options.on_io => P!Interrupted(N, tick).curr >= N.curr
    BY <1>3, <1>4, <2>3, <2>4, <2>5, InterruptedKeeps
  <2> QED BY <2>2, <2>4, <2>6
<1> HIDE DEF S
<1>10. S.curr \in 0..n - 1 /\ (P!StartsIo(S) => P!Executes(S)) /\ (P!Executes(S) => S.info[S.curr].state = "RUNNING")
  BY <1>9, Parts DEF Base, P!StartsIo, P!Executes, P!Is
<1> HIDE DEF W, W1, tick, F
<1>11. /\ Base(E, n, W1) /\ Right(E, n, options.on_io) /\ E.curr = S.curr
       /\ \A q \in 0..n - 1 : E.info[q].state = S.info[q].state
  BY <1>9, ExecutedKeeps
<1> HIDE DEF E
<1>12. W2 = IF P!StartsIo(S) THEN W1 \cup {S.curr} ELSE W1
  <2>1. CASE ~P!StartsIo(S)
    <3>1. G = F BY <2>1
    <3> QED BY <2>1, <3>1 DEF W1
  <2>2. CASE P!StartsIo(S)
    <3>1. \A q \in 0..n - 1 : G[q] = IF q = S.curr THEN F[q] \cup {P!FinishTime(tick)} ELSE F[q] BY <1>3, <2>2
    <3> HIDE DEF G
    <3>2. \A q \in 0..n - 1 : (\E t \in G[q] : t > tick) <=> q = S.curr \/ \E t \in F[q] : t > tick BY <1>5, <3>1
    <3> QED BY <1>10, <2>2, <3>2 DEF W1, Waiting
  <2> QED BY <2>1, <2>2
<1>13. G \in [0..n - 1 -> SUBSET Nat]
  <2>1. CASE P!StartsIo(S)
    <3>1. F[S.curr] \cup {P!FinishTime(tick)} \in SUBSET Nat BY <1>3, <1>5, <1>10
    <3> QED BY <1>3, <2>1, <3>1
  <2>2. CASE ~P!StartsIo(S) BY <1>3, <2>2
  <2> QED BY <2>1, <2>2
<1>14. \A q \in 0..n - 1 : \A t, u \in G[q] : t > tick /\ u > tick => t = u
  <2>1. \A q \in 0..n - 1 : \A t, u \in F[q] : t > tick /\ u > tick => t = u
    <3>1. \A t \in Nat : t > tick => t > clock_tick BY <1>3 DEF tick
    <3> QED BY <1>6, <3>1
  <2>2. CASE ~P!StartsIo(S) BY <2>1, <2>2
  <2>3. CASE P!StartsIo(S)
    <3>1. \A q \in 0..n - 1 : G[q] = IF q = S.curr THEN F[q] \cup {P!FinishTime(tick)} ELSE F[q] BY <1>3, <2>3
    <3>2. S.info[S.curr].state # "BLOCKED" BY <1>10, <2>3
    <3>3. S.curr \notin W1 BY <1>9, <1>10, <3>2 DEF Base
    <3>4. \A t \in F[S.curr] : ~(t > tick) BY <1>10, <3>3 DEF W1, Waiting
    <3> HIDE DEF G
    <3> QED BY <2>1, <3>1, <3>4
  <2> QED BY <2>2, <2>3
<1> HIDE DEF G
<1>15. Base(B, n, W2) /\ Right(B, n, options.on_io) /\ (~options.on_io => B.curr = S.curr)
  <2>1. CASE P!StartsIo(S)
    <3>1. E.info[E.curr].state = "RUNNING" BY <1>10, <1>11, <2>1
    <3>2. /\ Base(P!Blocked(E), n, W1 \cup {E.curr}) /\ Right(P!Blocked(E), n, options.on_io)
          /\ ~options.on_io => P!Blocked(E).curr = E.curr
      BY <1>3, <1>11, <3>1, BlockedKeeps
    <3>3. B = P!Blocked(E) BY <2>1
    <3> QED BY <1>11, <1>12, <2>1, <3>2, <3>3
  <2>2. CASE ~P!StartsIo(S)
    <3>1. B = E BY <2>2
    <3> QED BY <1>11, <1>12, <2>2, <3>1
  <2> QED BY <2>1, <2>2
<1> HIDE DEF B
<1>16. /\ Base(U, n, W2) /\ Right(U, n, options.on_io)
       /\ ~options.on_io => U.curr >= B.curr
  BY <1>3, <1>15, CheckKeeps
<1> HIDE DEF U
<1>17. U.curr \in 0..n - 1 /\ U = [info |-> U.info, curr |-> U.curr, failed |-> U.failed]
       /\ U.info \in [0..n - 1 -> [code : Texts, state : States]]
  BY <1>16, Parts DEF Base
<1>18. P!Now' = U BY <1>2, <1>17 DEF P!Now
<1>19. Procs(n)'
  <2>1. DOMAIN proc_info' = 0..n - 1 BY <1>2, <1>17
  <2> QED BY <1>3, <2>1 DEF Procs, P!Pids
<1>20. started' \subseteq 0..n - 1 BY <1>2, <1>3, <1>10
<1>21. ~options.on_io => \A q \in started' : q <= U.curr
  <2> SUFFICES ASSUME ~options.on_io, NEW q \in started' PROVE q <= U.curr OBVIOUS
  <2>1. curr_proc \in 0..n - 1 BY <1>3, Parts
  <2>2. S.curr >= curr_proc /\ U.curr >= S.curr BY <1>9, <1>15, <1>16
  <2>3. q \in started \/ q = S.curr BY <1>2
  <2>4. q \in started => q <= curr_proc BY <1>1 DEF ProcIs
  <2>5. q \in 0..n - 1 BY <1>20
  <2> QED BY <1>10, <1>17, <2>1, <2>2, <2>3, <2>4, <2>5
<1>22. ProcIs(n)'
  <2>1. W2 = Waiting(n, io_finish_times', clock_tick') BY <1>2 DEF W2
  <2> HIDE DEF W2
  <2>2. Base(P!Now', n, Waiting(n, io_finish_times', clock_tick')) /\ Right(P!Now', n, options'.on_io)
    BY <1>2, <1>16, <1>18, <2>1
  <2>3. ~options'.on_io => \A q \in started' : q <= curr_proc' BY <1>2, <1>21
  <2>4. \A q \in 0..n - 1 : \A t, u \in io_finish_times'[q] : t > clock_tick' /\ u > clock_tick' => t = u BY <1>2, <1>14
  <2>5. options' \in ProcessOptions /\ clock_tick' \in Nat /\ io_finish_times' \in [0..n - 1 -> SUBSET Nat]
    BY <1>2, <1>3, <1>13
  <2> QED BY <1>19, <1>20, <2>2, <2>3, <2>4, <2>5 DEF ProcIs
<1> QED BY <1>22 DEF ProcInv

\* What the invariant says of the properties.
LEMMA ProcHolds == ProcInv => P!TypeOK /\ P!OnePlace /\ P!RightOneRuns
<1> SUFFICES ASSUME NEW n \in 1..3, ProcIs(n) PROVE P!TypeOK /\ P!OnePlace /\ P!RightOneRuns BY DEF ProcInv
<1>1. P!Now.info = proc_info /\ P!Now.curr = curr_proc /\ P!Now.failed = failed BY DEF P!Now
<1>2. /\ n \in Nat /\ P!Pids = 0..n - 1 /\ Base(P!Now, n, Waiting(n, io_finish_times, clock_tick))
      /\ Right(P!Now, n, options.on_io) /\ options \in ProcessOptions /\ clock_tick \in Nat
      /\ io_finish_times \in [0..n - 1 -> SUBSET Nat] /\ started \subseteq 0..n - 1
  BY DEF ProcIs, Procs
<1>3. P!Now \in Scheds(n) /\ curr_proc \in 0..n - 1 /\ \A q \in 0..n - 1 : proc_info[q].state \in States
  BY <1>1, <1>2, Parts DEF Base
<1>4. P!TypeOK BY <1>2, <1>3 DEF P!TypeOK, States
<1>5. ASSUME NEW q \in 0..n - 1
      PROVE  P!Cardinality({t \in io_finish_times[q] : t > clock_tick}) = IF P!Is(P!Now, q, "BLOCKED") THEN 1 ELSE 0
  <2> DEFINE late == {t \in io_finish_times[q] : t > clock_tick}
  <2>1. P!Is(P!Now, q, "BLOCKED") <=> late # {} BY <1>2 DEF P!Is, Base, Waiting
  <2>2. \A t, u \in late : t = u BY DEF ProcIs
  <2>3. P!Cardinality({t \in io_finish_times[q] : t > clock_tick}) = Cardinality(late) BY Counts
  <2> HIDE DEF late
  <2>4. CASE late = {} BY <2>1, <2>3, <2>4, FS_EmptySet
  <2>5. CASE late # {}
    <3>1. PICK t \in late : TRUE BY <2>5
    <3>2. late = {t} BY <2>2
    <3>3. Cardinality(late) = 1 BY <3>2, FS_Singleton
    <3> QED BY <2>1, <2>3, <2>5, <3>3
  <2> QED BY <2>4, <2>5
<1>6. P!OnePlace BY <1>1, <1>2, <1>5 DEF P!OnePlace, Base, P!Is
<1>7. P!RightOneRuns
  <2>1. CASE options.on_io BY <1>1, <1>2, <2>1 DEF P!RightOneRuns, Right, Busy, P!Is
  <2>2. CASE ~options.on_io
    <3> SUFFICES ASSUME NEW i \in 0..n - 1, NEW k \in 0..n - 1, i < k, k \in started
                 PROVE  P!Is(P!Now, i, "DONE")
      BY <1>2, <2>2 DEF P!RightOneRuns
    <3>1. k <= curr_proc BY <2>2 DEF ProcIs
    <3>2. i < curr_proc BY <1>3, <3>1
    <3> QED BY <1>1, <1>2, <2>2, <3>2 DEF Right, InTurn, P!Is
  <2> QED BY <2>1, <2>2
<1> QED BY <1>4, <1>6, <1>7

-----------------------------------------------------------------------------
(* multi.py: who waits or runs where. *)

\* The first element in S of a list, if any.
LEMMA FirstIs ==
  ASSUME NEW T, NEW L \in Seq(T), NEW S
  PROVE  C!FirstIn(L, S) = 0 \/ (C!FirstIn(L, S) \in 1..Len(L) /\ L[C!FirstIn(L, S)] \in S)
<1> DEFINE I == {i \in 1..Len(L) : L[i] \in S}
<1>1. C!FirstIn(L, S) = IF I # {} THEN C!Min(I) ELSE 0 BY DEF C!FirstIn, C!SelectInSeq
<1>2. I \in SUBSET Nat /\ \A i \in I : i \in 1..Len(L) /\ L[i] \in S OBVIOUS
<1> HIDE DEF I
<1>3. I # {} => C!Min(I) \in I BY <1>2, LeastIs
<1> QED BY <1>1, <1>2, <1>3

\* A list without one of its elements is a list of elements it had.
LEMMA RemoveAtIs ==
  ASSUME NEW T, NEW L \in Seq(T), NEW i \in 1..Len(L)
  PROVE  /\ C!RemoveAt(L, i) \in Seq(T)
         /\ \A k \in 1..Len(C!RemoveAt(L, i)) : \E a \in 1..Len(L) : C!RemoveAt(L, i)[k] = L[a]
<1> DEFINE front == SubSeq(L, 1, i - 1)
           back == SubSeq(L, i + 1, Len(L))
           n == Len(L)
<1>1. n \in Nat /\ i \in Int /\ 1 <= i /\ i <= n OBVIOUS
<1>2. front \in Seq(T) /\ Len(front) = i - 1 /\ \A k \in 1..i - 1 : front[k] = L[k] BY <1>1
<1>3. back \in Seq(T) /\ Len(back) = n - i /\ \A k \in 1..n - i : back[k] = L[i + k] BY <1>1
<1>4. C!RemoveAt(L, i) = front \o back BY DEF C!RemoveAt
<1> HIDE DEF front, back, n
<1>5. front \o back \in Seq(T) /\ Len(front \o back) = n - 1
  <2>1. front \in Seq(T) /\ back \in Seq(T) BY <1>2, <1>3
  <2>2. front \o back \in Seq(T) /\ Len(front \o back) = Len(front) + Len(back) BY ONLY <2>1
  <2> QED BY <1>1, <1>2, <1>3, <2>2
<1>6. ASSUME NEW k \in 1..n - 1 PROVE \E a \in 1..n : (front \o back)[k] = L[a]
  <2>1. CASE k < i
    <3>1. k \in 1..i - 1 /\ k \in 1..n BY <1>1, <1>6, <2>1
    <3>2. (front \o back)[k] = L[k] BY <1>1, <1>2, <1>3, <2>1, <3>1
    <3> QED BY <3>1, <3>2
  <2>2. CASE ~(k < i)
    <3>1. k - (i - 1) \in 1..n - i /\ i + (k - (i - 1)) \in 1..n BY <1>1, <1>6, <2>2
    <3>2. (front \o back)[k] = back[k - (i - 1)] BY <1>1, <1>2, <1>3, <1>6, <2>2
    <3> QED BY <1>3, <3>1, <3>2
  <2> QED BY <2>1, <2>2
<1> QED BY <1>4, <1>5, <1>6 DEF n

\* The jobs of a list may run on a processor.
Waits(cpu, L) == \A k \in 1..Len(L) : L[k] \in C!MayRun(cpu)
Homes == IF options.per_cpu THEN CPUs ELSE {0}
\* Queues of jobs where they may be.
Queues == {Q \in [Homes -> Seq(C!Jobs)] : options.per_cpu => \A cpu \in CPUs : Waits(cpu, Q[cpu])}
MultiInv ==
  /\ jobs \in MultiWorkloads
  /\ sched_queue \in Queues
  /\ sched_current \in [CPUs -> C!Jobs \cup {0}]
  /\ \A cpu \in CPUs : sched_current[cpu] # 0 => sched_current[cpu] \in C!MayRun(cpu)
  /\ pc = "steal" => options.per_cpu

\* A queue's change keeps the queues, if all its jobs may be in it.
LEMMA QueueChanged ==
  ASSUME NEW Q \in Queues, NEW h \in Homes, NEW L \in Seq(C!Jobs), options.per_cpu => Waits(h, L)
  PROVE  [Q EXCEPT ![h] = L] \in Queues
<1>1. Q \in [Homes -> Seq(C!Jobs)] /\ (options.per_cpu => \A cpu \in CPUs : Waits(cpu, Q[cpu])) BY DEF Queues
<1> DEFINE R == [Q EXCEPT ![h] = L]
<1>2. R \in [Homes -> Seq(C!Jobs)] /\ \A cpu \in Homes : R[cpu] = IF cpu = h THEN L ELSE Q[cpu] BY <1>1
<1>3. options.per_cpu => Homes = CPUs BY DEF Homes
<1> HIDE DEF R
<1>4. options.per_cpu => \A cpu \in CPUs : Waits(cpu, R[cpu]) BY <1>1, <1>2, <1>3
<1> QED BY <1>2, <1>4 DEF Queues, R

\* Every processor has a queue, its own with -p.
LEMMA HomeIs == ASSUME NEW cpu \in CPUs PROVE C!QueueOf(cpu) \in Homes /\ (options.per_cpu => C!QueueOf(cpu) = cpu)
BY DEF Homes, C!QueueOf

\* A job put at the end of a queue.
LEMMA Appended ==
  ASSUME NEW T, NEW L \in Seq(T), NEW x \in T, NEW cpu, Waits(cpu, L), x \in C!MayRun(cpu)
  PROVE  Waits(cpu, Append(L, x))
<1>1. Len(Append(L, x)) = Len(L) + 1 /\ \A k \in 1..Len(L) + 1 : Append(L, x)[k] = IF k = Len(L) + 1 THEN x ELSE L[k]
  OBVIOUS
<1>2. \A k \in 1..Len(L) + 1 : k # Len(L) + 1 => k \in 1..Len(L) OBVIOUS
<1> QED BY <1>1, <1>2 DEF Waits

\* A running job is put back where it may wait.
LEMMA PutKeeps ==
  ASSUME MultiInv, NEW Q \in Queues, NEW cpu \in CPUs, sched_current[cpu] # 0
  PROVE  C!Put(Q, cpu) \in Queues
<1> DEFINE h == C!QueueOf(cpu)
           x == sched_current[cpu]
<1>1. h \in Homes /\ (options.per_cpu => h = cpu) BY HomeIs
<1>2. x \in C!Jobs /\ x \in C!MayRun(cpu) BY DEF MultiInv
<1>3. Q \in [Homes -> Seq(C!Jobs)] /\ (options.per_cpu => Waits(cpu, Q[cpu])) BY DEF Queues
<1>4. Q[h] \in Seq(C!Jobs) BY <1>1, <1>3
<1>5. C!Put(Q, cpu) = [Q EXCEPT ![h] = Append(Q[h], x)] BY DEF C!Put
<1> HIDE DEF h, x
<1>6. Append(Q[h], x) \in Seq(C!Jobs) BY <1>2, <1>4
<1>7. options.per_cpu => Waits(h, Append(Q[h], x)) BY <1>1, <1>2, <1>3, <1>4, Appended
<1> QED BY <1>1, <1>5, <1>6, <1>7, QueueChanged

\* The processors in order.
LEMMA OrderIs ==
  /\ Len(C!Order) \in Nat /\ CPUs = 0..Len(C!Order) - 1
  /\ \A k \in 1..Len(C!Order) : k - 1 \in CPUs
<1> DEFINE m == Cardinality(CPUs)
<1>1. m \in Nat /\ CPUs = 0..m - 1 BY MultiAssumption, FS_CardinalityType
<1> HIDE DEF m
<1>2. C!Order = [k \in 1..m |-> k - 1] BY Counts DEF C!Order, m
<1>3. Len(C!Order) = m BY <1>1, <1>2
<1> QED BY <1>1, <1>3

\* V[k] is the queues when the jobs of the first k processors have been put back.
Returned(n, V) ==
  V = [k \in 0..n |-> IF k = 0 THEN sched_queue
                      ELSE IF k - 1 \in C!Running THEN C!Put(V[k - 1], k - 1)
                      ELSE V[k - 1]]

\* The end of a time slice keeps the queues.
LEMMA PutBackKeeps == ASSUME MultiInv PROVE C!PutBack \in Queues
<1> DEFINE n == Len(C!Order)
           g == [e \in (1..n) \X Queues |-> IF e[1] - 1 \in C!Running THEN C!Put(e[2], e[1] - 1) ELSE e[2]]
<1>1. n \in Nat /\ \A k \in 1..n : k - 1 \in CPUs BY OrderIs
<1>2. \A k \in 1..n, v \in Queues : g[<<k, v>>] = IF k - 1 \in C!Running THEN C!Put(v, k - 1) ELSE v OBVIOUS
<1> HIDE DEF g
<1>3. ASSUME NEW k \in 1..n, NEW v \in Queues, k - 1 \in C!Running PROVE C!Put(v, k - 1) \in Queues
  <2>1. k - 1 \in CPUs /\ sched_current[k - 1] # 0 BY <1>1, <1>3 DEF C!Running, C!IDLE
  <2> QED BY <2>1, PutKeeps
<1> HIDE DEF n
<1>4. \A k \in 1..n, v \in Queues : g[<<k, v>>] \in Queues BY <1>2, <1>3
<1>5. sched_queue \in Queues BY DEF MultiInv
<1>6. PICK W \in [0..n -> Queues] : Solves(n, sched_queue, g, W) BY <1>1, <1>4, <1>5, Solvable
<1>7. ASSUME NEW k \in 0..n
      PROVE  W[k] = IF k = 0 THEN sched_queue ELSE IF k - 1 \in C!Running THEN C!Put(W[k - 1], k - 1) ELSE W[k - 1]
  <2>1. W[k] = IF k = 0 THEN sched_queue ELSE g[<<k, W[k - 1]>>] BY <1>6 DEF Solves
  <2>2. CASE k = 0 BY <2>1, <2>2
  <2>3. CASE k # 0
    <3>1. k \in 1..n /\ k - 1 \in 0..n BY <1>1, <2>3
    <3>2. W[k - 1] \in Queues BY <3>1
    <3> QED BY <1>2, <2>1, <2>3, <3>1, <3>2
  <2> QED BY <2>2, <2>3
<1>8. W = [k \in 0..n |-> W[k]] OBVIOUS
<1>9. Returned(n, W) BY <1>7, <1>8 DEF Returned
<1> DEFINE V == CHOOSE V : Returned(n, V)
<1>10. Returned(n, V) BY <1>9
<1>11. C!PutBack = V[n] BY DEF C!PutBack, Returned, n
<1> HIDE DEF V
<1> DEFINE Q == {k \in 0..n : V[k] \in Queues}
<1>12. 0 \in Q
  <2>1. 0 \in 0..n BY <1>1
  <2>2. V[0] = sched_queue BY <1>10, <2>1 DEF Returned
  <2> QED BY <1>5, <2>1, <2>2
<1>13. ASSUME NEW k \in 1..n, k - 1 \in Q PROVE k \in Q
  <2>1. k \in 0..n /\ k # 0 BY <1>1
  <2>2. V[k] = IF k - 1 \in C!Running THEN C!Put(V[k - 1], k - 1) ELSE V[k - 1] BY <1>10, <2>1 DEF Returned
  <2>3. V[k - 1] \in Queues BY <1>13
  <2>4. V[k] \in Queues BY <1>3, <2>2, <2>3
  <2> QED BY <2>1, <2>4
<1>14. n \in Q
  <2> HIDE DEF Q
  <2>1. \A k \in 0..n : k \in Q BY <1>1, <1>12, <1>13, Climb
  <2> QED BY <1>1, <2>1
<1> QED BY <1>11, <1>14

\* The jobs of a workload, dealt out: those left, and queues of jobs that may be in them.
Deals(w) ==
  [left : Seq(DOMAIN w),
   queue : {Q \in [CPUs -> Seq(DOMAIN w)] : \A cpu \in CPUs : \A k \in 1..Len(Q[cpu]) : C!Allowed(w[Q[cpu][k]], cpu)}]

\* Dealing to one processor.
LEMMA DealtToKeeps ==
  ASSUME NEW w, NEW T \in Deals(w), NEW cpu \in CPUs
  PROVE  C!DealtTo(w, cpu, T) \in Deals(w)
<1> DEFINE S == {j \in DOMAIN w : C!Allowed(w[j], cpu)}
           k == C!FirstIn(T.left, S)
           L == Append(T.queue[cpu], T.left[k])
           R == [T.queue EXCEPT ![cpu] = L]
<1>1. C!DealtTo(w, cpu, T) = IF k = 0 THEN T ELSE [left |-> C!RemoveAt(T.left, k), queue |-> R]
  BY DEF C!DealtTo
<1>2. /\ T.left \in Seq(DOMAIN w) /\ T.queue \in [CPUs -> Seq(DOMAIN w)]
      /\ \A u \in CPUs : \A i \in 1..Len(T.queue[u]) : C!Allowed(w[T.queue[u][i]], u)
  BY DEF Deals
<1>3. k = 0 \/ (k \in 1..Len(T.left) /\ T.left[k] \in S) BY <1>2, FirstIs
<1> HIDE DEF k
<1>4. CASE k = 0 BY <1>1, <1>4
<1>5. CASE k # 0
  <2>1. k \in 1..Len(T.left) /\ T.left[k] \in DOMAIN w /\ C!Allowed(w[T.left[k]], cpu) BY <1>3, <1>5
  <2>2. C!RemoveAt(T.left, k) \in Seq(DOMAIN w) BY <1>2, <2>1, RemoveAtIs
  <2>3. T.queue[cpu] \in Seq(DOMAIN w) BY <1>2
  <2> DEFINE q == T.queue[cpu]
             x == T.left[k]
  <2>4. L = Append(q, x) OBVIOUS
  <2>5. q \in Seq(DOMAIN w) /\ x \in DOMAIN w /\ C!Allowed(w[x], cpu) /\ \A i \in 1..Len(q) : C!Allowed(w[q[i]], cpu)
    BY <1>2, <2>1
  <2> HIDE DEF q, x, L
  <2>6. L \in Seq(DOMAIN w) /\ Len(L) = Len(q) + 1 /\ \A i \in 1..Len(q) + 1 : L[i] = IF i = Len(q) + 1 THEN x ELSE q[i]
    BY <2>4, <2>5
  <2>7. \A i \in 1..Len(L) : C!Allowed(w[L[i]], cpu)
    <3>1. Len(q) \in Nat BY <2>5
    <3>2. \A i \in 1..Len(q) + 1 : i # Len(q) + 1 => i \in 1..Len(q) BY <3>1
    <3> QED BY <2>5, <2>6, <3>2
  <2>8. R \in [CPUs -> Seq(DOMAIN w)] /\ \A u \in CPUs : R[u] = IF u = cpu THEN L ELSE T.queue[u] BY <1>2, <2>6
  <2> HIDE DEF R
  <2>9. \A u \in CPUs : \A i \in 1..Len(R[u]) : C!Allowed(w[R[u][i]], u) BY <1>2, <2>7, <2>8
  <2> QED BY <1>1, <1>5, <2>2, <2>8, <2>9 DEF Deals
<1> QED BY <1>4, <1>5

\* Before any job is dealt out.
Undealt(w) == [left |-> [j \in DOMAIN w |-> j], queue |-> [cpu \in CPUs |-> <<>>]]
\* V[k] is what is dealt out in the first k turns.
DealtIn(w, n, V) ==
  V = [k \in 0..n |-> IF k = 0 THEN Undealt(w) ELSE C!DealtTo(w, (k - 1) % Len(C!Order), V[k - 1])]

\* With -p the jobs are dealt out to processors they may run on.
LEMMA DealtKeeps ==
  ASSUME NEW Kind, NEW w \in Seq(Kind)
  PROVE  /\ C!Dealt(w) \in [CPUs -> Seq(DOMAIN w)]
         /\ \A cpu \in CPUs : \A k \in 1..Len(C!Dealt(w)[cpu]) : C!Allowed(w[C!Dealt(w)[cpu][k]], cpu)
<1> DEFINE m == Len(C!Order)
           n == Len(w) * m
           g == [e \in (1..n) \X Deals(w) |-> C!DealtTo(w, (e[1] - 1) % m, e[2])]
<1>1. Len(w) \in Nat /\ DOMAIN w = 1..Len(w) OBVIOUS
<1>2. m \in Nat /\ CPUs = 0..m - 1 BY OrderIs
<1>3. n \in Nat
  <2> HIDE DEF m
  <2> QED BY <1>1, <1>2
<1>4. \A k \in 1..n, v \in Deals(w) : g[<<k, v>>] = C!DealtTo(w, (k - 1) % m, v) OBVIOUS
<1>5. ASSUME NEW k \in 1..n PROVE (k - 1) % m \in CPUs
  <2> DEFINE l == Len(w)
  <2>1. l \in Nat /\ m \in Nat BY <1>1, <1>2
  <2>2. k \in 1..l * m OBVIOUS
  <2> HIDE DEF m, l
  <2>3. m # 0
    <3>1. m = 0 => l * m = 0 BY <2>1
    <3> QED BY <2>2, <3>1
  <2>4. k - 1 \in Nat BY <1>5, <2>1, <2>2
  <2>5. (k - 1) % m \in 0..m - 1 BY <2>1, <2>3, <2>4
  <2> QED BY <1>2, <2>5
<1> HIDE DEF g, n, m
<1>6. ASSUME NEW k \in 1..n, NEW v \in Deals(w) PROVE C!DealtTo(w, (k - 1) % m, v) \in Deals(w)
  BY <1>5, DealtToKeeps
<1>7. \A k \in 1..n, v \in Deals(w) : g[<<k, v>>] \in Deals(w) BY <1>4, <1>6
<1>8. Undealt(w) \in Deals(w)
  <2> DEFINE L == [j \in DOMAIN w |-> j]
             E == [cpu \in CPUs |-> <<>>]
  <2>1. L \in Seq(DOMAIN w) BY <1>1
  <2>2. E \in [CPUs -> Seq(DOMAIN w)] /\ \A u \in CPUs : E[u] = <<>> OBVIOUS
  <2>3. Len(<<>>) = 0 /\ \A i \in 1..0 : FALSE OBVIOUS
  <2>4. Undealt(w) = [left |-> L, queue |-> E] BY DEF Undealt
  <2> HIDE DEF L, E
  <2>5. \A u \in CPUs : \A i \in 1..Len(E[u]) : C!Allowed(w[E[u][i]], u) BY <2>2, <2>3
  <2> QED BY <2>1, <2>2, <2>4, <2>5 DEF Deals
<1>9. PICK W \in [0..n -> Deals(w)] : Solves(n, Undealt(w), g, W) BY <1>3, <1>7, <1>8, Solvable
<1>10. ASSUME NEW k \in 0..n
       PROVE  W[k] = IF k = 0 THEN Undealt(w) ELSE C!DealtTo(w, (k - 1) % m, W[k - 1])
  <2>1. W[k] = IF k = 0 THEN Undealt(w) ELSE g[<<k, W[k - 1]>>] BY <1>9 DEF Solves
  <2>2. CASE k = 0 BY <2>1, <2>2
  <2>3. CASE k # 0
    <3>1. k \in 1..n /\ k - 1 \in 0..n BY <1>3, <2>3
    <3>2. W[k - 1] \in Deals(w) BY <3>1
    <3> QED BY <1>4, <2>1, <2>3, <3>1, <3>2
  <2> QED BY <2>2, <2>3
<1>11. W = [k \in 0..n |-> W[k]] OBVIOUS
<1>12. DealtIn(w, n, W) BY <1>10, <1>11 DEF DealtIn, m
<1> DEFINE V == CHOOSE V : DealtIn(w, n, V)
<1>13. DealtIn(w, n, V) BY <1>12
<1>14. C!Dealt(w) = V[n].queue BY DEF C!Dealt, DealtIn, Undealt, n, m
<1> HIDE DEF V
<1> DEFINE Q == {k \in 0..n : V[k] \in Deals(w)}
<1>15. 0 \in Q
  <2>1. 0 \in 0..n BY <1>3
  <2>2. V[0] = Undealt(w) BY <1>13, <2>1 DEF DealtIn
  <2> QED BY <1>8, <2>1, <2>2
<1>16. ASSUME NEW k \in 1..n, k - 1 \in Q PROVE k \in Q
  <2>1. k \in 0..n /\ k # 0 BY <1>3
  <2>2. V[k] = C!DealtTo(w, (k - 1) % m, V[k - 1]) BY <1>13, <2>1 DEF DealtIn, m
  <2>3. V[k] \in Deals(w) BY <1>6, <1>16, <2>2
  <2> QED BY <2>1, <2>3
<1>17. V[n] \in Deals(w)
  <2> HIDE DEF Q
  <2>1. \A k \in 0..n : k \in Q BY <1>3, <1>15, <1>16, Climb
  <2> QED BY <1>3, <2>1 DEF Q
<1> QED BY <1>14, <1>17 DEF Deals

\* The invariant of multi.py holds at the start.
LEMMA MultiInit == C!Init => MultiInv
<1> SUFFICES ASSUME C!Init PROVE MultiInv OBVIOUS
<1>1. /\ jobs \in MultiWorkloads /\ sched_current = [cpu \in CPUs |-> 0] /\ pc = "interrupts"
      /\ sched_queue = IF options.per_cpu THEN C!Dealt(jobs) ELSE [q \in {0} |-> [j \in C!Jobs |-> j]]
  BY DEF C!Init, C!IDLE
<1>2. jobs \in Seq([run_time : Nat, working_set_size : Nat, affinity : SUBSET CPUs]) BY <1>1, MultiAssumption
<1>3. C!Jobs = 1..Len(jobs) /\ Len(jobs) \in Nat BY <1>2 DEF C!Jobs
<1>4. sched_queue \in Queues
  <2>1. CASE options.per_cpu
    <3>1. /\ sched_queue \in [CPUs -> Seq(C!Jobs)]
          /\ \A cpu \in CPUs : \A k \in 1..Len(sched_queue[cpu]) : C!Allowed(jobs[sched_queue[cpu][k]], cpu)
      BY <1>1, <1>2, <2>1, DealtKeeps DEF C!Jobs
    <3>2. ASSUME NEW cpu \in CPUs, NEW k \in 1..Len(sched_queue[cpu]) PROVE sched_queue[cpu][k] \in C!MayRun(cpu)
      <4>1. sched_queue[cpu] \in Seq(C!Jobs) BY <3>1
      <4>2. sched_queue[cpu][k] \in C!Jobs BY <4>1
      <4> QED BY <3>1, <4>2 DEF C!MayRun
    <3> QED BY <2>1, <3>1, <3>2 DEF Queues, Homes, Waits
  <2>2. CASE ~options.per_cpu
    <3> DEFINE L == [j \in C!Jobs |-> j]
    <3>1. L \in Seq(C!Jobs) BY <1>3
    <3> HIDE DEF L
    <3>2. [q \in {0} |-> L] \in [{0} -> Seq(C!Jobs)] BY <3>1
    <3> QED BY <1>1, <2>2, <3>2 DEF Queues, Homes, L
  <2> QED BY <2>1, <2>2
<1> QED BY <1>1, <1>4 DEF MultiInv

\* A job that steal_jobs takes may run where it is taken to.
LEMMA StolenMayRun ==
  ASSUME MultiInv, NEW cpu \in CPUs, NEW j, j \in C!CanSteal(cpu)
  PROVE  j \in C!MayRun(cpu)
<1>1. j \in DOMAIN jobs /\ (jobs[j].affinity = {} \/ cpu \in {jobs[j].run_time, jobs[j].working_set_size})
  BY DEF C!CanSteal, C!Jobs
<1>2. jobs[j].affinity = {} \/ {jobs[j].run_time, jobs[j].working_set_size} \cap CPUs \subseteq jobs[j].affinity
  BY <1>1, NumbersApart DEF MultiInv
<1>3. jobs[j].affinity = {} \/ cpu \in jobs[j].affinity BY <1>1, <1>2
<1> QED BY <1>1, <1>3 DEF C!MayRun, C!Jobs, C!Allowed

\* A job taken from a queue was in it, and the queue is left without it.
LEMMA TakenFrom ==
  ASSUME NEW Q \in Queues, NEW h \in Homes, NEW S, C!FirstIn(Q[h], S) # 0
  PROVE  /\ Q[h][C!FirstIn(Q[h], S)] \in S /\ Q[h][C!FirstIn(Q[h], S)] \in C!Jobs
         /\ [Q EXCEPT ![h] = C!RemoveAt(Q[h], C!FirstIn(Q[h], S))] \in Queues
<1> DEFINE L == Q[h]
           k == C!FirstIn(L, S)
           R == C!RemoveAt(L, k)
<1>1. L \in Seq(C!Jobs) BY DEF Queues
<1>2. k \in 1..Len(L) /\ L[k] \in S BY <1>1, FirstIs
<1>3. L[k] \in C!Jobs BY <1>1, <1>2
<1>4. R \in Seq(C!Jobs) /\ \A i \in 1..Len(R) : \E a \in 1..Len(L) : R[i] = L[a] BY <1>1, <1>2, RemoveAtIs
<1>5. options.per_cpu => Waits(h, L) BY DEF Queues, Homes
<1> HIDE DEF R, k, L
<1>6. options.per_cpu => Waits(h, R) BY <1>4, <1>5 DEF Waits
<1>7. [Q EXCEPT ![h] = R] \in Queues BY <1>4, <1>6, QueueChanged
<1> QED BY <1>2, <1>3, <1>7 DEF R, k, L

\* What a processor does in a tick keeps the invariant.
LEMMA MultiStep == MultiInv /\ C!Next => MultiInv'
<1> SUFFICES ASSUME MultiInv, C!Next PROVE MultiInv' OBVIOUS
<1>0. /\ jobs \in MultiWorkloads /\ sched_queue \in Queues /\ sched_current \in [CPUs -> C!Jobs \cup {0}]
      /\ \A cpu \in CPUs : sched_current[cpu] # 0 => sched_current[cpu] \in C!MayRun(cpu)
      /\ pc = "steal" => options.per_cpu
  BY DEF MultiInv
\* The invariant of the next state, when jobs and options stay.
<1>1. ASSUME jobs' = jobs, options' = options, sched_queue' \in Queues, sched_current' \in [CPUs -> C!Jobs \cup {0}],
             \A cpu \in CPUs : sched_current'[cpu] # 0 => sched_current'[cpu] \in C!MayRun(cpu),
             pc' = "steal" => options.per_cpu
      PROVE  MultiInv'
  <2>1. C!Jobs' = C!Jobs /\ \A cpu : C!MayRun(cpu)' = C!MayRun(cpu) BY <1>1 DEF C!Jobs, C!MayRun, C!Allowed
  <2>2. Homes' = Homes BY <1>1 DEF Homes
  <2>3. sched_queue' \in Queues'
    <3>1. \A cpu, L : Waits(cpu, L)' <=> Waits(cpu, L) BY <2>1 DEF Waits
    <3> QED BY <1>1, <2>1, <2>2, <3>1 DEF Queues, Waits
  <2> QED BY <1>0, <1>1, <2>1, <2>3 DEF MultiInv
<1>3. \A S, part : part # "steal" /\ C!Done(part, S) => (pc' = "steal" => options.per_cpu) BY <1>0 DEF C!Done
<1>4. CASE C!HandleInterrupts
  <2>1. jobs' = jobs /\ options' = options BY <1>4 DEF C!HandleInterrupts
  <2>2. pc' = "steal" => options.per_cpu BY <1>4 DEF C!HandleInterrupts, C!Peeks
  <2>3. CASE C!SliceOver
    <3>1. sched_queue' = C!PutBack /\ sched_current' = [cpu \in CPUs |-> 0]
      BY <1>4, <2>3 DEF C!HandleInterrupts, C!IDLE
    <3>2. C!PutBack \in Queues BY PutBackKeeps
    <3>3. sched_current' \in [CPUs -> C!Jobs \cup {0}] /\ \A cpu \in CPUs : sched_current'[cpu] = 0 BY <3>1
    <3> QED BY <1>1, <2>1, <2>2, <3>1, <3>2, <3>3
  <2>4. CASE ~C!SliceOver
    <3>1. sched_queue' = sched_queue /\ sched_current' = sched_current BY <1>4, <2>4 DEF C!HandleInterrupts
    <3> QED BY <1>0, <1>1, <2>1, <2>2, <3>1
  <2> QED BY <2>3, <2>4
<1>5. ASSUME NEW cpu \in CPUs, C!Steal(cpu) PROVE MultiInv'
  <2>1. /\ options.per_cpu /\ jobs' = jobs /\ options' = options /\ sched_current' = sched_current
        /\ C!Done("assign", C!Orders)
    BY <1>0, <1>5 DEF C!Steal
  <2>2. pc' = "steal" => options.per_cpu BY <2>1
  <2>3. Homes = CPUs BY <2>1 DEF Homes
  <2>4. PICK other \in CPUs \ {cpu} :
          \/ sched_queue' = sched_queue
          \/ /\ C!FirstIn(sched_queue[other], C!CanSteal(cpu)) # 0
             /\ sched_queue' = [sched_queue EXCEPT
                                  ![cpu] = <<sched_queue[other][C!FirstIn(sched_queue[other], C!CanSteal(cpu))]>>,
                                  ![other] = C!RemoveAt(@, C!FirstIn(sched_queue[other], C!CanSteal(cpu)))]
    BY <1>5 DEF C!Steal
  <2> DEFINE L == sched_queue[other]
             k == C!FirstIn(L, C!CanSteal(cpu))
             one == <<L[k]>>
             R == C!RemoveAt(L, k)
             Q == [sched_queue EXCEPT ![other] = R]
  <2>5. CASE sched_queue' = sched_queue BY <1>0, <1>1, <2>1, <2>2, <2>5
  <2>6. CASE /\ C!FirstIn(sched_queue[other], C!CanSteal(cpu)) # 0
             /\ sched_queue' = [sched_queue EXCEPT
                                  ![cpu] = <<sched_queue[other][C!FirstIn(sched_queue[other], C!CanSteal(cpu))]>>,
                                  ![other] = C!RemoveAt(@, C!FirstIn(sched_queue[other], C!CanSteal(cpu)))]
    <3>1. L[k] \in C!CanSteal(cpu) /\ L[k] \in C!Jobs /\ Q \in Queues BY <1>0, <2>3, <2>6, TakenFrom
    <3>2. sched_queue \in [CPUs -> Seq(C!Jobs)] BY <1>0, <2>3 DEF Queues
    <3>3. sched_queue' = [Q EXCEPT ![cpu] = one]
      <4>1. \A f \in [CPUs -> Seq(C!Jobs)] : \A r : [f EXCEPT ![cpu] = one, ![other] = r] = [[f EXCEPT ![other] = r] EXCEPT ![cpu] = one]
        BY <2>4
      <4>2. sched_queue' = [sched_queue EXCEPT ![cpu] = one, ![other] = R] BY <2>4, <2>6
      <4> QED BY <3>2, <4>1, <4>2
    <3>4. L[k] \in C!MayRun(cpu) BY <3>1, StolenMayRun
    <3>5. one \in Seq(C!Jobs) /\ Len(one) = 1 /\ one[1] = L[k] BY <3>1
    <3> HIDE DEF one, Q, L, k, R
    <3>6. Waits(cpu, one) BY <3>4, <3>5 DEF Waits
    <3>7. [Q EXCEPT ![cpu] = one] \in Queues BY <2>3, <3>1, <3>5, <3>6, QueueChanged
    <3> QED BY <1>0, <1>1, <2>1, <2>2, <3>3, <3>7
  <2> QED BY <2>4, <2>5, <2>6
<1>6. ASSUME NEW cpu \in CPUs, C!GetJob(cpu) PROVE MultiInv'
  <2> DEFINE h == C!QueueOf(cpu)
             L == sched_queue[h]
             k == C!FirstIn(L, C!MayRun(cpu))
  <2>1. jobs' = jobs /\ options' = options /\ C!Done("run", {C!Order}) BY <1>6 DEF C!GetJob
  <2>2. pc' = "steal" => options.per_cpu BY <1>3, <2>1
  <2>3. h \in Homes BY HomeIs
  <2>4. CASE sched_current[cpu] # C!IDLE \/ k = 0
    <3>1. sched_queue' = sched_queue /\ sched_current' = sched_current BY <1>6, <2>4 DEF C!GetJob
    <3> QED BY <1>0, <1>1, <2>1, <2>2, <3>1
  <2>5. CASE ~(sched_current[cpu] # C!IDLE \/ k = 0)
    <3>1. /\ sched_queue' = [sched_queue EXCEPT ![h] = C!RemoveAt(L, k)]
          /\ sched_current' = [sched_current EXCEPT ![cpu] = L[k]]
      BY <1>6, <2>5 DEF C!GetJob
    <3>2. L[k] \in C!MayRun(cpu) /\ L[k] \in C!Jobs /\ [sched_queue EXCEPT ![h] = C!RemoveAt(L, k)] \in Queues
      BY <1>0, <2>3, <2>5, TakenFrom
    <3> HIDE DEF k, L, h
    <3>3. sched_current' \in [CPUs -> C!Jobs \cup {0}]
          /\ \A u \in CPUs : sched_current'[u] = IF u = cpu THEN L[k] ELSE sched_current[u]
      BY <1>0, <3>1, <3>2
    <3> QED BY <1>0, <1>1, <2>1, <2>2, <3>1, <3>2, <3>3
  <2> QED BY <2>4, <2>5
<1>7. ASSUME NEW cpu \in CPUs, C!RunOneTick(cpu) PROVE MultiInv'
  <2>1. jobs' = jobs /\ options' = options /\ sched_queue' = sched_queue /\ C!Done("interrupts", {<<>>})
    BY <1>7 DEF C!RunOneTick
  <2>2. pc' = "steal" => options.per_cpu BY <1>3, <2>1
  <2>3. sched_current' = sched_current \/ sched_current' = [sched_current EXCEPT ![cpu] = 0]
    BY <1>7 DEF C!RunOneTick, C!IDLE
  <2>4. CASE sched_current' = sched_current BY <1>0, <1>1, <2>1, <2>2, <2>4
  <2>5. CASE sched_current' = [sched_current EXCEPT ![cpu] = 0]
    <3>1. sched_current' \in [CPUs -> C!Jobs \cup {0}]
          /\ \A u \in CPUs : sched_current'[u] = IF u = cpu THEN 0 ELSE sched_current[u]
      BY <1>0, <2>5
    <3> QED BY <1>0, <1>1, <2>1, <2>2, <3>1
  <2> QED BY <2>3, <2>4, <2>5
<1> QED BY <1>4, <1>5, <1>6, <1>7 DEF C!Next

\* The invariant says what AffinityKept does.
LEMMA MultiHolds == MultiInv => C!AffinityKept
<1> SUFFICES ASSUME MultiInv, NEW cpu \in CPUs
             PROVE  /\ sched_current[cpu] # 0 => sched_current[cpu] \in C!MayRun(cpu)
                    /\ options.per_cpu => C!Range(sched_queue[cpu]) \subseteq C!MayRun(cpu)
  BY DEF C!AffinityKept, C!IDLE
<1>1. ASSUME options.per_cpu PROVE C!Range(sched_queue[cpu]) \subseteq C!MayRun(cpu)
  <2>1. sched_queue[cpu] \in Seq(C!Jobs) /\ Waits(cpu, sched_queue[cpu]) BY <1>1 DEF MultiInv, Queues, Homes
  <2>2. DOMAIN sched_queue[cpu] = 1..Len(sched_queue[cpu]) BY <2>1
  <2> QED BY <2>1, <2>2 DEF C!Range, Waits
<1> QED BY <1>1 DEF MultiInv

-----------------------------------------------------------------------------
(* x86.py: the invariant of X86Proofs, which this module takes for programs *)
(* of its own set.                                                          *)
XP == INSTANCE X86Proofs WITH Programs <- X86Set

\* Both are the same program.
LEMMA SameInit == XP!Init <=> X!Init
BY DEF
   X!Init, XP!Init, X!Loads, XP!Loads, X!Load, XP!Load, X!Named, XP!Named, X!Before, XP!Before, X!Cardinality,
   XP!Cardinality, X!LineOf, XP!LineOf, X!Max, XP!Max, X!WellFormed, XP!WellFormed, X!Forms, XP!Forms, X!JumpIf,
   XP!JumpIf, X!IR, XP!IR, X!RR, XP!RR, X!RM, XP!RM, X!MR, XP!MR, X!DataEnd, XP!DataEnd, X!DATA, XP!DATA,
   X!MapThenSumSet, XP!MapThenSumSet, X!MapThenFoldSet, XP!MapThenFoldSet, X!GetArg, XP!GetArg, X!VarAddress,
   XP!VarAddress, X!LabelAddress, XP!LabelAddress, X!Mem, XP!Mem, X!Imm, XP!Imm, X!Process, XP!Process, X!Registers,
   XP!Registers, X!Legal, XP!Legal, X!Range, XP!Range, X!Manual, XP!Manual, X!RoundRobin, XP!RoundRobin, X!Setint,
   XP!Setint
LEMMA SameStep == XP!Step <=> X!Step
BY DEF
   X!Step, XP!Step, X!Executed, XP!Executed, X!Execute, XP!Execute, X!Put, XP!Put, X!Value, XP!Value, X!Address,
   XP!Address, X!Unscaled, XP!Unscaled, X!Read, XP!Read, X!Written, XP!Written, X!AtomicExchange, XP!AtomicExchange,
   X!Fetchadd, XP!Fetchadd, X!Exchanged, XP!Exchanged, X!TestAll, XP!TestAll, X!Conditions, XP!Conditions, X!JumpIf,
   XP!JumpIf, X!Call, XP!Call, X!Ret, XP!Ret, X!PushArg, XP!PushArg, X!PopR, XP!PopR, X!Push, XP!Push, X!Lowered,
   XP!Lowered, X!Raised, XP!Raised, X!Top, XP!Top, X!AllDone, XP!AllDone, X!Done, XP!Done, X!Switched, XP!Switched,
   X!NextPlace, XP!NextPlace, X!Place, XP!Place, X!Min, XP!Min, X!Save, XP!Save, X!Becomes, XP!Becomes, X!Setint,
   XP!Setint, X!setup, XP!setup

\* The options are those X86Proofs assumes.
LEMMA OptionsAre == XP!OptionsWellFormed
BY X86Assumption DEF X!OptionsWellFormed, XP!OptionsWellFormed

\* x86.py runs a thread that has not halted.
LEMMA ThreadInit == X!Init => XP!XInv
BY SameInit, OptionsAre, XP!InitGood
LEMMA ThreadStep == XP!XInv /\ X!Next => XP!XInv'
<1> SUFFICES ASSUME XP!XInv, X!Step PROVE XP!XInv' BY DEF X!Next
<1>1. XP!Step BY SameStep
<1> QED BY <1>1, XP!StepSeen
LEMMA ThreadHolds == XP!XInv => X!LiveOneRuns
BY DEF XP!XInv, X!LiveOneRuns, XP!AllDone, X!AllDone, XP!Current, X!Current

-----------------------------------------------------------------------------
(* All of them. *)

RightInv ==
  /\ Of("process-run.py", ProcInv) /\ Of("multi.py", MultiInv) /\ Of("x86.py", XP!XInv)

\* The invariant of the three programs holds always.
LEMMA RightInvHolds == MCSpec => []RightInv
<1>1. MCInit => RightInv BY ProcInit, MultiInit, ThreadInit DEF MCInit, RightInv, Of
<1>2. RightInv /\ [MCNext]_vars => RightInv'
  <2> SUFFICES ASSUME RightInv, [MCNext]_vars PROVE RightInv' OBVIOUS
  <2>0. package' = package BY DEF MCNext, vars
  <2>1. CASE package = "process-run.py" /\ P!Next BY <2>0, <2>1, ProcStep DEF RightInv, Of
  <2>2. CASE package = "multi.py" /\ C!Next BY <2>0, <2>2, MultiStep DEF RightInv, Of
  <2>3. CASE package = "x86.py" /\ X!Next BY <2>0, <2>3, ThreadStep DEF RightInv, Of
  <2>4. CASE package \notin {"process-run.py", "multi.py", "x86.py"} BY <2>0, <2>4 DEF RightInv, Of
  <2>5. CASE UNCHANGED vars
    <3>1. UNCHANGED <<package, options, proc_info, curr_proc, io_finish_times, clock_tick, started, failed,
                      jobs, sched_queue, sched_current, pc, procsched, memory, PC, registers, conditions, plist, curr>>
      BY <2>5 DEF vars, pvars, cvars, xvars
    <3>2. ProcInv => ProcInv' BY <3>1 DEF ProcInv, ProcIs, Procs, P!Pids, P!Now
    <3>3. MultiInv => MultiInv' BY <3>1 DEF MultiInv, Queues, Homes, Waits, C!Jobs, C!MayRun, C!Allowed
    <3>4. XP!XInv => XP!XInv'
      BY <3>1 DEF XP!XInv, XP!AllDone, XP!Good, XP!IsState, XP!InSchedule, XP!Current, XP!St
    <3> QED BY <3>1, <3>2, <3>3, <3>4 DEF RightInv, Of
  <2> QED BY <2>1, <2>2, <2>3, <2>4, <2>5 DEF MCNext
<1> QED BY <1>1, <1>2, PTL DEF MCSpec

\* THE THEOREM.  Whatever the programs, workloads, options and numbers of processors,
\* process-run.py never leaves its processor idle, or without -S SWITCH_ON_IO starts no
\* process before those ahead of it have ended; multi.py lets no job run, and with -p
\* wait, where its affinity forbids; and x86.py runs a thread that has not halted.
THEOREM RightOneHolds == MCSpec => []RightOneRuns
<1>1. RightInv => RightOneRuns BY ProcHolds, MultiHolds, ThreadHolds DEF RightInv, RightOneRuns, Of
<1> QED BY <1>1, RightInvHolds, PTL

\* THE THEOREM.  process-run.py's conjuncts of SchedTypeOK and OnePlace: no assertion of
\* its moves fails, at most one process runs, and a process waits for the end of one I/O
\* if it is blocked and of none otherwise.
THEOREM ProcessesSound == MCSpec => []Of("process-run.py", P!TypeOK /\ P!OnePlace)
<1>1. RightInv => Of("process-run.py", P!TypeOK /\ P!OnePlace) BY ProcHolds DEF RightInv, Of
<1> QED BY <1>1, RightInvHolds, PTL
=============================================================================
