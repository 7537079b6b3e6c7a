----------------------------- MODULE X86Proofs ------------------------------
(***************************************************************************)
(* Proof that the simulated processor of x86.py implements the machine of  *)
(* module Machine: whatever the program, the interrupts and the schedule,  *)
(* saving, restoring and switching contexts shows each thread as running   *)
(* alone, one instruction at a time.                                       *)
(***************************************************************************)
EXTENDS X86, WellFoundedInduction, TLAPS

\* A set of numbers that is not empty has a least one.
LEMMA Least == ASSUME NEW S \in SUBSET Nat, S # {} PROVE \E x \in S : \A y \in S : x <= y
<1>1. PICK x \in S : \A y \in S : ~(<<y, x>> \in OpToRel(<, Nat))
  BY NatLessThanWellFounded, WFMin, Zenon
<1>2. \A y \in S : ~(y < x) BY <1>1, Zenon DEF OpToRel
<1> QED BY ONLY <1>2, S \in SUBSET Nat

-----------------------------------------------------------------------------
(* The processor and the threads while an instruction is carried out. *)

\* s has the fields of such a state, and its threads those of a context.
IsState(s) ==
  /\ s = [mem |-> s.mem, pc |-> s.pc, regs |-> s.regs, cc |-> s.cc, plist |-> s.plist, curr |-> s.curr]
  /\ s.plist = [t \in DOMAIN s.plist |-> s.plist[t]]
  /\ \A t \in DOMAIN s.plist :
       /\ s.plist[t] = [pc |-> s.plist[t].pc, cc |-> s.plist[t].cc, done |-> s.plist[t].done,
                        regs |-> s.plist[t].regs]
       /\ s.plist[t].done \in BOOLEAN
\* The schedule names every thread, and s is at a place of it.
InSchedule(s) ==
  /\ Len(procsched) \in Nat /\ DOMAIN procsched = 1 .. Len(procsched)
  /\ {procsched[k] : k \in 1 .. Len(procsched)} = DOMAIN s.plist
  /\ s.curr \in 1 .. Len(procsched)
Good(s) == IsState(s) /\ InSchedule(s)
Cur(s) == procsched[s.curr]

\* What the machine sees of thread t in s.
Live(pc, regs, cc) == [live |-> TRUE, pc |-> pc, regs |-> regs, cc |-> cc]
Seen(s, t) ==
  IF s.plist[t].done THEN Halted
  ELSE IF t = Cur(s) THEN Live(s.pc, s.regs, s.cc)
  ELSE Live(s.plist[t].pc, s.plist[t].regs, s.plist[t].cc)

\* The place procs.next() finds is one of a thread that is not done.
LEMMA NextIsLive ==
  ASSUME NEW s, Good(s), ~AllDone(s.plist)
  PROVE  /\ NextPlace(s.plist, s.curr) \in 1 .. Len(procsched)
         /\ ~s.plist[procsched[NextPlace(s.plist, s.curr)]].done
<1> DEFINE n == Len(procsched)
           k == s.curr
           S == {d \in 1 .. n : ~s.plist[procsched[Place(k + d)]].done}
<1>1. n \in Nat /\ k \in 1 .. n BY DEF Good, InSchedule
<1>2. \A d \in 1 .. n : Place(k + d) \in 1 .. n BY <1>1 DEF Place
<1>3. PICK j \in 1 .. n : ~s.plist[procsched[j]].done BY DEF AllDone, Good, InSchedule
<1>4. \E d \in 1 .. n : Place(k + d) = j
  <2>1. CASE j > k
    <3>1. j - k \in 1 .. n /\ k + (j - k) = j BY <1>1, <1>3, <2>1
    <3>2. Place(j) = j
      <4>1. j - 1 \in 0 .. n - 1 BY <1>1, <1>3
      <4>2. (j - 1) % n = j - 1 BY <1>1, <4>1
      <4> QED BY <1>3, <4>2 DEF Place
    <3> QED BY <3>1, <3>2
  <2>2. CASE j <= k
    <3>1. (j - k) + n \in 1 .. n /\ k + ((j - k) + n) = j + n BY <1>1, <1>3, <2>2
    <3>2. Place(j + n) = j
      <4>1. j - 1 \in 0 .. n - 1 /\ (j + n) - 1 = (j - 1) + n BY <1>1, <1>3
      <4>2. ((j - 1) + n) % n = j - 1 BY <1>1, <4>1
      <4> QED BY <1>1, <1>3, <4>1, <4>2 DEF Place
    <3> QED BY <3>1, <3>2
  <2> QED BY <1>1, <1>3, <2>1, <2>2
<1>5. S # {} BY <1>3, <1>4
<1>6. S \in SUBSET Nat BY <1>1
<1>7. \E x \in S : \A y \in S : x <= y BY <1>5, <1>6, Least
<1>8. Min(S) \in S BY <1>7 DEF Min
<1>9. NextPlace(s.plist, s.curr) = Place(k + Min(S)) BY DEF NextPlace
<1> QED BY <1>2, <1>8, <1>9

\* A switch away from a thread that is done, or whose context has been saved,
\* changes nothing the machine sees, and leaves a thread running that is not done.
LEMMA SwitchUnseen ==
  ASSUME NEW s, Good(s), ~AllDone(s.plist),
         \/ s.plist[Cur(s)].done
         \/ /\ s.plist[Cur(s)].pc = s.pc /\ s.plist[Cur(s)].regs = s.regs
            /\ s.plist[Cur(s)].cc = s.cc
  PROVE  /\ Good(Switched(s)) /\ Switched(s).mem = s.mem /\ Switched(s).plist = s.plist
         /\ ~s.plist[Cur(Switched(s))].done
         /\ \A t \in DOMAIN s.plist : Seen(Switched(s), t) = Seen(s, t)
<1> DEFINE k == NextPlace(s.plist, s.curr)
           p == s.plist[procsched[k]]
           z == Switched(s)
<1>1. k \in 1 .. Len(procsched) /\ ~p.done BY NextIsLive
<1>2. s = [mem |-> s.mem, pc |-> s.pc, regs |-> s.regs, cc |-> s.cc, plist |-> s.plist, curr |-> s.curr]
  BY DEF Good, IsState
<1>3. z = [s EXCEPT !.curr = k, !.pc = p.pc, !.regs = p.regs, !.cc = p.cc] BY DEF Switched
<1> HIDE DEF k, p, z
<1>4. z = [mem |-> s.mem, pc |-> p.pc, regs |-> p.regs, cc |-> p.cc, plist |-> s.plist, curr |-> k]
  BY ONLY <1>2, <1>3
<1>5. z.mem = s.mem /\ z.plist = s.plist /\ z.curr = k /\ z.pc = p.pc /\ z.regs = p.regs /\ z.cc = p.cc
  BY ONLY <1>4
<1>6. IsState(z) BY <1>4, <1>5 DEF Good, IsState
<1>7. InSchedule(z) BY <1>1, <1>5 DEF Good, InSchedule
<1>8. ~s.plist[Cur(z)].done BY <1>1, <1>5 DEF Cur, p
<1>9. ASSUME NEW t \in DOMAIN s.plist PROVE Seen(z, t) = Seen(s, t)
  <2>1. CASE s.plist[t].done BY <1>5, <2>1 DEF Seen
  <2>2. CASE ~s.plist[t].done /\ t = Cur(z)
    <3>1. Seen(z, t) = Live(s.plist[t].pc, s.plist[t].regs, s.plist[t].cc)
      BY <1>5, <2>2 DEF Seen, Cur, p
    <3>2. CASE t = Cur(s) BY <2>2, <3>1, <3>2 DEF Seen
    <3>3. CASE t # Cur(s) BY <2>2, <3>1, <3>3 DEF Seen
    <3> QED BY <3>2, <3>3
  <2>3. CASE ~s.plist[t].done /\ t # Cur(z)
    <3>1. Seen(z, t) = Live(s.plist[t].pc, s.plist[t].regs, s.plist[t].cc)
      BY <1>5, <2>3 DEF Seen
    <3>2. CASE t = Cur(s) BY <2>3, <3>1, <3>2 DEF Seen
    <3>3. CASE t # Cur(s) BY <2>3, <3>1, <3>3 DEF Seen
    <3> QED BY <3>2, <3>3
  <2> QED BY <2>1, <2>2, <2>3
<1> QED BY <1>5, <1>6, <1>7, <1>8, <1>9 DEF Good, z

\* A context as the records of the model write it.
LEMMA ContextFields ==
  ASSUME NEW r, r = [pc |-> r.pc, cc |-> r.cc, done |-> r.done, regs |-> r.regs]
  PROVE  /\ \A v : [r EXCEPT !.done = v] = [pc |-> r.pc, cc |-> r.cc, done |-> v, regs |-> r.regs]
         /\ \A x, y, w : [r EXCEPT !.pc = x, !.regs = y, !.cc = w]
                           = [pc |-> x, cc |-> w, done |-> r.done, regs |-> y]
<1>1. ASSUME NEW v
      PROVE  [r EXCEPT !.done = v] = [pc |-> r.pc, cc |-> r.cc, done |-> v, regs |-> r.regs]
  OBVIOUS
<1>2. ASSUME NEW x, NEW y, NEW w
      PROVE  [r EXCEPT !.pc = x, !.regs = y, !.cc = w] = [pc |-> x, cc |-> w, done |-> r.done, regs |-> y]
  <2>1. [r EXCEPT !.pc = x] = [pc |-> x, cc |-> r.cc, done |-> r.done, regs |-> r.regs] OBVIOUS
  <2>2. [[pc |-> x, cc |-> r.cc, done |-> r.done, regs |-> r.regs] EXCEPT !.regs = y]
          = [pc |-> x, cc |-> r.cc, done |-> r.done, regs |-> y]
    OBVIOUS
  <2>3. [[pc |-> x, cc |-> r.cc, done |-> r.done, regs |-> y] EXCEPT !.cc = w]
          = [pc |-> x, cc |-> w, done |-> r.done, regs |-> y]
    OBVIOUS
  <2>4. [r EXCEPT !.pc = x, !.regs = y, !.cc = w] = [[[r EXCEPT !.pc = x] EXCEPT !.regs = y] EXCEPT !.cc = w]
    OBVIOUS
  <2> QED BY ONLY <2>1, <2>2, <2>3, <2>4, Zenon
<1> QED BY <1>1, <1>2, Zenon

\* Saving the context of the running thread changes nothing the machine sees.
LEMMA SaveUnseen ==
  ASSUME NEW s, Good(s), ~s.plist[Cur(s)].done
  PROVE  /\ Good(Save(s)) /\ Save(s).mem = s.mem /\ DOMAIN Save(s).plist = DOMAIN s.plist
         /\ Cur(Save(s)) = Cur(s)
         /\ Save(s).plist[Cur(s)].pc = Save(s).pc /\ Save(s).plist[Cur(s)].regs = Save(s).regs
         /\ Save(s).plist[Cur(s)].cc = Save(s).cc
         /\ ~AllDone(Save(s).plist)
         /\ \A t \in DOMAIN s.plist : Seen(Save(s), t) = Seen(s, t)
<1> DEFINE c == Cur(s)
           z == Save(s)
           q == [pc |-> s.pc, cc |-> s.cc, done |-> s.plist[c].done, regs |-> s.regs]
<1>0. c \in DOMAIN s.plist BY DEF Good, InSchedule, Cur
<1>1. s = [mem |-> s.mem, pc |-> s.pc, regs |-> s.regs, cc |-> s.cc, plist |-> s.plist, curr |-> s.curr]
  BY DEF Good, IsState
<1>2. s.plist = [t \in DOMAIN s.plist |-> s.plist[t]] BY DEF Good, IsState
<1>3. s.plist[c] = [pc |-> s.plist[c].pc, cc |-> s.plist[c].cc, done |-> s.plist[c].done,
                    regs |-> s.plist[c].regs]
  BY <1>0 DEF Good, IsState
<1>4. z = [s EXCEPT !.plist[c].pc = s.pc, !.plist[c].regs = s.regs, !.plist[c].cc = s.cc]
  BY DEF Save, Cur
<1> HIDE DEF c, z
<1>5. z.plist = [s.plist EXCEPT ![c] = q] /\ z.mem = s.mem /\ z.pc = s.pc /\ z.regs = s.regs
      /\ z.cc = s.cc /\ z.curr = s.curr
      /\ z = [mem |-> z.mem, pc |-> z.pc, regs |-> z.regs, cc |-> z.cc, plist |-> z.plist, curr |-> z.curr]
  <2> DEFINE v == [s.plist[c] EXCEPT !.pc = s.pc, !.regs = s.regs, !.cc = s.cc]
  <2>1. v = q
    <3>1. \A x, y, w : [s.plist[c] EXCEPT !.pc = x, !.regs = y, !.cc = w]
                         = [pc |-> x, cc |-> w, done |-> s.plist[c].done, regs |-> y]
      BY ONLY <1>3, ContextFields, Zenon
    <3> QED BY ONLY <3>1, Zenon DEF v, q
  <2>2. z = [s EXCEPT !.plist = [s.plist EXCEPT ![c] = v]] BY ONLY <1>1, <1>4
  <2> HIDE DEF q, v
  <2>3. z = [s EXCEPT !.plist = [s.plist EXCEPT ![c] = q]] BY ONLY <2>1, <2>2
  <2> QED BY ONLY <1>1, <2>3
<1>6. DOMAIN z.plist = DOMAIN s.plist /\ z.plist[c] = q
      /\ (\A t \in DOMAIN s.plist : t # c => z.plist[t] = s.plist[t])
      /\ z.plist = [t \in DOMAIN z.plist |-> z.plist[t]]
  BY ONLY <1>0, <1>2, <1>5
<1>7. IsState(z)
  <2>1. ASSUME NEW t \in DOMAIN z.plist
        PROVE  /\ z.plist[t] = [pc |-> z.plist[t].pc, cc |-> z.plist[t].cc, done |-> z.plist[t].done,
                                regs |-> z.plist[t].regs]
               /\ z.plist[t].done \in BOOLEAN
    <3>1. CASE t = c BY <1>0, <1>6, <3>1 DEF Good, IsState
    <3>2. CASE t # c BY <1>6, <3>2 DEF Good, IsState
    <3> QED BY <3>1, <3>2
  <2> QED BY <1>5, <1>6, <2>1 DEF IsState
<1>8. InSchedule(z) BY <1>5, <1>6 DEF Good, InSchedule
<1>9. Cur(z) = c BY <1>5 DEF Cur, c
<1>10. z.plist[c].pc = z.pc /\ z.plist[c].regs = z.regs /\ z.plist[c].cc = z.cc
       /\ z.plist[c].done = s.plist[c].done
  BY <1>5, <1>6
<1>11. ~AllDone(z.plist) BY <1>0, <1>6, <1>10 DEF AllDone, c
<1>12. \A t \in DOMAIN s.plist : Seen(z, t) = Seen(s, t) BY <1>5, <1>6, <1>9, <1>10 DEF Seen, c
<1> QED BY <1>5, <1>6, <1>7, <1>8, <1>9, <1>10, <1>11, <1>12 DEF Good, z, c

\* A halt ends the running thread and nothing else.
LEMMA DoneSeen ==
  ASSUME NEW s, Good(s)
  PROVE  /\ Good(Done(s)) /\ Done(s).mem = s.mem /\ DOMAIN Done(s).plist = DOMAIN s.plist
         /\ Cur(Done(s)) = Cur(s) /\ Done(s).plist[Cur(s)].done
         /\ \A t \in DOMAIN s.plist : Seen(Done(s), t) = IF t = Cur(s) THEN Halted ELSE Seen(s, t)
<1> DEFINE c == Cur(s)
           z == Done(s)
           q == [pc |-> s.plist[c].pc, cc |-> s.plist[c].cc, done |-> TRUE, regs |-> s.plist[c].regs]
<1>0. c \in DOMAIN s.plist BY DEF Good, InSchedule, Cur
<1>1. s = [mem |-> s.mem, pc |-> s.pc, regs |-> s.regs, cc |-> s.cc, plist |-> s.plist, curr |-> s.curr]
  BY DEF Good, IsState
<1>2. s.plist = [t \in DOMAIN s.plist |-> s.plist[t]] BY DEF Good, IsState
<1>3. s.plist[c] = [pc |-> s.plist[c].pc, cc |-> s.plist[c].cc, done |-> s.plist[c].done,
                    regs |-> s.plist[c].regs]
  BY <1>0 DEF Good, IsState
<1>4. z = [s EXCEPT !.plist[c].done = TRUE] BY DEF Done, Cur
<1> HIDE DEF c, z
<1>5. z.plist = [s.plist EXCEPT ![c] = q] /\ z.mem = s.mem /\ z.pc = s.pc /\ z.regs = s.regs
      /\ z.cc = s.cc /\ z.curr = s.curr
      /\ z = [mem |-> z.mem, pc |-> z.pc, regs |-> z.regs, cc |-> z.cc, plist |-> z.plist, curr |-> z.curr]
  <2> DEFINE v == [s.plist[c] EXCEPT !.done = TRUE]
  <2>1. v = q BY ONLY <1>3, ContextFields, Zenon DEF v, q
  <2>2. z = [s EXCEPT !.plist = [s.plist EXCEPT ![c] = v]] BY ONLY <1>1, <1>4
  <2> HIDE DEF q, v
  <2>3. z = [s EXCEPT !.plist = [s.plist EXCEPT ![c] = q]] BY ONLY <2>1, <2>2
  <2> QED BY ONLY <1>1, <2>3
<1>6. DOMAIN z.plist = DOMAIN s.plist /\ z.plist[c] = q
      /\ (\A t \in DOMAIN s.plist : t # c => z.plist[t] = s.plist[t])
      /\ z.plist = [t \in DOMAIN z.plist |-> z.plist[t]]
  BY ONLY <1>0, <1>2, <1>5
<1>7. IsState(z)
  <2>1. ASSUME NEW t \in DOMAIN z.plist
        PROVE  /\ z.plist[t] = [pc |-> z.plist[t].pc, cc |-> z.plist[t].cc, done |-> z.plist[t].done,
                                regs |-> z.plist[t].regs]
               /\ z.plist[t].done \in BOOLEAN
    <3>1. CASE t = c
      <4>1. q = [pc |-> q.pc, cc |-> q.cc, done |-> q.done, regs |-> q.regs] /\ q.done = TRUE OBVIOUS
      <4> HIDE DEF q
      <4> QED BY ONLY <1>6, <3>1, <4>1
    <3>2. CASE t # c BY <1>6, <3>2 DEF Good, IsState
    <3> QED BY <3>1, <3>2
  <2> QED BY <1>5, <1>6, <2>1 DEF IsState
<1>8. InSchedule(z) BY <1>5, <1>6 DEF Good, InSchedule
<1>9. Cur(z) = c BY <1>5 DEF Cur, c
<1>10. z.plist[c].done BY <1>6
<1>11. \A t \in DOMAIN s.plist : Seen(z, t) = IF t = c THEN Halted ELSE Seen(s, t)
  BY <1>5, <1>6, <1>9, <1>10 DEF Seen, c
<1> QED BY <1>5, <1>6, <1>7, <1>8, <1>9, <1>10, <1>11 DEF Good, z, c

-----------------------------------------------------------------------------
(* The specification. *)

St == [mem |-> memory, pc |-> PC, regs |-> registers, cc |-> conditions, plist |-> plist, curr |-> curr]

\* Until all threads are done, the processor runs one that is not, at a place
\* of a schedule that names every thread.
XInv == ~AllDone(plist) => Good(St) /\ ~plist[Current].done

\* The loader starts the first thread of a schedule that names every thread.
LEMMA InitGood == ASSUME OptionsWellFormed PROVE Init => XInv
<1> SUFFICES ASSUME OptionsWellFormed, Init, ~AllDone(plist) PROVE Good(St) /\ ~plist[Current].done
  BY DEF XInv
<1> DEFINE n == Len(program.argv)
<1>1. n \in Nat BY DEF Init, OptionsWellFormed
<1>2. plist = [t \in 0 .. n - 1 |-> Process(t, program.argv[t + 1])] BY DEF Init
<1>3. PICK sched \in Schedules : /\ Manual(sched) => Legal(sched, n)
                                 /\ procsched = IF Manual(sched) THEN sched ELSE RoundRobin(n)
  BY DEF Init
<1> HIDE DEF n
<1>4. DOMAIN plist = 0 .. n - 1 BY <1>2
<1>5. /\ Len(procsched) \in Nat /\ DOMAIN procsched = 1 .. Len(procsched)
      /\ {procsched[k] : k \in 1 .. Len(procsched)} = 0 .. n - 1
  <2>1. CASE Manual(sched)
    <3>1. procsched \in Seq(Nat) /\ procsched = sched BY <1>3, <2>1 DEF OptionsWellFormed
    <3>2. Len(procsched) \in Nat /\ DOMAIN procsched = 1 .. Len(procsched) BY <3>1
    <3>3. {procsched[k] : k \in DOMAIN procsched} = 0 .. n - 1 BY <1>3, <2>1, <3>1 DEF Legal, Range
    <3> QED BY <3>2, <3>3
  <2>2. CASE ~Manual(sched)
    <3>1. procsched = [k \in 1 .. n |-> k - 1] BY <1>3, <2>2 DEF RoundRobin
    <3>2. procsched \in Seq(Nat) /\ Len(procsched) = n BY <1>1, <3>1
    <3>3. {procsched[k] : k \in 1 .. n} = 0 .. n - 1
      <4>1. \A k \in 1 .. n : procsched[k] \in 0 .. n - 1 BY <1>1, <3>1
      <4>2. \A t \in 0 .. n - 1 : t + 1 \in 1 .. n /\ procsched[t + 1] = t BY <1>1, <3>1
      <4> QED BY <4>1, <4>2
    <3> QED BY <1>1, <3>1, <3>2, <3>3
  <2> QED BY <2>1, <2>2
<1>6. PICK t \in 0 .. n - 1 : TRUE BY <1>4 DEF AllDone
<1>7. curr = 1 /\ 1 \in 1 .. Len(procsched) BY <1>5, <1>6 DEF Init
<1>8. InSchedule(St) BY <1>4, <1>5, <1>7 DEF InSchedule, St
<1>9. \A u \in DOMAIN plist :
        /\ plist[u] = [pc |-> plist[u].pc, cc |-> plist[u].cc, done |-> plist[u].done, regs |-> plist[u].regs]
        /\ plist[u].done = FALSE
  BY <1>2 DEF Process
<1>10. plist = [u \in DOMAIN plist |-> plist[u]] BY <1>2
<1>11. IsState(St) BY <1>9, <1>10 DEF IsState, St
<1>12. Current \in DOMAIN plist BY <1>4, <1>5, <1>7 DEF Current
<1> QED BY <1>8, <1>9, <1>11, <1>12 DEF Good

\* The instruction a thread is at, carried out: what Step does to the threads.
LEMMA StepSeen ==
  ASSUME XInv, Step
  PROVE  /\ XInv' /\ ~plist[Current].done /\ Current \in Threads /\ DOMAIN plist' = DOMAIN plist
         /\ memory' = Executed.mem
         /\ \A t \in Threads :
              Seen(St, t)' = IF t # Current THEN Seen(St, t)
                             ELSE IF code[PC].op = "halt" THEN Halted
                             ELSE Live(Executed.pc, Executed.regs, Executed.cc)
<1> DEFINE s == Executed
           c == Current
           g == Done(s)
           Want(t) == IF t # c THEN Seen(s, t) ELSE IF code[PC].op = "halt" THEN Halted ELSE Seen(s, t)
           Fine(z) == /\ Good(z) /\ z.mem = s.mem /\ DOMAIN z.plist = DOMAIN plist
                      /\ ~AllDone(z.plist) => ~z.plist[Cur(z)].done
                      /\ \A t \in DOMAIN plist : Seen(z, t) = Want(t)
<1>1. Good(St) /\ ~plist[c].done /\ UNCHANGED setup BY DEF XInv, Step
<1>2. /\ s = [mem |-> s.mem, pc |-> s.pc, regs |-> s.regs, cc |-> s.cc, plist |-> plist, curr |-> curr]
      /\ s.plist = plist /\ s.curr = curr
  BY DEF Executed
<1>3. Good(s) /\ Cur(s) = c /\ c \in DOMAIN plist
  <2>1. St.plist = plist /\ St.curr = curr BY DEF St
  <2> HIDE DEF s
  <2> QED BY <1>1, <1>2, <2>1 DEF Good, IsState, InSchedule, Cur, Current
<1>4. /\ \A t \in DOMAIN plist : t # c => Seen(s, t) = Seen(St, t)
      /\ Seen(s, c) = Live(s.pc, s.regs, s.cc)
  <2>1. St.plist = plist /\ Cur(St) = c BY DEF St, Cur, Current
  <2> HIDE DEF s, c
  <2> QED BY <1>1, <1>2, <1>3, <2>1 DEF Seen
<1> HIDE DEF s, c
<1>5. ASSUME NEW z, Fine(z), ~AllDone(z.plist) PROVE Fine(Switched(Save(z)))
  <2> DEFINE y == Save(z)
             x == Switched(y)
  <2>0. Good(z) /\ ~z.plist[Cur(z)].done BY <1>5
  <2>1. /\ Good(y) /\ y.mem = z.mem /\ DOMAIN y.plist = DOMAIN z.plist /\ Cur(y) = Cur(z)
        /\ y.plist[Cur(z)].pc = y.pc /\ y.plist[Cur(z)].regs = y.regs /\ y.plist[Cur(z)].cc = y.cc
        /\ ~AllDone(y.plist) /\ \A t \in DOMAIN z.plist : Seen(y, t) = Seen(z, t)
    BY <2>0, SaveUnseen
  <2> HIDE DEF y
  <2>2. /\ Good(x) /\ x.mem = y.mem /\ x.plist = y.plist /\ ~y.plist[Cur(x)].done
        /\ \A t \in DOMAIN y.plist : Seen(x, t) = Seen(y, t)
    BY <2>1, SwitchUnseen
  <2> HIDE DEF x
  <2>3. Fine(x) BY <1>5, <2>1, <2>2
  <2> QED BY <2>3 DEF x, y
<1> DEFINE h == IF code[PC].op # "halt" THEN s
                ELSE IF AllDone(g.plist) THEN g ELSE Switched(g)
<1>6. Fine(h)
  <2>1. CASE code[PC].op # "halt"
    <3>1. Fine(s) BY <1>1, <1>2, <1>3, <2>1
    <3> QED BY <2>1, <3>1
  <2>2. CASE code[PC].op = "halt"
    <3>1. /\ Good(g) /\ g.mem = s.mem /\ DOMAIN g.plist = DOMAIN plist /\ Cur(g) = c /\ g.plist[c].done
          /\ \A t \in DOMAIN plist : Seen(g, t) = IF t = c THEN Halted ELSE Seen(s, t)
      BY <1>2, <1>3, DoneSeen
    <3> HIDE DEF g
    <3>2. CASE AllDone(g.plist) BY <2>2, <3>1, <3>2
    <3>3. CASE ~AllDone(g.plist)
      <4>1. /\ Good(Switched(g)) /\ Switched(g).mem = g.mem /\ Switched(g).plist = g.plist
            /\ ~g.plist[Cur(Switched(g))].done
            /\ \A t \in DOMAIN g.plist : Seen(Switched(g), t) = Seen(g, t)
        BY <3>1, <3>3, SwitchUnseen
      <4>2. Fine(Switched(g)) BY <2>2, <3>1, <4>1
      <4> HIDE DEF Fine
      <4> QED BY <2>2, <3>3, <4>2
    <3> QED BY <3>2, <3>3
  <2> QED BY <2>1, <2>2
<1>7. \E z : Fine(z) /\ Becomes(z)
  <2>1. \/ AllDone(h.plist) /\ Becomes(h)
        \/ ~AllDone(h.plist) /\ Becomes(Switched(Save(h)))
        \/ ~AllDone(h.plist) /\ Becomes(h)
    BY Zenon DEF Step, s, g, h
  <2> HIDE DEF h, Fine
  <2> QED BY <1>5, <1>6, <2>1
<1>8. PICK z : Fine(z) /\ Becomes(z) BY <1>7
<1>9. procsched' = procsched BY <1>1 DEF setup
<1>10. St' = z
  <2>1. z = [mem |-> z.mem, pc |-> z.pc, regs |-> z.regs, cc |-> z.cc, plist |-> z.plist, curr |-> z.curr]
    BY <1>8 DEF Good, IsState
  <2>2. /\ memory' = z.mem /\ PC' = z.pc /\ registers' = z.regs /\ conditions' = z.cc
        /\ plist' = z.plist /\ curr' = z.curr
    BY <1>8 DEF Becomes
  <2>3. St' = [mem |-> memory', pc |-> PC', regs |-> registers', cc |-> conditions',
               plist |-> plist', curr |-> curr']
    BY DEF St
  <2> QED BY ONLY <2>1, <2>2, <2>3
<1>11. plist' = z.plist /\ memory' = z.mem /\ curr' = z.curr BY <1>8 DEF Becomes
<1>12. \A t \in DOMAIN plist : Seen(St, t)' = Seen(z, t) BY <1>9, <1>10 DEF Seen, Cur
<1>13. XInv'
  <2>1. Good(St)' BY <1>8, <1>9, <1>10 DEF Good, IsState, InSchedule
  <2>2. Cur(z) = Current' BY <1>9, <1>11 DEF Cur, Current
  <2>3. ~AllDone(plist') => ~plist'[Current'].done BY <1>8, <1>11, <2>2
  <2> QED BY <2>1, <2>3 DEF XInv, AllDone
<1> QED BY <1>1, <1>2, <1>3, <1>4, <1>8, <1>11, <1>12, <1>13 DEF s, c, Threads

\* XInv is an invariant.
LEMMA XInvHolds == ASSUME OptionsWellFormed PROVE Spec => []XInv
<1>1. Init => XInv BY InitGood
<1>2. XInv /\ [Next]_vars => XInv'
  <2>1. ASSUME XInv, Next PROVE XInv' BY <2>1, StepSeen DEF Next
  <2>2. ASSUME XInv, UNCHANGED vars PROVE XInv'
    <3>1. UNCHANGED <<procsched, memory, PC, registers, conditions, plist, curr>>
      BY <2>2 DEF vars, setup, cpu
    <3>2. St' = St BY <3>1 DEF St
    <3> QED BY <2>2, <3>1, <3>2 DEF XInv, AllDone, Good, IsState, InSchedule, Current
  <2> QED BY <2>1, <2>2
<1> QED BY <1>1, <1>2, PTL DEF Spec

\* THE THEOREM of the switch: a halt, a yield or an interrupt, or a halt and an
\* interrupt at once, hands the processor to a thread that has not halted.
THEOREM LiveOneSound == ASSUME OptionsWellFormed PROVE Spec => []LiveOneRuns
<1>1. XInv => LiveOneRuns BY DEF XInv, LiveOneRuns
<1> QED BY <1>1, XInvHolds, PTL

\* The machine's instructions are the processor's.
LEMMA SameInstructions == ASSUME NEW m, NEW i PROVE Ideal!Execute(m, i) = Execute(m, i)
BY DEF Execute, Ideal!Execute, Put, Ideal!Put, Value, Ideal!Value, Address, Ideal!Address, Unscaled, Ideal!Unscaled, Read, Ideal!Read, Written, Ideal!Written, AtomicExchange, Ideal!AtomicExchange, Fetchadd, Ideal!Fetchadd, Exchanged, Ideal!Exchanged, TestAll, Ideal!TestAll, Conditions, Ideal!Conditions, JumpIf, Ideal!JumpIf, Call, Ideal!Call, Ret, Ideal!Ret, PushArg, Ideal!PushArg, PopR, Ideal!PopR, Push, Ideal!Push, Lowered, Ideal!Lowered, Raised, Ideal!Raised, Top, Ideal!Top

\* What the machine sees of a thread is what Seen says.
LEMMA ContextIsSeen == \A t \in Threads : Context(t) = Seen(St, t)
BY DEF Context, Seen, St, Cur, Current, Live

\* THE THEOREM of the simulator: with any program, any threads, any interrupts and
\* any schedule, x86.py shows threads that own their registers and condition
\* codes and take turns by whole instructions over one memory.
THEOREM MachineRefined == ASSUME OptionsWellFormed PROVE Spec => Ideal!Spec
<1> DEFINE ctx == [t \in Threads |-> Context(t)]
           ivars == <<code, memory, ctx>>
<1>1. ASSUME OptionsWellFormed, Init PROVE Ideal!Init
  <2>1. memory = << >> BY <1>1 DEF Init
  <2>2. \A t \in DOMAIN plist : plist[t].cc = {} BY <1>1 DEF Init, Process
  <2>3. ASSUME NEW t \in Threads PROVE Context(t).cc = {}
    <3>1. XInv BY <1>1, InitGood
    <3>2. CASE plist[t].done BY <3>2 DEF Context, Halted
    <3>3. CASE ~plist[t].done
      <4>1. Good(St) BY <3>1, <3>3 DEF XInv, AllDone, Threads
      <4>2. Current \in DOMAIN plist BY <4>1 DEF Good, InSchedule, St, Current
      <4>3. conditions = plist[Current].cc BY <1>1 DEF Init, Current
      <4> QED BY <2>2, <3>3, <4>2, <4>3 DEF Context, Threads
    <3> QED BY <3>2, <3>3
  <2> QED BY <2>1, <2>3 DEF Ideal!Init
<1>2. ASSUME XInv, Next PROVE Ideal!Next
  <2> DEFINE c == Current
             e == Executed
             i == code[PC]
             new == IF i.op = "halt" THEN Halted ELSE Live(e.pc, e.regs, e.cc)
  <2>1. /\ ~plist[c].done /\ c \in Threads /\ DOMAIN plist' = DOMAIN plist /\ memory' = e.mem
        /\ \A t \in Threads : Seen(St, t)' = IF t # c THEN Seen(St, t) ELSE new
    BY <1>2, StepSeen DEF Next
  <2>2. code' = code BY <1>2 DEF Next, Step, setup
  <2>3. ctx[c] = Live(PC, registers, conditions) BY <2>1 DEF Context, Live
  <2>4. Threads' = Threads BY <2>1 DEF Threads
  <2>5. \A t \in Threads : Context(t)' = Seen(St, t)'
    <3>1. \A t \in Threads : (Context(t) = Seen(St, t))' BY <2>4 DEF Context, Seen, St, Cur, Current, Live
    <3> QED BY <3>1
  <2>6. \A t \in Threads : Context(t)' = IF t # c THEN Context(t) ELSE new
    BY <2>1, <2>5, ContextIsSeen
  <2> HIDE DEF new, e, c, i
  <2>7. ctx' = [ctx EXCEPT ![c] = new] BY <2>4, <2>6
  <2>8. ASSUME NEW m, m = Execute([mem |-> memory, pc |-> PC + 1, regs |-> registers, cc |-> conditions], i)
        PROVE  e = [mem |-> m.mem, pc |-> m.pc, regs |-> m.regs, cc |-> m.cc, plist |-> plist, curr |-> curr]
    BY <2>8 DEF e, i, Executed
  <2>9. Ideal!Step(c)
    <3> DEFINE m == Execute([mem |-> memory, pc |-> PC + 1, regs |-> registers, cc |-> conditions], i)
    <3>1. e = [mem |-> m.mem, pc |-> m.pc, regs |-> m.regs, cc |-> m.cc, plist |-> plist, curr |-> curr]
      BY <2>8
    <3>2. Ideal!Execute([mem |-> memory, pc |-> PC + 1, regs |-> registers, cc |-> conditions], i) = m
      BY SameInstructions
    <3>3. ctx[c].live /\ ctx[c].pc = PC /\ ctx[c].regs = registers /\ ctx[c].cc = conditions
      BY <2>3 DEF Live
    <3> HIDE DEF m
    <3>4. memory' = m.mem /\ new = IF i.op = "halt" THEN Ideal!Halted
                                   ELSE [live |-> TRUE, pc |-> m.pc, regs |-> m.regs, cc |-> m.cc]
      BY <2>1, <3>1 DEF new, Live, Halted, Ideal!Halted, Registers, Ideal!Registers
    <3> HIDE DEF ctx
    <3> QED BY <2>2, <2>7, <3>2, <3>3, <3>4, Zenon DEF Ideal!Step, ctx, i
  <2> QED BY <2>1, <2>9 DEF Ideal!Next, c
<1>3. ASSUME UNCHANGED vars PROVE UNCHANGED ivars
  <2>1. UNCHANGED <<code, procsched, memory, PC, registers, conditions, plist, curr>>
    BY <1>3 DEF vars, setup, cpu
  <2> QED BY <2>1 DEF Context, Current, Threads
<1>4. XInv /\ [Next]_vars => [Ideal!Next]_ivars BY <1>2, <1>3
<1> QED BY <1>1, <1>4, XInvHolds, PTL DEF Spec, Ideal!Spec
====
