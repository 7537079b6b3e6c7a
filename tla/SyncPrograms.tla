---------------------------- MODULE SyncPrograms ----------------------------
(***************************************************************************)
(* The texts of the repository's small synchronization programs (threads-cv, *)
(* threads-sema, threads-bugs, threads-api, code/conc), as sequences of the *)
(* instructions that module Threads executes.  A program is a record:       *)
(*   code    thread |-> its sequence of instructions                        *)
(*   late    the threads that another thread creates with "create"          *)
(*   serve   the threads that loop for ever                                 *)
(*   mem     the shared variables; sem the semaphores, with initial values  *)
(*   final   the values some shared variables may have at the end           *)
(*   output  what the program may output, when it is a line per event       *)
(* Jumps are relative.  Printing, sleeping, argument parsing and the joins  *)
(* by which main only waits for the end are left out.                       *)
(***************************************************************************)
EXTENDS Integers, Sequences, FiniteSets, SequencesExt, TLC

CONSTANT Loops, Slots      \* iterations of the producers' loops; buffer slots

END_OF_STREAM == -1
RETRIES == 2               \* bound: how far failed tries are counted
EMPTY == -2

(* One instruction each. *)
Lock(m)        == <<<<"lock", m>>>>
Unlock(m)      == <<<<"unlock", m>>>>
TryLock(m, n)  == <<<<"trylock", m, n>>>>       \* jump by n when it is taken
Wait(c, m, n)  == <<<<"wait", c, m, n>>>>      \* then jump by n
Signal(c)      == <<<<"signal", c>>>>
P(s)           == <<<<"P", s>>>>
V(s)           == <<<<"V", s>>>>
Unless(c, n)   == <<<<"unless", c, n>>>>        \* jump by n when c is false
Goto(n)        == <<<<"goto", n>>>>
Set(x, v)      == <<<<"set", x, v>>>>
Load(x)        == <<<<"load", x>>>>             \* acc = x
LoadSum(x, y)      == <<<<"sum", x, y>>>>           \* acc = x + y
Plus(x, d)     == <<<<"plus", x, d>>>>          \* acc = x + d
Store(x)       == <<<<"store", x>>>>            \* x = acc
FetchAdd(x)    == <<<<"xadd", x>>>>             \* x += acc, atomically
Deref(x)       == <<<<"deref", x>>>>            \* crashes when x is NULL
Emit(v)        == <<<<"emit", v>>>>
EmitAcc        == <<<<"emitacc">>>>
Create(t)      == <<<<"create", t>>>>
Await(ts)      == <<<<"join", ts>>>>
Fill(p, v)     == <<<<"fill", p, v>>>>          \* buffer[p % max] = v
Get(p)         == <<<<"get", p>>>>              \* tmp = buffer[p % max]
Ensure(p, e)   == <<<<"ensure", p, e>>>>        \* exits unless (buffer[p] = EMPTY) = e
Clear(p)       == <<<<"clear", p>>>>            \* buffer[p] = EMPTY
Increment(x)   == <<<<"count", x>>>> \o Store(x) \* x++, counted up to RETRIES
AdvanceUnwrapped(p) == Plus(p, 1) \o Store(p)
Advance(p)     == <<<<"advance", p>>>>          \* p = (p + 1) % max
Is(x, v)       == <<"is", x, v>>

(* Statements.  An increment of a shared variable is a load and a store. *)
Add(x, d) == Plus(x, d) \o Store(x)
While(c, body) == Unless(c, Len(body) + 2) \o body \o Goto(-(Len(body) + 1))
DoUntil(c, body) == body \o Unless(c, -Len(body))
For(from, to, Body(_)) == FlattenSeq([k \in 1..(to - from + 1) |-> Body(from + k - 1)])
WaitWhile(c, cv, m) == Unless(c, 2) \o Wait(cv, m, -1)
WaitIf(c, cv, m) == Unless(c, 2) \o Wait(cv, m, 1)
Critical(m, body) == Lock(m) \o body \o Unlock(m)
Guarded(s, body) == P(s) \o body \o V(s)

Nothing == [x \in {} |-> 0]
Program(code, shared, counts) ==
  [code |-> code, late |-> {}, serve |-> {}, mem |-> shared, sem |-> counts,
   final |-> {Nothing}, output |-> {}]

-----------------------------------------------------------------------------
(* Waiting for a child: the child outputs 1, the parent ends with 2. *)

ChildThenParent == {<<1, 2>>}
ForkJoin(child, parent, shared, counts) ==
  [Program([child |-> Emit(1) \o child, parent |-> parent \o Emit(2)], shared, counts)
   EXCEPT !.output = ChildThenParent]

Done0 == [done |-> 0]
Join == ForkJoin(Critical("m", Set("done", 1) \o Signal("c")),
                 Critical("m", WaitWhile(Is("done", 0), "c", "m")), Done0, Nothing)
JoinNoLock == ForkJoin(Set("done", 1) \o Signal("c"),
                 Critical("m", WaitWhile(Is("done", 0), "c", "m")), Done0, Nothing)
JoinNoStateVar == ForkJoin(Critical("m", Signal("c")),
                 Critical("m", Wait("c", "m", 1)), Done0, Nothing)
JoinModularIf == ForkJoin(Critical("m", Set("done", 1) \o Signal("c")),
                 Critical("m", WaitIf(Is("done", 0), "c", "m") \o Set("done", 0)),
                 Done0, Nothing)
JoinModular == ForkJoin(Critical("m", Set("done", 1) \o Signal("c")),
                 Critical("m", WaitWhile(Is("done", 0), "c", "m") \o Set("done", 0)),
                 Done0, Nothing)
JoinSpin == ForkJoin(Set("done", 1), While(Is("done", 0), <<>>), Done0, Nothing)
MainSignalCv == Join
JoinSema == ForkJoin(V("s"), P("s"), Nothing, [s |-> 0])

(* zemaphore.h: a semaphore made of a value, a lock and a condition. *)
ZemWait == Critical("zlock", WaitWhile(Is("value", 0), "zcond", "zlock") \o Add("value", -1))
ZemPost == Critical("zlock", Add("value", 1) \o Signal("zcond"))
Zemaphore == ForkJoin(ZemPost, ZemWait, [value |-> 0], Nothing)

OrderingUse == Deref("mThread")
Ordering == [Program([main |-> Create("mMain") \o Set("mThread", 1), mMain |-> OrderingUse],
                     [mThread |-> 0], Nothing) EXCEPT !.late = {"mMain"}]
OrderingFixed ==
  [Program([main |-> Create("mMain") \o Set("mThread", 1)
                     \o Critical("mtLock", Set("mtInit", 1) \o Signal("mtCond")),
            mMain |-> Critical("mtLock", WaitWhile(Is("mtInit", 0), "mtCond", "mtLock"))
                      \o OrderingUse],
           [mThread |-> 0, mtInit |-> 0], Nothing) EXCEPT !.late = {"mMain"}]

AtomicityUse == Unless(<<"isnot", "proc_info", 0>>, 2) \o Deref("proc_info")
AtomicityProgram(t1, t2) == Program([t1 |-> t1, t2 |-> t2], [proc_info |-> 1], Nothing)
Atomicity == AtomicityProgram(AtomicityUse, Set("proc_info", 0))
AtomicityFixedSplit ==
  AtomicityProgram(Lock("proc_info_lock") \o Unless(<<"isnot", "proc_info", 0>>, 4)
                   \o Unlock("proc_info_lock") \o Critical("proc_info_lock", Deref("proc_info")),
                   Critical("proc_info_lock", Set("proc_info", 0)))
AtomicityFixed == AtomicityProgram(Critical("proc_info_lock", AtomicityUse),
                                   Critical("proc_info_lock", Set("proc_info", 0)))

-----------------------------------------------------------------------------
(* Shared counters and vectors. *)

Counting(body) ==
  LET Body(i) == body
      thread == For(0, Loops - 1, Body)
  IN [Program([t1 |-> thread, t2 |-> thread], [counter |-> 0], [mutex |-> 1])
      EXCEPT !.final = {[counter |-> 2 * Loops]}]
Badcnt == Counting(Add("counter", 1))
Binary == Counting(Guarded("mutex", Add("counter", 1)))

(* throttle: at most two threads between their output 1 and their output 0. *)
Throttle(wait, post) ==
  LET child == wait \o Emit(1) \o Emit(0) \o post
  IN Program([t1 |-> child, t2 |-> child, t3 |-> child], [value |-> 2], [s |-> 2])
ThrottleSem == Throttle(P("s"), V("s"))
ThrottleZem == Throttle(ZemWait, ZemPost)

(* race and norace: thread j + 1 outputs the number it was given. *)
RaceThread == Load("i") \o EmitAcc
Race == [Program([main |-> Set("i", 0) \o Create("t1") \o Set("i", 1) \o Create("t2")
                           \o Set("i", 2),
                  t1 |-> RaceThread, t2 |-> RaceThread], [i |-> 0], Nothing)
         EXCEPT !.late = {"t1", "t2"}, !.output = {<<0, 1>>, <<1, 0>>}]
Norace == [Program([main |-> Set("p1", 0) \o Create("t1") \o Set("p2", 1) \o Create("t2"),
                    t1 |-> Load("p1") \o EmitAcc, t2 |-> Load("p2") \o EmitAcc],
                   [p1 |-> 0, p2 |-> 0], Nothing)
           EXCEPT !.late = {"t1", "t2"}, !.output = {<<0, 1>>, <<1, 0>>}]

VectorProgram(first, second, final) ==
  [Program([t1 |-> first, t2 |-> second], [v0 |-> 0, v1 |-> 1], Nothing) EXCEPT !.final = final]
(* The two threads add in opposite orders (-d), or both add v1 to v0. *)
Opposed(add(_, _)) == VectorProgram(add("v0", "v1"), add("v1", "v0"),
                        {[v0 |-> 1, v1 |-> 1], [v0 |-> 1, v1 |-> 2]})
Aligned(add(_, _)) == VectorProgram(add("v0", "v1"), add("v0", "v1"), {[v0 |-> 2, v1 |-> 1]})

VectorSum(dst, src) == LoadSum(dst, src) \o Store(dst)
VectorDeadlock(dst, src) ==
  Lock(dst) \o Lock(src) \o VectorSum(dst, src) \o Unlock(dst) \o Unlock(src)
VectorAvoidHoldAndWait(dst, src) ==
  Critical("global", Lock(dst) \o Lock(src)) \o VectorSum(dst, src) \o Unlock(dst) \o Unlock(src)
VectorGlobalOrder(dst, src) ==
  Lock("v0") \o Lock("v1") \o VectorSum(dst, src) \o Unlock(src) \o Unlock(dst)
VectorTryWaitWrongUnlock(dst, src) ==
  TryLock(dst, 0) \o TryLock(src, 2) \o Goto(5) \o Increment("retry") \o Unlock(src) \o Goto(-6)
  \o VectorSum(dst, src) \o Unlock(dst) \o Unlock(src)
(* A failed try is counted in a global under dst's lock: with -d two threads *)
(* count at once, each under the lock of another vector.                     *)
VectorTryWait(dst, src) ==
  TryLock(dst, 0) \o TryLock(src, 2) \o Goto(5) \o Increment("retry") \o Unlock(dst) \o Goto(-6)
  \o VectorSum(dst, src) \o Unlock(dst) \o Unlock(src)
RetriesCounted(program) == [program EXCEPT !.mem = @ @@ [retry |-> 0]]
VectorTryWaitOpposed == RetriesCounted(Opposed(VectorTryWait))
VectorTryWaitAligned == RetriesCounted(Aligned(VectorTryWait))
VectorNolock(dst, src) == Load(src) \o FetchAdd(dst)

LockPair(a, b) == Lock(a) \o Lock(b) \o Unlock("m1") \o Unlock("m2")
Pairs(t1, t2) == Program([t1 |-> t1, t2 |-> t2], Nothing, Nothing)
Deadlock == Pairs(LockPair("m1", "m2"), LockPair("m2", "m1"))
MainDeadlock == Deadlock
MainDeadlockGlobal ==
  Pairs(Critical("g", LockPair("m1", "m2")), Critical("g", LockPair("m2", "m1")))

(* Philosopher p picks up his left fork first; the last one of the fixed    *)
(* program picks up his right fork first.                                   *)
Forks == <<"f0", "f1", "f2", "f3", "f4">>
left(p) == Forks[p + 1]
right(p) == Forks[((p + 1) % 5) + 1]
Dine(first, second, p) == P(first) \o P(second) \o V(left(p)) \o V(right(p))
Philosophers(philosopher(_)) ==
  Program([ph0 |-> philosopher(0), ph1 |-> philosopher(1), ph2 |-> philosopher(2),
           ph3 |-> philosopher(3), ph4 |-> philosopher(4)], Nothing,
          [f0 |-> 1, f1 |-> 1, f2 |-> 1, f3 |-> 1, f4 |-> 1])
PhilosopherDeadlock(p) == Dine(left(p), right(p), p)
PhilosopherNoDeadlock(p) == IF p = 4 THEN Dine(right(p), left(p), p) ELSE Dine(left(p), right(p), p)

(* rwlock.c: the last reader lets the writers in. *)
ReadersAre(n, then) == Unless(Is("readers", n), Len(then) + 1) \o then
AcquireReadlock == Guarded("lock", Add("readers", 1) \o ReadersAre(1, P("writelock")))
ReleaseReadlock == Guarded("lock", Add("readers", -1) \o ReadersAre(0, V("writelock")))
RwReader == AcquireReadlock \o Load("counter") \o ReleaseReadlock
RwWriter == Guarded("writelock", Add("counter", 1))
Rwlock == [Program([r1 |-> RwReader, r2 |-> RwReader, w1 |-> RwWriter, w2 |-> RwWriter],
                   [readers |-> 0, counter |-> 0], [lock |-> 1, writelock |-> 1])
           EXCEPT !.final = {[counter |-> 2, readers |-> 0]}]
-----------------------------------------------------------------------------
(* Bounded buffers: producers, consumers, one END_OF_STREAM per consumer. *)

Queue(max) == [buffer |-> [k \in 1..max |-> EMPTY], max |-> max, use_ptr |-> 0, fill_ptr |-> 0,
             num_full |-> 0]

(* The variants differ in the test before a wait, in what is done between   *)
(* the test and the signal, and in the number of condition variables.       *)
Fills(v) == Fill("fill_ptr", v) \o Advance("fill_ptr") \o Add("num_full", 1)
Gets == Get("use_ptr") \o Advance("use_ptr") \o Add("num_full", -1)
EnsuredFills(v) == Ensure("fill_ptr", TRUE) \o Fills(v)
EnsuredGets == Get("use_ptr") \o Ensure("use_ptr", FALSE) \o Clear("use_ptr")
               \o Advance("use_ptr") \o Add("num_full", -1)
FullWhile(cv) == WaitWhile(<<"full">>, cv, "m")
EmptyIf(cv) == WaitIf(<<"empty">>, cv, "m")
EmptyWhile(cv) == WaitWhile(<<"empty">>, cv, "m")
Produce(base, Putting(_)) == For(base, base + Loops - 1, Putting)
Close(n, Putting(_)) == LET Marker(k) == Putting(END_OF_STREAM) IN For(1, n, Marker)
Consume(getting) == DoUntil(<<"eos">>, getting)

(* pc.c and pc_single_cv.c: the producer adds the markers itself. *)
Pc(max, empty, fill, consumers) ==
  LET Putting(v) == Critical("m", FullWhile(empty) \o Fills(v) \o Signal(fill))
      consumer == Consume(Critical("m", EmptyWhile(fill) \o Gets \o Signal(empty)))
      producer == Produce(0, Putting) \o Close(Cardinality(consumers), Putting)
  IN Program([t \in consumers \cup {"p1"} |-> IF t = "p1" THEN producer ELSE consumer],
             Queue(max), Nothing)
PcSingleCvOneConsumer(max) == Pc(max, "cv", "cv", {"c1"})
PcSingleCv(max) == Pc(max, "cv", "cv", {"c1", "c2"})
PcTwoCvs(max) == Pc(max, "empty", "fill", {"c1", "c2"})

(* The homework's programs: main adds the markers when the producers ended. *)
MainCommon(producing, getting, marking) ==
  Program([p1 |-> producing, c1 |-> Consume(getting), c2 |-> Consume(getting),
           main |-> Await({"p1"}) \o marking], Queue(Slots), Nothing)
Marking(v) == Critical("m", FullWhile("empty") \o EnsuredFills(v) \o Signal("fill"))
CvsWhile(empty, fill) ==
  LET Putting(v) == Critical("m", FullWhile(empty) \o EnsuredFills(v) \o Signal(fill))
      getting == Critical("m", EmptyWhile(fill) \o EnsuredGets \o Signal(empty))
  IN MainCommon(Produce(0, Putting), getting, Close(2, Putting))
TwoCvsWhile == CvsWhile("empty", "fill")
OneCvWhile == CvsWhile("cv", "cv")
TwoCvsIf ==
  LET Putting(v) == Critical("m", WaitIf(<<"full">>, "empty", "m")
                                  \o EnsuredFills(v) \o Signal("fill"))
      getting == Critical("m", WaitIf(<<"empty">>, "fill", "m")
                               \o EnsuredGets \o Signal("empty"))
  IN MainCommon(Produce(0, Putting), getting, Close(2, Marking))
(* producer_consumer_works.c: semaphores count the free and the used slots. *)
SemaPut(v) ==
  P("empty") \o Guarded("mutex", Fill("fill_ptr", v) \o Advance("fill_ptr")) \o V("full")
SemaGet ==
  P("full") \o Guarded("mutex", Get("use_ptr") \o Advance("use_ptr")) \o V("empty")
ProducerConsumerWorks ==
  Program([p1 |-> Produce(0, SemaPut) \o Close(2, SemaPut),
           c1 |-> Consume(SemaGet), c2 |-> Consume(SemaGet)],
          Queue(Slots), [empty |-> Slots, full |-> 0, mutex |-> 1])

(* echoservert_pre.c over sbuf.c: main inserts the connections it accepts, *)
(* each worker removes one, counts what it received, and starts again.      *)
SbufInsert(item) ==
  P("slots") \o Guarded("mutex", Add("rear", 1) \o Fill("rear", item)) \o V("items")
SbufRemove ==
  P("items") \o Guarded("mutex", Add("front", 1) \o Get("front")) \o V("slots")
EchoCntUnguarded == Add("byte_cnt", 1)
EchoCnt == Guarded("cnt_mutex", Add("byte_cnt", 1))
EchoservertPre ==
  LET worker == SbufRemove \o EchoCnt
      server == worker \o Goto(-Len(worker))
  IN [Program([main |-> For(1, Loops + 1, SbufInsert), w1 |-> server, w2 |-> server],
              Queue(Slots) @@ [front |-> 0, rear |-> 0, byte_cnt |-> 0],
              [slots |-> Slots, items |-> 0, mutex |-> 1, cnt_mutex |-> 1])
      EXCEPT !.serve = {"w1", "w2"}, !.final = {[byte_cnt |-> Loops + 1]}]
-----------------------------------------------------------------------------
Programs ==
  [join |-> Join, join_no_lock |-> JoinNoLock, join_no_state_var |-> JoinNoStateVar,
   join_modular |-> JoinModular, join_spin |-> JoinSpin,
   main_signal_cv |-> MainSignalCv, join_sema |-> JoinSema, zemaphore |-> Zemaphore,
   ordering |-> Ordering, ordering_fixed |-> OrderingFixed,
   atomicity |-> Atomicity, atomicity_fixed |-> AtomicityFixed,
   badcnt |-> Badcnt, binary |-> Binary, throttle |-> ThrottleSem, throttle_zem |-> ThrottleZem,
   race |-> Race, norace |-> Norace,
   vector_deadlock |-> Opposed(VectorDeadlock), vector_aligned |-> Aligned(VectorDeadlock),
   vector_avoid_hold_and_wait |-> Opposed(VectorAvoidHoldAndWait),
   vector_global_order |-> Opposed(VectorGlobalOrder), vector_try_wait |-> VectorTryWaitOpposed,
   vector_try_wait_aligned |-> VectorTryWaitAligned,
   vector_nolock |-> Aligned(VectorNolock), vector_nolock_opposed |-> Opposed(VectorNolock),
   deadlock |-> Deadlock, main_deadlock |-> MainDeadlock, main_deadlock_global |-> MainDeadlockGlobal,
   dining_philosophers_deadlock |-> Philosophers(PhilosopherDeadlock),
   dining_philosophers_no_deadlock |-> Philosophers(PhilosopherNoDeadlock),
   rwlock |-> Rwlock, pc |-> PcTwoCvs(Slots), pc_1 |-> PcTwoCvs(1),
   pc_single_cv_1 |-> PcSingleCvOneConsumer(1),
   pc_single_cv |-> PcSingleCv(1), two_cvs_while |-> TwoCvsWhile, one_cv_while |-> OneCvWhile,
   two_cvs_if |-> TwoCvsIf,
   producer_consumer_works |-> ProducerConsumerWorks, echoservert_pre |-> EchoservertPre]
=============================================================================
