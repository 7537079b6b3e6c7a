-------------------------------- MODULE MLFQ --------------------------------
(***************************************************************************)
(* The multi-level feedback queue of cpu-sched-mlfq/mlfq.py.  A step is    *)
(* one turn of its loop: boost, arrivals and ends of I/O, then one tick of *)
(* the first job of the highest queue that is not empty.                   *)
(***************************************************************************)
EXTENDS Integers, Sequences, FiniteSets, FiniteSetsExt, SequencesExt

CONSTANTS Workloads,         \* sequences of [startTime, runTime, ioFreq]
          Options            \* [quantum, allotment (by queue), boost, ioTime, stay, iobump]

VARIABLES job,               \* by number, from 1
          queue,             \* by priority, from 0
          ioDone,            \* what is to happen at each time to come
          currTime,
          options,
          ran                \* history: ticks each job has run since it was last given its priority

vars == <<job, queue, ioDone, currTime, options, ran>>

Jobs == DOMAIN job
HiQueue(o) == Max(DOMAIN o.quantum)
hiQueue == HiQueue(options)
Event(j, type) == [job |-> j, type |-> type]
At(events, t) == IF t \in DOMAIN events THEN events[t] ELSE <<>>
Added(events, t, e) ==
  [u \in DOMAIN events \cup {t} |-> IF u = t THEN Append(At(events, t), e) ELSE events[u]]
(* The state of the queues, as the parts of one turn pass it on. *)
Now == [job |-> job, queue |-> queue, ran |-> ran]

AtPriority(info, q, o) ==
  [info EXCEPT !.currPri = q, !.ticksLeft = o.quantum[q], !.allotLeft = o.allotment[q]]

NewJob(w, o) ==
  AtPriority([currPri |-> 0, ticksLeft |-> 0, allotLeft |-> 0, runTime |-> w.runTime,
              timeLeft |-> w.runTime, ioFreq |-> w.ioFreq, doingIO |-> FALSE], HiQueue(o), o)

Begins(w) ==
  LET listed[j \in 0..Len(w)] ==
        IF j = 0 THEN <<>> ELSE Added(listed[j - 1], w[j].startTime, Event(j, "JOB BEGINS"))
  IN listed[Len(w)]

Init ==
  \E w \in Workloads, o \in Options :
    /\ options = o
    /\ job = [j \in DOMAIN w |-> NewJob(w[j], o)]
    /\ queue = [q \in DOMAIN o.quantum |-> <<>>]
    /\ ioDone = Begins(w)
    /\ currTime = 0
    /\ ran = [j \in DOMAIN w |-> 0]

Finished(j) == job[j].timeLeft = 0
BoostDue == options.boost > 0 /\ currTime # 0 /\ currTime % options.boost = 0

(* The lower queues are emptied into the highest one, and every job that    *)
(* has time left starts afresh at the highest priority.                     *)
Runnable(S, list) ==
  LET first[k \in 0..Len(list)] ==
        IF k = 0 THEN <<>>
        ELSE IF S.job[list[k]].doingIO THEN first[k - 1] ELSE Append(first[k - 1], list[k])
  IN first[Len(list)]
Collected(S) ==
  LET below[q \in 0..hiQueue] ==
        IF q = 0 THEN S.queue[hiQueue] ELSE below[q - 1] \o Runnable(S, S.queue[q - 1])
  IN below[hiQueue]
BoostedQueuesOnly(S) ==
  [S EXCEPT !.queue = [q \in DOMAIN @ |-> IF q = hiQueue THEN Collected(S) ELSE <<>>]]
Boosted(S) ==
  [BoostedQueuesOnly(S) EXCEPT
     !.job = [j \in DOMAIN @ |-> IF @[j].timeLeft > 0 THEN AtPriority(@[j], hiQueue, options) ELSE @[j]],
     !.ran = [j \in DOMAIN @ |-> 0]]

Arrive(S, e) ==
  [S EXCEPT !.job[e.job].doingIO = FALSE,
            !.queue[S.job[e.job].currPri] =
              IF ~options.iobump \/ e.type = "JOB BEGINS" THEN Append(@, e.job) ELSE <<e.job>> \o @]
Arrived(S) ==
  LET events == At(ioDone, currTime)
      after[k \in 0..Len(events)] == IF k = 0 THEN S ELSE Arrive(after[k - 1], events[k])
  IN after[Len(events)]

FindQueue(S) == IF \E q \in DOMAIN S.queue : S.queue[q] # <<>>
                  THEN Max({q \in DOMAIN S.queue : S.queue[q] # <<>>}) ELSE -1

(* What a tick makes of the job: the -S option gives it its full slice and  *)
(* allotment back when it issues an I/O, but whether the slice is over is   *)
(* decided by what was left before.                                         *)
Rested(info, q) == IF options.stay THEN AtPriority(info, q, options) ELSE info
UsedNone(info, q) == info
Used(info, q) == [info EXCEPT !.allotLeft = @ - 1]
SliceEnded(info, q) ==
  CASE Used(info, q).allotLeft = 0 -> AtPriority(info, IF q > 0 THEN q - 1 ELSE q, options)
    [] OTHER -> [Used(info, q) EXCEPT !.ticksLeft = options.quantum[q]]

IssuesIO(info) == info.ioFreq > 0 /\ (info.runTime - info.timeLeft) % info.ioFreq = 0
AfterTick(info, q) ==
  LET ticked == [info EXCEPT !.timeLeft = @ - 1, !.ticksLeft = @ - 1]
      rested == IF IssuesIO(ticked) THEN [Rested(ticked, q) EXCEPT !.doingIO = TRUE] ELSE ticked
  IN IF ticked.timeLeft = 0 \/ ticked.ticksLeft > 0 THEN
       (IF ticked.timeLeft = 0 THEN ticked ELSE rested)
     ELSE SliceEnded(rested, q)

(* A job that runs on stays first of its queue; at the end of its slice it  *)
(* goes to the back of the queue of its new priority.                       *)
Requeued(S, q, j, info) ==
  LET popped == [S.queue EXCEPT ![q] = Tail(@)]
  IN CASE info.timeLeft = 0 \/ info.doingIO -> popped
       [] info.timeLeft # 0 /\ ~info.doingIO /\ S.job[j].ticksLeft = 1 -> [popped EXCEPT ![info.currPri] = Append(@, j)]
       [] OTHER -> S.queue

RunFirst(S, q) ==
  LET j == Head(S.queue[q])
      info == AfterTick(S.job[j], q)
      ended == currTime + 1 + options.ioTime
      later == [t \in DOMAIN ioDone \ {currTime} |-> ioDone[t]]
  IN /\ job' = [S.job EXCEPT ![j] = info]
     /\ queue' = Requeued(S, q, j, info)
     /\ ioDone' = IF info.doingIO THEN Added(later, ended, Event(j, "IO_DONE")) ELSE later
     /\ ran' = [S.ran EXCEPT ![j] = IF info.currPri = q /\ ~(info.doingIO /\ options.stay) THEN @ + 1 ELSE 0]

Turn ==
  /\ \E j \in Jobs : ~Finished(j)
  /\ \E S \in {Arrived(IF BoostDue THEN Boosted(Now) ELSE Now)} :
       IF FindQueue(S) = -1
         THEN /\ job' = S.job /\ queue' = S.queue /\ ran' = S.ran
              /\ ioDone' = [t \in DOMAIN ioDone \ {currTime} |-> ioDone[t]]
         ELSE RunFirst(S, FindQueue(S))
  /\ currTime' = currTime + 1
  /\ UNCHANGED options

Next == Turn
Spec == Init /\ [][Next]_vars /\ WF_vars(Next)
-----------------------------------------------------------------------------
TypeOK ==
  /\ \A j \in Jobs : job[j].currPri \in DOMAIN queue /\ job[j].timeLeft \in 0..job[j].runTime
  /\ \A q \in DOMAIN queue : Range(queue[q]) \subseteq Jobs
  /\ \A t \in DOMAIN ioDone : t >= currTime /\ {ioDone[t][k].job : k \in DOMAIN ioDone[t]} \subseteq Jobs
  /\ options \in Options

Waits(j) == UNION {{<<t, k>> : k \in {i \in DOMAIN ioDone[t] : ioDone[t][i].job = j}} : t \in DOMAIN ioDone}
Places(j) == UNION {{<<q, k>> : k \in {i \in DOMAIN queue[q] : queue[q][i] = j}} : q \in DOMAIN queue}

(* A job that is not finished is in exactly one place: in the queue of its  *)
(* priority, or waiting for one start or end of I/O (the assertions at      *)
(* mlfq.py:274, 307 and 317): no boost, I/O or end of a slice loses or      *)
(* doubles it.                                                              *)
OnePlace ==
  \A j \in Jobs :
    IF Finished(j) THEN Places(j) = {} /\ Waits(j) = {}
    ELSE /\ Cardinality(Places(j)) + Cardinality(Waits(j)) = 1
         /\ \A x \in Places(j) : x[1] = job[j].currPri /\ ~job[j].doingIO

(* Rule 4: without -S a job runs at a priority for its allotment of slices  *)
(* and no longer, however it divides them with I/O; with it, no longer      *)
(* between two I/Os.                                                        *)
NoGaming ==
  \A j \in Jobs : LET q == job[j].currPri
                  IN q > 0 => ran[j] <= options.quantum[q] * options.allotment[q]

(* Every job ends, whatever jobs of a higher priority do. *)
Termination == <>(\A j \in Jobs : Finished(j))
=============================================================================
