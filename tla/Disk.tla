------------------------------- MODULE Disk -------------------------------
(***************************************************************************)
(* The disk of disk.py: an arm over three tracks of a turning platter, a   *)
(* queue of requests and a scheduling policy with a window.  Animate is    *)
(* one tick of its clock.  With graphics the keys s and p call Start and   *)
(* Pause between any two ticks.  Angles and distances are whole numbers,   *)
(* as with the default speeds.                                             *)
(***************************************************************************)
EXTENDS Integers, Sequences, SequencesExt, FiniteSets, FiniteSetsExt

CONSTANTS
  DEGREES,     \* 360
  trackWidth,  \* 40
  Setups,      \* records policy, window, skew, zoning, seekSpeed, rotateSpeed, requests, late, graphics
  MaxStarts, MaxPauses   \* how often the keys are pressed

VARIABLES
  opt,
  requestQueue, requestState, \* requests are counted from 1
  lateCount, requestCount, currWindow,
  currentIndex, state,
  armTrack, armTarget,
  arm,                        \* armX1, measured from where it is over track 0
  angle, timer,
  begin,                      \* seekBegin, rotBegin, xferBegin
  total,                      \* seekTotal, rotTotal, xferTotal
  totalEst,                   \* DoSATF's estimate of the chosen request
  isDone, doAnimate,
  starting,                   \* Start has yet to call Animate
  starts, pauses              \* keys pressed so far

diskVars == <<opt, requestQueue, requestState, lateCount, requestCount, currWindow, currentIndex,
              state, armTrack, armTarget, arm, angle, timer, begin, total, totalEst, isDone,
              doAnimate, starting, starts, pauses>>

Tracks == 0 .. 2
fairWindow == IF opt.policy = "BSATF" /\ opt.window # -1 THEN opt.window ELSE -1

(***************************************************************************)
(* InitBlockLayout: blocks are numbered track by track, angleOffset apart, *)
(* each track skewed one step more than the one outside it.                *)
(***************************************************************************)
blockAngleOffset(t) == opt.zoning[t + 1] \div 2
angleOffset(t) == 2 * blockAngleOffset(t)
BlocksOn(t) == (DEGREES + angleOffset(t) - 1) \div angleOffset(t)
FirstOn(t) == IF t = 0 THEN 0 ELSE IF t = 1 THEN BlocksOn(0) ELSE BlocksOn(0) + BlocksOn(1)
LastOn(t) == FirstOn(t) + BlocksOn(t) - 1
blockToTrack(b) == CHOOSE t \in Tracks : FirstOn(t) <= b /\ b <= LastOn(t)
blockToAngle(b) ==
  LET t == blockToTrack(b) IN
    ((b - FirstOn(t)) * angleOffset(t) + angleOffset(t) * t * opt.skew + DEGREES \div 2) % DEGREES

StartAngle(b) == (blockToAngle(b) - blockAngleOffset(blockToTrack(b))) % DEGREES
EndAngle(b) == (blockToAngle(b) + blockAngleOffset(blockToTrack(b))) % DEGREES

RadiallyCloseTo(a, b) == (IF a > b THEN a - b ELSE b - a) < opt.rotateSpeed

(***************************************************************************)
(* DoSATF's estimate of the time to a request, in degrees turned: exact    *)
(* fractions of a tick.  An arrival at DEGREES itself is not wrapped.      *)
(***************************************************************************)
Distance(t, u) == IF t > u THEN t - u ELSE u - t
Wrapped(a) == IF a > DEGREES THEN ((a - 1) % DEGREES) + 1 ELSE a
SeekEst(from, t) == (trackWidth \div opt.seekSpeed) * Distance(from, t)
\* Mutant of RotDist: the platter is taken to rest during the seek.
RotDistAtRest(from, b, ang) == (StartAngle(b) - ang) % DEGREES
RotDist(from, b, ang) ==
  LET t == blockToTrack(b)
      d == (blockToAngle(b) - blockAngleOffset(t)) - Wrapped(ang + SeekEst(from, t) * opt.rotateSpeed)
  IN IF d < 0 THEN d % DEGREES ELSE Wrapped(d)
Estimate(from, b, ang) ==
  LET t == blockToTrack(b) IN
    SeekEst(from, t) * opt.rotateSpeed + RotDist(from, b, ang) + angleOffset(t)

\* The first of the waiting requests of the list whose estimate is least.
DoSATF(rs, rlist, from, ang) ==
  LET waiting == {i \in rlist : rs[i] # "DONE"}
      est == [i \in waiting |-> Estimate(from, requestQueue[i], ang)]
  IN Min({i \in waiting : \A k \in waiting : est[i] <= est[k]})

\* The waiting requests on the nearest track that has any.
DoSSTF(rs, rlist, from) ==
  LET waiting == {i \in rlist : rs[i] # "DONE"}
      dist == [i \in waiting |-> Distance(from, blockToTrack(requestQueue[i]))]
  IN {i \in waiting : \A k \in waiting : dist[i] <= dist[k]}

(***************************************************************************)
(* GetNextIO, given the request states, the count, the window, the arm's   *)
(* track, the angle, the time and the begin times it finds: choose, plan   *)
(* the seek, and let one late request in.  prev is the block just done, -1 *)
(* for none: if the next one follows it the head goes on transferring.     *)
(***************************************************************************)
\* Mutant of GetWindow: the window also moves before the first request.
GetWindowAtOnce(count, win) ==
  IF win <= -1 THEN Len(requestQueue)
  ELSE IF fairWindow # -1 /\ count % fairWindow = 0 THEN win + fairWindow ELSE win
GetWindow(count, win) ==
  IF win <= -1 THEN Len(requestQueue)
  ELSE IF fairWindow # -1 /\ count > 0 /\ count % fairWindow = 0 THEN win + fairWindow
  ELSE win

Choice(rs, count, win, from, ang) ==
  LET queue == 1 .. Min({GetWindow(count, win), Len(requestQueue)}) IN
    CASE opt.policy = "FIFO" -> count + 1
      [] opt.policy \in {"SATF", "BSATF"} -> DoSATF(rs, queue, from, ang)
      [] opt.policy = "SSTF" -> DoSATF(rs, DoSSTF(rs, queue, from), from, ang)

Follows(prev, b, from) ==
  /\ prev # -1 /\ blockToTrack(prev) = blockToTrack(b)
  /\ prev + 1 = b \/ (prev = LastOn(from) /\ b = FirstOn(from))

\* PlanSeek's outcome for block b, after the transfer of prev.
Planned(prev, b, from) ==
  IF Follows(prev, b, from) THEN "XFER"
  ELSE IF blockToTrack(b) = from THEN "ROTATE" ELSE "SEEK"

TakeIO(rs, count, win, from, ang, time, began, prev) ==
  \E i \in {Choice(rs, count, win, from, ang)} : \E new \in {Planned(prev, requestQueue[i], from)} :
    /\ currentIndex' = i
    /\ totalEst' = Estimate(from, requestQueue[i], ang)
    /\ currWindow' = IF opt.policy # "FIFO" /\ win > -1 THEN GetWindow(count, win) ELSE win
    /\ state' = new
    /\ armTarget' = IF new = "SEEK" THEN blockToTrack(requestQueue[i]) ELSE armTarget
    /\ begin' = [seek |-> time,
                 rot  |-> IF new # "SEEK" THEN time ELSE began.rot,
                 xfer |-> IF new = "XFER" THEN time ELSE began.xfer]
    /\ LET late == SubSeq(opt.late, lateCount + 1, Min({lateCount + 1, Len(opt.late)})) IN
         /\ requestQueue' = requestQueue \o late
         /\ requestState' = [rs EXCEPT ![i] = new] \o [k \in DOMAIN late |-> "NULL"]
         /\ lateCount' = lateCount + Len(late)
    /\ UNCHANGED isDone

\* GetNextIO once no request is left.
Finish(rs, win) ==
  /\ isDone' = TRUE /\ requestState' = rs /\ currWindow' = win
  /\ UNCHANGED <<requestQueue, lateCount, currentIndex, armTarget, begin, totalEst>>
-----------------------------------------------------------------------------
Init ==
  /\ opt \in Setups
  /\ requestQueue = opt.requests /\ requestState = [i \in DOMAIN opt.requests |-> "NULL"]
  /\ lateCount = 0 /\ requestCount = 0 /\ currWindow = opt.window
  /\ currentIndex = 0 /\ state = "NULL" /\ armTrack = 0 /\ armTarget = 0 /\ arm = 0
  /\ angle = 0 /\ timer = 0 /\ totalEst = 0
  /\ begin = [seek |-> 0, rot |-> 0, xfer |-> 0] /\ total = [seek |-> 0, rot |-> 0, xfer |-> 0]
  /\ isDone = FALSE /\ doAnimate = opt.graphics /\ starting = FALSE
  /\ starts = 0 /\ pauses = 0

untouched == <<opt, armTrack, arm, angle, timer, total, requestCount>>

GetNextIO ==
  IF requestCount = Len(requestQueue)
    THEN Finish(requestState, currWindow) /\ doAnimate' = FALSE /\ UNCHANGED state
    ELSE /\ TakeIO(requestState, requestCount, currWindow, armTrack, angle, timer, begin, -1)
         /\ doAnimate' = opt.graphics

\* Go without graphics: the first request is taken, then the loop of Animate starts.
Go ==
  /\ ~opt.graphics /\ starts = 0 /\ starts' = 1
  /\ GetNextIO
  /\ UNCHANGED <<untouched, starting, pauses>>

\* The keys s and p.  Both are modelled until the last request is done.
Start ==
  /\ opt.graphics /\ ~starting /\ ~isDone /\ starts < MaxStarts
  /\ starts' = starts + 1 /\ starting' = TRUE
  /\ GetNextIO
  /\ UNCHANGED <<untouched, pauses>>

Pause ==
  /\ opt.graphics /\ ~starting /\ ~isDone /\ pauses < MaxPauses
  /\ pauses' = pauses + 1 /\ doAnimate' = ~doAnimate
  /\ UNCHANGED <<untouched, requestQueue, requestState, lateCount, currWindow, currentIndex, state,
                 armTarget, begin, totalEst, isDone, starting, starts>>

(***************************************************************************)
(* Animate: time and platter advance; the arm may arrive, the block may    *)
(* come under the head and its transfer may end, all in one tick.          *)
(***************************************************************************)
currentBlock == requestQueue[currentIndex]
NewAngle == IF angle + opt.rotateSpeed >= DEGREES THEN 0 ELSE angle + opt.rotateSpeed
Inward == armTarget >= armTrack
Moved == IF Inward THEN arm + opt.seekSpeed ELSE arm - opt.seekSpeed
DoneWithSeek ==
  /\ state = "SEEK"
  /\ IF Inward THEN Moved >= armTarget * trackWidth ELSE Moved <= armTarget * trackWidth
DoneWithRotation ==
  /\ state = "ROTATE" \/ DoneWithSeek
  /\ RadiallyCloseTo(NewAngle, StartAngle(currentBlock))
DoneWithTransfer ==
  /\ state = "XFER" \/ DoneWithRotation
  /\ RadiallyCloseTo(NewAngle, EndAngle(currentBlock))

Began == [begin EXCEPT !.rot = IF DoneWithSeek THEN timer + 1 ELSE @,
                       !.xfer = IF DoneWithRotation THEN timer + 1 ELSE @]
UpdateWindow ==
  IF fairWindow = -1 /\ currWindow > 0 /\ currWindow < Len(requestQueue)
    THEN currWindow + 1 ELSE currWindow

Running == IF opt.graphics THEN starts > 0 /\ doAnimate ELSE starts > 0

Turn ==
  /\ Running /\ ~isDone
  /\ timer' = timer + 1 /\ angle' = NewAngle
  /\ arm' = IF state = "SEEK" THEN Moved ELSE arm
  /\ armTrack' = IF DoneWithSeek THEN armTarget ELSE armTrack
  /\ starting' = FALSE
  /\ UNCHANGED <<opt, starts, pauses>>

Move ==
  /\ Turn /\ ~DoneWithTransfer
  /\ \E new \in {IF DoneWithRotation THEN "XFER" ELSE IF DoneWithSeek THEN "ROTATE" ELSE state} :
       state' = new /\ requestState' = [requestState EXCEPT ![currentIndex] = new]
  /\ begin' = Began
  /\ UNCHANGED <<requestQueue, lateCount, requestCount, currWindow, currentIndex, armTarget, total,
                 totalEst, isDone, doAnimate>>

\* A transfer ends: DoRequestStats, UpdateWindow, GetNextIO.
Complete ==
  /\ Turn /\ DoneWithTransfer
  /\ requestCount' = requestCount + 1
  /\ total' = [seek |-> total.seek + (Began.rot - Began.seek),
               rot  |-> total.rot + (Began.xfer - Began.rot),
               xfer |-> total.xfer + (timer + 1 - Began.xfer)]
  /\ \E rs \in {[requestState EXCEPT ![currentIndex] = "DONE"]} :
       IF requestCount + 1 = Len(requestQueue)
         THEN Finish(rs, UpdateWindow) /\ state' = "DONE" /\ doAnimate' = FALSE
         ELSE /\ TakeIO(rs, requestCount + 1, UpdateWindow,
                        IF DoneWithSeek THEN armTarget ELSE armTrack,
                        NewAngle, timer + 1, Began, currentBlock)
              /\ UNCHANGED doAnimate

Animate == Move \/ Complete

Next == Go \/ Start \/ Pause \/ Animate

Spec == Init /\ [][Next]_diskVars /\ WF_diskVars(Go \/ Animate)
-----------------------------------------------------------------------------
DoneSet == {i \in DOMAIN requestState : requestState[i] = "DONE"}

TypeOK ==
  /\ state \in {"NULL", "SEEK", "ROTATE", "XFER", "DONE"}
  /\ DOMAIN requestState = DOMAIN requestQueue
  /\ armTrack \in Tracks /\ armTarget \in Tracks /\ arm \in 0 .. 2 * trackWidth
  /\ angle \in 0 .. DEGREES - 1 /\ currentIndex \in 0 .. Len(requestQueue)
  /\ requestCount \in 0 .. Len(requestQueue)

(***************************************************************************)
(* Every request is served once, whatever the policy, the window, the late *)
(* requests and the keys pressed: the count is that of the requests done,  *)
(* the request at hand is not done yet, and the disk stops when all are.   *)
(***************************************************************************)
ServedOnce ==
  /\ requestCount = Cardinality(DoneSet)
  /\ state \in {"SEEK", "ROTATE", "XFER"} => currentIndex \in DOMAIN requestQueue \ DoneSet
  /\ isDone => /\ DoneSet = DOMAIN requestQueue
               /\ opt.requests # <<>> => lateCount = Len(opt.late)

(***************************************************************************)
(* No request overtakes further than its window allows: FIFO serves in     *)
(* order; BSATF ends a batch before it begins the next; a sliding window   *)
(* moves by one with each request.                                         *)
(***************************************************************************)
Batch(i) == (i - 1) \div opt.window
WindowKept ==
  /\ opt.policy = "FIFO" => DoneSet = 1 .. requestCount
  /\ (fairWindow # -1 /\ starts <= 1) =>
       \A i \in DoneSet, k \in DOMAIN requestQueue : Batch(k) < Batch(i) => k \in DoneSet
  /\ (opt.policy \in {"SATF", "SSTF"} /\ opt.window > 0) =>
       currentIndex <= opt.window + requestCount

(***************************************************************************)
(* The arm is over the track it reads, and every tick up to the last       *)
(* request's start is in one of the three totals - if Start was pressed    *)
(* but once: pressed again it abandons the request at hand with the arm    *)
(* under way, and forgets the time it took.                                *)
(***************************************************************************)
TimeAccounted ==
  starts <= 1 =>
    /\ state \in {"ROTATE", "XFER"} => arm = armTrack * trackWidth
    /\ total.seek + total.rot + total.xfer = IF isDone THEN timer ELSE begin.seek

(***************************************************************************)
(* The policies choose by estimate, and at one degree a tick the estimate  *)
(* comes true to the tick - or a whole turn later, if the block began      *)
(* right under the resting head, which looks only after it has moved.      *)
(***************************************************************************)
EstimateKept ==
  (requestCount' # requestCount /\ starts <= 1 /\ opt.rotateSpeed = 1) =>
    \/ timer' - begin.seek = totalEst
    \/ /\ totalEst = angleOffset(blockToTrack(currentBlock))
       /\ timer' - begin.seek = totalEst + DEGREES

Halted == isDone \/ (opt.graphics /\ (starts = 0 \/ ~doAnimate))
=============================================================================
