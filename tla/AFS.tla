-------------------------------- MODULE AFS --------------------------------
(***************************************************************************)
(* The AFS simulator, ostep-homework-master/dist-afs/afs.py: one server    *)
(* that stores whole files and remembers which client cached what, and     *)
(* clients with whole-file caches that the server invalidates by callback. *)
(* The simulator interleaves the clients one micro-operation at a time.    *)
(*                                                                         *)
(* A client's action list is built before the run; choosing the next       *)
(* action when it is taken ranges over the same lists.  Lists are          *)
(* well-formed: a descriptor is opened once (filedesc.alloc refuses a      *)
(* second allocation) and read, written and closed only while open.        *)
(***************************************************************************)
EXTENDS Integers, FiniteSets

CONSTANTS Clients,   \* client names ("c0", "c1", ...)
          Files,     \* file names ("a", "b", ...)
          Fds,       \* descriptors an action list may use
          NoFile,    \* the empty name of a free descriptor
          Nested,    \* TRUE: -A lists may open a file while another is open
                     \* FALSE: one session at a time, as in generated lists
          MaxSteps   \* bound on the length of an action list

ASSUME AFSAssumption == /\ NoFile \notin Files
                        /\ Nested \in BOOLEAN
                        /\ MaxSteps \in Nat
                        /\ IsFiniteSet(Files)

VARIABLES contents,  \* server.contents
          callbacks, \* server.cache: callbacks[c] = files the server will call c about
          value,     \* files.value: the next value a write stores
          cache,     \* client.cache.cache: cache[c][f], Absent when f is no key
          fdname,    \* client.fd.fd: name each descriptor stands for
          isopen,    \* descriptors opened and not yet closed
          acnt,      \* client.acnt: actions executed
          done,      \* client.done
          aborted    \* an assertion of the simulator has failed

vars == <<contents, callbacks, value, cache, fdname, isopen, acnt, done, aborted>>

Absent == [present |-> FALSE, data |-> 0, dirty |-> FALSE, refcnt |-> 0, valid |-> FALSE]

Entry == [present : BOOLEAN, data : Nat, dirty : BOOLEAN, refcnt : Int, valid : BOOLEAN]

Init ==
  /\ contents \in {g \in [Files -> 0 .. Cardinality(Files) - 1] :
                     \A f1, f2 \in Files : g[f1] = g[f2] => f1 = f2}
  /\ value = Cardinality(Files)
  /\ callbacks = [c \in Clients |-> {}]
  /\ cache = [c \in Clients |-> [f \in Files |-> Absent]]
  /\ fdname = [c \in Clients |-> [fd \in Fds |-> NoFile]]
  /\ isopen = [c \in Clients |-> {}]
  /\ acnt = [c \in Clients |-> 0]
  /\ done = [c \in Clients |-> FALSE]
  /\ aborted = FALSE

(***************************************************************************)
(* client.step: one micro-operation of a client that has actions left.     *)
(***************************************************************************)
StepPastTheEnd(c) ==  \* mutant: the length of the list is compared too late
  ~aborted /\ ~done[c] /\ acnt[c] <= MaxSteps /\ acnt' = [acnt EXCEPT ![c] = @ + 1] /\ UNCHANGED done

Step(c) == /\ ~aborted
           /\ ~done[c]
           /\ acnt[c] < MaxSteps
           /\ acnt' = [acnt EXCEPT ![c] = @ + 1]
           /\ UNCHANGED done

\* cache.checkget, and the test client.getfile makes of its answer.
HasAnyCopy(c, f) == cache[c][f].present  \* mutant: the valid bit is not looked at

HasLocalCopy(c, f) == cache[c][f].present /\ cache[c][f].valid

\* cache.put of freshly fetched data, then cache.incref.
Fetched(d) == [present |-> TRUE, data |-> d, dirty |-> FALSE, refcnt |-> 1, valid |-> TRUE]

\* MICRO_OPEN: client.getfile, and server.get on a miss.
Open(c, f, fd) ==
  /\ Step(c)
  /\ fdname[c][fd] = NoFile
  /\ Nested \/ isopen[c] = {}
  /\ fdname' = [fdname EXCEPT ![c][fd] = f]
  /\ isopen' = [isopen EXCEPT ![c] = @ \cup {fd}]
  /\ \/ /\ HasLocalCopy(c, f)
        /\ cache' = [cache EXCEPT ![c][f].refcnt = @ + 1]
        /\ UNCHANGED callbacks
     \/ /\ ~HasLocalCopy(c, f)
        /\ cache' = [cache EXCEPT ![c][f] = Fetched(contents[f])]
        /\ callbacks' = [callbacks EXCEPT ![c] = @ \cup {f}]
  /\ UNCHANGED <<contents, value, aborted>>

\* filedesc.lookup of an open descriptor.
Names(c, fd, f) == fd \in isopen[c] /\ f = fdname[c][fd]

\* The assertion of cache.get, with which every read, write and close begins.
Lookup(c, fd, f) == Names(c, fd, f) /\ cache[c][f].present

\* MICRO_READ; and the end of a read, write or close whose file is no longer
\* cached: the assertion stops the simulator and changes nothing else.
Read(c, f, fd) ==
  /\ Step(c)
  /\ Names(c, fd, f)
  /\ aborted' = ~Lookup(c, fd, f)
  /\ UNCHANGED <<contents, callbacks, value, cache, fdname, isopen>>

\* MICRO_WRITE: files.getvalue and cache.update.
Write(c, f, fd) ==
  /\ Step(c)
  /\ Lookup(c, fd, f)
  /\ cache' = [cache EXCEPT ![c][f].data = value, ![c][f].dirty = TRUE]
  /\ value' = value + 1
  /\ UNCHANGED <<contents, callbacks, fdname, isopen, aborted>>

\* cache.invalidate: a file that is not cached is ignored.
Evicted(e) == Absent  \* mutant: the callback drops the entry
Invalidated(e) == IF e.present THEN [e EXCEPT !.valid = FALSE] ELSE e

\* server.put's loop over the other clients on the callback list.
CallBackNobody(k, f, c) == k  \* mutant: no client is told

CallBack(k, f, c) ==
  [x \in Clients |->
     IF x # c /\ f \in callbacks[x] THEN [k[x] EXCEPT ![f] = Invalidated(@)] ELSE k[x]]

\* server.put leaves the callback lists as they are, called or not (the
\* removal is commented out: a client that is called back keeps its copy,
\* and its own later put makes that copy valid again).
ListsAfterPutTrimmed(f, c) ==  \* mutant: the commented-out removal
  [x \in Clients |-> IF x = c THEN callbacks[x] ELSE callbacks[x] \ {f}]

ListsAfterPut(f, c) == callbacks

\* The closing client's entry after putfile, decref and checkvalid.
Closed(e) ==
  LET flushed == IF e.dirty THEN [e EXCEPT !.dirty = FALSE, !.valid = TRUE] ELSE e
      dropped == [flushed EXCEPT !.refcnt = @ - 1]
  IN  IF ~dropped.valid /\ dropped.refcnt = 0 THEN Absent ELSE dropped

\* MICRO_CLOSE: a dirty copy is put to the server before the reference is dropped.
Close(c, f, fd) ==
  LET e == cache[c][f]
      told == IF e.dirty THEN CallBack(cache, f, c) ELSE cache
  IN  /\ Step(c)
      /\ Lookup(c, fd, f)
      /\ contents' = IF e.dirty THEN [contents EXCEPT ![f] = e.data] ELSE contents
      /\ cache' = [told EXCEPT ![c][f] = Closed(e)]
      /\ callbacks' = IF e.dirty THEN ListsAfterPut(f, c) ELSE callbacks
      /\ isopen' = [isopen EXCEPT ![c] = @ \ {fd}]
      /\ UNCHANGED <<value, fdname, aborted>>

\* The action list is exhausted: step returns 0 once and the main loop
\* counts the client out.
Finish(c) ==
  /\ ~aborted
  /\ ~done[c]
  /\ done' = [done EXCEPT ![c] = TRUE]
  /\ UNCHANGED <<contents, callbacks, value, cache, fdname, isopen, acnt, aborted>>

ClientStep(c) ==
  \/ \E f \in Files, fd \in Fds :
        Open(c, f, fd) \/ Read(c, f, fd) \/ Write(c, f, fd) \/ Close(c, f, fd)
  \/ Finish(c)

Next == \E c \in Clients : ClientStep(c)

\* A legal schedule names every client and is repeated for ever, and random
\* scheduling picks every client again and again.
Fairness == \A c \in Clients : WF_vars(ClientStep(c))

Spec == Init /\ [][Next]_vars /\ Fairness

-----------------------------------------------------------------------------
(***************************************************************************)
(* Properties                                                              *)
(***************************************************************************)
TypeOK ==
  /\ contents \in [Files -> Nat]
  /\ callbacks \in [Clients -> SUBSET Files]
  /\ value \in Nat
  /\ cache \in [Clients -> [Files -> Entry]]
  /\ fdname \in [Clients -> [Fds -> Files \cup {NoFile}]]
  /\ isopen \in [Clients -> SUBSET Fds]
  /\ acnt \in [Clients -> 0 .. MaxSteps]
  /\ done \in [Clients -> BOOLEAN]
  /\ aborted \in BOOLEAN

OpenOn(c, f) == {fd \in isopen[c] : fdname[c][fd] = f}

\* A cached copy that is valid and unwritten equals the server's contents,
\* whatever the other clients have closed since it was fetched: an open that
\* finds it (client.getfile) need not ask the server.
Coherent ==
  \A c \in Clients, f \in Files :
     cache[c][f].present /\ cache[c][f].valid /\ ~cache[c][f].dirty
        => cache[c][f].data = contents[f]

\* The server holds a callback entry for every cached file, so that no copy
\* can outlive a put it is not told about (server.get, server.put).
CallbackPromise ==
  \A c \in Clients, f \in Files : cache[c][f].present => f \in callbacks[c]

\* The reference count of a cached file is the number of descriptors its
\* client has open on it, and a file with open descriptors is cached.
RefcntCountsOpens ==
  \A c \in Clients, f \in Files : cache[c][f].refcnt = Cardinality(OpenOn(c, f))

\* No read, write or close finds its open file missing from the cache: the
\* assertions of cache.get and of MICRO_READ, MICRO_WRITE and MICRO_CLOSE.
NoAssertionFailure == ~aborted

\* Data written and not yet flushed leaves the cache only to the server:
\* a step that ends the dirtiness of a copy has installed that very copy.
DirtyIsFlushed ==
  [][\A c \in Clients, f \in Files :
       cache[c][f].dirty /\ ~cache'[c][f].dirty => contents'[f] = cache[c][f].data]_vars

(***************************************************************************)
(* Refinement of the cache-free specification: the copy client c works on  *)
(* is its cache entry while descriptors are open on it.                    *)
(***************************************************************************)
SessOf(c, f) ==
  IF OpenOn(c, f) = {} THEN [fds |-> {}, data |-> 0, dirty |-> FALSE]
  ELSE [fds |-> OpenOn(c, f), data |-> cache[c][f].data, dirty |-> cache[c][f].dirty]

Session == INSTANCE AFSSession WITH
             sess <- [c \in Clients |-> [f \in Files |-> SessOf(c, f)]]

\* With caches and callbacks the clients observe exactly what they would
\* observe if every open fetched the file from the server.
ImplementsSession == Session!SSpec
=============================================================================
