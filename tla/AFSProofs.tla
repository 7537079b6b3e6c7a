----------------------------- MODULE AFSProofs -----------------------------
(* Proofs about AFS, for any clients, files, descriptors and list length. *)
EXTENDS AFS, TLAPS, FiniteSetTheorems

\* The entries that the cache operations of afs.py build are entries.
LEMMA EntryTypes ==
  /\ Absent \in Entry
  /\ \A d \in Nat : Fetched(d) \in Entry
  /\ \A e \in Entry : Invalidated(e) \in Entry
  /\ \A e \in Entry : Closed(e) \in Entry
  /\ \A e \in Entry : [e EXCEPT !.refcnt = @ + 1] \in Entry
  /\ \A e \in Entry, d \in Nat : [e EXCEPT !.data = d, !.dirty = TRUE] \in Entry
<1>1. Absent \in Entry BY DEF Absent, Entry
<1>2. \A d \in Nat : Fetched(d) \in Entry BY DEF Fetched, Entry
<1>3. \A e \in Entry : Invalidated(e) \in Entry BY DEF Invalidated, Entry
<1>4. ASSUME NEW e \in Entry PROVE Closed(e) \in Entry
  <2> DEFINE flushed == IF e.dirty THEN [e EXCEPT !.dirty = FALSE, !.valid = TRUE] ELSE e
             dropped == [flushed EXCEPT !.refcnt = @ - 1]
  <2>1. flushed \in Entry BY DEF Entry
  <2>2. dropped \in Entry
    <3> HIDE DEF flushed
    <3> QED BY <2>1 DEF Entry
  <2> HIDE DEF dropped
  <2>3. Closed(e) \in {dropped, Absent} BY DEF Closed, dropped
  <2> QED BY <1>1, <2>2, <2>3
<1>5. \A e \in Entry : [e EXCEPT !.refcnt = @ + 1] \in Entry BY DEF Entry
<1>6. \A e \in Entry, d \in Nat : [e EXCEPT !.data = d, !.dirty = TRUE] \in Entry BY DEF Entry
<1> QED BY <1>1, <1>2, <1>3, <1>4, <1>5, <1>6

\* Every action of the simulator keeps the type invariant.
THEOREM TypeCorrect == Spec => []TypeOK
<1>1. Init => TypeOK
  <2> SUFFICES ASSUME Init PROVE TypeOK OBVIOUS
  <2>1. Cardinality(Files) \in Nat BY AFSAssumption, FS_CardinalityType
  <2>2. contents \in [Files -> Nat] BY <2>1 DEF Init
  <2>3. cache \in [Clients -> [Files -> Entry]] BY EntryTypes DEF Init
  <2>4. done \in [Clients -> BOOLEAN] BY DEF Init
  <2>5. callbacks \in [Clients -> SUBSET Files] /\ isopen \in [Clients -> SUBSET Fds]
    BY DEF Init
  <2>6. fdname \in [Clients -> [Fds -> Files \cup {NoFile}]] BY DEF Init
  <2>7. acnt \in [Clients -> 0 .. MaxSteps] BY AFSAssumption DEF Init
  <2>8. value \in Nat /\ aborted \in BOOLEAN BY <2>1 DEF Init
  <2> QED BY <2>2, <2>3, <2>4, <2>5, <2>6, <2>7, <2>8 DEF TypeOK
<1>2. TypeOK /\ [Next]_vars => TypeOK'
  <2> SUFFICES ASSUME TypeOK, [Next]_vars PROVE TypeOK' OBVIOUS
  <2> USE AFSAssumption DEF TypeOK
  <2>1. ASSUME NEW c \in Clients, NEW f \in Files, NEW fd \in Fds, Open(c, f, fd) PROVE TypeOK'
    <3>1. cache' \in [Clients -> [Files -> Entry]]
      <4>1. CASE cache' = [cache EXCEPT ![c][f].refcnt = @ + 1] BY <4>1, EntryTypes
      <4>2. CASE cache' = [cache EXCEPT ![c][f] = Fetched(contents[f])] BY <4>2, EntryTypes
      <4> QED BY <2>1, <4>1, <4>2 DEF Open
    <3> QED BY <2>1, <3>1 DEF Open, Step
  <2>2. ASSUME NEW c \in Clients, NEW f \in Files, NEW fd \in Fds, Read(c, f, fd) PROVE TypeOK'
    BY <2>2 DEF Read, Step, Lookup, Names
  <2>3. ASSUME NEW c \in Clients, NEW f \in Files, NEW fd \in Fds, Write(c, f, fd) PROVE TypeOK'
    <3>1. cache' \in [Clients -> [Files -> Entry]]
      BY <2>3, EntryTypes DEF Write
    <3> QED BY <2>3, <3>1 DEF Write, Step
  <2>4. ASSUME NEW c \in Clients, NEW f \in Files, NEW fd \in Fds, Close(c, f, fd) PROVE TypeOK'
    <3>1. CallBack(cache, f, c) \in [Clients -> [Files -> Entry]]
      BY EntryTypes DEF CallBack
    <3>2. cache' \in [Clients -> [Files -> Entry]]
      BY <2>4, <3>1, EntryTypes DEF Close
    <3>3. contents' \in [Files -> Nat]
      BY <2>4 DEF Close, Entry
    <3> QED BY <2>4, <3>2, <3>3 DEF Close, Step, ListsAfterPut
  <2>6. ASSUME NEW c \in Clients, Finish(c) PROVE TypeOK'
    BY <2>6 DEF Finish
  <2>7. CASE UNCHANGED vars BY <2>7 DEF vars
  <2> QED BY <2>1, <2>2, <2>3, <2>4, <2>6, <2>7 DEF Next, ClientStep
<1> QED BY <1>1, <1>2, PTL DEF Spec
\* What a close does to an entry: a dirty copy becomes clean and valid, data
\* and presence change only if the entry is dropped.
LEMMA ClosedEntry ==
  ASSUME NEW e \in Entry
  PROVE  /\ Closed(e).present => /\ e.present
                                 /\ Closed(e).data = e.data
                                 /\ Closed(e).refcnt = e.refcnt - 1
         /\ ~Closed(e).dirty
         /\ Closed(e).valid => e.valid \/ e.dirty
<1>1. CASE e.dirty BY <1>1 DEF Closed, Entry, Absent
<1>2. CASE ~e.dirty BY <1>2 DEF Closed, Entry, Absent
<1> QED BY <1>1, <1>2

\* The callback promise is needed for the coherence to be inductive: an
\* unpromised copy would survive a put of another client.
\* Valid clean copies equal the server's contents and are on the server's
\* callback lists, in every interleaving, nested opens included.
THEOREM CoherenceHolds == Spec => [](CallbackPromise /\ Coherent)
<1>1. Init => CallbackPromise /\ Coherent
  <2>1. ~Absent.present BY DEF Absent
  <2> QED BY <2>1 DEF Init, CallbackPromise, Coherent
<1>2. TypeOK /\ CallbackPromise /\ Coherent /\ [Next]_vars
        => CallbackPromise' /\ Coherent'
  <2> SUFFICES ASSUME TypeOK, CallbackPromise, Coherent, [Next]_vars
               PROVE  CallbackPromise' /\ Coherent'
    OBVIOUS
  <2> USE DEF TypeOK, CallbackPromise, Coherent
  <2>1. ASSUME NEW c \in Clients, NEW f \in Files, NEW fd \in Fds, Open(c, f, fd)
        PROVE  CallbackPromise' /\ Coherent'
    <3>1. CASE HasLocalCopy(c, f)
      <4>1. callbacks' = callbacks /\ contents' = contents BY <2>1, <3>1 DEF Open
      <4>2. cache' = [cache EXCEPT ![c][f].refcnt = @ + 1] BY <2>1, <3>1 DEF Open
      <4>3. \A x \in Clients, g \in Files :
               /\ cache'[x][g].present <=> cache[x][g].present
               /\ cache'[x][g].valid <=> cache[x][g].valid
               /\ cache'[x][g].dirty <=> cache[x][g].dirty
               /\ cache'[x][g].data = cache[x][g].data
        BY <4>2 DEF Entry
      <4>4. CallbackPromise' BY <4>1, <4>3
      <4>5. ASSUME NEW x \in Clients, NEW g \in Files,
                   cache'[x][g].present, cache'[x][g].valid, ~cache'[x][g].dirty
            PROVE  cache'[x][g].data = contents'[g]
        <5>1. cache[x][g].present /\ cache[x][g].valid /\ ~cache[x][g].dirty
          BY <4>3, <4>5
        <5> QED BY <4>1, <4>3, <5>1
      <4> QED BY <4>4, <4>5
    <3>2. CASE ~HasLocalCopy(c, f)
      <4>1. callbacks' = [callbacks EXCEPT ![c] = @ \cup {f}] /\ contents' = contents
        BY <2>1, <3>2 DEF Open
      <4>2. cache' = [cache EXCEPT ![c][f] = Fetched(contents[f])]
        BY <2>1, <3>2 DEF Open
      <4>3. Fetched(contents[f]).data = contents[f] BY DEF Fetched
      <4>4. \A x \in Clients, g \in Files :
               cache'[x][g] = IF x = c /\ g = f THEN Fetched(contents[f]) ELSE cache[x][g]
        BY <4>2
      <4>5. f \in callbacks'[c] /\ \A x \in Clients : callbacks[x] \subseteq callbacks'[x]
        BY <4>1
      <4>6. CallbackPromise' BY <4>4, <4>5
      <4>7. ASSUME NEW x \in Clients, NEW g \in Files,
                   cache'[x][g].present, cache'[x][g].valid, ~cache'[x][g].dirty
            PROVE  cache'[x][g].data = contents'[g]
        <5>1. CASE x = c /\ g = f BY <4>1, <4>3, <4>4, <5>1
        <5>2. CASE ~(x = c /\ g = f)
          <6>1. cache'[x][g] = cache[x][g] BY <4>4, <5>2
          <6> QED BY <4>1, <4>7, <6>1
        <5> QED BY <5>1, <5>2
      <4> QED BY <4>6, <4>7
    <3> QED BY <3>1, <3>2
  <2>2. ASSUME NEW c \in Clients, NEW f \in Files, NEW fd \in Fds, Read(c, f, fd)
        PROVE  CallbackPromise' /\ Coherent'
    BY <2>2 DEF Read
  <2>3. ASSUME NEW c \in Clients, NEW f \in Files, NEW fd \in Fds, Write(c, f, fd)
        PROVE  CallbackPromise' /\ Coherent'
    BY <2>3 DEF Write, Entry
  <2>4. ASSUME NEW c \in Clients, NEW f \in Files, NEW fd \in Fds, Close(c, f, fd)
        PROVE  CallbackPromise' /\ Coherent'
    <3>1. callbacks' = callbacks BY <2>4 DEF Close, ListsAfterPut
    <3>2. cache'[c][f] = Closed(cache[c][f])
      BY <2>4 DEF Close, CallBack
    <3>3. ASSUME NEW x \in Clients, NEW g \in Files, x # c \/ g # f
          PROVE  cache'[x][g] = IF cache[c][f].dirty /\ x # c /\ g = f /\ f \in callbacks[x]
                                THEN Invalidated(cache[x][g]) ELSE cache[x][g]
      BY <2>4, <3>3 DEF Close, CallBack
    <3>4. \A g \in Files : contents'[g] = IF g = f /\ cache[c][f].dirty
                                           THEN cache[c][f].data ELSE contents[g]
      BY <2>4 DEF Close
    <3>5. \A e \in Entry : e.present => Invalidated(e).present /\ ~Invalidated(e).valid
      BY DEF Invalidated, Entry
    <3>6. \A e \in Entry : Invalidated(e).present => e.present
      BY DEF Invalidated, Entry
    <3>0. cache[c][f] \in Entry OBVIOUS
    <3>7. CallbackPromise'
      <4>1. ASSUME NEW x \in Clients, NEW g \in Files, cache'[x][g].present
            PROVE  cache[x][g].present
        <5>1. CASE x = c /\ g = f BY <3>0, <3>2, <4>1, <5>1, ClosedEntry
        <5>2. CASE ~(x = c /\ g = f) BY <3>3, <3>6, <4>1, <5>2
        <5> QED BY <5>1, <5>2
      <4> QED BY <3>1, <4>1
    <3>8. ASSUME NEW x \in Clients, NEW g \in Files,
                 cache'[x][g].present, cache'[x][g].valid, ~cache'[x][g].dirty
          PROVE  cache'[x][g].data = contents'[g]
      <4>1. CASE x = c /\ g = f
        <5>1. /\ cache[c][f].present
              /\ cache'[c][f].data = cache[c][f].data
              /\ cache[c][f].valid \/ cache[c][f].dirty
          BY <3>0, <3>2, <3>8, <4>1, ClosedEntry
        <5> QED BY <3>4, <4>1, <5>1
      <4>2. CASE ~(x = c /\ g = f)
        BY <3>3, <3>4, <3>5, <3>6, <3>8, <4>2
      <4> QED BY <4>1, <4>2
    <3> QED BY <3>7, <3>8
  <2>6. ASSUME NEW c \in Clients, Finish(c)
        PROVE  CallbackPromise' /\ Coherent'
    BY <2>6 DEF Finish
  <2>7. CASE UNCHANGED vars BY <2>7 DEF vars
  <2> QED BY <2>1, <2>2, <2>3, <2>4, <2>6, <2>7 DEF Next, ClientStep
<1> QED BY <1>1, <1>2, TypeCorrect, PTL DEF Spec
\* What makes single sessions safe: at most one descriptor is open, its file
\* is cached with one reference, and a file no descriptor is open on is
\* clean and unreferenced.
SessionInv ==
  /\ ~aborted
  /\ \A c \in Clients :
       /\ \A fd1, fd2 \in isopen[c] : fd1 = fd2
       /\ \A fd \in isopen[c] : fdname[c][fd] \in Files
       /\ \A f \in Files :
            /\ OpenOn(c, f) # {} => cache[c][f].present /\ cache[c][f].refcnt = 1
            /\ OpenOn(c, f) = {} => ~cache[c][f].dirty /\ cache[c][f].refcnt = 0

\* With one session at a time no assertion of the simulator fails, whatever
\* the interleaving of the clients.
THEOREM SingleSessionsSafe == ASSUME ~Nested PROVE Spec => []SessionInv
<1>1. Init => SessionInv
  <2> SUFFICES ASSUME Init PROVE SessionInv OBVIOUS
  <2>1. ~Absent.dirty /\ Absent.refcnt = 0 BY DEF Absent
  <2>2. \A c \in Clients, f \in Files : OpenOn(c, f) = {} BY DEF Init, OpenOn
  <2> QED BY <2>1, <2>2 DEF Init, SessionInv
<1>2. TypeOK /\ SessionInv /\ [Next]_vars => SessionInv'
  <2> SUFFICES ASSUME TypeOK, SessionInv, [Next]_vars PROVE SessionInv' OBVIOUS
  <2> USE DEF TypeOK
  <2>1. ASSUME NEW c \in Clients, NEW f \in Files, NEW fd \in Fds, Open(c, f, fd)
        PROVE  SessionInv'
    <3>1. isopen[c] = {} /\ isopen' = [isopen EXCEPT ![c] = {fd}]
      BY <2>1 DEF Open
    <3>2. \A g \in Files : OpenOn(c, g) = {} BY <3>1 DEF OpenOn
    <3>3. \A x \in Clients, g \in Files :
             OpenOn(x, g)' = IF x = c THEN (IF g = f THEN {fd} ELSE {}) ELSE OpenOn(x, g)
      BY <2>1, <3>1 DEF Open, OpenOn
    <3>4. \A x \in Clients, g \in Files : x # c \/ g # f => cache'[x][g] = cache[x][g]
      BY <2>1 DEF Open
    <3>5. cache'[c][f].present /\ cache'[c][f].refcnt = 1
      <4>1. cache[c][f].refcnt = 0 BY <3>2 DEF SessionInv
      <4>2. CASE HasLocalCopy(c, f)
        <5>1. cache'[c][f] = [cache[c][f] EXCEPT !.refcnt = @ + 1]
          BY <2>1, <4>2 DEF Open
        <5>2. cache[c][f].present /\ cache[c][f] \in Entry BY <4>2 DEF HasLocalCopy
        <5> QED BY <4>1, <5>1, <5>2 DEF Entry
      <4>3. CASE ~HasLocalCopy(c, f)
        BY <2>1, <4>3 DEF Open, Fetched
      <4> QED BY <4>2, <4>3
    <3>6. ~aborted' BY <2>1 DEF Open, SessionInv
    <3>7. \A x \in Clients : x # c => isopen'[x] = isopen[x] /\ fdname'[x] = fdname[x]
      BY <2>1 DEF Open
    <3>8. isopen'[c] = {fd} /\ fdname'[c][fd] = f
      BY <2>1, <3>1 DEF Open
    <3>9. ASSUME NEW x \in Clients, NEW g \in Files
          PROVE  /\ OpenOn(x, g)' # {} => cache'[x][g].present /\ cache'[x][g].refcnt = 1
                 /\ OpenOn(x, g)' = {} => ~cache'[x][g].dirty /\ cache'[x][g].refcnt = 0
      <4>1. CASE x = c /\ g = f BY <3>3, <3>5, <4>1
      <4>2. CASE x = c /\ g # f BY <3>2, <3>3, <3>4, <4>2 DEF SessionInv
      <4>3. CASE x # c BY <3>3, <3>4, <4>3 DEF SessionInv
      <4> QED BY <4>1, <4>2, <4>3
    <3>10. ASSUME NEW x \in Clients
           PROVE  /\ \A fd1, fd2 \in isopen'[x] : fd1 = fd2
                  /\ \A fd1 \in isopen'[x] : fdname'[x][fd1] \in Files
      <4>1. CASE x = c BY <3>8, <4>1
      <4>2. CASE x # c BY <3>7, <4>2 DEF SessionInv
      <4> QED BY <4>1, <4>2
    <3> QED BY <3>6, <3>9, <3>10 DEF SessionInv
  <2>2. ASSUME NEW c \in Clients, NEW f \in Files, NEW fd \in Fds, Read(c, f, fd)
        PROVE  SessionInv'
    <3>1. ~aborted'
      <4>1. fd \in OpenOn(c, f) BY <2>2 DEF Read, Names, OpenOn
      <4>2. cache[c][f].present BY <4>1 DEF SessionInv
      <4>3. Lookup(c, fd, f) BY <2>2, <4>2 DEF Read, Lookup
      <4> QED BY <2>2, <4>3 DEF Read
    <3>2. UNCHANGED <<cache, fdname, isopen>> BY <2>2 DEF Read
    <3> QED BY <3>1, <3>2 DEF SessionInv, OpenOn
  <2>3. ASSUME NEW c \in Clients, NEW f \in Files, NEW fd \in Fds, Write(c, f, fd)
        PROVE  SessionInv'
    <3>1. \A x \in Clients, g \in Files : OpenOn(x, g)' = OpenOn(x, g)
      BY <2>3 DEF Write, OpenOn
    <3>2. fd \in OpenOn(c, f) BY <2>3 DEF Write, Lookup, Names, OpenOn
    <3>3. \A x \in Clients, g \in Files :
             cache'[x][g] = IF x = c /\ g = f
                            THEN [cache[c][f] EXCEPT !.data = value, !.dirty = TRUE]
                            ELSE cache[x][g]
      BY <2>3 DEF Write
    <3>4. /\ cache'[c][f].present <=> cache[c][f].present
          /\ cache'[c][f].refcnt = cache[c][f].refcnt
      <4>1. cache'[c][f] = [cache[c][f] EXCEPT !.data = value, !.dirty = TRUE] BY <3>3
      <4>2. cache[c][f] \in Entry OBVIOUS
      <4> QED BY <4>1, <4>2 DEF Entry
    <3>5. aborted' = aborted /\ isopen' = isopen /\ fdname' = fdname BY <2>3 DEF Write
    <3> QED BY <3>1, <3>2, <3>3, <3>4, <3>5 DEF SessionInv
  <2>4. ASSUME NEW c \in Clients, NEW f \in Files, NEW fd \in Fds, Close(c, f, fd)
        PROVE  SessionInv'
    <3>1. isopen[c] = {fd} /\ fdname[c][fd] = f
      BY <2>4 DEF Close, Lookup, Names, SessionInv
    <3>2. isopen' = [isopen EXCEPT ![c] = {}] /\ fdname' = fdname /\ aborted' = aborted
      BY <2>4, <3>1 DEF Close
    <3>3. \A x \in Clients, g \in Files :
             OpenOn(x, g)' = IF x = c THEN {} ELSE OpenOn(x, g)
      BY <3>2 DEF OpenOn
    <3>4. cache'[c][f] = Closed(cache[c][f])
      BY <2>4 DEF Close, CallBack
    <3>5. ASSUME NEW x \in Clients, NEW g \in Files, x # c \/ g # f
          PROVE  cache'[x][g] \in {cache[x][g], Invalidated(cache[x][g])}
      BY <2>4, <3>5 DEF Close, CallBack
    <3>6. \A e \in Entry : /\ Invalidated(e).present <=> e.present
                           /\ Invalidated(e).dirty <=> e.dirty
                           /\ Invalidated(e).refcnt = e.refcnt
      BY DEF Invalidated, Entry
    <3>7. cache[c][f] \in Entry /\ cache[c][f].refcnt = 1
      <4>1. fd \in OpenOn(c, f) BY <3>1 DEF OpenOn
      <4> QED BY <4>1 DEF SessionInv
    <3>8. ~cache'[c][f].dirty /\ cache'[c][f].refcnt = 0
      <4>1. ~Closed(cache[c][f]).dirty BY <3>7, ClosedEntry
      <4>2. Closed(cache[c][f]).refcnt = 0 BY <3>7 DEF Closed, Entry, Absent
      <4> QED BY <3>4, <4>1, <4>2
    <3>9. ASSUME NEW x \in Clients, NEW g \in Files, x # c \/ g # f
          PROVE  /\ cache'[x][g].present <=> cache[x][g].present
                 /\ cache'[x][g].dirty <=> cache[x][g].dirty
                 /\ cache'[x][g].refcnt = cache[x][g].refcnt
      <4>1. CASE cache'[x][g] = cache[x][g] BY <4>1
      <4>2. CASE cache'[x][g] = Invalidated(cache[x][g])
        <5>1. cache[x][g] \in Entry OBVIOUS
        <5> QED BY <3>6, <4>2, <5>1
      <4> QED BY <3>5, <3>9, <4>1, <4>2
    <3>10. \A g \in Files : g # f => OpenOn(c, g) = {} BY <3>1 DEF OpenOn
    <3>11. ASSUME NEW x \in Clients, NEW g \in Files
           PROVE  /\ OpenOn(x, g)' # {} => cache'[x][g].present /\ cache'[x][g].refcnt = 1
                  /\ OpenOn(x, g)' = {} => ~cache'[x][g].dirty /\ cache'[x][g].refcnt = 0
      <4>1. CASE x = c /\ g = f BY <3>3, <3>8, <4>1
      <4>2. CASE x = c /\ g # f
        <5>1. OpenOn(x, g)' = {} /\ OpenOn(x, g) = {} BY <3>3, <3>10, <4>2
        <5>2. ~cache[x][g].dirty /\ cache[x][g].refcnt = 0 BY <5>1 DEF SessionInv
        <5> QED BY <3>9, <4>2, <5>1, <5>2
      <4>3. CASE x # c
        <5>1. OpenOn(x, g)' = OpenOn(x, g) BY <3>3, <4>3
        <5>2. /\ cache'[x][g].present <=> cache[x][g].present
              /\ cache'[x][g].dirty <=> cache[x][g].dirty
              /\ cache'[x][g].refcnt = cache[x][g].refcnt
          BY <3>9, <4>3
        <5>3. /\ OpenOn(x, g) # {} => cache[x][g].present /\ cache[x][g].refcnt = 1
              /\ OpenOn(x, g) = {} => ~cache[x][g].dirty /\ cache[x][g].refcnt = 0
          BY DEF SessionInv
        <5> HIDE DEF TypeOK
        <5> QED BY <5>1, <5>2, <5>3
      <4> QED BY <4>1, <4>2, <4>3
    <3> QED BY <3>2, <3>11 DEF SessionInv
  <2>6. ASSUME NEW c \in Clients, Finish(c)
        PROVE  SessionInv'
    BY <2>6 DEF Finish, SessionInv, OpenOn
  <2>7. CASE UNCHANGED vars BY <2>7 DEF vars, SessionInv, OpenOn
  <2> QED BY <2>1, <2>2, <2>3, <2>4, <2>6, <2>7 DEF Next, ClientStep
<1> QED BY <1>1, <1>2, TypeCorrect, PTL DEF Spec
\* The properties the runs check follow from the session invariant: no
\* assertion fails and reference counts count open descriptors.
THEOREM SessionProperties ==
  ASSUME ~Nested PROVE Spec => [](NoAssertionFailure /\ RefcntCountsOpens)
<1>1. TypeOK /\ SessionInv => NoAssertionFailure /\ RefcntCountsOpens
  <2> SUFFICES ASSUME TypeOK, SessionInv PROVE NoAssertionFailure /\ RefcntCountsOpens
    OBVIOUS
  <2>1. ~aborted BY DEF SessionInv
  <2>2. ASSUME NEW c \in Clients, NEW f \in Files
        PROVE  cache[c][f].refcnt = Cardinality(OpenOn(c, f))
    <3>1. CASE OpenOn(c, f) = {}
      BY <3>1, FS_EmptySet DEF SessionInv
    <3>2. CASE OpenOn(c, f) # {}
      <4>1. PICK fd \in OpenOn(c, f) : TRUE BY <3>2
      <4>2. OpenOn(c, f) = {fd} BY <4>1 DEF OpenOn, SessionInv
      <4>3. Cardinality(OpenOn(c, f)) = 1 BY <4>2, FS_Singleton
      <4> QED BY <3>2, <4>3 DEF SessionInv
    <3> QED BY <3>1, <3>2
  <2> QED BY <2>1, <2>2 DEF NoAssertionFailure, RefcntCountsOpens
<1> QED BY <1>1, TypeCorrect, SingleSessionsSafe, PTL

\* Two tables that differ only at [c][f] are an EXCEPT of one another.
LEMMA TableUpdate ==
  ASSUME NEW S, NEW T, NEW V, NEW F \in [S -> [T -> V]], NEW G \in [S -> [T -> V]],
         NEW c \in S, NEW f \in T,
         \A x \in S, y \in T : x # c \/ y # f => G[x][y] = F[x][y]
  PROVE  G = [F EXCEPT ![c][f] = G[c][f]]
<1> DEFINE H == [F EXCEPT ![c][f] = G[c][f]]
<1>1. H \in [S -> [T -> V]] OBVIOUS
<1>2. \A x \in S, y \in T : H[x][y] = G[x][y] OBVIOUS
<1>3. ASSUME NEW x \in S PROVE H[x] = G[x]
  <2> HIDE DEF H
  <2>1. H[x] \in [T -> V] /\ G[x] \in [T -> V] BY <1>1
  <2> QED BY <1>2, <2>1
<1> HIDE DEF H
<1>4. H = G BY <1>1, <1>3
<1> QED BY <1>4 DEF H

\* The copy client c works on is a session of the abstract specification.
SessType == [fds : SUBSET Fds, data : Nat, dirty : BOOLEAN]

\* With one session at a time the caches are invisible: the simulator
\* implements the file service in which every open asks the server.
THEOREM SessionRefinement == ASSUME ~Nested PROVE Spec => ImplementsSession
<1> DEFINE sessBar == [c \in Clients |-> [f \in Files |-> SessOf(c, f)]]
<1>1. Init => Session!SInit
  <2> SUFFICES ASSUME Init PROVE Session!SInit OBVIOUS
  <2>1. Cardinality(Files) \in Nat BY AFSAssumption, FS_CardinalityType
  <2>2. contents \in [Files -> Nat] BY <2>1 DEF Init
  <2>3. \A c \in Clients, f \in Files : SessOf(c, f) = Session!NoSession
    BY DEF Init, SessOf, OpenOn, Session!NoSession
  <2> QED BY <2>2, <2>3 DEF Session!SInit
<1>2. TypeOK /\ TypeOK' /\ Coherent /\ SessionInv /\ [Next]_vars
        => [Session!SNext]_Session!svars
  <2> SUFFICES ASSUME TypeOK, TypeOK', Coherent, SessionInv, [Next]_vars
               PROVE  Session!SNext \/ UNCHANGED Session!svars
    OBVIOUS
  <2>0a. \A c \in Clients, f \in Files : SessOf(c, f) \in SessType
    BY DEF SessOf, SessType, OpenOn, TypeOK, Entry
  <2>0b. \A c \in Clients, f \in Files : SessOf(c, f)' \in SessType
    BY DEF SessOf, SessType, OpenOn, TypeOK, Entry
  <2>0c. sessBar \in [Clients -> [Files -> SessType]] BY <2>0a
  <2>0d. sessBar' \in [Clients -> [Files -> SessType]] BY <2>0b
  <2>0e. \A c \in Clients, f \in Files : /\ sessBar[c][f] = SessOf(c, f)
                                         /\ sessBar'[c][f] = SessOf(c, f)'
    OBVIOUS
  <2>0. ASSUME NEW c \in Clients, NEW f \in Files,
               \A x \in Clients, g \in Files : x # c \/ g # f => SessOf(x, g)' = SessOf(x, g)
        PROVE  sessBar' = [sessBar EXCEPT ![c][f] = SessOf(c, f)']
    <3>1. \A x \in Clients, g \in Files : x # c \/ g # f => sessBar'[x][g] = sessBar[x][g]
      BY <2>0, <2>0e
    <3>2. sessBar'[c][f] = SessOf(c, f)' BY <2>0e
    <3> HIDE DEF sessBar
    <3> QED BY <2>0c, <2>0d, <3>1, <3>2, TableUpdate
  <2>t. /\ contents \in [Files -> Nat] /\ value \in Nat
        /\ cache \in [Clients -> [Files -> Entry]]
        /\ fdname \in [Clients -> [Fds -> Files \cup {NoFile}]]
        /\ isopen \in [Clients -> SUBSET Fds]
    BY DEF TypeOK
  <2> USE <2>t
  <2>1. ASSUME NEW c \in Clients, NEW f \in Files, NEW fd \in Fds, Open(c, f, fd)
        PROVE  Session!SNext
    <3>1. isopen[c] = {} /\ isopen' = [isopen EXCEPT ![c] = {fd}]
      BY <2>1 DEF Open
    <3>2. \A x \in Clients, g \in Files :
             OpenOn(x, g)' = IF x = c THEN (IF g = f THEN {fd} ELSE {}) ELSE OpenOn(x, g)
      BY <2>1, <3>1 DEF Open, OpenOn
    <3>3. \A g \in Files : OpenOn(c, g) = {} BY <3>1 DEF OpenOn
    <3>4. \A x \in Clients, g \in Files : x # c \/ g # f => cache'[x][g] = cache[x][g]
      BY <2>1 DEF Open
    <3>5. cache'[c][f].data = contents[f] /\ cache'[c][f].dirty = FALSE
      <4>1. CASE HasLocalCopy(c, f)
        <5>1. cache'[c][f] = [cache[c][f] EXCEPT !.refcnt = @ + 1]
          BY <2>1, <4>1 DEF Open
        <5>2. cache[c][f] \in Entry /\ ~cache[c][f].dirty
          BY <3>3 DEF SessionInv
        <5>3. cache[c][f].data = contents[f]
          BY <4>1, <5>2 DEF Coherent, HasLocalCopy
        <5> QED BY <5>1, <5>2, <5>3 DEF Entry
      <4>2. CASE ~HasLocalCopy(c, f)
        BY <2>1, <4>2 DEF Open, Fetched
      <4> QED BY <4>1, <4>2
    <3>6. SessOf(c, f)' = [fds |-> {fd}, data |-> contents[f], dirty |-> FALSE]
      BY <3>2, <3>5 DEF SessOf
    <3>7. \A x \in Clients, g \in Files : x # c \/ g # f => SessOf(x, g)' = SessOf(x, g)
      BY <3>2, <3>3, <3>4 DEF SessOf
    <3>8. sessBar' = [sessBar EXCEPT ![c][f] =
                        [fds |-> {fd}, data |-> contents[f], dirty |-> FALSE]]
      <4>1. sessBar' = [sessBar EXCEPT ![c][f] = SessOf(c, f)'] BY <2>0, <3>7
      <4> HIDE DEF sessBar
      <4> QED BY <3>6, <4>1
    <3>9. sessBar[c][f].fds = {} BY <2>0e, <3>3 DEF SessOf
    <3>10. contents' = contents BY <2>1 DEF Open
    <3>11. Session!SOpen(c, f, fd)
      BY <3>8, <3>9, <3>10 DEF Session!SOpen
    <3> QED BY <3>11 DEF Session!SNext
  <2>2. ASSUME NEW c \in Clients, NEW f \in Files, NEW fd \in Fds, Write(c, f, fd)
        PROVE  Session!SNext
    <3>1. \A x \in Clients, g \in Files : OpenOn(x, g)' = OpenOn(x, g)
      BY <2>2 DEF Write, OpenOn
    <3>2. fd \in OpenOn(c, f) BY <2>2 DEF Write, Lookup, Names, OpenOn
    <3>3. \A x \in Clients, g \in Files : x # c \/ g # f => cache'[x][g] = cache[x][g]
      BY <2>2 DEF Write
    <3>4. cache'[c][f].data = value /\ cache'[c][f].dirty = TRUE
      <4>1. cache'[c][f] = [cache[c][f] EXCEPT !.data = value, !.dirty = TRUE]
        BY <2>2 DEF Write
      <4>2. cache[c][f] \in Entry OBVIOUS
      <4> QED BY <4>1, <4>2 DEF Entry
    <3>5. SessOf(c, f)' = [fds |-> OpenOn(c, f), data |-> value, dirty |-> TRUE]
      BY <3>1, <3>2, <3>4 DEF SessOf
    <3>6. \A x \in Clients, g \in Files : x # c \/ g # f => SessOf(x, g)' = SessOf(x, g)
      BY <3>1, <3>3 DEF SessOf
    <3>7. sessBar' = [sessBar EXCEPT ![c][f] = SessOf(c, f)'] BY <2>0, <3>6
    <3>8. /\ fd \in sessBar[c][f].fds
          /\ sessBar[c][f].fds = OpenOn(c, f)
          /\ sessBar'[c][f].data = value
          /\ value \in Nat
      BY <2>0e, <3>1, <3>2, <3>4 DEF SessOf
    <3>9. sessBar' = [sessBar EXCEPT ![c][f] =
                        [fds |-> sessBar[c][f].fds, data |-> value, dirty |-> TRUE]]
      <4> HIDE DEF sessBar
      <4> QED BY <3>5, <3>7, <3>8
    <3>10. contents' = contents BY <2>2 DEF Write
    <3>11. Session!SWrite(c, f, fd)
      <4> HIDE DEF sessBar
      <4> QED BY <3>8, <3>9, <3>10 DEF Session!SWrite, sessBar
    <3> QED BY <3>11 DEF Session!SNext
  <2>3. ASSUME NEW c \in Clients, NEW f \in Files, NEW fd \in Fds, Close(c, f, fd)
        PROVE  Session!SNext
    <3>1. isopen[c] = {fd} /\ fdname[c][fd] = f
      BY <2>3 DEF Close, Lookup, Names, SessionInv
    <3>2. isopen' = [isopen EXCEPT ![c] = {}] /\ fdname' = fdname
      BY <2>3, <3>1 DEF Close
    <3>3. \A x \in Clients, g \in Files :
             OpenOn(x, g)' = IF x = c THEN {} ELSE OpenOn(x, g)
      BY <3>2 DEF OpenOn
    <3>4. OpenOn(c, f) = {fd} /\ \A g \in Files : g # f => OpenOn(c, g) = {}
      BY <3>1 DEF OpenOn
    <3>5. ASSUME NEW x \in Clients, NEW g \in Files, x # c \/ g # f
          PROVE  /\ cache'[x][g].data = cache[x][g].data
                 /\ cache'[x][g].dirty = cache[x][g].dirty
      <4>1. cache'[x][g] \in {cache[x][g], Invalidated(cache[x][g])}
        BY <2>3, <3>5 DEF Close, CallBack
      <4>2. cache[x][g] \in Entry OBVIOUS
      <4> QED BY <4>1, <4>2 DEF Invalidated, Entry
    <3>6. \A x \in Clients, g \in Files : x # c \/ g # f => SessOf(x, g)' = SessOf(x, g)
      BY <3>3, <3>4, <3>5 DEF SessOf
    <3>7. SessOf(c, f)' = Session!NoSession
      BY <3>3 DEF SessOf, Session!NoSession
    <3>8. sessBar' = [sessBar EXCEPT ![c][f] = Session!NoSession] BY <2>0, <3>6, <3>7
    <3>9. /\ sessBar[c][f].fds = {fd}
          /\ sessBar[c][f].data = cache[c][f].data
          /\ sessBar[c][f].dirty = cache[c][f].dirty
      BY <2>0e, <3>4 DEF SessOf
    <3>10. contents' = IF cache[c][f].dirty THEN [contents EXCEPT ![f] = cache[c][f].data]
                       ELSE contents
      BY <2>3 DEF Close
    <3>11. Session!SClose(c, f, fd)
      BY <3>8, <3>9, <3>10 DEF Session!SClose
    <3> QED BY <3>11 DEF Session!SNext
  <2>4. ASSUME UNCHANGED <<contents, cache, fdname, isopen>>
        PROVE  UNCHANGED Session!svars
    BY <2>4 DEF Session!svars, SessOf, OpenOn
  <2>5. CASE UNCHANGED vars BY <2>4, <2>5 DEF vars
  <2> QED BY <2>1, <2>2, <2>3, <2>4, <2>5 DEF Next, ClientStep, Read, Finish
<1> QED BY <1>1, <1>2, TypeCorrect, CoherenceHolds, SingleSessionsSafe, PTL
        DEF Spec, ImplementsSession, Session!SSpec
=============================================================================
