# A verification project for `life-`

The repository is a reader's working copy of two text books' programs: the
simulators and examples of *Operating Systems: Three Easy Pieces* (OSTEP,
`src/ostep-homework-master`, `src/ostep-code-master`), and the code of *Computer
Systems: A Programmer's Perspective* (CSAPP, `src/code`) with the reader's own
shell lab, finished (`src/CMU-CSAPP-master/shlab`). There is no single program:
there are some forty small systems, of which about twenty keep state for long enough, or
among enough actors, to go wrong in ways a test would hardly reach. Those are
modelled here.

Paths below leave out `src/`; *H* is `ostep-homework-master`, *O* is
`ostep-code-master`.

## 1. Inventory

| Part | State | Operations | What is hard | What makes it right |
|---|---|---|---|---|
| AFS, `H/dist-afs/afs.py` | server contents and callback lists; per client a cache (data, valid, dirty, reference count) and descriptors | open, read, write, close; `put` calls the other clients back | interleaving of clients; invalidation while a file is open | caches coherent; written data reaches the server; the cache is invisible |
| Shell, `CMU-CSAPP-master/shlab/shlab-handout/tsh.c` | job list, next job id | `eval`, `quit`, `bg`, `fg`, `waitfg`; handlers of SIGCHLD, SIGINT, SIGTSTP, SIGQUIT | handlers interrupt the main thread anywhere and share the job list; signals merge; a full list | one foreground job; no entry for a reaped child; no child forgotten; `waitfg` returns |
| Flash device, `H/file-ssd/ssd.py` | page states, block states, forward and reverse maps, cursor | read, write, trim; garbage collection after each command | the collector writes to the log it scans; a full device; stale reverse map | the device is an array of pages; the collector ends |
| Threads: 39 programs in `O/threads-*`, `H/threads-*`, `code/conc` | shared variables, mutexes, condition variables, semaphores | their threads' instructions | every interleaving; spurious wake-ups | no race, no hang, no wrong output, except where the source presents one |
| Log-structured file system, `H/file-lfs/lfs.py` | the log, the inode map in memory, the checkpoint region on the disk | create file or directory, link, write, delete, sync | old versions on the disk; failures half way; two ways to find an inode | a tree of files; the checkpoint leads to the tree as of its last write |
| Very simple file system, `H/file-implementation/vsfs.py`, `H/file-journaling/fsck.py` | inode and data bitmaps, inodes, blocks; the driver's lists and name map | create, link, append, delete; twelve kinds of damage | full disk in the middle of an operation; inode numbers used again | bitmaps, inodes and names agree; damage can be found |
| Malloc package, `code/vm/malloc/mm.c`, `memlib.c` | the words of the heap, the rover | `mm_init`, `mm_malloc`, `mm_free`, `mm_realloc` | boundary tags through any order of frees; the heap's limit | an allocator; contents kept; tags agree |
| Free list, `H/vm-freespace/malloc.py` | list of free chunks, sizes of the allocated | `malloc`, `free`, two drivers | five orders, three policies, coalescing, stale pointers | an allocator; nothing lost |
| MLFQ, `H/cpu-sched-mlfq/mlfq.py` | queues, jobs, pending events | boost, arrival, end of I/O, tick | several of them in one tick | each job in one place; no gaming; all end |
| Process states, `H/cpu-intro/process-run.py`, `H/file-devices/process-run.py` | process table, I/O end times | one tick: end of I/O, execute, switch | end of I/O while another process runs | one runs; never idle with a ready process |
| Multiprocessor, `H/cpu-sched-multi/multi.py` | queues, current jobs, caches warm and warming | interrupt, steal, assign, run, update caches | several processors in one tick; affinity; eviction | each job in one place; affinity; all end |
| Job policies, `H/cpu-sched/scheduler.py`, `H/cpu-sched-lottery/lottery.py` | run list, statistics, tickets | one turn or draw | statistics while the list rotates | shares bounded; all end |
| Fast file system, `H/file-ffs/ffs.py` | inode and data bitmaps per group, counts, inodes, names | create, mkdir, delete, each followed by the program's self-check `do_verify` | placement policies that look at several groups; a search that goes round; counts kept apart from bitmaps | what the self-check lets pass is consistent; commands refused for cause |
| Disk array, `H/file-raid/raid.py` | disk positions and counts of I/Os | a read or write as a list of I/Os; partial writes of a stripe | which blocks must be read first, at every length, start and chunk boundary | no block lost with any one disk; the array is a row of blocks |
| Disk, `H/file-disks/disk.py` | request queue and states, window, arm, angle, clock | a tick; choice of the next request; keys that start and pause | estimates that must come true; late requests; a key in the middle of a request | each request served once; windows kept; time accounted for |
| Thread simulator, `H/threads-locks/x86.py` | memory, registers, condition codes, saved contexts, schedule | load; one instruction; halt, yield, interrupt | halt and interrupt in one turn; codes and registers of the right thread | a machine of threads with registers of their own |
| Process tree, `H/cpu-api/fork.py` | process list, children, parents; the generator's own list | fork, exit with re-parenting | lists changed while they are walked; two records of who is alive | one tree; the generator in step |
| Page replacement, `H/vm-beyondphys-policy/paging-policy.py` | cache, its order, reference counts | one reference; one draw of CLOCK's scan | OPT's search; CLOCK's random scan | the cache is what its policy says; OPT is optimal; the scan ends |
| Address translation, `H/vm-mechanism/relocation.py`, `H/vm-segmentation/segmentation.py`, `H/vm-paging/paging-linear-translate.py`, `H/vm-smalltables/paging-multilevel-translate.py` | registers; page tables, the two-level one inside the memory it maps | draw or check registers; allocate a page; translate | the last frame; a table page beside data; segments that grow down | no two addresses share a byte; a walk finds exactly the pages given |

The remaining parts (`csapp.c`, servers, signal demos, data lab, and the
demonstrations of a page each) are listed in `PROJECT.json` with why they are left
out.

The programs do not call each other. Inside each, the parts interact as follows.
In `afs.py` a client's close calls the server, which calls back the caches of
the other clients before it returns. In `tsh.c` the handlers and the main thread
share the job list, and the kernel carries news between the shell and its
children. In `ssd.py` a command is followed by the collector, which calls the
device's own `write`. The thread programs share variables and synchronization objects.
`mm.c` asks `memlib.c` for memory. In the schedulers the parts share queues. The
loader of `x86.py` hands its processor the instructions, and the processor and the list of threads
hand each other contexts.

## 2. How the modules are arranged

| Theme | Modules | Abstract specification |
|---|---|---|
| AFS | `AFS`, `AFSProofs` | `AFSSession`: a file server without caches |
| Shell | `TshJobs` (job list operators), `Tsh`, `TshProofs` | |
| Storage devices | `SSD`, `RAID`, `MCStorage`, `SSDProofs` | `SSDStore`: an array of pages; `Volume`: a row of blocks |
| Threads | `SyncPrograms` (texts of the programs), `Threads` (the machine that runs them), `MCThreads` | |
| File systems | `LFS`, `VSFS`, `FFS`, `MCLFS`, `MCFiles` | `FileTree`: nodes, names and contents, implemented by all three |
| Virtual memory | `MM`, `FreeSpace`, `PagePolicy`, `PageTables`, `Registers`, `MCMemory`, `MMProofs`, `MemoryProofs` | `Allocator`: disjoint regions in use, implemented by both allocators |
| Schedulers | `MLFQ`, `ProcessRun`, `MultiCPU`, `JobPolicies`, `ForkTree`, `Disk`, `MCSched`, `MCMulti`, `SchedProofs`, `LevelProofs` | |
| Simulated processor | `X86ISA` (loader and instructions), `X86` (threads and interrupts), `X86Programs`, in `MCSched`, `X86Proofs` | `Machine`: threads with registers of their own |

`MCFiles`, `MCStorage`, `MCMemory` and `MCSched` put the programs of one theme side by
side: a variable `package`, chosen in the initial state, says which of them runs,
and the state of the others does not change. They are independent programs that
keep the same promises, so that one property (`ImplementTree`,
`DisksConsistent`, `ImplementAllocator`, `OnePlace`) is stated and checked of all of them. Nothing is
said about programs interacting that do not interact.

### How state and actions correspond to the code

**`AFS`.** One action per micro-operation of `client.step`: `Open`
(`MICRO_OPEN` and `client.getfile`), `Read`, `Write`, `Close` (`MICRO_CLOSE`,
`client.putfile`, `server.put` with its call-backs, and the flush, decref and
removal that follow, in the order of the code), `Finish`. A cache entry is a record, a removed
entry is `Absent`. `value` is the simulator's global counter of written data.
`Nested` says whether a client may hold several descriptors at once: the trace
generator never makes one that does, `-A` can. An assertion that fails sets
`aborted`.

**`Tsh`.** The main thread is a program counter. A step of it is the code between two
points at which an unblocked signal can be delivered and change what is read next.
`sigchld_handler` is entered, reaps one child per step and returns; the other handlers
are one step each. `proc`, `stopNews`, `contNews`, `pending` are the kernel's, and
modelled from how the code uses `waitpid`, `kill`, `sigsuspend` and
`sigprocmask`. Pids are used again after their process is reaped.

**`SSD`.** A physical page is a block and an offset. A command is a step, and the
upkeep that follows it is a sequence of steps in which no command is taken: a
block looked at, a live page copied, a block erased. `direct`, `log` and `ideal`
devices are chosen in the initial state.

**`SyncPrograms`, `Threads`.** A program is a record of the texts of its threads,
with a few instructions (lock, wait, post, branch, compute, ...); each
text is translated from one source file, line by line as far as shared state goes. `Threads` executes
them, one shared access per step. Mutexes, condition variables and semaphores are
modelled from POSIX as the code uses them: a signal may wake any waiter, and a waiter may wake unsignalled.
Undefined behaviour (a race, a release of a mutex that is not held, a pointer not
set) is a property, so that a program that has it is reported and not explored as
if it were defined.

**`LFS`.** `disk` is the sequence of blocks, `inode_map` the one in memory, the
checkpoint region is block 0. Each command is one action (`FileCreate`,
`FileLink`, `FileWrite`, `FileDelete`, `Sync`), with the failures that print an
error and return, and those that end the program. `Map` reads the inode map from memory or,
with `-D`, from the disk.

**`VSFS`.** `ibitmap`, `dbitmap`, `inodes`, `data` as in the code, `files`, `dirs`,
`nameToInum` of the driver, which is shared with `fsck.py`: there a last action
`Corrupt` damages the disk.

**`MM`.** The heap is a function from words to tags, pointers or what the client
stored, so that boundary tags are read and written where the code does;
`NEXT_FIT` is chosen in the initial state. `Malloc`, `Free` and `Realloc` are those of a client that obeys
the interface. **`FreeSpace`** has `freelist` as a sequence of address and size, and the two drivers:
the random one, whose pointers are kept in `p`, and the list one.

**`MLFQ`**, **`ProcessRun`** and **`JobPolicies`** take one turn of the program's
main loop as a step, composed of operators in the order of the code;
**`MultiCPU`** divides a tick into its phases, processor by processor, since they
share the queues. Random choices are any choice.

**`FFS`.** `data_bitmap` and `inode_bitmap` per group, the two counts the program keeps
beside them, inodes and `name_to_inode_map` as in the code. `Mkdir`, `Create` and `Delete`
are the commands; each ends with `Verified`, the self-check, and the assertions and exceptions
that end the program are phases. `AllocateBlocks` is the search for blocks, in its order.

**`RAID`.** The program lists I/Os and holds no data. The model puts one bit behind each disk
block and lets the controller write a parity bit only if the blocks it has read determine it;
otherwise the bit is arbitrary. `Enqueue` is a turn of the main loop, `DoPartialWrite` one
stripe of a write of level 4 or 5. `bmap`, `pmap` and `enqueue` are those of the code.

**`Disk`.** `Animate` is a tick: `Move`, or `Complete` when a transfer ends, with the statistics,
the window and the choice of the next request in the order of the code. `Start` and `Pause` are the keys, between any
two ticks. Angles are whole numbers of a platter of 12 degrees.

**`X86ISA`, `X86`.** `Load` is the loader's two passes, from lines (labels, variables, instructions with
typed arguments) to instructions with addresses; `Execute` gives an instruction's effect. `Step` is one
turn of `cpu.run`: instruction, then a halt's switch, then the interrupt's or the yield's. `X86Programs`
are the programs its READMEs list, and locks, calls and stack programs of the instructions they describe.

**`ForkTree`.** The generator draws actions against a list of its own, then the actions
are carried out on `process_list`, `children` and `parents`; lists keep the order of the code.

**`PagePolicy`**: one reference is a step, except that CLOCK's scan is one step per draw. **`PageTables`**: one page of the
linear table, or one turn of `procAlloc`'s loop, is a step; the two-level table is bytes of `memory`, as in the
code. **`Registers`**: the registers are checked and drawn in the order of the two programs, then every address
is translated.

## 3. What is checked

Twelve runs.

| Run | Shows | Bounds |
|---|---|---|
| `afs_sessions` | `Coherent`, `NoAssertionFailure`; the caches are invisible (`ImplementsSession`) | 2 clients, 1 file, 2 descriptors, 6 operations each |
| `afs_dirty_lost` | finding: `DirtyIsFlushed` fails with nested opens | the same |
| `tsh_safety` | `AtMostOneFG`, `NoReapedJobs`, `ReapIsDue` | 2 slots, 3 pids, job ids to 2 |
| `tsh_waitfg` | finding: `WaitfgReturns` fails | 2 slots, 2 pids |
| `storage_devices` | `MapsConsistent`, `NeverFull`, `ImplementsStore`, `UpkeepProgress` of the flash device; `Redundant` of the disk array | 3 logical pages, 3 blocks of 2, marks 2 and 1, 2 contents; arrays of 2 to 4 disks of 12 blocks, chunks of 1 and 2, 2 requests at 7 starts |
| `ssd_lost` | finding: `ImplementsStore` fails without a spare block (module `SSD` alone) | the same with 2 blocks |
| `sync_programs` | `NoMisuse`, `NoDataRace`, `ResultsSerial`, `Termination` | loops 2, slots 2 (1 for `_1`), one spurious wake-up |
| `file_systems` | `RefuseForCause`, `DisksConsistent`, `CheckpointKept`, `DamageShows`, `ImplementTree` | 4 paths, 2 names to a directory, log of 16 blocks; 4 inodes, 4 data blocks; 2 or 3 groups of 2 or 3 blocks, 4 settings of the policies |
| `lfs_disk` | finding: `RefsMatch` fails with `-D` | the same |
| `virtual_memory` | `HeapsConsistent` of both heaps, `HeldIntact`, `ImplementAllocator`; `CacheKept`, `ReplacementSound` (OPT's optimality and CLOCK's scan); `TranslationSound` | heap of 104 bytes grown by 40, 3 blocks held; 10 units, 4 allocations; all traces of 6 references to 4 pages, caches of 1 to 3; 6 frames of 2 bytes; address spaces of 7 and 8 in memories of 8 to 18 |
| `cpu_schedulers` | `OnePlace`, `RightOneRuns`, `FairShare`, `MachineSound`, `DiskTimesTrue`, `Termination` | 2 or 3 jobs, times up to 5, 2 processors; 2 threads, interrupts every 2 or 3 instructions or at random, 2 schedules; 5 processes, 4 drawn actions or 3 lists; 12 degrees, 3 tracks, up to 4 requests and 2 late ones, 2 starts, 1 pause |
| `multi_stolen` | finding: `AffinityKept` fails with `-p` | 3 jobs, 2 processors |

Each run also checks one type invariant.

Why the bounds are enough for what the runs ask:

- *AFS.* A stale copy needs two clients; a re-fetch over unflushed data needs two
  descriptors and five operations. Files do not share state, and the descriptors of
  different files meet only in the cache, entry by entry.
- *Shell.* Two slots and three children make the list full and pids be used
  again; two job ids make them wrap in the model. More jobs repeat the same
  search of the list.
- *Flash.* Three blocks of two pages fill up, collect, and collect again while the cursor
  is in the block that was erased last. The device is safe when the
  high mark is at most the number of blocks and the logical pages fit in all blocks but one;
  the passing run is inside this limit, the failing one outside it.
- *Threads.* Two turns of a loop show what one turn leaves for the next; buffers are
  filled and wrapped. The programs with one slot are those whose sources discuss it. `vector-try-wait.c` runs with and without
  `-d`; its failed tries are counted up to 2 (`RETRIES`), since the number is only printed.
- *File systems.* Two names to a directory (with `.` and `..`: the first block full, then the second)
  and four inodes reach both "no room" cases; two chunks of the inode map are needed for the finding.
- *Fast file system.* Two groups make the search for blocks go round and the near
  groups be tried on both sides; with three blocks to a group `do_delete`'s divisor is wrong, with two it is right. In
  every geometry of the run a group has as many inodes as there are groups (the default has 10 and 10).
- *Disk array.* Writes of 1 to 4 blocks begin at every block of a stripe, stay inside it, fill it
  and cross into the next; chunks end inside them; mirrors are read at even and odd offsets.
- *Page replacement.* Six references over four pages make caches of three overflow twice; names of pages
  are never compared, so traces are taken up to renaming.
- *Translation.* Six frames run out for the page, for its table page, and not at all; an odd address space tests the
  halves of segmentation.
- *Simulated processor.* A turn of 2 or 3 instructions cuts every lock program at every instruction;
  `-r` makes it any turn.
- *Disk.* The real one has 360 degrees and tracks 40 wide; nothing in the code depends on the size but the number of
  blocks. Zones of 2, 3 and 4 degrees give tracks of different lengths (an odd zone is rounded down).
- *Allocators.* The smallest heap that has splits, merges on both sides, a growth
  and a refused growth.
- *Schedulers.* Three jobs are a running one, a waiting one and one doing I/O. On the processors of `multi.py`
  working sets of 2, 3 and 5 meet in caches of 4: two that do not fit together, and one that fits in no cache although its job gets warm there
  (with warm-up times of 0, 1 and 2, and runs of 2 and 4 ticks).

### Fairness

- `AFS`: weak fairness of each client. The schedule names every client
  (`afs.py` refuses one that does not) and repeats. No property of `AFS` needs it: that action lists
  of bounded length end says nothing of the protocol, and is not checked.
- `Tsh` (`FairSpec`, for `WaitfgReturns` only): the main thread and a running handler go on;
  SIGCHLD is delivered, with strong fairness since it is blocked now and then. Nothing is assumed of the
  user, nor of children that run.
- `Threads`: weak fairness of each thread: POSIX threads are preempted. No
  fairness among those waiting for one mutex is assumed.
- The schedulers, `x86.py`, `fork.py` and `disk.py`: their one loop goes on, and a request a paused disk holds is not
  said to be served. The random interrupts of `x86.py -r` need no fairness: a turn is at most `-i` instructions.
- The others have no liveness property; `UpkeepProgress` is an action property
  with a decreasing measure.

### Findings

Five runs end in a counterexample to what a comment or a README says; each is
explained in `PROJECT.json`:

1. `afs.py:408`: an open of a file that is open and was invalidated overwrites
   unflushed data and its reference count.
2. `tsh.c:388`: `waitfg` tests, then suspends: a SIGCHLD between the two is
   lost, and the shell hangs.
3. `ssd.py:268`: the collector ignores a refused copy and erases the page.
4. `lfs.py:552`: a link does not write the chunk of the inode map that holds the
   linked inode.
5. `multi.py:356`: stealing looks for the processor's number in the whole job record, not in
   its affinity list.

Other things met while modelling, that no run reports:

- `tsh.c:366-375`: `do_bgfg` holds a pointer to a slot while a handler may clear
  it; it then writes a state into an empty slot. `AtMostOneFG` and `NoReapedJobs` hold nevertheless.
  `tsh.c:218`: a child that finds no slot runs unlisted, and nobody waits for it in the foreground.
- `ssd.py`: `dump` divides by zero on a device of fewer than seven pages.
- `lfs.py:370`: the type test looks at the wrong inode, so that its message cannot
  be printed and the program ends instead. A file named `-` is taken for an empty entry. With `-D -N`
  updates are lost by design.
- `fsck.py:433`: the file deleted is always the oldest; a renamed entry (kind 7)
  may leave a disk on which nothing is wrong.
- `ffs.py:290`: in the default geometry (10 groups of 30 blocks) a delete divides a block's number by the number of
  groups, frees other files' blocks and ends in the self-check's assertion. `-A 2` may pick a group without a free inode. There are 79 symbols
  for 100 inodes; a file of size 0 fails an assertion. With groups of another number of inodes than there are groups, `do_verify` can
  pass although inodes of other files were freed; these geometries are left out.
- `x86.py`: with `-P`, a halt consumes an entry of the schedule (the switch and then the interrupt). `push` of a memory operand
  pushes its address, where its README says it pushes the value in memory. `xchg` and `fetchadd` ignore the scale of an operand. `assert(tmp[0] not in self.vars)` tests the word `.var`.
- `disk.py`: the estimate is a full turn short if the block starts right under the resting head. `-A 0,-1,0` with late requests
  never serves them; random requests reach only the first block of the inner track. A second press of `s` abandons the request at hand with the
  arm under way, loses its time, and may move BSATF's window twice. `WindowKept`
  therefore speaks of BSATF's batches only if `s` is pressed once.
- `paging-policy.py`: a cache of 0 pages ends in an exception; with 0 clock bits a new page still gets one reference.
- `segmentation.py`: registers given by hand are checked less than drawn ones: a segment one byte too high and an overlap from below pass.
  `paging-linear-translate.py -A` beyond the address space is an `IndexError`.
- `fork.py -A` with a child's name used twice is carried out without a word and the tree is one no longer.
- `mm.c:129`: `mm_malloc` ignores that `mm_init` failed.
- `malloc.py`: the list driver given `+0` twice fails an assertion; a free of an allocation that failed
  is a `KeyError`, or skips a later free.
- `mlfq.py -S`: a job that issues I/O on the last tick of its slice is still moved down, though
  the help text (`mlfq.py:71-73`) says it stays.
- `multi.py:53-58`: the comment on `cache_contents` lets a job whose working set exceeds the cache stay there alone.
  The loop of `adjust_size` (`multi.py:89`) does not stop at the last job: it puts out all the others and then the job itself, and leaves the
  cache empty. `OnePlace` says what the comment and the code agree on: several jobs are warm in one cache only if they fit together.
  With `-p` and one processor, `random.choice([])` fails.
- `file-devices/process-run.py -L 0` never ends: the end of the I/O is set in the past. `lottery.py` with no ticket divides by
  zero.
- `pc_single_cv.c` hangs only with more consumers than slots, and `vector-try-wait.c` can retry for ever.
  It counts its failed tries in a global (`retry++`, line 20) under the lock of `v_dst` alone. With `-d` the two threads hold different locks
  there: a data race, which can lose a count and is undefined in C. No comment claims the contrary. `NoDataRace` allows this
  program a race on `retry` (`Unguarded`), not on the vectors, and allows none without `-d`.

## 4. What is proved

Eight modules of proofs, each about the module it extends and for every value of the constants that
the named assumption admits. A theorem is the usual three facts (initial states, steps, and a temporal step
by `PTL`), with one step of the proof per action. `PROJECT.json` lists the theorems; here is what each rests on.

**`AFSProofs`**: any finite set of clients and files, any descriptors, any length of
the action lists (`AFSAssumption`).

- `TypeCorrect`: `Spec => []TypeOK`.
- `CoherenceHolds`: `Spec => [](CallbackPromise /\ Coherent)`, nested opens
  included. `Coherent` (a valid clean copy equals the server's) is not inductive: a `put`
  invalidates only the copies whose client is on a callback list. `CallbackPromise` (who holds a copy
  is on the list) closes the gap; it holds because the lists only grow (`afs.py:133` is commented out).
- `SessionProperties`: with one session at a time no assertion fails
  (`NoAssertionFailure`, which `afs_sessions` checks) and reference counts count open
  descriptors. It rests on `SingleSessionsSafe`, whose invariant `SessionInv`
  says that a client has at most one descriptor open, that its file is cached with one
  reference, and that any other copy is clean and unreferenced. Nested opens break it, as
  `afs_dirty_lost` shows.
- `SessionRefinement`: `AFS` implements `AFSSession` (`ImplementsSession`). An open
  fetches what a server without caches would answer, because of `Coherent`;
  steps of different clients change different sessions (`TableUpdate`).

**`TshProofs`**: any number of job slots, any pids (`TshJobsAssumption`), any bound on the job ids.

- `TshTypeCorrect`: `Spec => []TypeOK`.
- `ListSound`: `NoReapedJobs`, and no pid is listed twice. Neither is inductive: between `fork` and `addjob` the
  child is in no slot, and its pid must not be in one already (`ForkedUnlisted`, which holds because SIGCHLD is
  blocked there).
- `ForegroundSound`: `AtMostOneFG`. `ForegroundInv` says what the main thread relies on at each program counter:
  at the prompt and while it starts or continues a job no entry is in the foreground; in `waitfg` such an entry can only be
  the one it waits for, although the handlers may have cleared or stopped it since.
- `ReapingSound`: `ReapIsDue`, which is inductive with the types: every child that has news for the shell finds SIGCHLD made pending,
  and the handler leaves its loop only when there is nothing to report.

That `waitfg` returns is false of the code (`tsh_waitfg`).

**`SSDProofs`**: any geometry, water marks and contents (`SSDAssumption`: positive sizes, contents that are none of the
program's own answers, and room for the logical pages on the identity-mapped devices).

- `SSDTypeCorrect`, `CursorSound`: from `FlashInv`. The pages from the cursor to the end of its block are erased, a block is in use from its
  opening to its erasure, one whose first page is not programmed has none that is, and pages never written have no owner.
- `MapsSound`: `MapsConsistent` as long as no copy of a live page was refused. `MapInv` adds what holds in the middle of a
  collection: every mapped page of the scanned block is still among those to copy.
- `StoreRefinement`: under the same proviso the device implements `SSDStore`.
- `CollectorEnds`: `UpkeepProgress`, always.
- `NeverRefused`, `MapsAlwaysSound`, `StoreAlwaysRefined`: the proviso is discharged (`NeverFull`) for devices with
  `RoomEnough`: the high mark below the number of blocks, the low one two below, and four blocks more than the logical pages fill, for instance 12 blocks of 10 pages, 50
  logical pages and marks of 10 and 8. `RoomInv` counts blocks: two are free at each command, and whatever the scan leaves
  behind is full of live pages, but for two. The bound is sufficient, not necessary. `ssd.py`'s own defaults (7 blocks, a high mark of 10, so that it
  never collects) are outside it, and so is the small device of `storage_devices`, for which TLC shows the three properties
  directly.

**`MMProofs`**: heaps of any size, chunks of any size, any sizes asked for and any number of pointers held, first fit and
next fit (`MMAssumption`: heap and chunk are multiples of 8, of at least 16 bytes, as `memlib.c`'s and `mm.c`'s constants are;
sizes asked for are positive).

- The invariant (`IInv`) says that the words of the heap are the picture of a division into blocks:
  there are a set of addresses `B`, sizes and allocated bits (`Layout`) such that each block ends where another begins or at the break, both its tags hold its
  size and bit, no two free blocks are neighbours and the rover is on a block (`Is`); and the client's pointers are exactly the allocated blocks, each
  with room and with its marks in place (`Holds`). None of the properties is inductive alone: what a merge reads left of a block
  is right only if the footer there belongs to a block that ends there.
- Three lemmas say what writing two tags does to a layout, whatever the function that writes them: blocks
  become one (`Retag`), one becomes two (`Cut`), the heap gets one more (`Grow`). `CoalesceGood`, `ExtendGood`, `PlaceGood`, `FitGood`,
  `MallocGood`, `FreeGood` and `ReallocMoves` follow the functions of `mm.c`, and say of each which allocated blocks are left and that their contents are.
- `BlocksAre`: following the headers from the prologue finds exactly `B`. It is what makes `Blocks`, a recursive function, usable
  in the theorems.
- `TypeCorrect`, `HeapSound` (`HeapConsistent`), `ClientServed` (`HeldIntact`: the client holds exactly the allocated blocks, from
  `NothingLost`, and finds in them what it stored, from `MarksStay`), and `AllocatorImplemented`: `MM` implements `Allocator`, where a call of `realloc` takes the new region before it gives the old one back.

**`MemoryProofs`, the allocators**: `HeapsSound` (`HeapsConsistent`) and `BothImplemented` (`ImplementAllocator`) of the whole of `MCMemory`: what
`MMProofs` shows of `mm.c`, and the same of `malloc.py`, for a heap of any size and start, every policy, order, alignment, header, driver
and number of calls (`ListAssumption`). A chunk of no bytes is excluded (`\A n, o : n + o.headerSize > 0`): two of them at one address would be one
entry of `sizemap`, which is how `-A +0,+0` fails without a header (section 3).

- `TileInv`: every address of the heap is in exactly one chunk, free or allocated. The properties speak of sums and spans of sets; the
  invariant counts nothing and speaks of single addresses, so that each change of the list has to be looked at where it
  happens: a chunk split in two, taken out, put back, or joined with its neighbour (`Covers`, `Single`).
- Sorting. `Sorted` puts each chunk at its `Place`, the number of chunks that belong no later. `PlacesOrdered` and `SortedIs` show that the
  places are a permutation, by counting (an injection of a finite set into itself is onto), and that what is sorted by address ascends.
- `Coalesced` is a pass over the list by a recursive function. `PassInv` says what it has after k chunks: the same addresses as
  these k, in order, with a gap before each chunk if the list ascends. Only then does one pass merge everything: a list in another order
  stays a tiling, and may keep neighbours.
- `ListInv` adds that a list by address ascends though `malloc` does not sort, since a split keeps order, and that it is fully merged with `-C`.

**`MemoryProofs`, the rest of `MCMemory`**: `TranslationHolds` (`TranslationSound`), for any sizes of machine, page and table and any
registers (`TranslationAssumption`: they are numbers, or -1 for registers to be drawn); `CacheHolds` (`CacheKept`), for any references,
cache size of at least 1 (`ReplacementAssumption`: a cache of 0 pages ends in an exception), clock bits and policy; and `MemoryTyped`
(`MemoryTypeOK`).

- Linear tables: the frames in use are those in the table, each in one entry (`LinearInv`).
- The two-level table lies in the memory it maps. `MultiInv` says that the directory, the table pages and the data pages are different frames, that
  each table page holds what the process was given and markers otherwise, and (`Accounted`) how many frames there are of each kind, from which the
  assertions fail only when the frames have run out.
- Registers: what is known of lengths and bases at each stage of drawing and checking them (`RegistersInv`).
- The cache: `CacheInv` says that the list holds no page twice and `count` of them, that CLOCK counts references of these alone, and, while its scan
  is under way, that the cache is full and the page is not in it. `OrderInv` relates the list to the past (`LastOf`, the last use of a page
  in the references so far): LRU's and MRU's list is in the order of last use, and LRU's holds the pages used last. A page is taken from the middle of the list and
  put at its end (`Requeued`), or at the end for a victim.
- `MemoryTyped` corrected the model once: a length given to `relocation.py` may exceed the address space, which
  the type invariant had excluded.

**`X86Proofs`**: any program, threads, schedule and interrupts (`OptionsWellFormed`: argument lists and schedules are
finite sequences, schedules of numbers).

- `LiveOneSound`: who runs has not halted, unless all have. A halt and an interrupt in one turn switch twice; each switch
  looks along the schedule for a live thread and there is one (`XInv`).
- `MachineRefined`: `X86` implements `Machine`, whose threads have registers of their own: what the
  switches save and restore shows each thread its own context (`ContextIsSeen`). In `Machine` a thread that has halted has the context `Halted`.

`MachineSound` of the run `cpu_schedulers` is a conjunction over `x86.py` and the results of its programs; the theorem states the first part.

**`SchedProofs`**: `RightOneHolds` (`RightOneRuns`) of the whole of `MCSched`: `process-run.py`, `multi.py` and, with `X86Proofs`
instantiated, `x86.py`; and `ProcessesSound`, `process-run.py`'s conjuncts of `SchedTypeOK` and `OnePlace`. They are about any programs, workloads, options and numbers of
processors, of which `MCSched` assumes: an I/O ends in a later tick than the one it starts in
(`ProcessAssumption`), processors are numbered from 0 (`MultiAssumption`), `X86Assumption` is `OptionsWellFormed`, and
no job's run time or working set is the number of a processor that the job may not run on
(`NumbersApart`): `steal_jobs` would mistake the one for the other, which is the finding of `multi_stolen`.

- `ProcInv`: only the current process runs, a process is blocked if and only if it waits for one end of I/O in a later tick, who is done has no
  instruction left and no assertion has failed (`Base`). With this, the processor is busy if a process is ready (`Busy`, SWITCH_ON_IO),
  or the processes before the current one are done and those after it wait for it (`InTurn`, SWITCH_ON_END, where `next_proc`'s search, which goes round, must find the next one by
  number). Both are broken and mended within a tick; one lemma for each procedure says what it needs and leaves
  (`MoveIs`, `RunIs`, `NextKeeps`, `CheckKeeps`, `IoDoneKeeps`, `InterruptedKeeps`, `BlockedKeeps`).
- `MultiInv`: with `-p` a queue holds only jobs that may run on its processor. It goes along the dealing of jobs to the queues,
  the interrupts that put running jobs back, and stealing, where `NumbersApart` is needed.
- The loops over processes and processors are recursive functions; `Solvable` shows that they exist.

**`LevelProofs`**: `LevelsSound`, `mlfq.py`'s conjuncts of `SchedTypeOK`, `OnePlace` and `FairShare` (`TypeOK`, `OnePlace` and `NoGaming` of `MLFQ`), for any
workload, numbers of queues, slices, allotments and times of boost and I/O. `MLFQAssumption` asks that slices and jobs have at least one tick (a slice of 0 would never be used up, a job of
0 ticks would run below 0), that nothing starts before time 0, and that allotments are positive above the lowest queue, which the code checks of a list (`mlfq.py:115`).

- `LevelsAre`: some jobs, `W`, wait for an event, one each (`Awaits`); each queue lists the other jobs with time left whose priority it is,
  each once (`Lists`). An arrival takes a job out of `W` (`ArriveShelves`), a boost collects what the queues list (`CollectedLists`), and the job that has run is put into one
  queue, into `W`, or nowhere (`RunShelves`).
- `Within` makes `NoGaming` inductive: what a job has run at its priority, with the slices of the allotment it has left and the rest of this slice,
  is at most the whole allotment. A tick moves one from the last term to the first, the end of a slice a slice from the second to the last (`TickIs`); an I/O changes none of them.
- Arrivals, collecting and loading are recursive functions; `Loop` gives each of them its values, step by step.

**Induction.** The library's induction theorems are out of the provers' reach. Where a proof needs one over numbers (the first
free slot of `addjob`, the switch that goes along the schedule, the walk along the headers of the heap and the pass of coalescing, whose
recursive functions must first be shown to exist) it takes the least number of a set of counterexamples
(`LeastNumber`, `Least`, `Climb`, from `WFMin` and `NatLessThanWellFounded`).

**Only model-checked.**

- Liveness (`Termination`, `WaitfgReturns`): neither fairness nor `ENABLED` is in the prover's reach.
- What folds and recursive definitions over sequences, trees and sets compute: `Walk` of `LFS`, the parity of `RAID`, the queues of
  `MultiCPU`, `OptimalIsBest` (the least number of misses over all choices of victims, a recursion), `ScanNearer` (a sum by a fold), `ResultsAllowed`. `FFS` has a `RECURSIVE` operator and no module with a theorem may reach it.
- `NoMisuse`, `NoDataRace` and `ResultsSerial` of `Threads`: facts about each of the 39 texts, which a run explores completely and a proof
  would have to repeat text by text.
- The file systems, `RAID`, `Disk`, `JobPolicies` and `ForkTree`: not yet (section 6).

## 5. What is not modelled

Beside the parts listed as not modelled in `PROJECT.json`: printing, tracing, answers hidden or shown, parsing of options,
random workloads (any workload of the bounded sets instead), statistics that nothing
reads, overflow of sizes near the width of `size_t`. `main-two-cvs-while-extra-unlock.c` and
`main-signal.c` have data races that leave no property to state. `multi.py -p` with one
processor, jobs of length 0 or without tickets, `-L 0`, tracks of one block (`disk.py`), caches of 0 pages and
programs that write over their own code (`x86.py`) fail or never end in the code and are outside the
constants. `threads-intro/x86.py`, `disk-precise.py` and `raid-graphics.py` are near copies of modelled programs with other
output, and are not modelled a second time. `generator.py`, `checksum.py`, the servers and the signal demos keep no
state over which an order of steps could matter, or only one that `Tsh` and `Threads` have.

## 6. Plan

1. *Theorems, in order.* `RAID`'s mappings: two blocks of the array never share a place, and none is on the disk of its
   parity. `Threads`: a mutex has one owner and only its owner releases it, for any program. `ForkTree`: one tree. `OnePlace` of `MultiCPU`, as far as
   its folds allow.
2. *Further modules, if wanted.* The select server's pool (`echoservers.c`) and robust I/O over short counts (`csapp.c`).
