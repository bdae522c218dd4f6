# LinBox: a TLA+ verification project

LinBox runs an unmodified program in a box whose time and randomness a
controller decides. This directory models the parts of it that exist in `src/`:
the shared memory both sides use, the control protocol, the controller's event
loop, and the shim library inside each process and in those it starts. TLC checks small instances; TLAPS
proves the safety properties of all of them for every instance.

Source paths below are relative to the repository's `src/` directory.

## 1. The system

| Component | State | Operations | Talks to |
|---|---|---|---|
| Virtual clock in shared memory (`common/shm.c`, `controller/time-manager.c`) | `time_seq`, `virtual_time`, the time manager's `current` | `write_time`, `read_time`, `tick`, `set_time` | written by the controller, read by every shim without a lock |
| Shared memory object (`common/shm.c`, start and end of `controller/main.c`) | the name, the object it names, who has it mapped | create, attach, detach, destroy | created by a controller, attached by later controllers and by shims |
| Controller loop (`controller/main.c`) | `client_fds`, `pfds`, `g_stop`, `last_tick`, process slots | poll, accept, scan, message handlers, acknowledgement, tick, reap, shutdown | sockets of all processes, shared memory, signals |
| Shim connection (`shim/linbox.c`, `shim/process.c`) | `controller_fd`, `controller_connected`, `initialized` | connect, HELLO, REGISTER_PROCESS, fork, fall back | the controller's socket |
| SBP (`common/sbp.c`) | none | encode, decode, serialize, deserialize | used by both sides on what one `read` returned |
| Randomness (`shim/linbox.c`, `shim/random.c`, `shim/prng.c`) | `shared_seed`, `effective_seed`, `prng`, `g_rand_seeded`, 16 virtual descriptors | `getrandom` and its relatives, `rand`, `srand`, SET_SEED, fork | the seed in shared memory |
| Process creation (`shim/process.c`) | none of its own | fork, clone, exec, spawn; environment injection | shim connection, randomness |
| Direct system calls (`shim/seccomp.c`, `sigsys.c`, `syscall-wrap.c`) | the filter, the handler | trap, dispatch | clock and randomness |
| Symbol resolution (`shim/resolve.h`) | `resolving` | `dlsym` once per function | every wrapper |
| Clock functions (`shim/time.c`) | none | unit conversions of the virtual time | the virtual clock |

`proxy/` and `ebpf/` are empty at this commit.

What is hard here:

- *Interleaving.* The clock is read without a lock, word by word, by any number of
  processes; a 32-bit counter guards it. The seed is loaded several times during
  one `rand()`.
- *Crashes.* A controller can be killed between any two stores, and the object in
  shared memory outlives it. The next controller takes the object as it finds it.
- *Two writers.* Nothing prevents a second controller.
- *Stale state.* The event loop looks at the entry of `pfds` at a client's index,
  which is not always the entry `poll` filled for that client, and never clears
  the array.
- *Self-interception.* The shim is subject to its own seccomp filter: two of its
  functions issue system calls that trap, and the handler calls those functions. A
  child and a new program keep the filter, but not all of what makes it harmless.
- *Generations.* What a process is depends on how it was started, by a process that
  was started in its turn: filter, handler, environment, flags, descriptors.
- *Partial failure.* Any allocation can fail, `sigaction` and `prctl` can. Either side may be gone when the other one writes; neither
  side ignores SIGPIPE.
- *Limits.* 64 clients, 64 slots, one frame per read, 64-bit nanoseconds. (`S05`
  `T01-fork-clone/task.md:37` wants "100 rapid forks → all children registered": with
  64 slots that holds only as far as earlier children have ended, and
  `RegisteredOrFull` says exactly that.)
- *Waiting.* The shim waits for the controller's answer without a timeout, and the
  controller for a client whose events it has mistaken.

What makes each component correct:

- clock: a read is whole and current; two reads in a row are in order; a read
  is held up by writes only; a tick adds exactly what passed;
- object: whoever attaches finds a clock; an orderly end leaves nothing
  behind;
- loop: the client table agrees with the open sockets; no process has two slots or
  loses the one it has while it lives; every client is answered; time is neither
  lost nor counted twice; a signal ends the loop;
- connection: neither side can end the other;
- protocol: one frame, one meaning; a part of a frame is never a message;
- randomness: processes have streams of their own; `srand` stays in force; a new
  seed arrives; the descriptors of `/dev/urandom` and the kernel's stay apart;
- system calls: no route to the clock leads around the shim; a call is trapped at
  most once; what the shim installs does not kill the program; a call returns;
- clock functions: all of them say the same time, each in its unit, and none goes back;
- process creation: no chain of programs loses the box or its settings; nothing
  allocated on the way is leaked.

## 2. The modules

| Module | Models |
|---|---|
| `Timespec` | `ns_add`, with C's truncating `/` and `%` and 64-bit wrap-around |
| `AtomicClock` | what the clock promises: one indivisible write, one indivisible read |
| `Seqlock` | `write_time` and `read_time` access by access; one writer, any readers |
| `TimespecProofs`, `SeqlockProofs` | lemmas about the arithmetic, and the theorems about `Seqlock` |
| `ShmLifecycle` | the shared memory object across controllers that start, stop, overlap and are killed |
| `ShmLifecycleProofs` | the theorems about `ShmLifecycle` |
| `Sockets` | the AF_UNIX stream sockets as the code uses them (external: the kernel) |
| `Controller` | the event loop of `main.c` |
| `ShimConnection` | how a process connects, says HELLO, registers and leaves |
| `Registry` | what the process slots promise: a set of registered processes |
| `Box` | `Controller` and `ShimConnection` composed over `Sockets` |
| `BoxProofs` | the theorems about `Box` |
| `Sbp` | the wire format, and a stream of frames cut by reads |
| `SbpProofs` | the theorems about `Sbp` |
| `ShimRandom` | seeds, generators and the libc functions that draw from them |
| `ShimRandomProofs` | the theorems about `ShimRandom` |
| `ClockFunctions` | the unit conversions of `time.c` |
| `SyscallTrap` | the routes of a call for time or randomness: wrappers, `syscall()`, filter and SIGSYS handler, initialisation, fallback, symbol lookup |
| `EnvInjection` | `linbox_inject_runtime_env` and the exec and spawn wrappers, allocation by allocation |
| `VirtualFds` | the descriptors for `/dev/urandom` |
| `Process` | `SyscallTrap`, `EnvInjection` and `VirtualFds` composed: one process and its descendants |
| `ProcessProofs`, `ProcessCallProofs` | the theorems about `Process`: descriptors and environments; calls and the clock |
| `MC*` | small instances for TLC |

Names follow the code (`ns_add`, `register_process`, `seq1`, `client_fds`, `g_stop`).
`PROJECT.json` maps every definition to its lines. A definition whose comment
begins with "Mutant" is not part of the model: it is a plausible wrong version of
the definition after it, and the property listed with it in `PROJECT.json` fails
when it takes that definition's place.

### How the code becomes steps

**Seqlock.** Each load or store of `time_seq`, and each word of the `timespec`, is a
step. The words are copied in either order. The compiled code of the project
(x86-64, gcc) keeps the program order of these accesses and x86-64 keeps stores in
order and loads in order, so interleaving is what a reader can see. On a weaker
architecture the release store of `shm.c:139` would not keep the plain stores of
line 141 behind it; this is not modelled. The history variables `published`,
`stores` and `rstores` record the time of the last finished write and how often
the counter was stored to; no step of the code depends on them.

**ShmLifecycle.** A name and the object it stands for are separate, as in the file
system: unlinking the name leaves the object to those who mapped it. A time is
abstracted to the number of the write its words come from. `Crash` is SIGKILL at
any point. `Overlap` says whether a controller may be started while another one
runs. Two history variables say what has happened: `overlapped`, that two controllers
ran at once, and `cut`, that one was killed between the two stores of a write.

**Controller and Box.** One action per decision of the loop; processes step in
between. `revents` keeps, for every index, what the last `poll` that covered it
wrote, since `pfds` stays in the frame of `main` and is not cleared; before any
`poll` has written an entry it holds one of the values in `Garbage`. The read of a
message and the write of its answer are two steps, so that a client can die in
between. The reaping is one step for each slot, so that a process can end, and another
one start, between the `kill` for its own slot and the end of the loop: the dead one
stays registered until the next reaping. `write_time` is one step here, which the refinement of `Seqlock` justifies.
A process that ends is waited for at once (no zombies), and its pid is not used
again while the controller still has its old connection. `Foreign` are processes of
another user, for which `kill` fails with EPERM. A *tool* is a client that sends
SET_TIME, SET_SEED or anything else: the repository contains none, but the
controller serves it. `Roles` says what each process may be.

**Sbp.** A byte has `BYTE` values, 8 in the run and 256 in the code; fields keep their
number of bytes. The loops of `read_le64` and `write_le64` are written as a low and a
high half, so that no definition is recursive. The stream is read once; what is read
may then be changed in one byte.

**ShimRandom.** How a seed and a pid are mixed is the constant `Mix`. Of it only what
`splitmix64(seed ^ (pid << 32 | pid))` guarantees is assumed (`MixAssumption`): one seed
and two pids give two values. With different seeds two pids may well give the same
value, and the low halves that seed `rand()` may coincide; the run uses XOR on words of
four bits, where both happen. The generator is symbolic: its seed and the number of
words drawn. `splitmix64` is a bijection, so two seeds are two states, except that the
seed whose state would be 0 shares the state of another one (`prng.c:20-22`). The
xorshift goes through all states in one cycle, so two streams are two places in one
long sequence; that they do not run into each other is a matter of chance that is not
modelled. `out` and `past` keep the streams of the living processes and of those that
ended apart. Processes have one thread.

**Process.** One lineage of processes: at a fork or a spawn the model follows the
child, at an exec the new program, without a bound on generations. (The parent goes
on as it was.) The calls in progress are a stack of frames, innermost first. A frame
records the function, how it was reached (libc, `syscall()`, trap) and how far it is:
before `linbox_init_state`, between its trapped system call and its connection,
initialised, or in the fallback. `STACK_FRAMES` stands for the size of the stack: a
trap that finds it full is SIGSEGV, a trap without a handler is SIGSYS. If nobody
listens the shim goes on without a controller at once (`InitFails`); else it waits
(`InitWaits`) until the controller answers, closes the connection or ends
(`HandshakeEnds`, which is not a step of the shim). Whether the handshake then succeeded
is a free choice here; how it goes is `ShimConnection`. System calls by number include
two, `times` and `clock_getres`, that neither `syscall()` nor the filter knows. The real `clock_gettime` is taken not to enter the kernel (vDSO), as
on x86-64 Linux; that it never traps depends on it.

The environment is a function from the four names the code injects to abstract values,
with "unset", the empty value and the two values of `LINBOX_DISABLE_SECCOMP` told
apart, because the code does. `heap` is the set of blocks the wrappers own; each
allocation is a step that can fail. `touched` records which names a program bound or
unset itself, after which the box no longer answers for them. Descriptors are
numbers; the kernel gives its lowest free one.

`does` says which of its three unrelated activities a lineage of programs engages in
(asking for time, changing environments, opening files), so that TLC does not
multiply them; starting programs is common to all. `known` and `back` are the history
that `NeverBack` needs: a value of a clock function tells the program that at least so
many nanoseconds have passed, and the next one must not exclude that. The product in
`clock()` overflows `int64_t` at all but the first 106 days after 1970, which C leaves
undefined. The model gives it both results that builds of this project have: the right
one (`-O0` and `-O2` cancel the factors) and the wrapped one (the ASAN build, where
`clock()` goes back). `NeverBack` is about all other answers; the undefined ones are
neither believed nor held against `clock()`.

`Box` and `ShimRandom` describe children and programs without the filter: with it,
`process_runs` shows, a child does not get as far as registering.

**Registry.** `Box` instantiates it with the set of pids in the slots; the order of
the slots, and which one a pid gets, are hidden.

## 3. The runs

Every bound is a CONSTANT (`MAX_...`, `SLOT_COUNT`, `STACK_FRAMES`, `FD_COUNT`), or the size
of a set in the MC module.

| Run | States | Shows |
|---|---|---|
| `seqlock_wrap` | 768 thousand | `TypeOK`, `NoTornRead`, `EvenMeansStable`, with a 2-bit counter that wraps twice, so that a reader can be overtaken by whole cycles; `TickAddsExactly`, from unnormalised and negative times, with a 5-bit integer that overflows |
| `seqlock_atomic` | 96 thousand | `ImplementsAtomicClock`, `ReadsMonotone` (also across time 0) and `ReadsReturnUnlessWritten`, two readers, no SET_TIME and fewer writes than a cycle of the counter |
| `box_table` | 3.3 million | `TypeOK`, `ClientTableSound`, `SlotsUnique`, `RegisteredOrFull`, `ImplementsRegistry` (a slot is given by a registration and taken only from a dead process, however deaths and reaping interleave): two children and a foreign tool, two slots, frames that are rejected |
| `box_live` | 317 thousand | `AnswerOwed`, `TimeAccounted`, `ClientsAnswered`, `StopsOnSignal`: a child, and a tool that sends any number of commands, stray POLLIN in uninitialised memory |
| `shm_crash` | 870 thousand | `TypeOK`, `ClockSoundUnlessCut`, `ReadsCurrent`, `AttachFindsClock`, `CleanStop`: two starts, overlapping or not, two crashes |
| `sbp` | 31 thousand | `Canonical`, `OneReadOneFrame`: boundary values of every field, every cut of two frames, every one-byte change |
| `random_streams` | 568 thousand | `StreamsDistinct` (for different pids and one seed of the controller), `SrandHolds`: two pids, each used again after its process ended, one change of seed |
| `process_box` | 581 thousand | `TypeOK`, `NoBypass`, `TrapsOnce`, `FirstImageSurvives`, `BoxInherited`, `NothingLeaked`, `FdsAgree`, `NeverBack`, `CallsReturn`: any number of generations, with and without seccomp, controller and a second thread, four environments to start from and four made up ones, every allocation failing |

Why these bounds are enough to be interesting: two slots and three processes fill
the table and make entries move; two starts and two crashes let a controller
inherit an object in any state, run next to its predecessor, and be killed in its
turn; a two-bit counter wraps after two writes; a three-nanosecond second makes
every second tick carry into the other word. In `process_box` a second of twelve
nanoseconds, six microseconds and three clock ticks gives every function a unit of its
own, and a tick of five crosses all their boundaries; times from before the epoch make
`SYS_time` negative; a stack of three frames holds a call, a trap in it and a trap in
that, and one more trap overflows it, which a larger one would only delay; two virtual
descriptors and one of the kernel are enough to fill, free and fill again. Runs stop at their bounds, which is
why deadlock is not checked in them (`random_streams` never stops, and there it
is; in `process_box` a process may be dead, or have left the box). `seqlock_wrap` keeps SET_TIME, `seqlock_atomic` leaves it out because time may
go back with it; the theorem `Refinement` covers it.

Runs that find a disagreement between the code and what the repository says:

| Run | Property | What happens |
|---|---|---|
| `box_kept` | `ClientsKept` | a healthy client is disconnected: `revents` read at an index whose client has changed, or that holds what an earlier iteration left |
| `shm_torn` | `TimesWhole` | a crash inside a write, a restart, and from then on the counter is even during writes: torn times |
| `process_runs` | `TargetRuns` | with the filter on, the constructor of an exec'ed program is killed by SIGSYS; a forked child overflows its stack with nested traps; so does a program without a controller that asks by system call before it ever called `clock_gettime()` |
| `random_delivered` | `SeedDelivered` | SET_SEED never reaches the generator of a running process: the comparison meant to notice it compares a value with itself |

In `box_kept` and in `box_table` an index of the client table whose client hung up
serves nobody ever after: its `revents` keep POLLHUP, since a connection that is
accepted there is closed before the next `poll` can write the entry. Only a frame
that is rejected vacates an index and leaves it usable, so `box_table` needs the
tool to have registrations follow one another.

More behaviours are states of these models without a run of their own, some of them
against what a document says:

- the controller's answer to a client that is gone ends the controller with SIGPIPE
  (`SendAckBroken`), and a shim's request on a connection the controller has closed
  ends the target with SIGPIPE (`RequestBroken`);
- a shim whose controller ended during its handshake attaches to the object of the next
  one, between `shm_open` and `ftruncate`: `linbox_shm_attach` maps size 0 and its first
  load is SIGBUS (`SAttachFaults`); `docs/adr/011-graceful-degradation.md:9` says of a
  controller that dies "It does not crash the target process";
- the constructor waits for ever for the acknowledgement of a controller that is there
  and does not answer (`InitWaits`; `CallsReturn` fails under `FairSpec`, which has no
  fairness for the controller), which line 20 of the same document rejects: "hangs the
  target process, potentially forever";
- a process with the pid of one that ended draws the same words again, from the first;
  `docs/adr/003-chacha20-prng.md:9` says "Each process gets a unique stream";
- with filter and controller the kernel answers `times` and `clock_getres` called by
  number (`KernelAnswers`); `work/E01-proto/S04-seccomp/story.md:15` says "The sandbox
  has no holes";
- a second controller attaches to the object of the first and both write (`Attach`
  with `Overlap`);
- after the controller's death a process goes on with the last virtual time, and a
  reader of an object whose writer was killed in the middle yields for ever
  (`LoadSeq1`);
- after a frame that is rejected, its sender's place in the table, POLLIN included,
  passes to another client, for whose next frame the controller then waits in `read`,
  while nobody else is served;
- while one thread looks up a function every first call of another function fails with
  EAGAIN (`CallAgain`, `CallSyscallAgain`), and in a child forked at that moment it does so for ever
  (`resolving = "orphan"`);
- `execve` with a NULL environment and nothing to inject fails with ENOMEM
  (`InjectNothing`);
- an empty `LINBOX_DISABLE_SECCOMP` switches seccomp off but is not handed on;
- `SYS_time` between -4095 and -1 is returned as an error (`LooksLikeError`).

`PROJECT.json` quotes the sentence each violated property comes from.

### Fairness

Weak fairness only, and only for steps nothing can hold back: the kernel runs
every runnable process, so a writer finishes a write it began, a reader takes its
next step (`Seqlock`), a process goes on with the call it is in (`Process`), the controller takes its next step, `poll`
returning after 10 ms at the latest, and a shim takes the next step of its
handshake (`Box`). A reader of the clock is not promised to return whatever the writer
does: its loop goes round as long as writes keep coming, and weak fairness allows that
for ever. `ReadsReturnUnlessWritten` says what the loop guarantees, that a read is held
up by no more than the write under way unless another one begins; the controller writes
once in 10 ms, so in practice it returns.
With fairness for the shim only (`FairSpec`) `CallsReturn` is false: a call can wait for
ever for a controller that does not answer. `process_box` uses `AnsweredSpec`, which adds
that a controller with a connection answers or closes it: this is `ClientsAnswered` of
`box_live`, with the condition stated below. Nothing is assumed of programs (they need not start, ask, send
or exit), of signals, of crashes, or of time passing. A controller blocked in
`read` on a silent client has no step, and fairness does not unblock it: that
`ClientsAnswered` holds all the same is because the client it waits for is one
that is itself about to write or to exit; a stray POLLIN can only hit a client that
has just been accepted, and such a client says HELLO. This needs clients whose
frames the controller accepts, as the shim's are, and `box_live` has only such
clients; after a rejected frame the controller can really be left waiting for a silent
client, and neither `ClientsAnswered` nor `StopsOnSignal` (for a signal that arrived
before the wait) is claimed then. A client that connects and says nothing is outside the
model. `CallsReturn`
counts a process that was killed as one whose call is over; that it is not killed is
what `FirstImageSurvives` and `TargetRuns` are about.

## 4. The proofs

All of them are about the `Spec` of the module TLC checks, for every value of the
constants that satisfies the named `ASSUME`s, which TLC evaluates in each run. `Spec =>
[]P` is proved from an inductive invariant in the usual three steps (initially, kept by
every action, implies `P`), one lemma or step per action. Each inductive invariant was
checked by TLC before it was proved.

### What the constants are assumed to be

| Module | Assumption | Why the code justifies it |
|---|---|---|
| `Timespec`, `Seqlock` | positive `NSEC` and `I64_HALF`; an even width of `time_seq`; deltas and times are integers | 10^9, 2^63, 2^32 |
| `ShmLifecycle` | bounds are naturals, the first time fits (`MAX_TIME > 0`), `None` is no controller | bounds of the model |
| `Controller`, `ShimConnection`, `Box` | at least one slot; pid 0 is no process; garbage in `pfds` is a set of bits; a tool's frame has one of the forms the controller tells apart | `LINBOX_PROCESS_SLOT_COUNT`, `sbp.h` |
| `Sbp` | a byte has an even number of values, more than the five message types; what is sent fits into `sbp_message_t` and states the version | 256; `sbp.h`, `linbox.c:111`, `process.c:156`, `main.c:54` |
| `ShimRandom` | one seed and two pids are mixed into two values (`MixAssumption`); mixed seeds, arguments of `srand` and low halves are words; seeds and bounds are naturals | `prng.c:25-28`: XOR with a fixed seed, and `splitmix64`, are injective |
| `SyscallTrap`, `VirtualFds`, `ClockFunctions` | at least one frame; numbers of virtual descriptors are not the kernel's; units are positive and divide a second | `random.c:42`, `time.c` |
| `EnvInjection`, `Process` | a box is started with the shim in LD_PRELOAD; environments bind the four names to strings; the clock stays within `int64_t` (the product in `clock()` need not) and SET_TIME is normalised | section 5 |

### Seqlock

| Theorem | Statement |
|---|---|
| `Invariance` | `Spec => []IInv` |
| `TypeCorrect` | `Spec => []TypeOK` |
| `NoTornReadHolds` | `Spec => []NoTornRead` |
| `EvenMeansStableHolds` | `Spec => []EvenMeansStable` |
| `TickAddsExactlyHolds` | `Spec => TickAddsExactly` |
| `Refinement` | `TimelySpec => ImplementsAtomicClock` |
| `ReadsMonotoneHolds` | `TimelySpec => ReadsMonotone`, if nobody sets the time, deltas are at most `D` and not negative, and the epoch plus `D * MAX_STORES` fits in `int64_t` |

None of the properties is inductive: none says how the counter, the writer's
position and what a reader has copied so far belong together. `IInv` adds

- `CounterInv`: `time_seq` is the number of stores, truncated;
- `WriterInv`: outside the copy the count is even and shared memory is the published
  time; during it the count is odd and the words already copied are the new ones;
- `SourceInv`: the time being written is the published one after a tick, or one that
  was set;
- `ReaderInv`: a copying reader started at an even count; if no store happened since,
  what it has copied is the published time.

The heart of `NoTornRead` is the lemma `SameCount`: two counts less than one cycle
apart that truncate to the same value are equal. An unchanged counter then means
that no store happened, and `ReaderInv` gives the result. `Refinement` maps a write
to its second store and a read to its second load. It is stated for `TimelySpec`,
in which no reader is held up for a whole cycle of the counter (2^31 writes, eight
months of 10 ms ticks): without that the claim is false, as for every seqlock.
`TickAddsExactly` rests on the lemmas of `TimespecProofs` about truncated division and
64-bit wrap-around. `ReadsMonotone` needs `OrderInv`: what readers have returned is not
ahead of the published time, that is not ahead of the one being written, all are
normalised, and each write has added at most `D`. Its hypotheses are what the run
`seqlock_atomic` has; without each of them the property is false.

### ShmLifecycle

For any number of controllers, shims, starts and crashes: `Invariance`, `TypeCorrect`,
`AttachFindsClockHolds`, `ClockSoundHolds` (for `ClockSoundUnlessCut`),
`ReadsCurrentHolds`, `CleanStopHolds`. The parts of the invariant:

- `CreatedInv`, `FreshInv`: every object comes from a start, and one that does not exist
  yet is blank and nobody's. (`TypeOK` bounds the objects by the starts, which needs a
  count of the controllers that are about to create.)
- `MapInv`, `SockInv`: whoever is past its open has an object; the socket belongs to a
  controller that has published a time.
- `SingleInv`: without overlaps one controller runs, and the name stands for what it
  has mapped. With `TimeInv`, which says that its first write fills both words and no
  later step empties one, this is `AttachFindsClock`, with any number of kills.
- `HeldInv`: without kills somebody is left to remove the name: `CleanStop`.
- `WriterInv`, `StableInv`, `ReaderInv`, `WholeInv`: the argument of the seqlock, for
  each object, as long as no write was cut off and no two controllers overlapped.
  `StableInv` is what lets a controller started after a kill continue on the object that
  is left: nobody is writing to it, so its counter is even and its time whole. A kill
  anywhere else in a controller's life is harmless to readers; `shm_torn` shows what one
  between the two stores does.

`ReadsCurrent` follows from `ReaderInv`, and from a lemma that a read ends with the
second load of the counter and in no other step.

### Box

For any number of processes, slots and spawns, and any frames of tools: `Invariance`,
`TypeCorrect`, `ClientTableSoundHolds`, `SlotsUniqueHolds`, `RegisteredOrFullHolds`,
`AnswerOwedHolds`, `TimeAccountedHolds`, and `Refinement` (`Spec => ImplementsRegistry`).

- `BacklogSound`: no connection waits twice, and those that wait are those in the
  backlog; accepting one then adds a client that is not in the table. Removing a client
  by moving the last one into its place keeps `ClientTableSound` whatever `revents` says:
  the proof uses nothing about `revents`, and so covers the stale entries behind
  `box_kept`.
- `ConnInv`: where the one frame of a connection is. A client waiting for an answer has
  its request under way, or in the controller's hands, or its answer under way, or was
  disconnected, and exactly one of these: this is `AnswerOwed`.
- `RegInv`: a child is in a slot, or was refused because all were taken, from the moment
  its registration was handled, which is before its answer leaves. Without the part about
  answers under way `RegisteredOrFull` is not inductive. `Registration` and `Reaped` say
  what `register_process` and one round of `reap_dead_processes` change.
- `TimeAccounted` and `SlotsUnique` are inductive given the types.

The refinement maps the slots to the set of pids in them. A round of the reaping is a
`Reap` of one pid that does not exist at that moment, or nothing; that no dead process
survives a whole reaping is not claimed, since processes end while it goes on. That a registration is dropped
only if the set is as large as there are slots needs `SlotsUnique` and a counting
argument.

### Process

`ProcessProofs`: `FdInvariance`, `FdsAgreeHolds`, `EnvInvariance`, `BoxInheritedHolds`,
`NothingLeakedHolds`. `FdInv` adds that an entry in use holds the number that goes with
its place. `EnvInv` adds `HeapInv` (what the wrapper in progress owns is what it will free
on every way out: the array and the entries added so far) and `TouchedInv` (a binding
about to be handed down is the one of `environ`, or missing, or the program's own).

`ProcessCallProofs`: `CallInvariance`, `NoBypassHolds`, `TrapsOnceHolds`,
`FirstImageSurvivesHolds`, `ClockInvariance`, `NeverBackHolds`, `TypeCorrect`. `CallInv`
describes the stacks that can occur:

- `NestInv`: only traps nest, and each for a reason: an initialisation under way, which
  under the filter gets nowhere, or a fallback that has to ask the kernel;
- `FirstInv`: the first program has the handler before the filter, and both only once it is
  initialised, so that neither reason exists in it while it is connected;
- `AnswerInv`: no answer while a call is in progress.

`ClockInv` says that what a program knows is never more than has passed; the lemma
`AnswersRoundDown` (every conversion of `time.c` is at most the time, and the time is
below the next unit, before the epoch too) and `TickStep` (ticks do not go back) keep it.
An answer of a `clock()` that overflowed is exempt in `Learn`, and so in both theorems.
`NoBypassHolds` covers the libc functions and the four system calls the shim dispatches;
for `times` and `clock_getres` by number the opposite is true.

### ShimRandom

`Invariance`, `StreamsDistinctHolds`, `SrandHoldsHolds`, for any number of pids and seeds,
any number of draws and any `Mix` that satisfies `MixAssumption`. `StreamsDistinct` is
about different pids, whose processes may have ended long ago, and one seed of the
controller. It does not say that processes are distinct: those with one pid are not.
`OwnInv` says that every seed a process keeps or has drawn from
is derived from its own pid or was chosen by the program; `PastInv` the same of what
processes drew from before they ended; `ChosenInv` that while an
`srand` is in force `rand()` is not about to seed.

### Sbp

For any even number of values of a byte, all messages `sbp_message_t` can hold, any stream
of them and any length of the read: `Invariance`, `CanonicalHolds`,
`OneReadOneFrameHolds`, and `PrefixFree`, which needs no state.

- `Halve` and `Join`: an integer and its two halves determine each other. From them, for
  two, four and eight bytes in turn, `ReadWritten16` to `ReadWritten64` (reading what was
  written gives it back, whatever stands around it) and `WriteRead16` to `WriteRead64`
  (writing what was read gives the bytes back).
- `CastThere`, `CastBack`: the casts between signed and unsigned are inverse to each other.
- `PayloadLength`, `PayloadRead`, `PayloadBack`: the same for payloads, type by type;
  `HeaderShape` and `FrameShape` say what stands where in a frame.
- `ReadOne`: one whole frame gives its message. `ReadOther`: a part of a frame, or a frame
  and more, does not deserialize, because the length in the header is that of another
  frame. `Accepted`: bytes that deserialize are the frame of what they give.

The invariant says that before the read the stream begins with the first message's frame.
Without it `OneReadOneFrame` says nothing of what the read finds.

### Only model-checked

- Liveness (`ReadsReturnUnlessWritten`, `ClientsAnswered`, `StopsOnSignal`, `CallsReturn`): the prover
  does not reason about fairness.
- The four properties that are violated.

## 5. Not modelled

- errors of `ftruncate`, `mmap`, `accept`, `socket`, and of `poll` other than EINTR;
- `heartbeat_ns`, `global_seq`, `flags` and the policy area: written, never read to
  decide anything;
- a second connection of one process: the shim opens its socket without SOCK_CLOEXEC
  (`linbox.c:94`), so an exec'ed program keeps the old connection, which nobody writes to
  or closes any more, beside its own. It takes one of the controller's 64 entries until
  the process ends;
- zombies, and a pid that is used again while the old connection is open;
- processes with several threads, except for what a second one does to `resolving`;
  `clone` with CLONE_VM, and the `start` block `clone` allocates;
- the lookups of functions other than `clock_gettime`: a wrapper that fails with EAGAIN
  has done nothing (but `clone` leaks its block, and `posix_spawn` returns -1, which is
  no error number);
- `rand_r`, which keeps no state in the shim; the `mode` argument that `open` and
  `openat` drop; `dup` and `fcntl` of a virtual descriptor, which the shim does not wrap;
- `sysconf` failing; times from SET_TIME that are not normalised, in `Process` (they
  are in `Seqlock`): with such a time `time()` goes back when the next tick normalises;
- `system`, `popen` and other libc functions that start programs without the wrappers;
- tests, containers, scripts.

## 6. Plan

Done: the clock, its refinement and proofs; the object's life; the loop composed
with the processes, and the registry it implements; the wire format; randomness; the
routes of system calls, environment injection and virtual descriptors, composed over
generations of processes; the proofs of all safety properties of these.

What could follow:

1. `Box` over bytes: `Sockets` carries whole frames. `OneReadOneFrame` says what a read of
   anything else gives, and `Controller` has that case as a frame that is not accepted, but
   the two modules are not composed.
2. A weaker memory model for `Seqlock` (the hazard at `common/shm.c:139`).
