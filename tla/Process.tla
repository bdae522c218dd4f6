------------------------------ MODULE Process ------------------------------
(***************************************************************************)
(* One process with the shim, and its descendants: at a fork or a spawn    *)
(* the model follows the child, at an exec the new program.  What parent   *)
(* and child do to each other goes through the controller (Box) and the    *)
(* seed (ShimRandom); here it is what a process hands down: the filter,    *)
(* the environment, the descriptors, the shim's memory.                    *)
(***************************************************************************)
EXTENDS SyscallTrap, EnvInjection, VirtualFds

CONSTANTS
    Programs,  \* what programs do: sets of "calls", "starts" and "opens"
    Envps,     \* the environments programs make up
    Deltas,    \* what a tick adds
    Times,     \* values of SET_TIME
    MAX_SEC    \* bound: ticks stop here

ASSUME EnvpsAssumption == Envps \subseteq Environments
\* The clock stays within int64_t (292 years of nanoseconds); what happens beyond
\* it is in Seqlock.
ASSUME ClockAssumption ==
    /\ MAX_SEC \in Nat /\ Deltas \subseteq Nat
    /\ \A d \in Deltas : (MAX_SEC + 1) * NSEC + d <= I64_HALF
    /\ Times \subseteq Timespec
    /\ \A t \in Times :
          Normalised(t) /\ t.sec <= MAX_SEC /\ -I64_HALF <= TotalNs(t)

VARIABLES
    does,      \* what the programs of this lineage do, besides starting others
    inherited  \* history: the process is not the first of the box

vars == <<trapvars, envvars, fdvars, does, inherited>>

Init ==
    /\ status = "up" /\ filter = FALSE /\ handler = FALSE
    /\ initialized = FALSE /\ connected = FALSE
    /\ resolved = FALSE /\ resolving = "no"
    /\ stack = <<Frame("ctor", "libc")>>
    /\ answer = NoAnswer
    /\ vtime = [sec |-> 0, nsec |-> 0] /\ known = Unknown /\ back = {}
    /\ EnvInit /\ FdInit
    /\ does \in Programs /\ inherited = FALSE

\* linbox_seccomp_enabled
seccomp_enabled == environ["LINBOX_DISABLE_SECCOMP"] \in {Unset, "0"}

QuietTrap ==
    answer' = NoAnswer /\ UNCHANGED <<status, filter, imagevars, stack, timevars>>

-----------------------------------------------------------------------------
Call ==
    /\ call = NoCall /\ "calls" \in does
    /\ \/ \E fn \in Wrapped \cup {"io_uring", "write"} :
              \/ CallWrapper(fn) \/ CallSyscall(fn) \/ CallDirect(fn) \/ CallKernel(fn)
              \/ CallSyscallDefault(fn) \/ CallSyscallAgain(fn)
       \/ CallClockGettime \/ CallAgain
    /\ UNCHANGED <<envvars, fdvars, does, inherited>>

Shim == ShimStep(seccomp_enabled) /\ UNCHANGED <<envvars, fdvars, does, inherited>>

\* A step of the controller, or the end of it.
Answered == HandshakeEnds /\ UNCHANGED <<envvars, fdvars, does, inherited>>

\* fork, vfork, and clone and clone3 without CLONE_VM: the child.  (A child of
\* clone keeps a copy of the parent's start block, which heap leaves out.)
Fork ==
    /\ Idle /\ call = NoCall
    /\ Reinit
    /\ inherited' = TRUE
    /\ UNCHANGED <<envvars, fdvars, does>>

\* execve succeeds, or a process was spawned: the new program.
NewImage ==
    /\ Idle
    /\ NewImageEnv /\ NewImageFds
    /\ LoadImage(environ'["LD_PRELOAD"] = BoxLib)
    /\ inherited' = TRUE
    /\ UNCHANGED does

\* A program is started with the environment as it is, or with one made up.
Start ==
    /\ Idle
    /\ \E fn \in WithEnviron \cup WithEnvp :
          \/ BeginCall(fn, environ, FALSE)
          \/ /\ "starts" \in does /\ fn \in WithEnvp
             /\ \/ BeginCall(fn, NullEnv, TRUE)
                \/ \E envp \in Envps : BeginCall(fn, envp, FALSE)
    /\ QuietTrap /\ UNCHANGED <<fdvars, does, inherited>>

Setenv ==
    /\ Idle /\ "starts" \in does
    /\ \E n \in Names : \E v \in OwnValues[n] : ChangeEnv(n, v)
    /\ QuietTrap /\ UNCHANGED <<fdvars, does, inherited>>

Inject == Idle /\ InjectStep /\ QuietTrap /\ UNCHANGED <<fdvars, does, inherited>>

Descriptors ==
    /\ Idle /\ call = NoCall /\ "opens" \in does
    /\ OpenRandom \/ OpenFile \/ (\E fd \in RealFds \cup VirtualNumbers : Close(fd))
    /\ QuietTrap /\ UNCHANGED <<envvars, does, inherited>>

\* The controller writes the time (for those who ask for it).
Clock ==
    /\ status = "up" /\ "calls" \in does
    /\ \/ \E d \in Deltas :
              vtime' = ns_add(vtime, d) /\ vtime'.sec <= MAX_SEC /\ UNCHANGED known
       \/ \E t \in Times : vtime' = t /\ known' = Unknown
    /\ UNCHANGED <<status, filter, imagevars, stack, answer, back, envvars, fdvars, does, inherited>>

Next ==
    \/ Call \/ Shim \/ Answered \/ Fork \/ NewImage \/ Start \/ Setenv \/ Inject \/ Descriptors \/ Clock
    \/ "calls" \in does /\ OtherThread /\ UNCHANGED <<envvars, fdvars, does, inherited>>

Spec == Init /\ [][Next]_vars

\* The kernel runs the process: it goes on with the call it is in.
Fairness == WF_vars(Shim) /\ WF_vars(Inject)
FairSpec == Spec /\ Fairness

\* A controller that has a connection answers it or closes it.  That is what Box
\* shows of it (ClientsAnswered), as long as it runs and no client sends a frame
\* that it rejects.
AnsweredSpec == FairSpec /\ WF_vars(Answered)

-----------------------------------------------------------------------------
TypeOK ==
    /\ status \in {"up", "unboxed", "SIGSYS", "SIGSEGV"}
    /\ {filter, handler, initialized, connected, resolved, inherited} \subseteq BOOLEAN
    /\ back \subseteq TimeFns
    /\ resolving \in {"no", "thread", "orphan"}
    /\ Len(stack) <= STACK_FRAMES
    /\ vtime \in Timespec /\ known \in Int
    /\ touched \subseteq Names
    /\ heap \subseteq Names \cup {"merged", "argv"}
    /\ files \subseteq RealFds
    /\ virtual_fds \in [Index -> [fd : VirtualNumbers \cup {0}, used : BOOLEAN]]

\* While the process is connected, the kernel answers no libc function for time
\* or randomness; with the filter it answers none of clock_gettime, gettimeofday,
\* time and getrandom, not through syscall() and not by an instruction of the
\* program's own (seccomp.c:29-65, sigsys.c:22-63).  The system calls times and
\* clock_getres, of which neither syscall() nor the filter knows, it does answer,
\* against "the sandbox has no holes" (work/E01-proto/S04-seccomp/story.md:15).
NoBypass ==
    (answer.src = "real" /\ connected) =>
        \/ answer.via = "direct" /\ ~filter
        \/ answer.via # "libc" /\ answer.fn \in Untrapped

\* "no double interception": in an initialised process that can answer, a call
\* is trapped once at most (time.c:30-50, sigsys.c:69).
TrapsOnce ==
    (status = "up" /\ initialized /\ (connected \/ resolved)) =>
        \A j, k \in 1 .. Len(stack) :
            stack[j].via = "trap" /\ stack[k].via = "trap" => j = k

\* The first program of a box, connected to its controller, is not killed by
\* what the shim installed, whether sigaction and prctl succeeded or not
\* (linbox.c:213-230).
FirstImageSurvives ==
    (~inherited /\ connected) => status \notin {"SIGSYS", "SIGSEGV"}

\* A call into the shim returns, through every nesting of traps, or ends the
\* process; without a controller it does not wait for one (linbox.c:104-171), and
\* AnsweredSpec says that one that is there answers.  (That a read of the clock
\* comes to an end is a matter of Seqlock and ShmLifecycle.)
CallsReturn == (stack # <<>>) ~> (stack = <<>>)

\* However programs start programs, with whatever environments and failures, the
\* shim stays loaded and the settings of the box stay in force, except those
\* that a program bound or unset itself (process.c:46-126, 255-397).
BoxInherited ==
    "LD_PRELOAD" \notin touched =>
        /\ status # "unboxed"
        /\ \A n \in Names \ touched : root[n] # Empty => environ[n] = root[n]

\* Between two calls the wrappers own no memory: whichever allocation failed,
\* and whether or not the program was started (process.c:84-146).
NothingLeaked == call = NoCall => heap = {}

\* The descriptors the program has open are those in the table and those of the
\* kernel, and every number is one of the two (random.c:32-69, 135-170).
FdsAgree ==
    held = files \cup {virtual_fds[k].fd : k \in {j \in Index : virtual_fds[j].used}}

\* No clock function says that less time has passed than another one has said
\* before, in this process or in one it descends from, unless the time was set
\* (time.c:37-180).  Nothing is said of a clock() whose product overflows, from
\* 106 days after 1970 on: in a build in which it wraps it does go back.
NeverBack == back = {}

\* "fork() + seccomp -> child inherits seccomp filter, direct syscalls still
\* intercepted", and ADR-011: "It does not crash the target process."
TargetRuns == status \notin {"SIGSYS", "SIGSEGV"}
=============================================================================
