---------------------------- MODULE SyscallTrap ----------------------------
(***************************************************************************)
(* How a call for time or randomness reaches the shim, step by step: the   *)
(* libc wrappers (src/shim/time.c, random.c), the wrapper of syscall()     *)
(* (syscall-wrap.c), and system call instructions, which the seccomp       *)
(* filter (seccomp.c) turns into SIGSYS and the handler (sigsys.c) into a  *)
(* call of the same functions.  linbox_init_state and linbox_fallback_now  *)
(* issue system calls that trap themselves (linbox.c:147, time.c:34); the  *)
(* handler has SA_NODEFER, so traps nest until the stack is used up.       *)
(*                                                                         *)
(* The process has one thread that calls.  With Threads there is another   *)
(* one, seen only in the resolving flag of resolve.h.                      *)
(***************************************************************************)
EXTENDS ClockFunctions, Sequences

CONSTANTS
    STACK_FRAMES,  \* nested calls the stack has room for
    MAX_ERRNO,     \* a result in -MAX_ERRNO .. -1 is an error: 4095 in the code
    Threads        \* whether the program has another thread

ASSUME TrapAssumption ==
    STACK_FRAMES \in Nat \ {0} /\ MAX_ERRNO \in Nat /\ Threads \in BOOLEAN

VARIABLES
    status,       \* "up", or how the process ended, or "unboxed"
    filter,       \* the kernel has the filter for this process
    handler,      \* SIGSYS has the shim's handler
    initialized, connected,  \* of linbox_state_t
    resolved,     \* g_real_clock_gettime is not NULL
    resolving,    \* "no", "thread": another thread is in dlsym, or "orphan":
                  \* it was when this process was forked, without the thread
    stack,        \* the calls in progress, the innermost first
    answer,       \* what the program's last call returned
    vtime,        \* the virtual time in shared memory
    known,        \* history: nanoseconds the program knows have passed
    back          \* history: the functions that said that less had passed

imagevars == <<handler, initialized, connected, resolved, resolving>>
timevars == <<vtime, known, back>>
trapvars == <<status, filter, imagevars, stack, answer, timevars>>

\* Where an answer comes from; which call it is matters if that is the kernel.
Answer(src, fn, via) ==
    IF src = "real" THEN [src |-> src, fn |-> fn, via |-> via]
    ELSE [src |-> src, fn |-> "any", via |-> "any"]
NoAnswer == Answer("none", "any", "any")
Frame(fn, via) == [fn |-> fn, via |-> via, pc |-> "init"]
Unknown == -I64_HALF

\* Mutant: time is forgotten.
filter_without_time(fn) ==
    CASE fn \in {"clock_gettime", "gettimeofday", "getrandom"} -> "TRAP"
      [] fn = "io_uring" -> "ENOSYS"
      [] OTHER -> "ALLOW"

\* The program of linbox_install_seccomp.
filter_verdict(fn) ==
    CASE fn \in {"clock_gettime", "gettimeofday", "time", "getrandom"} -> "TRAP"
      [] fn = "io_uring" -> "ENOSYS"
      [] OTHER -> "ALLOW"

Dispatched == {"clock_gettime", "gettimeofday", "time", "getrandom"}
Wrapped == TimeFns \cup {"getrandom", "clock_getres"}
\* System calls for the time of which neither syscall() nor the filter knows.
Untrapped == {"times", "clock_getres"}

Idle == status = "up" /\ stack = <<>>
Top == stack[1]
Running(fns, pc) == status = "up" /\ stack # <<>> /\ Top.fn \in fns /\ Top.pc = pc
\* linbox_init_state returned at once, or has done its work.
Ready(fns) == (Running(fns, "init") /\ initialized) \/ Running(fns, "ready")
TopAt(pc) == [stack EXCEPT ![1].pc = pc]

Traps(fn) == filter /\ filter_verdict(fn) = "TRAP"

\* A system call instruction that traps, issued on top of the calls s.
Trap(fn, s) ==
    /\ Traps(fn)
    /\ IF handler /\ Len(s) < STACK_FRAMES
       THEN stack' = <<Frame(fn, "trap")>> \o s /\ UNCHANGED status
       ELSE /\ stack' = <<>>
            /\ status' = IF handler THEN "SIGSEGV" ELSE "SIGSYS"

\* The innermost call returns; if the program made it, it has its answer.
Return(src) ==
    /\ stack' = Tail(stack)
    /\ answer' = IF Len(stack) > 1 THEN answer
                 ELSE Answer(src, Top.fn, Top.via)

-----------------------------------------------------------------------------
(* The program calls. *)

\* A libc function of the shim, or syscall() with one of the four numbers.
CallWrapper(fn) ==
    /\ Idle /\ fn \in Wrapped \ {"clock_gettime"}
    /\ stack' = <<Frame(fn, "libc")>>
    /\ answer' = NoAnswer
    /\ UNCHANGED <<status, filter, imagevars, timevars>>

CallSyscall(fn) ==
    /\ Idle /\ fn \in Dispatched
    /\ stack' = <<Frame(fn, "syscall")>>
    /\ answer' = NoAnswer
    /\ UNCHANGED <<status, filter, imagevars, timevars>>

\* clock_gettime looks up the real function before anything else.
CallClockGettime ==
    /\ Idle
    /\ resolved \/ resolving = "no"
    /\ resolved' = TRUE
    /\ stack' = <<Frame("clock_gettime", "libc")>>
    /\ answer' = NoAnswer
    /\ UNCHANGED <<status, filter, handler, initialized, connected, resolving, timevars>>

\* EAGAIN: somebody else is looking up a function.
CallAgain ==
    /\ Idle /\ ~resolved /\ resolving # "no"
    /\ answer' = Answer("error", "clock_gettime", "libc")
    /\ UNCHANGED <<status, filter, imagevars, stack, timevars>>

\* A system call instruction of the program.
CallDirect(fn) ==
    /\ Idle /\ fn \in Dispatched
    /\ Trap(fn, <<>>)
    /\ answer' = NoAnswer
    /\ UNCHANGED <<filter, imagevars, timevars>>

\* One that does not trap: the kernel's own answer, or ENOSYS.
KernelAnswers(fn, via) ==
    /\ Idle /\ ~Traps(fn)
    /\ answer' = IF fn \in Dispatched \cup Untrapped
                 THEN Answer("real", fn, via)
                 ELSE NoAnswer
    /\ UNCHANGED <<status, filter, imagevars, stack, timevars>>

CallKernel(fn) ==
    /\ fn \in Dispatched \cup Untrapped \cup {"io_uring", "write"}
    /\ KernelAnswers(fn, "direct")

\* syscall() hands every other number to the real function.
CallSyscallDefault(fn) ==
    /\ fn \in Untrapped \cup {"io_uring", "write"}
    /\ KernelAnswers(fn, "syscall")

\* Unless it is not known yet, and somebody else is looking up a function.
CallSyscallAgain(fn) ==
    /\ Idle /\ fn \in Untrapped \cup {"io_uring", "write"} /\ resolving # "no"
    /\ answer' = Answer("error", fn, "syscall")
    /\ UNCHANGED <<status, filter, imagevars, stack, timevars>>

-----------------------------------------------------------------------------
(* The shim works on the innermost call. *)

\* EINVAL: a NULL pointer, or a clock clock_gettime does not know (the eight
\* it knows are all the virtual time).  The shim itself makes no such call.
BadArgument ==
    /\ Running({"clock_gettime", "timespec_get", "gettimeofday", "clock_getres"}, "init")
    /\ Len(stack) = 1
    /\ Return("error")
    /\ UNCHANGED <<status, filter, imagevars, timevars>>

\* linbox_init_state asks for the monotonic clock first, by system call.
InitClock ==
    /\ Running(Wrapped \cup {"ctor", "child"}, "init") /\ ~initialized
    /\ \/ Trap("clock_gettime", TopAt("connect"))
       \/ ~Traps("clock_gettime") /\ stack' = TopAt("connect") /\ UNCHANGED status
    /\ UNCHANGED <<filter, imagevars, answer, timevars>>

\* Nobody listens, or the frame cannot be written: the shim goes on without.
InitFails ==
    /\ Running(Wrapped \cup {"ctor", "child"}, "connect")
    /\ connected' = FALSE /\ initialized' = TRUE
    /\ stack' = TopAt("ready")
    /\ UNCHANGED <<status, filter, handler, resolved, resolving, answer, timevars>>

\* There is a controller: the shim waits in connect, if the queue of connections
\* is full, and in the read of the acknowledgement.  Neither has a timeout.
InitWaits ==
    /\ Running(Wrapped \cup {"ctor", "child"}, "connect")
    /\ stack' = TopAt("await")
    /\ UNCHANGED <<status, filter, imagevars, answer, timevars>>

\* Mutant: without a controller the shim tries again.
HandshakeRetried ==
    /\ Running(Wrapped \cup {"ctor", "child"}, "await")
    /\ \E ok \in BOOLEAN : connected' = ok /\ initialized' = ok
    /\ stack' = TopAt(IF initialized' THEN "ready" ELSE "init")
    /\ UNCHANGED <<status, filter, handler, resolved, resolving, answer, timevars>>

\* The controller answers, and the attach succeeds or fails; or it closes the
\* connection or ends (see ShimConnection, and ShmLifecycle for the attach).
HandshakeEnds ==
    /\ Running(Wrapped \cup {"ctor", "child"}, "await")
    /\ \E ok \in BOOLEAN : connected' = ok
    /\ initialized' = TRUE
    /\ stack' = TopAt("ready")
    /\ UNCHANGED <<status, filter, handler, resolved, resolving, answer, timevars>>

\* What the program learns from value v of fn.  The undefined result of an
\* overflow is any value, and is not held against what was said before.
Learn(fn, v) ==
    LET from == v * Unit(fn) IN
    /\ IF Overflows(fn, vtime)
       THEN UNCHANGED <<known, back>>
       ELSE /\ known' = IF from > known THEN from ELSE known
            /\ back' = IF from + Unit(fn) - 1 < known THEN back \cup {fn} ELSE back
    /\ UNCHANGED vtime

\* The handler takes a small negative result for an error.
LooksLikeError(fn, via) ==
    fn = "time" /\ via = "trap" /\ vtime.sec \in -MAX_ERRNO .. -1

\* linbox_virtual_now reads shared memory, and the function converts.
AnswerVirtual ==
    /\ Ready(TimeFns) /\ connected
    /\ IF LooksLikeError(Top.fn, Top.via)
       THEN Return("error") /\ UNCHANGED timevars
       ELSE Return("virtual") /\ \E v \in Answers(Top.fn, vtime) : Learn(Top.fn, v)
    /\ UNCHANGED <<status, filter, imagevars>>

\* linbox_fallback_now: the real clock_gettime needs no system call (vDSO).
AnswerReal ==
    /\ Ready(TimeFns) /\ ~connected /\ resolved
    /\ Return("real")
    /\ UNCHANGED <<status, filter, imagevars, timevars>>

\* Mutant: the real clock_gettime is not used although it is known.
FallbackAlways == Ready(TimeFns) /\ ~connected

Fallback == Ready(TimeFns) /\ ~connected /\ ~resolved

FallbackSyscall ==
    /\ Fallback
    /\ \/ Trap("clock_gettime", TopAt("fallback"))
       \/ ~Traps("clock_gettime") /\ stack' = TopAt("fallback") /\ UNCHANGED status
    /\ UNCHANGED <<filter, imagevars, answer, timevars>>

FallbackReturns ==
    /\ Running(TimeFns, "fallback")
    /\ Return("real")
    /\ UNCHANGED <<status, filter, imagevars, timevars>>

\* getrandom draws from the generator, clock_getres answers a constant.
AnswerLocal ==
    /\ Ready({"getrandom", "clock_getres"})
    /\ Return("virtual")
    /\ UNCHANGED <<status, filter, imagevars, timevars>>

\* Mutant: the filter is installed whether or not the handler was.
InstalledAnyway(on, ok1, ok2) ==
    handler' = (on /\ ok1) /\ filter' = (filter \/ (on /\ ok2))

\* The handler first, and the filter only if that succeeded.
Installed(on, ok1, ok2) ==
    handler' = (on /\ ok1) /\ filter' = (filter \/ (on /\ ok1 /\ ok2))

\* The rest of linbox_ctor: sigaction and prctl may fail.
CtorInstalls(on) ==
    /\ Ready({"ctor"})
    /\ \E ok1, ok2 \in BOOLEAN : Installed(on, ok1, ok2)
    /\ stack' = <<>>
    /\ UNCHANGED <<status, initialized, connected, resolved, resolving, answer, timevars>>

\* linbox_reinit_state is done; the registration follows (see ShimConnection).
ChildReady ==
    /\ Ready({"child"})
    /\ stack' = <<>>
    /\ UNCHANGED <<status, filter, imagevars, answer, timevars>>

ShimStep(on) ==
    \/ BadArgument \/ InitClock \/ InitFails \/ InitWaits \/ AnswerVirtual \/ AnswerReal
    \/ FallbackSyscall \/ FallbackReturns \/ AnswerLocal \/ CtorInstalls(on) \/ ChildReady

-----------------------------------------------------------------------------
(* New processes and programs. *)

\* A program is loaded and the constructor of the shim runs, if it is preloaded.
LoadImage(boxed) ==
    /\ handler' = FALSE /\ initialized' = FALSE /\ connected' = FALSE
    /\ resolved' = FALSE /\ resolving' = "no"
    /\ status' = IF boxed THEN "up" ELSE "unboxed"
    /\ stack' = IF boxed THEN <<Frame("ctor", "libc")>> ELSE <<>>
    /\ answer' = NoAnswer
    /\ UNCHANGED <<filter, timevars>>

\* linbox_reinit_state in a child.  resolving is copied with everything else, and
\* the thread that would reset it is not there.
Reinit ==
    /\ initialized' = FALSE /\ connected' = FALSE
    /\ stack' = <<Frame("child", "libc")>>
    /\ answer' = NoAnswer
    /\ resolving' = IF resolving = "no" THEN "no" ELSE "orphan"
    /\ UNCHANGED <<status, filter, handler, resolved, timevars>>

\* The other thread enters or leaves dlsym.
OtherThread ==
    /\ Threads /\ status = "up" /\ resolving # "orphan"
    /\ resolving' = IF resolving = "no" THEN "thread" ELSE "no"
    /\ UNCHANGED <<status, filter, handler, initialized, connected, resolved, stack, answer, timevars>>
=============================================================================
