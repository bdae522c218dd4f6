------------------------- MODULE ProcessCallProofs -------------------------
(***************************************************************************)
(* Proofs about Process: the calls in progress, the traps on the stack and *)
(* the clock.                                                              *)
(***************************************************************************)
EXTENDS ProcessProofs, SequenceTheorems

-----------------------------------------------------------------------------
(* Calls and traps. *)

Frames == [fn : Wrapped \cup {"ctor", "child"}, via : {"libc", "syscall", "trap"},
           pc : {"init", "connect", "await", "ready", "fallback"}]

CallTypes ==
    /\ status \in {"up", "unboxed", "SIGSYS", "SIGSEGV"}
    /\ filter \in BOOLEAN /\ handler \in BOOLEAN /\ initialized \in BOOLEAN
    /\ connected \in BOOLEAN /\ resolved \in BOOLEAN /\ inherited \in BOOLEAN
    /\ resolving \in {"no", "thread", "orphan"}
    /\ stack \in Seq(Frames) /\ Len(stack) <= STACK_FRAMES

\* While a call is in progress there is no answer.
AnswerInv == stack # <<>> => answer = NoAnswer

\* Only traps nest, and each for a reason: an initialisation that is under way,
\* which under the filter gets nowhere, or a fallback that has to ask the kernel.
NestInv ==
    /\ ~filter => Len(stack) <= 1
    /\ filter /\ ~initialized /\ stack # <<>> => stack[1].pc = "init"
    /\ stack # <<>> /\ stack[1].pc = "ready" => initialized
    /\ initialized => \A j \in 2 .. Len(stack) : stack[j].pc = "fallback"
    /\ \A j \in 1 .. Len(stack) :
          /\ stack[j].pc \in {"connect", "await"} => ~initialized
          /\ stack[j].pc = "fallback" => initialized /\ ~connected /\ ~resolved

\* The first program has the handler before it has the filter, and both only
\* after it is initialised.
FirstInv ==
    ~inherited =>
        /\ filter => /\ handler /\ initialized
                     /\ \A j \in 1 .. Len(stack) : stack[j].fn # "ctor"
        /\ connected => status \notin {"SIGSYS", "SIGSEGV"}

CallInv == CallTypes /\ AnswerInv /\ NestInv /\ FirstInv /\ NoBypass

\* The time, and what the program knows of it.
ClockInv ==
    /\ vtime \in Timespec /\ Normalised(vtime)
    /\ vtime.sec <= MAX_SEC /\ -I64_HALF <= TotalNs(vtime)
    /\ known \in Int /\ known <= TotalNs(vtime)
    /\ back = {}

\* What the operations on the stack return.
LEMMA Pushed ==
    ASSUME NEW s \in Seq(Frames), NEW f \in Frames
    PROVE  /\ <<f>> \o s \in Seq(Frames) /\ Len(<<f>> \o s) = Len(s) + 1
           /\ (<<f>> \o s)[1] = f
           /\ \A j \in 2 .. Len(s) + 1 : (<<f>> \o s)[j] = s[j - 1]
  OBVIOUS

LEMMA Popped ==
    ASSUME NEW s \in Seq(Frames), s # <<>>
    PROVE  /\ Tail(s) \in Seq(Frames) /\ Len(Tail(s)) = Len(s) - 1
           /\ \A j \in 1 .. Len(s) - 1 : Tail(s)[j] = s[j + 1]
           /\ (Tail(s) # <<>>) => Len(s) > 1
  <1>1. /\ Tail(s) \in Seq(Frames) /\ Len(Tail(s)) = Len(s) - 1
        /\ \A j \in 1 .. Len(s) - 1 : Tail(s)[j] = s[j + 1]
    OBVIOUS
  <1>2. Len(Tail(s)) = 0 => Tail(s) = <<>>
    BY <1>1, EmptySeq
  <1>3. Len(s) \in Nat /\ Len(s) > 0
    BY EmptySeq
  <1> QED BY <1>1, <1>2, <1>3

LEMMA Moved ==
    ASSUME stack \in Seq(Frames), stack # <<>>,
           NEW pc \in {"init", "connect", "await", "ready", "fallback"}
    PROVE  /\ TopAt(pc) \in Seq(Frames) /\ Len(TopAt(pc)) = Len(stack)
           /\ TopAt(pc)[1].pc = pc /\ TopAt(pc)[1].fn = stack[1].fn
           /\ \A j \in 2 .. Len(stack) : TopAt(pc)[j] = stack[j]
  <1> DEFINE f == [stack[1] EXCEPT !.pc = pc]
  <1>1. stack[1] \in Frames /\ 1 \in DOMAIN stack /\ Len(stack) \in Nat /\ Len(stack) > 0
    OBVIOUS
  <1>2. f \in Frames /\ f.pc = pc /\ f.fn = stack[1].fn
    BY <1>1 DEF Frames
  <1>3. TopAt(pc) = [stack EXCEPT ![1] = f]
    BY DEF TopAt
  <1> HIDE DEF f
  <1> QED BY <1>1, <1>2, <1>3

LEMMA NewFrame ==
    ASSUME NEW fn \in Wrapped \cup {"ctor", "child"}, NEW via \in {"libc", "syscall", "trap"}
    PROVE  /\ Frame(fn, via) \in Frames
           /\ Frame(fn, via).pc = "init" /\ Frame(fn, via).fn = fn
           /\ <<Frame(fn, via)>> \in Seq(Frames) /\ Len(<<Frame(fn, via)>>) = 1
           /\ <<Frame(fn, via)>>[1] = Frame(fn, via)
  BY DEF Frame, Frames

\* The four calls the shim dispatches are those the filter traps.
LEMMA Trapped ==
    ASSUME NEW fn \in Dispatched
    PROVE  /\ fn \in Wrapped /\ fn # "ctor"
           /\ Traps(fn) <=> filter
  BY DEF Dispatched, Wrapped, TimeFns, Traps, filter_verdict

LEMMA ClockIsDispatched == "clock_gettime" \in Dispatched
  BY DEF Dispatched

\* A call begins, in a program that had none in progress, or in a new process.
LEMMA BeginStep ==
    ASSUME CallInv, NEW f \in Frames, f.pc = "init", stack' = <<f>>, answer' = NoAnswer,
           status' \in {"up", "unboxed", "SIGSYS", "SIGSEGV"},
           handler' \in BOOLEAN, initialized' \in BOOLEAN, connected' \in BOOLEAN,
           resolved' \in BOOLEAN, resolving' \in {"no", "thread", "orphan"},
           inherited' \in BOOLEAN, filter' = filter,
           ~inherited' => /\ f.fn # "ctor"
                          /\ UNCHANGED <<status, handler, initialized, connected, inherited>>
    PROVE  CallInv'
  <1>1. stack' \in Seq(Frames) /\ Len(stack') = 1 /\ stack'[1] = f
    OBVIOUS
  <1>2. CallTypes'
    BY <1>1, TrapAssumption DEF CallInv, CallTypes
  <1>3. AnswerInv' /\ NoBypass'
    BY DEF AnswerInv, NoBypass, NoAnswer, Answer
  <1>4. NestInv'
    BY <1>1 DEF NestInv
  <1>5. FirstInv'
    BY <1>1 DEF CallInv, FirstInv
  <1> QED BY <1>2, <1>3, <1>4, <1>5 DEF CallInv

\* The stack becomes empty.
LEMMA EmptyStep ==
    ASSUME CallInv, stack' = <<>>, CallTypes', NoBypass',
           ~inherited' => /\ filter' => handler' /\ initialized'
                          /\ connected' => status' \notin {"SIGSYS", "SIGSEGV"}
    PROVE  CallInv'
  <1>1. Len(stack') = 0
    OBVIOUS
  <1>2. AnswerInv' /\ NestInv' /\ FirstInv'
    BY <1>1 DEF AnswerInv, NestInv, FirstInv
  <1> QED BY <1>2 DEF CallInv

\* A trap on top of the calls s: the handler runs, or the process ends.
LEMMA TrapOutcome ==
    ASSUME CallTypes, NEW fn \in Dispatched, NEW s \in Seq(Frames), Len(s) <= STACK_FRAMES,
           Trap(fn, s), UNCHANGED <<filter, imagevars, inherited>>
    PROVE  /\ filter /\ CallTypes'
           /\ \/ /\ handler /\ status' = status /\ Len(s) < STACK_FRAMES
                 /\ stack' \in Seq(Frames) /\ Len(stack') = Len(s) + 1
                 /\ stack'[1] = Frame(fn, "trap")
                 /\ \A j \in 2 .. Len(s) + 1 : stack'[j] = s[j - 1]
              \/ /\ stack' = <<>> /\ status' \in {"SIGSYS", "SIGSEGV"}
                 /\ ~handler \/ Len(s) = STACK_FRAMES
  <1>1. filter /\ fn \in Wrapped
    BY Trapped DEF Trap
  <1>2. Frame(fn, "trap") \in Frames
    BY <1>1, NewFrame
  <1>3. Len(s) \in Nat /\ STACK_FRAMES \in Nat
    BY TrapAssumption
  <1>4. CASE handler /\ Len(s) < STACK_FRAMES
    <2>1. stack' = <<Frame(fn, "trap")>> \o s /\ status' = status
      BY <1>4 DEF Trap
    <2>2. /\ stack' \in Seq(Frames) /\ Len(stack') = Len(s) + 1
          /\ stack'[1] = Frame(fn, "trap")
          /\ \A j \in 2 .. Len(s) + 1 : stack'[j] = s[j - 1]
      BY <1>2, <2>1, Pushed
    <2> QED BY <1>1, <1>3, <1>4, <2>1, <2>2 DEF CallTypes, imagevars
  <1>5. CASE ~(handler /\ Len(s) < STACK_FRAMES)
    <2>1. stack' = <<>> /\ status' \in {"SIGSYS", "SIGSEGV"}
      BY <1>5 DEF Trap
    <2>2. stack' \in Seq(Frames) /\ Len(stack') <= STACK_FRAMES
      BY <1>3, <2>1
    <2> QED BY <1>1, <1>3, <1>5, <2>1, <2>2 DEF CallTypes, imagevars
  <1> QED BY <1>4, <1>5

\* The program makes a call.
LEMMA CallStep ==
    ASSUME CallInv, Call
    PROVE  CallInv'
  <1> USE DEF CallInv
  <1>0. inherited' = inherited
    BY DEF Call
  <1>1. ASSUME NEW fn, CallWrapper(fn) \/ CallSyscall(fn)
        PROVE  CallInv'
    <2>1. PICK via \in {"libc", "syscall"} :
             /\ fn \in Wrapped /\ fn # "ctor" /\ stack' = <<Frame(fn, via)>>
             /\ answer' = NoAnswer /\ UNCHANGED <<status, filter>>
             /\ UNCHANGED <<handler, initialized, connected, resolved, resolving>>
      BY <1>1, Trapped DEF CallWrapper, CallSyscall, Wrapped, TimeFns, imagevars
    <2>2. /\ Frame(fn, via) \in Frames /\ Frame(fn, via).pc = "init"
          /\ Frame(fn, via).fn = fn
      BY <2>1, NewFrame
    <2> QED BY <1>0, <2>1, <2>2, BeginStep DEF CallTypes
  <1>2. ASSUME NEW fn, CallDirect(fn)
        PROVE  CallInv'
    <2>1. /\ stack = <<>> /\ fn \in Dispatched /\ Trap(fn, <<>>) /\ answer' = NoAnswer
          /\ filter' = filter /\ UNCHANGED imagevars
      BY <1>2 DEF CallDirect, Idle
    <2>2. <<>> \in Seq(Frames) /\ Len(<<>>) = 0 /\ STACK_FRAMES > 0 /\ STACK_FRAMES \in Nat
      BY EmptySeq, TrapAssumption
    <2>3. /\ filter /\ CallTypes'
          /\ \/ /\ handler /\ status' = status
                /\ stack' \in Seq(Frames) /\ Len(stack') = 1
                /\ stack'[1] = Frame(fn, "trap")
             \/ /\ stack' = <<>> /\ status' \in {"SIGSYS", "SIGSEGV"}
                /\ ~handler
      <3> DEFINE s == <<>>
      <3>1. /\ s \in Seq(Frames) /\ Len(s) = 0 /\ Len(s) <= STACK_FRAMES
            /\ Len(s) # STACK_FRAMES /\ Trap(fn, s)
        BY <2>1, <2>2
      <3> HIDE DEF s
      <3>2. CallTypes /\ fn \in Dispatched /\ UNCHANGED <<filter, imagevars, inherited>>
        BY <1>0, <2>1
      <3>3. /\ filter /\ CallTypes'
            /\ \/ /\ handler /\ status' = status /\ Len(s) < STACK_FRAMES
                  /\ stack' \in Seq(Frames) /\ Len(stack') = Len(s) + 1
                  /\ stack'[1] = Frame(fn, "trap")
                  /\ \A j \in 2 .. Len(s) + 1 : stack'[j] = s[j - 1]
               \/ /\ stack' = <<>> /\ status' \in {"SIGSYS", "SIGSEGV"}
                  /\ ~handler \/ Len(s) = STACK_FRAMES
        BY <3>1, <3>2, TrapOutcome
      <3> QED BY <3>1, <3>3
    <2>4. Frame(fn, "trap").pc = "init" /\ Frame(fn, "trap").fn # "ctor"
      BY <2>1, NewFrame, Trapped
    <2>5. AnswerInv' /\ NoBypass'
      BY <2>1 DEF AnswerInv, NoBypass, NoAnswer, Answer
    <2>6. CASE stack' = <<>> /\ ~handler
      BY <1>0, <2>1, <2>3, <2>5, <2>6, EmptyStep DEF FirstInv, imagevars
    <2>7. CASE Len(stack') = 1 /\ status' = status /\ stack'[1] = Frame(fn, "trap")
      <3>1. NestInv'
        BY <2>1, <2>3, <2>4, <2>7 DEF NestInv, imagevars
      <3>2. FirstInv'
        BY <1>0, <2>1, <2>3, <2>4, <2>7 DEF FirstInv, imagevars
      <3> QED BY <2>3, <2>5, <3>1, <3>2
    <2> QED BY <2>3, <2>6, <2>7
  <1>3. ASSUME NEW fn, CallKernel(fn) \/ CallSyscallDefault(fn)
        PROVE  CallInv'
    <2>1. PICK via \in {"direct", "syscall"} :
             /\ via = "syscall" => fn \notin Dispatched
             /\ KernelAnswers(fn, via)
      BY <1>3 DEF CallKernel, CallSyscallDefault, Untrapped, Dispatched
    <2>2. stack = <<>> /\ UNCHANGED <<status, filter, imagevars, stack>>
      BY <2>1 DEF KernelAnswers, Idle
    <2>3. answer'.src = "real" => /\ fn \in Dispatched \cup Untrapped
                                  /\ answer'.fn = fn /\ answer'.via = via
      BY <2>1 DEF KernelAnswers, NoAnswer, Answer
    <2>4. fn \in Dispatched => ~filter
      BY <2>1, Trapped DEF KernelAnswers
    <2>5. CallTypes'
      BY <1>0, <2>2 DEF CallTypes, imagevars
    <2>6. NoBypass'
      BY <2>1, <2>2, <2>3, <2>4 DEF NoBypass
    <2> QED BY <1>0, <2>2, <2>5, <2>6, EmptyStep DEF FirstInv, imagevars
  <1>4. CASE CallClockGettime
    <2>1. /\ stack' = <<Frame("clock_gettime", "libc")>> /\ answer' = NoAnswer
          /\ resolved' = TRUE
          /\ UNCHANGED <<status, filter, handler, initialized, connected, resolving>>
      BY <1>4 DEF CallClockGettime
    <2>2. LET f == Frame("clock_gettime", "libc")
          IN  f \in Frames /\ f.pc = "init" /\ f.fn # "ctor"
      BY NewFrame, Trapped, ClockIsDispatched
    <2> QED BY <1>0, <2>1, <2>2, BeginStep DEF CallTypes
  <1>5. ASSUME NEW fn, CallAgain \/ CallSyscallAgain(fn)
        PROVE  CallInv'
    <2>1. /\ stack = <<>> /\ UNCHANGED <<status, filter, imagevars, stack>>
          /\ answer'.src = "error"
      BY <1>5 DEF CallAgain, CallSyscallAgain, Idle, Answer
    <2>2. CallTypes' /\ NoBypass'
      BY <1>0, <2>1 DEF CallTypes, NoBypass, imagevars
    <2> QED BY <1>0, <2>1, <2>2, EmptyStep DEF FirstInv, imagevars
  <1> QED BY <1>1, <1>2, <1>3, <1>4, <1>5 DEF Call

\* linbox_init_state and linbox_fallback_now issue a system call.  It traps if
\* the process has the filter, and then the call waits below the new one.
LEMMA AskStep ==
    ASSUME CallInv, NEW pc \in {"connect", "fallback"}, stack # <<>>,
           \/ pc = "connect" /\ ~initialized /\ stack[1].pc = "init"
           \/ pc = "fallback" /\ initialized /\ ~connected /\ ~resolved,
           \/ Trap("clock_gettime", TopAt(pc))
           \/ ~Traps("clock_gettime") /\ stack' = TopAt(pc) /\ UNCHANGED status,
           UNCHANGED <<filter, imagevars, answer, inherited>>
    PROVE  CallInv'
  <1> USE DEF CallInv
  <1>0. /\ UNCHANGED <<filter, answer, inherited>>
        /\ UNCHANGED <<handler, initialized, connected, resolved, resolving>>
        /\ answer = NoAnswer
    BY DEF imagevars, AnswerInv
  <1>1. /\ TopAt(pc) \in Seq(Frames) /\ Len(TopAt(pc)) = Len(stack)
        /\ TopAt(pc)[1].pc = pc /\ TopAt(pc)[1].fn = stack[1].fn
        /\ \A j \in 2 .. Len(stack) : TopAt(pc)[j] = stack[j]
    BY Moved DEF CallTypes
  <1>2. Len(stack) \in Nat /\ Len(stack) > 0 /\ Len(stack) <= STACK_FRAMES
    BY EmptySeq DEF CallTypes
  <1>3. AnswerInv' /\ NoBypass'
    BY <1>0 DEF AnswerInv, NoBypass, NoAnswer, Answer
  <1>4. CASE stack' = TopAt(pc) /\ ~filter /\ status' = status
    <2>1. CallTypes'
      BY <1>0, <1>1, <1>4 DEF CallTypes
    <2>2. NestInv'
      BY <1>0, <1>1, <1>2, <1>4 DEF NestInv
    <2>3. FirstInv'
      BY <1>0, <1>4 DEF FirstInv
    <2> QED BY <1>3, <2>1, <2>2, <2>3
  <1>5. CASE Trap("clock_gettime", TopAt(pc))
    <2> DEFINE f == Frame("clock_gettime", "trap")
    <2>1. /\ filter /\ CallTypes'
          /\ \/ /\ handler /\ status' = status
                /\ stack' \in Seq(Frames) /\ Len(stack') = Len(stack) + 1
                /\ stack'[1] = f
                /\ \A j \in 2 .. Len(stack) + 1 : stack'[j] = TopAt(pc)[j - 1]
             \/ stack' = <<>> /\ status' \in {"SIGSYS", "SIGSEGV"}
      BY <1>0, <1>1, <1>2, <1>5, TrapOutcome, ClockIsDispatched
    <2>2. f.pc = "init" /\ f.fn # "ctor"
      BY NewFrame, Trapped, ClockIsDispatched
    <2> HIDE DEF f
    <2>3. ~inherited => initialized /\ ~connected
      BY <2>1 DEF FirstInv
    <2>4. CASE stack' = <<>>
      BY <1>0, <1>3, <2>1, <2>3, <2>4, EmptyStep DEF FirstInv
    <2>5. CASE /\ status' = status /\ Len(stack') = Len(stack) + 1 /\ stack'[1] = f
               /\ \A j \in 2 .. Len(stack) + 1 : stack'[j] = TopAt(pc)[j - 1]
      <3>1. stack'[2].pc = pc /\ \A j \in 3 .. Len(stack) + 1 : stack'[j] = stack[j - 1]
        BY <1>1, <1>2, <2>5
      <3>2. NestInv'
        <4>1. ASSUME NEW j \in 1 .. Len(stack) + 1
              PROVE  j = 1 \/ j = 2 \/ (j \in 3 .. Len(stack) + 1 /\ j - 1 \in 2 .. Len(stack))
          BY <1>2
        <4>2. \A k \in 2 .. Len(stack) :
                /\ stack[k].pc \in {"connect", "await"} => ~initialized
                /\ stack[k].pc = "fallback" => initialized /\ ~connected /\ ~resolved
                /\ initialized => stack[k].pc = "fallback"
          BY <1>2 DEF NestInv
        <4>3. \A j \in 1 .. Len(stack) + 1 :
                /\ stack'[j].pc \in {"connect", "await"} => ~initialized
                /\ stack'[j].pc = "fallback" => initialized /\ ~connected /\ ~resolved
          BY <2>2, <2>5, <3>1, <4>1, <4>2
        <4>4. initialized => pc = "fallback"
          OBVIOUS
        <4>5. initialized => \A j \in 2 .. Len(stack) + 1 : stack'[j].pc = "fallback"
          BY <1>2, <3>1, <4>1, <4>2, <4>4
        <4> QED BY <1>0, <2>1, <2>2, <2>5, <4>3, <4>5 DEF NestInv
      <3>3. FirstInv'
        <4>1. stack'[2].fn = stack[1].fn
          BY <1>1, <1>2, <2>5
        <4> QED BY <1>0, <1>2, <2>2, <2>5, <3>1, <4>1 DEF FirstInv
      <3> QED BY <1>3, <2>1, <3>2, <3>3
    <2> QED BY <2>1, <2>4, <2>5
  <1> QED BY <1>4, <1>5, Trapped, ClockIsDispatched

\* A call that is ready belongs to an initialised process.
LEMMA ReadyInitialised ==
    ASSUME CallInv, NEW fns, Ready(fns)
    PROVE  initialized /\ stack # <<>> /\ Top.fn \in fns
  BY DEF CallInv, NestInv, Ready, Running, Top

\* The innermost call returns; the kernel's own answer only where the process is
\* not connected.
LEMMA PopStep ==
    ASSUME CallInv, NEW src, stack # <<>>, initialized \/ Len(stack) = 1,
           src = "real" => ~connected,
           Return(src), UNCHANGED <<status, filter, imagevars, inherited>>
    PROVE  CallInv'
  <1> USE DEF CallInv
  <1>0. /\ UNCHANGED <<status, filter, inherited>>
        /\ UNCHANGED <<handler, initialized, connected, resolved, resolving>>
        /\ answer = NoAnswer
    BY DEF imagevars, AnswerInv
  <1>1. /\ stack' \in Seq(Frames) /\ Len(stack') = Len(stack) - 1
        /\ \A j \in 1 .. Len(stack) - 1 : stack'[j] = stack[j + 1]
        /\ (stack' # <<>>) => Len(stack) > 1
    BY Popped DEF Return, CallTypes
  <1>2. Len(stack) \in Nat /\ Len(stack) > 0 /\ Len(stack) <= STACK_FRAMES
    BY EmptySeq DEF CallTypes
  <1>3. CallTypes'
    BY <1>0, <1>1, <1>2, TrapAssumption DEF CallTypes
  <1>4. Len(stack) > 1 => answer' = answer
    BY DEF Return
  <1>5. AnswerInv'
    BY <1>0, <1>1, <1>4 DEF AnswerInv
  <1>6. NoBypass'
    <2>1. CASE Len(stack) > 1
      BY <1>0, <1>4, <2>1 DEF NoBypass, NoAnswer, Answer
    <2>2. CASE ~(Len(stack) > 1)
      BY <1>0, <2>2 DEF Return, NoBypass, Answer
    <2> QED BY <2>1, <2>2
  <1>7. NestInv'
    <2>1. ASSUME stack' # <<>> PROVE initialized /\ stack'[1].pc = "fallback"
      BY <1>1, <1>2, <2>1 DEF NestInv
    <2> QED BY <1>0, <1>1, <1>2, <2>1 DEF NestInv
  <1>8. FirstInv'
    BY <1>0, <1>1, <1>2 DEF FirstInv
  <1> QED BY <1>3, <1>5, <1>6, <1>7, <1>8

\* Only a process without the filter gets as far as connecting.
LEMMA ConnectsUnfiltered ==
    ASSUME CallInv, stack # <<>>, stack[1].pc \in {"connect", "await"}
    PROVE  ~initialized /\ ~filter /\ Len(stack) = 1
  <1> USE DEF CallInv
  <1>1. Len(stack) \in Nat /\ Len(stack) > 0
    BY EmptySeq DEF CallTypes
  <1>2. ~initialized
    BY <1>1 DEF NestInv
  <1>3. ~filter
    BY <1>2 DEF NestInv
  <1>4. Len(stack) <= 1
    BY <1>3 DEF NestInv
  <1>5. Len(stack) = 1
    <2>1. \A n \in Nat : n > 0 /\ n <= 1 => n = 1
      OBVIOUS
    <2> QED BY <1>1, <1>4, <2>1
  <1> QED BY <1>2, <1>3, <1>5

\* It waits for the controller,
LEMMA InitWaitsStep ==
    ASSUME CallInv, InitWaits, inherited' = inherited
    PROVE  CallInv'
  <1> USE DEF CallInv
  <1>0. /\ stack # <<>> /\ stack[1].pc = "connect" /\ stack' = TopAt("await")
        /\ UNCHANGED <<status, filter, answer>>
        /\ UNCHANGED <<handler, initialized, connected, resolved, resolving>>
    BY DEF InitWaits, Running, Top, imagevars
  <1>1. ~initialized /\ ~filter /\ Len(stack) = 1
    BY <1>0, ConnectsUnfiltered
  <1>2. /\ stack' \in Seq(Frames) /\ Len(stack') = Len(stack) /\ stack'[1].pc = "await"
    BY <1>0, Moved DEF CallTypes
  <1>3. CallTypes'
    BY <1>0, <1>2 DEF CallTypes
  <1>4. AnswerInv' /\ NoBypass'
    BY <1>0 DEF AnswerInv, NoBypass, NoAnswer, Answer
  <1>5. NestInv'
    <2>1. Len(stack') = 1 /\ \A j \in 1 .. Len(stack') : stack'[j].pc = "await"
      BY <1>1, <1>2
    <2> QED BY <1>0, <1>1, <2>1 DEF NestInv
  <1>6. FirstInv'
    BY <1>0, <1>1 DEF FirstInv
  <1> QED BY <1>3, <1>4, <1>5, <1>6

\* and goes on with it or without.
LEMMA InitEndsStep ==
    ASSUME CallInv, InitFails \/ HandshakeEnds, inherited' = inherited
    PROVE  CallInv'
  <1> USE DEF CallInv
  <1>0. /\ stack # <<>> /\ stack[1].pc \in {"connect", "await"} /\ status = "up"
        /\ connected' \in BOOLEAN /\ initialized' = TRUE /\ stack' = TopAt("ready")
        /\ UNCHANGED <<status, filter, handler, resolved, resolving, answer>>
    BY DEF InitFails, HandshakeEnds, Running, Top
  <1>1. ~filter /\ Len(stack) = 1
    BY <1>0, ConnectsUnfiltered
  <1>2. /\ stack' \in Seq(Frames) /\ Len(stack') = Len(stack) /\ stack'[1].pc = "ready"
    BY <1>0, Moved DEF CallTypes
  <1>3. CallTypes'
    BY <1>0, <1>2 DEF CallTypes
  <1>4. AnswerInv' /\ NoBypass'
    BY <1>0 DEF AnswerInv, NoBypass, NoAnswer, Answer
  <1>5. NestInv'
    <2>1. Len(stack') = 1 /\ \A j \in 1 .. Len(stack') : stack'[j].pc = "ready"
      BY <1>1, <1>2
    <2> QED BY <1>0, <2>1 DEF NestInv
  <1>6. FirstInv'
    BY <1>0, <1>1 DEF FirstInv
  <1> QED BY <1>3, <1>4, <1>5, <1>6

\* The handler comes before the filter.
LEMMA CtorInstallsStep ==
    ASSUME CallInv, NEW on \in BOOLEAN, CtorInstalls(on), inherited' = inherited
    PROVE  CallInv'
  <1> USE DEF CallInv
  <1>1. PICK ok1 \in BOOLEAN, ok2 \in BOOLEAN : Installed(on, ok1, ok2)
    BY DEF CtorInstalls
  <1>2. /\ handler' = (on /\ ok1) /\ filter' = (filter \/ (on /\ ok1 /\ ok2))
        /\ stack' = <<>>
        /\ UNCHANGED <<status, initialized, connected, resolved, resolving, answer>>
    BY <1>1 DEF CtorInstalls, Installed
  <1>3. initialized /\ stack # <<>> /\ stack[1].fn = "ctor" /\ answer = NoAnswer
    BY ReadyInitialised DEF CtorInstalls, Top, AnswerInv
  <1>4. ~inherited => ~filter
    <2>1. 1 \in 1 .. Len(stack)
      BY <1>3, EmptySeq DEF CallTypes
    <2> QED BY <1>3, <2>1 DEF FirstInv
  <1>5. CallTypes'
    <2>1. handler' \in BOOLEAN /\ filter' \in BOOLEAN
      BY <1>2 DEF CallTypes
    <2>2. stack' \in Seq(Frames) /\ Len(stack') <= STACK_FRAMES
      BY <1>2, EmptySeq, TrapAssumption
    <2> QED BY <1>2, <2>1, <2>2 DEF CallTypes
  <1>6. NoBypass'
    BY <1>2, <1>3 DEF NoBypass, NoAnswer, Answer
  <1>7. ~inherited' => /\ filter' => handler' /\ initialized'
                       /\ connected' => status' \notin {"SIGSYS", "SIGSEGV"}
    BY <1>2, <1>3, <1>4 DEF FirstInv
  <1> QED BY <1>2, <1>5, <1>6, <1>7, EmptyStep

LEMMA ShimStepKeeps ==
    ASSUME CallInv, NEW on \in BOOLEAN, ShimStep(on), inherited' = inherited
    PROVE  CallInv'
  <1>1. CASE BadArgument
    BY <1>1, PopStep DEF BadArgument, Running
  <1>2. CASE InitClock
    <2>1. /\ stack # <<>> /\ ~initialized /\ stack[1].pc = "init"
          /\ \/ Trap("clock_gettime", TopAt("connect"))
             \/ ~Traps("clock_gettime") /\ stack' = TopAt("connect") /\ UNCHANGED status
          /\ UNCHANGED <<filter, imagevars, answer, inherited>>
      BY <1>2 DEF InitClock, Running, Top
    <2> QED BY <2>1, AskStep
  <1>3. CASE InitFails \/ InitWaits
    BY <1>3, InitEndsStep, InitWaitsStep
  <1>4. CASE AnswerVirtual
    <2>1. initialized /\ stack # <<>>
      BY <1>4, ReadyInitialised DEF AnswerVirtual
    <2>2. PICK src \in {"error", "virtual"} : Return(src)
      BY <1>4 DEF AnswerVirtual
    <2> QED BY <1>4, <2>1, <2>2, PopStep DEF AnswerVirtual
  <1>5. CASE AnswerReal
    BY <1>5, ReadyInitialised, PopStep DEF AnswerReal
  <1>6. CASE FallbackSyscall
    <2>1. initialized /\ stack # <<>> /\ ~connected /\ ~resolved
      BY <1>6, ReadyInitialised DEF FallbackSyscall, Fallback
    <2>2. /\ \/ Trap("clock_gettime", TopAt("fallback"))
             \/ ~Traps("clock_gettime") /\ stack' = TopAt("fallback") /\ UNCHANGED status
          /\ UNCHANGED <<filter, imagevars, answer, inherited>>
      BY <1>6 DEF FallbackSyscall
    <2> QED BY <2>1, <2>2, AskStep
  <1>7. CASE FallbackReturns
    <2>1. stack # <<>> /\ stack[1].pc = "fallback"
      BY <1>7 DEF FallbackReturns, Running, Top
    <2>2. 1 \in 1 .. Len(stack)
      BY <2>1, EmptySeq DEF CallInv, CallTypes
    <2>3. initialized /\ ~connected
      BY <2>1, <2>2 DEF CallInv, NestInv
    <2> QED BY <1>7, <2>1, <2>3, PopStep DEF FallbackReturns
  <1>8. CASE AnswerLocal
    BY <1>8, ReadyInitialised, PopStep DEF AnswerLocal
  <1>9. CASE CtorInstalls(on)
    BY <1>9, CtorInstallsStep
  <1>10. CASE ChildReady
    <2>1. /\ stack' = <<>> /\ UNCHANGED <<status, filter, imagevars, answer>>
          /\ initialized /\ stack # <<>>
      BY <1>10, ReadyInitialised DEF ChildReady
    <2>2. stack' \in Seq(Frames) /\ Len(stack') <= STACK_FRAMES
      BY <2>1, EmptySeq, TrapAssumption
    <2>3. CallTypes' /\ NoBypass'
      BY <2>1, <2>2 DEF CallInv, CallTypes, NoBypass, imagevars
    <2> QED BY <2>1, <2>3, EmptyStep DEF CallInv, FirstInv, imagevars
  <1> QED BY <1>1, <1>2, <1>3, <1>4, <1>5, <1>6, <1>7, <1>8, <1>9, <1>10 DEF ShimStep

\* The forked child, and the new program: both have the filter of the process
\* they come from.
LEMMA NewProcessStep ==
    ASSUME CallInv, Fork \/ NewImage
    PROVE  CallInv'
  <1> USE DEF CallInv
  <1>1. CASE Fork
    <2>1. /\ stack' = <<Frame("child", "libc")>> /\ answer' = NoAnswer
          /\ initialized' = FALSE /\ connected' = FALSE /\ inherited' = TRUE
          /\ resolving' \in {"no", "orphan"}
          /\ UNCHANGED <<status, filter, handler, resolved>>
      BY <1>1 DEF Fork, Reinit
    <2>2. Frame("child", "libc") \in Frames /\ Frame("child", "libc").pc = "init"
      BY NewFrame
    <2> QED BY <2>1, <2>2, BeginStep DEF CallTypes
  <1>2. CASE NewImage
    <2>1. /\ handler' = FALSE /\ initialized' = FALSE /\ connected' = FALSE
          /\ resolved' = FALSE /\ resolving' = "no" /\ answer' = NoAnswer
          /\ filter' = filter /\ inherited' = TRUE
          /\ \/ status' = "up" /\ stack' = <<Frame("ctor", "libc")>>
             \/ status' = "unboxed" /\ stack' = <<>>
      BY <1>2 DEF NewImage, LoadImage
    <2>2. Frame("ctor", "libc") \in Frames /\ Frame("ctor", "libc").pc = "init"
      BY NewFrame
    <2>3. CASE stack' = <<Frame("ctor", "libc")>>
      BY <2>1, <2>2, <2>3, BeginStep
    <2>4. CASE stack' = <<>>
      <3>1. stack' \in Seq(Frames) /\ Len(stack') <= STACK_FRAMES
        BY <2>4, EmptySeq, TrapAssumption
      <3>2. CallTypes' /\ NoBypass'
        BY <2>1, <3>1 DEF CallTypes, NoBypass, NoAnswer, Answer
      <3> QED BY <2>1, <2>4, <3>2, EmptyStep
    <2> QED BY <2>1, <2>3, <2>4
  <1> QED BY <1>1, <1>2

LEMMA CallNext ==
    ASSUME CallInv, [Next]_vars
    PROVE  CallInv'
  <1>1. ASSUME UNCHANGED <<status, filter, stack, inherited>>,
               UNCHANGED <<handler, initialized, connected, resolved>>,
               resolving' \in {"no", "thread", "orphan"},
               answer' \in {answer, NoAnswer}
        PROVE  CallInv'
    <2>1. CallTypes'
      BY <1>1 DEF CallInv, CallTypes
    <2>2. AnswerInv' /\ NoBypass'
      BY <1>1 DEF CallInv, AnswerInv, NoBypass, NoAnswer, Answer
    <2>3. NestInv' /\ FirstInv'
      BY <1>1 DEF CallInv, NestInv, FirstInv
    <2> QED BY <2>1, <2>2, <2>3 DEF CallInv
  <1>2. resolving \in {"no", "thread", "orphan"}
    BY DEF CallInv, CallTypes
  <1>3. CASE Call
    BY <1>3, CallStep
  <1>4. CASE Shim
    <2>1. seccomp_enabled \in BOOLEAN
      BY DEF seccomp_enabled
    <2> QED BY <1>4, <2>1, ShimStepKeeps DEF Shim
  <1>10. CASE Answered
    BY <1>10, InitEndsStep DEF Answered
  <1>5. CASE Fork \/ NewImage
    BY <1>5, NewProcessStep
  <1>6. CASE Start \/ Setenv \/ Inject \/ Descriptors
    <2>1. QuietTrap /\ inherited' = inherited
      BY <1>6 DEF Start, Setenv, Inject, Descriptors
    <2> QED BY <1>1, <1>2, <2>1 DEF QuietTrap, imagevars
  <1>7. CASE Clock
    BY <1>1, <1>2, <1>7 DEF Clock, imagevars
  <1>8. CASE OtherThread /\ inherited' = inherited
    BY <1>1, <1>8 DEF OtherThread
  <1>9. CASE UNCHANGED vars
    BY <1>1, <1>2, <1>9 DEF vars, trapvars, imagevars
  <1> QED BY <1>3, <1>4, <1>5, <1>6, <1>7, <1>8, <1>9, <1>10 DEF Next

\* The invariant of the calls in progress.
THEOREM CallInvariance == Spec => []CallInv
  <1>1. Init => CallInv
    <2> SUFFICES ASSUME Init PROVE CallInv
      OBVIOUS
    <2>1. /\ stack \in Seq(Frames) /\ Len(stack) = 1 /\ stack[1].pc = "init"
      BY NewFrame DEF Init
    <2>2. CallTypes
      <3>1. stack \in Seq(Frames) /\ Len(stack) <= STACK_FRAMES
        BY <2>1, TrapAssumption
      <3> QED BY <3>1 DEF Init, CallTypes
    <2>3. AnswerInv /\ NoBypass /\ FirstInv
      BY DEF Init, AnswerInv, NoBypass, FirstInv, NoAnswer, Answer
    <2>4. NestInv
      BY <2>1 DEF Init, NestInv
    <2> QED BY <2>2, <2>3, <2>4 DEF CallInv
  <1>2. CallInv /\ [Next]_vars => CallInv'
    BY CallNext
  <1> QED BY <1>1, <1>2, PTL DEF Spec

\* In a connected process the kernel answers no libc function for time or
\* randomness, and with the filter none of the four system calls the shim
\* dispatches, whichever way they are made; times and clock_getres are the two it
\* does answer (seccomp.c:29-65, sigsys.c:22-63, syscall-wrap.c:33-48).
THEOREM NoBypassHolds == Spec => []NoBypass
  <1>1. CallInv => NoBypass
    BY DEF CallInv
  <1> QED BY <1>1, CallInvariance, PTL

\* In an initialised process that can answer, a call traps at most once
\* (time.c:30-50, sigsys.c:69).
THEOREM TrapsOnceHolds == Spec => []TrapsOnce
  <1>1. ASSUME CallInv PROVE TrapsOnce
    <2> SUFFICES ASSUME initialized, connected \/ resolved,
                        NEW j \in 1 .. Len(stack), NEW k \in 1 .. Len(stack)
                 PROVE  j = k
      BY DEF TrapsOnce
    <2>1. Len(stack) \in Nat
      BY <1>1 DEF CallInv, CallTypes
    <2>2. \A i \in 2 .. Len(stack) : FALSE
      BY <1>1, <2>1 DEF CallInv, NestInv
    <2>3. Len(stack) <= 1
      BY <2>1, <2>2
    <2> QED BY <2>1, <2>3
  <1> QED BY <1>1, CallInvariance, PTL

\* The first program of a box, once connected, is not killed by what the shim
\* installed, whether sigaction and prctl succeeded or not (linbox.c:213-230).
THEOREM FirstImageSurvivesHolds == Spec => []FirstImageSurvives
  <1>1. CallInv => FirstImageSurvives
    BY DEF CallInv, FirstInv, FirstImageSurvives
  <1> QED BY <1>1, CallInvariance, PTL

-----------------------------------------------------------------------------
(* The clock. *)

\* A unit that divides the second: there are m of them.
LEMMA UnitsInSecond ==
    ASSUME NEW m \in Nat \ {0}, NSEC % m = 0
    PROVE  NSEC \div m \in Nat \ {0} /\ (NSEC \div m) * m = NSEC
  <1> DEFINE u == NSEC \div m
  <1>1. u \in Nat /\ NSEC = m * u + 0
    BY Division, NSECAssumption
  <1> HIDE DEF u
  <1>2. u # 0
    BY <1>1, NSECAssumption
  <1>3. u * m = NSEC
    BY <1>1
  <1> QED BY <1>1, <1>2, <1>3 DEF u

\* q units of the fraction n of a second, rounded down.
LEMMA RoundedDown ==
    ASSUME NEW sec \in Int, NEW n \in Nat, NEW m \in Nat, NEW u \in Nat, u * m = NSEC,
           NEW q \in Nat, q * u <= n, n < q * u + u
    PROVE  /\ (sec * m + q) * u \in Int
           /\ (sec * m + q) * u <= sec * NSEC + n
           /\ sec * NSEC + n < (sec * m + q) * u + u
  <1>1. (sec * m + q) * u = sec * (u * m) + q * u
    OBVIOUS
  <1>2. (sec * m + q) * u = sec * NSEC + q * u
    BY <1>1
  <1>3. sec * NSEC \in Int /\ q * u \in Int
    BY NSECAssumption
  <1> QED BY <1>2, <1>3

\* C's quotient of a multiple is exact.
LEMMA ExactQuotient ==
    ASSUME NEW x \in Int, NEW m \in Nat \ {0}
    PROVE  CDiv(x * m, m) = x
  <1>1. ASSUME NEW n \in Nat PROVE (n * m) \div m = n
    <2> DEFINE q == (n * m) \div m
               t == (n * m) % m
    <2>1. n * m \in Nat
      OBVIOUS
    <2>2. q \in Nat /\ t \in 0 .. m - 1 /\ n * m = m * q + t
      BY <2>1, Division
    <2> HIDE DEF q, t
    <2>3. (n - q) * m = t
      BY <2>2
    <2>4. n - q >= 1 => (n - q) * m >= m
      BY <2>2
    <2>5. n - q <= -1 => (n - q) * m <= -m
      BY <2>2
    <2>6. n = q
      BY <2>2, <2>3, <2>4, <2>5
    <2> QED BY <2>6 DEF q
  <1>2. CASE x >= 0
    <2>1. x * m >= 0 /\ x * m \in Int
      BY <1>2
    <2> QED BY <1>1, <1>2, <2>1 DEF CDiv
  <1>3. CASE x < 0
    <2>1. ~(x * m >= 0) /\ -(x * m) = (-x) * m /\ -x \in Nat
      BY <1>3
    <2>2. (-(x * m)) \div m = -x
      BY <1>1, <2>1
    <2>3. CDiv(x * m, m) = -((-(x * m)) \div m)
      BY <2>1 DEF CDiv
    <2> QED BY <2>2, <2>3
  <1> QED BY <1>2, <1>3

\* gettimeofday: microseconds, rounded down.
LEMMA UsecRoundsDown ==
    ASSUME NEW ts \in Timespec, Normalised(ts)
    PROVE  /\ Usec(ts) \in Int /\ NSEC \div USEC \in Nat \ {0}
           /\ Usec(ts) * (NSEC \div USEC) \in Int
           /\ Usec(ts) * (NSEC \div USEC) <= TotalNs(ts)
           /\ TotalNs(ts) < Usec(ts) * (NSEC \div USEC) + NSEC \div USEC
  <1> DEFINE u == NSEC \div USEC
             n == ts.nsec
             q == n \div u
             t == n % u
  <1>1. u \in Nat /\ u # 0 /\ u * USEC = NSEC
    BY UnitsInSecond, UnitsAssumption
  <1>2. ts.sec \in Int /\ n \in Nat
    BY NSECAssumption DEF Timespec, Normalised
  <1>4. Usec(ts) = ts.sec * USEC + q
    BY <1>2 DEF Usec, CDiv
  <1> HIDE DEF u, n
  <1>3. q \in Nat /\ q * u <= n /\ n < q * u + u
    <2>1. u > 0
      BY <1>1
    <2>2. q \in Nat /\ t \in 0 .. u - 1 /\ n = u * q + t
      BY <1>1, <1>2, <2>1, Division
    <2> HIDE DEF q, t
    <2>3. u * q = q * u /\ q * u \in Nat
      BY <1>1, <2>2
    <2> QED BY <1>1, <1>2, <2>2, <2>3
  <1> HIDE DEF q, t
  <1>5. Usec(ts) \in Int
    BY <1>2, <1>3, <1>4, UnitsAssumption
  <1>6. /\ Usec(ts) * u \in Int /\ Usec(ts) * u <= TotalNs(ts)
        /\ TotalNs(ts) < Usec(ts) * u + u
    <2>1. TotalNs(ts) = ts.sec * NSEC + n
      BY DEF TotalNs, n
    <2>2. USEC \in Nat
      BY UnitsAssumption
    <2>3. /\ (ts.sec * USEC + q) * u \in Int
          /\ (ts.sec * USEC + q) * u <= ts.sec * NSEC + n
          /\ ts.sec * NSEC + n < (ts.sec * USEC + q) * u + u
      BY <1>1, <1>2, <1>3, <2>2, RoundedDown, Zenon
    <2> QED BY <1>4, <2>1, <2>3, Zenon
  <1> QED BY <1>1, <1>5, <1>6 DEF u

\* times: clock ticks, rounded down.
LEMMA TicksRoundDown ==
    ASSUME NEW ts \in Timespec, Normalised(ts)
    PROVE  /\ times(ts) \in Int /\ NSEC \div HZ \in Nat \ {0}
           /\ times(ts) * (NSEC \div HZ) \in Int
           /\ times(ts) * (NSEC \div HZ) <= TotalNs(ts)
           /\ TotalNs(ts) < times(ts) * (NSEC \div HZ) + NSEC \div HZ
  <1> DEFINE u == NSEC \div HZ
             n == ts.nsec
             q == (n * HZ) \div NSEC
             r == (n * HZ) % NSEC
  <1>1. u \in Nat \ {0} /\ u * HZ = NSEC
    BY UnitsInSecond, UnitsAssumption
  <1>2. ts.sec \in Int /\ n \in Nat /\ n * HZ \in Nat
    BY NSECAssumption, UnitsAssumption DEF Timespec, Normalised
  <1>3. times(ts) = ts.sec * HZ + q
    BY <1>2 DEF times, CDiv
  <1>4. q \in Nat /\ r \in 0 .. NSEC - 1 /\ n * HZ = NSEC * q + r
    BY <1>2, Division, NSECAssumption
  <1> HIDE DEF u, n, q, r
  <1>5. q * u \in Nat /\ (n - q * u) * HZ = r
    <2>1. NSEC * q = (q * u) * HZ
      BY <1>1, <1>4, UnitsAssumption
    <2> QED BY <1>1, <1>2, <1>4, <2>1, UnitsAssumption
  <1>6. q * u <= n
    <2>1. n - q * u <= -1 => (n - q * u) * HZ <= -HZ
      BY <1>2, <1>5, UnitsAssumption
    <2> QED BY <1>2, <1>4, <1>5, <2>1, UnitsAssumption
  <1>7. n < q * u + u
    <2>1. n - q * u >= u => (n - q * u) * HZ >= u * HZ
      BY <1>1, <1>2, <1>5, UnitsAssumption
    <2> QED BY <1>1, <1>2, <1>4, <1>5, <2>1, NSECAssumption
  <1>8. times(ts) \in Int
    BY <1>2, <1>3, <1>4, UnitsAssumption
  <1>9. /\ times(ts) * u \in Int /\ times(ts) * u <= ts.sec * NSEC + n
        /\ ts.sec * NSEC + n < times(ts) * u + u
    <2>1. HZ \in Nat /\ u \in Nat
      BY <1>1, UnitsAssumption
    <2>2. /\ (ts.sec * HZ + q) * u \in Int
          /\ (ts.sec * HZ + q) * u <= ts.sec * NSEC + n
          /\ ts.sec * NSEC + n < (ts.sec * HZ + q) * u + u
      BY <1>1, <1>2, <1>4, <1>6, <1>7, <2>1, RoundedDown, Zenon
    <2> QED BY <1>3, <2>2, Zenon
  <1> QED BY <1>1, <1>8, <1>9 DEF TotalNs, u, n

\* Every clock function answers the time, rounded down to its unit: also before
\* the epoch, since tv_nsec is never negative.  A clock() that overflows may not.
LEMMA AnswersRoundDown ==
    ASSUME NEW fn \in TimeFns, NEW ts \in Timespec, Normalised(ts),
           NEW v \in Answers(fn, ts), ~Overflows(fn, ts)
    PROVE  /\ Unit(fn) \in Nat \ {0} /\ v * Unit(fn) \in Int
           /\ v * Unit(fn) <= TotalNs(ts)
           /\ TotalNs(ts) < v * Unit(fn) + Unit(fn)
  <1>0. ts.sec \in Int /\ ts.nsec \in 0 .. NSEC - 1 /\ TotalNs(ts) \in Int
    BY NSECAssumption DEF Timespec, Normalised, TotalNs
  <1>1. CASE fn \in {"clock_gettime", "timespec_get"}
    <2>1. Unit(fn) = 1 /\ v = TotalNs(ts)
      BY <1>1 DEF Unit, Answers
    <2> QED BY <1>0, <2>1
  <1>2. CASE fn = "gettimeofday"
    <2>1. Unit(fn) = NSEC \div USEC /\ v = Usec(ts)
      BY <1>2 DEF Unit, Answers
    <2> QED BY <2>1, UsecRoundsDown
  <1>3. CASE fn = "clock"
    <2>1. Unit(fn) = NSEC \div USEC /\ v \in clock(ts)
      BY <1>3 DEF Unit, Answers
    <2>2. Usec(ts) \in Int /\ USEC \in Nat \ {0}
      BY UsecRoundsDown, UnitsAssumption
    <2>3. Usec(ts) * USEC \in -I64_HALF .. I64_HALF - 1
      BY <1>3 DEF Overflows
    <2>4. Int64(Usec(ts) * USEC) = Usec(ts) * USEC
      BY <2>3, FitsInt64
    <2>5. CDiv(Usec(ts) * USEC, USEC) = Usec(ts)
      BY <2>2, ExactQuotient
    <2>6. v = Usec(ts)
      BY <2>1, <2>4, <2>5 DEF clock
    <2> QED BY <2>1, <2>6, UsecRoundsDown
  <1>4. CASE fn = "times"
    <2>1. Unit(fn) = NSEC \div HZ /\ v = times(ts)
      BY <1>4 DEF Unit, Answers
    <2> QED BY <2>1, TicksRoundDown
  <1>5. CASE fn = "time"
    <2>1. Unit(fn) = NSEC /\ v = ts.sec
      BY <1>5 DEF Unit, Answers
    <2>2. ts.sec * NSEC \in Int
      BY <1>0, NSECAssumption
    <2> QED BY <1>0, <2>1, <2>2, NSECAssumption DEF TotalNs
  <1> QED BY <1>1, <1>2, <1>3, <1>4, <1>5 DEF TimeFns

\* The clock goes on: ns_add within int64_t is addition.
LEMMA TickStep ==
    ASSUME ClockInv, NEW d \in Deltas, vtime' = ns_add(vtime, d), vtime'.sec <= MAX_SEC
    PROVE  /\ vtime' \in Timespec /\ Normalised(vtime')
           /\ TotalNs(vtime') = TotalNs(vtime) + d /\ d \in Nat
  <1> DEFINE n == TotalNs(vtime)
  <1>1. d \in Nat /\ d \in Int /\ MAX_SEC \in Nat /\ (MAX_SEC + 1) * NSEC + d <= I64_HALF
    BY ClockAssumption
  <1>2. vtime.sec \in Int /\ vtime.nsec \in Int /\ 0 <= vtime.nsec /\ vtime.nsec < NSEC
        /\ vtime.sec <= MAX_SEC
    BY NSECAssumption DEF ClockInv, Timespec, Normalised
  <1>3. n \in Int /\ n < (MAX_SEC + 1) * NSEC
    <2>1. vtime.sec * NSEC <= MAX_SEC * NSEC
      BY <1>1, <1>2, NSECAssumption
    <2>2. (MAX_SEC + 1) * NSEC = MAX_SEC * NSEC + NSEC /\ MAX_SEC * NSEC \in Int
          /\ vtime.sec * NSEC \in Int
      BY <1>1, <1>2, NSECAssumption
    <2> QED BY <1>2, <2>1, <2>2, NSECAssumption DEF TotalNs
  <1>4. -I64_HALF <= n
    BY DEF ClockInv
  <1>5. (MAX_SEC + 1) * NSEC \in Int
    BY <1>1, NSECAssumption
  <1> HIDE DEF n
  <1>6. n + d \in -I64_HALF .. I64_HALF - 1
    BY <1>1, <1>3, <1>4, <1>5, WidthAssumption
  <1>7. Int64(n + d) = n + d
    BY <1>6, FitsInt64
  <1>8. vtime \in Timespec
    BY DEF ClockInv
  <1> QED BY <1>1, <1>7, <1>8, ns_addExact DEF n

\* The controller writes the time.
LEMMA ClockWritten ==
    ASSUME ClockInv, Clock
    PROVE  ClockInv'
  <1>0. back' = {}
    BY DEF Clock, ClockInv
  <1>1. ASSUME NEW d \in Deltas, vtime' = ns_add(vtime, d), vtime'.sec <= MAX_SEC,
               known' = known
        PROVE  ClockInv'
    <2>1. /\ vtime' \in Timespec /\ Normalised(vtime')
          /\ TotalNs(vtime') = TotalNs(vtime) + d /\ d \in Nat
      BY <1>1, TickStep
    <2>2. TotalNs(vtime) \in Int
      BY NSECAssumption DEF ClockInv, Timespec, TotalNs
    <2>3. known \in Int /\ known <= TotalNs(vtime) /\ -I64_HALF <= TotalNs(vtime)
      BY DEF ClockInv
    <2>4. known <= TotalNs(vtime') /\ -I64_HALF <= TotalNs(vtime')
      BY <2>1, <2>2, <2>3, WidthAssumption
    <2> QED BY <1>0, <1>1, <2>1, <2>3, <2>4 DEF ClockInv
  <1>2. ASSUME NEW t \in Times, vtime' = t, known' = Unknown
        PROVE  ClockInv'
    <2>1. t \in Timespec /\ Normalised(t) /\ t.sec <= MAX_SEC /\ -I64_HALF <= TotalNs(t)
      BY ClockAssumption
    <2>2. Unknown \in Int /\ Unknown = -I64_HALF
      BY WidthAssumption DEF Unknown
    <2> QED BY <1>0, <1>2, <2>1, <2>2 DEF ClockInv
  <1> QED BY <1>1, <1>2 DEF Clock

\* An answer teaches the program no more than is true, and an overflow nothing.
LEMMA ClockRead ==
    ASSUME ClockInv, NEW fn \in TimeFns, NEW v \in Answers(fn, vtime), Learn(fn, v)
    PROVE  ClockInv'
  <1> DEFINE from == v * Unit(fn)
             n == TotalNs(vtime)
             u == Unit(fn)
  <1>0. vtime' = vtime
    BY DEF Learn
  <1>1. CASE Overflows(fn, vtime)
    <2>1. known' = known /\ back' = back
      BY <1>1 DEF Learn
    <2> QED BY <1>0, <2>1 DEF ClockInv
  <1>2. CASE ~Overflows(fn, vtime)
    <2>1. /\ known' = IF from > known THEN from ELSE known
          /\ back' = IF from + u - 1 < known THEN back \cup {fn} ELSE back
      BY <1>2 DEF Learn
    <2>2. known \in Int /\ known <= n /\ n \in Int
      BY NSECAssumption DEF ClockInv, Timespec, TotalNs
    <2>3. u \in Nat \ {0} /\ from \in Int /\ from <= n /\ n < from + u
      BY <1>2, AnswersRoundDown DEF ClockInv
    <2> HIDE DEF from, u, n
    <2>4. ~(from + u - 1 < known)
      BY <2>2, <2>3
    <2>5. known' \in Int /\ known' <= n
      BY <2>1, <2>2, <2>3
    <2>6. back' = back
      BY <2>1, <2>4
    <2> QED BY <1>0, <2>5, <2>6 DEF ClockInv, n
  <1> QED BY <1>1, <1>2

LEMMA ClockNext ==
    ASSUME ClockInv, [Next]_vars
    PROVE  ClockInv'
  <1>1. ASSUME UNCHANGED timevars PROVE ClockInv'
    BY <1>1 DEF timevars, ClockInv
  <1>2. CASE Call
    <2>1. UNCHANGED timevars
      BY <1>2 DEF Call, CallWrapper, CallSyscall, CallDirect, CallKernel, CallSyscallDefault,
                  KernelAnswers, CallSyscallAgain, CallClockGettime, CallAgain
    <2> QED BY <1>1, <2>1
  <1>3. CASE Shim
    <2>1. CASE AnswerVirtual
      <3>1. Top.fn \in TimeFns
        BY <2>1 DEF AnswerVirtual, Ready, Running
      <3>2. UNCHANGED timevars \/ \E v \in Answers(Top.fn, vtime) : Learn(Top.fn, v)
        BY <2>1 DEF AnswerVirtual
      <3> QED BY <1>1, <3>1, <3>2, ClockRead
    <2>2. CASE UNCHANGED timevars
      BY <1>1, <2>2
    <2>3. AnswerVirtual \/ UNCHANGED timevars
      BY <1>3 DEF Shim, ShimStep, BadArgument, InitClock, InitFails, InitWaits, AnswerReal,
                  FallbackSyscall, FallbackReturns, AnswerLocal, CtorInstalls, ChildReady
    <2> QED BY <2>1, <2>2, <2>3
  <1>4. CASE Answered \/ Fork \/ NewImage
    BY <1>1, <1>4 DEF Answered, HandshakeEnds, Fork, Reinit, NewImage, LoadImage
  <1>5. CASE Start \/ Setenv \/ Inject \/ Descriptors
    <2>1. QuietTrap
      BY <1>5 DEF Start, Setenv, Inject, Descriptors
    <2> QED BY <1>1, <2>1 DEF QuietTrap
  <1>6. CASE Clock
    BY <1>6, ClockWritten
  <1>7. CASE OtherThread
    BY <1>1, <1>7 DEF OtherThread
  <1>8. CASE UNCHANGED vars
    BY <1>1, <1>8 DEF vars, trapvars
  <1> QED BY <1>2, <1>3, <1>4, <1>5, <1>6, <1>7, <1>8 DEF Next

\* The invariant of the clock: a program never knows of more time than has passed,
\* except from a clock() that overflowed (time.c:37-180, time-manager.c:58-74).
THEOREM ClockInvariance == Spec => []ClockInv
  <1>1. ASSUME Init PROVE ClockInv
    <2> DEFINE zero == [sec |-> 0, nsec |-> 0]
    <2>1. vtime = zero /\ known = Unknown /\ back = {}
      BY <1>1 DEF Init
    <2>2. zero \in Timespec /\ Normalised(zero) /\ zero.sec = 0 /\ TotalNs(zero) = 0
      BY NSECAssumption DEF Timespec, Normalised, TotalNs
    <2> HIDE DEF zero
    <2>3. Unknown \in Int /\ Unknown <= 0 /\ -I64_HALF <= 0
      BY WidthAssumption DEF Unknown
    <2> QED BY <2>1, <2>2, <2>3, ClockAssumption DEF ClockInv
  <1>2. ClockInv /\ [Next]_vars => ClockInv'
    BY ClockNext
  <1> QED BY <1>1, <1>2, PTL DEF Spec

\* No clock function says that less time has passed than another one has said
\* before, unless the time was set or clock() overflowed: for all units and all
\* steps of the clock (time.c:37-180).
THEOREM NeverBackHolds == Spec => []NeverBack
  <1>1. ClockInv => NeverBack
    BY DEF ClockInv, NeverBack
  <1> QED BY <1>1, ClockInvariance, PTL

\* The blocks a wrapper owns are entries of the new environment, or one of the two
\* arrays.
LEMMA HeapNames ==
    ASSUME EnvTypes, HeapInv
    PROVE  heap \subseteq Names \cup {"merged", "argv"}
  <1>1. CASE call = NoCall
    BY <1>1 DEF HeapInv
  <1>2. CASE call # NoCall
    <2>1. call \in Calls /\ call.out \in Nat /\ call.pc \in {"array", "entries", "kernel"}
      BY <1>2 DEF EnvTypes, Calls
    <2>2. Missing(call.envp) \in Seq(Names)
      BY MissingType
    <2>3. call.out <= Len(Missing(call.envp)) => Entries(call.envp, call.out) \subseteq Names
      BY <2>1, <2>2 DEF Entries
    <2>4. CASE call.pc = "array"
      BY <2>4 DEF HeapInv
    <2>5. CASE call.pc = "entries"
      BY <2>1, <2>2, <2>3, <2>5 DEF HeapInv
    <2>6. CASE call.pc = "kernel"
      BY <2>1, <2>2, <2>3, <2>6 DEF HeapInv, FreedAfter
    <2> QED BY <2>1, <2>4, <2>5, <2>6
  <1> QED BY <1>1, <1>2

\* Every variable of a process keeps its type, and the calls in progress fit on
\* the stack (sigsys.c:69).
THEOREM TypeCorrect == Spec => []TypeOK
  <1>1. ASSUME FdInv, EnvInv, CallInv, ClockInv
        PROVE  TypeOK
    <2>1. /\ status \in {"up", "unboxed", "SIGSYS", "SIGSEGV"}
          /\ filter \in BOOLEAN /\ handler \in BOOLEAN /\ initialized \in BOOLEAN
          /\ connected \in BOOLEAN /\ resolved \in BOOLEAN /\ inherited \in BOOLEAN
          /\ resolving \in {"no", "thread", "orphan"}
          /\ Len(stack) <= STACK_FRAMES
      BY <1>1 DEF CallInv, CallTypes
    <2>2. vtime \in Timespec /\ known \in Int /\ back \subseteq TimeFns
      BY <1>1 DEF ClockInv
    <2>3. /\ files \subseteq RealFds
          /\ virtual_fds \in [Index -> [fd : VirtualNumbers \cup {0}, used : BOOLEAN]]
      BY <1>1 DEF FdInv
    <2>4. touched \subseteq Names
      BY <1>1 DEF EnvInv, EnvTypes
    <2>5. heap \subseteq Names \cup {"merged", "argv"}
      BY <1>1, HeapNames DEF EnvInv
    <2> QED BY <2>1, <2>2, <2>3, <2>4, <2>5 DEF TypeOK
  <1> QED BY <1>1, FdInvariance, EnvInvariance, CallInvariance, ClockInvariance, PTL
=============================================================================
