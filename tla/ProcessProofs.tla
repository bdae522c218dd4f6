--------------------------- MODULE ProcessProofs ---------------------------
(***************************************************************************)
(* Proofs about Process, for every set of programs, environments and       *)
(* times, and for every size of the stack and of the descriptor table.     *)
(* Its parts touch different variables, so each has an invariant of its    *)
(* own: the descriptors, the environment, the calls and the clock.         *)
(***************************************************************************)
EXTENDS Process, TimespecProofs

-----------------------------------------------------------------------------
(* Descriptors. *)

\* An entry in use has the number that goes with its place in the table, so no
\* two have the same, and none has a number of the kernel.
FdInv ==
    /\ virtual_fds \in [Index -> [fd : VirtualNumbers \cup {0}, used : BOOLEAN]]
    /\ files \subseteq RealFds
    /\ \A k \in Index : virtual_fds[k].used => virtual_fds[k].fd = number_of(k)
    /\ FdsAgree

LEMMA Numbers ==
    /\ \A k \in Index : number_of(k) \in VirtualNumbers
    /\ \A j, k \in Index : number_of(j) = number_of(k) => j = k
    /\ RealFds \cap VirtualNumbers = {}
    /\ NoFd \in [fd : VirtualNumbers \cup {0}, used : BOOLEAN] /\ ~NoFd.used
  BY FdAssumption DEF Index, VirtualNumbers, number_of, NoFd

\* The numbers in use.
InUse == {virtual_fds[k].fd : k \in {j \in Index : virtual_fds[j].used}}

LEMMA OpenRandomStep ==
    ASSUME FdInv, OpenRandom
    PROVE  FdInv'
  <1>1. PICK k \in Index :
           /\ ~virtual_fds[k].used
           /\ virtual_fds' = [virtual_fds EXCEPT ![k] = [fd |-> number_of(k), used |-> TRUE]]
           /\ held' = held \cup {number_of(k)}
           /\ files' = files
    BY DEF OpenRandom
  <1>2. /\ virtual_fds' \in [Index -> [fd : VirtualNumbers \cup {0}, used : BOOLEAN]]
        /\ virtual_fds'[k].used /\ virtual_fds'[k].fd = number_of(k)
        /\ \A j \in Index \ {k} : virtual_fds'[j] = virtual_fds[j]
    BY <1>1, Numbers DEF FdInv
  <1>3. InUse' = InUse \cup {number_of(k)}
    BY <1>1, <1>2 DEF InUse
  <1>4. FdsAgree'
    BY <1>1, <1>3 DEF FdInv, FdsAgree, InUse
  <1> QED BY <1>1, <1>2, <1>4 DEF FdInv

LEMMA CloseStep ==
    ASSUME FdInv, NEW fd \in RealFds \cup VirtualNumbers, Close(fd)
    PROVE  FdInv'
  <1>1. held' = held \ {fd}
    BY DEF Close
  <1>2. CASE is_virtual_fd(fd)
    <2>1. PICK k \in Index : virtual_fds[k].used /\ virtual_fds[k].fd = fd
      BY <1>2 DEF is_virtual_fd
    <2>2. fd = number_of(k) /\ fd \in VirtualNumbers
      BY <2>1, Numbers DEF FdInv
    <2>3. virtual_fds' = [virtual_fds EXCEPT ![k] = NoFd]
      BY <1>2, <2>1, <2>2, Numbers DEF Close, Released, FdInv
    <2>4. files' = files
      BY <1>2 DEF Close
    <2>5. /\ virtual_fds' \in [Index -> [fd : VirtualNumbers \cup {0}, used : BOOLEAN]]
          /\ ~virtual_fds'[k].used
          /\ \A j \in Index \ {k} : virtual_fds'[j] = virtual_fds[j]
      BY <2>3, Numbers DEF FdInv
    <2>6. InUse' = InUse \ {fd}
      BY <2>1, <2>2, <2>5, Numbers DEF InUse, FdInv
    <2>7. FdsAgree'
      BY <1>1, <2>2, <2>4, <2>6, Numbers DEF FdInv, FdsAgree, InUse
    <2> QED BY <2>4, <2>5, <2>7 DEF FdInv
  <1>3. CASE ~is_virtual_fd(fd)
    <2>1. files' = files \ {fd} /\ virtual_fds' = virtual_fds
      BY <1>3 DEF Close
    <2>2. fd \notin InUse /\ InUse' = InUse
      BY <1>3, <2>1 DEF is_virtual_fd, InUse
    <2>3. FdsAgree'
      BY <1>1, <2>1, <2>2 DEF FdInv, FdsAgree, InUse
    <2> QED BY <2>1, <2>3 DEF FdInv
  <1> QED BY <1>2, <1>3

LEMMA FdNext ==
    ASSUME FdInv, [Next]_vars
    PROVE  FdInv'
  <1>1. CASE UNCHANGED fdvars
    BY <1>1 DEF fdvars, FdInv, FdsAgree
  <1>2. CASE Descriptors
    <2>1. CASE OpenFile
      <3>1. PICK fd \in RealFds : /\ files' = files \cup {fd} /\ held' = held \cup {fd}
                                  /\ virtual_fds' = virtual_fds
        BY <2>1 DEF OpenFile
      <3>2. FdsAgree'
        BY <3>1 DEF FdInv, FdsAgree
      <3> QED BY <3>1, <3>2 DEF FdInv
    <2> QED BY <1>2, <2>1, OpenRandomStep, CloseStep DEF Descriptors
  <1>3. CASE NewImage
    <2>1. /\ virtual_fds' = [k \in Index |-> NoFd]
          /\ held' = held \ VirtualNumbers /\ files' = files
      BY <1>3 DEF NewImage, NewImageFds
    <2>2. InUse \subseteq VirtualNumbers /\ InUse' = {}
      BY <2>1, Numbers DEF InUse, FdInv
    <2>3. held' = files
      BY <2>1, <2>2, Numbers DEF FdInv, FdsAgree, InUse
    <2>4. FdsAgree'
      BY <2>1, <2>2, <2>3 DEF FdsAgree, InUse
    <2> QED BY <2>1, <2>4, Numbers DEF FdInv
  <1> QED BY <1>1, <1>2, <1>3
          DEF Next, vars, Call, Shim, Answered, Fork, Start, Setenv, Inject, Clock

\* The invariant of the descriptor table: an entry in use holds its own number
\* (random.c:32-69).
THEOREM FdInvariance == Spec => []FdInv
  <1>1. Init => FdInv
    BY Numbers DEF Init, FdInit, FdInv, FdsAgree
  <1>2. FdInv /\ [Next]_vars => FdInv'
    BY FdNext
  <1> QED BY <1>1, <1>2, PTL DEF Spec

\* The descriptors the program has open are those of the table and those of the
\* kernel, through any sequence of opens, closes, forks and execs (random.c:32-69,
\* 135-170).
THEOREM FdsAgreeHolds == Spec => []FdsAgree
  <1>1. FdInv => FdsAgree
    BY DEF FdInv
  <1> QED BY <1>1, FdInvariance, PTL

-----------------------------------------------------------------------------
(* The environment. *)

Calls == [pc : {"array", "entries", "kernel"}, envp : Environments, null : BOOLEAN,
          out : Nat]

EnvTypes ==
    /\ environ \in Environments /\ root \in Roots /\ touched \subseteq Names
    /\ call = NoCall \/ call \in Calls

\* What the wrapper in progress owns, and will free whatever happens.
HeapInv ==
    /\ call = NoCall => heap = {}
    /\ call.pc = "array" => call.out = 0 /\ heap \subseteq {"argv"}
    /\ call.pc = "entries" =>
          /\ call.out < Len(Missing(call.envp))
          /\ heap \subseteq {"argv", "merged"} \cup Entries(call.envp, call.out)
    /\ call.pc = "kernel" =>
          /\ call.out <= Len(Missing(call.envp))
          /\ heap \subseteq {"argv"} \cup FreedAfter

\* A binding that is about to be handed down is the one of environ, or missing,
\* or a program's own.
TouchedInv ==
    call # NoCall =>
        \A n \in Names \ touched : call.envp[n] \in {Unset, environ[n]}

EnvInv == EnvTypes /\ HeapInv /\ TouchedInv /\ BoxInherited

\* A call in progress is a record with all its fields.
LEMMA InCall ==
    ASSUME EnvTypes, call.pc # "none"
    PROVE  /\ call \in Calls /\ call # NoCall
           /\ call.envp \in Environments /\ call.out \in Nat
  BY DEF EnvTypes, Calls, NoCall

LEMMA SameMissing ==
    ASSUME environ' = environ, call'.envp = call.envp
    PROVE  /\ Missing(call.envp)' = Missing(call.envp)
           /\ Entries(call.envp, call.out)' = Entries(call.envp, call'.out)
  <1>1. \A n \in Names : MissingIf(n, call.envp)' = MissingIf(n, call.envp)
    BY DEF MissingIf, Needs
  <1>2. Missing(call.envp)' = Missing(call.envp)
    BY <1>1 DEF Missing, Names
  <1> QED BY <1>2 DEF Entries

LEMMA MissingType ==
    ASSUME NEW envp
    PROVE  Missing(envp) \in Seq(Names)
  <1>1. \A n \in Names : MissingIf(n, envp) \in Seq(Names)
    BY DEF MissingIf
  <1>2. /\ "LD_PRELOAD" \in Names /\ "LINBOX_SOCK" \in Names
        /\ "LINBOX_SHM" \in Names /\ "LINBOX_DISABLE_SECCOMP" \in Names
    BY DEF Names
  <1> QED BY <1>1, <1>2 DEF Missing

\* The entry after those added so far is the next missing name.
LEMMA NextEntry ==
    ASSUME NEW envp, NEW out \in Nat
    PROVE  Entries(envp, out) \cup {Missing(envp)[out + 1]} = Entries(envp, out + 1)
  <1>1. 1 .. out + 1 = (1 .. out) \cup {out + 1}
    OBVIOUS
  <1> QED BY <1>1 DEF Entries

\* A new environment keeps the settings of the box that are not the program's own.
LEMMA MergedKeeps ==
    ASSUME EnvInv, call # NoCall, NEW n \in Names \ touched, root[n] # Empty,
           environ[n] = root[n]
    PROVE  Merged(call.envp)[n] = root[n]
  BY DEF EnvInv, TouchedInv, Merged, Needs

LEMMA BeginCallStep ==
    ASSUME EnvInv, NEW fn, NEW envp \in Environments, NEW null \in BOOLEAN,
           BeginCall(fn, envp, null), status' = status
    PROVE  EnvInv'
  <1> USE DEF EnvInv, EnvTypes
  <1> DEFINE pc == IF fn \in Uninjected THEN "kernel" ELSE "array"
  <1>1. /\ call = NoCall /\ call' = [pc |-> pc, envp |-> envp, null |-> null, out |-> 0]
        /\ environ' = environ /\ root' = root
        /\ touched' = touched \cup {n \in Names : envp[n] \notin {Unset, environ[n]}}
        /\ heap' \subseteq heap \cup {"argv"}
    BY DEF BeginCall
  <1>2. pc \in {"array", "kernel"}
    OBVIOUS
  <1> HIDE DEF pc
  <1>3. call' \in Calls /\ call'.pc = pc /\ call'.envp = envp /\ call'.out = 0
    BY <1>1, <1>2 DEF Calls
  <1>4. EnvTypes'
    BY <1>1, <1>3
  <1>5. HeapInv'
    <2>1. Len(Missing(envp))' \in Nat
      <3>1. Len(Missing(envp)) \in Nat
        BY MissingType
      <3>2. Missing(envp)' = Missing(envp)
        BY <1>1 DEF Missing, MissingIf, Needs
      <3> QED BY <3>1, <3>2
    <2>2. call' # NoCall /\ heap' \subseteq {"argv"}
      BY <1>1, <1>2, <1>3 DEF HeapInv, NoCall
    <2> QED BY <1>1, <1>2, <1>3, <2>1, <2>2 DEF HeapInv
  <1>6. TouchedInv'
    BY <1>1, <1>3 DEF TouchedInv
  <1>7. BoxInherited'
    BY <1>1 DEF BoxInherited
  <1> QED BY <1>4, <1>5, <1>6, <1>7

\* What a step inside a wrapper changes: its record and its blocks.
LEMMA WrapperStep ==
    ASSUME EnvInv, UNCHANGED <<environ, root, touched, status>>,
           call' = NoCall \/ (call # NoCall /\ call' \in Calls /\ call'.envp = call.envp),
           HeapInv'
    PROVE  EnvInv'
  <1>1. EnvTypes'
    BY DEF EnvInv, EnvTypes
  <1>2. TouchedInv'
    BY DEF EnvInv, TouchedInv
  <1>3. BoxInherited'
    BY DEF EnvInv, BoxInherited
  <1> QED BY <1>1, <1>2, <1>3 DEF EnvInv

\* Everything the wrapper owns is freed when it returns, wherever it fails.
LEMMA ReturnStep ==
    ASSUME EnvInv, UNCHANGED <<environ, root, touched, status>>, call' = NoCall, heap' = {}
    PROVE  EnvInv'
  <1>1. HeapInv'
    BY DEF HeapInv, NoCall
  <1> QED BY <1>1, WrapperStep

LEMMA InjectStepKeeps ==
    ASSUME EnvInv, InjectStep, status' = status
    PROVE  EnvInv'
  <1> USE DEF EnvInv
  <1>1. CASE InjectNothing
    <2>1. /\ call.pc = "array" /\ UNCHANGED <<environ, root, touched, status>>
          /\ call \in Calls /\ call # NoCall /\ call.out = 0 /\ heap \subseteq {"argv"}
      BY <1>1, InCall DEF InjectNothing, HeapInv
    <2>2. CASE call.null
      BY <1>1, <2>1, <2>2, ReturnStep DEF InjectNothing
    <2>3. CASE ~call.null
      <3>1. call' = [call EXCEPT !.pc = "kernel"] /\ heap' = heap
        BY <1>1, <2>3 DEF InjectNothing
      <3>2. call' \in Calls /\ call'.pc = "kernel" /\ call'.envp = call.envp /\ call'.out = 0
        BY <2>1, <3>1 DEF Calls
      <3>3. Len(Missing(call.envp))' \in Nat
        BY <2>1, <3>2, SameMissing, MissingType
      <3>4. call' # NoCall
        BY <3>2 DEF NoCall
      <3>5. HeapInv'
        BY <2>1, <3>1, <3>2, <3>3, <3>4 DEF HeapInv
      <3> QED BY <2>1, <3>2, <3>5, WrapperStep
    <2> QED BY <2>2, <2>3
  <1>2. CASE AllocArray
    <2>1. /\ call.pc = "array" /\ UNCHANGED <<environ, root, touched, status>>
          /\ call \in Calls /\ call # NoCall /\ call.out = 0 /\ heap \subseteq {"argv"}
          /\ Missing(call.envp) # <<>> /\ call' = [call EXCEPT !.pc = "entries"]
          /\ heap' = heap \cup {"merged"}
      BY <1>2, InCall DEF AllocArray, HeapInv
    <2>2. call' \in Calls /\ call'.pc = "entries" /\ call'.envp = call.envp /\ call'.out = 0
      BY <2>1 DEF Calls
    <2>3. Missing(call.envp)' = Missing(call.envp)
      BY <2>1, <2>2, SameMissing
    <2>4. Len(Missing(call.envp))' > 0
      BY <2>1, <2>3, MissingType
    <2>5. call' # NoCall
      BY <2>2 DEF NoCall
    <2>6. HeapInv'
      BY <2>1, <2>2, <2>4, <2>5 DEF HeapInv
    <2> QED BY <2>1, <2>2, <2>6, WrapperStep
  <1>3. CASE AllocEntry
    <2> DEFINE pc == IF call.out + 1 = Len(Missing(call.envp)) THEN "kernel" ELSE "entries"
    <2>1. /\ call.pc = "entries" /\ UNCHANGED <<environ, root, touched, status>>
          /\ call \in Calls /\ call # NoCall /\ call.out \in Nat
          /\ call.out < Len(Missing(call.envp))
          /\ heap \subseteq {"argv", "merged"} \cup Entries(call.envp, call.out)
          /\ heap' = heap \cup {Missing(call.envp)[call.out + 1]}
      BY <1>3, InCall DEF AllocEntry, HeapInv
    <2>2. call' = [call EXCEPT !.out = call.out + 1, !.pc = pc]
      BY <1>3, <2>1 DEF AllocEntry
    <2>3. call.out + 1 \in Nat /\ pc \in {"kernel", "entries"}
      BY <2>1
    <2>4. Len(Missing(call.envp)) \in Nat
      BY MissingType
    <2>5. pc = "entries" => call.out + 1 < Len(Missing(call.envp))
      BY <2>1, <2>4
    <2> HIDE DEF pc
    <2>6. /\ call' \in Calls /\ call'.pc = pc /\ call'.envp = call.envp
          /\ call'.out = call.out + 1
      BY <2>1, <2>2, <2>3 DEF Calls
    <2>7. /\ Missing(call.envp)' = Missing(call.envp)
          /\ Entries(call.envp, call.out)' = Entries(call.envp, call.out + 1)
      BY <2>1, <2>6, SameMissing
    <2>8. heap' \subseteq {"argv", "merged"} \cup Entries(call.envp, call.out + 1)
      BY <2>1, NextEntry
    <2>9. call' # NoCall
      BY <2>3, <2>6 DEF NoCall
    <2>10. call'.out # 0
      BY <2>1, <2>6
    <2>11. HeapInv'
      BY <2>1, <2>3, <2>4, <2>5, <2>6, <2>7, <2>8, <2>9, <2>10 DEF HeapInv, FreedAfter
    <2> QED BY <2>1, <2>6, <2>11, WrapperStep
  <1>4. CASE AllocFails
    <2>1. heap \subseteq RolledBack \cup {"argv"}
      BY <1>4 DEF AllocFails, HeapInv, RolledBack
    <2> QED BY <1>4, <2>1, ReturnStep DEF AllocFails
  <1>5. CASE CallReturns
    BY <1>5, ReturnStep DEF CallReturns, HeapInv
  <1> QED BY <1>1, <1>2, <1>3, <1>4, <1>5 DEF InjectStep

LEMMA SetenvStep ==
    ASSUME EnvInv, Setenv
    PROVE  EnvInv'
  <1> USE DEF EnvInv, EnvTypes
  <1>1. PICK n \in Names : \E v \in OwnValues[n] : ChangeEnv(n, v)
    BY DEF Setenv
  <1>2. PICK v \in OwnValues[n] : ChangeEnv(n, v)
    BY <1>1
  <1>3. /\ call = NoCall /\ environ' = [environ EXCEPT ![n] = v]
        /\ touched' = touched \cup {n} /\ UNCHANGED <<call, heap, root, status>>
    BY <1>2 DEF ChangeEnv, Setenv, QuietTrap
  <1>4. v \in Values
    BY OwnValuesAssumption
  <1>5. EnvTypes'
    BY <1>3, <1>4 DEF Environments
  <1>6. HeapInv'
    BY <1>3 DEF HeapInv, NoCall
  <1>7. TouchedInv'
    BY <1>3 DEF TouchedInv
  <1>8. BoxInherited'
    BY <1>3 DEF BoxInherited, Environments
  <1> QED BY <1>5, <1>6, <1>7, <1>8

LEMMA NewImageStep ==
    ASSUME EnvInv, NewImage
    PROVE  EnvInv'
  <1> USE DEF EnvInv, EnvTypes
  <1>1. /\ call.pc = "kernel" /\ environ' = Merged(call.envp) /\ call' = NoCall
        /\ heap' = {} /\ UNCHANGED <<root, touched>>
        /\ status' = IF environ'["LD_PRELOAD"] = BoxLib THEN "up" ELSE "unboxed"
    BY DEF NewImage, NewImageEnv, LoadImage
  <1>2. call # NoCall /\ call.envp \in Environments
    BY <1>1, InCall
  <1>3. environ' \in Environments
    BY <1>1, <1>2 DEF Environments, Merged
  <1>4. EnvTypes' /\ HeapInv' /\ TouchedInv'
    BY <1>1, <1>3 DEF HeapInv, TouchedInv, NoCall
  <1>5. BoxInherited'
    <2> SUFFICES ASSUME "LD_PRELOAD" \notin touched
                 PROVE  /\ status' # "unboxed"
                        /\ \A n \in Names \ touched : root[n] # Empty => environ'[n] = root[n]
      BY <1>1 DEF BoxInherited
    <2>1. \A n \in Names \ touched : root[n] # Empty => environ'[n] = root[n]
      BY <1>1, <1>2, MergedKeeps DEF BoxInherited
    <2>2. root["LD_PRELOAD"] = BoxLib /\ BoxLib # Empty /\ "LD_PRELOAD" \in Names
      BY RootsAssumption, BoxLibAssumption DEF Names
    <2> QED BY <1>1, <2>1, <2>2
  <1> QED BY <1>4, <1>5

LEMMA EnvNext ==
    ASSUME EnvInv, [Next]_vars
    PROVE  EnvInv'
  <1>1. ASSUME UNCHANGED envvars, status' # "unboxed" \/ status' = status
        PROVE  EnvInv'
    <2>1. EnvTypes' /\ TouchedInv'
      BY <1>1 DEF envvars, EnvInv, EnvTypes, TouchedInv
    <2>2. HeapInv'
      <3>1. UNCHANGED <<environ, call, heap>>
        BY <1>1 DEF envvars
      <3>2. /\ Missing(call.envp)' = Missing(call.envp)
            /\ Entries(call.envp, call.out)' = Entries(call.envp, call.out)
        BY <3>1, SameMissing
      <3> QED BY <3>1, <3>2 DEF EnvInv, HeapInv, FreedAfter
    <2>3. BoxInherited'
      BY <1>1 DEF envvars, EnvInv, BoxInherited
    <2> QED BY <2>1, <2>2, <2>3 DEF EnvInv
  <1>2. CASE Start
    <2>1. PICK fn \in WithEnviron \cup WithEnvp :
             \/ BeginCall(fn, environ, FALSE)
             \/ BeginCall(fn, NullEnv, TRUE)
             \/ \E envp \in Envps : BeginCall(fn, envp, FALSE)
      BY <1>2 DEF Start
    <2>2. environ \in Environments /\ NullEnv \in Environments
      <3>1. Unset \in Values
        BY DEF Values
      <3> QED BY <3>1 DEF EnvInv, EnvTypes, NullEnv, Environments
    <2>3. status' = status
      BY <1>2 DEF Start, QuietTrap
    <2> QED BY <2>1, <2>2, <2>3, BeginCallStep, EnvpsAssumption
  <1>3. CASE Setenv
    BY <1>3, SetenvStep
  <1>4. CASE Inject
    BY <1>4, InjectStepKeeps DEF Inject, QuietTrap
  <1>5. CASE NewImage
    BY <1>5, NewImageStep
  <1>6. CASE Call
    BY <1>1, <1>6 DEF Call, CallWrapper, CallSyscall, CallDirect, CallKernel, KernelAnswers,
                      CallSyscallDefault, CallSyscallAgain, CallClockGettime, CallAgain, Trap
  <1>7. CASE Shim \/ Answered
    BY <1>1, <1>7 DEF Shim, ShimStep, BadArgument, InitClock, InitFails, InitWaits, Answered,
                      HandshakeEnds, AnswerVirtual, AnswerReal, FallbackSyscall,
                      FallbackReturns, AnswerLocal, CtorInstalls, ChildReady, Trap
  <1>8. CASE Fork \/ Descriptors \/ Clock
    BY <1>1, <1>8 DEF Fork, Reinit, Descriptors, QuietTrap, Clock
  <1>9. CASE OtherThread /\ UNCHANGED envvars
    BY <1>1, <1>9 DEF OtherThread
  <1>10. CASE UNCHANGED vars
    BY <1>1, <1>10 DEF vars, trapvars
  <1> QED BY <1>2, <1>3, <1>4, <1>5, <1>6, <1>7, <1>8, <1>9, <1>10 DEF Next

\* The invariant of the environment.
THEOREM EnvInvariance == Spec => []EnvInv
  <1>1. Init => EnvInv
    <2> SUFFICES ASSUME Init PROVE EnvInv
      OBVIOUS
    <2>1. EnvTypes
      BY RootsAssumption DEF Init, EnvInit, EnvTypes
    <2>2. HeapInv /\ TouchedInv /\ BoxInherited
      BY DEF Init, EnvInit, HeapInv, TouchedInv, BoxInherited, NoCall
    <2> QED BY <2>1, <2>2 DEF EnvInv
  <1>2. EnvInv /\ [Next]_vars => EnvInv'
    BY EnvNext
  <1> QED BY <1>1, <1>2, PTL DEF Spec

\* The shim stays loaded and the settings of the box in force through any number
\* of programs that start programs, except for the names a program bound or
\* unset itself (process.c:46-126, 255-397).
THEOREM BoxInheritedHolds == Spec => []BoxInherited
  <1>1. EnvInv => BoxInherited
    BY DEF EnvInv
  <1> QED BY <1>1, EnvInvariance, PTL

\* Between two calls the wrappers own no memory, whichever allocation failed
\* (process.c:84-146).
THEOREM NothingLeakedHolds == Spec => []NothingLeaked
  <1>1. EnvInv => NothingLeaked
    BY DEF EnvInv, HeapInv, NothingLeaked
  <1> QED BY <1>1, EnvInvariance, PTL
=============================================================================
