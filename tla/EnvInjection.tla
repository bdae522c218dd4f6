---------------------------- MODULE EnvInjection ----------------------------
(***************************************************************************)
(* How the settings of the box reach the programs a program starts         *)
(* (src/shim/process.c): linbox_inject_runtime_env, linbox_free_injected_  *)
(* env, and the exec and spawn wrappers around them, with an allocation    *)
(* failing at any point.                                                   *)
(*                                                                         *)
(* An environment is a function from the four names that matter to their   *)
(* values.  The bindings the shim adds follow the caller's in the array.   *)
(***************************************************************************)
EXTENDS Naturals, Sequences

CONSTANTS
    Roots,      \* the environments a box may be started with
    OwnValues,  \* OwnValues[n]: what a program may set n to itself
    BoxLib      \* the value of LD_PRELOAD that loads the shim

Unset == "unset"
Empty == ""
Names == {"LD_PRELOAD", "LINBOX_SOCK", "LINBOX_SHM", "LINBOX_DISABLE_SECCOMP"}
Values == STRING \cup {Unset}
Environments == [Names -> Values]

ASSUME RootsAssumption ==
    Roots \subseteq Environments /\ \A env \in Roots : env["LD_PRELOAD"] = BoxLib
ASSUME OwnValuesAssumption == \A n \in Names : OwnValues[n] \subseteq Values
ASSUME BoxLibAssumption == BoxLib \notin {Unset, Empty}

VARIABLES
    environ,  \* environ of the process
    call,     \* the exec or spawn wrapper in progress
    heap,     \* the blocks the exec and spawn wrappers have allocated and not freed
    root,     \* history: the environment the box was started with
    touched   \* history: names some program of the lineage bound or unset itself

envvars == <<environ, call, heap, root, touched>>

NullEnv == [n \in Names |-> Unset]
NoCall == [pc |-> "none"]

\* Functions whose envp is an argument; the others pass environ.
WithEnvp == {"execve", "execvpe", "execle", "posix_spawn", "posix_spawnp"}
WithEnviron == {"execv", "execl", "execvp", "execlp"}
\* execl and its kind copy their arguments into an array of their own.
WithArgv == {"execl", "execle", "execlp"}
\* Real execvp is called as it is.
Uninjected == {"execvp", "execlp"}

EnvInit ==
    /\ root \in Roots
    /\ environ = root
    /\ call = NoCall
    /\ heap = {}
    /\ touched = {}

\* Mutant: LINBOX_SHM is not among the names.
NeedsForgetful(n) == n # "LINBOX_SHM" /\ environ[n] \notin {Unset, Empty}

\* getenv gave a value that is not empty.
Needs(n) == environ[n] \notin {Unset, Empty}

\* The bindings to add, in the order of needed[].
MissingIf(n, envp) == IF Needs(n) /\ envp[n] = Unset THEN <<n>> ELSE <<>>
Missing(envp) ==
    MissingIf("LD_PRELOAD", envp) \o MissingIf("LINBOX_SOCK", envp)
        \o MissingIf("LINBOX_SHM", envp) \o MissingIf("LINBOX_DISABLE_SECCOMP", envp)

Merged(envp) ==
    [n \in Names |-> IF Needs(n) /\ envp[n] = Unset THEN environ[n] ELSE envp[n]]

\* The bindings added so far.
Entries(envp, out) == {Missing(envp)[k] : k \in 1 .. out}

-----------------------------------------------------------------------------
\* The program calls setenv, putenv or unsetenv.
ChangeEnv(n, v) ==
    /\ call = NoCall
    /\ v # environ[n]
    /\ environ' = [environ EXCEPT ![n] = v]
    /\ touched' = touched \cup {n}
    /\ UNCHANGED <<call, heap, root>>

\* A wrapper is called; null: the argument envp is NULL.  A binding of envp that
\* is not the one of environ is the program's own.  A wrapper that fails before
\* the injection (EAGAIN from LINBOX_RESOLVE_NEXT, no memory for argv) leaves
\* everything as it was.
BeginCall(fn, envp, null) ==
    /\ call = NoCall
    /\ fn \in WithEnviron => envp = environ /\ ~null
    /\ null => envp = NullEnv
    /\ call' = [pc |-> IF fn \in Uninjected THEN "kernel" ELSE "array",
                envp |-> envp, null |-> null, out |-> 0]
    /\ heap' = IF fn \in WithArgv THEN heap \cup {"argv"} ELSE heap
    /\ touched' = touched \cup {n \in Names : envp[n] \notin {Unset, environ[n]}}
    /\ UNCHANGED <<environ, root>>

\* Nothing is missing: merged is envp itself; if that is NULL the wrapper
\* takes it for a failure.
InjectNothing ==
    /\ call.pc = "array" /\ Missing(call.envp) = <<>>
    /\ IF call.null
       THEN call' = NoCall /\ heap' = heap \ {"argv"}
       ELSE call' = [call EXCEPT !.pc = "kernel"] /\ UNCHANGED heap
    /\ UNCHANGED <<environ, root, touched>>

AllocArray ==
    /\ call.pc = "array" /\ Missing(call.envp) # <<>>
    /\ call' = [call EXCEPT !.pc = "entries"]
    /\ heap' = heap \cup {"merged"}
    /\ UNCHANGED <<environ, root, touched>>

AllocEntry ==
    /\ call.pc = "entries"
    /\ heap' = heap \cup {Missing(call.envp)[call.out + 1]}
    /\ call' = [call EXCEPT !.out = @ + 1,
                    !.pc = IF call.out + 1 = Len(Missing(call.envp)) THEN "kernel" ELSE @]
    /\ UNCHANGED <<environ, root, touched>>

\* Mutant: the loop that undoes a failed injection misses the first entry.
RolledBackLate == (Entries(call.envp, call.out) \cup {"merged"}) \ Entries(call.envp, 1)

\* What a failed malloc makes linbox_inject_runtime_env free.
RolledBack == Entries(call.envp, call.out) \cup {"merged"}

\* calloc or malloc fails: ENOMEM.
AllocFails ==
    /\ call.pc = "entries" \/ (call.pc = "array" /\ Missing(call.envp) # <<>>)
    /\ heap' = heap \ (RolledBack \cup {"argv"})
    /\ call' = NoCall
    /\ UNCHANGED <<environ, root, touched>>

\* linbox_free_injected_env: the array and what follows the caller's bindings.
FreedAfter ==
    IF call.out = 0 THEN {} ELSE Entries(call.envp, call.out) \cup {"merged"}

\* The real function returns: exec failed, or this is the parent of a spawn.
CallReturns ==
    /\ call.pc = "kernel"
    /\ heap' = heap \ (FreedAfter \cup {"argv"})
    /\ call' = NoCall
    /\ UNCHANGED <<environ, root, touched>>

\* The new program, in this process or in the one that was spawned.  For real
\* execvp envp is environ, to which nothing is to be added.
NewImageEnv ==
    /\ call.pc = "kernel"
    /\ environ' = Merged(call.envp)
    /\ call' = NoCall
    /\ heap' = {}
    /\ UNCHANGED <<root, touched>>

InjectStep == InjectNothing \/ AllocArray \/ AllocEntry \/ AllocFails \/ CallReturns
=============================================================================
