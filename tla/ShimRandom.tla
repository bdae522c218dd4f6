----------------------------- MODULE ShimRandom -----------------------------
(***************************************************************************)
(* The randomness a program gets from the shim: the seed the controller    *)
(* keeps in shared memory (linbox_time_manager_set_seed), the seed and the *)
(* generator of each process (src/shim/linbox.c, src/shim/prng.c), and the *)
(* libc functions that draw from it (src/shim/random.c), across fork and   *)
(* exec.  A process has one thread; the controller stores a new seed       *)
(* between any two loads.                                                  *)
(*                                                                         *)
(* The generator is symbolic: the state after k words is the seed it was   *)
(* started from and k.  splitmix64 and xorshift are bijections of the 64-  *)
(* bit words, so two seeds are two states, but for the one seed whose      *)
(* state would be 0.  xorshift goes through all states in one cycle:       *)
(* streams are places in it, and that two of them are far apart is a       *)
(* matter of chance that is not modelled.                                  *)
(***************************************************************************)
EXTENDS Integers

CONSTANTS
    Word64,     \* the 64-bit words
    Pids,       \* process ids
    Seeds,      \* values of SET_SEED
    UserSeeds,  \* arguments of srand and srandom
    Mix(_, _),  \* splitmix64(seed ^ (pid << 32 | pid))
    Low(_),     \* the conversion to unsigned int
    MAX_WORDS,  \* bound: words one call draws
    MAX_DRAWN   \* bound: words a generator has given

\* A seed is mixed with two pids into two values.  Nothing else is assumed: with
\* another seed, another pid may give the same value, and low halves may coincide.
ASSUME MixAssumption ==
    \A seed \in Seeds \cup {0}, p, q \in Pids : Mix(seed, p) = Mix(seed, q) => p = q
ASSUME WordsAssumption ==
    /\ \A seed \in Seeds \cup {0}, p \in Pids : Mix(seed, p) \in Word64
    /\ UserSeeds \subseteq Word64 /\ \A word \in Word64 : Low(word) \in Word64

NoBox == -1
ASSUME SeedsAssumption == Seeds \subseteq Nat
ASSUME BoundsAssumption == MAX_WORDS \in Nat /\ MAX_DRAWN \in Nat

VARIABLES
    shared,          \* prng_seed in shared memory
    up,              \* the processes there are
    pc,              \* where each is in rand()
    connected,       \* controller_connected
    shared_seed,     \* the copy of prng_seed each works with
    effective_seed,
    prng,            \* [seed, drawn]: the generator
    rand_seeded,     \* g_rand_seeded
    out,             \* history: the derived seeds each process has drawn from
    past,            \* history: [pid, seed], those of the processes that ended
    chosen,          \* history: the srand() in force, and the words drawn since
    behind           \* history: getrandom() last used a seed that is not shared

shimvars == <<connected, shared_seed, effective_seed, prng, rand_seeded>>
vars == <<shared, up, pc, shimvars, out, past, chosen, behind>>

\* linbox_prng_derive_process_seed.  box is the seed it was derived from, for the
\* properties: the code keeps the value alone.
derive_process_seed(seed, pid) == [value |-> Mix(seed, pid), box |-> seed]

\* (unsigned int)seed
low32(seed) == [value |-> Low(seed.value), box |-> NoBox]
user_seed(n) == [value |-> n, box |-> NoBox]

\* linbox_prng_seed
prng_seed(seed) == [seed |-> seed, drawn |-> 0]

\* linbox_prng_fill, one word for every eight bytes, and linbox_prng_uniform, one
\* word for every number it rejects and one for the number it returns.
prng_fill(gen, n) == [gen EXCEPT !.drawn = @ + n]

NoChoice == [n |-> -1, drawn |-> 0]

Init ==
    /\ shared = 0
    /\ up = {}
    /\ pc = [p \in Pids |-> "idle"]
    /\ connected = [p \in Pids |-> FALSE]
    /\ shared_seed = [p \in Pids |-> 0]
    /\ effective_seed = [p \in Pids |-> derive_process_seed(0, p)]
    /\ prng = [p \in Pids |-> prng_seed(derive_process_seed(0, p))]
    /\ rand_seeded = [p \in Pids |-> FALSE]
    /\ out = [p \in Pids |-> {}]
    /\ past = {}
    /\ chosen = [p \in Pids |-> NoChoice]
    /\ behind = [p \in Pids |-> FALSE]

\* linbox_time_manager_set_seed
SetSeed(seed) ==
    /\ shared' = seed
    /\ UNCHANGED <<up, pc, shimvars, out, past, chosen, behind>>

-----------------------------------------------------------------------------
(* A process starts, forks and ends. *)

\* linbox_init_state in process p; conn: the handshake and the attach succeed.
init_state(p, conn) ==
    LET seed == IF conn THEN shared ELSE 0 IN
    /\ connected' = [connected EXCEPT ![p] = conn]
    /\ shared_seed' = [shared_seed EXCEPT ![p] = seed]
    /\ effective_seed' = [effective_seed EXCEPT ![p] = derive_process_seed(seed, p)]
    /\ prng' = [prng EXCEPT ![p] = prng_seed(derive_process_seed(seed, p))]

\* A program is loaded: a new process, or exec in one there is.
Load(p, conn) ==
    /\ p \in up => pc[p] = "idle"
    /\ up' = up \cup {p}
    /\ init_state(p, conn)
    /\ rand_seeded' = [rand_seeded EXCEPT ![p] = FALSE]
    /\ chosen' = [chosen EXCEPT ![p] = NoChoice]
    /\ behind' = [behind EXCEPT ![p] = FALSE]
    /\ UNCHANGED <<shared, pc, out, past>>

\* Mutant: the child keeps the generator it inherited.
ReinitConnectionOnly(parent, child, conn) ==
    /\ connected' = [connected EXCEPT ![child] = conn]
    /\ shared_seed' = [shared_seed EXCEPT ![child] = shared_seed[parent]]
    /\ effective_seed' = [effective_seed EXCEPT ![child] = effective_seed[parent]]
    /\ prng' = [prng EXCEPT ![child] = prng[parent]]

\* linbox_reinit_state in the child: everything it inherited is overwritten.
reinit_state(parent, child, conn) == init_state(child, conn)

\* g_rand_seeded is not part of the state that is made anew.
Fork(parent, child, conn) ==
    /\ parent \in up /\ child \notin up
    /\ pc[parent] = "idle"
    /\ up' = up \cup {child}
    /\ reinit_state(parent, child, conn)
    /\ rand_seeded' = [rand_seeded EXCEPT ![child] = rand_seeded[parent]]
    /\ chosen' = [chosen EXCEPT ![child] = NoChoice]
    /\ behind' = [behind EXCEPT ![child] = FALSE]
    /\ UNCHANGED <<shared, pc, out, past>>

\* The memory of the process is gone.
Exit(p) ==
    /\ p \in up /\ pc[p] = "idle"
    /\ up' = up \ {p}
    /\ connected' = [connected EXCEPT ![p] = FALSE]
    /\ shared_seed' = [shared_seed EXCEPT ![p] = 0]
    /\ effective_seed' = [effective_seed EXCEPT ![p] = derive_process_seed(0, p)]
    /\ prng' = [prng EXCEPT ![p] = prng_seed(derive_process_seed(0, p))]
    /\ rand_seeded' = [rand_seeded EXCEPT ![p] = FALSE]
    /\ chosen' = [chosen EXCEPT ![p] = NoChoice]
    /\ behind' = [behind EXCEPT ![p] = FALSE]
    /\ past' = past \cup {[pid |-> p, seed |-> seed] : seed \in out[p]}
    /\ out' = [out EXCEPT ![p] = {}]
    /\ UNCHANGED <<shared, pc>>

-----------------------------------------------------------------------------
(* A process draws. *)

\* linbox_prng_seed_value stores a changed seed and returns what it stored.
Changed(p) == connected[p] /\ shared # shared_seed[p]
seed_value(p) ==
    IF Changed(p) THEN derive_process_seed(shared, p) ELSE effective_seed[p]
LoadSeed(p) ==
    shared_seed' = [shared_seed EXCEPT ![p] = IF connected[p] THEN shared ELSE @]

\* linbox_random_reseed
random_reseed(p, seed) ==
    /\ effective_seed' = [effective_seed EXCEPT ![p] = seed]
    /\ prng' = [prng EXCEPT ![p] = prng_seed(seed)]

\* The comparison of linbox_random_fill.  By then effective_seed is what
\* linbox_prng_seed_value stored, so with one thread it never differs from what
\* that function returned; and the state of a seeded generator is never 0.
Reseeds(p) ==
    LET stored == seed_value(p).value IN stored # seed_value(p).value

\* linbox_random_fill and linbox_random_uniform: n words of the generator.
random_fill(p, n) ==
    LET gen == IF Reseeds(p) THEN prng_seed(seed_value(p)) ELSE prng[p] IN
    /\ gen.drawn + n <= MAX_DRAWN
    /\ LoadSeed(p)
    /\ effective_seed' = [effective_seed EXCEPT ![p] = seed_value(p)]
    /\ prng' = [prng EXCEPT ![p] = prng_fill(gen, n)]
    /\ out' = [out EXCEPT ![p] = 
          IF n = 0 \/ gen.seed.box = NoBox THEN @ ELSE @ \cup {gen.seed}]
    /\ chosen' = [chosen EXCEPT ![p].drawn = IF chosen[p] = NoChoice THEN 0 ELSE @ + n]
    /\ UNCHANGED <<shared, up, connected, rand_seeded, past>>

\* getrandom, getentropy, arc4random, arc4random_buf, arc4random_uniform, and
\* read on /dev/urandom.
Getrandom(p, n) ==
    /\ p \in up /\ pc[p] = "idle"
    /\ random_fill(p, n)
    /\ behind' = [behind EXCEPT ![p] =
          IF n = 0 THEN @
          ELSE connected[p] /\ ~rand_seeded[p] /\ prng'[p].seed.box # shared]
    /\ UNCHANGED pc

\* rand and random.  The first one seeds: srand and then srandom, each with the
\* low half of a seed it loads anew.
Rand(p) ==
    /\ p \in up /\ pc[p] = "idle"
    /\ pc' = [pc EXCEPT ![p] = IF rand_seeded[p] THEN "draw" ELSE "srand"]
    /\ UNCHANGED <<shared, up, shimvars, out, past, chosen, behind>>

RandSeeds(p) ==
    /\ pc[p] \in {"srand", "srandom"}
    /\ pc' = [pc EXCEPT ![p] = IF @ = "srand" THEN "srandom" ELSE "draw"]
    /\ LoadSeed(p)
    /\ random_reseed(p, low32(seed_value(p)))
    /\ rand_seeded' = [rand_seeded EXCEPT ![p] = TRUE]
    /\ UNCHANGED <<shared, up, connected, out, past, chosen, behind>>

RandDraws(p) ==
    /\ pc[p] = "draw"
    /\ random_fill(p, 1)
    /\ pc' = [pc EXCEPT ![p] = "idle"]
    /\ UNCHANGED behind

\* Mutant: srand leaves g_rand_seeded alone.
SeededLater(p) == rand_seeded

Seeded(p) == [rand_seeded EXCEPT ![p] = TRUE]

\* srand and srandom
Srand(p, n) ==
    /\ p \in up /\ pc[p] = "idle"
    /\ random_reseed(p, user_seed(n))
    /\ rand_seeded' = Seeded(p)
    /\ chosen' = [chosen EXCEPT ![p] = [n |-> n, drawn |-> 0]]
    /\ UNCHANGED <<shared, up, pc, connected, shared_seed, out, past, behind>>

-----------------------------------------------------------------------------
Next ==
    \/ \E seed \in Seeds : SetSeed(seed)
    \/ \E p \in Pids :
          \/ \E conn \in BOOLEAN : Load(p, conn)
          \/ \E q \in Pids, conn \in BOOLEAN : Fork(p, q, conn)
          \/ Exit(p)
          \/ \E n \in 0 .. MAX_WORDS : Getrandom(p, n)
          \/ Rand(p) \/ RandSeeds(p) \/ RandDraws(p)
          \/ \E n \in UserSeeds : Srand(p, n)

Spec == Init /\ [][Next]_vars

-----------------------------------------------------------------------------
\* What processes with pid p have drawn from, the one there is and those before.
Drawn(p) == out[p] \cup {d.seed : d \in {e \in past : e.pid = p}}

\* Processes with different pids never draw from the same stream of one seed of
\* the controller, whatever was forked, executed and reseeded in between: the
\* child has a generator of its own before it draws (linbox.c:182-202,
\* process.c:185-188).  Nothing is said of processes with one pid: one that
\* takes over the pid of another draws its stream again, from the first word,
\* whatever ADR 003 says of "a unique stream" for each process.  Nor of streams of
\* different seeds, nor of the 32 bits with which rand() seeds.
StreamsDistinct ==
    \A p, q \in Pids : p # q =>
        \A g \in Drawn(p), h \in Drawn(q) : g.box = h.box => g.value # h.value

\* After srand(n) the generator gives the words of n, one after the other,
\* through rand() and everything else, whatever seed the controller sets
\* meanwhile (random.c:71-77, 102-120).
SrandHolds ==
    \A p \in Pids : chosen[p] # NoChoice =>
        prng[p] = [seed |-> user_seed(chosen[p].n), drawn |-> chosen[p].drawn]

\* "Controller SET_SEED -> shim's getrandom() output changes": in a program that
\* does not use rand(), getrandom() draws from the stream of the seed in shared
\* memory.
SeedDelivered == \A p \in Pids : ~behind[p]
=============================================================================
