-------------------------- MODULE ShimRandomProofs --------------------------
(***************************************************************************)
(* Proofs about ShimRandom, for every set of process ids and of seeds.     *)
(***************************************************************************)
EXTENDS ShimRandom, TLAPS

-----------------------------------------------------------------------------
(* The inductive invariant. *)

Boxes == Seeds \cup {0}

SeedRecords == [value : Word64, box : Boxes \cup {NoBox}]
Generators == [seed : SeedRecords, drawn : Nat]

TypeInv ==
    /\ shared \in Boxes
    /\ up \subseteq Pids
    /\ pc \in [Pids -> {"idle", "srand", "srandom", "draw"}]
    /\ connected \in [Pids -> BOOLEAN]
    /\ shared_seed \in [Pids -> Boxes]
    /\ effective_seed \in [Pids -> SeedRecords]
    /\ prng \in [Pids -> Generators]
    /\ rand_seeded \in [Pids -> BOOLEAN]
    /\ out \in [Pids -> SUBSET SeedRecords]
    /\ past \subseteq [pid : Pids, seed : SeedRecords]
    /\ chosen \in [Pids -> [n : UserSeeds \cup {-1}, drawn : Nat]]

\* A seed of process p is derived from its pid, or was chosen by a program, or is
\* half a word.
OwnSeed(p, seed) == seed.box # NoBox => seed.value = Mix(seed.box, p)

\* Everything a process keeps, and everything it has drawn from, is its own.
OwnInv ==
    \A p \in Pids :
        /\ OwnSeed(p, effective_seed[p])
        /\ OwnSeed(p, prng[p].seed)
        /\ \A seed \in out[p] : seed.box # NoBox /\ OwnSeed(p, seed)

\* So is everything the processes drew from that ended.
PastInv == \A d \in past : d.seed.box # NoBox /\ OwnSeed(d.pid, d.seed)

\* While a call of srand is in force, rand() is not about to seed, and will not.
ChosenInv ==
    \A p \in Pids : chosen[p] # NoChoice =>
        /\ rand_seeded[p]
        /\ pc[p] \notin {"srand", "srandom"}

IInv == TypeInv /\ OwnInv /\ PastInv /\ ChosenInv /\ SrandHolds

-----------------------------------------------------------------------------
(* What the operators of the model return. *)

\* linbox_prng_derive_process_seed mixes the pid in.
LEMMA DerivedSeed ==
    ASSUME NEW p \in Pids, NEW v \in Boxes
    PROVE  /\ derive_process_seed(v, p) \in SeedRecords
           /\ OwnSeed(p, derive_process_seed(v, p))
  BY WordsAssumption DEF derive_process_seed, SeedRecords, Boxes, OwnSeed

\* linbox_prng_seed_value returns a seed of the process.
LEMMA SeedValue ==
    ASSUME TypeInv, OwnInv, NEW p \in Pids
    PROVE  seed_value(p) \in SeedRecords /\ OwnSeed(p, seed_value(p))
  BY DerivedSeed DEF seed_value, TypeInv, OwnInv

\* So does the half of it that rand() uses.
LEMMA LowHalf ==
    ASSUME NEW p \in Pids, NEW seed \in SeedRecords, OwnSeed(p, seed)
    PROVE  low32(seed) \in SeedRecords /\ OwnSeed(p, low32(seed))
  BY WordsAssumption DEF low32, SeedRecords, OwnSeed

LEMMA UserSeed ==
    ASSUME NEW p \in Pids, NEW n \in UserSeeds
    PROVE  user_seed(n) \in SeedRecords /\ OwnSeed(p, user_seed(n))
  BY WordsAssumption DEF user_seed, SeedRecords, OwnSeed

\* linbox_prng_seed starts a generator.
LEMMA NewGenerator ==
    ASSUME NEW seed \in SeedRecords
    PROVE  /\ prng_seed(seed) \in Generators
           /\ prng_seed(seed).seed = seed /\ prng_seed(seed).drawn = 0
  BY DEF prng_seed, Generators

\* Drawing goes on in the same stream.
LEMMA DrawnGenerator ==
    ASSUME NEW gen \in Generators, NEW n \in Nat
    PROVE  /\ prng_fill(gen, n) \in Generators
           /\ prng_fill(gen, n) = [seed |-> gen.seed, drawn |-> gen.drawn + n]
  BY DEF prng_fill, Generators

-----------------------------------------------------------------------------
(* The steps. *)

\* linbox_init_state gives p seeds and a generator of its own.
LEMMA InitStateOwn ==
    ASSUME IInv, NEW p \in Pids, NEW conn \in BOOLEAN, init_state(p, conn)
    PROVE  /\ connected' \in [Pids -> BOOLEAN]
           /\ shared_seed' \in [Pids -> Boxes]
           /\ effective_seed' \in [Pids -> SeedRecords]
           /\ prng' \in [Pids -> Generators]
           /\ OwnSeed(p, effective_seed'[p]) /\ OwnSeed(p, prng'[p].seed)
           /\ \A q \in Pids \ {p} :
                 prng'[q] = prng[q] /\ effective_seed'[q] = effective_seed[q]
  <1> DEFINE seed == IF conn THEN shared ELSE 0
  <1>1. seed \in Boxes
    BY DEF IInv, TypeInv, Boxes
  <1>2. /\ derive_process_seed(seed, p) \in SeedRecords
        /\ OwnSeed(p, derive_process_seed(seed, p))
    BY <1>1, DerivedSeed
  <1>3. /\ prng_seed(derive_process_seed(seed, p)) \in Generators
        /\ prng_seed(derive_process_seed(seed, p)).seed = derive_process_seed(seed, p)
    BY <1>2, NewGenerator
  <1> QED BY <1>1, <1>2, <1>3 DEF init_state, IInv, TypeInv

\* A process that is loaded or forked, or ends, keeps the invariant: it has a
\* generator of its own and no choice in force.
LEMMA FreshProcess ==
    ASSUME IInv, NEW p \in Pids,
           connected' \in [Pids -> BOOLEAN], shared_seed' \in [Pids -> Boxes],
           effective_seed' \in [Pids -> SeedRecords], prng' \in [Pids -> Generators],
           OwnSeed(p, effective_seed'[p]), OwnSeed(p, prng'[p].seed),
           \A q \in Pids \ {p} :
               prng'[q] = prng[q] /\ effective_seed'[q] = effective_seed[q],
           up' \subseteq Pids,
           NEW b \in BOOLEAN, rand_seeded' = [rand_seeded EXCEPT ![p] = b],
           chosen' = [chosen EXCEPT ![p] = NoChoice],
           \/ UNCHANGED <<out, past>>
           \/ /\ out' = [out EXCEPT ![p] = {}]
              /\ past' = past \cup {[pid |-> p, seed |-> seed] : seed \in out[p]},
           UNCHANGED <<shared, pc>>
    PROVE  IInv'
  <1>0. /\ \A q \in Pids : out'[q] \subseteq out[q]
        /\ out' \in [Pids -> SUBSET SeedRecords]
        /\ \A d \in past' : d \in past \/ (d.pid = p /\ d.seed \in out[p])
        /\ past' \subseteq [pid : Pids, seed : SeedRecords]
    <2>1. CASE UNCHANGED <<out, past>>
      BY <2>1 DEF IInv, TypeInv
    <2>2. CASE /\ out' = [out EXCEPT ![p] = {}]
               /\ past' = past \cup {[pid |-> p, seed |-> seed] : seed \in out[p]}
      <3>1. /\ \A q \in Pids : out'[q] \subseteq out[q]
            /\ out' \in [Pids -> SUBSET SeedRecords]
        BY <2>2 DEF IInv, TypeInv
      <3>2. ASSUME NEW d \in past', d \notin past
            PROVE  d \in [pid : Pids, seed : SeedRecords] /\ d.pid = p /\ d.seed \in out[p]
        <4>1. PICK seed \in out[p] : d = [pid |-> p, seed |-> seed]
          BY <2>2, <3>2
        <4> QED BY <4>1 DEF IInv, TypeInv
      <3> QED BY <3>1, <3>2 DEF IInv, TypeInv
    <2> QED BY <2>1, <2>2
  <1>1. TypeInv'
    BY <1>0 DEF IInv, TypeInv, NoChoice
  <1>2. chosen'[p] = NoChoice /\ \A q \in Pids \ {p} : chosen'[q] = chosen[q]
    BY DEF IInv, TypeInv
  <1>3. \A q \in Pids \ {p} : rand_seeded'[q] = rand_seeded[q]
    BY DEF IInv, TypeInv
  <1>4. OwnInv'
    BY <1>0 DEF IInv, OwnInv
  <1>5. ChosenInv'
    BY <1>2, <1>3 DEF IInv, ChosenInv
  <1>6. SrandHolds'
    BY <1>2 DEF IInv, SrandHolds
  <1>7. PastInv'
    BY <1>0 DEF IInv, OwnInv, PastInv
  <1> QED BY <1>1, <1>4, <1>5, <1>6, <1>7 DEF IInv

LEMMA LoadStep ==
    ASSUME IInv, NEW p \in Pids, NEW conn \in BOOLEAN, Load(p, conn)
    PROVE  IInv'
  <1>1. up' \subseteq Pids
    BY DEF Load, IInv, TypeInv
  <1> QED BY <1>1, InitStateOwn, FreshProcess DEF Load

LEMMA ForkStep ==
    ASSUME IInv, NEW p \in Pids, NEW q \in Pids, NEW conn \in BOOLEAN, Fork(p, q, conn)
    PROVE  IInv'
  <1>1. up' \subseteq Pids
    BY DEF Fork, IInv, TypeInv
  <1>2. rand_seeded[p] \in BOOLEAN
    BY DEF IInv, TypeInv
  <1> QED BY <1>1, <1>2, InitStateOwn, FreshProcess DEF Fork, reinit_state

LEMMA ExitStep ==
    ASSUME IInv, NEW p \in Pids, Exit(p)
    PROVE  IInv'
  <1> DEFINE seed == derive_process_seed(0, p)
  <1>1. seed \in SeedRecords /\ OwnSeed(p, seed)
    BY DerivedSeed DEF Boxes
  <1>2. prng_seed(seed) \in Generators /\ prng_seed(seed).seed = seed
    BY <1>1, NewGenerator
  <1> HIDE DEF seed
  <1>3. /\ effective_seed' = [effective_seed EXCEPT ![p] = seed]
        /\ prng' = [prng EXCEPT ![p] = prng_seed(seed)]
    BY DEF Exit, seed
  <1>4. /\ effective_seed' \in [Pids -> SeedRecords] /\ prng' \in [Pids -> Generators]
        /\ OwnSeed(p, effective_seed'[p]) /\ OwnSeed(p, prng'[p].seed)
        /\ \A q \in Pids \ {p} :
              prng'[q] = prng[q] /\ effective_seed'[q] = effective_seed[q]
    BY <1>1, <1>2, <1>3 DEF IInv, TypeInv
  <1>5. /\ connected' \in [Pids -> BOOLEAN] /\ shared_seed' \in [Pids -> Boxes]
        /\ up' \subseteq Pids
    BY DEF Exit, IInv, TypeInv, Boxes
  <1> QED BY <1>4, <1>5, FreshProcess DEF Exit

\* linbox_random_fill draws from the generator as it is: it never reseeds.
LEMMA FillStep ==
    ASSUME IInv, NEW p \in Pids, NEW n \in Nat, random_fill(p, n),
           pc' = pc \/ pc' = [pc EXCEPT ![p] = "idle"]
    PROVE  IInv'
  <1>1. seed_value(p) \in SeedRecords /\ OwnSeed(p, seed_value(p))
    BY SeedValue DEF IInv
  <1>2. prng[p] \in Generators /\ prng[p].seed \in SeedRecords
    BY DEF IInv, TypeInv, Generators
  <1>3. /\ effective_seed' = [effective_seed EXCEPT ![p] = seed_value(p)]
        /\ prng' = [prng EXCEPT ![p] = prng_fill(prng[p], n)]
        /\ out' = [out EXCEPT ![p] = IF n = 0 \/ prng[p].seed.box = NoBox
                                      THEN @ ELSE @ \cup {prng[p].seed}]
        /\ chosen' = [chosen EXCEPT ![p].drawn = IF chosen[p] = NoChoice THEN 0 ELSE @ + n]
        /\ UNCHANGED <<shared, up, connected, rand_seeded, past>>
    BY DEF random_fill, Reseeds
  <1>4. prng_fill(prng[p], n) \in Generators
        /\ prng_fill(prng[p], n) = [seed |-> prng[p].seed, drawn |-> prng[p].drawn + n]
    BY <1>2, DrawnGenerator
  <1>5. shared_seed' \in [Pids -> Boxes]
    BY DEF random_fill, LoadSeed, IInv, TypeInv
  <1>6. /\ chosen'[p] = [n |-> chosen[p].n,
                         drawn |-> IF chosen[p] = NoChoice THEN 0 ELSE chosen[p].drawn + n]
        /\ \A q \in Pids \ {p} : chosen'[q] = chosen[q]
        /\ chosen' \in [Pids -> [n : UserSeeds \cup {-1}, drawn : Nat]]
    BY <1>3 DEF IInv, TypeInv
  <1>7. TypeInv'
    <2>1. effective_seed' \in [Pids -> SeedRecords] /\ prng' \in [Pids -> Generators]
      BY <1>1, <1>3, <1>4 DEF IInv, TypeInv
    <2>2. out' \in [Pids -> SUBSET SeedRecords]
      BY <1>2, <1>3 DEF IInv, TypeInv
    <2>3. pc' \in [Pids -> {"idle", "srand", "srandom", "draw"}]
      BY DEF IInv, TypeInv
    <2> QED BY <1>3, <1>5, <1>6, <2>1, <2>2, <2>3 DEF IInv, TypeInv
  <1>8. OwnInv'
    BY <1>1, <1>2, <1>3, <1>4 DEF IInv, TypeInv, OwnInv
  <1>9. chosen'[p] # NoChoice => chosen[p] # NoChoice
    BY <1>6 DEF NoChoice
  <1>10. ChosenInv'
    BY <1>3, <1>6, <1>9 DEF IInv, TypeInv, ChosenInv
  <1>11. SrandHolds'
    <2> SUFFICES ASSUME NEW q \in Pids, chosen'[q] # NoChoice
                 PROVE  prng'[q] = [seed |-> user_seed(chosen'[q].n),
                                    drawn |-> chosen'[q].drawn]
      BY DEF SrandHolds
    <2>1. CASE q = p
      BY <2>1, <1>2, <1>3, <1>4, <1>6, <1>9 DEF IInv, TypeInv, SrandHolds
    <2>2. CASE q # p
      BY <2>2, <1>3, <1>6 DEF IInv, TypeInv, SrandHolds
    <2> QED BY <2>1, <2>2
  <1>12. PastInv'
    BY <1>3 DEF IInv, PastInv
  <1> QED BY <1>7, <1>8, <1>10, <1>11, <1>12 DEF IInv

\* The first rand() seeds only where no srand() is in force.
LEMMA RandSeedsStep ==
    ASSUME IInv, NEW p \in Pids, RandSeeds(p)
    PROVE  IInv'
  <1> DEFINE seed == low32(seed_value(p))
  <1>1. seed \in SeedRecords /\ OwnSeed(p, seed)
    BY SeedValue, LowHalf DEF IInv
  <1>2. prng_seed(seed) \in Generators /\ prng_seed(seed).seed = seed
    BY <1>1, NewGenerator
  <1> HIDE DEF seed
  <1>3. /\ effective_seed' = [effective_seed EXCEPT ![p] = seed]
        /\ prng' = [prng EXCEPT ![p] = prng_seed(seed)]
    BY DEF RandSeeds, random_reseed, seed
  <1>4. chosen[p] = NoChoice
    BY DEF RandSeeds, IInv, ChosenInv
  <1>5. TypeInv'
    BY <1>1, <1>2, <1>3 DEF RandSeeds, LoadSeed, IInv, TypeInv
  <1>6. OwnInv'
    BY <1>1, <1>2, <1>3 DEF RandSeeds, IInv, TypeInv, OwnInv
  <1>7. ChosenInv'
    BY <1>4 DEF RandSeeds, IInv, TypeInv, ChosenInv
  <1>8. SrandHolds'
    BY <1>3, <1>4 DEF RandSeeds, IInv, TypeInv, SrandHolds
  <1>9. PastInv'
    BY DEF RandSeeds, IInv, PastInv
  <1> QED BY <1>5, <1>6, <1>7, <1>8, <1>9 DEF IInv

LEMMA SrandStep ==
    ASSUME IInv, NEW p \in Pids, NEW n \in UserSeeds, Srand(p, n)
    PROVE  IInv'
  <1>1. user_seed(n) \in SeedRecords /\ OwnSeed(p, user_seed(n))
    BY UserSeed
  <1>2. /\ prng_seed(user_seed(n)) \in Generators
        /\ prng_seed(user_seed(n)).seed = user_seed(n)
        /\ prng_seed(user_seed(n)) = [seed |-> user_seed(n), drawn |-> 0]
    BY <1>1, NewGenerator DEF prng_seed
  <1>3. /\ effective_seed' = [effective_seed EXCEPT ![p] = user_seed(n)]
        /\ prng' = [prng EXCEPT ![p] = prng_seed(user_seed(n))]
        /\ rand_seeded' = [rand_seeded EXCEPT ![p] = TRUE]
        /\ chosen' = [chosen EXCEPT ![p] = [n |-> n, drawn |-> 0]]
        /\ pc[p] = "idle"
        /\ UNCHANGED <<shared, up, pc, connected, shared_seed, out, past>>
    BY DEF Srand, random_reseed, Seeded
  <1>4. TypeInv'
    BY <1>1, <1>2, <1>3 DEF IInv, TypeInv
  <1>5. OwnInv'
    BY <1>1, <1>2, <1>3 DEF IInv, TypeInv, OwnInv
  <1>6. ChosenInv'
    BY <1>3 DEF IInv, TypeInv, ChosenInv
  <1>7. SrandHolds'
    BY <1>2, <1>3 DEF IInv, TypeInv, SrandHolds
  <1>8. PastInv'
    BY <1>3 DEF IInv, PastInv
  <1> QED BY <1>4, <1>5, <1>6, <1>7, <1>8 DEF IInv

-----------------------------------------------------------------------------
(* The theorems. *)

LEMMA InitIInv == Init => IInv
  <1> SUFFICES ASSUME Init PROVE IInv
    OBVIOUS
  <1>1. \A p \in Pids :
           /\ derive_process_seed(0, p) \in SeedRecords
           /\ OwnSeed(p, derive_process_seed(0, p))
           /\ prng_seed(derive_process_seed(0, p)) \in Generators
           /\ prng_seed(derive_process_seed(0, p)).seed = derive_process_seed(0, p)
    BY DerivedSeed, NewGenerator DEF Boxes
  <1>2. TypeInv
    BY <1>1 DEF Init, TypeInv, Boxes, NoChoice
  <1>3. OwnInv
    BY <1>1 DEF Init, OwnInv
  <1>4. PastInv /\ ChosenInv /\ SrandHolds
    BY DEF Init, PastInv, ChosenInv, SrandHolds
  <1> QED BY <1>2, <1>3, <1>4 DEF IInv

LEMMA NextIInv == IInv /\ [Next]_vars => IInv'
  <1> SUFFICES ASSUME IInv, [Next]_vars PROVE IInv'
    OBVIOUS
  <1>1. CASE \E seed \in Seeds : SetSeed(seed)
    BY <1>1 DEF SetSeed, shimvars, IInv, TypeInv, Boxes, OwnInv, PastInv, ChosenInv,
                SrandHolds
  <1>2. CASE \E p \in Pids, conn \in BOOLEAN : Load(p, conn)
    BY <1>2, LoadStep
  <1>3. CASE \E p, q \in Pids, conn \in BOOLEAN : Fork(p, q, conn)
    BY <1>3, ForkStep
  <1>4. CASE \E p \in Pids : Exit(p)
    BY <1>4, ExitStep
  <1>5. CASE \E p \in Pids, n \in 0 .. MAX_WORDS : Getrandom(p, n)
    BY <1>5, FillStep, BoundsAssumption DEF Getrandom
  <1>6. ASSUME NEW p \in Pids, Rand(p) PROVE IInv'
    <2>1. TypeInv' /\ OwnInv' /\ PastInv' /\ SrandHolds'
      BY <1>6 DEF Rand, shimvars, IInv, TypeInv, OwnInv, PastInv, SrandHolds
    <2>2. ChosenInv'
      BY <1>6 DEF Rand, shimvars, IInv, TypeInv, ChosenInv
    <2> QED BY <2>1, <2>2 DEF IInv
  <1>7. CASE \E p \in Pids : RandSeeds(p)
    BY <1>7, RandSeedsStep
  <1>8. CASE \E p \in Pids : RandDraws(p)
    BY <1>8, FillStep DEF RandDraws
  <1>9. CASE \E p \in Pids, n \in UserSeeds : Srand(p, n)
    BY <1>9, SrandStep
  <1>10. CASE UNCHANGED vars
    BY <1>10 DEF vars, shimvars, IInv, TypeInv, OwnInv, PastInv, ChosenInv, SrandHolds
  <1> QED BY <1>1, <1>2, <1>3, <1>4, <1>5, <1>6, <1>7, <1>8, <1>9, <1>10 DEF Next

\* The invariant on which the two properties rest.
THEOREM Invariance == Spec => []IInv
  BY InitIInv, NextIInv, PTL DEF Spec

\* Processes with different pids never draw from the same stream of one seed of
\* the controller, however processes are forked, executed and ended, and whatever
\* seeds are set meanwhile (linbox.c:182-202); of the mixing of seed and pid it
\* takes only MixAssumption.
THEOREM StreamsDistinctHolds == Spec => []StreamsDistinct
  <1>1. ASSUME IInv PROVE StreamsDistinct
    <2>1. ASSUME NEW p \in Pids, NEW g \in Drawn(p)
          PROVE  g.box \in Boxes /\ g.value = Mix(g.box, p)
      BY <1>1, <2>1 DEF Drawn, IInv, TypeInv, OwnInv, PastInv, OwnSeed, SeedRecords
    <2> QED BY <2>1, MixAssumption DEF StreamsDistinct, Boxes
  <1> QED BY <1>1, Invariance, PTL

\* srand(n) stays in force until the next one (random.c:71-77, 102-120).
THEOREM SrandHoldsHolds == Spec => []SrandHolds
  <1>1. IInv => SrandHolds
    BY DEF IInv
  <1> QED BY <1>1, Invariance, PTL
=============================================================================
