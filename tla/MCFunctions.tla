----------------------------- MODULE MCFunctions ------------------------------
(***************************************************************************)
(* MCArena, Paths, Rand and Atomic share nothing, so TLC explores one of   *)
(* them at a time: subject says which one runs.                            *)
(***************************************************************************)
EXTENDS MCArena, Paths, Rand, Atomic, Bitwise

\* What the theorems about the arena suppose of its buffers (ArenaProofs).
ASSUME PaddingAssumption == PaddingFits

\* cpr__pow2_mask as it is written, for words of eight bits, and what masking a
\* word with its result does.
smeared(w) == FoldLeft(LAMBDA m, k : m | shiftR(m, k), w - 1, <<1, 2, 4>>)
ASSUME MaskAssumption ==
  /\ \A w \in 1 .. 255 : smeared(w) = Min({d \in Divisors(256) : d >= w}) - 1
  /\ \A d \in Divisors(256), x \in 0 .. 255 : x & (d - 1) = masked(x, d - 1)

VARIABLE subject
mcvars == <<arvars, pvars, rvars, avars, subject>>

MCInit ==
  /\ ArenaInit /\ PathsInit /\ RandInit /\ AtomicInit
  /\ subject \in {"arena", "paths", "rand", "atomic"}
  /\ subject = "atomic" \/ (atype = U32 /\ aword = 0)

RunsArena  == subject = "arena" /\ ArenaNext /\ UNCHANGED <<pvars, rvars, avars, subject>>
RunsPaths  == subject = "paths" /\ PathsNext /\ UNCHANGED <<arvars, rvars, avars, subject>>
RunsRand   == subject = "rand" /\ RandNext /\ UNCHANGED <<arvars, pvars, avars, subject>>
RunsAtomic == subject = "atomic" /\ AtomicNext /\ UNCHANGED <<arvars, pvars, rvars, subject>>

MCNext == RunsArena \/ RunsPaths \/ RunsRand \/ RunsAtomic

MCSpec == MCInit /\ [][MCNext]_mcvars
=============================================================================
