------------------------- MODULE StageAttemptsProofs -------------------------
(***************************************************************************)
(* What the definitions of StageAttempts give to the modules that run      *)
(* Stages: the types of attempts, and that the attempts a run can append   *)
(* make a beginning of a result that the contract accepts.                 *)
(***************************************************************************)
EXTENDS StageAttempts, TLAPS

LEMMA SkipType ==
  ASSUME NEW mode \in Modes, NEW code \in SkipCodes
  PROVE  Skip(mode, code) \in Attempts
  BY DEF Skip, Attempts

LEMMA ExecutionTypes ==
  ASSUME NEW mode \in Modes, NEW c, NEW a \in Executions(mode, c)
  PROVE  a \in Attempts /\ a.code # "prerequisite_blocked"
<1>1. CASE PreSpawnSkip(mode, c) # "none"
  <2>1. PreSpawnSkip(mode, c) \in InitialSkipCodes
    BY <1>1 DEF PreSpawnSkip, InitialSkipCodes
  <2>2. a = Skip(mode, PreSpawnSkip(mode, c))
    BY <1>1 DEF Executions
  <2> QED
    BY <2>1, <2>2, SkipType DEF Skip, SkipCodes, InitialSkipCodes
<1>2. CASE PreSpawnSkip(mode, c) = "none"
  BY <1>2 DEF Executions, Ran, Attempts
<1> QED
  BY <1>1, <1>2

LEMMA ExecutionShape ==
  ASSUME NEW mode \in Modes, NEW c, NEW a \in Executions(mode, c)
  PROVE  /\ a.mode = mode
         /\ a.code # "deadline_exceeded"
         /\ PreSpawnSkip(mode, c) = "none" => a.ended # "skipped"
<1>1. CASE PreSpawnSkip(mode, c) # "none"
  <2>1. PreSpawnSkip(mode, c) \in {"not_implemented", "fixture_evidence", "implemented_evidence"}
    BY <1>1 DEF PreSpawnSkip
  <2> QED
    BY <1>1, <2>1 DEF Executions, Skip
<1>2. CASE PreSpawnSkip(mode, c) = "none"
  BY <1>2 DEF Executions, Ran
<1> QED
  BY <1>1, <1>2

(* An attempt that the loop may append keeps a valid beginning valid.      *)
LEMMA AppendValid ==
  ASSUME NEW c \in Seq(Attempts), Len(c) < StageCount,
         \A i \in 1 .. Len(c) : ValidAt(c, i),
         NEW mode \in Modes, NEW a \in Attempts,
         \/ a \in Executions(mode, c) /\ ~ Blocked(c)
         \/ Blocked(c) /\ a = Skip(mode, "prerequisite_blocked")
  PROVE  /\ ValidAttempt(a)
         /\ \A i \in 1 .. Len(Append(c, a)) : ValidAt(Append(c, a), i)
<1> DEFINE d == Append(c, a)
           n == Len(c)
<1>1. /\ n \in Nat /\ Len(d) = n + 1 /\ d[n + 1] = a
      /\ \A i \in 1 .. n : d[i] = c[i]
  OBVIOUS
<1>2. ASSUME NEW i \in 1 .. n PROVE ValidAt(d, i)
  <2>1. ValidAt(c, i) /\ d[i] = c[i] /\ \A j \in 1 .. n : d[j] = c[j]
    BY <1>1
  <2>2. \A j \in Nat \ {0} : j < i => j \in 1 .. n
    BY <1>1
  <2>3. Open(d, i) <=> Open(c, i)
    BY <2>1, <1>1 DEF Open
  <2>4. \A j \in Producers : j < i => d[j] = c[j]
    BY <2>1, <2>2 DEF Producers
  <2> QED
    BY <2>1, <2>3, <2>4 DEF ValidAt
<1>3. \A j \in 1 .. n : c[j] \in Attempts /\ ValidAttempt(c[j])
  BY <1>1 DEF ValidAt
<1>4. Open(d, n + 1) <=> ~ Blocked(c)
  BY <1>1, <1>3 DEF Open, Blocked, Blocks, ValidAttempt
<1>5. CASE Blocked(c)
  <2>1. a.ended = "skipped"
    BY <1>5 DEF Skip
  <2>2. ValidAt(d, n + 1) /\ ValidAttempt(a)
    BY <1>1, <1>4, <1>5, <2>1 DEF ValidAt, ValidAttempt
  <2> QED
    BY <1>1, <1>2, <2>2
<1>6. CASE ~ Blocked(c)
  <2>1. a \in Executions(mode, c)
    BY <1>6
  <2>2. CASE PreSpawnSkip(mode, c) # "none"
    <3>1. a.ended = "skipped" /\ a.code \in InitialSkipCodes
      BY <2>1, <2>2 DEF Executions, Skip, PreSpawnSkip, InitialSkipCodes
    <3>2. ValidAt(d, n + 1) /\ ValidAttempt(a)
      BY <1>1, <3>1, <1>4, <1>6 DEF ValidAt, ValidAttempt
    <3> QED
      BY <1>1, <1>2, <3>2
  <2>3. CASE PreSpawnSkip(mode, c) = "none"
    <3>1. a.mode = mode /\ a.ended # "skipped"
      BY <2>1, <2>3 DEF Executions, Ran
    <3>2. mode # "not_implemented" /\ (mode = "implemented" => ~ Offers(c, "fixture"))
      BY <2>3 DEF PreSpawnSkip
    <3>3. \A j \in Producers : j < n + 1 => j \in 1 .. n /\ d[j] = c[j]
      BY <1>1 DEF Producers
    <3>4. mode = "implemented" => \A j \in Producers : j < n + 1 => d[j].mode # "fixture"
      BY <3>2, <3>3, <1>6 DEF Offers, Blocked
    <3>5. ValidAt(d, n + 1) /\ ValidAttempt(a)
      BY <1>1, <3>1, <3>2, <3>4, <1>4, <1>6 DEF ValidAt, ValidAttempt
    <3> QED
      BY <1>1, <1>2, <3>5
  <2> QED
    BY <2>2, <2>3
<1> QED
  BY <1>5, <1>6
=============================================================================
