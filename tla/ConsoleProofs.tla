---------------------------- MODULE ConsoleProofs ----------------------------
(***************************************************************************)
(* For every number of clients, artifacts, servers, parameters and cases.  *)
(*                                                                         *)
(* Searches: what a running search holds in memory is what the disk holds, *)
(* so no id it hands out is taken and the ledger is append-only; what it   *)
(* knows of its seed and its candidate was measured, so that what is       *)
(* pending or promoted beat the seed, and a restart keeps what is live.    *)
(*                                                                         *)
(* Publications: one that was begun can be completed and makes one         *)
(* version, whoever dies between its writes.  The store's invariant says   *)
(* what each artifact's files are worth to a caller that finds them, and   *)
(* what a caller inside the critical section has written.                  *)
(*                                                                         *)
(* Tools: one that may be used is one of the server as it is.  A load that *)
(* nobody overlapped has the tools for itself.                             *)
(*                                                                         *)
(* Workers: the pools are what the registry says of them; the agents in    *)
(* memory are those of the file, one of a name.                            *)
(***************************************************************************)
EXTENDS Console, FiniteSetTheorems, WellFoundedInduction, TLAPS

(***************************************************************************)
(* Searches.                                                               *)
(***************************************************************************)

\* A search has its fields and no others.
Fields == {"pc", "ledger", "seed", "params", "round", "scores"}
Shaped(s) == s = [f \in Fields |-> s[f]]

\* The memory of a running search is the disk; an idle one holds nothing.
InStep(s, d) == Shaped(s) /\ (s.pc # "idle" => s.ledger = d)

IsSequence(d) == \E S : d \in Seq(S)

IInv == IsSequence(disk) /\ InStep(search, disk)

\* Leaving a step of the search: the list in memory stays, or is dropped.
LEMMA IdleInStep == ASSUME NEW d PROVE InStep(Idle, d)
BY DEF InStep, Shaped, Idle, Fields

LEMMA ConcludedInStep ==
    ASSUME NEW s, NEW d, Shaped(s), s.ledger = d
    PROVE  InStep(Concluded(s), d)
<1>1. InStep([s EXCEPT !.pc = "holdout"], d)
  BY DEF InStep, Shaped, Fields
<1> QED BY <1>1, IdleInStep DEF Concluded

LEMMA ContinuedInStep ==
    ASSUME NEW s, NEW d, Shaped(s), s.ledger = d
    PROVE  InStep(Continued(s), d)
<1>1. InStep([s EXCEPT !.pc = "propose"], d)
  BY DEF InStep, Shaped, Fields
<1> QED BY <1>1, ConcludedInStep DEF Continued

LEMMA SeededInStep ==
    ASSUME NEW s, NEW d, Shaped(s), s.ledger = d
    PROVE  InStep(Seeded(s), d)
<1> DEFINE seed == CHOOSE i \in Evaluated(s.ledger) : \A j \in Evaluated(s.ledger) : i <= j
           t == [s EXCEPT !.seed = seed, !.scores = <<BestHat(s.ledger)>>]
<1>1. Shaped(t) /\ t.ledger = d
  <2> HIDE DEF seed
  <2> QED BY DEF Shaped, Fields
<1>2. Seeded(s) = Continued(t)
  BY DEF Seeded
<1> HIDE DEF t
<1> QED BY <1>1, <1>2, ContinuedInStep

\* record() with the memory in step: the candidate goes behind the others, in
\* memory and on the disk.
LEMMA RecordAppends ==
    ASSUME NEW s, NEW c, IsSequence(disk), Shaped(s), s.ledger = disk, Record(s, c)
    PROVE  /\ disk' = Append(disk, c) /\ IsSequence(disk')
           /\ \A i \in DOMAIN disk : i \in DOMAIN disk' /\ disk'[i] = disk[i]
           /\ Shaped(Recorded(s, c)) /\ Recorded(s, c).ledger = disk'
<1>1. PICK S : disk \in Seq(S)
  BY DEF IsSequence
<1>2. Len(disk) \in Nat /\ disk \in Seq(S \cup {c})
  BY <1>1
<1>3. disk' = Append(disk, c)
  BY <1>2 DEF Record
<1>4. disk' \in Seq(S \cup {c}) /\ IsSequence(disk')
  BY <1>2, <1>3 DEF IsSequence
<1>5. \A i \in DOMAIN disk : i \in DOMAIN disk' /\ disk'[i] = disk[i]
  BY <1>2, <1>3
<1>6. Shaped(Recorded(s, c)) /\ Recorded(s, c).ledger = disk'
  BY <1>3 DEF Shaped, Recorded, Fields
<1> QED BY <1>3, <1>4, <1>5, <1>6

\* What one step may do to the ledger.
Kept == \A i \in DOMAIN disk : i \in DOMAIN disk' /\ disk'[i] = disk[i]

LEMMA RejectKeeps ==
    ASSUME NEW s, NEW c, IsSequence(disk), Shaped(s), s.ledger = disk, Reject(s, c)
    PROVE  IInv' /\ Kept
<1>1. /\ IsSequence(disk') /\ Kept
      /\ Shaped(Recorded(s, c)) /\ Recorded(s, c).ledger = disk'
  BY RecordAppends DEF Reject, Kept
<1> QED BY <1>1, ContinuedInStep DEF Reject, IInv

LEMMA StepKeeps == IInv /\ [Next]_vars => IInv' /\ Kept
<1> SUFFICES ASSUME IInv, [Next]_vars PROVE IInv' /\ Kept
  OBVIOUS
<1>0. IsSequence(disk) /\ InStep(search, disk) /\ Shaped(search)
  BY DEF IInv, InStep
<1>1. ASSUME UNCHANGED <<disk, search>> PROVE IInv' /\ Kept
  BY <1>0, <1>1 DEF IInv, Kept
<1>2. ASSUME UNCHANGED disk, InStep(search', disk) PROVE IInv' /\ Kept
  BY <1>0, <1>2 DEF IInv, Kept
<1>3. ASSUME Start PROVE IInv' /\ Kept
  <2> DEFINE s == [Idle EXCEPT !.ledger = Loaded]
             t == [s EXCEPT !.pc = "seed",
                     !.params = IF promoted = 0 THEN Default ELSE disk[promoted].params]
  <2>1. Shaped(s) /\ s.ledger = disk
    BY DEF Shaped, Idle, Loaded, Fields
  <2>2. InStep(t, disk)
    BY DEF InStep, Shaped, Idle, Loaded, Fields
  <2>3. UNCHANGED disk /\ (search' = Seeded(s) \/ search' = t)
    BY <1>3 DEF Start
  <2> HIDE DEF s, t
  <2> QED BY <1>2, <2>1, <2>2, <2>3, SeededInStep
<1>4. ASSUME SeedScored PROVE IInv' /\ Kept
  <2> DEFINE c == Candidate("evaluated", search.params)
  <2>1. search.ledger = disk /\ Record(search, c) /\ search' = Seeded(Recorded(search, c))
    BY <1>0, <1>4 DEF SeedScored, InStep
  <2> HIDE DEF c
  <2> QED BY <1>0, <2>1, RecordAppends, SeededInStep DEF IInv, Kept
<1>5. ASSUME SeedUnaffordable \/ Escapes PROVE IInv' /\ Kept
  BY <1>2, <1>5, IdleInStep DEF SeedUnaffordable, Escapes
<1>6. ASSUME NoProposal PROVE IInv' /\ Kept
  <2>1. search.ledger = disk /\ UNCHANGED disk /\ search' = Concluded(search)
    BY <1>0, <1>6 DEF NoProposal, InStep
  <2> QED BY <1>0, <1>2, <2>1, ConcludedInStep
<1> DEFINE next == [search EXCEPT !.round = @ + 1]
<1>7. ASSUME search.pc # "idle" PROVE Shaped(next) /\ next.ledger = disk
  BY <1>0, <1>7 DEF Shaped, InStep, Fields
<1>8. ASSUME Malformed PROVE IInv' /\ Kept
  <2>1. search.pc # "idle" /\ Reject(next, Candidate("rejected", NoParams))
    BY <1>8 DEF Malformed
  <2> HIDE DEF next
  <2> QED BY <1>0, <1>7, <2>1, RejectKeeps
<1>9. ASSUME NEW parent \in DOMAIN search.ledger, NEW params \in Configs, Propose(parent, params)
      PROVE  IInv' /\ Kept
  <2>1. /\ search.pc # "idle"
        /\ \/ Reject(next, Candidate("rejected", NoParams))
           \/ Reject(next, Candidate("rejected", params))
           \/ /\ search' = [next EXCEPT !.pc = "evaluate", !.params = params]
              /\ UNCHANGED disk
    BY <1>9 DEF Propose
  <2>2. InStep([next EXCEPT !.pc = "evaluate", !.params = params], disk)
    BY <1>7, <2>1 DEF InStep, Shaped, Fields
  <2> HIDE DEF next
  <2> QED BY <1>0, <1>2, <1>7, <2>1, <2>2, RejectKeeps
<1>10. ASSUME Scored PROVE IInv' /\ Kept
  <2> DEFINE c == Candidate("evaluated", search.params)
             s == Recorded(search, c)
             scores == Append(s.scores, BestHat(s.ledger))
             t == [s EXCEPT !.scores = scores]
  <2>1. /\ search.ledger = disk /\ Record(search, c)
        /\ search' = Concluded(t) \/ search' = Continued(t)
    BY <1>0, <1>10 DEF Scored, InStep
  <2>2. /\ IsSequence(disk') /\ Kept /\ Shaped(s) /\ s.ledger = disk'
    <3> HIDE DEF c
    <3> QED BY <1>0, <2>1, RecordAppends DEF Kept
  <2>3. Shaped(t) /\ t.ledger = disk'
    <3> HIDE DEF scores, s
    <3> QED BY <2>2 DEF Shaped, Fields
  <2> HIDE DEF t
  <2> QED BY <2>1, <2>2, <2>3, ConcludedInStep, ContinuedInStep DEF IInv
<1>11. ASSUME EvaluationFails PROVE IInv' /\ Kept
  <2>1. search.ledger = disk /\ Reject(search, Candidate("rejected", search.params))
    BY <1>0, <1>11 DEF EvaluationFails, InStep
  <2> QED BY <1>0, <2>1, RejectKeeps
<1>12. ASSUME BudgetEnds PROVE IInv' /\ Kept
  <2> DEFINE c == Candidate("rejected", search.params)
  <2>1. search.ledger = disk /\ Record(search, c) /\ search' = Concluded(Recorded(search, c))
    BY <1>0, <1>12 DEF BudgetEnds, InStep
  <2> HIDE DEF c
  <2> QED BY <1>0, <2>1, RecordAppends, ConcludedInStep DEF IInv, Kept
<1>13. ASSUME Judged \/ Crash PROVE IInv' /\ Kept
  BY <1>2, <1>13, IdleInStep DEF Judged, Crash
<1>14. ASSUME Approve \/ Refuse \/ UNCHANGED vars PROVE IInv' /\ Kept
  BY <1>1, <1>14 DEF Approve, Refuse, vars
<1> QED
  BY <1>3, <1>4, <1>5, <1>6, <1>8, <1>9, <1>10, <1>11, <1>12, <1>13, <1>14 DEF Next, Step

LEMMA InitInStep == Init => IInv
<1>1. IsSequence(<<>>)
  <2>1. <<>> \in Seq({})
    OBVIOUS
  <2> QED BY <2>1 DEF IsSequence
<1> QED BY <1>1, IdleInStep DEF Init, IInv

\* What a search decides on is what the disk holds: over resumed searches,
\* rejections, approvals and crashes (ledger.py:66-97).
THEOREM MemoryIsTheDisk == Spec => [](search.pc # "idle" => search.ledger = disk)
<1>1. IInv => (search.pc # "idle" => search.ledger = disk)
  BY DEF IInv, InStep
<1> QED BY <1>1, InitInStep, StepKeeps, PTL DEF Spec

\* The ledger only grows, for every suite, proposer and number of searches
\* (ledger.py:53).
THEOREM LedgerIsAppendOnly == Spec => AppendOnly
<1>1. Kept => [\A i \in DOMAIN disk : i \in DOMAIN disk' /\ disk'[i] = disk[i]]_disk
  BY DEF Kept
<1> QED BY <1>1, InitInStep, StepKeeps, PTL DEF Spec, AppendOnly

-----------------------------------------------------------------------------
(* What is promoted.                                                       *)

\* Two facts about order, by the well-foundedness of strict inclusion on
\* finite sets: the minimum of naturals and the maximum over a finite set.
LEMMA LeastNatural ==
    ASSUME NEW T, T \subseteq Nat, T # {}
    PROVE  \E m \in T : \A k \in T : m <= k
<1> DEFINE R == StrictSubsetOrdering(Nat)
           F == {0 .. k : k \in T}
<1>1. IsWellFoundedOn(R, FiniteSubsetsOf(Nat))
  BY FS_StrictSubsetOrderingWellFounded
<1>2. F \subseteq FiniteSubsetsOf(Nat) /\ F # {}
  <2>1. \A k \in T : IsFiniteSet(0 .. k) /\ 0 .. k \in SUBSET Nat
    BY FS_Interval
  <2>2. \A k \in T : 0 .. k \in FiniteSubsetsOf(Nat)
    BY <2>1 DEF FiniteSubsetsOf
  <2> QED BY <2>2
<1>3. PICK x \in F : \A y \in F : <<y, x>> \notin R
  <2> HIDE DEF R, F
  <2> QED BY <1>1, <1>2, WFMin
<1>4. PICK m \in T : x = 0 .. m
  OBVIOUS
<1>5. ASSUME NEW k \in T, k < m PROVE FALSE
  <2>1. 0 .. k \in F /\ 0 .. k \subseteq 0 .. m /\ 0 .. k # 0 .. m /\ 0 .. m \subseteq Nat
    BY <1>5
  <2> QED BY <1>3, <1>4, <2>1 DEF StrictSubsetOrdering
<1> QED BY <1>5

LEMMA FiniteMaximum ==
    ASSUME NEW S, IsFiniteSet(S), S # {}, NEW f \in [S -> Nat]
    PROVE  \E m \in S : \A k \in S : f[k] <= f[m]
<1> DEFINE R == StrictSubsetOrdering(S)
           Bad == {T \in SUBSET S : T # {} /\ ~\E m \in T : \A k \in T : f[k] <= f[m]}
<1> SUFFICES ASSUME Bad # {} PROVE FALSE
  OBVIOUS
<1>1. IsWellFoundedOn(R, FiniteSubsetsOf(S)) /\ FiniteSubsetsOf(S) = SUBSET S
  BY FS_StrictSubsetOrderingWellFounded, FS_FiniteSubsetsOfFinite
<1>2. PICK T \in Bad : \A U \in Bad : <<U, T>> \notin R
  <2>1. Bad \subseteq SUBSET S
    OBVIOUS
  <2> HIDE DEF Bad, R
  <2> QED BY <1>1, <2>1, WFMin
<1>3. PICK x \in T : TRUE
  OBVIOUS
<1>4. T \ {x} \notin Bad
  BY <1>2, <1>3 DEF StrictSubsetOrdering
<1>5. CASE T = {x}
  BY <1>2, <1>3, <1>5
<1>6. CASE T # {x}
  <2>1. PICK m \in T \ {x} : \A k \in T \ {x} : f[k] <= f[m]
    BY <1>3, <1>4, <1>6
  <2>2. f[m] \in Nat /\ f[x] \in Nat /\ \A k \in T : f[k] \in Nat
    BY <1>2, <1>3, <2>1
  <2> QED BY <1>2, <1>3, <2>1, <2>2
<1> QED BY <1>5, <1>6

\* What was scored is a configuration, and what counts on it are numbers.
Measured(d) == \A i \in Evaluated(d) : d[i].params \in Configs

LEMMA HeldOutIsCounted ==
    ASSUME NEW a \in Configs
    PROVE  /\ HeldOutHat(a) \in Nat /\ HeldOutTokens[a] \in Nat
           /\ \A t \in Types : Cardinality(Passed[a] \cap t) \in Nat /\ Cardinality(t) \in Nat
<1>1. IsFiniteSet(UNION Types)
  BY HarnessOptimizerAssumption, FS_UNION
<1>2. Passed[a] \in SUBSET UNION Types
  BY HarnessOptimizerAssumption
<1>3. IsFiniteSet(Passed[a])
  BY <1>1, <1>2, FS_Subset
<1>4. \A t \in Types : IsFiniteSet(t)
  BY HarnessOptimizerAssumption
<1>5. HeldOutHat(a) \in Nat
  BY <1>3, FS_CardinalityType DEF HeldOutHat
<1>6. \A t \in Types : Cardinality(Passed[a] \cap t) \in Nat /\ Cardinality(t) \in Nat
  BY <1>3, <1>4, FS_CardinalityType, FS_Intersection
<1>7. HeldOutTokens[a] \in Nat
  BY HarnessOptimizerAssumption
<1> QED BY <1>5, <1>6, <1>7

\* The candidates of a ledger are finitely many numbered ones.
LEMMA LedgerIsFinite ==
    ASSUME NEW d, IsSequence(d)
    PROVE  /\ DOMAIN d \subseteq Nat \ {0}
           /\ \A T \in SUBSET DOMAIN d : IsFiniteSet(T)
<1>1. Len(d) \in Nat /\ DOMAIN d = 1 .. Len(d)
  BY DEF IsSequence
<1>2. IsFiniteSet(DOMAIN d)
  BY <1>1, FS_Interval
<1> QED BY <1>1, <1>2, FS_Subset

\* The order among those that may be promoted has a first, so the winner is
\* one of them.
LEMMA WinnerIsPromotable ==
    ASSUME NEW s, IsSequence(s.ledger), Measured(s.ledger), Promotable(s) # {}
    PROVE  Winner(s) \in Promotable(s)
<1> DEFINE P == Promotable(s)
           hat == [i \in P |-> HeldOutHat(s.ledger[i].params)]
           tokens == [i \in P |-> HeldOutTokens[s.ledger[i].params]]
<1>1. P \subseteq Evaluated(s.ledger) /\ P \subseteq DOMAIN s.ledger
  BY DEF Promotable, Frontier, Evaluated
<1>2. P \subseteq Nat /\ IsFiniteSet(P)
  BY <1>1, LedgerIsFinite
<1>3. hat \in [P -> Nat] /\ tokens \in [P -> Nat]
  BY <1>1, HeldOutIsCounted DEF Measured
<1>4. PICK m \in P : \A k \in P : hat[k] <= hat[m]
  <2> HIDE DEF hat
  <2> QED BY <1>2, <1>3, FiniteMaximum
<1> DEFINE most == {i \in P : hat[i] = hat[m]}
           costs == {tokens[i] : i \in most}
<1>5. PICK c \in costs : \A k \in costs : c <= k
  <2>1. costs \subseteq Nat /\ costs # {}
    BY <1>3, <1>4
  <2> HIDE DEF costs
  <2> QED BY <2>1, LeastNatural
<1> DEFINE cheap == {i \in most : tokens[i] = c}
<1>6. PICK w \in cheap : \A k \in cheap : w <= k
  <2>1. cheap \subseteq Nat /\ cheap # {}
    BY <1>2, <1>5
  <2> HIDE DEF cheap
  <2> QED BY <2>1, LeastNatural
<1>7. ASSUME NEW j \in P
      PROVE  \/ hat[w] > hat[j]
             \/ hat[w] = hat[j] /\ tokens[w] < tokens[j]
             \/ hat[w] = hat[j] /\ tokens[w] = tokens[j] /\ w <= j
  <2> HIDE DEF hat, tokens, P
  <2>1. w \in P /\ hat[w] = hat[m] /\ tokens[w] = c
    BY <1>6
  <2>2. {hat[j], hat[m], tokens[j], c} \subseteq Nat
    BY <1>3, <1>4, <2>1
  <2>3. CASE hat[j] # hat[m]
    BY <1>4, <2>1, <2>2, <2>3
  <2>4. CASE hat[j] = hat[m] /\ tokens[j] # c
    BY <1>5, <2>1, <2>2, <2>4
  <2>5. CASE hat[j] = hat[m] /\ tokens[j] = c
    BY <1>6, <2>1, <2>5
  <2> QED BY <2>3, <2>4, <2>5
<1>8. w \in P
  BY <1>6
<1>9. \E i \in Promotable(s) : \A j \in Promotable(s) :
         LET a == s.ledger[i].params  b == s.ledger[j].params IN
         \/ HeldOutHat(a) > HeldOutHat(b)
         \/ HeldOutHat(a) = HeldOutHat(b) /\ HeldOutTokens[a] < HeldOutTokens[b]
         \/ HeldOutHat(a) = HeldOutHat(b) /\ HeldOutTokens[a] = HeldOutTokens[b] /\ i <= j
  BY <1>7, <1>8
<1> HIDE DEF P
<1> QED BY <1>9 DEF Winner

\* The seed is the first candidate that was scored.
First(i, d) == i \in Evaluated(d) /\ \A j \in Evaluated(d) : i <= j

\* A candidate keeps every task type the seed passes and beats the seed.
Earned(i, d) ==
    /\ i \in Evaluated(d)
    /\ \E seed \in Evaluated(d) :
          LET won == Passed[d[i].params]  before == Passed[d[seed].params] IN
          /\ \A j \in Evaluated(d) : seed <= j
          /\ \A t \in Types :
                20 * Cardinality(before \cap t) <= 20 * Cardinality(won \cap t) + Cardinality(t)
          /\ \/ Cardinality(won) > Cardinality(before)
             \/ /\ Cardinality(won) = Cardinality(before)
                /\ HeldOutTokens[d[i].params] < HeldOutTokens[d[seed].params]

LEMMA PromotableIsEarned ==
    ASSUME NEW s, NEW i \in Promotable(s), Measured(s.ledger), First(s.seed, s.ledger)
    PROVE  Earned(i, s.ledger)
<1> DEFINE a == s.ledger[i].params  seed == s.ledger[s.seed].params
<1>1. i \in Evaluated(s.ledger) /\ Go(seed, a) /\ Improves(seed, a)
  BY DEF Promotable, Frontier
<1>2. a \in Configs /\ seed \in Configs
  BY <1>1 DEF Measured, First
<1>3. ASSUME NEW t \in Types
      PROVE  20 * Cardinality(Passed[seed] \cap t) <= 20 * Cardinality(Passed[a] \cap t) + Cardinality(t)
  BY <1>1, <1>2, HeldOutIsCounted DEF Go
<1>4. \/ Cardinality(Passed[a]) > Cardinality(Passed[seed])
      \/ /\ Cardinality(Passed[a]) = Cardinality(Passed[seed])
         /\ HeldOutTokens[a] < HeldOutTokens[seed]
  BY <1>1 DEF Improves, HeldOutHat
<1> QED BY <1>1, <1>3, <1>4 DEF Earned, First

\* What a search carries besides its list: a configuration that is to be
\* scored, and from the first round on the seed.
Sound(s, d) ==
    /\ s.pc \in {"seed", "evaluate"} => s.params \in Configs
    /\ s.pc \notin {"idle", "seed"} => First(s.seed, d)

EarnedFiles(d) == \A i \in {pending, promoted} \ {0} : Earned(i, d)

PInv == Measured(disk) /\ Sound(search, disk) /\ EarnedFiles(disk) /\ RestartKeepsLive

\* A search that leaves a step knowing the seed is sound.
LEMMA LeavesSound ==
    ASSUME NEW s, NEW d, Shaped(s), First(s.seed, d)
    PROVE  Sound(Concluded(s), d) /\ Sound(Continued(s), d) /\ Sound(Idle, d)
<1>1. Sound(Idle, d)
  BY DEF Sound, Idle
<1>2. Sound([s EXCEPT !.pc = "holdout"], d) /\ Sound([s EXCEPT !.pc = "propose"], d)
  BY DEF Sound, Shaped, Fields
<1>3. Sound(Concluded(s), d)
  BY <1>1, <1>2 DEF Concluded
<1> QED BY <1>1, <1>2, <1>3 DEF Continued

LEMMA SeededSound ==
    ASSUME NEW s, Shaped(s), IsSequence(s.ledger), Evaluated(s.ledger) # {}
    PROVE  Sound(Seeded(s), s.ledger)
<1> DEFINE seed == CHOOSE i \in Evaluated(s.ledger) : \A j \in Evaluated(s.ledger) : i <= j
           t == [s EXCEPT !.seed = seed, !.scores = <<BestHat(s.ledger)>>]
<1>1. Evaluated(s.ledger) \subseteq Nat
  BY LedgerIsFinite DEF Evaluated
<1>2. \E i \in Evaluated(s.ledger) : \A j \in Evaluated(s.ledger) : i <= j
  BY <1>1, LeastNatural
<1>3. First(seed, s.ledger)
  BY <1>2 DEF First
<1>4. Shaped(t) /\ t.seed = seed
  <2> HIDE DEF seed
  <2> QED BY DEF Shaped, Fields
<1>5. Seeded(s) = Continued(t)
  BY DEF Seeded
<1> HIDE DEF t, seed
<1> QED BY <1>3, <1>4, <1>5, LeavesSound

\* A ledger that grows keeps what is known of its candidates.
LEMMA GrowthKeeps ==
    ASSUME NEW d, NEW c, IsSequence(d)
    PROVE  LET e == Append(d, c) IN
           /\ Evaluated(d) \subseteq Evaluated(e)
           /\ Evaluated(e) \subseteq Evaluated(d) \cup {Len(d) + 1}
           /\ \A i \in Evaluated(d) : e[i] = d[i]
           /\ c.status = "evaluated" => Evaluated(e) # {}
           /\ Measured(d) /\ (c.status = "evaluated" => c.params \in Configs) => Measured(e)
           /\ \A i : First(i, d) => First(i, e)
           /\ \A i : Earned(i, d) => Earned(i, e)
<1> DEFINE e == Append(d, c)
<1>1. PICK S : d \in Seq(S)
  BY DEF IsSequence
<1>2. /\ Len(d) \in Nat /\ DOMAIN d = 1 .. Len(d) /\ DOMAIN e = 1 .. (Len(d) + 1)
      /\ e[Len(d) + 1] = c /\ \A i \in DOMAIN d : e[i] = d[i]
  BY <1>1
<1> HIDE DEF e
<1>3. /\ Evaluated(d) \subseteq Evaluated(e)
      /\ Evaluated(e) \subseteq Evaluated(d) \cup {Len(d) + 1}
      /\ \A i \in Evaluated(d) : e[i] = d[i]
      /\ c.status = "evaluated" => Len(d) + 1 \in Evaluated(e)
      /\ c.status # "evaluated" => Len(d) + 1 \notin Evaluated(e)
  BY <1>2 DEF Evaluated
<1>4. \A i \in Evaluated(d) : i \in Nat /\ i <= Len(d)
  BY <1>2 DEF Evaluated
<1>5. Measured(d) /\ (c.status = "evaluated" => c.params \in Configs) => Measured(e)
  BY <1>2, <1>3 DEF Measured
<1>6. ASSUME NEW i, First(i, d) PROVE First(i, e)
  BY <1>2, <1>3, <1>4, <1>6 DEF First
<1>7. ASSUME NEW i, Earned(i, d) PROVE Earned(i, e)
  <2>1. PICK seed \in Evaluated(d) :
          /\ \A j \in Evaluated(d) : seed <= j
          /\ \A t \in Types :
                20 * Cardinality(Passed[d[seed].params] \cap t)
                  <= 20 * Cardinality(Passed[d[i].params] \cap t) + Cardinality(t)
          /\ \/ Cardinality(Passed[d[i].params]) > Cardinality(Passed[d[seed].params])
             \/ /\ Cardinality(Passed[d[i].params]) = Cardinality(Passed[d[seed].params])
                /\ HeldOutTokens[d[i].params] < HeldOutTokens[d[seed].params]
    BY <1>7 DEF Earned
  <2>2. First(seed, e)
    BY <1>6, <2>1 DEF First
  <2>3. i \in Evaluated(d) /\ e[i] = d[i] /\ e[seed] = d[seed]
    BY <1>3, <1>7, <2>1 DEF Earned
  <2> QED BY <1>3, <2>1, <2>2, <2>3 DEF Earned, First
<1> QED BY <1>3, <1>5, <1>6, <1>7 DEF e

\* A step of the search that leaves the human gate alone.
LEMMA SearchKeeps ==
    ASSUME IInv, PInv, UNCHANGED <<files, live>>, Sound(search', disk'),
           \/ UNCHANGED disk
           \/ \E c : /\ disk' = Append(disk, c)
                     /\ c.status = "evaluated" => c.params \in Configs
    PROVE  PInv'
<1>0. IsSequence(disk) /\ pending' = pending /\ promoted' = promoted /\ active' = active
      /\ live' = live
  BY DEF IInv, files
<1>1. CASE UNCHANGED disk
  BY <1>0, <1>1 DEF PInv, EarnedFiles, RestartKeepsLive, Booted
<1>2. ASSUME NEW c, disk' = Append(disk, c), c.status = "evaluated" => c.params \in Configs
      PROVE  PInv'
  <2>1. Measured(disk') /\ EarnedFiles(disk)'
    BY <1>0, <1>2, GrowthKeeps DEF PInv, EarnedFiles
  <2>2. promoted # 0 => disk'[promoted] = disk[promoted]
    BY <1>0, <1>2, GrowthKeeps DEF PInv, EarnedFiles, Earned
  <2>3. RestartKeepsLive'
    BY <1>0, <2>2 DEF PInv, RestartKeepsLive, Booted
  <2> QED BY <2>1, <2>3 DEF PInv
<1> QED BY <1>1, <1>2

\* A recorded candidate: the list in memory is the one on the disk, one longer.
LEMMA RecordGrows ==
    ASSUME IInv, search.pc # "idle", NEW c, Record(search, c)
    PROVE  /\ disk' = Append(disk, c) /\ IsSequence(disk')
           /\ Shaped(Recorded(search, c)) /\ Recorded(search, c).ledger = disk'
           /\ Recorded(search, c).seed = search.seed
<1>1. IsSequence(disk) /\ Shaped(search) /\ search.ledger = disk
  BY DEF IInv, InStep
<1>2. Recorded(search, c).seed = search.seed
  BY <1>1 DEF Shaped, Fields, Recorded
<1> QED BY <1>1, <1>2, RecordAppends

\* A rejection keeps the seed, whatever round it ends.
LEMMA RejectSound ==
    ASSUME NEW s, NEW c, IsSequence(disk), Shaped(s), s.ledger = disk, First(s.seed, disk),
           c.status # "evaluated", Reject(s, c)
    PROVE  /\ disk' = Append(disk, c) /\ Sound(search', disk')
<1>1. disk' = Append(disk, c) /\ Shaped(Recorded(s, c))
  BY RecordAppends DEF Reject
<1>2. Recorded(s, c).seed = s.seed
  BY DEF Shaped, Fields, Recorded
<1>3. First(s.seed, disk')
  BY <1>1, GrowthKeeps
<1> QED BY <1>1, <1>2, <1>3, LeavesSound DEF Reject

\* The files of the human gate name configurations, also half-written: what an
\* approval has got done after n writes is what a boot applies.
LEMMA WritesAreEarned ==
    ASSUME PInv, NEW n \in 0 .. 3, ApprovalWrites(n), UNCHANGED disk
    PROVE  EarnedFiles(disk)'
BY DEF PInv, EarnedFiles, ApprovalWrites

LEMMA ApprovedIsLive ==
    ASSUME PInv, Approve
    PROVE  RestartKeepsLive'
<1>1. pending # 0 /\ Earned(pending, disk)
  BY DEF PInv, EarnedFiles, Approve
<1>2. disk[pending].params \in Configs
  BY <1>1 DEF PInv, Measured, Earned
<1>3. disk[pending].params # NoParams
  BY <1>2, HarnessOptimizerAssumption
<1>4. active' = disk[pending].params /\ live' = disk[pending].params
  BY DEF Approve, ApprovalWrites
<1> QED BY <1>3, <1>4 DEF RestartKeepsLive, Booted

LEMMA EarnedStep == IInv /\ PInv /\ [Next]_vars => PInv'
<1> SUFFICES ASSUME IInv, PInv, [Next]_vars PROVE PInv'
  OBVIOUS
<1>0. /\ IsSequence(disk) /\ Shaped(search) /\ (search.pc # "idle" => search.ledger = disk)
      /\ Measured(disk) /\ Sound(search, disk) /\ EarnedFiles(disk) /\ RestartKeepsLive
  BY DEF IInv, InStep, PInv
<1>i. Sound(Idle, disk)
  BY DEF Sound, Idle
<1>1. ASSUME Start PROVE PInv'
  <2> DEFINE s == [Idle EXCEPT !.ledger = Loaded]
             t == [s EXCEPT !.pc = "seed",
                     !.params = IF promoted = 0 THEN Default ELSE disk[promoted].params]
  <2>1. Shaped(s) /\ s.ledger = disk
    BY DEF Shaped, Idle, Loaded, Fields
  <2>2. (IF promoted = 0 THEN Default ELSE disk[promoted].params) \in Configs
    BY <1>0, HarnessOptimizerAssumption DEF EarnedFiles, Earned, Measured
  <2>3. Sound(t, disk)
    BY <2>2 DEF Sound, Idle
  <2>4. Evaluated(disk) # {} => Sound(Seeded(s), disk)
    <3> HIDE DEF s
    <3> QED BY <1>0, <2>1, SeededSound
  <2>5. UNCHANGED <<disk, files, live>> /\ search' = (IF Evaluated(disk) # {} THEN Seeded(s) ELSE t)
    BY <1>1, <2>1 DEF Start
  <2> HIDE DEF s, t
  <2> QED BY <2>3, <2>4, <2>5, SearchKeeps
<1>2. ASSUME SeedScored PROVE PInv'
  <2> DEFINE c == Candidate("evaluated", search.params)
  <2>1. /\ search.pc # "idle" /\ Record(search, c) /\ search' = Seeded(Recorded(search, c))
        /\ UNCHANGED <<files, live>>
    BY <1>2 DEF SeedScored
  <2>2. c.status = "evaluated" /\ c.params \in Configs
    BY <1>0, <1>2 DEF SeedScored, Sound, Candidate
  <2> HIDE DEF c
  <2>3. disk' = Append(disk, c) /\ Evaluated(disk') # {}
    BY <1>0, <2>1, <2>2, RecordGrows, GrowthKeeps
  <2>4. Sound(search', disk')
    BY <2>1, <2>3, RecordGrows, SeededSound
  <2> QED BY <2>1, <2>2, <2>3, <2>4, SearchKeeps
<1>3. ASSUME SeedUnaffordable \/ Escapes PROVE PInv'
  BY <1>3, <1>i, SearchKeeps DEF SeedUnaffordable, Escapes
<1>4. ASSUME NoProposal PROVE PInv'
  <2>1. First(search.seed, disk) /\ search' = Concluded(search) /\ UNCHANGED <<disk, files, live>>
    BY <1>0, <1>4 DEF NoProposal, Sound
  <2> QED BY <1>0, <2>1, LeavesSound, SearchKeeps
<1> DEFINE next == [search EXCEPT !.round = @ + 1]
<1>5. ASSUME search.pc \notin {"idle", "seed"}
      PROVE  Shaped(next) /\ next.ledger = disk /\ First(next.seed, disk)
  BY <1>0, <1>5 DEF Shaped, Fields, Sound
<1>6. ASSUME Malformed PROVE PInv'
  <2> DEFINE c == Candidate("rejected", NoParams)
  <2>1. search.pc \notin {"idle", "seed"} /\ Reject(next, c) /\ UNCHANGED <<files, live>>
    BY <1>6 DEF Malformed
  <2>2. c.status # "evaluated"
    BY DEF Candidate
  <2> HIDE DEF next, c
  <2> QED BY <1>0, <1>5, <2>1, <2>2, RejectSound, SearchKeeps
<1>7. ASSUME NEW parent \in DOMAIN search.ledger, NEW params \in Configs, Propose(parent, params)
      PROVE  PInv'
  <2> DEFINE t == [next EXCEPT !.pc = "evaluate", !.params = params]
  <2>1. /\ search.pc \notin {"idle", "seed"} /\ UNCHANGED <<files, live>>
        /\ \/ \E c : c.status # "evaluated" /\ Reject(next, c)
           \/ search' = t /\ UNCHANGED disk
    BY <1>7 DEF Propose, Candidate
  <2>2. Sound(t, disk)
    BY <1>5, <2>1 DEF Sound, Shaped, Fields
  <2> HIDE DEF next, t
  <2> QED BY <1>0, <1>5, <2>1, <2>2, RejectSound, SearchKeeps
<1>8. ASSUME Scored PROVE PInv'
  <2> DEFINE c == Candidate("evaluated", search.params)
             s == Recorded(search, c)
             t == [s EXCEPT !.scores = Append(s.scores, BestHat(s.ledger))]
  <2>1. /\ search.pc # "idle" /\ Record(search, c) /\ UNCHANGED <<files, live>>
        /\ search' = Concluded(t) \/ search' = Continued(t)
    BY <1>8 DEF Scored
  <2>2. c.status = "evaluated" /\ c.params \in Configs /\ First(search.seed, disk)
    BY <1>0, <1>8 DEF Scored, Sound, Candidate
  <2>3. disk' = Append(disk, c) /\ Shaped(s) /\ s.seed = search.seed
    <3> HIDE DEF c
    <3> QED BY <2>1, RecordGrows
  <2>4. First(search.seed, disk')
    BY <1>0, <2>2, <2>3, GrowthKeeps
  <2>5. Shaped(t) /\ t.seed = search.seed
    <3> HIDE DEF s
    <3> QED BY <2>3 DEF Shaped, Fields
  <2> HIDE DEF t, c
  <2> QED BY <2>1, <2>2, <2>3, <2>4, <2>5, LeavesSound, SearchKeeps
<1>9. ASSUME EvaluationFails PROVE PInv'
  <2> DEFINE c == Candidate("rejected", search.params)
  <2>1. Reject(search, c) /\ First(search.seed, disk) /\ search.ledger = disk /\ UNCHANGED <<files, live>>
    BY <1>0, <1>9 DEF EvaluationFails, Sound
  <2>2. c.status # "evaluated"
    BY DEF Candidate
  <2> HIDE DEF c
  <2> QED BY <1>0, <2>1, <2>2, RejectSound, SearchKeeps
<1>10. ASSUME BudgetEnds PROVE PInv'
  <2> DEFINE c == Candidate("rejected", search.params)
  <2>1. /\ search.pc # "idle" /\ Record(search, c) /\ search' = Concluded(Recorded(search, c))
        /\ First(search.seed, disk) /\ UNCHANGED <<files, live>>
    BY <1>0, <1>10 DEF BudgetEnds, Sound
  <2>2. c.status # "evaluated"
    BY DEF Candidate
  <2> HIDE DEF c
  <2>3. disk' = Append(disk, c) /\ First(search.seed, disk')
    BY <1>0, <2>1, RecordGrows, GrowthKeeps
  <2> QED BY <2>1, <2>2, <2>3, RecordGrows, LeavesSound, SearchKeeps
<1>11. ASSUME Judged PROVE PInv'
  <2>1. search.pc # "idle" /\ search.ledger = disk /\ First(search.seed, disk)
    BY <1>0, <1>11 DEF Judged, Sound
  <2>2. Promotable(search) # {} => Earned(Winner(search), disk)
    BY <1>0, <2>1, WinnerIsPromotable, PromotableIsEarned
  <2>3. EarnedFiles(disk)'
    BY <1>0, <1>11, <2>2 DEF Judged, EarnedFiles
  <2>4. UNCHANGED <<disk, promoted, active, live>> /\ search' = Idle
    BY <1>11 DEF Judged
  <2> QED BY <1>0, <1>i, <2>3, <2>4 DEF PInv, RestartKeepsLive, Booted
<1>12. ASSUME Approve PROVE PInv'
  <2>1. UNCHANGED <<disk, search>> /\ ApprovalWrites(3)
    BY <1>12 DEF Approve
  <2> QED BY <1>0, <1>12, <2>1, WritesAreEarned, ApprovedIsLive DEF PInv
<1>13. ASSUME Refuse PROVE PInv'
  BY <1>0, <1>13 DEF Refuse, PInv, EarnedFiles, RestartKeepsLive, Booted
<1>14. ASSUME Crash PROVE PInv'
  <2>1. UNCHANGED disk /\ live' = Booted(active', promoted') /\ search' = Idle
        /\ \E n \in 0 .. 3 : ApprovalWrites(n)
    BY <1>14 DEF Crash
  <2>2. RestartKeepsLive'
    BY <2>1 DEF RestartKeepsLive, Booted
  <2> QED BY <1>0, <1>i, <2>1, <2>2, WritesAreEarned DEF PInv
<1>15. ASSUME UNCHANGED vars PROVE PInv'
  BY <1>0, <1>15, SearchKeeps DEF vars, files
<1> QED
  BY <1>1, <1>2, <1>3, <1>4, <1>6, <1>7, <1>8, <1>9, <1>10, <1>11, <1>12, <1>13, <1>14, <1>15
     DEF Next, Step

LEMMA InitEarned == Init => PInv
<1> SUFFICES ASSUME Init PROVE PInv
  OBVIOUS
<1>1. Evaluated(disk) = {}
  BY DEF Init, Evaluated
<1> QED BY <1>1 DEF Init, PInv, Measured, Sound, Idle, EarnedFiles, RestartKeepsLive, Booted

\* Whatever waits for approval or was promoted was scored, keeps every task
\* type of the seed on the held-out tasks and beats the seed, for any tasks,
\* proposals, searches, approvals and crashes (loop.py:18-23).
THEOREM PromotedIsEarnedHolds == Spec => []PromotedIsEarned
<1>1. PInv => PromotedIsEarned
  BY DEF PInv, EarnedFiles, Earned, PromotedIsEarned
<1> QED BY <1>1, InitInStep, StepKeeps, InitEarned, EarnedStep, PTL DEF Spec

\* What is live is what the next boot applies, although an approval is three
\* writes and a crash may fall between them (app.py:737, cli.py:141).
THEOREM RestartKeepsLiveHolds == Spec => []RestartKeepsLive
<1>1. PInv => RestartKeepsLive
  BY DEF PInv
<1> QED BY <1>1, InitInStep, StepKeeps, InitEarned, EarnedStep, PTL DEF Spec

(***************************************************************************)
(* Publications and tools.                                                 *)
(***************************************************************************)

\* Version and revision numbers.
Numbers == 1 .. MaxVersion
Revisions == Nat \ {0}


\* Publications.  An artifact is well-formed whoever died where; a caller in
\* its critical section knows in addition what it has written.

Sights == [id : Ids, draft : Store!Drafts]
Hold == {None} \cup Store!Drafts \cup Store!Refs \cup Contents
Places == {"idle", "fork", "tune", "create", "delete", "version", "catalog", "drop", "end"}
Critical == {"create", "delete", "version", "catalog", "drop", "end"}
Callers == [pc : Places, id : {None} \cup Ids, seen : {None} \cup Sights, held : Hold]

StoreTypes ==
    /\ catalog \in [Ids -> {None} \cup Store!Entries] /\ draft \in [Ids -> {None} \cup Store!Drafts]
    /\ intent \in [Ids -> {None} \cup Store!Intents]
    /\ versions \in [Ids -> [Numbers -> {None} \cup Store!Versions]]
    /\ lock \in [Ids -> {None} \cup Clients] /\ births \in 0 .. MaxDrafts
    /\ client \in [Clients -> Callers]

Latest(e) == IF e = None THEN 0 ELSE e.latest

\* e, d, i, vs: the entry, the draft, the intent and the versions of an
\* artifact; b: the drafts ever created.
Pending(e, d, i, vs) ==
    i # None =>
       /\ e # None /\ e.latest \in {i.version - 1, i.version}
       /\ d # None => d.revision = i.revision /\ Store!Same(d, i) /\ d.birth = i.birth
       /\ vs[i.version] # None => Store!Same(vs[i.version], i) /\ vs[i.version].birth = i.birth
Counted(e, d, i, vs) ==
    /\ e = None => d = None /\ i = None
    /\ \A v \in Numbers :
          /\ v <= Latest(e) => vs[v] # None
          /\ vs[v] # None => v <= Latest(e) \/ (i # None /\ v = i.version)
Told(d, i, vs, b) ==
    /\ \A v, w \in Numbers : vs[v] # None /\ vs[w] # None /\ v # w => vs[v].birth # vs[w].birth
    /\ d # None => d.birth <= b
    /\ i # None => i.birth <= b
    /\ \A v \in Numbers : vs[v] # None =>
          /\ vs[v].birth <= b
          /\ d # None /\ i = None => vs[v].birth # d.birth
          /\ i # None /\ v # i.version => vs[v].birth # i.birth
WellKept(e, d, i, vs, b) == Pending(e, d, i, vs) /\ Counted(e, d, i, vs) /\ Told(d, i, vs, b)

\* What a caller in its critical section has done.
Section(x, e, d, i, vs, b) ==
    /\ x.pc \in {"create", "delete"} => e # None /\ e.latest = 0 /\ d = None /\ i = None
    /\ x.pc = "create" => x.held.birth <= b
    /\ x.pc \in {"version", "catalog", "drop", "end"} => i # None
    /\ x.pc \in {"catalog", "drop", "end"} => vs[i.version] # None
    /\ x.pc \in {"drop", "end"} => e.latest = i.version
    /\ x.pc = "end" => d = None

Artifacts == \A id \in Ids : WellKept(catalog[id], draft[id], intent[id], versions[id], births)
Inside == \A c \in Clients : client[c].pc \in Critical =>
             LET id == client[c].id IN
             /\ id \in Ids /\ lock[id] = c
             /\ Section(client[c], catalog[id], draft[id], intent[id], versions[id], births)
\* What a caller holds for its next write, and the version a fork has read.
Holding(x) == /\ x.pc = "create" => x.held \in Store!Drafts
              /\ x.pc = "fork" => x.held \in Store!Refs
              /\ x.pc = "tune" => x.held \in Contents
Carrying(x, vs) == Holding(x) /\ (x.pc = "fork" => vs[x.held.id][x.held.version] # None)
Carries == \A c \in Clients : Carrying(client[c], versions)

StoreInv == StoreTypes /\ Artifacts /\ Inside /\ Carries

\* A step by c inside the critical section of k, or entering or leaving it.
Within(c, k, x, e, d, i, vs, l) ==
    /\ lock[k] \in {None, c} /\ l \in {None, c}
    /\ client' = [client EXCEPT ![c] = x] /\ lock' = [lock EXCEPT ![k] = l]
    /\ catalog' = [catalog EXCEPT ![k] = e] /\ draft' = [draft EXCEPT ![k] = d]
    /\ intent' = [intent EXCEPT ![k] = i] /\ versions' = [versions EXCEPT ![k] = vs]
    /\ births' \in 0 .. MaxDrafts /\ births <= births'
    /\ x \in Callers /\ e \in {None} \cup Store!Entries /\ d \in {None} \cup Store!Drafts
    /\ i \in {None} \cup Store!Intents /\ vs \in [Numbers -> {None} \cup Store!Versions]
    /\ \A v \in Numbers : versions[k][v] # None => vs[v] # None
    /\ WellKept(e, d, i, vs, births')
    /\ x.pc \in Critical => x.id = k /\ l = c /\ Section(x, e, d, i, vs, births')
    /\ Carrying(x, versions)

LEMMA Later ==
    ASSUME NEW e, NEW d \in {None} \cup Store!Drafts, NEW i \in {None} \cup Store!Intents,
           NEW vs \in [Numbers -> {None} \cup Store!Versions],
           NEW b \in Nat, NEW n \in Nat, b <= n
    PROVE  /\ WellKept(e, d, i, vs, b) => WellKept(e, d, i, vs, n)
           /\ \A x \in Callers : Holding(x) /\ Section(x, e, d, i, vs, b) => Section(x, e, d, i, vs, n)
<1>1. \A o \in Store!Drafts \cup Store!Intents \cup Store!Versions : o.birth \in Nat
  BY ConsoleAssumption DEF Store!Drafts, Store!Intents, Store!Versions, Store!Births, Numbers, Revisions
<1>2. Told(d, i, vs, b) => Told(d, i, vs, n)
  BY <1>1 DEF Told
<1>3. \A x \in Callers : Holding(x) /\ Section(x, e, d, i, vs, b) => Section(x, e, d, i, vs, n)
  BY <1>1 DEF Section, Holding
<1> QED BY <1>2, <1>3 DEF WellKept

LEMMA WithinKeeps ==
    ASSUME StoreInv, NEW c \in Clients, NEW k \in Ids, NEW x, NEW e, NEW d, NEW i, NEW vs, NEW l,
           Within(c, k, x, e, d, i, vs, l)
    PROVE  StoreInv'
<1>1. /\ StoreTypes /\ births \in Nat /\ births' \in Nat /\ births <= births'
      /\ c # None
  BY ConsoleAssumption DEF StoreInv, StoreTypes, Within
<1>2. StoreTypes'
  BY <1>1 DEF StoreTypes, Within
<1>3. /\ client'[c] = x /\ \A o \in Clients \ {c} : client'[o] = client[o]
      /\ lock'[k] = l /\ \A j \in Ids \ {k} : lock'[j] = lock[j]
      /\ catalog'[k] = e /\ draft'[k] = d /\ intent'[k] = i /\ versions'[k] = vs
      /\ \A j \in Ids \ {k} : /\ catalog'[j] = catalog[j] /\ draft'[j] = draft[j]
                              /\ intent'[j] = intent[j] /\ versions'[j] = versions[j]
  BY <1>1 DEF StoreTypes, Within
<1>4. Artifacts'
  <2> SUFFICES ASSUME NEW j \in Ids
               PROVE  WellKept(catalog'[j], draft'[j], intent'[j], versions'[j], births')
    BY DEF Artifacts
  <2>1. CASE j = k
    BY <2>1, <1>3 DEF Within
  <2>2. CASE j # k
    <3>1. /\ WellKept(catalog[j], draft[j], intent[j], versions[j], births)
          /\ draft[j] \in {None} \cup Store!Drafts /\ intent[j] \in {None} \cup Store!Intents
          /\ versions[j] \in [Numbers -> {None} \cup Store!Versions]
      BY <1>1 DEF StoreInv, Artifacts, StoreTypes
    <3>2. WellKept(catalog[j], draft[j], intent[j], versions[j], births')
      BY <3>1, <1>1, Later
    <3> QED BY <3>2, <2>2, <1>3
  <2> QED BY <2>1, <2>2
<1>5. Inside'
  <2> SUFFICES ASSUME NEW o \in Clients, client'[o].pc \in Critical
               PROVE  LET j == client'[o].id IN
                      /\ j \in Ids /\ lock'[j] = o
                      /\ Section(client'[o], catalog'[j], draft'[j], intent'[j], versions'[j], births')
    BY DEF Inside
  <2>1. CASE o = c
    BY <2>1, <1>3 DEF Within
  <2>2. CASE o # c
    <3> DEFINE j == client[o].id
    <3>1. /\ j \in Ids /\ lock[j] = o /\ client[o] \in Callers /\ Holding(client[o])
          /\ Section(client[o], catalog[j], draft[j], intent[j], versions[j], births)
      BY <2>2, <1>3, <1>1 DEF StoreInv, Inside, Carries, Carrying, StoreTypes
    <3>2. j # k
      BY <3>1, <2>2, ConsoleAssumption DEF Within
    <3>3. /\ draft[j] \in {None} \cup Store!Drafts /\ intent[j] \in {None} \cup Store!Intents
          /\ versions[j] \in [Numbers -> {None} \cup Store!Versions]
      BY <3>1, <1>1 DEF StoreTypes
    <3>4. Section(client[o], catalog[j], draft[j], intent[j], versions[j], births')
      BY <3>1, <3>3, <1>1, Later
    <3> QED BY <3>1, <3>2, <3>4, <2>2, <1>3
  <2> QED BY <2>1, <2>2
<1>6. Carries'
  <2>1. \A ref \in Store!Refs : versions[ref.id][ref.version] # None => versions'[ref.id][ref.version] # None
    BY <1>1, <1>3 DEF Store!Refs, Numbers, Within
  <2>2. \A o \in Clients : Carrying(client'[o], versions)
    BY <1>3 DEF StoreInv, Carries, Within
  <2> QED BY <2>1, <2>2 DEF Carries, Carrying, Holding
<1> QED BY <1>2, <1>4, <1>5, <1>6 DEF StoreInv

-----------------------------------------------------------------------------
\* Steps outside every critical section: only what c looks at changes.
Browses(c, x) ==
    /\ client' = [client EXCEPT ![c] = x] /\ UNCHANGED <<Store!files, lock, births>>
    /\ x \in Callers /\ x.pc \notin Critical /\ Carrying(x, versions)

LEMMA BrowsingKeeps ==
    ASSUME StoreInv, NEW c \in Clients, NEW x, Browses(c, x)
    PROVE  StoreInv'
<1>1. /\ client'[c] = x /\ \A o \in Clients \ {c} : client'[o] = client[o]
      /\ client' \in [Clients -> Callers]
  BY DEF StoreInv, StoreTypes, Browses
<1>2. UNCHANGED <<catalog, draft, intent, versions, lock, births>>
  BY DEF Browses, Store!files
<1>3. StoreTypes'
  BY <1>1, <1>2 DEF StoreInv, StoreTypes
<1>4. Artifacts'
  BY <1>2 DEF StoreInv, Artifacts
<1>5. Inside'
  <2> SUFFICES ASSUME NEW o \in Clients, client'[o].pc \in Critical
               PROVE  LET j == client'[o].id IN
                      /\ j \in Ids /\ lock'[j] = o
                      /\ Section(client'[o], catalog'[j], draft'[j], intent'[j], versions'[j], births')
    BY DEF Inside
  <2>1. o # c
    BY <1>1 DEF Browses
  <2> QED BY <2>1, <1>1, <1>2 DEF StoreInv, Inside
<1>6. Carries'
  BY <1>1, <1>2 DEF StoreInv, Carries, Browses
<1> QED BY <1>3, <1>4, <1>5, <1>6 DEF StoreInv

\* What is known of a caller and of an artifact.
LEMMA Typed ==
    ASSUME StoreInv, NEW c \in Clients, NEW k \in Ids
    PROVE  /\ client[c] \in Callers /\ Carrying(client[c], versions)
           /\ catalog[k] \in {None} \cup Store!Entries /\ draft[k] \in {None} \cup Store!Drafts
           /\ intent[k] \in {None} \cup Store!Intents
           /\ versions[k] \in [Numbers -> {None} \cup Store!Versions]
           /\ WellKept(catalog[k], draft[k], intent[k], versions[k], births)
           /\ births \in 0 .. MaxDrafts /\ births <= births
           /\ catalog = [catalog EXCEPT ![k] = catalog[k]]
           /\ draft = [draft EXCEPT ![k] = draft[k]]
           /\ intent = [intent EXCEPT ![k] = intent[k]]
           /\ versions = [versions EXCEPT ![k] = versions[k]]
           /\ lock = [lock EXCEPT ![k] = lock[k]]
           /\ client = [client EXCEPT ![c] = client[c]]
<1>1. births \in 0 .. MaxDrafts /\ births <= births
  BY ConsoleAssumption DEF StoreInv, StoreTypes
<1> QED BY <1>1 DEF StoreInv, StoreTypes, Carries, Artifacts

LEMMA CallerFields ==
    ASSUME NEW x \in Callers
    PROVE  /\ \A p \in Places : [x EXCEPT !.pc = p] \in Callers
           /\ \A p \in Places, h \in Hold : [x EXCEPT !.pc = p, !.held = h] \in Callers
           /\ \A p \in Places, h \in Hold, j \in Ids :
                 [x EXCEPT !.pc = p, !.id = j, !.held = h] \in Callers
           /\ \A s \in {None} \cup Sights : [x EXCEPT !.seen = s] \in Callers /\ Store!Idle(s) \in Callers
           /\ x.seen \in {None} \cup Sights
BY DEF Callers, Hold, Store!Idle, Places

LEMMA Named ==
    /\ "create" \in Places /\ "delete" \in Places /\ "version" \in Places
    /\ "catalog" \in Places /\ "drop" \in Places /\ "end" \in Places /\ None \in Hold
BY DEF Places, Hold

LEMMA ReadDraftKeeps ==
    ASSUME StoreInv, NEW c \in Clients, NEW id \in Ids, Store!ReadDraft(c, id)
    PROVE  StoreInv'
<1> DEFINE s == [id |-> id, draft |-> draft[id]]
           x == [client[c] EXCEPT !.seen = s]
<1>1. client[c] \in Callers /\ s \in Sights
  BY Typed DEF Store!ReadDraft, Sights
<1>2. x \in Callers /\ x.pc = "idle"
  BY <1>1, CallerFields DEF Store!ReadDraft, Callers
<1>3. client' = [client EXCEPT ![c] = x] /\ UNCHANGED <<Store!files, lock, births>>
  BY Typed DEF Store!ReadDraft
<1> HIDE DEF x
<1>4. Browses(c, x)
  BY <1>2, <1>3 DEF Browses, Critical, Carrying, Holding
<1> QED BY <1>4, BrowsingKeeps

LEMMA ReadActiveKeeps ==
    ASSUME StoreInv, NEW c \in Clients, NEW ref \in Store!Refs, Store!ReadActive(c, ref)
    PROVE  StoreInv'
<1> DEFINE x == [client[c] EXCEPT !.pc = "fork", !.held = ref]
<1>1. client[c] \in Callers /\ ref \in Hold /\ "fork" \in Places
  BY DEF StoreInv, StoreTypes, Hold, Places
<1>2. x \in Callers /\ x.pc = "fork" /\ x.held = ref
  BY <1>1, CallerFields DEF Callers
<1>3. client' = [client EXCEPT ![c] = x] /\ UNCHANGED <<Store!files, lock, births>>
  BY DEF Store!ReadActive, StoreInv, StoreTypes
<1> HIDE DEF x
<1>4. Browses(c, x)
  BY <1>2, <1>3 DEF Browses, Critical, Carrying, Holding, Store!ReadActive, Store!IsVersion
<1> QED BY <1>4, BrowsingKeeps

LEMMA TuneConflictsKeeps ==
    ASSUME StoreInv, NEW c \in Clients, Store!TuneConflicts(c)
    PROVE  StoreInv'
<1> DEFINE x == Store!Idle(client[c].seen)
<1>1. x \in Callers /\ x.pc = "idle"
  BY CallerFields DEF Store!Idle, StoreInv, StoreTypes
<1>3. client' = [client EXCEPT ![c] = x] /\ UNCHANGED <<Store!files, lock, births>>
  BY DEF Store!TuneConflicts, StoreInv, StoreTypes
<1> HIDE DEF x
<1>4. Browses(c, x)
  BY <1>1, <1>3 DEF Browses, Critical, Carrying, Holding
<1> QED BY <1>4, BrowsingKeeps

LEMMA DieKeeps ==
    ASSUME StoreInv, NEW c \in Clients, Store!Die(c)
    PROVE  StoreInv'
<1> DEFINE x == Store!Idle(client[c].seen)
<1>1. x \in Callers /\ x.pc = "idle"
  BY CallerFields DEF Store!Idle, StoreInv, StoreTypes
<1>2. /\ client' = [client EXCEPT ![c] = x] /\ UNCHANGED <<catalog, draft, intent, versions, births>>
      /\ lock' = [j \in Ids |-> IF lock[j] = c THEN None ELSE lock[j]]
  BY DEF Store!Die, StoreInv, StoreTypes, Store!files
<1> HIDE DEF x
<1>3. /\ client'[c] = x /\ \A o \in Clients \ {c} : client'[o] = client[o]
      /\ client' \in [Clients -> Callers]
  BY <1>1, <1>2 DEF StoreInv, StoreTypes
<1>4. StoreTypes'
  BY <1>2, <1>3 DEF StoreInv, StoreTypes
<1>5. Artifacts'
  BY <1>2 DEF StoreInv, Artifacts
<1>6. Inside'
  <2> SUFFICES ASSUME NEW o \in Clients, client'[o].pc \in Critical
               PROVE  LET j == client'[o].id IN
                      /\ j \in Ids /\ lock'[j] = o
                      /\ Section(client'[o], catalog'[j], draft'[j], intent'[j], versions'[j], births')
    BY DEF Inside
  <2>1. o # c
    BY <1>1, <1>3 DEF Critical
  <2>2. LET j == client[o].id IN
        /\ j \in Ids /\ lock[j] = o
        /\ Section(client[o], catalog[j], draft[j], intent[j], versions[j], births)
    BY <2>1, <1>3 DEF StoreInv, Inside
  <2> QED BY <2>1, <2>2, <1>2, <1>3
<1>7. Carries'
  BY <1>1, <1>2, <1>3 DEF StoreInv, Carries, Carrying, Holding
<1> QED BY <1>4, <1>5, <1>6, <1>7 DEF StoreInv

-----------------------------------------------------------------------------
\* Creation.  A new draft is of a birth no version has.
LEMMA CreatingKeeps ==
    ASSUME StoreInv, NEW c \in Clients, NEW id \in Ids, NEW d \in Store!Drafts, NEW next \in Callers,
           lock[id] = None, d.birth = births + 1,
           next.pc \in {"idle", "tune"}, Holding(next), Store!CreateDraft(c, id, d, next)
    PROVE  StoreInv'
<1> DEFINE e == catalog[id]  i == intent[id]  vs == versions[id]
<1>1. /\ client[c] \in Callers /\ e \in {None} \cup Store!Entries /\ draft[id] \in {None} \cup Store!Drafts
      /\ i = None /\ vs \in [Numbers -> {None} \cup Store!Versions] /\ draft[id] = None
      /\ WellKept(e, None, i, vs, births) /\ births \in Nat
      /\ births' = births + 1 /\ births' \in 0 .. MaxDrafts
  BY Typed, ConsoleAssumption DEF Store!CreateDraft, Store!MayCreate
<1>2. WellKept(e, None, i, vs, births')
  BY <1>1, Later
<1>3. \A o \in Store!Versions : o.birth \in Nat
  BY DEF Store!Versions, Store!Births
<1>4. None \notin Store!Drafts \cup Store!Entries \cup Clients
  BY ConsoleAssumption
<1>5. CASE catalog[id] = None
  <2> DEFINE x == [client[c] EXCEPT !.pc = "create", !.id = id, !.held = d]
             n == [latest |-> 0, archived |-> FALSE]
  <2>1. /\ "create" \in Places /\ d \in Hold /\ MaxVersion \in Nat
    BY ConsoleAssumption DEF Places, Hold
  <2>2. x \in Callers /\ x.pc = "create" /\ x.id = id /\ x.held = d
    BY <1>1, <2>1, CallerFields DEF Callers
  <2>3. n \in Store!Entries /\ n # None /\ n.latest = 0
    <3>1. n \in Store!Entries
      BY <2>1 DEF Store!Entries
    <3> QED BY <3>1, <1>4
  <2>4. /\ client' = [client EXCEPT ![c] = x] /\ lock' = [lock EXCEPT ![id] = c]
        /\ catalog' = [catalog EXCEPT ![id] = n]
        /\ UNCHANGED <<draft, intent, versions>>
    BY <1>5 DEF Store!CreateDraft, Store!Holds, StoreInv, StoreTypes
  <2> HIDE DEF x, n
  <2>5. WellKept(n, None, i, vs, births')
    BY <1>1, <1>2, <1>5, <2>3 DEF WellKept, Pending, Counted, Told, Latest, Numbers
  <2>6. Section(x, n, None, i, vs, births')
    BY <1>1, <2>2, <2>3 DEF Section
  <2>7. Carrying(x, versions)
    BY <2>2 DEF Carrying, Holding
  <2>8. Within(c, id, x, n, None, i, vs, c)
    BY <1>1, <2>2, <2>3, <2>4, <2>5, <2>6, <2>7, Typed DEF Within, Numbers
  <2> QED BY <2>8, WithinKeeps
<1>6. CASE catalog[id] # None
  <2> DEFINE s == [id |-> id, draft |-> d]
             x == [next EXCEPT !.seen = s]
  <2>1. s \in Sights
    BY DEF Sights
  <2>2. x \in Callers /\ x.pc = next.pc /\ x.held = next.held
    BY <2>1, CallerFields DEF Callers
  <2>4. /\ client' = [client EXCEPT ![c] = x] /\ draft' = [draft EXCEPT ![id] = d]
        /\ UNCHANGED <<catalog, intent, versions, lock>>
    BY <1>6 DEF Store!CreateDraft
  <2> HIDE DEF x
  <2>5. WellKept(e, d, i, vs, births')
    BY <1>1, <1>2, <1>3, <1>4, <1>6 DEF WellKept, Pending, Counted, Told, Numbers, Store!Drafts, Store!Births, Revisions
  <2>7. Carrying(x, versions) /\ x.pc \notin Critical
    BY <2>2 DEF Carrying, Holding, Critical
  <2>8. Within(c, id, x, e, d, i, vs, None)
    BY <1>1, <2>2, <2>4, <2>5, <2>7, Typed DEF Within, Numbers
  <2> QED BY <2>8, WithinKeeps
<1> QED BY <1>5, <1>6

LEMMA NewDraftIsDraft ==
    ASSUME StoreInv, births < MaxDrafts, NEW content \in Contents, NEW base \in {None} \cup Numbers,
           NEW source \in Store!Sources
    PROVE  /\ Store!NewDraft(content, base, source) \in Store!Drafts
           /\ Store!NewDraft(content, base, source).birth = births + 1
BY ConsoleAssumption DEF Store!NewDraft, Store!Drafts, Store!Births, Revisions, StoreInv, StoreTypes, Numbers

LEMMA IdleHolds ==
    /\ Store!Idle(None) \in Callers /\ Store!Idle(None).pc = "idle" /\ Holding(Store!Idle(None))
    /\ \A h \in Contents : LET x == [Store!Idle(None) EXCEPT !.pc = "tune", !.held = h]
                           IN  x \in Callers /\ x.pc = "tune" /\ Holding(x)
BY DEF Store!Idle, Callers, Places, Hold, Holding

LEMMA CreateKeeps ==
    ASSUME StoreInv, NEW c \in Clients, NEW id \in Ids, NEW content \in Contents,
           Store!Create(c, id, content)
    PROVE  StoreInv'
<1> DEFINE d == Store!NewDraft(content, None, None)
<1>1. Store!CreateDraft(c, id, d, Store!Idle(None)) /\ lock[id] = None /\ births < MaxDrafts
  BY DEF Store!Create, Store!Enters, Store!CreateDraft
<1>2. d \in Store!Drafts /\ d.birth = births + 1
  BY <1>1, NewDraftIsDraft DEF Store!Sources
<1> HIDE DEF d
<1> QED BY <1>1, <1>2, IdleHolds, CreatingKeeps

\* What a version on disk gives the draft made from it.
LEMMA FromVersion ==
    ASSUME StoreInv, births < MaxDrafts, NEW ref \in Store!Refs, versions[ref.id][ref.version] # None
    PROVE  LET from == versions[ref.id][ref.version]
               d == Store!NewDraft(from.content, ref.version, from.source)
               f == Store!NewDraft(from.content, None, ref)
           IN  /\ ref.id \in Ids
               /\ d \in Store!Drafts /\ d.birth = births + 1
               /\ f \in Store!Drafts /\ f.birth = births + 1
<1> DEFINE from == versions[ref.id][ref.version]
<1>1. ref.id \in Ids /\ ref.version \in Numbers
  BY DEF Store!Refs, Numbers
<1>2. from \in Store!Versions
  BY <1>1 DEF StoreInv, StoreTypes
<1>3. from.content \in Contents /\ from.source \in Store!Sources /\ ref \in Store!Sources
  BY <1>2 DEF Store!Versions, Store!Sources
<1> HIDE DEF from
<1>4. LET d == Store!NewDraft(from.content, ref.version, from.source)
          f == Store!NewDraft(from.content, None, ref)
      IN  /\ d \in Store!Drafts /\ d.birth = births + 1
          /\ f \in Store!Drafts /\ f.birth = births + 1
  BY <1>1, <1>3, NewDraftIsDraft
<1> QED BY <1>1, <1>4 DEF from

LEMMA CreateFromVersionKeeps ==
    ASSUME StoreInv, NEW c \in Clients, NEW ref \in Store!Refs, Store!CreateFromVersion(c, ref)
    PROVE  StoreInv'
<1> DEFINE from == versions[ref.id][ref.version]
           d == Store!NewDraft(from.content, ref.version, from.source)
<1>1. /\ Store!CreateDraft(c, ref.id, d, Store!Idle(None)) /\ lock[ref.id] = None /\ births < MaxDrafts
      /\ versions[ref.id][ref.version] # None
  BY DEF Store!CreateFromVersion, Store!Enters, Store!CreateDraft, Store!IsVersion
<1>2. d \in Store!Drafts /\ d.birth = births + 1 /\ ref.id \in Ids
  BY <1>1, FromVersion
<1> HIDE DEF d
<1> QED BY <1>1, <1>2, IdleHolds, CreatingKeeps

LEMMA ForkKeeps ==
    ASSUME StoreInv, NEW c \in Clients, NEW id \in Ids, Store!Fork(c, id)
    PROVE  StoreInv'
<1> DEFINE ref == client[c].held
           d == Store!NewDraft(versions[ref.id][ref.version].content, None, ref)
<1>1. /\ Store!CreateDraft(c, id, d, Store!Idle(None)) /\ lock[id] = None /\ births < MaxDrafts
      /\ client[c].pc = "fork"
  BY DEF Store!Fork, Store!CreateDraft
<1>2. ref \in Store!Refs /\ versions[ref.id][ref.version] # None
  BY <1>1 DEF StoreInv, Carries, Carrying, Holding
<1>3. d \in Store!Drafts /\ d.birth = births + 1
  BY <1>1, <1>2, FromVersion
<1> HIDE DEF d
<1> QED BY <1>1, <1>3, IdleHolds, CreatingKeeps

LEMMA TuneKeeps ==
    ASSUME StoreInv, NEW c \in Clients, NEW ref \in Store!Refs, NEW content \in Contents,
           Store!Tune(c, ref, content)
    PROVE  StoreInv'
<1> DEFINE id == ref.id
           from == versions[ref.id][ref.version]
           d == Store!NewDraft(from.content, ref.version, from.source)
           tuning == [Store!Idle(None) EXCEPT !.pc = "tune", !.held = content]
<1>1. tuning \in Callers /\ tuning.pc = "tune" /\ Holding(tuning) /\ id \in Ids
  BY IdleHolds DEF Store!Refs
<1>2. CASE draft[id] = None /\ lock[id] = None /\ Store!CreateDraft(c, id, d, tuning)
  <2>1. versions[ref.id][ref.version] # None /\ births < MaxDrafts
    BY <1>2 DEF Store!Tune, Store!IsVersion, Store!CreateDraft
  <2>2. d \in Store!Drafts /\ d.birth = births + 1
    BY <2>1, FromVersion
  <2> HIDE DEF d, tuning
  <2> QED BY <1>1, <1>2, <2>2, CreatingKeeps
<1>3. CASE /\ draft[id] # None
           /\ client' = [client EXCEPT ![c] =
                            [tuning EXCEPT !.seen = [id |-> id, draft |-> draft[id]]]]
           /\ UNCHANGED <<Store!files, lock, births, deaths>>
  <2> DEFINE s == [id |-> id, draft |-> draft[id]]
             x == [tuning EXCEPT !.seen = s]
  <2>1. s \in Sights
    BY <1>1, <1>3 DEF Sights, StoreInv, StoreTypes
  <2> HIDE DEF tuning, s
  <2>2. x \in Callers /\ x.pc = "tune" /\ Holding(x)
    BY <1>1, <2>1, CallerFields DEF Callers, Holding
  <2>3. client' = [client EXCEPT ![c] = x]
    BY <1>3 DEF s
  <2> HIDE DEF x
  <2>4. Browses(c, x)
    BY <1>3, <2>2, <2>3 DEF Browses, Critical, Carrying
  <2> QED BY <2>4, BrowsingKeeps
<1> QED BY <1>2, <1>3 DEF Store!Tune

LEMMA FinishCreateKeeps ==
    ASSUME StoreInv, NEW c \in Clients, Store!FinishCreate(c)
    PROVE  StoreInv'
<1> DEFINE id == client[c].id  d == client[c].held
           s == [id |-> id, draft |-> d]  x == Store!Idle(s)
           e == catalog[id]  vs == versions[id]
<1>1. /\ client[c].pc = "create" /\ d \in Store!Drafts /\ id \in Ids /\ lock[id] = c
      /\ Section(client[c], e, draft[id], intent[id], vs, births)
  BY DEF Store!FinishCreate, StoreInv, Carries, Carrying, Holding, Inside, Critical
<1>2. e # None /\ e.latest = 0 /\ draft[id] = None /\ intent[id] = None /\ d.birth <= births
  BY <1>1 DEF Section
<1>3. s \in Sights /\ x \in Callers /\ x.pc = "idle"
  <2>1. s \in Sights
    BY <1>1 DEF Sights
  <2> QED BY <2>1, CallerFields DEF Store!Idle, StoreInv, StoreTypes
<1>4. /\ client' = [client EXCEPT ![c] = x] /\ lock' = [lock EXCEPT ![id] = None]
      /\ draft' = [draft EXCEPT ![id] = d]
      /\ UNCHANGED <<catalog, intent, versions, births>>
  BY DEF Store!FinishCreate, Store!Leaves
<1>5. /\ vs \in [Numbers -> {None} \cup Store!Versions] /\ births \in Nat /\ None \notin Store!Drafts
      /\ WellKept(e, None, None, vs, births) /\ e \in {None} \cup Store!Entries
  BY <1>1, <1>2, Typed, ConsoleAssumption
<1>6. \A v \in Numbers : vs[v] = None
  BY <1>2, <1>5 DEF WellKept, Counted, Latest, Numbers, Store!Entries
<1>7. WellKept(e, d, None, vs, births)
  BY <1>1, <1>2, <1>5, <1>6 DEF WellKept, Pending, Counted, Told
<1> HIDE DEF x, id, d, s, e, vs
<1>8. Within(c, id, x, e, d, None, vs, None)
  BY <1>1, <1>2, <1>3, <1>4, <1>5, <1>7, Typed DEF Within, e, vs, Carrying, Holding, Critical
<1> QED BY <1>1, <1>8, WithinKeeps

-----------------------------------------------------------------------------
\* Editing, deleting, archiving: only where no publication is pending.
LEMMA SaveKeeps ==
    ASSUME StoreInv, NEW c \in Clients, NEW content \in Contents, Store!Save(c, content)
    PROVE  StoreInv'
<1> DEFINE id == client[c].seen.id
           d == [draft[id] EXCEPT !.revision = @ + 1, !.content = content]
           s == [id |-> id, draft |-> d]  x == Store!Idle(s)
           e == catalog[id]  vs == versions[id]
<1>1. id \in Ids /\ draft[id] # None /\ intent[id] = None /\ lock[id] = None
  BY DEF Store!Save, Store!MaySave, StoreInv, StoreTypes, Callers, Sights
<1>2. d \in Store!Drafts /\ d.birth = draft[id].birth
  <2>1. draft[id] \in Store!Drafts /\ content \in Contents
    BY <1>1 DEF StoreInv, StoreTypes
  <2>2. draft[id].revision + 1 \in Revisions
    BY <2>1 DEF Store!Drafts, Revisions, Numbers
  <2> QED BY <2>1, <2>2 DEF Store!Drafts, Numbers, Revisions
<1>3. s \in Sights /\ x \in Callers /\ x.pc = "idle"
  <2>1. s \in Sights
    BY <1>1, <1>2 DEF Sights
  <2> QED BY <2>1, CallerFields DEF Store!Idle, StoreInv, StoreTypes
<1>4. /\ client' = [client EXCEPT ![c] = x] /\ draft' = [draft EXCEPT ![id] = d]
      /\ UNCHANGED <<catalog, intent, versions, lock, births>>
  BY DEF Store!Save
<1>5. /\ vs \in [Numbers -> {None} \cup Store!Versions] /\ births \in Nat /\ None \notin Store!Drafts
      /\ WellKept(e, draft[id], None, vs, births) /\ e \in {None} \cup Store!Entries
  BY <1>1, Typed, ConsoleAssumption
<1>6. WellKept(e, d, None, vs, births)
  BY <1>1, <1>2, <1>5 DEF WellKept, Pending, Counted, Told
<1> HIDE DEF x, id, d, s, e, vs
<1>7. Within(c, id, x, e, d, None, vs, None)
  BY <1>1, <1>2, <1>3, <1>4, <1>5, <1>6, Typed DEF Within, e, vs, Carrying, Holding, Critical
<1> QED BY <1>1, <1>7, WithinKeeps

LEMMA DeleteKeeps ==
    ASSUME StoreInv, NEW c \in Clients, NEW id \in Ids, Store!Delete(c, id)
    PROVE  StoreInv'
<1> DEFINE e == catalog[id]  vs == versions[id]
<1>1. /\ client[c].pc = "idle" /\ lock[id] = None /\ e # None /\ intent[id] = None
      /\ UNCHANGED <<intent, versions, births>>
  BY DEF Store!Delete, Store!Enters, Store!Active
<1>2. /\ client[c] \in Callers /\ vs \in [Numbers -> {None} \cup Store!Versions] /\ births \in Nat
      /\ e \in Store!Entries /\ WellKept(e, draft[id], None, vs, births)
      /\ Carrying(client[c], versions)
  BY <1>1, Typed, ConsoleAssumption
<1>3. WellKept(e, None, None, vs, births)
  BY <1>2 DEF WellKept, Pending, Counted, Told
<1>4. CASE draft[id] # None /\ e.latest = 0
  <2> DEFINE x == [client[c] EXCEPT !.pc = "delete", !.id = id, !.held = None]
  <2>1. x \in Callers /\ x.pc = "delete" /\ x.id = id
    BY <1>2, CallerFields, Named DEF Callers
  <2>2. /\ client' = [client EXCEPT ![c] = x] /\ lock' = [lock EXCEPT ![id] = c]
        /\ draft' = [draft EXCEPT ![id] = None] /\ UNCHANGED catalog
    BY <1>4 DEF Store!Delete, Store!Holds, StoreInv, StoreTypes
  <2> HIDE DEF x
  <2>3. Section(x, e, None, None, vs, births)
    BY <1>1, <1>4, <2>1 DEF Section
  <2>4. Carrying(x, versions)
    BY <2>1 DEF Carrying, Holding
  <2>5. Within(c, id, x, e, None, None, vs, c)
    BY <1>1, <1>2, <1>3, <2>1, <2>2, <2>3, <2>4, Typed DEF Within
  <2> QED BY <2>5, WithinKeeps
<1>5. CASE draft[id] # None /\ e.latest # 0
  <2>1. draft' = [draft EXCEPT ![id] = None] /\ UNCHANGED <<catalog, lock, client>>
    BY <1>5 DEF Store!Delete
  <2>2. client[c].pc \notin Critical
    BY <1>1 DEF Critical
  <2>3. Within(c, id, client[c], e, None, None, vs, None)
    BY <1>1, <1>2, <1>3, <2>1, <2>2, Typed DEF Within
  <2> QED BY <2>3, WithinKeeps
<1>6. CASE draft[id] = None
  <2>1. catalog' = [catalog EXCEPT ![id] = None] /\ UNCHANGED <<draft, lock, client>> /\ e.latest = 0
    BY <1>6 DEF Store!Delete
  <2>2. WellKept(None, None, None, vs, births)
    BY <1>1, <1>2, <1>3, <2>1 DEF WellKept, Pending, Counted, Told, Latest
  <2>3. client[c].pc \notin Critical
    BY <1>1 DEF Critical
  <2>4. Within(c, id, client[c], None, None, None, vs, None)
    BY <1>1, <1>2, <1>6, <2>1, <2>2, <2>3, Typed DEF Within
  <2> QED BY <2>4, WithinKeeps
<1> QED BY <1>4, <1>5, <1>6

LEMMA FinishDeleteKeeps ==
    ASSUME StoreInv, NEW c \in Clients, Store!FinishDelete(c)
    PROVE  StoreInv'
<1> DEFINE id == client[c].id  x == Store!Idle(client[c].seen)
           e == catalog[id]  vs == versions[id]
<1>1. /\ client[c].pc = "delete" /\ id \in Ids /\ lock[id] = c
      /\ Section(client[c], e, draft[id], intent[id], vs, births)
  BY DEF Store!FinishDelete, StoreInv, Inside, Critical
<1>2. e # None /\ e.latest = 0 /\ draft[id] = None /\ intent[id] = None
  BY <1>1 DEF Section
<1>3. x \in Callers /\ x.pc = "idle"
  BY CallerFields DEF Store!Idle, StoreInv, StoreTypes
<1>4. /\ client' = [client EXCEPT ![c] = x] /\ lock' = [lock EXCEPT ![id] = None]
      /\ catalog' = [catalog EXCEPT ![id] = None]
      /\ UNCHANGED <<draft, intent, versions, births>>
  BY DEF Store!FinishDelete, Store!Leaves
<1>5. /\ vs \in [Numbers -> {None} \cup Store!Versions] /\ births \in Nat
      /\ WellKept(e, None, None, vs, births)
  BY <1>1, <1>2, Typed, ConsoleAssumption
<1>6. WellKept(None, None, None, vs, births)
  BY <1>2, <1>5 DEF WellKept, Pending, Counted, Told, Latest
<1> HIDE DEF x, id, e, vs
<1>7. Within(c, id, x, None, None, None, vs, None)
  BY <1>1, <1>2, <1>3, <1>4, <1>5, <1>6, Typed DEF Within, e, vs, Carrying, Holding, Critical
<1> QED BY <1>1, <1>7, WithinKeeps

LEMMA ArchivingKeeps ==
    ASSUME StoreInv, NEW c \in Clients, NEW id \in Ids, Store!Archive(c, id) \/ Store!Restore(c, id)
    PROVE  StoreInv'
<1> DEFINE e == catalog[id]  vs == versions[id]  d == draft[id]  i == intent[id]
<1>1. /\ client[c].pc = "idle" /\ lock[id] = None /\ e # None
      /\ UNCHANGED <<draft, intent, versions, lock, client, births>>
  BY DEF Store!Archive, Store!Restore, Store!Enters
<1>2. /\ e \in Store!Entries /\ WellKept(e, d, i, vs, births) /\ births' = births
      /\ Carrying(client[c], versions)
  BY <1>1, Typed
<1>3. PICK b \in BOOLEAN : catalog' = [catalog EXCEPT ![id] = [e EXCEPT !.archived = b]]
  BY DEF Store!Archive, Store!Restore, StoreInv, StoreTypes
<1> DEFINE n == [e EXCEPT !.archived = b]
<1>4. n \in Store!Entries /\ n.latest = e.latest
  BY <1>2 DEF Store!Entries
<1> HIDE DEF n
<1>5. n # None /\ client[c].pc \notin Critical
  BY <1>1, <1>4, ConsoleAssumption DEF Critical
<1>6. WellKept(n, d, i, vs, births)
  BY <1>1, <1>2, <1>4, <1>5 DEF WellKept, Pending, Counted, Latest
<1>7. Within(c, id, client[c], n, d, i, vs, None)
  BY <1>1, <1>2, <1>3, <1>4, <1>5, <1>6, Typed DEF Within, n
<1> QED BY <1>7, WithinKeeps

-----------------------------------------------------------------------------
\* Publication.  The intent names the draft; the writes that follow it, and
\* those of a retry, leave an artifact any retry can complete.
LEMMA PublishKeeps ==
    ASSUME StoreInv, NEW c \in Clients, Store!Publish(c)
    PROVE  StoreInv'
<1> DEFINE id == client[c].seen.id
           x == [client[c] EXCEPT !.pc = "version", !.id = id, !.held = None]
           e == catalog[id]  vs == versions[id]  d == draft[id]  i == intent'[id]
<1>1. /\ id \in Ids /\ lock[id] = None /\ e # None /\ client[c].pc = "idle"
      /\ UNCHANGED <<catalog, draft, versions, births>>
  BY DEF Store!Publish, Store!Enters, Store!Active, StoreInv, StoreTypes, Callers, Sights
<1>2. /\ client[c] \in Callers /\ vs \in [Numbers -> {None} \cup Store!Versions] /\ births \in Nat
      /\ births' = births /\ e \in Store!Entries /\ d \in {None} \cup Store!Drafts
      /\ WellKept(e, d, intent[id], vs, births)
  BY <1>1, Typed, ConsoleAssumption
<1>3. x \in Callers /\ x.pc = "version" /\ x.id = id
  BY <1>1, <1>2, CallerFields, Named DEF Callers
<1>4. client' = [client EXCEPT ![c] = x] /\ lock' = [lock EXCEPT ![id] = c]
  BY DEF Store!Publish, Store!Holds, StoreInv, StoreTypes
<1>5. /\ intent' = [intent EXCEPT ![id] = i] /\ i \in {None} \cup Store!Intents /\ i # None
      /\ WellKept(e, d, i, vs, births)
  <2>1. CASE intent[id] # None /\ UNCHANGED intent
    BY <1>1, <1>2, <2>1, Typed
  <2>2. CASE /\ intent[id] = None /\ d # None /\ Store!NextVersion(id) <= MaxVersion
             /\ intent' = [intent EXCEPT ![id] = Store!IntentOf(id)]
    <3>1. i = Store!IntentOf(id) /\ intent' = [intent EXCEPT ![id] = i]
      BY <1>1, <2>2 DEF StoreInv, StoreTypes
    <3>2. d \in Store!Drafts /\ e.latest \in 0 .. MaxVersion /\ MaxVersion \in Nat
          /\ e.latest + 1 <= MaxVersion
      BY <1>2, <2>2, ConsoleAssumption DEF Store!Entries, Store!NextVersion
    <3> DEFINE n == [revision |-> d.revision, version |-> e.latest + 1,
                     content |-> d.content, source |-> d.source, birth |-> d.birth]
    <3>3. n \in Store!Intents
      BY <3>2 DEF Store!Drafts, Store!Intents, Numbers, Revisions
    <3>4. /\ n.revision = d.revision /\ n.version = e.latest + 1 /\ Store!Same(d, n) /\ n.birth = d.birth
          /\ Store!IntentOf(id) = n
      BY DEF Store!Same, Store!IntentOf, Store!NextVersion
    <3> HIDE DEF n
    <3>5. n # None
      BY <3>3, ConsoleAssumption
    <3>6. \A v \in Numbers : vs[v] # None => v <= e.latest /\ vs[v].birth # d.birth
      BY <1>1, <1>2, <2>2 DEF WellKept, Counted, Told, Latest
    <3>7. n.version \in Numbers /\ n.version > e.latest
      BY <3>2, <3>4 DEF Numbers
    <3>8. WellKept(e, d, n, vs, births)
      <4>1. Pending(e, d, n, vs)
        BY <1>1, <3>2, <3>4, <3>6, <3>7 DEF Pending
      <4>2. Counted(e, d, n, vs)
        BY <1>1, <1>2, <2>2 DEF WellKept, Counted
      <4>3. Told(d, n, vs, births)
        BY <1>2, <2>2, <3>4, <3>6 DEF WellKept, Told
      <4> QED BY <4>1, <4>2, <4>3 DEF WellKept
    <3> QED BY <3>1, <3>3, <3>4, <3>5, <3>8
  <2> QED BY <2>1, <2>2 DEF Store!Publish
<1> HIDE DEF x, id, e, vs, d, i
<1>6. Section(x, e, d, i, vs, births) /\ Carrying(x, versions)
  BY <1>3, <1>5 DEF Section, Carrying, Holding
<1>7. Within(c, id, x, e, d, i, vs, c)
  BY <1>1, <1>2, <1>3, <1>4, <1>5, <1>6, Typed DEF Within, e, vs, d
<1> QED BY <1>1, <1>7, WithinKeeps

\* What a caller between two writes of a publication knows.
LEMMA Publishing ==
    ASSUME StoreInv, NEW c \in Clients, client[c].pc \in {"version", "catalog", "drop", "end"}
    PROVE  LET id == client[c].id IN
           /\ id \in Ids /\ lock[id] = c /\ intent[id] \in Store!Intents /\ intent[id] # None
           /\ catalog[id] \in Store!Entries /\ catalog[id] # None
           /\ client[c] \in Callers /\ births \in Nat /\ intent[id].version \in Numbers
           /\ Section(client[c], catalog[id], draft[id], intent[id], versions[id], births)
<1>1. client[c].pc \in Critical
  BY DEF Critical
<1> DEFINE id == client[c].id
<1>2. /\ id \in Ids /\ lock[id] = c
      /\ Section(client[c], catalog[id], draft[id], intent[id], versions[id], births)
  BY <1>1 DEF StoreInv, Inside
<1>3. intent[id] # None /\ intent[id] \in Store!Intents
  BY <1>2, Typed DEF Section
<1>4. catalog[id] # None /\ catalog[id] \in Store!Entries
  BY <1>2, <1>3, Typed DEF WellKept, Pending
<1> QED BY <1>2, <1>3, <1>4, ConsoleAssumption DEF Store!Intents, StoreInv, StoreTypes, Numbers, Revisions

LEMMA WriteVersionKeeps ==
    ASSUME StoreInv, NEW c \in Clients, Store!WriteVersion(c)
    PROVE  StoreInv'
<1> DEFINE id == client[c].id  i == intent[id]
           x == [client[c] EXCEPT !.pc = "catalog"]
           e == catalog[id]  vs == versions'[id]  d == draft[id]
           n == [content |-> i.content, source |-> i.source, birth |-> i.birth]
<1>1. /\ id \in Ids /\ lock[id] = c /\ i \in Store!Intents /\ i # None /\ e \in Store!Entries /\ e # None
      /\ client[c] \in Callers /\ births \in Nat /\ i.version \in Numbers
      /\ client[c].pc = "version"
      /\ UNCHANGED <<catalog, draft, intent, lock, births>>
  BY Publishing DEF Store!WriteVersion
<1>2. x \in Callers /\ x.pc = "catalog" /\ x.id = id
  BY <1>1, CallerFields, Named DEF Callers
<1>3. client' = [client EXCEPT ![c] = x]
  BY DEF Store!WriteVersion, StoreInv, StoreTypes
<1>4. /\ versions[id] \in [Numbers -> {None} \cup Store!Versions] /\ d \in {None} \cup Store!Drafts
      /\ WellKept(e, d, i, versions[id], births)
  BY <1>1, Typed
<1>5. n \in Store!Versions /\ n # None /\ Store!Same(n, i) /\ n.birth = i.birth
  <2>1. n \in Store!Versions
    BY <1>1 DEF Store!Intents, Store!Versions, Numbers, Revisions
  <2> QED BY <2>1, ConsoleAssumption DEF Store!Same
<1> HIDE DEF n
<1>6. /\ versions' = [versions EXCEPT ![id] = vs] /\ vs \in [Numbers -> {None} \cup Store!Versions]
      /\ vs[i.version] # None
      /\ vs = versions[id] \/ (versions[id][i.version] = None
                               /\ vs = [versions[id] EXCEPT ![i.version] = n])
  <2>1. CASE versions[id][i.version] # None
    BY <1>1, <1>4, <2>1, Typed DEF Store!WriteVersion
  <2>2. CASE versions[id][i.version] = None
    <3>1. versions' = [versions EXCEPT ![id] = [versions[id] EXCEPT ![i.version] = n]]
      BY <1>1, <2>2 DEF Store!WriteVersion, n, StoreInv, StoreTypes
    <3>2. vs = [versions[id] EXCEPT ![i.version] = n]
      BY <1>1, <3>1, Typed DEF StoreInv, StoreTypes
    <3>3. versions' = [versions EXCEPT ![id] = vs]
      BY <3>1, <3>2
    <3> HIDE DEF i, vs, id
    <3> QED BY <1>1, <1>4, <1>5, <2>2, <3>2, <3>3
  <2> QED BY <2>1, <2>2
<1> HIDE DEF x, id, i, e, vs, d
<1>7. WellKept(e, d, i, vs, births)
  <2>1. CASE vs = versions[id]
    BY <1>4, <2>1
  <2>2. CASE versions[id][i.version] = None /\ vs = [versions[id] EXCEPT ![i.version] = n]
    <3>1. /\ vs[i.version] = n
          /\ \A v \in Numbers : v # i.version => vs[v] = versions[id][v]
      BY <1>1, <1>4, <2>2
    <3>2. Pending(e, d, i, vs)
      BY <1>4, <1>5, <3>1 DEF WellKept, Pending
    <3>3. Counted(e, d, i, vs)
      BY <1>1, <1>4, <1>5, <3>1 DEF WellKept, Counted
    <3>4. Told(d, i, vs, births)
      <4>1. \A v \in Numbers : v # i.version /\ vs[v] # None => vs[v].birth # i.birth
        BY <1>1, <1>4, <3>1 DEF WellKept, Told
      <4>2. \A v \in Numbers : vs[v] # None => vs[v].birth <= births
        BY <1>1, <1>4, <1>5, <3>1 DEF WellKept, Told
      <4>3. \A v, w \in Numbers : vs[v] # None /\ vs[w] # None /\ v # w => vs[v].birth # vs[w].birth
        <5> SUFFICES ASSUME NEW v \in Numbers, NEW w \in Numbers,
                            vs[v] # None, vs[w] # None, v # w
                     PROVE  vs[v].birth # vs[w].birth
          OBVIOUS
        <5>1. CASE v = i.version
          BY <5>1, <1>5, <3>1, <4>1
        <5>2. CASE w = i.version
          BY <5>2, <1>5, <3>1, <4>1
        <5>3. CASE v # i.version /\ w # i.version
          BY <5>3, <1>4, <3>1 DEF WellKept, Told
        <5> QED BY <5>1, <5>2, <5>3
      <4> QED BY <1>1, <1>4, <4>1, <4>2, <4>3 DEF WellKept, Told
    <3> QED BY <3>2, <3>3, <3>4 DEF WellKept
  <2> QED BY <1>6, <2>1, <2>2
<1>8. Section(x, e, d, i, vs, births) /\ Carrying(x, versions)
  BY <1>1, <1>2, <1>6 DEF Section, Carrying, Holding
<1>9. \A v \in Numbers : versions[id][v] # None => vs[v] # None
  BY <1>1, <1>4, <1>5, <1>6
<1>10. Within(c, id, x, e, d, i, vs, c)
  BY <1>1, <1>2, <1>3, <1>4, <1>6, <1>7, <1>8, <1>9, Typed DEF Within, e, d, i
<1> QED BY <1>1, <1>10, WithinKeeps

LEMMA WriteCatalogKeeps ==
    ASSUME StoreInv, NEW c \in Clients, Store!WriteCatalog(c)
    PROVE  StoreInv'
<1> DEFINE id == client[c].id  i == intent[id]
           x == [client[c] EXCEPT !.pc = "drop"]
           e == catalog[id]  vs == versions[id]  d == draft[id]
           n == [e EXCEPT !.latest = i.version]
<1>1. /\ id \in Ids /\ lock[id] = c /\ i \in Store!Intents /\ i # None /\ e \in Store!Entries /\ e # None
      /\ client[c] \in Callers /\ births \in Nat /\ i.version \in Numbers
      /\ client[c].pc = "catalog" /\ vs[i.version] # None
      /\ UNCHANGED <<draft, intent, versions, lock, births>>
  BY Publishing DEF Store!WriteCatalog, Section
<1>2. x \in Callers /\ x.pc = "drop" /\ x.id = id
  BY <1>1, CallerFields, Named DEF Callers
<1>3. client' = [client EXCEPT ![c] = x] /\ catalog' = [catalog EXCEPT ![id] = n]
  BY DEF Store!WriteCatalog, StoreInv, StoreTypes
<1>4. /\ vs \in [Numbers -> {None} \cup Store!Versions] /\ d \in {None} \cup Store!Drafts
      /\ WellKept(e, d, i, vs, births)
  BY <1>1, Typed
<1>5. n \in Store!Entries /\ n # None /\ n.latest = i.version
  <2>1. n \in Store!Entries /\ n.latest = i.version
    BY <1>1, ConsoleAssumption DEF Store!Entries, Numbers
  <2> QED BY <2>1, ConsoleAssumption
<1> HIDE DEF x, id, i, e, vs, d, n
<1>6. WellKept(n, d, i, vs, births)
  <2>1. e.latest \in {i.version - 1, i.version} /\ i.version \in Nat /\ e.latest \in Nat
    BY <1>1, <1>4, ConsoleAssumption DEF WellKept, Pending, Numbers, Store!Entries
  <2>2. Pending(n, d, i, vs)
    BY <1>4, <1>5 DEF WellKept, Pending
  <2>3. Counted(n, d, i, vs)
    BY <1>1, <1>4, <1>5, <2>1 DEF WellKept, Counted, Latest, Numbers
  <2> QED BY <1>4, <2>2, <2>3 DEF WellKept
<1>7. Section(x, n, d, i, vs, births) /\ Carrying(x, versions)
  BY <1>1, <1>2, <1>5 DEF Section, Carrying, Holding
<1>8. Within(c, id, x, n, d, i, vs, c)
  BY <1>1, <1>2, <1>3, <1>4, <1>5, <1>6, <1>7, Typed DEF Within, vs, d, i
<1> QED BY <1>1, <1>8, WithinKeeps

LEMMA DropDraftKeeps ==
    ASSUME StoreInv, NEW c \in Clients, Store!DropDraft(c)
    PROVE  StoreInv'
<1> DEFINE id == client[c].id  i == intent[id]
           x == [client[c] EXCEPT !.pc = "end"]
           e == catalog[id]  vs == versions[id]
<1>1. /\ id \in Ids /\ lock[id] = c /\ i \in Store!Intents /\ i # None /\ e \in Store!Entries /\ e # None
      /\ client[c] \in Callers /\ births \in Nat /\ i.version \in Numbers
      /\ client[c].pc = "drop" /\ vs[i.version] # None /\ e.latest = i.version
      /\ UNCHANGED <<catalog, intent, versions, lock, births>>
  BY Publishing DEF Store!DropDraft, Section
<1>2. x \in Callers /\ x.pc = "end" /\ x.id = id
  BY <1>1, CallerFields, Named DEF Callers
<1>3. client' = [client EXCEPT ![c] = x] /\ draft' = [draft EXCEPT ![id] = None]
  BY DEF Store!DropDraft, StoreInv, StoreTypes
<1>4. /\ vs \in [Numbers -> {None} \cup Store!Versions] /\ WellKept(e, draft[id], i, vs, births)
  BY <1>1, Typed
<1> HIDE DEF x, i, e, vs
<1>5. WellKept(e, None, i, vs, births)
  BY <1>1, <1>4 DEF WellKept, Pending, Counted, Told
<1>6. Section(x, e, None, i, vs, births) /\ Carrying(x, versions)
  BY <1>1, <1>2 DEF Section, Carrying, Holding
<1> HIDE DEF id
<1>7. Within(c, id, x, e, None, i, vs, c)
  BY <1>1, <1>2, <1>3, <1>4, <1>5, <1>6, Typed DEF Within, vs, e, i
<1> QED BY <1>1, <1>7, WithinKeeps

LEMMA DropIntentKeeps ==
    ASSUME StoreInv, NEW c \in Clients, Store!DropIntent(c)
    PROVE  StoreInv'
<1> DEFINE id == client[c].id  i == intent[id]  x == Store!Idle(client[c].seen)
           e == catalog[id]  vs == versions[id]
<1>1. /\ id \in Ids /\ lock[id] = c /\ i \in Store!Intents /\ i # None /\ e \in Store!Entries /\ e # None
      /\ births \in Nat /\ i.version \in Numbers
      /\ client[c].pc = "end" /\ e.latest = i.version /\ draft[id] = None
      /\ UNCHANGED <<catalog, draft, versions, births>>
  BY Publishing DEF Store!DropIntent, Section
<1>2. x \in Callers /\ x.pc = "idle"
  BY CallerFields DEF Store!Idle, StoreInv, StoreTypes
<1>3. /\ client' = [client EXCEPT ![c] = x] /\ lock' = [lock EXCEPT ![id] = None]
      /\ intent' = [intent EXCEPT ![id] = None]
  BY DEF Store!DropIntent, Store!Leaves
<1>4. /\ vs \in [Numbers -> {None} \cup Store!Versions] /\ WellKept(e, None, i, vs, births)
  BY <1>1, Typed
<1> HIDE DEF x, i, e, vs
<1>5. WellKept(e, None, None, vs, births)
  BY <1>1, <1>4 DEF WellKept, Pending, Counted, Told, Latest, Numbers
<1>6. Carrying(x, versions) /\ x.pc \notin Critical
  BY <1>2 DEF Carrying, Holding, Critical
<1> HIDE DEF id
<1>7. Within(c, id, x, e, None, None, vs, None)
  BY <1>1, <1>2, <1>3, <1>4, <1>5, <1>6, Typed DEF Within, vs, e
<1> QED BY <1>1, <1>7, WithinKeeps

-----------------------------------------------------------------------------
LEMMA StoreInvInit == Store!Init => StoreInv
<1> SUFFICES ASSUME Store!Init PROVE StoreInv
  OBVIOUS
<1>1. /\ births = 0 /\ MaxDrafts \in Nat
      /\ \A c \in Clients : client[c] = Store!Idle(None)
      /\ \A j \in Ids : /\ catalog[j] = None /\ draft[j] = None /\ intent[j] = None
                        /\ \A v \in Numbers : versions[j][v] = None
  BY ConsoleAssumption DEF Store!Init, Numbers
<1>2. StoreTypes
  <2>1. births \in 0 .. MaxDrafts
    BY <1>1
  <2>2. client \in [Clients -> Callers]
    BY IdleHolds DEF Store!Init
  <2>3. versions \in [Ids -> [Numbers -> {None} \cup Store!Versions]]
    BY DEF Store!Init, Numbers
  <2> QED BY <2>1, <2>2, <2>3 DEF StoreTypes, Store!Init
<1>3. Artifacts
  BY <1>1 DEF Artifacts, WellKept, Pending, Counted, Told, Latest, Numbers
<1>4. Inside /\ Carries
  BY <1>1, IdleHolds DEF Inside, Carries, Carrying, Critical
<1> QED BY <1>2, <1>3, <1>4 DEF StoreInv

LEMMA StoreInvNext == StoreInv /\ [Store!Next]_(Store!vars) => StoreInv'
<1> SUFFICES ASSUME StoreInv, [Store!Next]_(Store!vars) PROVE StoreInv'
  OBVIOUS
<1>1. ASSUME NEW c \in Clients, NEW id \in Ids,
             \/ Store!ReadDraft(c, id) \/ Store!Delete(c, id) \/ Store!Archive(c, id) \/ Store!Restore(c, id) \/ Store!Fork(c, id)
             \/ \E content \in Contents : Store!Create(c, id, content)
      PROVE  StoreInv'
  BY <1>1, ReadDraftKeeps, DeleteKeeps, ArchivingKeeps, ForkKeeps, CreateKeeps
<1>2. ASSUME NEW c \in Clients, NEW ref \in Store!Refs,
             \/ Store!ReadActive(c, ref) \/ Store!CreateFromVersion(c, ref)
             \/ \E content \in Contents : Store!Tune(c, ref, content)
      PROVE  StoreInv'
  BY <1>2, ReadActiveKeeps, CreateFromVersionKeeps, TuneKeeps
<1>3. ASSUME NEW c \in Clients,
             \/ \E content \in Contents : Store!Save(c, content)
             \/ Store!TuneConflicts(c) \/ Store!FinishCreate(c) \/ Store!FinishDelete(c)
             \/ Store!Publish(c) \/ Store!WriteVersion(c) \/ Store!WriteCatalog(c) \/ Store!DropDraft(c) \/ Store!DropIntent(c)
             \/ Store!Die(c)
      PROVE  StoreInv'
  BY <1>3, SaveKeeps, TuneConflictsKeeps, FinishCreateKeeps, FinishDeleteKeeps, PublishKeeps,
     WriteVersionKeeps, WriteCatalogKeeps, DropDraftKeeps, DropIntentKeeps, DieKeeps
<1>4. CASE UNCHANGED Store!vars
  BY <1>4 DEF StoreInv, StoreTypes, Artifacts, Inside, Carries, Store!vars, Store!files
<1> QED BY <1>1, <1>2, <1>3, <1>4 DEF Store!Next

LEMMA StoreInvCompletes == StoreInv => Store!PendingCanComplete /\ Store!PublishedOnce
<1> SUFFICES ASSUME StoreInv PROVE Store!PendingCanComplete /\ Store!PublishedOnce
  OBVIOUS
<1>1. Store!PendingCanComplete
  BY DEF Store!PendingCanComplete, Store!Completes, StoreInv, Artifacts, WellKept, Pending
<1>2. ASSUME NEW id \in Ids
      PROVE  LET on == {v \in 1 .. MaxVersion : versions[id][v] # None}
                 latest == IF catalog[id] = None THEN 0 ELSE catalog[id].latest IN
             /\ \/ on = 1 .. latest
                \/ intent[id] # None /\ intent[id].version = latest + 1 /\ on = 1 .. latest + 1
             /\ \A v, w \in on : v # w => versions[id][v].birth # versions[id][w].birth
  <2> DEFINE e == catalog[id]  i == intent[id]  vs == versions[id]
             on == {v \in 1 .. MaxVersion : vs[v] # None}
             latest == Latest(e)
  <2>1. /\ e \in {None} \cup Store!Entries /\ i \in {None} \cup Store!Intents
        /\ WellKept(e, draft[id], i, vs, births) /\ MaxVersion \in Nat
    BY Typed, ConsoleAssumption DEF StoreInv, StoreTypes, Artifacts
  <2>2. latest \in 0 .. MaxVersion
    BY <2>1 DEF Latest, Store!Entries
  <2>3. i # None => i.version \in Numbers /\ latest \in {i.version - 1, i.version}
    BY <2>1 DEF WellKept, Pending, Latest, Store!Intents, Numbers, Revisions
  <2> HIDE DEF latest, e, i, vs
  <2>4. on = 1 .. latest \/ (i # None /\ i.version = latest + 1 /\ on = 1 .. latest + 1)
    <3>1. \A v \in Numbers : v <= latest => vs[v] # None
      BY <2>1 DEF WellKept, Counted, latest
    <3>2. \A v \in Numbers : vs[v] # None => v <= latest \/ (i # None /\ v = i.version)
      BY <2>1 DEF WellKept, Counted, latest
    <3>3. CASE i # None /\ i.version = latest + 1 /\ vs[latest + 1] # None
      BY <2>1, <2>2, <2>3, <3>1, <3>2, <3>3 DEF Numbers
    <3>4. CASE ~(i # None /\ i.version = latest + 1 /\ vs[latest + 1] # None)
      BY <2>1, <2>2, <2>3, <3>1, <3>2, <3>4 DEF Numbers
    <3> QED BY <3>3, <3>4
  <2>5. \A v, w \in on : v # w => vs[v].birth # vs[w].birth
    BY <2>1 DEF WellKept, Told, Numbers
  <2> QED BY <2>4, <2>5 DEF latest, Latest, e, i, vs
<1> QED BY <1>1, <1>2 DEF Store!PublishedOnce

\* However publications, edits, deletions, forks and deaths interleave, a
\* pending publication passes the checks of _complete_publish_intent, versions
\* have no gap, and no draft becomes two of them.
THEOREM PublicationsCompleteHolds == Store!Spec => []PublicationsComplete
<1>1. StoreInv /\ [Store!Next]_(Store!vars) => StoreInv'
  BY StoreInvNext
<1>2. StoreInv => PublicationsComplete
  BY StoreInvCompletes DEF PublicationsComplete
<1> HIDE DEF Store!Next, Store!Init, Store!vars, StoreInv, PublicationsComplete
<1> QED BY <1>1, <1>2, StoreInvInit, PTL DEF Store!Spec

-----------------------------------------------------------------------------
\* What a load leaves behind, and a configuration a load may be of.
Results == {Servers!Nothing, Servers!Failed} \cup {Servers!Loaded(made) : made \in Servers!Configs}
Asked == {made \in Servers!Configs : made.on}

ServerTypes ==
    /\ config \in [McpServers -> Servers!Configs \cup {None}] /\ outcome \in [McpServers -> Results]
    /\ load \in [Loads -> {Servers!NoLoad} \cup [server : McpServers, made : Asked]]
    /\ answered \in [McpServers -> BOOLEAN] /\ crowded \in [McpServers -> BOOLEAN]
    /\ tools = [s \in McpServers |-> tools[s]]

\* The loads that wait for s: one at most.
Alone(s) == \A l, m \in Loads : load[l].server = s /\ load[m].server = s => l = m

\* The tools are those of the last load, and the load of a configuration that
\* is still the one shows, up to the obscured secrets.
OfOneLoad(cf, ts, o, a) ==
    /\ o.kind = "loaded" => \A t \in DOMAIN ts : ts[t] = o.of.content
    /\ a => /\ DOMAIN ts # {} /\ o.kind = "loaded"
            /\ cf # None /\ cf.on /\ (o.of.plain \/ o.of = cf)

Settled(s) ==
    ~crowded[s] =>
       /\ Alone(s)
       /\ Servers!Waiting(s) => DOMAIN tools[s] = {} /\ ~answered[s]
       /\ OfOneLoad(config[s], tools[s], outcome[s], answered[s])

ServersInv == ServerTypes /\ \A s \in McpServers : Settled(s)

LEMMA ResultsAre ==
    ASSUME NEW made
    PROVE  /\ Servers!Loaded(made).kind = "loaded" /\ Servers!Loaded(made).of = made
           /\ Servers!Nothing.kind = "none" /\ Servers!Failed.kind = "failed"
           /\ made \in Servers!Configs => Servers!Loaded(made) \in Results
           /\ Servers!Nothing \in Results /\ Servers!Failed \in Results
           /\ DOMAIN Servers!NoTools = {} /\ Servers!NoLoad.server = None
BY DEF Servers!Loaded, Servers!Nothing, Servers!Failed, Results, Servers!NoTools, Servers!NoLoad

\* Saving the file leaves what the tools were loaded from, up to the secrets.
LEMMA ObscuredIs ==
    ASSUME NEW c \in [McpServers -> Servers!Configs \cup {None}]
    PROVE  /\ Servers!Obscured(c) \in [McpServers -> Servers!Configs \cup {None}]
           /\ \A s \in McpServers :
                 /\ c[s] = None <=> Servers!Obscured(c)[s] = None
                 /\ c[s] # None => /\ Servers!Obscured(c)[s].content = c[s].content
                                   /\ Servers!Obscured(c)[s].on = c[s].on
                                   /\ c[s].plain \/ Servers!Obscured(c)[s] = c[s]
<1>1. ASSUME NEW x \in Servers!Configs
      PROVE  LET y == [x EXCEPT !.plain = FALSE] IN
             /\ y \in Servers!Configs /\ y # None /\ y.content = x.content /\ y.on = x.on
             /\ x.plain \/ y = x
  <2> DEFINE y == [x EXCEPT !.plain = FALSE]
  <2>1. y \in Servers!Configs /\ y.content = x.content /\ y.on = x.on /\ x.plain \in BOOLEAN
    BY DEF Servers!Configs
  <2>2. ~x.plain => y = x
    BY DEF Servers!Configs
  <2> QED BY <2>1, <2>2, ConsoleAssumption
<1> QED BY <1>1 DEF Servers!Obscured

LEMMA Obscuring ==
    ASSUME NEW c \in [McpServers -> Servers!Configs \cup {None}], NEW s \in McpServers, NEW ts,
           NEW o \in Results, NEW a, OfOneLoad(c[s], ts, o, a)
    PROVE  OfOneLoad(Servers!Obscured(c)[s], ts, o, a)
BY ObscuredIs DEF OfOneLoad

\* Starting: nothing waits, and the tools are those of the file.
LEMMA ServersBooted ==
    ASSUME config \in [McpServers -> Servers!Configs \cup {None}], NEW listing \in Servers!Answers
    PROVE  /\ Servers!BootOutcome(listing) \in [McpServers -> Results]
           /\ Servers!BootTools(listing) = [s \in McpServers |-> Servers!BootTools(listing)[s]]
           /\ \A s \in McpServers :
                 OfOneLoad(config[s], Servers!BootTools(listing)[s], Servers!BootOutcome(listing)[s], Servers!Calm[s])
<1>1. \A s \in McpServers : Servers!BootOutcome(listing)[s] \in Results
  BY ResultsAre DEF Servers!BootOutcome
<1>2. Servers!BootOutcome(listing) \in [McpServers -> Results]
  BY <1>1 DEF Servers!BootOutcome
<1>3. ASSUME NEW s \in McpServers
      PROVE  OfOneLoad(config[s], Servers!BootTools(listing)[s], Servers!BootOutcome(listing)[s], Servers!Calm[s])
  <2>1. Servers!BootOutcome(listing)[s].kind = "loaded" => Servers!BootOutcome(listing)[s].of = config[s]
    BY ResultsAre DEF Servers!BootOutcome
  <2>2. \A t \in DOMAIN Servers!BootTools(listing)[s] : Servers!BootTools(listing)[s][t] = config[s].content
    BY DEF Servers!BootTools
  <2>3. ~Servers!Calm[s]
    BY DEF Servers!Calm
  <2> QED BY <2>1, <2>2, <2>3 DEF OfOneLoad
<1> QED BY <1>2, <1>3 DEF Servers!BootTools

LEMMA BootedInv ==
    ASSUME config \in [McpServers -> Servers!Configs \cup {None}], NEW listing \in Servers!Answers,
           tools = Servers!BootTools(listing), outcome = Servers!BootOutcome(listing),
           load = [l \in Loads |-> Servers!NoLoad], answered = Servers!Calm, crowded = Servers!Calm
    PROVE  ServersInv
<1>1. \A l \in Loads : load[l].server \notin McpServers
  BY ResultsAre, ConsoleAssumption
<1>2. ServerTypes
  BY ServersBooted DEF ServerTypes, Servers!Calm
<1>3. \A s \in McpServers : Settled(s)
  BY <1>1, ServersBooted DEF Settled, Alone, Servers!Waiting
<1> QED BY <1>2, <1>3 DEF ServersInv

LEMMA ServersInvInit == Servers!Init => ServersInv
BY BootedInv DEF Servers!Init

LEMMA RestartKeeps == ASSUME ServersInv, Servers!Restart PROVE ServersInv'
<1>1. config' = config /\ config \in [McpServers -> Servers!Configs \cup {None}]
  BY DEF Servers!Restart, ServersInv, ServerTypes
<1>2. PICK listing \in Servers!Answers : tools' = Servers!BootTools(listing) /\ outcome' = Servers!BootOutcome(listing)
  BY DEF Servers!Restart
<1>3. load' = [l \in Loads |-> Servers!NoLoad] /\ answered' = Servers!Calm /\ crowded' = Servers!Calm
  BY DEF Servers!Restart
<1>4. \A l \in Loads : load'[l].server \notin McpServers
  BY <1>3, ResultsAre, ConsoleAssumption
<1>5. ServerTypes'
  BY <1>1, <1>2, <1>3, ServersBooted DEF ServerTypes, Servers!Calm
<1>6. \A s \in McpServers : OfOneLoad(config'[s], tools'[s], outcome'[s], answered'[s])
  BY <1>1, <1>2, <1>3, ServersBooted
<1>7. \A s \in McpServers : Settled(s)'
  BY <1>4, <1>6 DEF Settled, Alone, Servers!Waiting
<1> QED BY <1>5, <1>7 DEF ServersInv

LEMMA EditKeeps ==
    ASSUME ServersInv, NEW s \in McpServers, NEW new \in Servers!Configs \cup {None}, Servers!Edit(s, new)
    PROVE  ServersInv'
<1> DEFINE c == [config EXCEPT ![s] = new]
<1>1. c \in [McpServers -> Servers!Configs \cup {None}] /\ \A r \in McpServers \ {s} : c[r] = config[r]
  BY DEF ServersInv, ServerTypes
<1>2. config' = Servers!Obscured(c)
  BY DEF Servers!Edit
<1> HIDE DEF c
<1>3. config' \in [McpServers -> Servers!Configs \cup {None}]
  BY <1>1, <1>2, ObscuredIs
<1>4. /\ tools' = [tools EXCEPT ![s] = Servers!NoTools] /\ outcome' = [outcome EXCEPT ![s] = Servers!Nothing]
      /\ answered' = [answered EXCEPT ![s] = FALSE]
      /\ crowded' = [crowded EXCEPT ![s] = crowded[s] /\ Servers!Waiting(s)]
      /\ UNCHANGED load
  BY DEF Servers!Edit
<1>5. ServerTypes'
  BY <1>3, <1>4, ResultsAre DEF ServersInv, ServerTypes
<1>6. ASSUME NEW r \in McpServers PROVE Settled(r)'
  <2>1. CASE r = s
    <3>1. /\ tools'[s] = Servers!NoTools /\ outcome'[s] = Servers!Nothing /\ ~answered'[s]
          /\ crowded'[s] = (crowded[s] /\ Servers!Waiting(s))
      BY <1>4 DEF ServersInv, ServerTypes
    <3>2. OfOneLoad(config'[s], tools'[s], outcome'[s], answered'[s])
      BY <3>1, ResultsAre DEF OfOneLoad
    <3>3. ~Servers!Waiting(s) => Alone(s)
      BY DEF Servers!Waiting, Alone
    <3>4. ~crowded'[s] => Alone(s)'
      BY <1>4, <3>1, <3>3 DEF ServersInv, Settled, Alone
    <3> QED BY <2>1, <3>1, <3>2, <3>4, ResultsAre DEF Settled
  <2>2. CASE r # s
    <3>1. /\ tools'[r] = tools[r] /\ outcome'[r] = outcome[r] /\ answered'[r] = answered[r]
          /\ crowded'[r] = crowded[r] /\ outcome[r] \in Results
          /\ Alone(r)' = Alone(r) /\ Servers!Waiting(r)' = Servers!Waiting(r)
      BY <1>4, <2>2 DEF ServersInv, ServerTypes, Alone, Servers!Waiting
    <3>2. OfOneLoad(config[r], tools[r], outcome[r], answered[r])
             => OfOneLoad(config'[r], tools'[r], outcome'[r], answered'[r])
      BY <1>1, <1>2, <2>2, <3>1, Obscuring
    <3> QED BY <3>1, <3>2 DEF ServersInv, Settled
  <2> QED BY <2>1, <2>2
<1> QED BY <1>5, <1>6 DEF ServersInv

LEMMA SaveOtherKeeps == ASSUME ServersInv, Servers!SaveOther PROVE ServersInv'
<1>1. /\ config' = Servers!Obscured(config) /\ config \in [McpServers -> Servers!Configs \cup {None}]
      /\ UNCHANGED <<tools, outcome, load, answered, crowded>>
  BY DEF Servers!SaveOther, ServersInv, ServerTypes
<1>2. ServerTypes'
  BY <1>1, ObscuredIs DEF ServersInv, ServerTypes
<1>3. ASSUME NEW s \in McpServers PROVE Settled(s)'
  <2>1. outcome[s] \in Results /\ Alone(s)' = Alone(s) /\ Servers!Waiting(s)' = Servers!Waiting(s)
    BY <1>1 DEF ServersInv, ServerTypes, Alone, Servers!Waiting
  <2>2. OfOneLoad(config[s], tools[s], outcome[s], answered[s])
           => OfOneLoad(config'[s], tools'[s], outcome'[s], answered'[s])
    BY <1>1, <2>1, Obscuring
  <2> QED BY <1>1, <2>1, <2>2 DEF ServersInv, Settled
<1> QED BY <1>2, <1>3 DEF ServersInv

LEMMA LoadBeginsKeeps ==
    ASSUME ServersInv, NEW l \in Loads, NEW s \in McpServers, Servers!LoadBegins(l, s)
    PROVE  ServersInv'
<1>1. /\ load[l] = Servers!NoLoad /\ config[s] # None /\ UNCHANGED config
      /\ tools' = [tools EXCEPT ![s] = Servers!NoTools]
      /\ answered' = [answered EXCEPT ![s] = FALSE]
      /\ crowded' = [crowded EXCEPT ![s] = Servers!Waiting(s)]
  BY DEF Servers!LoadBegins
<1> DEFINE q == [server |-> s, made |-> config[s]]
<1>2. \/ /\ config[s].on /\ load' = [load EXCEPT ![l] = q] /\ UNCHANGED outcome
      \/ /\ outcome' = [outcome EXCEPT ![s] = Servers!Failed] /\ UNCHANGED load
  BY DEF Servers!LoadBegins
<1>3. config[s].on => q \in [server : McpServers, made : Asked] /\ q.server = s
  BY <1>1 DEF ServersInv, ServerTypes, Asked
<1> HIDE DEF q
<1>4. ServerTypes'
  <2>1. load' \in [Loads -> {Servers!NoLoad} \cup [server : McpServers, made : Asked]]
    BY <1>2, <1>3 DEF ServersInv, ServerTypes
  <2>2. outcome' \in [McpServers -> Results]
    BY <1>2, ResultsAre DEF ServersInv, ServerTypes
  <2> QED BY <1>1, <2>1, <2>2 DEF ServersInv, ServerTypes, Servers!Waiting
<1>5. /\ \A r \in McpServers \ {s} : \A m \in Loads : (load'[m].server = r) = (load[m].server = r)
      /\ \A m \in Loads \ {l} : load'[m] = load[m]
  BY <1>1, <1>2, <1>3, ResultsAre, ConsoleAssumption DEF ServersInv, ServerTypes
<1>6. ASSUME NEW r \in McpServers PROVE Settled(r)'
  <2>1. CASE r = s
    <3>1. /\ tools'[s] = Servers!NoTools /\ ~answered'[s] /\ crowded'[s] = Servers!Waiting(s)
      BY <1>1 DEF ServersInv, ServerTypes
    <3>2. OfOneLoad(config'[s], tools'[s], outcome'[s], answered'[s])
      BY <3>1, ResultsAre DEF OfOneLoad
    <3>3. ~Servers!Waiting(s) => \A m \in Loads \ {l} : load'[m].server # s
      BY <1>5 DEF Servers!Waiting
    <3>4. ~crowded'[s] => Alone(s)'
      BY <3>1, <3>3 DEF Alone
    <3> QED BY <2>1, <3>1, <3>2, <3>4, ResultsAre DEF Settled
  <2>2. CASE r # s
    <3>1. /\ tools'[r] = tools[r] /\ outcome'[r] = outcome[r] /\ answered'[r] = answered[r]
          /\ crowded'[r] = crowded[r] /\ config'[r] = config[r]
      BY <1>1, <1>2, <2>2 DEF ServersInv, ServerTypes
    <3>2. Alone(r) => Alone(r)'
      BY <1>5, <2>2 DEF Alone
    <3>3. Servers!Waiting(r)' => Servers!Waiting(r)
      BY <1>5, <2>2 DEF Servers!Waiting
    <3> QED BY <3>1, <3>2, <3>3 DEF ServersInv, Settled
  <2> QED BY <2>1, <2>2
<1> QED BY <1>4, <1>6 DEF ServersInv

\* A load that ends: its place is free, and what the others wait for is as it was.
LEMMA Ended ==
    ASSUME ServersInv, NEW l \in Loads, load[l] # Servers!NoLoad, load' = [load EXCEPT ![l] = Servers!NoLoad]
    PROVE  /\ load[l].server \in McpServers /\ load[l].made \in Asked
           /\ load' \in [Loads -> {Servers!NoLoad} \cup [server : McpServers, made : Asked]]
           /\ Servers!Waiting(load[l].server)
           /\ \A r \in McpServers : /\ Alone(r) => Alone(r)'
                                    /\ Servers!Waiting(r)' => Servers!Waiting(r)
                                    /\ Alone(r) /\ r = load[l].server => ~Servers!Waiting(r)'
<1>1. /\ load \in [Loads -> {Servers!NoLoad} \cup [server : McpServers, made : Asked]]
      /\ Servers!NoLoad.server \notin McpServers
  BY ResultsAre, ConsoleAssumption DEF ServersInv, ServerTypes
<1>2. \A m \in Loads, r \in McpServers : load'[m].server = r => m # l /\ load[m].server = r
  BY <1>1
<1> QED BY <1>1, <1>2 DEF Alone, Servers!Waiting

LEMMA LoadFailsKeeps == ASSUME ServersInv, NEW l \in Loads, Servers!LoadFails(l) PROVE ServersInv'
<1> DEFINE s == load[l].server
<1>1. /\ load[l] # Servers!NoLoad /\ outcome' = [outcome EXCEPT ![s] = Servers!Failed]
      /\ load' = [load EXCEPT ![l] = Servers!NoLoad]
      /\ UNCHANGED <<config, tools, answered, crowded>>
  BY DEF Servers!LoadFails
<1>2. s \in McpServers /\ Servers!Waiting(s)
  BY <1>1, Ended
<1>3. ServerTypes'
  BY <1>1, Ended, ResultsAre DEF ServersInv, ServerTypes
<1>4. ASSUME NEW r \in McpServers PROVE Settled(r)'
  <2>1. outcome'[r] = IF r = s THEN Servers!Failed ELSE outcome[r]
    BY <1>1 DEF ServersInv, ServerTypes
  <2>2. /\ Alone(r) => Alone(r)'
        /\ Servers!Waiting(r)' => Servers!Waiting(r)
    BY <1>1, Ended
  <2>3. Settled(r)
    BY DEF ServersInv
  <2>4. ~crowded[r] => OfOneLoad(config[r], tools[r], outcome'[r], answered[r])
    BY <1>2, <2>1, <2>3, ResultsAre DEF Settled, OfOneLoad
  <2> QED BY <1>1, <2>2, <2>3, <2>4 DEF Settled
<1> QED BY <1>3, <1>4 DEF ServersInv

LEMMA LoadListsKeeps ==
    ASSUME ServersInv, NEW l \in Loads, NEW listing \in SUBSET Tools, Servers!LoadLists(l, listing)
    PROVE  ServersInv'
<1> DEFINE s == load[l].server
           made == load[l].made
           taken == listing \cap DOMAIN tools[s]
           Registered(some) == [t \in DOMAIN tools[s] \cup some |->
                                   IF t \in some THEN made.content ELSE tools[s][t]]
<1>1. load[l] # Servers!NoLoad /\ load' = [load EXCEPT ![l] = Servers!NoLoad] /\ UNCHANGED <<config, crowded>>
  BY DEF Servers!LoadLists
<1>2. s \in McpServers /\ made \in Asked /\ Servers!Waiting(s)
  BY <1>1, Ended
<1>3. \/ /\ taken = {}
         /\ tools' = [tools EXCEPT ![s] = Registered(listing)]
         /\ outcome' = [outcome EXCEPT ![s] = IF listing = {} THEN Servers!Failed ELSE Servers!Loaded(made)]
         /\ answered' = [answered EXCEPT ![s] = listing # {} /\ config[s] = made]
      \/ /\ taken # {}
         /\ \E some \in SUBSET (listing \ taken) : tools' = [tools EXCEPT ![s] = Registered(some)]
         /\ UNCHANGED <<outcome, answered>>
  BY DEF Servers!LoadLists, Servers!Fingerprint
<1>4. PICK some : tools' = [tools EXCEPT ![s] = Registered(some)]
  BY <1>3
<1>5. ServerTypes'
  <2>1. tools' = [r \in McpServers |-> tools'[r]]
    <3> HIDE DEF Registered
    <3> QED BY <1>4 DEF ServersInv, ServerTypes
  <2>2. outcome' \in [McpServers -> Results]
    BY <1>2, <1>3, ResultsAre DEF ServersInv, ServerTypes, Asked
  <2>3. answered' \in [McpServers -> BOOLEAN]
    BY <1>3 DEF ServersInv, ServerTypes
  <2> QED BY <1>1, <2>1, <2>2, <2>3, Ended DEF ServersInv, ServerTypes
<1>6. ASSUME NEW r \in McpServers PROVE Settled(r)'
  <2>1. /\ Alone(r) => Alone(r)'
        /\ Servers!Waiting(r)' => Servers!Waiting(r)
        /\ Alone(r) /\ r = s => ~Servers!Waiting(r)'
    BY <1>1, Ended
  <2>2. CASE r = s /\ ~crowded[s]
    <3>1. Alone(s) /\ DOMAIN tools[s] = {} /\ taken = {}
      BY <1>2, <2>2 DEF ServersInv, Settled
    <3>2. /\ tools'[s] = Registered(listing)
          /\ outcome'[s] = (IF listing = {} THEN Servers!Failed ELSE Servers!Loaded(made))
          /\ answered'[s] = (listing # {} /\ config[s] = made)
      <4> HIDE DEF Registered, s, made
      <4> QED BY <1>2, <1>3, <3>1 DEF ServersInv, ServerTypes
    <3>3. DOMAIN tools'[s] = listing /\ \A t \in listing : tools'[s][t] = made.content
      BY <3>1, <3>2
    <3>4. OfOneLoad(config[s], tools'[s], outcome'[s], answered'[s])
      <4>1. made \in Servers!Configs /\ made.on /\ made # None
        BY <1>2, ConsoleAssumption DEF Asked
      <4> HIDE DEF Registered, made, s
      <4>2. CASE listing = {}
        BY <3>2, <4>2, ResultsAre DEF OfOneLoad
      <4>3. CASE listing # {}
        BY <3>2, <3>3, <4>1, <4>3, ResultsAre DEF OfOneLoad
      <4> QED BY <4>2, <4>3
    <3> QED BY <1>1, <2>1, <2>2, <3>1, <3>4 DEF Settled
  <2>3. CASE r # s
    <3>1. tools'[r] = tools[r] /\ outcome'[r] = outcome[r] /\ answered'[r] = answered[r]
      <4> HIDE DEF Registered, s, made
      <4> QED BY <1>2, <1>3, <2>3 DEF ServersInv, ServerTypes
    <3> QED BY <1>1, <2>1, <3>1 DEF ServersInv, Settled
  <2>4. CASE crowded[s] /\ r = s
    BY <1>1, <2>4 DEF Settled
  <2> QED BY <2>2, <2>3, <2>4
<1> QED BY <1>5, <1>6 DEF ServersInv

LEMMA ServersInvNext == ServersInv /\ [Servers!Next]_(Servers!vars) => ServersInv'
<1> SUFFICES ASSUME ServersInv, [Servers!Next]_(Servers!vars) PROVE ServersInv'
  OBVIOUS
<1>1. CASE Servers!Restart \/ Servers!SaveOther
  BY <1>1, RestartKeeps, SaveOtherKeeps
<1>2. ASSUME NEW s \in McpServers, Servers!Update(s) \/ Servers!Delete(s) PROVE ServersInv'
  BY <1>2, EditKeeps DEF Servers!Update, Servers!Delete
<1>3. ASSUME NEW l \in Loads,
             \/ \E s \in McpServers : Servers!LoadBegins(l, s)
             \/ \E listing \in SUBSET Tools : Servers!LoadLists(l, listing)
             \/ Servers!LoadFails(l)
      PROVE  ServersInv'
  BY <1>3, LoadBeginsKeeps, LoadListsKeeps, LoadFailsKeeps
<1>4. CASE UNCHANGED Servers!vars
  BY <1>4 DEF ServersInv, ServerTypes, Settled, Alone, Servers!Waiting, Servers!vars
<1> QED BY <1>1, <1>2, <1>3, <1>4 DEF Servers!Next

LEMMA ServersInvCurrent == ServersInv => Servers!ToolsAreCurrent
<1> SUFFICES ASSUME ServersInv, NEW s \in McpServers, ~crowded[s]
             PROVE  /\ \A t \in DOMAIN tools[s] : Servers!MayBeUsed(s, t) => tools[s][t] = config[s].content
                    /\ answered[s] => \/ DOMAIN tools[s] # {} /\ \A t \in DOMAIN tools[s] : Servers!MayBeUsed(s, t)
                                      \/ outcome[s].of.plain
  BY DEF Servers!ToolsAreCurrent
<1>1. OfOneLoad(config[s], tools[s], outcome[s], answered[s]) /\ outcome[s] \in Results
  BY DEF ServersInv, ServerTypes, Settled
<1>2. outcome[s].kind = "loaded" => outcome[s] = Servers!Loaded(outcome[s].of)
  BY <1>1, ResultsAre DEF Results
<1>3. \A t \in DOMAIN tools[s] : Servers!MayBeUsed(s, t) => tools[s][t] = config[s].content
  BY <1>1, ResultsAre DEF Servers!MayBeUsed, OfOneLoad
<1>4. answered[s] => \/ DOMAIN tools[s] # {} /\ \A t \in DOMAIN tools[s] : Servers!MayBeUsed(s, t)
                     \/ outcome[s].of.plain
  BY <1>1, <1>2 DEF Servers!MayBeUsed, OfOneLoad
<1> QED BY <1>3, <1>4

\* A tool that may be used calls the server as it is configured now, and a
\* load that was answered with success makes its tools usable, unless loads of
\* the server overlapped or its secrets were in the clear.
THEOREM ToolsAreCurrentHolds == Servers!Spec => []ToolsAreCurrent
<1>1. ServersInv /\ [Servers!Next]_(Servers!vars) => ServersInv'
  BY ServersInvNext
<1>2. ServersInv => ToolsAreCurrent
  BY ServersInvCurrent DEF ToolsAreCurrent
<1> HIDE DEF Servers!Next, Servers!Init, Servers!vars, ServersInv, ToolsAreCurrent
<1> QED BY <1>1, <1>2, ServersInvInit, PTL DEF Servers!Spec

(***************************************************************************)
(* Workers.                                                                *)
(***************************************************************************)

Runners == [id : Workers, key : Nat]
Identities == [key : Nat, tier : Tiers, active : BOOLEAN]
Agents == [id : Workers, tier : Tiers, provider : Providers]
Addresses == [Providers -> {None, "url", "empty"}]
Asking == [id : Workers, tier : Tiers, provider : Providers, persist : BOOLEAN]

FleetTypes ==
    /\ agents \in SUBSET Agents /\ providers \in Addresses
    /\ registry \in [Workers -> Identities \cup {None}] /\ pools \in [Tiers -> SUBSET Runners]
    /\ request \in [Clients -> Asking \cup {Fleet!NoRequest}]

\* The pools are what the registry says of them.
Enrolled(r, t) == Fleet!Active(r.id) /\ registry[r.id].tier = t /\ r.key = registry[r.id].key
PoolsInv == \A t \in Tiers, r \in Runners : r \in pools[t] <=> Enrolled(r, t)

\* The file has the agents of the memory, one of a name, each with a provider
\* in both; when the console runs, each is live.
OneOfAName(some) == \A a, b \in some : a.id = b.id => a = b
KeptInv ==
    /\ file = [agents |-> agents, providers |-> file.providers] /\ file.providers \in Addresses
    /\ OneOfAName(agents)
    /\ \A a \in agents : providers[a.provider] # None /\ file.providers[a.provider] # None
    /\ up => \A a \in agents : Fleet!Active(a.id)

FleetInv == FleetTypes /\ PoolsInv /\ KeptInv

LEMMA FleetNone == None \notin Identities /\ None \notin {"url", "empty"}
BY ConsoleAssumption DEF Identities

LEMMA IdentityIs ==
    ASSUME NEW k \in Nat, NEW t \in Tiers
    PROVE  /\ Fleet!Identity(k, t) \in Identities /\ Fleet!Identity(k, t) # None
           /\ Fleet!Identity(k, t).key = k /\ Fleet!Identity(k, t).tier = t /\ Fleet!Identity(k, t).active
<1>1. Fleet!Identity(k, t) = [key |-> k, tier |-> t, active |-> TRUE]
  BY DEF Fleet!Identity
<1>2. [key |-> k, tier |-> t, active |-> TRUE] \in Identities
  BY DEF Identities
<1>3. Fleet!Identity(k, t).active = TRUE /\ Fleet!Identity(k, t).key = k /\ Fleet!Identity(k, t).tier = t
  BY <1>1
<1> QED BY <1>1, <1>2, <1>3, FleetNone

LEMMA FleetInvSound == FleetInv => Fleet!PoolsAreTheRegistry /\ Fleet!KeptComesBack
<1> SUFFICES ASSUME FleetInv PROVE Fleet!PoolsAreTheRegistry /\ Fleet!KeptComesBack
  OBVIOUS
<1>1. ASSUME NEW id \in Workers, NEW t \in Tiers
      PROVE  Fleet!Active(id) /\ registry[id].tier = t <=> (\E r \in pools[t] : r.id = id)
  <2>1. CASE Fleet!Active(id) /\ registry[id].tier = t
    <3> DEFINE mine == [id |-> id, key |-> registry[id].key]
    <3>1. mine \in Runners
      BY <2>1 DEF FleetInv, FleetTypes, Identities, Runners, Fleet!Active
    <3>2. mine \in pools[t]
      BY <2>1, <3>1 DEF FleetInv, PoolsInv, Enrolled
    <3> QED BY <2>1, <3>2
  <2>2. ASSUME NEW r \in pools[t], r.id = id PROVE Fleet!Active(id) /\ registry[id].tier = t
    BY <2>2 DEF FleetInv, FleetTypes, PoolsInv, Enrolled
  <2> QED BY <2>1, <2>2
<1>2. ASSUME NEW t \in Tiers, NEW r \in pools[t]
      PROVE  r.key = registry[r.id].key /\ \A other \in pools[t] : other.id = r.id => other = r
  <2>1. \A s \in pools[t] : s \in Runners /\ s.key = registry[s.id].key
    BY DEF FleetInv, FleetTypes, PoolsInv, Enrolled
  <2> QED BY <2>1 DEF Runners
<1> QED BY <1>1, <1>2 DEF FleetInv, KeptInv, Fleet!PoolsAreTheRegistry, Fleet!KeptComesBack

\* What starts from a file that lets it start.
LEMMA BootEnrols ==
    ASSUME NEW f, f.agents \in SUBSET Agents, OneOfAName(f.agents), Fleet!Boots(f)
    PROVE  LET booted == Fleet!BootedPools(f)
               known == Fleet!BootedRegistry(f)
           IN  /\ booted \in [Tiers -> SUBSET Runners] /\ known \in [Workers -> Identities \cup {None}]
               /\ \A t \in Tiers, r \in Runners :
                     r \in booted[t] <=> /\ known[r.id] # None /\ known[r.id].active
                                         /\ known[r.id].tier = t /\ r.key = known[r.id].key
               /\ \A a \in f.agents : known[a.id] # None /\ known[a.id].active
<1> DEFINE booted == Fleet!BootedPools(f)
           known == Fleet!BootedRegistry(f)
           In(id, t) == Fleet!Runner(id, 0) \in booted[t]
           TierOf(id) == CHOOSE t \in Tiers : In(id, t)
<1>1. ASSUME NEW t \in Tiers, NEW r
      PROVE  r \in booted[t] <=> \/ Fleet!Configured(f, t) = {} /\ r = Fleet!Runner(StandIn[t], 0)
                                 \/ \E a \in Fleet!Configured(f, t) : r = Fleet!Runner(a.id, 0)
  BY DEF Fleet!BootedPools, Fleet!Fills
<1>2. \A t \in Tiers : Fleet!Configured(f, t) = {a \in f.agents : a.tier = t}
  BY DEF Fleet!Configured
<1>3. StandIn \in [Tiers -> Workers] /\ \A s, t \in Tiers : StandIn[s] = StandIn[t] => s = t
  BY ConsoleAssumption
<1>4. \A t \in Tiers : Fleet!Configured(f, t) = {} => \A a \in f.agents : a.id # StandIn[t]
  BY DEF Fleet!Boots, Fleet!Fills, Fleet!AgentIds
<1>5. booted = [t \in Tiers |-> booted[t]]
  BY DEF Fleet!BootedPools
<1>6. \A t \in Tiers : booted[t] \subseteq {r \in Runners : r.key = 0}
  BY <1>1, <1>2, <1>3 DEF Fleet!Runner, Runners, Agents
<1>7. ASSUME NEW id, NEW s \in Tiers, NEW t \in Tiers, In(id, s), In(id, t) PROVE s = t
  <2> HIDE DEF booted
  <2>1. \A u \in Tiers : In(id, u) =>
            \/ Fleet!Configured(f, u) = {} /\ id = StandIn[u]
            \/ \E a \in f.agents : a.tier = u /\ id = a.id
    BY <1>1, <1>2 DEF Fleet!Runner
  <2> QED BY <2>1, <1>3, <1>4, <1>7 DEF OneOfAName
<1>8. known = [id \in Workers |-> IF \E t \in Tiers : In(id, t) THEN Fleet!Identity(0, TierOf(id)) ELSE None]
  BY DEF Fleet!BootedRegistry
<1>9. ASSUME NEW id \in Workers, NEW t \in Tiers, In(id, t) PROVE known[id] = Fleet!Identity(0, t)
  <2> HIDE DEF In
  <2>1. TierOf(id) \in Tiers /\ In(id, TierOf(id))
    BY <1>9
  <2>2. TierOf(id) = t
    BY <1>7, <1>9, <2>1
  <2> HIDE DEF TierOf, known
  <2> QED BY <1>8, <1>9, <2>2
<1>10. ASSUME NEW id \in Workers, \A t \in Tiers : ~In(id, t) PROVE known[id] = None
  <2> HIDE DEF In, TierOf, known
  <2> QED BY <1>8, <1>10
<1>11. known = [id \in Workers |-> known[id]] /\ \A id \in Workers : known[id] \in Identities \cup {None}
  <2>1. \A id \in Workers : known[id] \in Identities \cup {None}
    <3> HIDE DEF In, known
    <3> QED BY <1>9, <1>10, IdentityIs
  <2> QED BY <2>1 DEF Fleet!BootedRegistry
<1>12. ASSUME NEW t \in Tiers, NEW r \in Runners
       PROVE  r \in booted[t] <=> /\ known[r.id] # None /\ known[r.id].active
                                  /\ known[r.id].tier = t /\ r.key = known[r.id].key
  <2>1. r.id \in Workers /\ r = [id |-> r.id, key |-> r.key]
    BY DEF Runners
  <2>2. r \in booted[t] <=> In(r.id, t) /\ r.key = 0
    BY <1>6, <2>1 DEF Fleet!Runner
  <2> HIDE DEF In, known, booted
  <2>3. CASE \E s \in Tiers : In(r.id, s)
    <3>1. PICK s \in Tiers : In(r.id, s)
      BY <2>3
    <3>2. known[r.id] = Fleet!Identity(0, s) /\ (In(r.id, t) => s = t)
      BY <1>7, <1>9, <2>1, <3>1
    <3> QED BY <2>2, <3>1, <3>2, IdentityIs
  <2>4. CASE ~\E s \in Tiers : In(r.id, s)
    BY <1>10, <2>1, <2>2, <2>4
  <2> QED BY <2>3, <2>4
<1>13. ASSUME NEW a \in f.agents PROVE known[a.id] # None /\ known[a.id].active
  <2>1. a.tier \in Tiers /\ a.id \in Workers /\ a \in Fleet!Configured(f, a.tier)
    BY <1>2 DEF Agents
  <2>2. In(a.id, a.tier)
    BY <1>1, <2>1
  <2> HIDE DEF In, known
  <2> QED BY <1>9, <2>1, <2>2, IdentityIs
<1>14. booted \in [Tiers -> SUBSET Runners]
  <2> HIDE DEF booted
  <2> QED BY <1>5, <1>6
<1> HIDE DEF booted, known
<1>15. known \in [Workers -> Identities \cup {None}]
  BY <1>11
<1> QED BY <1>12, <1>13, <1>14, <1>15 DEF booted, known

LEMMA FleetInvInit == Fleet!Init => FleetInv
<1> SUFFICES ASSUME Fleet!Init PROVE FleetInv
  OBVIOUS
<1>1. agents = {} /\ providers \in Addresses /\ file = [agents |-> {}, providers |-> providers]
  BY DEF Fleet!Init, Addresses
<1>2. file.agents = {} /\ file.agents \in SUBSET Agents /\ OneOfAName(file.agents) /\ Fleet!Boots(file)
  BY <1>1 DEF OneOfAName, Fleet!Boots, Fleet!AgentIds
<1>3. pools = Fleet!BootedPools(file) /\ registry = Fleet!BootedRegistry(file)
      /\ request \in [Clients -> Asking \cup {Fleet!NoRequest}]
  BY DEF Fleet!Init
<1>4. /\ pools \in [Tiers -> SUBSET Runners] /\ registry \in [Workers -> Identities \cup {None}]
      /\ PoolsInv
  BY <1>2, <1>3, BootEnrols DEF PoolsInv, Enrolled, Fleet!Active
<1> QED BY <1>1, <1>2, <1>3, <1>4 DEF FleetInv, FleetTypes, KeptInv

LEMMA FleetRestartKeeps == ASSUME FleetInv, Fleet!Restart PROVE FleetInv'
<1>1. /\ agents' = agents /\ providers' = file.providers /\ file' = file
      /\ up' = Fleet!Boots(file) /\ request' \in [Clients -> Asking \cup {Fleet!NoRequest}]
  BY DEF FleetInv, KeptInv, Fleet!Restart
<1>2. file.agents = agents /\ agents \in SUBSET Agents /\ OneOfAName(agents)
  BY DEF FleetInv, FleetTypes, KeptInv
<1>3. CASE Fleet!Boots(file)
  <2>1. pools' = Fleet!BootedPools(file) /\ registry' = Fleet!BootedRegistry(file)
    BY <1>1, <1>3 DEF Fleet!Restart
  <2>2. /\ pools' \in [Tiers -> SUBSET Runners] /\ registry' \in [Workers -> Identities \cup {None}]
        /\ PoolsInv' /\ \A a \in agents : Fleet!Active(a.id)'
    BY <1>2, <1>3, <2>1, BootEnrols DEF PoolsInv, Enrolled, Fleet!Active
  <2> QED BY <1>1, <1>2, <2>2 DEF FleetInv, FleetTypes, KeptInv
<1>4. CASE ~Fleet!Boots(file)
  <2>1. pools' = [t \in Tiers |-> {}] /\ registry' = [id \in Workers |-> None]
    BY <1>1, <1>4 DEF Fleet!Restart
  <2>2. PoolsInv'
    BY <2>1 DEF PoolsInv, Enrolled, Fleet!Active, Runners
  <2> QED BY <1>1, <1>2, <1>4, <2>1, <2>2 DEF FleetInv, FleetTypes, KeptInv
<1> QED BY <1>3, <1>4

\* A provider's address may change, and a provider may come.
LEMMA PatchedIs ==
    ASSUME providers \in Addresses, NEW p \in Providers,
           NEW new \in Fleet!Patched(p) \cup {[providers EXCEPT ![p] = "empty"]}
    PROVE  new \in Addresses /\ \A q \in Providers : providers[q] # None => new[q] # None
BY FleetNone DEF Fleet!Patched, Addresses

LEMMA AddBeginsKeeps ==
    ASSUME FleetInv, NEW c \in Clients, NEW id \in Workers, NEW t \in Tiers, NEW p \in Providers,
           NEW keyed \in BOOLEAN, NEW persist \in BOOLEAN, Fleet!AddBegins(c, id, t, p, keyed, persist)
    PROVE  FleetInv'
<1>1. providers' \in Addresses /\ \A q \in Providers : providers[q] # None => providers'[q] # None
  BY PatchedIs DEF FleetInv, FleetTypes, Fleet!AddBegins
<1>2. request' \in [Clients -> Asking \cup {Fleet!NoRequest}]
  BY DEF FleetInv, FleetTypes, Fleet!AddBegins, Asking
<1>3. UNCHANGED <<agents, file, registry, pools, up>>
  BY DEF Fleet!AddBegins
<1> QED BY <1>1, <1>2, <1>3 DEF FleetInv, FleetTypes, PoolsInv, KeptInv, Enrolled, Fleet!Active, Agents

LEMMA AddRefusedKeeps ==
    ASSUME FleetInv, NEW c \in Clients, Fleet!AddRefused(c) PROVE FleetInv'
<1>1. request' \in [Clients -> Asking \cup {Fleet!NoRequest}]
  BY DEF FleetInv, FleetTypes, Fleet!AddRefused
<1> QED BY <1>1 DEF FleetInv, FleetTypes, PoolsInv, KeptInv, Enrolled, Fleet!Active, Fleet!AddRefused

LEMMA AddEndsKeeps ==
    ASSUME FleetInv, NEW c \in Clients, Fleet!AddEnds(c) PROVE FleetInv'
<1> DEFINE q == request[c]
           new == Fleet!Identity(Fleet!NextKey(q.id), q.tier)
           mine == Fleet!Runner(q.id, Fleet!NextKey(q.id))
           agent == [id |-> q.id, tier |-> q.tier, provider |-> q.provider]
<1>1. q \in Asking /\ agent \in Agents /\ providers[q.provider] = "url"
  BY DEF FleetInv, FleetTypes, Fleet!AddEnds, Fleet!Buildable, Asking, Agents
<1>2. q.id \in Workers /\ q.tier \in Tiers /\ q.provider \in Providers
  BY <1>1 DEF Asking
<1>3. Fleet!NextKey(q.id) \in Nat
  BY <1>2 DEF FleetInv, FleetTypes, Fleet!NextKey, Identities
<1>4. /\ new \in Identities /\ new # None /\ new.active /\ new.tier = q.tier /\ new.key = Fleet!NextKey(q.id)
      /\ mine \in Runners /\ mine.id = q.id /\ mine.key = Fleet!NextKey(q.id)
  BY <1>2, <1>3, IdentityIs DEF Fleet!Runner, Runners
<1>5. /\ registry' = [registry EXCEPT ![q.id] = new]
      /\ pools' = [Fleet!Without(q.id) EXCEPT ![q.tier] = @ \cup {mine}]
      /\ agents' = (IF q.persist THEN {b \in agents : b.id # q.id} \cup {agent} ELSE agents)
      /\ providers' = providers /\ up' = up
      /\ IF q.persist THEN file' = [agents |-> agents', providers |-> providers'] ELSE UNCHANGED file
      /\ request' = [request EXCEPT ![c] = Fleet!NoRequest]
  BY <1>4 DEF Fleet!AddEnds, Fleet!Admitted, Fleet!Place, Fleet!Cleared, Fleet!Upserted, Fleet!Saved
<1> HIDE DEF q, new, mine
<1>6. /\ registry' \in [Workers -> Identities \cup {None}] /\ registry'[q.id] = new
      /\ \A id \in Workers : id # q.id => registry'[id] = registry[id]
  BY <1>2, <1>4, <1>5 DEF FleetInv, FleetTypes
<1>7. \A t \in Tiers : pools'[t] = {r \in pools[t] : r.id # q.id} \cup (IF t = q.tier THEN {mine} ELSE {})
  BY <1>2, <1>5 DEF Fleet!Without
<1>8. pools' \in [Tiers -> SUBSET Runners]
  <2>1. pools' = [t \in Tiers |-> pools'[t]]
    BY <1>5 DEF Fleet!Without
  <2> QED BY <1>4, <1>7, <2>1 DEF FleetInv, FleetTypes
<1>9. PoolsInv'
  <2> SUFFICES ASSUME NEW t \in Tiers, NEW r \in Runners PROVE r \in pools'[t] <=> Enrolled(r, t)'
    BY DEF PoolsInv
  <2>1. r.id \in Workers /\ r = [id |-> r.id, key |-> r.key] /\ mine = [id |-> mine.id, key |-> mine.key]
    BY <1>4 DEF Runners
  <2>2. CASE r.id = q.id
    <3>1. r \in pools'[t] <=> t = q.tier /\ r = mine
      BY <1>7, <2>2
    <3>2. Enrolled(r, t)' <=> q.tier = t /\ r.key = mine.key
      BY <1>4, <1>6, <2>2 DEF Enrolled, Fleet!Active
    <3> QED BY <1>4, <2>1, <2>2, <3>1, <3>2
  <2>3. CASE r.id # q.id
    <3>1. r \in pools'[t] <=> r \in pools[t]
      BY <1>4, <1>7, <2>3
    <3>2. Enrolled(r, t)' <=> Enrolled(r, t)
      BY <1>6, <2>1, <2>3 DEF Enrolled, Fleet!Active
    <3> QED BY <3>1, <3>2 DEF FleetInv, PoolsInv
  <2> QED BY <2>2, <2>3
<1>10. \A id \in Workers : Fleet!Active(id) \/ id = q.id => Fleet!Active(id)'
  BY <1>4, <1>6 DEF Fleet!Active
<1>11. agents' \in SUBSET Agents /\ OneOfAName(agents')
  BY <1>1, <1>5 DEF FleetInv, FleetTypes, KeptInv, OneOfAName
<1>12. KeptInv'
  <2>1. file' = [agents |-> agents', providers |-> file'.providers] /\ file'.providers \in Addresses
    BY <1>5 DEF FleetInv, FleetTypes, KeptInv
  <2>2. \A a \in agents' : a \in agents \/ (a = agent /\ q.persist)
    BY <1>5
  <2>3. \A a \in agents' : providers'[a.provider] # None /\ file'.providers[a.provider] # None
    BY <1>1, <1>5, <2>2, FleetNone DEF FleetInv, FleetTypes, KeptInv
  <2>4. up' => \A a \in agents' : Fleet!Active(a.id)'
    BY <1>2, <1>5, <1>10, <2>2 DEF FleetInv, FleetTypes, KeptInv, Agents
  <2> QED BY <1>11, <2>1, <2>3, <2>4 DEF KeptInv
<1>13. request' \in [Clients -> Asking \cup {Fleet!NoRequest}] /\ providers' \in Addresses
  BY <1>5 DEF FleetInv, FleetTypes
<1> QED BY <1>6, <1>8, <1>9, <1>11, <1>12, <1>13 DEF FleetInv, FleetTypes

LEMMA RemoveWorkerKeeps ==
    ASSUME FleetInv, NEW id \in Workers, Fleet!RemoveWorker(id) PROVE FleetInv'
<1>1. /\ registry[id] \in Identities /\ registry[id] # None
      /\ registry' = [registry EXCEPT ![id].active = FALSE] /\ pools' = Fleet!Without(id)
      /\ agents' = {a \in agents : a.id # id} /\ UNCHANGED <<providers, request, up>>
      /\ IF agents' # agents THEN file' = [agents |-> agents', providers |-> providers'] ELSE UNCHANGED file
  BY DEF FleetInv, FleetTypes, Fleet!RemoveWorker, Fleet!Saved
<1>2. /\ registry' \in [Workers -> Identities \cup {None}] /\ ~registry'[id].active
      /\ \A other \in Workers : other # id => registry'[other] = registry[other]
  BY <1>1 DEF FleetInv, FleetTypes, Identities
<1>3. pools' \in [Tiers -> SUBSET Runners] /\ \A t \in Tiers : pools'[t] = {r \in pools[t] : r.id # id}
  BY <1>1 DEF FleetInv, FleetTypes, Fleet!Without
<1>4. PoolsInv'
  <2> SUFFICES ASSUME NEW t \in Tiers, NEW r \in Runners PROVE r \in pools'[t] <=> Enrolled(r, t)'
    BY DEF PoolsInv
  <2>1. r.id \in Workers
    BY DEF Runners
  <2> QED BY <1>2, <1>3, <2>1 DEF FleetInv, PoolsInv, Enrolled, Fleet!Active
<1>5. agents' \in SUBSET Agents /\ OneOfAName(agents')
  BY <1>1 DEF FleetInv, FleetTypes, KeptInv, OneOfAName
<1>6. KeptInv'
  <2>1. file' = [agents |-> agents', providers |-> file'.providers] /\ file'.providers \in Addresses
    BY <1>1 DEF FleetInv, FleetTypes, KeptInv
  <2>2. \A a \in agents' : providers'[a.provider] # None /\ file'.providers[a.provider] # None
    BY <1>1 DEF FleetInv, FleetTypes, KeptInv
  <2>3. up' => \A a \in agents' : Fleet!Active(a.id)'
    BY <1>1, <1>2 DEF FleetInv, FleetTypes, KeptInv, Agents, Fleet!Active
  <2> QED BY <1>5, <2>1, <2>2, <2>3 DEF KeptInv
<1> QED BY <1>1, <1>2, <1>3, <1>4, <1>5, <1>6 DEF FleetInv, FleetTypes

LEMMA ProviderKeeps ==
    ASSUME FleetInv, NEW p \in Providers, Fleet!UpdateProvider(p) \/ Fleet!DeleteProvider(p)
    PROVE  FleetInv'
<1>1. UNCHANGED <<agents, registry, pools, request, up>> /\ file' = [agents |-> agents', providers |-> providers']
  BY DEF Fleet!UpdateProvider, Fleet!DeleteProvider, Fleet!Saved
<1>2. providers' \in Addresses /\ \A a \in agents : providers'[a.provider] # None
  <2>1. CASE Fleet!UpdateProvider(p)
    BY <2>1, PatchedIs DEF FleetInv, FleetTypes, KeptInv, Agents, Fleet!UpdateProvider
  <2>2. CASE Fleet!DeleteProvider(p)
    BY <2>2 DEF FleetInv, FleetTypes, KeptInv, Agents, Addresses, Fleet!DeleteProvider
  <2> QED BY <2>1, <2>2
<1> QED BY <1>1, <1>2 DEF FleetInv, FleetTypes, PoolsInv, KeptInv, Enrolled, Fleet!Active

LEMMA FleetInvNext == FleetInv /\ [Fleet!Next]_(Fleet!vars) => FleetInv'
<1> SUFFICES ASSUME FleetInv, [Fleet!Next]_(Fleet!vars) PROVE FleetInv'
  OBVIOUS
<1>1. CASE Fleet!Restart
  BY <1>1, FleetRestartKeeps
<1>2. ASSUME NEW c \in Clients, Fleet!AddRefused(c) \/ Fleet!AddEnds(c) PROVE FleetInv'
  BY <1>2, AddRefusedKeeps, AddEndsKeeps
<1>3. ASSUME NEW c \in Clients, NEW id \in Workers, NEW t \in Tiers, NEW p \in Providers,
             NEW keyed \in BOOLEAN, NEW persist \in BOOLEAN, Fleet!AddBegins(c, id, t, p, keyed, persist)
      PROVE  FleetInv'
  BY <1>3, AddBeginsKeeps
<1>4. ASSUME NEW id \in Workers, Fleet!RemoveWorker(id) PROVE FleetInv'
  BY <1>4, RemoveWorkerKeeps
<1>5. ASSUME NEW p \in Providers, Fleet!DeleteProvider(p) \/ Fleet!UpdateProvider(p) PROVE FleetInv'
  BY <1>5, ProviderKeeps
<1>6. CASE UNCHANGED Fleet!vars
  BY <1>6 DEF FleetInv, FleetTypes, PoolsInv, KeptInv, Enrolled, Fleet!Active, Fleet!vars
<1> QED BY <1>1, <1>2, <1>3, <1>4, <1>5, <1>6 DEF Fleet!Next

\* However admissions, removals and moves overlap and wherever a restart falls,
\* the router's pools are the active identities, each once and with the key that
\* is checked; and every worker that was kept is live, and in the file with its
\* provider.
THEOREM FleetIsSoundHolds == Fleet!Spec => []FleetIsSound
<1>1. FleetInv => FleetIsSound
  BY FleetInvSound DEF FleetIsSound
<1> HIDE DEF Fleet!Next, Fleet!Init, Fleet!vars, FleetInv, FleetIsSound
<1> QED BY <1>1, FleetInvInit, FleetInvNext, PTL DEF Fleet!Spec

-----------------------------------------------------------------------------
\* The console as the run has it: its store, its workers and its servers, one
\* step at a time.
THEOREM ConsoleKeeps == ConsoleSpec => [](PublicationsComplete /\ FleetIsSound /\ ToolsAreCurrent)
<1>1. ConsoleInit => Store!Init /\ Fleet!Init /\ Servers!Init
  BY DEF ConsoleInit
<1>2. [ConsoleNext]_all => [Store!Next]_(Store!vars) /\ [Fleet!Next]_(Fleet!vars) /\ [Servers!Next]_(Servers!vars)
  BY DEF ConsoleNext, all, store, fleet, servers, Store!vars, Store!files, Fleet!vars, Servers!vars
<1> HIDE DEF ConsoleInit, ConsoleNext, all, Store!Init, Store!Next, Store!vars, Fleet!Init, Fleet!Next, Fleet!vars,
             Servers!Init, Servers!Next, Servers!vars, PublicationsComplete, FleetIsSound, ToolsAreCurrent
<1>3. ConsoleSpec => Store!Spec /\ Fleet!Spec /\ Servers!Spec
  BY <1>1, <1>2, PTL DEF ConsoleSpec, Store!Spec, Fleet!Spec, Servers!Spec
<1> QED BY <1>3, PublicationsCompleteHolds, FleetIsSoundHolds, ToolsAreCurrentHolds, PTL
=============================================================================
