-------------------------- MODULE DiscoveryProofs --------------------------
(***************************************************************************)
(* Proofs about the parts of a discovery campaign beside its supervisor,   *)
(* for any assignments, workers and ids, any finite set of lineages, any   *)
(* policies and populations the schema admits, any budgets and any number  *)
(* of crashes.  One inductive invariant per part:                          *)
(*                                                                         *)
(* IssuedInv, ApartInv: what a hub shows beyond its writer is accepted in  *)
(* the journal, and read under an assignment of its lineage.               *)
(*                                                                         *)
(* PulseInv: every firing that is counted was appended before.             *)
(*                                                                         *)
(* SteerInv: the rows of the evolver tell a way from the root policy to    *)
(* the active one, each step of which the policies known allow; no policy  *)
(* has spent more than its cap.                                            *)
(*                                                                         *)
(* WorkInv: the receipts, durable or just returned, tell a way from no     *)
(* lineage to those the manager knows, each step of which the lineages     *)
(* before it and the commits of git allow; what an operation has found of  *)
(* the lineages still holds when it goes on.                               *)
(***************************************************************************)
EXTENDS Discovery, FiniteSetTheorems, SequenceTheorems, TLAPS

(***************************************************************************)
(* The parts, and the knowledge hub.                                       *)
(***************************************************************************)

\* A behaviour is one of its parts: every part starts as it does alone,
LEMMA PartsStart == DiscoveryInit => Hub!Init /\ Workspaces!Init /\ Steering!Init /\ Pulse!Init
BY DEF DiscoveryInit

\* and moves as it does alone, or not.
LEMMA PartsMove ==
    [DiscoveryNext]_discovery =>
        /\ [Hub!Next]_(Hub!vars) /\ [Workspaces!Next]_(Workspaces!vars)
        /\ [Steering!Next]_(Steering!vars) /\ [Pulse!Next]_(Pulse!vars)
BY DEF DiscoveryNext, discovery, knowledge, workspaces, steering, pulse, Hub!vars, Hub!supervisor,
       Workspaces!vars, Workspaces!repo, Steering!vars, Steering!evolver, Pulse!vars

\* What a row of the journal of submissions holds.
Rows == [event : {"submit_intent", "accepted"}, assignment : Minted]

\* The variables hold what they should.
RowsAreRows == journal \in Seq(Rows) /\ issued \subseteq Minted

\* An assignment is issued to this process only if its acceptance is durable.
IssuedIsDurable == \A a \in issued : \E i \in DOMAIN journal : journal[i] = Hub!Outcome(a)

\* A hub does not outlive the process whose verifier admitted its artifacts.
ShownIsIssued == \A artifact \in hub : artifact.scope # "private" => artifact.by \in issued

\* The inductive invariant of what is issued.
IssuedInv == RowsAreRows /\ IssuedIsDurable /\ ShownIsIssued

\* A journal that grows keeps the outcomes it has.
LEMMA OutcomesStay ==
    ASSUME journal \in Seq(Rows), NEW more \in Seq(Rows), NEW a,
           \E i \in DOMAIN journal : journal[i] = Hub!Outcome(a)
    PROVE  \E i \in DOMAIN (journal \o more) : (journal \o more)[i] = Hub!Outcome(a)
OBVIOUS

\* The rows of a submission, whole or cut short by a failing write.
LEMMA SubmissionRows ==
    ASSUME NEW a \in Minted
    PROVE  /\ <<Hub!Intent(a)>> \in Seq(Rows)
           /\ <<Hub!Intent(a), Hub!Outcome(a)>> \in Seq(Rows)
           /\ journal \in Seq(Rows) => Append(journal, Hub!Intent(a)) = journal \o <<Hub!Intent(a)>>
BY DEF Hub!Intent, Hub!Outcome, Rows

\* No artifact is beyond its writer before its acceptance is durable.
LEMMA IssuedInvHolds == DiscoverySpec => []IssuedInv
<1>1. Hub!Init => IssuedInv
  BY DEF Hub!Init, IssuedInv, RowsAreRows, IssuedIsDurable, ShownIsIssued
<1>2. IssuedInv /\ [Hub!Next]_(Hub!vars) => IssuedInv'
  <2> SUFFICES ASSUME IssuedInv, [Hub!Next]_(Hub!vars) PROVE IssuedInv'
    OBVIOUS
  <2> USE DEF IssuedInv
  <2>1. ASSUME NEW a \in Minted, Hub!Submit(a) PROVE IssuedInv'
    <3> DEFINE more == <<Hub!Intent(a), Hub!Outcome(a)>>
    <3>1. more \in Seq(Rows) /\ journal' = journal \o more /\ issued' = issued \cup {a} /\ hub' = hub
      BY <2>1, SubmissionRows DEF Hub!Submit
    <3>2. RowsAreRows'
      BY <3>1 DEF RowsAreRows
    <3>3. \E i \in DOMAIN journal' : journal'[i] = Hub!Outcome(a)
      <4>1. Len(journal) + 2 \in DOMAIN (journal \o more) /\ (journal \o more)[Len(journal) + 2] = Hub!Outcome(a)
        BY <3>1 DEF RowsAreRows
      <4> QED BY <4>1, <3>1
    <3>4. IssuedIsDurable'
      <4> SUFFICES ASSUME NEW x \in issued' PROVE \E i \in DOMAIN journal' : journal'[i] = Hub!Outcome(x)
        BY DEF IssuedIsDurable, Hub!Outcome
      <4>1. CASE x = a
        BY <3>3, <4>1
      <4>2. CASE x \in issued
        <5>1. \E i \in DOMAIN journal : journal[i] = Hub!Outcome(x)
          BY <4>2 DEF IssuedIsDurable
        <5> HIDE DEF more
        <5> QED BY <5>1, <3>1, OutcomesStay DEF RowsAreRows
      <4> QED BY <4>1, <4>2, <3>1
    <3> QED BY <3>1, <3>2, <3>4 DEF ShownIsIssued
  <2>2. ASSUME NEW a \in Minted, Hub!SubmitFails(a) PROVE IssuedInv'
    <3>1. issued' = issued /\ hub' = hub
      BY <2>2 DEF Hub!SubmitFails
    <3>2. PICK more \in Seq(Rows) : journal' = journal \o more
      <4>1. journal \o << >> = journal /\ << >> \in Seq(Rows)
        BY DEF RowsAreRows
      <4> QED BY <2>2, <4>1, SubmissionRows DEF Hub!SubmitFails, RowsAreRows
    <3>3. IssuedIsDurable'
      <4> SUFFICES ASSUME NEW x \in issued PROVE \E i \in DOMAIN journal' : journal'[i] = Hub!Outcome(x)
        BY <3>1 DEF IssuedIsDurable, Hub!Outcome
      <4>1. \E i \in DOMAIN journal : journal[i] = Hub!Outcome(x)
        BY DEF IssuedIsDurable
      <4> QED BY <4>1, <3>2, OutcomesStay DEF RowsAreRows
    <3> QED BY <3>1, <3>2, <3>3 DEF ShownIsIssued, RowsAreRows
  <2>3. ASSUME Hub!Recover PROVE IssuedInv'
    <3>1. journal' = journal /\ hub' = {} /\ issued' = Hub!RowsOf("accepted")
      BY <2>3 DEF Hub!Recover, Hub!ReplayIssued
    <3>2. \A x \in issued' : \E i \in DOMAIN journal : journal[i] = Hub!Outcome(x) /\ x \in Minted
      <4> SUFFICES ASSUME NEW i \in DOMAIN journal, journal[i].event = "accepted"
                   PROVE  journal[i] = Hub!Outcome(journal[i].assignment) /\ journal[i].assignment \in Minted
        BY <3>1 DEF Hub!RowsOf
      <4>1. journal[i] \in Rows
        BY DEF RowsAreRows
      <4> QED BY <4>1 DEF Rows, Hub!Outcome
    <3> QED BY <3>1, <3>2 DEF RowsAreRows, IssuedIsDurable, ShownIsIssued, Hub!Outcome
  <2>4. ASSUME NEW creator, NEW lineage, NEW by, NEW id, NEW scope, NEW supersedes,
               Hub!AppendArtifact(id, scope, creator, lineage, by, supersedes)
        PROVE  IssuedInv'
    <3>1. UNCHANGED <<journal, issued>>
      BY <2>4 DEF Hub!AppendArtifact, Hub!supervisor
    <3>2. ShownIsIssued'
      BY <2>4, <3>1 DEF Hub!AppendArtifact, Hub!MayAppend, Hub!Artifact, Hub!Verified, ShownIsIssued
    <3> QED BY <3>1, <3>2 DEF RowsAreRows, IssuedIsDurable, Hub!Outcome
  <2>5. ASSUME NEW artifacts, NEW creator, NEW lineage, NEW by, Hub!Use(artifacts, creator, lineage, by)
        PROVE  IssuedInv'
    BY <2>5 DEF Hub!Use, Hub!supervisor, RowsAreRows, IssuedIsDurable, ShownIsIssued, Hub!Outcome
  <2>6. CASE UNCHANGED Hub!vars
    BY <2>6 DEF Hub!vars, Hub!supervisor, RowsAreRows, IssuedIsDurable, ShownIsIssued, Hub!Outcome
  <2> QED BY <2>1, <2>2, <2>3, <2>4, <2>5, <2>6 DEF Hub!Next
<1> QED BY <1>1, <1>2, PartsStart, PartsMove, PTL DEF DiscoverySpec

\* No crash, torn submission or minted assignment puts into the hub anything
\* beyond private notes whose assignment is not durably accepted.
THEOREM WritesAreIssuedHolds == DiscoverySpec => []WritesAreIssued
<1>1. IssuedInv => WritesAreIssued
  BY DEF WritesAreIssued, IssuedInv, IssuedIsDurable, ShownIsIssued, Hub!WritesAreIssued
<1> QED BY <1>1, IssuedInvHolds, PTL

\* Ids name one artifact each, and only such ids are superseded.
IdsAreUnique ==
    /\ \A x, y \in hub : x.id = y.id => x = y
    /\ \A x \in hub : \A id \in x.supersedes : \E y \in hub : y.id = id

\* The inductive invariant of the lineages of artifacts.
ApartInv == IdsAreUnique /\ Hub!LineagesAreKeptApart

\* What of a lineage is visible is visible under an assignment to it.
LEMMA VisibleIsProven ==
    ASSUME NEW artifact, artifact.scope = "lineage", NEW creator, NEW lineage, NEW by,
           Hub!Visible(artifact, creator, lineage, by)
    PROVE  by.lineage = artifact.lineage
BY DEF Hub!Visible, Hub!LineageProven

\* Whatever lineage a caller says it has, and however reads and writes of
\* different workers follow one another, an artifact of a lineage is read and
\* superseded only under an assignment to that lineage.
THEOREM LineagesAreKeptApartHolds == DiscoverySpec => []LineagesAreKeptApart
<1>1. Hub!Init => ApartInv
  BY DEF Hub!Init, ApartInv, IdsAreUnique, Hub!LineagesAreKeptApart
<1>2. ApartInv /\ [Hub!Next]_(Hub!vars) => ApartInv'
  <2> SUFFICES ASSUME ApartInv, [Hub!Next]_(Hub!vars) PROVE ApartInv'
    OBVIOUS
  <2> USE DEF ApartInv
  <2>1. ASSUME seen' = {}, hub' = hub PROVE ApartInv'
    BY <2>1 DEF IdsAreUnique, Hub!LineagesAreKeptApart
  <2>2. ASSUME Hub!Recover PROVE ApartInv'
    BY <2>2 DEF Hub!Recover, IdsAreUnique, Hub!LineagesAreKeptApart
  <2>3. ASSUME NEW creator, NEW lineage, NEW by, NEW id, NEW scope,
               NEW supersedes \in SUBSET hub,
               Hub!AppendArtifact(id, scope, creator, lineage, by, supersedes)
        PROVE  ApartInv'
    <3> DEFINE new == Hub!Artifact(id, scope, creator, lineage, by, supersedes)
    <3>1. /\ hub' = hub \cup {new} /\ seen' = {}
          /\ new.id = id /\ new.by = by /\ new.supersedes = {prior.id : prior \in supersedes}
      BY <2>3 DEF Hub!AppendArtifact, Hub!Artifact
    <3>2. \A x \in hub : x.id # id
      BY <2>3 DEF Hub!AppendArtifact, Hub!MayAppend
    <3>3. \A prior \in supersedes : prior.scope = "lineage" => by.lineage = prior.lineage
      BY <2>3, VisibleIsProven DEF Hub!AppendArtifact, Hub!MayAppend
    <3> HIDE DEF new
    <3>4. IdsAreUnique'
      BY <3>1, <3>2 DEF IdsAreUnique
    <3>5. Hub!LineagesAreKeptApart'
      <4> SUFFICES ASSUME NEW artifact \in hub', artifact.scope = "lineage",
                          NEW next \in hub', artifact.id \in next.supersedes
                   PROVE  next.by.lineage = artifact.lineage
        BY <3>1 DEF Hub!LineagesAreKeptApart
      <4>1. artifact \in hub
        BY <3>1, <3>2 DEF IdsAreUnique
      <4>2. CASE next \in hub
        BY <4>1, <4>2 DEF Hub!LineagesAreKeptApart
      <4>3. CASE next = new
        <5>1. PICK prior \in supersedes : prior.id = artifact.id
          BY <4>3, <3>1
        <5>2. prior = artifact
          BY <5>1, <4>1 DEF IdsAreUnique
        <5> QED BY <5>2, <3>3, <3>1, <4>3
      <4> QED BY <4>2, <4>3, <3>1
    <3> QED BY <3>4, <3>5
  <2>4. ASSUME NEW artifacts, NEW creator, NEW lineage, NEW by, Hub!Use(artifacts, creator, lineage, by)
        PROVE  ApartInv'
    <3>1. hub' = hub /\ seen' = {[artifact |-> a, by |-> by] : a \in artifacts}
      BY <2>4 DEF Hub!Use
    <3>2. \A use \in seen' : use.artifact.scope = "lineage" => use.by.lineage = use.artifact.lineage
      BY <3>1, <2>4, VisibleIsProven DEF Hub!Use
    <3> QED BY <3>1, <3>2 DEF IdsAreUnique, Hub!LineagesAreKeptApart
  <2>5. ASSUME NEW a \in Minted, Hub!Submit(a) \/ Hub!SubmitFails(a) PROVE seen' = {} /\ hub' = hub
    BY <2>5 DEF Hub!Submit, Hub!SubmitFails
  <2>6. CASE UNCHANGED Hub!vars
    BY <2>6 DEF Hub!vars, IdsAreUnique, Hub!LineagesAreKeptApart
  <2> QED BY <2>1, <2>2, <2>3, <2>4, <2>5, <2>6 DEF Hub!Next
<1>3. ApartInv => LineagesAreKeptApart
  BY DEF ApartInv, LineagesAreKeptApart
<1> QED BY <1>1, <1>2, <1>3, PartsStart, PartsMove, PTL DEF DiscoverySpec

(***************************************************************************)
(* The heartbeats.                                                         *)
(***************************************************************************)

\* What an engine remembers to have appended is in the hub.
PulseInv ==
    /\ Pulse!FiringsHaveArtifacts
    /\ \A key \in appended : \E x \in notes : x.beat = key.beat /\ x.n = key.n

\* Some beats of one evaluation are appended, whose ids were free.
LEMMA BeatsAppended ==
    ASSUME PulseInv, NEW bs, NEW population, Pulse!AppendAll(bs, {}, population),
           \A x \in Pulse!Appends(bs) : ~Pulse!Taken(x)
    PROVE  /\ \A x, y \in notes' : x.beat = y.beat /\ x.n = y.n => x = y
           /\ \A key \in appended' : \E x \in notes' : x.beat = key.beat /\ x.n = key.n
           /\ \A x \in Range(bs) : x.kind # "redirection" => \E y \in notes' : y.beat = x /\ y.n = tick
           /\ notes \subseteq notes'
<1>1. /\ notes' = notes \cup {Pulse!Artifact(x, population) : x \in Pulse!Appends(bs)}
      /\ appended' = appended \cup {Pulse!Key(x) : x \in Pulse!Appends(bs)}
  BY DEF Pulse!AppendAll
<1>2. \A x : Pulse!Artifact(x, population).beat = x /\ Pulse!Artifact(x, population).n = tick
  BY DEF Pulse!Artifact
<1>3. \A x : Pulse!Key(x).beat = x /\ Pulse!Key(x).n = tick
  BY DEF Pulse!Key
<1>4. \A x \in Pulse!Appends(bs) : \A y \in notes : ~(y.beat = x /\ y.n = tick)
  BY DEF Pulse!Taken
<1>5. \A x, y \in notes' : x.beat = y.beat /\ x.n = y.n => x = y
  BY <1>1, <1>2, <1>4 DEF PulseInv, Pulse!FiringsHaveArtifacts
<1>6. \A key \in appended' : \E x \in notes' : x.beat = key.beat /\ x.n = key.n
  BY <1>1, <1>2, <1>3 DEF PulseInv
<1>7. ASSUME NEW x \in Range(bs), x.kind # "redirection"
      PROVE  \E y \in notes' : y.beat = x /\ y.n = tick
  <2>1. CASE Pulse!Key(x) \in appended
    BY <2>1, <1>1, <1>3 DEF PulseInv
  <2>2. CASE Pulse!Key(x) \notin appended
    <3>1. x \in Pulse!Appends(bs)
      BY <1>7, <2>2 DEF Pulse!Appends, Range, Pulse!Range
    <3> QED BY <3>1, <1>1, <1>2
  <2> QED BY <2>1, <2>2
<1> QED BY <1>1, <1>5, <1>6, <1>7

\* Also when an evaluation is raised half way, made again, or made again by a
\* new engine, a firing the caller learns of has its one artifact.
LEMMA PulseInvHolds == DiscoverySpec => []PulseInv
<1>1. Pulse!Init => PulseInv
  BY DEF Pulse!Init, PulseInv, Pulse!FiringsHaveArtifacts
<1>2. PulseInv /\ [Pulse!Next]_(Pulse!vars) => PulseInv'
  <2> SUFFICES ASSUME PulseInv, [Pulse!Next]_(Pulse!vars) PROVE PulseInv'
    OBVIOUS
  <2>1. ASSUME NEW bs, NEW population, Pulse!AppendAll(bs, {}, population), fired' = fired,
               \A x \in Pulse!Appends(bs) : ~Pulse!Taken(x)
        PROVE  PulseInv'
    BY <2>1, BeatsAppended DEF PulseInv, Pulse!FiringsHaveArtifacts
  <2>2. ASSUME NEW population, NEW evidence, Pulse!Evaluate(population, evidence) PROVE PulseInv'
    <3> DEFINE bs == Pulse!Firing(population, evidence).beats
    <3>1. /\ Pulse!AppendAll(bs, {}, population) /\ \A x \in Pulse!Appends(bs) : ~Pulse!Taken(x)
          /\ fired' = fired \cup {Pulse!Artifact(x, population) : x \in Range(bs)}
      BY <2>2 DEF Pulse!Evaluate, Range, Pulse!Range
    <3> HIDE DEF bs
    <3>2. \A x : Pulse!Artifact(x, population).beat = x /\ Pulse!Artifact(x, population).n = tick
      BY DEF Pulse!Artifact
    <3> QED BY <3>1, <3>2, BeatsAppended DEF PulseInv, Pulse!FiringsHaveArtifacts
  <2>3. ASSUME NEW population, NEW evidence, Pulse!HubRefuses(population, evidence) PROVE PulseInv'
    <3>1. PICK k : LET bs == SubSeq(Pulse!Firing(population, evidence).beats, 1, k - 1) IN
                   /\ \A x \in Pulse!Appends(bs) : ~Pulse!Taken(x)
                   /\ notes' = notes \cup {Pulse!Artifact(x, population) : x \in Pulse!Appends(bs)}
                   /\ appended' = appended \cup {Pulse!Key(x) : x \in Pulse!Appends(bs)}
                   /\ fired' = fired
      BY <2>3 DEF Pulse!HubRefuses, Pulse!AppendAll
    <3> DEFINE bs == SubSeq(Pulse!Firing(population, evidence).beats, 1, k - 1)
    <3>2. Pulse!AppendAll(bs, {}, population)
      BY <3>1 DEF Pulse!AppendAll
    <3> HIDE DEF bs
    <3> QED BY <3>1, <3>2, <2>1 DEF bs
  <2>4. ASSUME NEW population, NEW evidence, Pulse!NoBudget(population, evidence) PROVE PulseInv'
    BY <2>4, <2>1 DEF Pulse!NoBudget
  <2>5. CASE Pulse!NewEngine
    BY <2>5 DEF Pulse!NewEngine, PulseInv, Pulse!FiringsHaveArtifacts
  <2>6. CASE UNCHANGED Pulse!vars
    BY <2>6 DEF Pulse!vars, PulseInv, Pulse!FiringsHaveArtifacts
  <2> QED BY <2>2, <2>3, <2>4, <2>5, <2>6 DEF Pulse!Next
<1> QED BY <1>1, <1>2, PartsStart, PartsMove, PTL DEF DiscoverySpec

(***************************************************************************)
(* The steering: the policies, the batches and the journal of the evolver. *)
(***************************************************************************)

\* The variables hold what they should, and the active policy is known.
SteerTyped ==
    /\ number \in Nat /\ current \in known /\ IsFiniteSet(known)
    /\ spent \in [known -> Int] /\ \A p \in known \cup proposed : p.dsl \in Policies
    /\ window.shape \in Shapes /\ window.attempts \in Int

\* A least element is in the set, and least.
LEMMA LeastIs ==
    ASSUME NEW S, \E x \in S : \A y \in S : x <= y
    PROVE  Steering!Least(S) \in S /\ \A y \in S : Steering!Least(S) <= y
BY DEF Steering!Least

\* Five numbers have a least.
LEMMA LeastOfFive ==
    ASSUME NEW v \in Int, NEW w \in Int, NEW x \in Int, NEW y \in Int, NEW z \in Int
    PROVE  LET m == Steering!Least({v, w, x, y, z}) IN
           m \in {v, w, x, y, z} /\ m <= v /\ m <= w /\ m <= x /\ m <= y /\ m <= z
<1>1. \E m \in {v, w, x, y, z} : \A k \in {v, w, x, y, z} : m <= k
  <2>1. PICK m \in {v, w} : m <= v /\ m <= w
    OBVIOUS
  <2>2. PICK k \in {m, x} : k <= m /\ k <= x
    OBVIOUS
  <2>3. PICK j \in {k, y} : j <= k /\ j <= y
    BY <2>1, <2>2
  <2>4. PICK i \in {j, z} : i <= j /\ i <= z
    BY <2>1, <2>2, <2>3
  <2>5. i \in {v, w, x, y, z} /\ i \in Int /\ j \in Int /\ k \in Int /\ m \in Int
    BY <2>1, <2>2, <2>3, <2>4
  <2>6. \A h \in {v, w, x, y, z} : i <= h
    BY <2>1, <2>2, <2>3, <2>4, <2>5
  <2> QED BY <2>5, <2>6
<1>2. \A S : (\E x_1 \in S : \A y_1 \in S : x_1 <= y_1) => Steering!Least(S) \in S /\ \A y_1 \in S : Steering!Least(S) <= y_1
  BY LeastIs
<1> QED BY <1>1, <1>2

\* A batch that is not refused has room, and no more than what is left.
LEMMA WidthIs ==
    ASSUME SteerTyped, ~Steering!Refuses
    PROVE  /\ Steering!Width \in Nat \ {0} /\ Steering!Width <= window.attempts
           /\ Steering!Width <= current.dsl.cap - spent[current]
<1> DEFINE d == current.dsl
<1>1. d \in Policies /\ spent[current] \in Int /\ window.attempts \in Int /\ Parallel \in Nat \ {0}
  BY DiscoveryAssumption DEF SteerTyped
<1>2. /\ d.width \in Nat \ {0} /\ d.concurrency \in Nat \ {0} /\ d.cap \in Nat \ {0}
  BY <1>1 DEF Policies
<1>3. d.cap - spent[current] > 0 /\ window.attempts > 0
  BY <1>1, <1>2 DEF Steering!Refuses
<1>4. Steering!Width = Steering!Least({d.width, d.concurrency, Parallel, window.attempts, d.cap - spent[current]})
  BY DEF Steering!Width
<1> DEFINE v == d.width
           w == d.concurrency
           x == window.attempts
           y == d.cap - spent[current]
           m == Steering!Least({v, w, Parallel, x, y})
<1>5. v \in Nat \ {0} /\ w \in Nat \ {0} /\ x \in Nat \ {0} /\ y \in Nat \ {0} /\ Parallel \in Nat \ {0}
  BY <1>1, <1>2, <1>3
<1>6. m \in Nat \ {0} /\ m <= x /\ m <= y
  <2> HIDE DEF v, w, x, y
  <2>1. v \in Int /\ w \in Int /\ x \in Int /\ y \in Int /\ Parallel \in Int
    BY <1>5
  <2>2. m \in {v, w, Parallel, x, y} /\ m <= x /\ m <= y
    BY <2>1, LeastOfFive
  <2> HIDE DEF m
  <2> QED BY <2>2, <1>5
<1>7. Steering!Width = m
  BY <1>4
<1> QED BY <1>6, <1>7

\* What is picked of the nodes, one by one.
Picks == INSTANCE Folding WITH Op <- Steering!Pick

\* OnePerLineage is a fold, of which the facts of Folding hold.
LEMMA OneIsFold == \A nodes : Steering!OnePerLineage(nodes) = Picks!Fold(<< >>, nodes)
BY DEF Steering!OnePerLineage, Steering!FoldLeft, Picks!FoldLeft, Steering!MapThenFoldSet, Picks!MapThenFoldSet,
       Steering!Max, Picks!Max, Picks!Fold

\* Nodes of which no two are of one lineage.
Spreads(s) == \A i, j \in DOMAIN s : s[i].lineage = s[j].lineage => i = j

\* No two nodes it takes are of one lineage.
LEMMA OneIsSpread ==
    ASSUME NEW T, NEW s \in Seq(T)
    PROVE  Steering!OnePerLineage(s) \in Seq(T) /\ Spreads(Steering!OnePerLineage(s))
<1> DEFINE G == {q \in Seq(T) : Spreads(q)}
           W == [i \in 0 .. Len(s) |-> G]
<1>1. << >> \in W[0]
  BY DEF Spreads
<1>2. ASSUME NEW i \in 1 .. Len(s), NEW q \in W[i - 1] PROVE Steering!Pick(q, s[i]) \in W[i]
  <2>1. q \in Seq(T) /\ Spreads(q) /\ s[i] \in T /\ W[i] = G
    BY <1>2
  <2>2. CASE s[i].lineage \in Steering!LineagesOf(q)
    BY <2>1, <2>2 DEF Steering!Pick
  <2>3. CASE s[i].lineage \notin Steering!LineagesOf(q)
    <3>1. \A j \in DOMAIN q : q[j].lineage # s[i].lineage
      BY <2>3 DEF Steering!LineagesOf
    <3>2. Append(q, s[i]) \in Seq(T) /\ Spreads(Append(q, s[i]))
      BY <2>1, <3>1 DEF Spreads
    <3> QED BY <2>1, <2>3, <3>2 DEF Steering!Pick
  <2> QED BY <2>2, <2>3
<1>3. Picks!Fold(<< >>, s) \in W[Len(s)]
  <2> HIDE DEF W
  <2> QED BY <1>1, <1>2, Picks!FoldKeeps
<1> QED BY <1>3, OneIsFold

\* Ranked nodes are a sequence, whatever the order.
LEMMA Ranked ==
    ASSUME NEW T, NEW nodes \in Seq(T)
    PROVE  \E U : Steering!Rank(nodes) \in Seq(U)
<1> DEFINE place == [k \in 1 .. Len(nodes) |-> CHOOSE i \in DOMAIN nodes : Steering!Place(nodes, i) = k]
<1>1. Steering!Rank(nodes) = [k \in 1 .. Len(nodes) |-> nodes[place[k]]]
  BY DEF Steering!Rank
<1> HIDE DEF place
<1>2. [k \in 1 .. Len(nodes) |-> nodes[place[k]]] \in Seq({nodes[place[k]] : k \in 1 .. Len(nodes)})
  OBVIOUS
<1> QED BY <1>1, <1>2

\* The first few nodes of different lineages are of different lineages.
LEMMA PrefixIs ==
    ASSUME NEW T, NEW s \in Seq(T), Spreads(s), NEW k \in Nat
    PROVE  Steering!Prefix(s, k) \in Seq(T) /\ Spreads(Steering!Prefix(s, k)) /\ Len(Steering!Prefix(s, k)) <= k
<1> DEFINE m == IF k < Len(s) THEN k ELSE Len(s)
<1>1. m \in 0 .. Len(s) /\ m <= k
  OBVIOUS
<1>2. Steering!Prefix(s, k) = SubSeq(s, 1, m)
  BY DEF Steering!Prefix
<1> HIDE DEF m
<1>3. /\ SubSeq(s, 1, m) \in Seq(T) /\ Len(SubSeq(s, 1, m)) = m
      /\ \A i \in 1 .. m : SubSeq(s, 1, m)[i] = s[i]
  BY <1>1
<1>4. Spreads(SubSeq(s, 1, m))
  BY <1>1, <1>3 DEF Spreads
<1> QED BY <1>1, <1>2, <1>3, <1>4

\* Explorers do not take up more than the batch.
LEMMA OptimizersAre ==
    ASSUME SteerTyped, ~Steering!Refuses
    PROVE  Steering!Optimizers \in Nat
<1> DEFINE w == Steering!Width
           e == current.dsl.explorers
<1>1. w \in Nat \ {0} /\ e \in 0 .. 4
  BY WidthIs DEF SteerTyped, Policies
<1> HIDE DEF w, e
<1>2. (2 * w * e + 4) \div 8 \in Nat /\ (2 * w * e + 4) \div 8 <= w
  <2>1. e \in {0, 1, 2, 3, 4}
    BY <1>1
  <2>2. 2 * w * e \in Nat /\ 2 * w * e <= 8 * w
    <3>1. CASE e = 0
      BY <1>1, <3>1
    <3>2. CASE e = 1
      BY <1>1, <3>2
    <3>3. CASE e = 2
      BY <1>1, <3>3
    <3>4. CASE e = 3
      BY <1>1, <3>4
    <3>5. CASE e = 4
      BY <1>1, <3>5
    <3> QED BY <2>1, <3>1, <3>2, <3>3, <3>4, <3>5
  <2> DEFINE x == 2 * w * e
  <2> HIDE DEF x
  <2>3. x \in Nat /\ x <= 8 * w
    BY <2>2 DEF x
  <2>4. (x + 4) \div 8 \in Nat /\ (x + 4) \div 8 <= w
    BY <1>1, <2>3
  <2> QED BY <2>4 DEF x
<1>3. Steering!Optimizers \in {0, w - (2 * w * e + 4) \div 8}
  BY DEF Steering!Optimizers, w, e
<1> QED BY <1>1, <1>2, <1>3

\* A batch is planned whole, and no two of its parents are of one lineage.
LEMMA BatchIs ==
    ASSUME SteerTyped, ~Steering!Refuses
    PROVE  /\ Steering!Size(Steering!Batch) = Steering!Width
           /\ \E T : Steering!Batch.parents \in Seq(T) /\ Spreads(Steering!Batch.parents)
<1>1. /\ Steering!Width \in Nat \ {0} /\ Steering!Optimizers \in Nat
  BY WidthIs, OptimizersAre
<1>2. window.shape.nodes \in Seq(Nodes)
  BY DiscoveryAssumption DEF SteerTyped, Descriptors
<1>3. PICK T : Steering!Rank(window.shape.nodes) \in Seq(T)
  BY <1>2, Ranked
<1>4. Steering!Chosen \in Seq(T) /\ Spreads(Steering!Chosen)
  <2>1. /\ Steering!OnePerLineage(Steering!Rank(window.shape.nodes)) \in Seq(T)
        /\ Spreads(Steering!OnePerLineage(Steering!Rank(window.shape.nodes)))
    BY <1>3, OneIsSpread
  <2> QED BY <2>1, <1>1, PrefixIs DEF Steering!Chosen
<1> DEFINE due == IF Steering!ReseedDue THEN 1 ELSE 0
           kept == Steering!Prefix(Steering!Chosen, Steering!Room)
           batch == Steering!Batch
<1>5. Steering!Room \in Nat /\ Steering!Room + due = Steering!Width /\ due \in {0, 1}
  BY <1>1 DEF Steering!Room
<1>6. kept \in Seq(T) /\ Spreads(kept)
  BY <1>4, <1>5, PrefixIs
<1>7. batch.parents \in {kept, << >>}
  BY DEF Steering!Batch
<1>8. /\ batch.explorers = Steering!Room - Len(batch.parents)
      /\ (IF batch.reseed THEN 1 ELSE 0) = due
  BY DEF Steering!Batch
<1>9. batch.parents \in Seq(T) /\ Spreads(batch.parents)
  <2>1. << >> \in Seq(T) /\ Spreads(<< >>)
    BY DEF Spreads
  <2> QED BY <2>1, <1>6, <1>7
<1>10. Steering!Size(batch) = due + batch.explorers + Len(batch.parents)
  BY <1>8 DEF Steering!Size
<1>11. Len(batch.parents) \in Nat
  BY <1>9
<1> HIDE DEF due, kept, batch
<1>12. Steering!Size(batch) = Steering!Width
  BY <1>5, <1>8, <1>10, <1>11, <1>1
<1> QED BY <1>9, <1>12 DEF batch

\* The instance counts as the theorems about finite sets do.
LEMMA SameCardinality == \A S : Steering!Cardinality(S) = Cardinality(S)
BY DEF Steering!Cardinality, Cardinality

\* As many lineages as nodes.
LEMMA SpreadCounts ==
    ASSUME NEW T, NEW s \in Seq(T), Spreads(s)
    PROVE  Steering!Cardinality(Steering!LineagesOf(s)) = Len(s)
<1> DEFINE f == [i \in 1 .. Len(s) |-> s[i].lineage]
           L == Steering!LineagesOf(s)
<1>1. f \in Bijection(1 .. Len(s), L)
  <2>1. f \in [1 .. Len(s) -> L] /\ \A l \in L : \E i \in 1 .. Len(s) : f[i] = l
    BY DEF Steering!LineagesOf
  <2>2. \A i, j \in 1 .. Len(s) : f[i] = f[j] => i = j
    BY DEF Spreads
  <2> QED BY <2>1, <2>2 DEF Bijection, Injection, Surjection, IsInjective
<1> HIDE DEF f, L
<1>2. IsFiniteSet(1 .. Len(s)) /\ Cardinality(1 .. Len(s)) = Len(s)
  <2>1. Len(s) \in Nat /\ 1 \in Int /\ Len(s) \in Int
    OBVIOUS
  <2> QED BY <2>1, FS_Interval
<1>3. Cardinality(L) = Len(s)
  BY <1>1, <1>2, FS_Bijection DEF ExistsBijection
<1> QED BY <1>3, SameCardinality DEF L

\* Every batch is whole.
LEMMA BatchWhole == ASSUME SteerTyped PROVE Steering!BatchIsWhole
BY BatchIs, SpreadCounts DEF Steering!BatchIsWhole

\* Looking for the parents of parents, again and again.
Ups == INSTANCE Folding WITH Op <- Steering!Elders
\* As often as k times.
Times(k) == [i \in 1 .. k |-> i]

\* Once more.
LEMMA TimesGrows ==
    ASSUME NEW k \in Nat
    PROVE  Times(k) \in Seq(Nat) /\ Times(k + 1) = Append(Times(k), k + 1)
<1>1. Times(k) \in Seq(Nat) /\ Len(Times(k)) = k /\ \A i \in 1 .. k : Times(k)[i] = i
  BY DEF Times
<1>2. Append(Times(k), k + 1) = [i \in 1 .. k + 1 |-> IF i = k + 1 THEN k + 1 ELSE Times(k)[i]]
  BY <1>1
<1> QED BY <1>1, <1>2 DEF Times

\* Who is older stays so, however often one looks further up.
LEMMA EldersGrow ==
    ASSUME NEW base, NEW j \in Nat, NEW k \in Nat, j <= k
    PROVE  Ups!Fold(base, Times(j)) \subseteq Ups!Fold(base, Times(k))
<1> DEFINE F(d) == Ups!Fold(base, Times(d))
           G == {d \in 0 .. k : d < j \/ F(j) \subseteq F(d)}
<1>1. 0 \in G
  OBVIOUS
<1>2. ASSUME NEW d \in 1 .. k, d - 1 \in G PROVE d \in G
  <2>1. CASE d <= j
    BY <2>1
  <2>2. CASE d > j
    <3>1. F(j) \subseteq F(d - 1)
      BY <1>2, <2>2
    <3>2. d - 1 \in Nat /\ d \in Nat /\ (d - 1) + 1 = d
      OBVIOUS
    <3>3. Times(d - 1) \in Seq(Nat) /\ Times(d) = Append(Times(d - 1), d)
      BY <3>2, TimesGrows
    <3>4. F(d) = Steering!Elders(F(d - 1), d)
      BY <3>2, <3>3, Ups!FoldAppend
    <3> HIDE DEF F
    <3> QED BY <3>1, <3>4 DEF Steering!Elders
  <2> QED BY <2>1, <2>2
<1>3. k \in G
  <2> HIDE DEF G
  <2> QED BY <1>1, <1>2, Ups!Climb
<1> QED BY <1>3

\* Who is found looking up k times more than once.
Up(k, p) == Ups!Fold(Steering!Parents({p}), Times(k))

\* The ancestors of a policy are found within as many generations as there are policies.
LEMMA AncestorsAre == \A p : Steering!Ancestors(p) = Up(Cardinality(known), p)
<1>1. \A p : Steering!Ancestors(p) = Up(Steering!Cardinality(known), p)
  BY DEF Steering!Ancestors, Steering!FoldLeft, Ups!FoldLeft, Steering!MapThenFoldSet, Ups!MapThenFoldSet,
         Steering!Max, Ups!Max, Ups!Fold, Times, Up
<1> QED BY <1>1, SameCardinality

\* What a row of the journal of the strategy holds.
StrategyRows == [n : Nat, policy : known \cup proposed, outcome : {"activated", "rejected", "rolled_back"}]

\* The row leads from the policy p to the policy q, with ancestors k generations up.
Leads(k, p, row, q) ==
    \/ row.outcome = "rejected" /\ q = p
    \/ row.outcome = "activated" /\ row.policy.parent = p /\ q = row.policy
    \/ row.outcome = "rolled_back" /\ row.policy \in Up(k, p) /\ q = row.policy

\* The rows tell how the root policy was followed by others, up to this one.
Tells(k, run, rows, policy) ==
    /\ run[0] = Steering!RootSnapshot /\ run[Len(rows)] = policy
    /\ \A i \in 1 .. Len(rows) : Leads(k, run[i - 1], rows[i], run[i])

\* The journal tells how the active policy came to be.
Derived == history \in Seq(StrategyRows) /\ \E run : Tells(Cardinality(known), run, history, current)

\* A policy that becomes known does not take an ancestor from another.
LEMMA LeadsStill ==
    ASSUME NEW j \in Nat, NEW k \in Nat, j <= k, NEW p, NEW row, NEW q, Leads(j, p, row, q)
    PROVE  Leads(k, p, row, q)
BY EldersGrow DEF Leads, Up

\* One row more.
LEMMA TellsMore ==
    ASSUME NEW j \in Nat, NEW k \in Nat, j <= k, NEW T, NEW rows \in Seq(T), NEW row \in T, NEW p, NEW q,
           NEW run, Tells(j, run, rows, p), Leads(k, p, row, q)
    PROVE  \E r : Tells(k, r, Append(rows, row), q)
<1> DEFINE r == [i \in 0 .. Len(rows) + 1 |-> IF i = Len(rows) + 1 THEN q ELSE run[i]]
           more == Append(rows, row)
<1>1. /\ Len(rows) \in Nat /\ Len(more) = Len(rows) + 1
      /\ more[Len(rows) + 1] = row /\ \A i \in 1 .. Len(rows) : more[i] = rows[i]
  OBVIOUS
<1>2. \A i \in 0 .. Len(rows) : r[i] = run[i]
  BY <1>1
<1>3. r[Len(rows) + 1] = q /\ run[Len(rows)] = p
  BY <1>1 DEF Tells
<1> HIDE DEF r, more
<1>4. ASSUME NEW i \in 1 .. Len(more) PROVE Leads(k, r[i - 1], more[i], r[i])
  <2>1. CASE i = Len(rows) + 1
    <3>1. r[i - 1] = p /\ more[i] = row /\ r[i] = q
      BY <1>1, <1>2, <1>3, <2>1
    <3> QED BY <3>1
  <2>2. CASE i \in 1 .. Len(rows)
    <3>1. r[i - 1] = run[i - 1] /\ more[i] = rows[i] /\ r[i] = run[i]
      BY <1>1, <1>2, <2>2
    <3>2. Leads(j, run[i - 1], rows[i], run[i])
      BY <2>2 DEF Tells
    <3>3. Leads(k, run[i - 1], rows[i], run[i])
      BY <3>2, LeadsStill
    <3> QED BY <3>1, <3>3
  <2> QED BY <1>1, <2>1, <2>2
<1>5. r[0] = Steering!RootSnapshot /\ r[Len(more)] = q
  BY <1>1, <1>2, <1>3 DEF Tells
<1> QED BY <1>4, <1>5 DEF Tells, more

\* The inductive invariant of the steering: no policy has spent more than its cap.
SteerInv ==
    /\ SteerTyped /\ Derived
    /\ \A p \in known : spent[p] <= p.dsl.cap

\* The journal is played row by row.
Plays == INSTANCE Folding WITH Op <- Steering!Play

\* HistoryReplays is about a fold, of which the facts of Folding hold.
LEMMA PlayIsFold ==
    Steering!HistoryReplays <=> Plays!Fold(Steering!RootSnapshot, history) = current
BY DEF Steering!HistoryReplays, Steering!FoldLeft, Plays!FoldLeft, Steering!MapThenFoldSet, Plays!MapThenFoldSet,
       Steering!Max, Plays!Max, Plays!Fold

\* What the journal tells is what playing it gives.
LEMMA DerivedReplays == ASSUME Derived PROVE Steering!HistoryReplays
<1>1. PICK run : Tells(Cardinality(known), run, history, current)
  BY DEF Derived
<1> DEFINE W == [i \in 0 .. Len(history) |-> {run[i]}]
<1>2. history \in Seq(StrategyRows) /\ Len(history) \in Nat
  BY DEF Derived
<1>3. Steering!RootSnapshot \in W[0]
  BY <1>1, <1>2 DEF Tells
<1>4. ASSUME NEW i \in 1 .. Len(history), NEW v \in W[i - 1] PROVE Steering!Play(v, history[i]) \in W[i]
  <2>1. v = run[i - 1] /\ W[i] = {run[i]} /\ Leads(Cardinality(known), run[i - 1], history[i], run[i])
    BY <1>1, <1>2, <1>4 DEF Tells
  <2>2. Steering!Play(v, history[i]) = run[i]
    BY <2>1, AncestorsAre DEF Leads, Steering!Play
  <2> QED BY <2>1, <2>2
<1>5. Plays!Fold(Steering!RootSnapshot, history) \in W[Len(history)]
  <2> HIDE DEF W
  <2> QED BY <1>2, <1>3, <1>4, Plays!FoldKeeps
<1>6. Plays!Fold(Steering!RootSnapshot, history) = run[Len(history)]
  BY <1>2, <1>5
<1> QED BY <1>1, <1>6, PlayIsFold DEF Tells

\* Policies only become known.
LEMMA KnownGrows ==
    ASSUME SteerTyped, IsFiniteSet(known'), known \subseteq known'
    PROVE  Cardinality(known) \in Nat /\ Cardinality(known') \in Nat /\ Cardinality(known) <= Cardinality(known')
BY FS_CardinalityType, FS_Subset DEF SteerTyped

\* A step that is not journalled changes nothing of it.
LEMMA DerivedKeeps ==
    ASSUME SteerTyped, Derived, UNCHANGED <<known, history, current>>, proposed \subseteq proposed'
    PROVE  Derived'
<1>1. StrategyRows \subseteq StrategyRows'
  BY DEF StrategyRows
<1> QED BY <1>1 DEF Derived

\* A step that is journalled goes on from the policy active before.
LEMMA DerivedFurther ==
    ASSUME SteerTyped, Derived, IsFiniteSet(known'), known \subseteq known', proposed \subseteq proposed',
           NEW row \in StrategyRows', history' = Append(history, row),
           Leads(Cardinality(known'), current, row, current')
    PROVE  Derived'
<1>1. PICK run : Tells(Cardinality(known), run, history, current)
  BY DEF Derived
<1>2. history \in Seq(StrategyRows')
  <2>1. StrategyRows \subseteq StrategyRows'
    BY DEF StrategyRows
  <2> QED BY <2>1 DEF Derived
<1>3. \E r : Tells(Cardinality(known'), r, Append(history, row), current')
  BY <1>1, <1>2, KnownGrows, TellsMore
<1> QED BY <1>2, <1>3 DEF Derived

\* The root policy is active, and nothing is journalled.
LEMMA SteerStarts == ASSUME Steering!Init PROVE SteerInv
<1>1. PICK shape \in Shapes : window = [shape |-> shape, id |-> 0, attempts |-> Budget]
  BY DEF Steering!Init
<1>2. /\ number = 0 /\ current = Steering!RootSnapshot /\ known = {Steering!RootSnapshot} /\ proposed = {}
      /\ history = << >> /\ spent = [p \in known |-> 0]
  BY DEF Steering!Init
<1>3. Steering!RootSnapshot.dsl = RootDsl /\ RootDsl \in Policies /\ RootDsl.cap \in Nat
  BY DiscoveryAssumption DEF Steering!RootSnapshot, Steering!Snapshot, Policies
<1>4. IsFiniteSet(known)
  BY <1>2, FS_Singleton
<1>5. SteerTyped
  BY <1>1, <1>2, <1>3, <1>4, DiscoveryAssumption DEF SteerTyped
<1>6. Tells(Cardinality(known), [i \in 0 .. 0 |-> Steering!RootSnapshot], history, current)
  BY <1>2 DEF Tells
<1>7. \A p \in known : spent[p] <= p.dsl.cap
  BY <1>2, <1>3
<1> QED BY <1>2, <1>5, <1>6, <1>7 DEF SteerInv, Derived

\* A new description of the population leaves policies and journal alone.
LEMMA DescribeKeeps ==
    ASSUME SteerInv, NEW shape \in Shapes, NEW id, Steering!Describe(shape, id), remaining \in Int
    PROVE  SteerInv'
<1>1. window'.shape = shape /\ window'.attempts = remaining /\ UNCHANGED <<number, current, known, proposed, history, spent>>
  BY DEF Steering!Describe, Steering!Described, Steering!evolver
<1>2. Derived'
  BY <1>1, DerivedKeeps DEF SteerInv
<1> QED BY <1>1, <1>2 DEF SteerInv, SteerTyped

\* A proposal is no policy yet.
LEMMA ProposeKeeps == ASSUME SteerInv, NEW dsl \in Dsls, Steering!Propose(dsl) PROVE SteerInv'
<1> DEFINE c == Steering!Snapshot(dsl, current, window.id, number)
<1>1. number' = number + 1 /\ proposed' = proposed \cup {c} /\ UNCHANGED <<current, known, history, window, spent>>
  BY DEF Steering!Propose, Steering!Call
<1>2. c.dsl \in Policies
  BY DiscoveryAssumption DEF Steering!Snapshot
<1> HIDE DEF c
<1>3. Derived'
  BY <1>1, DerivedKeeps DEF SteerInv
<1> QED BY <1>1, <1>2, <1>3 DEF SteerInv, SteerTyped

\* A policy activated follows its parent.
LEMMA ActivateKeeps == ASSUME SteerInv, NEW c \in proposed, Steering!Activate(c) PROVE SteerInv'
<1> DEFINE row == Steering!Row(c, "activated")
<1>1. /\ number' = number + 1 /\ current' = c /\ known' = known \cup {c} /\ history' = Append(history, row)
      /\ spent' = [p \in DOMAIN spent \cup {c} |-> IF p \in DOMAIN spent THEN spent[p] ELSE 0]
      /\ UNCHANGED <<proposed, window>> /\ c.parent = current
  BY DEF Steering!Activate, Steering!Call, Steering!PassesStatic
<1>2. number \in Nat /\ DOMAIN spent = known /\ spent \in [known -> Int] /\ IsFiniteSet(known) /\ c.dsl \in Policies
  BY DEF SteerInv, SteerTyped
<1>3. IsFiniteSet(known')
  BY <1>1, <1>2, FS_AddElement
<1>4. row \in StrategyRows' /\ row.outcome = "activated" /\ row.policy = c
  BY <1>1, <1>2 DEF Steering!Row, StrategyRows
<1>5. Derived'
  <2>1. Leads(Cardinality(known'), current, row, current')
    BY <1>1, <1>4 DEF Leads
  <2> HIDE DEF row
  <2> QED BY <1>1, <1>3, <1>4, <2>1, DerivedFurther DEF SteerInv
<1>6. spent' \in [known' -> Int] /\ \A p \in known' : spent'[p] = IF p \in known THEN spent[p] ELSE 0
  BY <1>1, <1>2
<1>7. c.dsl.cap \in Nat
  BY <1>2 DEF Policies
<1>8. ASSUME NEW p \in known' PROVE spent'[p] <= p.dsl.cap
  <2>1. CASE p \in known
    <3>1. spent'[p] = spent[p]
      BY <1>6, <1>8, <2>1
    <3> QED BY <3>1, <2>1 DEF SteerInv
  <2>2. CASE p \notin known
    <3>1. spent'[p] = 0 /\ p = c
      BY <1>1, <1>6, <1>8, <2>2
    <3> QED BY <3>1, <1>7
  <2> QED BY <2>1, <2>2
<1>9. SteerTyped'
  BY <1>1, <1>2, <1>3, <1>6 DEF SteerInv, SteerTyped
<1> QED BY <1>5, <1>8, <1>9 DEF SteerInv

\* A policy rejected leads nowhere.
LEMMA RejectKeeps == ASSUME SteerInv, NEW c \in proposed, Steering!Reject(c) PROVE SteerInv'
<1> DEFINE row == Steering!Row(c, "rejected")
<1>1. number' = number + 1 /\ history' = Append(history, row) /\ UNCHANGED <<current, known, proposed, window, spent>>
  BY DEF Steering!Reject, Steering!Call
<1>2. row \in StrategyRows' /\ row.outcome = "rejected"
  BY <1>1 DEF Steering!Row, StrategyRows, SteerInv, SteerTyped
<1>3. Leads(Cardinality(known'), current, row, current')
  BY <1>1, <1>2 DEF Leads
<1> HIDE DEF row
<1>4. Derived'
  BY <1>1, <1>2, <1>3, DerivedFurther DEF SteerInv, SteerTyped
<1> QED BY <1>1, <1>4 DEF SteerInv, SteerTyped

\* A rollback leads to an ancestor.
LEMMA RollbackKeeps == ASSUME SteerInv, NEW p \in known, Steering!Rollback(p) PROVE SteerInv'
<1> DEFINE row == Steering!Row(p, "rolled_back")
<1>1. /\ number' = number + 1 /\ history' = Append(history, row) /\ current' = p
      /\ UNCHANGED <<known, proposed, window, spent>> /\ p \in Steering!Ancestors(current)
  BY DEF Steering!Rollback, Steering!Call, Steering!Targets
<1>2. row \in StrategyRows' /\ row.outcome = "rolled_back" /\ row.policy = p
  BY <1>1 DEF Steering!Row, StrategyRows, SteerInv, SteerTyped
<1>3. Leads(Cardinality(known'), current, row, current')
  BY <1>1, <1>2, AncestorsAre DEF Leads
<1> HIDE DEF row
<1>4. Derived'
  BY <1>1, <1>2, <1>3, DerivedFurther DEF SteerInv, SteerTyped
<1> QED BY <1>1, <1>4 DEF SteerInv, SteerTyped

\* A batch is charged to the active policy, and fits in its cap.
LEMMA ScheduleKeeps == ASSUME SteerInv, Steering!Schedule, remaining \in Int PROVE SteerInv' /\ remaining' \in Int
<1> DEFINE k == Steering!Size(Steering!Batch)
<1>1. /\ ~Steering!Refuses /\ number' = number + 1 /\ remaining' = remaining - k
      /\ spent' = [spent EXCEPT ![current] = @ + k] /\ window' = [window EXCEPT !.attempts = remaining']
      /\ UNCHANGED <<current, known, proposed, history>>
  BY DEF Steering!Schedule, Steering!Call, Steering!evolver
<1>2. k \in Nat /\ k <= current.dsl.cap - spent[current]
  BY <1>1, BatchIs, WidthIs DEF SteerInv
<1> HIDE DEF k
<1>3. current \in known /\ spent \in [known -> Int] /\ current.dsl.cap \in Nat
  BY DEF SteerInv, SteerTyped, Policies
<1>4. spent' \in [known -> Int] /\ \A p \in known : spent'[p] <= p.dsl.cap
  BY <1>1, <1>2, <1>3 DEF SteerInv
<1>5. remaining' \in Int
  BY <1>1, <1>2
<1>6. window'.shape \in Shapes /\ window'.attempts \in Int
  BY <1>1, <1>5 DEF SteerInv, SteerTyped
<1>7. Derived'
  BY <1>1, DerivedKeeps DEF SteerInv
<1> QED BY <1>1, <1>4, <1>5, <1>6, <1>7 DEF SteerInv, SteerTyped

\* The inductive invariant of the evolver and the scheduler.
LEMMA SteerInvHolds == DiscoverySpec => [](SteerInv /\ remaining \in Int)
<1>1. Steering!Init => SteerInv /\ remaining \in Int
  BY SteerStarts, DiscoveryAssumption DEF Steering!Init
<1>2. SteerInv /\ remaining \in Int /\ [Steering!Next]_(Steering!vars) => (SteerInv /\ remaining \in Int)'
  <2> SUFFICES ASSUME SteerInv, remaining \in Int, [Steering!Next]_(Steering!vars)
               PROVE SteerInv' /\ remaining' \in Int
    OBVIOUS
  <2>1. ASSUME NEW shape \in Shapes, NEW id, Steering!Describe(shape, id) PROVE SteerInv' /\ remaining' \in Int
    BY <2>1, DescribeKeeps DEF Steering!Describe
  <2>2. ASSUME NEW dsl \in Dsls, Steering!Propose(dsl) PROVE SteerInv' /\ remaining' \in Int
    BY <2>2, ProposeKeeps DEF Steering!Propose
  <2>3. ASSUME NEW c \in proposed, Steering!Activate(c) \/ Steering!Reject(c) PROVE SteerInv' /\ remaining' \in Int
    BY <2>3, ActivateKeeps, RejectKeeps DEF Steering!Activate, Steering!Reject
  <2>4. ASSUME NEW p \in known, Steering!Rollback(p) PROVE SteerInv' /\ remaining' \in Int
    BY <2>4, RollbackKeeps DEF Steering!Rollback
  <2>5. CASE Steering!Schedule
    BY <2>5, ScheduleKeeps
  <2>6. CASE UNCHANGED Steering!vars
    <3>1. UNCHANGED <<number, current, known, proposed, history, window, spent, remaining>>
      BY <2>6 DEF Steering!vars, Steering!evolver
    <3>2. Derived'
      BY <3>1, DerivedKeeps DEF SteerInv
    <3> QED BY <3>1, <3>2 DEF SteerInv, SteerTyped
  <2> QED BY <2>1, <2>2, <2>3, <2>4, <2>5, <2>6 DEF Steering!Next
<1> QED BY <1>1, <1>2, PartsStart, PartsMove, PTL DEF DiscoverySpec

\* Whatever policies are proposed, activated and rolled back over whatever
\* populations, and whatever heart beats in between.
THEOREM SteeringIsSoundHolds == DiscoverySpec => []SteeringIsSound
<1>1. SteerInv => Steering!HistoryReplays /\ Steering!BatchIsWhole
  BY DerivedReplays, BatchWhole DEF SteerInv
<1>2. SteerInv => Steering!PolicyCapHolds
  BY DEF SteerInv, SteerTyped, Steering!PolicyCapHolds
<1>3. SteerInv /\ PulseInv => SteeringIsSound
  BY <1>1, <1>2 DEF SteeringIsSound, PulseInv
<1> QED BY <1>3, SteerInvHolds, PulseInvHolds, PTL

(***************************************************************************)
(* The workspaces: receipts and what they account for.                     *)
(***************************************************************************)

\* Before any receipt.
Nobody == [l \in Lineages |-> None]

\* Every head is a commit there is, or the baseline.
Rooted(g, s) == \A l \in Lineages : s[l] # None => s[l].head \in 0 .. Len(g)

\* The receipt r leads from the lineages s to the lineages t, with the commits
\* g: in the manager that returned it, whatever recover() makes of it.
Step(g, s, r, t) ==
    /\ r.lineage \in Lineages /\ t \in Standings /\ Rooted(g, t)
    /\ \/ /\ r.type = "created" /\ s[r.lineage] = None
          /\ r.parent # None =>
                /\ s[r.parent] # None /\ ~s[r.parent].quarantined
                /\ s[r.parent].head = r.commit /\ (s[r.parent].bounded => r.bounded)
          /\ r.tree = r.commit
          /\ t = [s EXCEPT ![r.lineage] = Workspaces!NewLineage(r.parent, r.commit, r.bounded)]
       \/ /\ r.type = "committed" /\ s[r.lineage] # None /\ ~s[r.lineage].quarantined
          /\ r.parent = s[r.lineage].parent /\ r.bounded = s[r.lineage].bounded
          /\ r.via \in 1 .. Len(g) /\ g[r.via] = s[r.lineage].head
          /\ t = [s EXCEPT ![r.lineage].head = r.commit]
       \/ /\ r.type = "quarantined" /\ s[r.lineage] # None /\ ~s[r.lineage].quarantined
          /\ t = [s EXCEPT ![r.lineage].quarantined = TRUE]

\* The receipts of a log account for the lineages s.
Account(g, run, log, s) ==
    /\ run[0] = Nobody /\ run[Len(log)] = s /\ s \in Standings /\ Rooted(g, s)
    /\ \A i \in 1 .. Len(log) : Step(g, run[i - 1], log[i], run[i])

\* _apply_receipt does what the receipt says; only one that straddles a commit
\* of the worker may be refused.
LEMMA StepApplies ==
    ASSUME NEW s \in Standings, NEW r, NEW t, Step(git, s, r, t)
    PROVE  /\ Workspaces!Applied(s, r) \in {t, None}
           /\ ~Workspaces!Straddles(r) => Workspaces!Applied(s, r) = t
<1>1. s # None
  BY DiscoveryAssumption
<1>2. CASE r.type = "created"
  <2>1. Workspaces!CreatedFits(s, r) /\ t = [s EXCEPT ![r.lineage] = Workspaces!NewLineage(r.parent, r.commit, r.bounded)]
    BY <1>2 DEF Step, Workspaces!CreatedFits
  <2> QED BY <1>1, <1>2, <2>1 DEF Workspaces!Applied
<1>3. CASE r.type = "committed"
  <2>1. t = [s EXCEPT ![r.lineage].head = r.commit]
    BY <1>3 DEF Step
  <2>2. ~Workspaces!Straddles(r) => Workspaces!CommitFits(s, r)
    BY <1>3 DEF Step, Workspaces!CommitFits, Workspaces!Straddles
  <2> QED BY <1>1, <1>3, <2>1, <2>2 DEF Workspaces!Applied
<1>4. CASE r.type = "quarantined"
  <2>1. t = [s EXCEPT ![r.lineage].quarantined = TRUE]
    BY <1>4 DEF Step
  <2> QED BY <1>1, <1>4, <2>1 DEF Workspaces!Applied
<1> QED BY <1>2, <1>3, <1>4 DEF Step

\* What was refused stays refused.
LEMMA RefusedStays == \A r : Workspaces!Applied(None, r) = None
BY DEF Workspaces!Applied

\* Receipts are applied one by one.
Applies == INSTANCE Folding WITH Op <- Workspaces!Applied

\* The replay is a fold, of which the facts of Folding hold.
LEMMA ReplayIsFolded == \A log : Workspaces!Replay(log) = Applies!Fold(Nobody, log)
BY DEF Workspaces!Replay, Workspaces!FoldLeft, Applies!FoldLeft, Workspaces!MapThenFoldSet, Applies!MapThenFoldSet,
       Workspaces!Max, Applies!Max, Applies!Fold, Nobody

\* No lineage is known.
LEMMA NobodyIsState == Nobody \in Standings
BY DEF Nobody, Standings

\* A log holds a receipt that straddles a commit of the worker.
Straddled(log) == \E i \in 1 .. Len(log) : Workspaces!Straddles(log[i])

\* The replay of receipts gives what they account for; it is refused only if
\* one of them straddles a commit of the worker.
LEMMA AccountReplays ==
    ASSUME NEW T, NEW log \in Seq(T), NEW run, NEW s, Account(git, run, log, s)
    PROVE  /\ s \in Standings
           /\ Workspaces!Replay(log) = s \/ (Workspaces!Replay(log) = None /\ Straddled(log))
<1> DEFINE Before(i) == \E k \in 1 .. i : Workspaces!Straddles(log[k])
           W == [i \in 0 .. Len(log) |-> {v \in Standings \cup {None} : v = run[i] \/ (v = None /\ Before(i))}]
<1>1. Len(log) \in Nat /\ Nobody \in W[0] /\ \A k \in 1 .. Len(log) : Step(git, run[k - 1], log[k], run[k])
  BY NobodyIsState DEF Account
<1>2. ASSUME NEW i \in 1 .. Len(log), NEW v \in W[i - 1] PROVE Workspaces!Applied(v, log[i]) \in W[i]
  <2>a. Step(git, run[i - 1], log[i], run[i])
    BY <1>1
  <2>b. i \in 0 .. Len(log) /\ i - 1 \in 0 .. Len(log)
    BY <1>1
  <2>1. Step(git, run[i - 1], log[i], run[i]) /\ i \in 0 .. Len(log) /\ i - 1 \in 0 .. Len(log) /\ run[i] \in Standings
    BY <2>a, <2>b DEF Step
  <2>2. W[i] = {u \in Standings \cup {None} : u = run[i] \/ (u = None /\ Before(i))}
    BY <2>1
  <2>3. v \in Standings \cup {None} /\ (v = run[i - 1] \/ (v = None /\ Before(i - 1)))
    BY <2>1
  <2>4. Before(i - 1) => Before(i)
    BY <1>1
  <2>5. Workspaces!Straddles(log[i]) => Before(i)
    BY <1>1
  <2> HIDE DEF W, Before
  <2>6. CASE v = None /\ Before(i - 1)
    BY <2>1, <2>2, <2>4, <2>6, RefusedStays
  <2>7. CASE v = run[i - 1] /\ v \in Standings
    <3>1. /\ Workspaces!Applied(v, log[i]) \in {run[i], None}
          /\ ~Workspaces!Straddles(log[i]) => Workspaces!Applied(v, log[i]) = run[i]
      BY <2>1, <2>7, StepApplies
    <3> QED BY <2>1, <2>2, <2>5, <3>1
  <2>8. CASE v = run[i - 1] /\ v = None
    <3>1. i - 1 = 0 \/ i - 1 \in 1 .. Len(log)
      BY <1>1
    <3>2. run[i - 1] \in Standings
      BY <1>1, <3>1, NobodyIsState DEF Account, Step
    <3> QED BY <2>8, <3>2, DiscoveryAssumption
  <2> QED BY <2>3, <2>6, <2>7, <2>8
<1>3. Applies!Fold(Nobody, log) \in W[Len(log)]
  <2> HIDE DEF W
  <2> QED BY <1>1, <1>2, Applies!FoldKeeps
<1>4. Len(log) \in 0 .. Len(log) /\ run[Len(log)] = s /\ s \in Standings
  BY <1>1 DEF Account
<1> QED BY <1>3, <1>4, ReplayIsFolded DEF Straddled

\* A commit more, or an edit, changes nothing of it.
LEMMA AccountStays ==
    ASSUME NEW g \in Seq(Nat), NEW x \in Nat, NEW run, NEW log, NEW s, Account(g, run, log, s)
    PROVE  Account(Append(g, x), run, log, s)
<1>1. \A i \in 1 .. Len(g) : Append(g, x)[i] = g[i]
  OBVIOUS
<1>2. Len(Append(g, x)) = Len(g) + 1 /\ Len(g) \in Nat
  OBVIOUS
<1>3. \A u, r, t : Step(g, u, r, t) => Step(Append(g, x), u, r, t)
  <2>1. \A u : Rooted(g, u) => Rooted(Append(g, x), u)
    BY <1>2 DEF Rooted
  <2> QED BY <1>1, <1>2, <2>1 DEF Step
<1>4. Rooted(Append(g, x), s)
  BY <1>2 DEF Rooted, Account
<1> QED BY <1>3, <1>4 DEF Account

\* One receipt more.
LEMMA AccountMore ==
    ASSUME NEW g, NEW T, NEW log \in Seq(T), NEW r \in T, NEW run, NEW s, NEW t, Account(g, run, log, s), Step(g, s, r, t)
    PROVE  \E f : Account(g, f, Append(log, r), t)
<1> DEFINE f == [i \in 0 .. Len(log) + 1 |-> IF i = Len(log) + 1 THEN t ELSE run[i]]
           more == Append(log, r)
<1>1. /\ Len(log) \in Nat /\ Len(more) = Len(log) + 1
      /\ more[Len(log) + 1] = r /\ \A i \in 1 .. Len(log) : more[i] = log[i]
  OBVIOUS
<1>2. /\ \A i \in 0 .. Len(log) : f[i] = run[i]
      /\ f[Len(log) + 1] = t /\ run[Len(log)] = s
  BY <1>1 DEF Account
<1> HIDE DEF f, more
<1>3. ASSUME NEW i \in 1 .. Len(more) PROVE Step(g, f[i - 1], more[i], f[i])
  <2>1. CASE i = Len(log) + 1
    <3>1. f[i - 1] = s /\ more[i] = r /\ f[i] = t
      BY <1>1, <1>2, <2>1
    <3> QED BY <3>1
  <2>2. CASE i \in 1 .. Len(log)
    <3>1. f[i - 1] = run[i - 1] /\ more[i] = log[i] /\ f[i] = run[i]
      BY <1>1, <1>2, <2>2
    <3> QED BY <3>1, <2>2 DEF Account
  <2> QED BY <1>1, <2>1, <2>2
<1>4. f[0] = Nobody /\ f[Len(more)] = t /\ t \in Standings /\ Rooted(g, t)
  BY <1>1, <1>2 DEF Account, Step
<1> QED BY <1>3, <1>4 DEF Account, more

\* A quarantine is for good.
LEMMA QuarantineStays ==
    ASSUME NEW g, NEW T, NEW log \in Seq(T), NEW run, NEW s, Account(g, run, log, s),
           NEW i \in 1 .. Len(log), NEW j \in i .. Len(log), log[i].type = "quarantined"
    PROVE  LET l == log[i].lineage IN run[j][l] # None /\ run[j][l].quarantined
<1> DEFINE l == log[i].lineage
           Held(k) == run[k] \in Standings /\ run[k][l] # None /\ run[k][l].quarantined
           G == {k \in 0 .. Len(log) : k < i \/ Held(k)}
<1>0. \A k \in 1 .. Len(log) : Step(g, run[k - 1], log[k], run[k])
  BY DEF Account
<1>1. /\ \A k \in 1 .. Len(log) : Step(g, run[k - 1], log[k], run[k])
      /\ \A k \in 1 .. Len(log) : run[k] \in Standings
      /\ run[0] \in Standings /\ Len(log) \in Nat
  <2>1. run[0] \in Standings /\ Len(log) \in Nat
    BY NobodyIsState DEF Account
  <2>2. \A k \in 1 .. Len(log) : run[k] \in Standings
    BY <1>0 DEF Step
  <2> QED BY <1>0, <2>1, <2>2
<1>2. l \in Lineages
  BY <1>1 DEF Step
<1>3. \A k \in 0 .. Len(log) : run[k] \in Standings /\ DOMAIN run[k] = Lineages /\ run[k][l] \in Entries \cup {None}
  BY <1>1, <1>2 DEF Standings
<1>4. Held(i)
  <2>1. run[i - 1][l] # None /\ run[i] = [run[i - 1] EXCEPT ![l].quarantined = TRUE]
    BY <1>1 DEF Step
  <2>2. run[i - 1] \in Standings /\ run[i - 1][l] \in Entries
    BY <1>3, <2>1
  <2>3. run[i][l] = [run[i - 1][l] EXCEPT !.quarantined = TRUE]
    BY <2>1, <2>2, <1>2 DEF Standings
  <2>4. run[i][l].quarantined /\ run[i][l] \in Entries
    BY <2>2, <2>3 DEF Entries
  <2> QED BY <2>4, <1>3, DiscoveryAssumption
<1>5. ASSUME NEW k \in 1 .. Len(log), k - 1 \in G PROVE k \in G
  <2>1. CASE k < i
    BY <2>1
  <2>2. CASE k = i
    BY <2>2, <1>4
  <2>3. CASE k > i
    <3>1. Held(k - 1) /\ Step(g, run[k - 1], log[k], run[k])
      BY <1>1, <1>5, <2>3
    <3>2. log[k].lineage # l
      BY <3>1 DEF Step
    <3>3. run[k][l] = run[k - 1][l]
      BY <3>1, <3>2, <1>2, <1>3 DEF Step
    <3> QED BY <3>1, <3>3, <1>3
  <2> QED BY <2>1, <2>2, <2>3
<1>6. j \in G
  <2> HIDE DEF G
  <2>1. j \in Nat /\ \A k \in 1 .. j : k - 1 \in G => k \in G
    BY <1>1, <1>5
  <2>2. 0 \in G
    BY <1>1 DEF G
  <2> QED BY <2>1, <2>2, Applies!Climb
<1> QED BY <1>6

\* Nothing grows from a lineage after its quarantine.
LEMMA AccountHolds ==
    ASSUME NEW g, NEW T, NEW log \in Seq(T), NEW run, NEW s, Account(g, run, log, s),
           NEW i \in 1 .. Len(log), NEW j \in 1 .. Len(log), i < j, log[i].type = "quarantined"
    PROVE  log[j].lineage # log[i].lineage /\ (log[j].type = "created" => log[j].parent # log[i].lineage)
<1> DEFINE l == log[i].lineage
<1>1. Len(log) \in Nat /\ j - 1 \in i .. Len(log)
  OBVIOUS
<1>2. run[j - 1][l] # None /\ run[j - 1][l].quarantined
  BY <1>1, QuarantineStays
<1>3. Step(g, run[j - 1], log[j], run[j]) /\ Step(g, run[i - 1], log[i], run[i])
  BY DEF Account
<1>4. l \in Lineages /\ None \notin Lineages
  BY <1>3, DiscoveryAssumption DEF Step
<1>5. log[j].lineage # l
  BY <1>2, <1>3 DEF Step
<1>6. log[j].type = "created" => log[j].parent # l
  BY <1>2, <1>3, <1>4 DEF Step
<1> QED BY <1>5, <1>6

\* What a part of the receipts accounts for.
LEMMA AccountShorter ==
    ASSUME NEW g, NEW T, NEW log \in Seq(T), NEW more \in Seq(T), NEW run, NEW s, Account(g, run, log \o more, s)
    PROVE  \E u : Account(g, run, log, u)
<1> DEFINE n == Len(log)
<1>1. /\ n \in Nat /\ Len(more) \in Nat /\ Len(log \o more) = n + Len(more)
      /\ \A i \in 1 .. n : (log \o more)[i] = log[i]
  OBVIOUS
<1>2. \A i \in 1 .. n : Step(g, run[i - 1], log[i], run[i])
  BY <1>1 DEF Account
<1>3. run[0] = Nobody
  BY DEF Account
<1>4. run[n] \in Standings /\ Rooted(g, run[n])
  <2>1. CASE n = 0
    BY <2>1, <1>3, NobodyIsState DEF Nobody, Rooted
  <2>2. CASE n # 0
    <3>1. n \in 1 .. n
      BY <2>2, <1>1
    <3>2. Step(g, run[n - 1], log[n], run[n])
      BY <3>1, <1>2
    <3> QED BY <3>2 DEF Step
  <2> QED BY <2>1, <2>2
<1>5. Account(g, run, log, run[n])
  BY <1>2, <1>3, <1>4 DEF Account
<1> QED BY <1>5

\* The lineages s with those of W quarantined.
Flagged(s, W) == [l \in Lineages |-> IF l \in W THEN [s[l] EXCEPT !.quarantined = TRUE] ELSE s[l]]

\* A quarantine changes no head.
LEMMA FlaggedIs ==
    ASSUME NEW g, NEW s \in Standings, Rooted(g, s), NEW W \in SUBSET Lineages, \A l \in W : s[l] # None
    PROVE  Flagged(s, W) \in Standings /\ Rooted(g, Flagged(s, W))
<1>1. \A l \in W : s[l] \in Entries
  BY DEF Standings
<1>2. \A l \in W : [s[l] EXCEPT !.quarantined = TRUE] \in Entries /\ [s[l] EXCEPT !.quarantined = TRUE].head = s[l].head
  BY <1>1 DEF Entries
<1>3. Flagged(s, W) \in Standings
  BY <1>2 DEF Flagged, Standings
<1>4. ASSUME NEW l \in Lineages, Flagged(s, W)[l] # None PROVE Flagged(s, W)[l].head \in 0 .. Len(g)
  <2>1. CASE l \in W
    <3>1. Flagged(s, W)[l].head = s[l].head
      BY <2>1, <1>2 DEF Flagged
    <3> QED BY <3>1, <2>1 DEF Rooted
  <2>2. CASE l \notin W
    <3>1. Flagged(s, W)[l] = s[l]
      BY <2>2 DEF Flagged
    <3> QED BY <3>1, <1>4 DEF Rooted
  <2> QED BY <2>1, <2>2
<1> QED BY <1>3, <1>4 DEF Rooted

\* A quarantine receipt leads to one lineage more in quarantine.
LEMMA FlagOne ==
    ASSUME NEW g, NEW s \in Standings, Rooted(g, s), NEW W \in SUBSET Lineages, NEW x \in Lineages \ W,
           \A l \in W \cup {x} : s[l] # None /\ ~s[l].quarantined,
           NEW r, r.type = "quarantined", r.lineage = x
    PROVE  Step(g, Flagged(s, W), r, Flagged(s, W \cup {x}))
<1> DEFINE a == Flagged(s, W)
           b == Flagged(s, W \cup {x})
<1>1. a \in Standings /\ b \in Standings /\ Rooted(g, b)
  BY FlaggedIs
<1>2. a[x] = s[x]
  BY DEF Flagged
<1>3. b = [a EXCEPT ![x].quarantined = TRUE]
  <2> DEFINE c == [a EXCEPT ![x] = [s[x] EXCEPT !.quarantined = TRUE]]
  <2>1. [a EXCEPT ![x].quarantined = TRUE] = c
    BY <1>2
  <2>2. DOMAIN a = Lineages /\ DOMAIN b = Lineages /\ a = [l \in Lineages |-> a[l]] /\ b = [l \in Lineages |-> b[l]]
    BY DEF Flagged
  <2>3. \A l \in Lineages \ {x} : b[l] = a[l]
    BY DEF Flagged
  <2>4. b[x] = [s[x] EXCEPT !.quarantined = TRUE]
    BY DEF Flagged
  <2> HIDE DEF a, b
  <2>5. b = c
    BY <2>2, <2>3, <2>4
  <2> QED BY <2>1, <2>5
<1> HIDE DEF a, b
<1>4. Step(g, a, r, b)
  BY <1>1, <1>2, <1>3 DEF Step
<1> QED BY <1>4 DEF a, b

\* The first names of an enumeration.
First(names, i) == {names[k] : k \in 1 .. i}

\* A quarantine receipt for each of the lineages found.
LEMMA AccountFlags ==
    ASSUME NEW g, NEW T, NEW log \in Seq(T), NEW run, NEW s, Account(g, run, log, s),
           NEW names \in Seq(Lineages), \A i, j \in DOMAIN names : names[i] = names[j] => i = j,
           \A i \in DOMAIN names : s[names[i]] # None /\ ~s[names[i]].quarantined,
           NEW more \in Seq(T), Len(more) = Len(names),
           \A i \in DOMAIN names : more[i].type = "quarantined" /\ more[i].lineage = names[i]
    PROVE  \E f : Account(g, f, log \o more, Flagged(s, First(names, Len(names))))
<1> DEFINE n == Len(log)
           m == Len(names)
           all == log \o more
           f == [k \in 0 .. n + m |-> IF k <= n THEN run[k] ELSE Flagged(s, First(names, k - n))]
<1>1. /\ n \in Nat /\ m \in Nat /\ DOMAIN names = 1 .. m /\ Len(all) = n + m
      /\ \A i \in 1 .. n : all[i] = log[i]
      /\ \A i \in 1 .. m : all[n + i] = more[i]
  <2>1. n \in Nat /\ m \in Nat /\ DOMAIN names = 1 .. m /\ Len(all) = n + m
    <3>1. n \in Nat /\ m \in Nat
      OBVIOUS
    <3>2. DOMAIN names = 1 .. m
      OBVIOUS
    <3>3. Len(all) = n + m
      OBVIOUS
    <3> QED BY <3>1, <3>2, <3>3
  <2>2. \A i \in 1 .. n : all[i] = log[i]
    OBVIOUS
  <2>3. \A i \in 1 .. m : all[n + i] = more[i]
    OBVIOUS
  <2> QED BY <2>1, <2>2, <2>3
<1>2. s \in Standings /\ Rooted(g, s) /\ run[n] = s /\ run[0] = Nobody
  BY DEF Account
<1>3. /\ First(names, 0) = {}
      /\ \A i \in 1 .. m : First(names, i) = First(names, i - 1) \cup {names[i]} /\ names[i] \in Lineages \ First(names, i - 1)
      /\ \A i \in 0 .. m : First(names, i) \in SUBSET Lineages /\ \A l \in First(names, i) : s[l] # None /\ ~s[l].quarantined
  <2>1. First(names, 0) = {}
    BY DEF First
  <2>2. ASSUME NEW i \in 1 .. m
        PROVE  First(names, i) = First(names, i - 1) \cup {names[i]} /\ names[i] \in Lineages \ First(names, i - 1)
    <3>1. /\ i - 1 \in Nat /\ 1 .. i = (1 .. (i - 1)) \cup {i} /\ i \notin 1 .. (i - 1)
          /\ i \in DOMAIN names /\ 1 .. (i - 1) \subseteq DOMAIN names
      BY <1>1
    <3>2. First(names, i) = First(names, i - 1) \cup {names[i]}
      BY <3>1 DEF First
    <3>3. names[i] \notin First(names, i - 1)
      <4>1. ASSUME NEW k \in 1 .. (i - 1), names[k] = names[i] PROVE FALSE
        <5>1. k \in DOMAIN names /\ k = i
          BY <4>1, <3>1
        <5> QED BY <5>1, <3>1
      <4> QED BY <4>1 DEF First
    <3>4. names[i] \in Lineages
      BY <3>1
    <3> QED BY <3>2, <3>3, <3>4
  <2>3. ASSUME NEW i \in 0 .. m
        PROVE  First(names, i) \in SUBSET Lineages /\ \A l \in First(names, i) : s[l] # None /\ ~s[l].quarantined
    <3>1. 1 .. i \subseteq DOMAIN names
      BY <1>1
    <3> QED BY <3>1 DEF First
  <2> QED BY <2>1, <2>2, <2>3
<1>4. Flagged(s, {}) = s
  BY <1>2 DEF Flagged, Standings
<1> HIDE DEF n, m, all
<1>5. /\ \A k \in 0 .. n : f[k] = run[k]
      /\ \A k \in n .. n + m : f[k] = Flagged(s, First(names, k - n))
  <2>1. \A k \in 0 .. n : f[k] = run[k]
    BY <1>1
  <2>2. \A k \in 0 .. n + m : f[k] = IF k <= n THEN run[k] ELSE Flagged(s, First(names, k - n))
    BY Zenon
  <2> HIDE DEF f
  <2>3. ASSUME NEW k \in n .. n + m PROVE f[k] = Flagged(s, First(names, k - n))
    <3>1. CASE k = n
      <4>1. k - n = 0 /\ k \in 0 .. n
        BY <3>1, <1>1
      <4> QED BY <4>1, <3>1, <2>1, <1>2, <1>3, <1>4
    <3>2. CASE k # n
      <4>1. k \in 0 .. n + m /\ ~(k <= n)
        BY <3>2, <1>1
      <4> QED BY <4>1, <2>2, Zenon
    <3> QED BY <3>1, <3>2
  <2> QED BY <2>1, <2>3
<1> HIDE DEF f
<1>6. ASSUME NEW k \in 1 .. n + m PROVE Step(g, f[k - 1], all[k], f[k])
  <2>1. CASE k \in 1 .. n
    <3>1. f[k - 1] = run[k - 1] /\ f[k] = run[k] /\ all[k] = log[k]
      BY <2>1, <1>1, <1>5
    <3> QED BY <3>1, <2>1 DEF Account, n
  <2>2. CASE k \notin 1 .. n
    <3> DEFINE i == k - n
    <3>1. i \in 1 .. m /\ k = n + i /\ k - 1 \in n .. n + m /\ k \in n .. n + m /\ k - 1 - n = i - 1
      BY <2>2, <1>1
    <3>2. f[k] = Flagged(s, First(names, i))
      BY <3>1, <1>5
    <3>3a. f[k - 1] = Flagged(s, First(names, k - 1 - n))
      BY <3>1, <1>5
    <3> HIDE DEF i
    <3>3b. f[k - 1] = Flagged(s, First(names, i - 1)) /\ all[k] = more[i]
      BY <3>1, <3>3a, <1>1
    <3>3. more[i].type = "quarantined" /\ more[i].lineage = names[i]
      BY <3>1, <1>1
    <3>4. /\ names[i] \in Lineages \ First(names, i - 1) /\ First(names, i - 1) \in SUBSET Lineages
          /\ First(names, i) = First(names, i - 1) \cup {names[i]}
          /\ \A l \in First(names, i - 1) \cup {names[i]} : s[l] # None /\ ~s[l].quarantined
      <4>1. i - 1 \in 0 .. m /\ i \in 1 .. m /\ i \in 0 .. m
        BY <3>1, <1>1
      <4>2. names[i] \in Lineages \ First(names, i - 1) /\ First(names, i) = First(names, i - 1) \cup {names[i]}
        BY <4>1, <1>3
      <4>3. First(names, i - 1) \in SUBSET Lineages
        BY <4>1, <1>3
      <4>4. \A l \in First(names, i) : s[l] # None /\ ~s[l].quarantined
        BY <4>1, <1>3
      <4> QED BY <4>2, <4>3, <4>4
    <3>5. Step(g, Flagged(s, First(names, i - 1)), more[i], Flagged(s, First(names, i - 1) \cup {names[i]}))
      BY <3>3, <3>4, <1>2, FlagOne
    <3> QED BY <3>2, <3>3b, <3>4, <3>5
  <2> QED BY <2>1, <2>2
<1>7. f[0] = Nobody /\ f[n + m] = Flagged(s, First(names, m)) /\ m \in 0 .. m
  <2>1. 0 \in 0 .. n /\ n + m \in n .. n + m /\ n + m - n = m /\ m \in 0 .. m
    BY <1>1
  <2>2. ASSUME NEW k \in n .. n + m, k - n = m PROVE f[k] = Flagged(s, First(names, m))
    <3>1. f[k] = Flagged(s, First(names, k - n))
      BY <1>5
    <3> QED BY <3>1, <2>2
  <2>3. \A k \in n .. n + m : k - n = m => f[k] = Flagged(s, First(names, m))
    BY <2>2
  <2>4. f[n + m] = Flagged(s, First(names, m))
    BY <1>1, <2>1, <2>3
  <2>5. f[0] = run[0]
    BY <2>1, <1>5
  <2> QED BY <2>1, <2>4, <2>5, <1>2
<1>8. Flagged(s, First(names, m)) \in Standings /\ Rooted(g, Flagged(s, First(names, m)))
  BY <1>2, <1>3, <1>7, FlaggedIs
<1>9. Account(g, f, all, Flagged(s, First(names, m)))
  BY <1>1, <1>6, <1>7, <1>8 DEF Account
<1> QED BY <1>9 DEF all, m

\* The enumeration of a finite set names each of its members once.
LEMMA Listed ==
    ASSUME NEW S, IsFiniteSet(S)
    PROVE  LET names == Workspaces!SetToSeq(S) IN
           names \in Seq(S) /\ Len(names) = Cardinality(S) /\ First(names, Len(names)) = S
           /\ \A i, j \in DOMAIN names : names[i] = names[j] => i = j
<1> DEFINE n == Cardinality(S)
           names == Workspaces!SetToSeq(S)
<1>1. n \in Nat /\ ExistsBijection(1 .. n, S)
  BY FS_CardinalityType
<1>2. \E f \in [1 .. n -> S] : \A i, j \in DOMAIN f : f[i] = f[j] => i = j
  BY <1>1 DEF ExistsBijection, Bijection, Injection, IsInjective
<1>3. names \in [1 .. n -> S] /\ \A i, j \in DOMAIN names : names[i] = names[j] => i = j
  <2>1. Workspaces!Cardinality(S) = n
    BY DEF Workspaces!Cardinality, Cardinality
  <2> HIDE DEF n
  <2> QED BY <1>2, <2>1 DEF Workspaces!SetToSeq, Workspaces!IsInjective
<1> HIDE DEF names
<1>4. names \in Injection(1 .. n, S)
  BY <1>3 DEF Injection, IsInjective
<1>5. Cardinality(1 .. n) = n
  BY <1>1, FS_Interval
<1> HIDE DEF n
<1>6. names \in Surjection(1 .. n, S)
  BY <1>1, <1>4, <1>5, FS_Injection DEF n
<1>7. names \in Seq(S) /\ DOMAIN names = 1 .. n /\ Len(names) = n
  BY <1>1, <1>3
<1>8. First(names, n) = S
  BY <1>3, <1>6, <1>7 DEF Surjection, First
<1> QED BY <1>3, <1>7, <1>8 DEF n, names

\* What a receipt says.
Receipts == [seq : Int, type : {"created", "committed", "quarantined"}, lineage : Lineages,
             parent : Lineages \cup {None}, bounded : BOOLEAN, commit : Nat, via : Nat, tree : Nat]

\* What an operation has checked still holds of the lineages when it goes on.
Creations == [kind : {"create"}, lineage : Lineages, parent : Lineages \cup {None}, bounded : BOOLEAN,
              seq : Nat, base : 0 .. Len(git)]
\* A commit, before git and between the reads behind it.
Commits == [kind : {"commit", "status", "head", "parent", "tree"}, lineage : Lineages,
            commit : 0 .. Len(git), via : 0 .. Len(git)]

\* The operation under way, and what it found: nothing else changes the lineages.
DoingFits ==
    doing # None =>
        /\ manager = "up" /\ returned = <<>> /\ doing \in Creations \cup Commits
        /\ doing.kind = "create" =>
              /\ records[doing.lineage] = None
              /\ doing.parent # None =>
                    /\ records[doing.parent] # None /\ ~records[doing.parent].quarantined
                    /\ records[doing.parent].head = doing.base /\ (records[doing.parent].bounded => doing.bounded)
        /\ doing.kind # "create" => records[doing.lineage] # None /\ ~records[doing.lineage].quarantined
        /\ doing.kind = "tree" => doing.via # 0 /\ git[doing.via] = records[doing.lineage].head

\* A worktree there is has a commit checked out, and its branch one.
TreesRooted == \A l \in Lineages : tree[l] # Workspaces!NoTree => tree[l].at \in 0 .. Len(git) /\ branch[l] \in 0 .. Len(git)

\* A worktree, or what stands for none.
Trees == [at : Nat \cup {None}, dirt : SUBSET {"inside", "outside"}, attached : BOOLEAN]

\* The variables hold what they should; a manager that is down knows nothing,
\* and a poisoned one refused receipts that straddle a commit.
WorkTyped ==
    /\ git \in Seq(Nat) /\ sequence \in Nat /\ receipts \in Seq(Receipts) /\ returned \in Seq(Receipts)
    /\ manager \in {"up", "down", "poisoned"}
    /\ tree \in [Lineages -> Trees] /\ DOMAIN branch = Lineages
    /\ records \in Standings
    /\ manager # "up" => doing = None /\ returned = <<>>
    /\ manager = "poisoned" => Straddled(receipts)

\* The durable receipts and those not yet persisted account for what the manager knows.
Accounted == \E run, s : Account(git, run, receipts \o returned, s) /\ (manager = "up" => s = records)

\* The inductive invariant of the workspaces.
WorkInv == WorkTyped /\ TreesRooted /\ DoingFits /\ Accounted

\* No commits, no lineages, no receipts.
LEMMA WorkInvStarts == Workspaces!Init => WorkInv
<1> SUFFICES ASSUME Workspaces!Init PROVE WorkInv
  OBVIOUS
<1> USE DEF Workspaces!Init
<1>1. <<>> \in Seq(Nat) /\ <<>> \in Seq(Receipts) /\ records = Nobody
  BY DEF Nobody
<1>2. WorkTyped
  <2>1. Workspaces!NoTree \in Trees
    BY DEF Workspaces!NoTree, Trees
  <2> QED BY <1>1, <2>1, NobodyIsState DEF WorkTyped
<1>3. TreesRooted /\ DoingFits
  BY DEF TreesRooted, DoingFits
<1>4. Accounted
  <2> DEFINE run == [i \in {0} |-> Nobody]
  <2>1. receipts \o returned = <<>> /\ Len(<<>>) = 0
    OBVIOUS
  <2>2. Account(git, run, <<>>, Nobody)
    BY <2>1, NobodyIsState DEF Account, Rooted, Nobody
  <2> QED BY <1>1, <2>1, <2>2 DEF Accounted
<1> QED BY <1>2, <1>3, <1>4 DEF WorkInv

\* What holds of a commit checked out in a worktree.
LEMMA HeadIsRooted ==
    ASSUME TreesRooted, NEW l \in Lineages, tree[l] # Workspaces!NoTree
    PROVE  Workspaces!HeadOf(l) \in 0 .. Len(git)
BY DEF TreesRooted, Workspaces!HeadOf

\* Nothing of the manager changes when the worktrees do.
LEMMA OthersKeep ==
    ASSUME WorkInv, Workspaces!Others, UNCHANGED git, tree' \in [Lineages -> Trees], DOMAIN branch' = Lineages, TreesRooted'
    PROVE  WorkInv'
<1> USE DEF Workspaces!Others
<1>1. WorkTyped'
  BY DEF WorkInv, WorkTyped
<1>2. DoingFits'
  BY DEF WorkInv, DoingFits, Creations, Commits
<1>3. Accounted'
  BY DEF WorkInv, Accounted
<1> QED BY <1>1, <1>2, <1>3 DEF WorkInv

\* Whatever is done to a worktree.
LEMMA EditKeeps ==
    ASSUME WorkInv, NEW l \in Lineages, NEW where \in {"inside", "outside"},
           Workspaces!Edit(l, where) \/ Workspaces!CleanUp(l) \/ Workspaces!Detach(l) \/ Workspaces!TakeAway(l)
    PROVE  WorkInv'
<1>1. Workspaces!Others /\ UNCHANGED git /\ UNCHANGED branch
  BY DEF Workspaces!Edit, Workspaces!CleanUp, Workspaces!Detach, Workspaces!TakeAway
<1>2. /\ tree' \in [Lineages -> Trees] /\ \A k \in Lineages \ {l} : tree'[k] = tree[k]
      /\ tree[l] # Workspaces!NoTree
      /\ tree'[l] = Workspaces!NoTree \/ tree'[l].at = tree[l].at \/ tree'[l].at = branch[l]
  <2> DEFINE here == tree[l]
  <2>0. tree \in [Lineages -> Trees] /\ here \in Trees
    BY DEF WorkInv, WorkTyped
  <2>1. tree[l] # Workspaces!NoTree
    BY DEF Workspaces!Edit, Workspaces!CleanUp, Workspaces!Detach, Workspaces!TakeAway
  <2>2. CASE Workspaces!Edit(l, where)
    <3>1. tree' = [tree EXCEPT ![l] = [here EXCEPT !.dirt = {where}]]
      BY <2>2 DEF Workspaces!Edit
    <3>2. [here EXCEPT !.dirt = {where}] \in Trees /\ [here EXCEPT !.dirt = {where}].at = here.at
      BY <2>0 DEF Trees
    <3> QED BY <2>0, <2>1, <3>1, <3>2
  <2>3. CASE Workspaces!CleanUp(l)
    <3>1. tree' = [tree EXCEPT ![l] = [here EXCEPT !.dirt = {}]]
      BY <2>3 DEF Workspaces!CleanUp
    <3>2. [here EXCEPT !.dirt = {}] \in Trees /\ [here EXCEPT !.dirt = {}].at = here.at
      BY <2>0 DEF Trees
    <3> QED BY <2>0, <2>1, <3>1, <3>2
  <2>4. CASE Workspaces!Detach(l)
    <3> DEFINE new == [here EXCEPT !.attached = ~@, !.at = branch[l]]
    <3>1. tree' = [tree EXCEPT ![l] = new]
      BY <2>0, <2>4 DEF Workspaces!Detach
    <3>2. branch[l] \in Nat
      BY <2>1 DEF WorkInv, WorkTyped, TreesRooted
    <3>3. new \in Trees /\ new.at = branch[l]
      BY <2>0, <3>2 DEF Trees
    <3> QED BY <2>0, <2>1, <3>1, <3>3
  <2>5. CASE Workspaces!TakeAway(l)
    <3>1. Workspaces!NoTree \in Trees
      BY DEF Workspaces!NoTree, Trees
    <3> QED BY <2>0, <2>1, <2>5, <3>1 DEF Workspaces!TakeAway
  <2> QED BY <2>2, <2>3, <2>4, <2>5
<1>3. TreesRooted'
  <2>1. ASSUME NEW k \in Lineages, tree'[k] # Workspaces!NoTree
        PROVE  tree'[k].at \in 0 .. Len(git) /\ branch[k] \in 0 .. Len(git)
    BY <1>2, <2>1 DEF WorkInv, TreesRooted
  <2> QED BY <1>1, <2>1 DEF TreesRooted, Workspaces!NoTree
<1>4. DOMAIN branch' = Lineages
  BY <1>1 DEF WorkInv, WorkTyped
<1> QED BY <1>1, <1>2, <1>3, <1>4, OthersKeep

\* A worktree with other dirt and another commit checked out is one.
LEMMA TreeEdits ==
    ASSUME NEW w \in Trees, NEW d \in SUBSET {"inside", "outside"}, NEW c \in Nat
    PROVE  [w EXCEPT !.dirt = d, !.at = c] \in Trees /\ [w EXCEPT !.dirt = d, !.at = c].at = c
BY DEF Trees

\* A commit in a worktree is a child of what the worktree has checked out.
LEMMA GitCommitKeeps ==
    ASSUME WorkInv, NEW l \in Lineages, NEW staged, tree[l] # Workspaces!NoTree, Workspaces!GitCommit(l, staged),
           UNCHANGED <<receipts, returned, records, manager>>
    PROVE  /\ git' \in Seq(Nat) /\ Len(git') = Len(git) + 1 /\ Len(git) \in Nat
           /\ tree' \in [Lineages -> Trees] /\ DOMAIN branch' = Lineages
           /\ TreesRooted' /\ Accounted'
<1> DEFINE x == Workspaces!HeadOf(l)
<1>1. x \in 0 .. Len(git) /\ git \in Seq(Nat) /\ Len(git) \in Nat
  BY HeadIsRooted DEF WorkInv, WorkTyped
<1>2. git' = Append(git, x) /\ x \in Nat
  BY <1>1 DEF Workspaces!GitCommit
<1>3. git' \in Seq(Nat) /\ Len(git') = Len(git) + 1
  BY <1>1, <1>2
<1>a. DOMAIN branch' = Lineages
  BY DEF Workspaces!GitCommit, WorkInv, WorkTyped
<1> DEFINE here == tree[l]
           new == [here EXCEPT !.dirt = @ \ staged, !.at = Len(git) + 1]
<1>b. tree \in [Lineages -> Trees] /\ here \in Trees
  BY DEF WorkInv, WorkTyped
<1>c. tree' = [tree EXCEPT ![l] = new]
  BY <1>b DEF Workspaces!GitCommit
<1>d. new \in Trees /\ new.at = Len(git) + 1
  <2>1. here.dirt \in SUBSET {"inside", "outside"}
    BY <1>b DEF Trees
  <2> DEFINE d == here.dirt \ staged
             c == Len(git) + 1
  <2>2. d \in SUBSET {"inside", "outside"} /\ c \in Nat
    BY <1>1, <2>1
  <2> HIDE DEF here, c, d
  <2>3. [here EXCEPT !.dirt = d, !.at = c] \in Trees /\ [here EXCEPT !.dirt = d, !.at = c].at = c
    BY <1>b, <2>2, TreeEdits
  <2> QED BY <2>3 DEF c, d
<1>4. tree' \in [Lineages -> Trees] /\ DOMAIN branch' = Lineages
  BY <1>a, <1>b, <1>c, <1>d
<1>5. /\ \A k \in Lineages \ {l} : tree'[k] = tree[k] /\ branch'[k] = branch[k]
      /\ tree'[l].at = Len(git) + 1
      /\ branch'[l] = branch[l] \/ branch'[l] = Len(git) + 1
  <2>1. \A k \in Lineages \ {l} : tree'[k] = tree[k] /\ branch'[k] = branch[k]
    BY <1>b, <1>c DEF Workspaces!GitCommit, WorkInv, WorkTyped
  <2>2. tree'[l].at = Len(git) + 1
    BY <1>b, <1>c, <1>d
  <2>3. branch'[l] = branch[l] \/ branch'[l] = Len(git) + 1
    BY DEF Workspaces!GitCommit, WorkInv, WorkTyped
  <2> QED BY <2>1, <2>2, <2>3
<1>6. TreesRooted'
  <2>1. ASSUME NEW k \in Lineages, tree'[k] # Workspaces!NoTree
        PROVE  tree'[k].at \in 0 .. Len(git') /\ branch'[k] \in 0 .. Len(git')
    <3>1. CASE k = l
      BY <3>1, <1>1, <1>3, <1>5 DEF WorkInv, TreesRooted
    <3>2. CASE k # l
      BY <3>2, <2>1, <1>1, <1>3, <1>5 DEF WorkInv, TreesRooted
    <3> QED BY <3>1, <3>2
  <2> QED BY <2>1 DEF TreesRooted, Workspaces!NoTree
<1>7. Accounted'
  <2>1. PICK run, s : Account(git, run, receipts \o returned, s) /\ (manager = "up" => s = records)
    BY DEF WorkInv, Accounted
  <2>2. Account(git', run, receipts \o returned, s)
    BY <1>1, <1>2, <2>1, AccountStays
  <2> QED BY <2>1, <2>2 DEF Accounted
<1> QED BY <1>1, <1>3, <1>4, <1>6, <1>7

\* A commit, of the manager or of the worker.
LEMMA CommitsKeep ==
    ASSUME WorkInv, Workspaces!Commit \/ \E l \in Lineages : Workspaces!WorkerCommits(l)
    PROVE  WorkInv'
<1>1. CASE Workspaces!Commit
  <2> DEFINE l == doing.lineage
  <2>1. /\ doing # None /\ doing.kind = "commit" /\ tree[l] # Workspaces!NoTree
        /\ Workspaces!GitCommit(l, Workspaces!Staged(l)) /\ doing' = [doing EXCEPT !.kind = "status"]
        /\ UNCHANGED <<records, manager, sequence, returned, receipts, reboots>>
    BY <1>1 DEF Workspaces!Commit
  <2>2. doing \in Commits /\ manager = "up" /\ returned = <<>> /\ records[l] # None /\ ~records[l].quarantined
    BY <2>1 DEF WorkInv, DoingFits, Creations
  <2>3. l \in Lineages
    BY <2>2 DEF Commits
  <2>4. /\ git' \in Seq(Nat) /\ tree' \in [Lineages -> Trees] /\ DOMAIN branch' = Lineages
        /\ TreesRooted' /\ Accounted'
    BY <2>1, <2>3, GitCommitKeeps
  <2>5. doing' \in Commits' /\ doing'.kind = "status" /\ doing'.lineage = l
    <3>1. Len(git') = Len(git) + 1 /\ Len(git) \in Nat
      BY <2>1, <2>3, GitCommitKeeps
    <3>2. 0 .. Len(git) \subseteq 0 .. Len(git')
      BY <3>1
    <3> QED BY <2>1, <2>2, <3>2 DEF Commits
  <2>6. WorkTyped'
    BY <2>1, <2>2, <2>4 DEF WorkInv, WorkTyped, Straddled
  <2>7. DoingFits'
    BY <2>1, <2>2, <2>5 DEF DoingFits
  <2> QED BY <2>4, <2>6, <2>7 DEF WorkInv
<1>2. ASSUME NEW l \in Lineages, Workspaces!WorkerCommits(l) PROVE WorkInv'
  <2>1. /\ tree[l] # Workspaces!NoTree /\ Workspaces!GitCommit(l, tree[l].dirt)
        /\ UNCHANGED <<records, manager, sequence, doing, returned, receipts, reboots>>
    BY <1>2 DEF Workspaces!WorkerCommits, Workspaces!Others
  <2>2. /\ git' \in Seq(Nat) /\ Len(git') = Len(git) + 1 /\ Len(git) \in Nat
        /\ tree' \in [Lineages -> Trees] /\ DOMAIN branch' = Lineages /\ TreesRooted' /\ Accounted'
    BY <2>1, GitCommitKeeps
  <2>3. WorkTyped'
    BY <2>1, <2>2 DEF WorkInv, WorkTyped, Straddled
  <2>4. 0 .. Len(git) \subseteq 0 .. Len(git')
    BY <2>2
  <2>5. Creations \subseteq Creations' /\ Commits \subseteq Commits'
    BY <2>4 DEF Creations, Commits
  <2>6. git \in Seq(Nat) /\ \A i \in 1 .. Len(git) : git'[i] = git[i]
    <3>1. git \in Seq(Nat) /\ git' = Append(git, Workspaces!HeadOf(l))
      BY <2>1 DEF Workspaces!GitCommit, WorkInv, WorkTyped
    <3> QED BY <3>1
  <2>7. ASSUME doing.kind = "tree", doing # None PROVE doing.via # 0 /\ git'[doing.via] = records[doing.lineage].head
    <3>1. doing \in Creations \cup Commits /\ doing.via # 0 /\ git[doing.via] = records[doing.lineage].head
      BY <2>7 DEF WorkInv, DoingFits
    <3>2. doing.via \in 1 .. Len(git)
      BY <2>2, <2>7, <3>1 DEF Creations, Commits
    <3> QED BY <2>6, <3>1, <3>2
  <2>8. DoingFits'
    BY <2>1, <2>5, <2>7 DEF WorkInv, DoingFits
  <2> QED BY <2>2, <2>3, <2>8 DEF WorkInv
<1> QED BY <1>1, <1>2

\* An operation begins, or fails at git.
LEMMA BeginsKeep ==
    ASSUME WorkInv,
           \/ \E l \in Lineages, p \in Lineages \cup {None}, b \in BOOLEAN : Workspaces!CreateBegin(l, p, b)
           \/ \E l \in Lineages : Workspaces!CommitBegin(l)
           \/ Workspaces!GitFails
    PROVE  WorkInv'
<1>1. UNCHANGED <<git, branch, tree, records, manager, returned, receipts>>
  BY DEF Workspaces!CreateBegin, Workspaces!CommitBegin, Workspaces!GitFails, Workspaces!repo
<1>2. sequence \in Nat /\ records \in Standings
  BY DEF WorkInv, WorkTyped
<1>3. sequence' \in Nat
  BY <1>2 DEF Workspaces!CreateBegin, Workspaces!CommitBegin, Workspaces!GitFails
<1>4. TreesRooted'
  BY <1>1 DEF WorkInv, TreesRooted, Workspaces!NoTree
<1>5. Accounted'
  BY <1>1 DEF WorkInv, Accounted
<1>6. manager' # "up" => doing' = None
  BY <1>1 DEF WorkInv, WorkTyped, Workspaces!CreateBegin, Workspaces!CommitBegin, Workspaces!GitFails, Workspaces!Ready
<1>7. WorkTyped'
  BY <1>1, <1>3, <1>6 DEF WorkInv, WorkTyped, Straddled
<1>8. DoingFits'
  <2>1. CASE Workspaces!GitFails
    BY <2>1 DEF Workspaces!GitFails, DoingFits
  <2>2. ASSUME NEW l \in Lineages, NEW p \in Lineages \cup {None}, NEW b \in BOOLEAN, Workspaces!CreateBegin(l, p, b)
        PROVE  DoingFits'
    <3> DEFINE base == IF p = None THEN 0 ELSE records[p].head
    <3>1. /\ manager = "up" /\ returned = <<>> /\ records[l] = None
          /\ p # None => records[p] # None /\ ~records[p].quarantined /\ (records[p].bounded => b)
          /\ doing' = [kind |-> "create", lineage |-> l, parent |-> p, bounded |-> b, seq |-> sequence, base |-> base]
      BY <2>2 DEF Workspaces!CreateBegin, Workspaces!Ready, Workspaces!MayCreate, Workspaces!Known, Workspaces!Usable
    <3>2. Rooted(git, records)
      <4>1. PICK run, s : Account(git, run, receipts \o returned, s) /\ (manager = "up" => s = records)
        BY DEF WorkInv, Accounted
      <4> QED BY <3>1, <4>1 DEF Account
    <3>3. base \in 0 .. Len(git)
      <4>1. Len(git) \in Nat
        BY DEF WorkInv, WorkTyped
      <4>2. CASE p = None
        BY <4>1, <4>2
      <4>3. CASE p # None
        BY <4>3, <3>1, <3>2 DEF Rooted
      <4> QED BY <4>2, <4>3
    <3> HIDE DEF base
    <3>4. doing' \in Creations
      BY <3>1, <3>3, <1>2 DEF Creations
    <3>5. Creations = Creations'
      BY <1>1 DEF Creations
    <3>6. doing'.kind = "create" /\ doing'.lineage = l /\ doing'.parent = p /\ doing'.bounded = b /\ doing'.base = base
      BY <3>1
    <3> QED BY <1>1, <3>1, <3>4, <3>5, <3>6 DEF DoingFits, base
  <2>3. ASSUME NEW l \in Lineages, Workspaces!CommitBegin(l) PROVE DoingFits'
    <3>1. /\ manager = "up" /\ returned = <<>> /\ records[l] # None /\ ~records[l].quarantined
          /\ doing' = [kind |-> "commit", lineage |-> l, commit |-> 0, via |-> 0]
      BY <2>3 DEF Workspaces!CommitBegin, Workspaces!Ready, Workspaces!Known, Workspaces!Usable
    <3>2. Len(git) \in Nat
      BY DEF WorkInv, WorkTyped
    <3>3. doing' \in Commits' /\ doing'.kind = "commit" /\ doing'.lineage = l
      BY <1>1, <3>1, <3>2 DEF Commits
    <3> QED BY <1>1, <3>1, <3>3 DEF DoingFits
  <2> QED BY <2>1, <2>2, <2>3
<1> QED BY <1>4, <1>5, <1>7, <1>8 DEF WorkInv

\* The receipt of an operation leads from what the manager knew to what it knows.
LEMMA ReceiptKeeps ==
    ASSUME WorkInv, manager = "up", returned = <<>>, NEW r \in Receipts,
           Step(git, records, r, records'), returned' = <<r>>, doing' = None,
           UNCHANGED <<git, manager, receipts>>
    PROVE  Accounted' /\ DoingFits' /\ records' \in Standings /\ returned' \in Seq(Receipts)
<1>1. receipts \in Seq(Receipts)
  BY DEF WorkInv, WorkTyped
<1>2. receipts \o returned = receipts /\ receipts' \o returned' = Append(receipts, r)
  BY <1>1
<1>3. PICK run : Account(git, run, receipts, records)
  BY <1>2 DEF WorkInv, Accounted
<1>4. \E f : Account(git, f, Append(receipts, r), records')
  BY <1>1, <1>3, AccountMore
<1>5. Accounted'
  BY <1>2, <1>4 DEF Accounted
<1>6. records' \in Standings
  BY DEF Step
<1>7. returned' \in Seq(Receipts)
  OBVIOUS
<1> QED BY <1>5, <1>6, <1>7 DEF DoingFits

\* The receipt of a new lineage follows from what its creation found.
LEMMA WorktreeAddKeeps == WorkInv /\ Workspaces!WorktreeAdd => WorkInv'
<1> SUFFICES ASSUME WorkInv, Workspaces!WorktreeAdd PROVE WorkInv'
  OBVIOUS
<1> DEFINE l == doing.lineage
           new == Workspaces!NewLineage(doing.parent, doing.base, doing.bounded)
           r == Workspaces!Receipt(doing.seq, "created", l, doing.parent, doing.base, doing.bounded)
           there == [at |-> doing.base, dirt |-> {}, attached |-> TRUE]
<1>1. /\ doing # None /\ doing.kind = "create"
      /\ branch' = [branch EXCEPT ![l] = doing.base] /\ tree' = [tree EXCEPT ![l] = there]
      /\ records' = [records EXCEPT ![l] = new] /\ returned' = <<r>> /\ doing' = None
      /\ UNCHANGED <<git, manager, sequence, receipts, reboots>>
  BY DEF Workspaces!WorktreeAdd
<1>2. /\ manager = "up" /\ returned = <<>> /\ doing \in Creations /\ records[l] = None
      /\ doing.parent # None =>
            /\ records[doing.parent] # None /\ ~records[doing.parent].quarantined
            /\ records[doing.parent].head = doing.base /\ (records[doing.parent].bounded => doing.bounded)
  BY <1>1 DEF WorkInv, DoingFits, Commits
<1>3. /\ l \in Lineages /\ doing.parent \in Lineages \cup {None} /\ doing.bounded \in BOOLEAN
      /\ doing.seq \in Nat /\ doing.base \in 0 .. Len(git)
  BY <1>2 DEF Creations
<1>4. git \in Seq(Nat) /\ Len(git) \in Nat /\ records \in Standings
  BY DEF WorkInv, WorkTyped
<1>5. /\ r \in Receipts /\ r.type = "created" /\ r.lineage = l /\ r.parent = doing.parent
      /\ r.commit = doing.base /\ r.tree = r.commit /\ r.bounded = doing.bounded
  BY <1>3, <1>4 DEF Workspaces!Receipt, Workspaces!ReceiptOf, Receipts
<1>6. new \in Entries /\ new.head = doing.base
  BY <1>3, <1>4 DEF Workspaces!NewLineage, Entries
<1>7. Rooted(git, records)
  BY <1>2 DEF WorkInv, Accounted, Account
<1>8. records' \in Standings /\ Rooted(git, records')
  <2> HIDE DEF new
  <2>1. records' \in Standings
    BY <1>1, <1>4, <1>6 DEF Standings
  <2>2. \A k \in Lineages : records'[k] = IF k = l THEN new ELSE records[k]
    BY <1>1, <1>4 DEF Standings
  <2> QED BY <2>1, <2>2, <1>3, <1>6, <1>7 DEF Rooted
<1>9. Step(git, records, r, records')
  <2>1. records' = [records EXCEPT ![l] = Workspaces!NewLineage(r.parent, r.commit, r.bounded)]
    BY <1>1, <1>5
  <2> HIDE DEF r
  <2> QED BY <1>2, <1>3, <1>5, <1>8, <2>1 DEF Step
<1> HIDE DEF r, new
<1>10. Accounted' /\ DoingFits' /\ returned' \in Seq(Receipts)
  BY <1>1, <1>2, <1>5, <1>9, ReceiptKeeps
<1>11. tree' \in [Lineages -> Trees] /\ TreesRooted' /\ DOMAIN branch' = Lineages
  <2>1. there \in Trees /\ there.at = doing.base
    BY <1>3, <1>4 DEF Trees
  <2> HIDE DEF there
  <2>2. tree \in [Lineages -> Trees] /\ DOMAIN branch = Lineages
    BY DEF WorkInv, WorkTyped
  <2>3. \A k \in Lineages : /\ tree'[k] = IF k = l THEN there ELSE tree[k]
                            /\ branch'[k] = IF k = l THEN doing.base ELSE branch[k]
    BY <1>1, <2>2
  <2>4. tree' \in [Lineages -> Trees] /\ DOMAIN branch' = Lineages
    BY <1>1, <2>1, <2>2
  <2>5. TreesRooted'
    BY <1>1, <1>3, <2>1, <2>3 DEF WorkInv, TreesRooted, Workspaces!NoTree
  <2> QED BY <2>4, <2>5
<1>12. WorkTyped'
  BY <1>1, <1>2, <1>8, <1>10, <1>11 DEF WorkInv, WorkTyped, Straddled
<1> QED BY <1>10, <1>11, <1>12 DEF WorkInv

\* A read behind a commit changes nothing but the operation.
LEMMA ReadsKeep == WorkInv /\ (Workspaces!ReadStatus \/ Workspaces!ReadHead \/ Workspaces!ReadParent) => WorkInv'
<1> SUFFICES ASSUME WorkInv, Workspaces!ReadStatus \/ Workspaces!ReadHead \/ Workspaces!ReadParent PROVE WorkInv'
  OBVIOUS
<1> DEFINE l == doing.lineage
           head == Workspaces!HeadOf(l)
<1>1. /\ doing # None /\ doing.kind \in {"status", "head", "parent"} /\ tree[l] # Workspaces!NoTree
      /\ UNCHANGED <<git, branch, tree, records, manager, sequence, returned, receipts, reboots>>
  BY DEF Workspaces!ReadStatus, Workspaces!ReadHead, Workspaces!ReadParent, Workspaces!Reads,
         Workspaces!ReadsOnly, Workspaces!repo
<1>2. doing \in Commits /\ manager = "up" /\ returned = <<>> /\ records[l] # None /\ ~records[l].quarantined
  BY <1>1 DEF WorkInv, DoingFits, Creations
<1>3. l \in Lineages
  BY <1>2 DEF Commits
<1>4. head \in 0 .. Len(git)
  BY <1>1, <1>3, HeadIsRooted DEF WorkInv
<1> HIDE DEF head
<1>5. /\ doing' \in Commits /\ doing'.lineage = l /\ doing'.kind # "create"
      /\ doing'.kind = "tree" => doing'.via # 0 /\ git[doing'.via] = records[l].head
  <2>1. CASE Workspaces!ReadStatus
    <3>1. doing' = [doing EXCEPT !.kind = "head"]
      BY <2>1 DEF Workspaces!ReadStatus
    <3>2. doing' \in Commits /\ doing'.lineage = l /\ doing'.kind = "head"
      BY <1>2, <3>1 DEF Commits
    <3> QED BY <3>2
  <2>2. CASE Workspaces!ReadHead
    <3>1. doing' = [doing EXCEPT !.kind = "parent", !.commit = head]
      BY <2>2 DEF Workspaces!ReadHead, head
    <3>2. doing' \in Commits /\ doing'.lineage = l /\ doing'.kind = "parent"
      BY <1>2, <1>4, <3>1 DEF Commits
    <3> QED BY <3>2
  <2>3. CASE Workspaces!ReadParent
    <3>1. doing' = [doing EXCEPT !.kind = "tree", !.via = head] /\ head # 0 /\ git[head] = records[l].head
      BY <2>3 DEF Workspaces!ReadParent, Workspaces!Descends, head
    <3>2. doing' \in Commits /\ doing'.lineage = l /\ doing'.kind = "tree" /\ doing'.via = head
      BY <1>2, <1>4, <3>1 DEF Commits
    <3> QED BY <3>1, <3>2
  <2> QED BY <2>1, <2>2, <2>3
<1>6. WorkTyped'
  BY <1>1, <1>2 DEF WorkInv, WorkTyped, Straddled
<1>7. TreesRooted' /\ Accounted'
  BY <1>1 DEF WorkInv, TreesRooted, Accounted, Workspaces!NoTree
<1>8. DoingFits'
  BY <1>1, <1>2, <1>5 DEF DoingFits, Commits
<1> QED BY <1>6, <1>7, <1>8 DEF WorkInv

\* The receipt of a commit: the commit whose parent was looked at is a child of
\* the recorded head.
LEMMA VerifyKeeps == WorkInv /\ Workspaces!Verify => WorkInv'
<1> SUFFICES ASSUME WorkInv, Workspaces!Verify PROVE WorkInv'
  OBVIOUS
<1> DEFINE l == doing.lineage
           head == doing.commit
           entry == records[l]
           last == Workspaces!HeadOf(l)
           r == Workspaces!ReceiptOf(sequence, "committed", l, entry.parent, entry.bounded, head, doing.via, last)
<1>1. /\ doing # None /\ doing.kind = "tree" /\ tree[l] # Workspaces!NoTree
      /\ records' = [records EXCEPT ![l].head = head] /\ returned' = <<r>>
      /\ sequence' = sequence + 1 /\ doing' = None
      /\ UNCHANGED <<git, branch, tree, manager, receipts, reboots>>
  BY DEF Workspaces!Verify, Workspaces!Reads, Workspaces!repo
<1>2. /\ manager = "up" /\ returned = <<>> /\ doing \in Commits /\ entry # None /\ ~entry.quarantined
      /\ doing.via # 0 /\ git[doing.via] = entry.head
  BY <1>1 DEF WorkInv, DoingFits, Creations
<1>3. l \in Lineages /\ head \in 0 .. Len(git) /\ doing.via \in 0 .. Len(git)
  BY <1>2 DEF Commits
<1>4. git \in Seq(Nat) /\ Len(git) \in Nat /\ records \in Standings /\ sequence \in Nat
  BY DEF WorkInv, WorkTyped
<1>5. last \in 0 .. Len(git) /\ doing.via \in 1 .. Len(git)
  BY <1>1, <1>2, <1>3, <1>4, HeadIsRooted DEF WorkInv
<1>6. entry \in Entries
  BY <1>2, <1>3, <1>4 DEF Standings
<1> HIDE DEF last
<1>7. /\ r \in Receipts /\ r.type = "committed" /\ r.lineage = l /\ r.parent = entry.parent
      /\ r.commit = head /\ r.via = doing.via /\ r.bounded = entry.bounded
  BY <1>3, <1>4, <1>5, <1>6 DEF Workspaces!ReceiptOf, Receipts, Entries
<1>8. Rooted(git, records)
  BY <1>2 DEF WorkInv, Accounted, Account
<1> DEFINE new == [entry EXCEPT !.head = head]
<1>9. new \in Entries /\ new.head = head
  <2>1. head \in Nat
    BY <1>3, <1>4
  <2> HIDE DEF head
  <2> QED BY <2>1, <1>6 DEF Entries
<1>10. records' = [records EXCEPT ![l] = new]
  BY <1>1
<1>11. records' \in Standings /\ Rooted(git, records')
  <2> HIDE DEF new
  <2>1. records' \in Standings
    BY <1>10, <1>3, <1>4, <1>9 DEF Standings
  <2>2. \A k \in Lineages : records'[k] = IF k = l THEN new ELSE records[k]
    BY <1>10, <1>3, <1>4 DEF Standings
  <2> QED BY <2>1, <2>2, <1>3, <1>9, <1>8 DEF Rooted
<1>12. Step(git, records, r, records')
  <2>1. records' = [records EXCEPT ![l].head = r.commit]
    BY <1>1, <1>7
  <2>2. /\ r.lineage = l /\ records[l] # None /\ ~records[l].quarantined
        /\ r.parent = records[l].parent /\ r.bounded = records[l].bounded
        /\ r.via \in 1 .. Len(git) /\ git[r.via] = records[l].head
    BY <1>2, <1>5, <1>7
  <2> HIDE DEF r, l
  <2> QED BY <2>1, <2>2, <1>3, <1>7, <1>11 DEF Step
<1> HIDE DEF r
<1>13. Accounted' /\ DoingFits' /\ returned' \in Seq(Receipts)
  BY <1>1, <1>2, <1>7, <1>12, ReceiptKeeps
<1>14. TreesRooted'
  BY <1>1 DEF WorkInv, TreesRooted, Workspaces!NoTree
<1>15. WorkTyped'
  BY <1>1, <1>2, <1>4, <1>11, <1>13 DEF WorkInv, WorkTyped, Straddled
<1> QED BY <1>13, <1>14, <1>15 DEF WorkInv

\* A receipt made durable is the same receipt.
LEMMA PersistKeeps == WorkInv /\ Workspaces!Persist => WorkInv'
<1> SUFFICES ASSUME WorkInv, Workspaces!Persist PROVE WorkInv'
  OBVIOUS
<1>1. /\ returned # <<>> /\ receipts' = Append(receipts, returned[1]) /\ returned' = Tail(returned)
      /\ UNCHANGED <<git, branch, tree, records, manager, sequence, doing>>
  BY DEF Workspaces!Persist, Workspaces!repo
<1>2. receipts \in Seq(Receipts) /\ returned \in Seq(Receipts) /\ manager = "up" /\ doing = None
  BY <1>1 DEF WorkInv, WorkTyped, DoingFits
<1>3. receipts' \in Seq(Receipts) /\ returned' \in Seq(Receipts)
  BY <1>1, <1>2
<1>4. receipts' \o returned' = receipts \o returned
  BY <1>1, <1>2
<1>5. Accounted'
  BY <1>1, <1>4 DEF WorkInv, Accounted
<1>6. WorkTyped'
  BY <1>1, <1>2, <1>3 DEF WorkInv, WorkTyped, Straddled
<1>7. TreesRooted' /\ DoingFits'
  BY <1>1, <1>2 DEF WorkInv, TreesRooted, DoingFits, Workspaces!NoTree
<1> QED BY <1>5, <1>6, <1>7 DEF WorkInv

\* A crash loses the receipts that are not durable, and what the manager knows.
LEMMA CrashKeeps == WorkInv /\ Workspaces!Crash => WorkInv'
<1> SUFFICES ASSUME WorkInv, Workspaces!Crash PROVE WorkInv'
  OBVIOUS
<1>1. /\ manager' = "down" /\ records' = Nobody /\ doing' = None /\ returned' = <<>>
      /\ UNCHANGED <<git, branch, tree, sequence, receipts>>
  BY DEF Workspaces!Crash, Workspaces!repo, Nobody
<1>2. receipts \in Seq(Receipts) /\ returned \in Seq(Receipts)
  BY DEF WorkInv, WorkTyped
<1>3. PICK run, s : Account(git, run, receipts \o returned, s)
  BY DEF WorkInv, Accounted
<1>4. PICK u : Account(git, run, receipts, u)
  BY <1>2, <1>3, AccountShorter
<1>5. receipts' \o returned' = receipts
  BY <1>1, <1>2
<1>6. Accounted'
  BY <1>1, <1>4, <1>5 DEF Accounted
<1>7. <<>> \in Seq(Receipts)
  OBVIOUS
<1>8. WorkTyped'
  BY <1>1, <1>7, NobodyIsState DEF WorkInv, WorkTyped, Straddled
<1>9. TreesRooted' /\ DoingFits'
  BY <1>1 DEF WorkInv, TreesRooted, DoingFits, Workspaces!NoTree
<1> QED BY <1>6, <1>8, <1>9 DEF WorkInv

\* The durable receipts replay, and a quarantine receipt is made for each
\* lineage whose worktree is not as they say.
LEMMA WorkRecoverKeeps == WorkInv /\ Workspaces!Recover => WorkInv'
<1> SUFFICES ASSUME WorkInv, Workspaces!Recover PROVE WorkInv'
  OBVIOUS
<1>1. /\ git \in Seq(Nat) /\ receipts \in Seq(Receipts) /\ manager = "down" /\ doing = None /\ returned = <<>>
      /\ UNCHANGED <<git, branch, tree, doing, receipts>>
  BY DEF WorkInv, WorkTyped, Workspaces!Recover, Workspaces!repo
<1>2. receipts \o returned = receipts /\ Len(receipts) \in Nat
  BY <1>1
<1>3. PICK run, s : Account(git, run, receipts, s)
  BY <1>2 DEF WorkInv, Accounted
<1>4. /\ s \in Standings /\ s # None /\ Rooted(git, s)
      /\ Workspaces!Replay(receipts) = s \/ (Workspaces!Replay(receipts) = None /\ Straddled(receipts))
  <2>1. /\ s \in Standings
        /\ Workspaces!Replay(receipts) = s \/ (Workspaces!Replay(receipts) = None /\ Straddled(receipts))
    BY <1>1, <1>3, AccountReplays
  <2>2. Rooted(git, s)
    BY <1>3 DEF Account
  <2>3. s # None
    BY <2>1, DiscoveryAssumption
  <2> QED BY <2>1, <2>2, <2>3
<1>5. CASE Workspaces!Replay(receipts) = None
  <2>1. manager' = "poisoned" /\ UNCHANGED <<records, sequence, returned>>
    BY <1>5 DEF Workspaces!Recover
  <2>2. WorkTyped' /\ TreesRooted' /\ DoingFits'
    BY <1>1, <1>4, <1>5, <2>1 DEF WorkInv, WorkTyped, TreesRooted, DoingFits, Straddled, Workspaces!NoTree
  <2>3. Accounted'
    BY <1>1, <1>2, <1>3, <2>1 DEF Accounted
  <2> QED BY <2>2, <2>3 DEF WorkInv
<1>6. CASE Workspaces!Replay(receipts) = s
  <2> DEFINE found == Workspaces!ToQuarantine(s)
             names == Workspaces!SetToSeq(found)
             more == Workspaces!Quarantines(s, found)
  <2>1. /\ manager' = "up" /\ returned' = more
        /\ records' = [l \in Lineages |-> IF l \in found THEN [s[l] EXCEPT !.quarantined = TRUE] ELSE s[l]]
        /\ sequence' = Len(receipts) + Workspaces!Cardinality(found)
    BY <1>4, <1>6 DEF Workspaces!Recover
  <2>2. records' = Flagged(s, found)
    BY <2>1 DEF Flagged
  <2>3. found \subseteq Lineages /\ \A l \in found : s[l] # None /\ ~s[l].quarantined
    BY DEF Workspaces!ToQuarantine
  <2>4. IsFiniteSet(found)
    BY <2>3, FS_Subset, DiscoveryAssumption
  <2> HIDE DEF found
  <2>5. /\ names \in Seq(found) /\ Len(names) = Cardinality(found) /\ First(names, Len(names)) = found
        /\ \A i, j \in DOMAIN names : names[i] = names[j] => i = j
    BY <2>4, Listed
  <2>6. Workspaces!Cardinality(found) = Cardinality(found) /\ Cardinality(found) \in Nat
    BY <2>4, FS_CardinalityType DEF Workspaces!Cardinality, Cardinality
  <2>7. more = [i \in 1 .. Len(names) |->
                    Workspaces!Receipt(Len(receipts) + i - 1, "quarantined", names[i], s[names[i]].parent,
                                       s[names[i]].head, s[names[i]].bounded)]
    BY DEF Workspaces!Quarantines
  <2> HIDE DEF names, more
  <2>8. names \in Seq(Lineages) /\ Len(names) \in Nat /\ DOMAIN names = 1 .. Len(names)
    BY <2>3, <2>5
  <2>9. ASSUME NEW i \in 1 .. Len(names)
         PROVE  /\ s[names[i]] # None /\ ~s[names[i]].quarantined
                /\ more[i] \in Receipts /\ more[i].type = "quarantined" /\ more[i].lineage = names[i]
    <3>1. names[i] \in found /\ names[i] \in Lineages
      BY <2>3, <2>5
    <3>2. s[names[i]] # None /\ ~s[names[i]].quarantined
      BY <3>1, <2>3
    <3>3. s[names[i]] \in Entries
      BY <3>1, <3>2, <1>4 DEF Standings
    <3>4. more[i] = Workspaces!Receipt(Len(receipts) + i - 1, "quarantined", names[i], s[names[i]].parent,
                                       s[names[i]].head, s[names[i]].bounded)
      BY <2>7
    <3>5. Len(receipts) + i - 1 \in Int
      BY <1>2, <2>8
    <3>6. more[i] \in Receipts /\ more[i].type = "quarantined" /\ more[i].lineage = names[i]
      BY <3>1, <3>3, <3>4, <3>5 DEF Workspaces!Receipt, Workspaces!ReceiptOf, Receipts, Entries
    <3> QED BY <3>2, <3>6
  <2>10. more \in Seq(Receipts) /\ Len(more) = Len(names)
    <3>1. DOMAIN more = 1 .. Len(names) /\ more = [i \in 1 .. Len(names) |-> more[i]]
      BY <2>7
    <3>2. more \in [1 .. Len(names) -> Receipts]
      BY <3>1, <2>9
    <3> QED BY <3>2, <2>8
  <2>11. \E f : Account(git, f, receipts \o more, Flagged(s, First(names, Len(names))))
    <3>1. \A i \in DOMAIN names : s[names[i]] # None /\ ~s[names[i]].quarantined
      BY <2>8, <2>9
    <3>2. \A i \in DOMAIN names : more[i].type = "quarantined" /\ more[i].lineage = names[i]
      BY <2>8, <2>9
    <3> QED BY <3>1, <3>2, <1>1, <1>3, <2>5, <2>8, <2>10, AccountFlags
  <2>12. Accounted'
    BY <1>1, <2>1, <2>2, <2>5, <2>11 DEF Accounted
  <2>13. records' \in Standings
    BY <1>4, <2>2, <2>3, FlaggedIs
  <2>14. WorkTyped'
    BY <1>1, <1>2, <2>1, <2>6, <2>10, <2>13 DEF WorkInv, WorkTyped, Straddled
  <2>15. TreesRooted' /\ DoingFits'
    BY <1>1 DEF WorkInv, TreesRooted, DoingFits, Workspaces!NoTree
  <2> QED BY <2>12, <2>14, <2>15 DEF WorkInv
<1> QED BY <1>4, <1>5, <1>6

\* The receipts durable and returned lead from no lineage to those the manager
\* knows, each allowed by the ones before it.
LEMMA WorkInvHolds == DiscoverySpec => []WorkInv
<1>1. DiscoveryInit => WorkInv
  BY PartsStart, WorkInvStarts
<1>2. WorkInv /\ [DiscoveryNext]_discovery => WorkInv'
  <2> SUFFICES ASSUME WorkInv, [Workspaces!Next]_(Workspaces!vars) PROVE WorkInv'
    BY PartsMove
  <2>1. CASE UNCHANGED Workspaces!vars
    <3>1. UNCHANGED <<git, branch, tree, records, manager, sequence, doing, returned, receipts>>
      BY <2>1 DEF Workspaces!vars, Workspaces!repo
    <3>2. WorkTyped' /\ TreesRooted' /\ Accounted'
      BY <3>1 DEF WorkInv, WorkTyped, TreesRooted, Accounted, Straddled, Workspaces!NoTree
    <3>3. DoingFits'
      BY <3>1 DEF WorkInv, DoingFits, Creations, Commits
    <3> QED BY <3>2, <3>3 DEF WorkInv
  <2>2. CASE Workspaces!Next
    <3>1. CASE \/ \E l \in Lineages, p \in Lineages \cup {None}, b \in BOOLEAN : Workspaces!CreateBegin(l, p, b)
               \/ \E l \in Lineages : Workspaces!CommitBegin(l)
               \/ Workspaces!GitFails
      BY <3>1, BeginsKeep
    <3>2. CASE Workspaces!WorktreeAdd \/ Workspaces!Verify
               \/ Workspaces!ReadStatus \/ Workspaces!ReadHead \/ Workspaces!ReadParent
      BY <3>2, WorktreeAddKeeps, VerifyKeeps, ReadsKeep
    <3>3. CASE Workspaces!Commit \/ \E l \in Lineages : Workspaces!WorkerCommits(l)
      BY <3>3, CommitsKeep
    <3>4. CASE Workspaces!Persist \/ Workspaces!Crash \/ Workspaces!Recover
      BY <3>4, PersistKeeps, CrashKeeps, WorkRecoverKeeps
    <3>5. ASSUME NEW l \in Lineages,
                 \/ \E where \in {"inside", "outside"} : Workspaces!Edit(l, where)
                 \/ Workspaces!CleanUp(l) \/ Workspaces!Detach(l) \/ Workspaces!TakeAway(l)
          PROVE  WorkInv'
      BY <3>5, EditKeeps
    <3> QED BY <2>2, <3>1, <3>2, <3>3, <3>4, <3>5 DEF Workspaces!Next
  <2> QED BY <2>1, <2>2
<1> QED BY <1>1, <1>2, PTL DEF DiscoverySpec

\* A journal without a gap is refused only over a receipt that straddles a
\* commit of the worker, and nothing grows from a quarantined lineage.
THEOREM LineagesReplayHolds == DiscoverySpec => []LineagesReplay
<1>1. WorkInv => LineagesReplay
  <2> SUFFICES ASSUME WorkInv PROVE LineagesReplay
    OBVIOUS
  <2>1. manager = "poisoned" => \E i \in DOMAIN receipts : Workspaces!Straddles(receipts[i])
    BY DEF WorkInv, WorkTyped, Straddled
  <2>2. receipts \o returned \in Seq(Receipts)
    BY DEF WorkInv, WorkTyped
  <2>3. PICK run, s : Account(git, run, receipts \o returned, s)
    BY DEF WorkInv, Accounted
  <2> DEFINE log == receipts \o returned
  <2>4. \A i, j \in 1 .. Len(log) : i < j /\ log[i].type = "quarantined" =>
            log[j].lineage # log[i].lineage /\ (log[j].type = "created" => log[j].parent # log[i].lineage)
    <3> HIDE DEF log
    <3>1. log \in Seq(Receipts) /\ Account(git, run, log, s)
      BY <2>2, <2>3 DEF log
    <3> QED BY <3>1, AccountHolds
  <2> QED BY <2>1, <2>4 DEF LineagesReplay, Workspaces!JournalsReplay, Workspaces!QuarantineHolds
<1> QED BY <1>1, WorkInvHolds, PTL
=============================================================================
