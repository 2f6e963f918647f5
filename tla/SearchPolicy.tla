---------------------------- MODULE SearchPolicy ----------------------------
(***************************************************************************)
(* How a discovery campaign steers itself: the policy evolver              *)
(* (discovery/evolution.py) with its four validation stages                *)
(* (discovery/policy.py) and the scheduler that turns the current policy   *)
(* into a batch of assignments (discovery/scheduler.py), over descriptors  *)
(* of the population.  Every call is given the next number of the campaign *)
(* and the caller keeps the attempts of each policy.  Fractions are in     *)
(* quarters.                                                               *)
(***************************************************************************)
EXTENDS Integers, FiniteSets, SequencesExt

CONSTANTS
    Dsls,            \* policies: [selector, explorers, width, concurrency, depth, floor, reseed, cap, cost]
    RootDsl,         \* the policy of the root snapshot
    Shapes,          \* of a population: [nodes, depth, concentration, diversity, coverage,
                     \* spent, cost]; a node: [lineage, tier, label, structure], by candidate id
    None,
    Attempts, MaxConcurrency,   \* budgets of the campaign
    MaxNumber, MaxWindows, MaxProposed   \* bounds: calls, windows, waiting children

MaxMutations == 3

VARIABLES
    n,          \* the number of the next call
    current,    \* the active snapshot
    known,      \* _known_snapshots
    proposed,   \* children proposed and not forgotten
    history,    \* strategy rows: [n, policy, outcome]
    window,     \* the population descriptor: a shape with an id and the attempts left
    left,       \* attempts left to the campaign
    used        \* attempts emitted under each known policy

evolver == <<current, known, proposed, history>>
vars == <<n, evolver, window, left, used>>

\* A snapshot is what its hash covers; its parent is inside.
Snapshot(dsl, parent, id, at) == [dsl |-> dsl, parent |-> parent, window |-> id, at |-> at]
RootSnapshot == Snapshot(RootDsl, None, 0, 0)
Described(shape, id) == [shape |-> shape, id |-> id, attempts |-> left]

Init ==
    /\ n = 0 /\ left = Attempts
    /\ current = RootSnapshot /\ known = {RootSnapshot} /\ proposed = {} /\ history = <<>>
    /\ \E shape \in Shapes : window = [shape |-> shape, id |-> 0, attempts |-> Attempts]
    /\ used = [p \in known |-> 0]

Call == n < MaxNumber /\ n' = n + 1

\* A new descriptor, in the same window or the next.
Describe(shape, id) ==
    /\ id \in {window.id, window.id + 1}
    /\ window' = Described(shape, id) /\ window' # window
    /\ UNCHANGED <<n, evolver, left, used>>

-----------------------------------------------------------------------------
(* The evolver.                                                            *)

Propose(dsl) ==
    /\ Call /\ Cardinality(proposed) < MaxProposed
    /\ proposed' = proposed \cup {Snapshot(dsl, current, window.id, n)}
    /\ UNCHANGED <<current, known, history, window, left, used>>

\* The fields of the policy language: the two fractions add up to one, and
\* the cap and the cost are stop_rules.
Fields(dsl) ==
    <<dsl.selector, dsl.explorers, 4 - dsl.explorers, dsl.width, dsl.concurrency, dsl.depth, dsl.floor, dsl.reseed,
      <<dsl.cap, dsl.cost>>>>
Changes(a, b) == Cardinality({f \in DOMAIN Fields(a) : Fields(a)[f] # Fields(b)[f]})

\* Mutant: the parent a candidate names is not compared with the current one.
PassesStaticUnbound(c) ==
    /\ c.dsl.selector = "elite" => c.dsl.floor > 0
    /\ Changes(c.dsl, c.parent.dsl) <= MaxMutations

PassesStatic(c) ==
    /\ c.dsl.selector = "elite" => c.dsl.floor > 0
    /\ c.parent = current
    /\ Changes(c.dsl, current.dsl) <= MaxMutations

LineagesOf(nodes) == {nodes[i].lineage : i \in DOMAIN nodes}
Least(S) == CHOOSE x \in S : \A y \in S : x <= y

\* _select_parent_ids: how many parents a policy would choose.  Three of the
\* selectors take one node of each kind, the others a share of all.
Kinds(nodes, selector) ==
    {CASE selector = "diverse" -> nodes[i].structure
       [] selector = "underexplored" -> nodes[i].lineage
       [] selector = "score_tier" -> nodes[i].label
       [] OTHER -> i : i \in DOMAIN nodes}
ShareOf(dsl) ==
    CASE dsl.selector = "elite" -> 4 - dsl.floor
      [] dsl.selector = "uncertain" -> window.shape.diversity
      [] dsl.selector = "pareto" -> window.shape.coverage
      [] OTHER -> 4
ParentsChosen(dsl) ==
    LET nodes == window.shape.nodes
        share == (Len(nodes) * ShareOf(dsl) + 3) \div 4
    IN Least({dsl.width, Cardinality(Kinds(nodes, dsl.selector)), IF share < 1 THEN 1 ELSE share})

\* 1 - floor bounds the concentration.
Spread(dsl) ==
    \/ dsl.selector = "baseline"
    \/ /\ window.shape.concentration <= 4 - dsl.floor
       /\ 4 <= ParentsChosen(dsl) * (4 - dsl.floor)

Affordable(dsl) ==
    /\ Least({dsl.cap, dsl.width * dsl.depth}) <= window.attempts
    /\ window.shape.spent <= dsl.cost /\ dsl.cost - window.shape.spent <= window.shape.cost

PassesSimulation(c) ==
    /\ c.window = window.id /\ window.shape.nodes # <<>>
    /\ Spread(c.dsl) /\ Affordable(c.dsl)

Row(policy, outcome) == [n |-> n, policy |-> policy, outcome |-> outcome]

\* Schema and shadow fail only for a snapshot that was tampered with.
Activate(c) ==
    /\ Call /\ PassesStatic(c) /\ PassesSimulation(c)
    /\ current' = c /\ known' = known \cup {c}
    /\ history' = Append(history, Row(c, "activated"))
    /\ used' = [p \in DOMAIN used \cup {c} |-> IF p \in DOMAIN used THEN used[p] ELSE 0]
    /\ UNCHANGED <<proposed, window, left>>

Reject(c) ==
    /\ Call /\ ~(PassesStatic(c) /\ PassesSimulation(c))
    /\ history' = Append(history, Row(c, "rejected"))
    /\ UNCHANGED <<current, known, proposed, window, left, used>>

\* _activated_ancestor_hashes: the root has no row of activation.
Parents(S) == {p.parent : p \in S} \ {None}
Elders(S, i) == S \cup Parents(S)
Ancestors(p) == FoldLeft(Elders, Parents({p}), [i \in 1 .. Cardinality(known) |-> i])
Activated == {history[i].policy : i \in {j \in DOMAIN history : history[j].outcome = "activated"}}

Targets == Ancestors(current) \cap Activated

Rollback(p) ==
    /\ Call /\ p \in Targets
    /\ current' = p
    /\ history' = Append(history, Row(p, "rolled_back"))
    /\ UNCHANGED <<known, proposed, window, left, used>>

-----------------------------------------------------------------------------
(* The scheduler.                                                          *)

Width ==
    Least({current.dsl.width, current.dsl.concurrency, MaxConcurrency, window.attempts,
           current.dsl.cap - used[current]})

Refuses == current.dsl.cap - used[current] <= 0 \/ window.attempts <= 0

\* A concentrated population is ranked as if its parents were underexplored.
Selector == IF window.shape.concentration > 4 - current.dsl.floor THEN "underexplored" ELSE current.dsl.selector

\* Best first, one per lineage.  Candidates of one rank stay in the order of
\* their ids, which alone ranks the others.
Key(node) ==
    CASE Selector = "elite" -> -node.tier
      [] Selector = "diverse" -> node.structure
      [] Selector \in {"underexplored", "uncertain"} -> node.lineage
      [] Selector = "score_tier" -> node.label
      [] OTHER -> 0
Place(nodes, i) ==
    Cardinality({j \in DOMAIN nodes : \/ Key(nodes[j]) < Key(nodes[i])
                                      \/ Key(nodes[j]) = Key(nodes[i]) /\ j <= i})
Rank(nodes) == [k \in DOMAIN nodes |-> nodes[CHOOSE i \in DOMAIN nodes : Place(nodes, i) = k]]
Pick(acc, x) == IF x.lineage \in LineagesOf(acc) THEN acc ELSE Append(acc, x)
OnePerLineage(nodes) == FoldLeft(Pick, <<>>, nodes)
Prefix(s, k) == SubSeq(s, 1, IF k < Len(s) THEN k ELSE Len(s))

\* No optimizer without a parent it may deepen.
Optimizers ==
    IF current.dsl.selector = "baseline" \/ window.shape.depth >= current.dsl.depth THEN 0
    ELSE Width - (2 * Width * current.dsl.explorers + 4) \div 8

Chosen == Prefix(OnePerLineage(Rank(window.shape.nodes)), Optimizers)
ReseedDue == n % current.dsl.reseed = 0

Room == Width - (IF ReseedDue THEN 1 ELSE 0)

\* The reseed takes an explorer's place, or else the last optimizer's; one
\* parent in a batch too small for the diversity floor gives way to explorers.
Batch ==
    LET kept == Prefix(Chosen, Room)
        keep == IF 4 <= Width * (4 - current.dsl.floor) THEN kept ELSE <<>>
    IN [reseed |-> ReseedDue, explorers |-> Room - Len(keep), parents |-> keep]

Size(batch) == (IF batch.reseed THEN 1 ELSE 0) + batch.explorers + Len(batch.parents)

\* The caller describes the population again before the next decision.
Schedule ==
    /\ Call /\ ~Refuses /\ Width >= 1
    /\ left' = left - Size(Batch)
    /\ used' = [used EXCEPT ![current] = @ + Size(Batch)]
    /\ window' = [window EXCEPT !.attempts = left']
    /\ UNCHANGED evolver

-----------------------------------------------------------------------------
Next ==
    \/ \E shape \in Shapes, id \in 0 .. MaxWindows : Describe(shape, id)
    \/ \E dsl \in Dsls : Propose(dsl)
    \/ \E c \in proposed : Activate(c) \/ Reject(c)
    \/ \E p \in known : Rollback(p)
    \/ Schedule

Spec == Init /\ [][Next]_vars

-----------------------------------------------------------------------------
(* Properties.                                                             *)

\* What a row of the strategy makes of the policy that is active.
Play(policy, row) ==
    CASE row.outcome = "rejected" -> policy
      [] row.outcome = "activated" /\ row.policy.parent = policy -> row.policy
      [] row.outcome = "rolled_back" /\ row.policy \in Ancestors(policy) -> row.policy
      [] OTHER -> None

\* The journal of the strategy tells how the active policy came to be: played
\* from the root, every activated policy was derived from the one active just
\* then, every rollback went to a policy
\* the active one descends from, and the last row's policy is the active one.
\* Proposals of one parent wait while another of them is activated, and a
\* rollback makes waiting ones fit again.
HistoryReplays == FoldLeft(Play, RootSnapshot, history) = current

\* A policy emits at most its cap of attempts over all its tenures: left by a
\* rollback and activated again it goes on where it stopped.
PolicyCapHolds == \A p \in DOMAIN used : used[p] <= p.dsl.cap

\* Whatever the population, the number of the call and the policy, a batch has
\* exactly the planned number of assignments, and no two parents of one lineage.
BatchIsWhole ==
    ~Refuses => /\ Size(Batch) = Width
                /\ Cardinality(LineagesOf(Batch.parents)) = Len(Batch.parents)
=============================================================================
