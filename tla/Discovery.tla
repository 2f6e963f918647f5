------------------------------ MODULE Discovery ------------------------------
(* The parts of a discovery campaign that work beside its supervisor, in   *)
(* one specification: the knowledge hub (KnowledgeHub), the workspaces of  *)
(* the lineages (LineageWorkspace), the policy with its scheduler          *)
(* (SearchPolicy), and the heartbeats (Heartbeats).  They share no state   *)
(* but what the caller passes on; a behaviour is one of them.              *)
EXTENDS Integers, FiniteSets, Sequences

CONSTANTS
    None,
    Minted, Creators, Ids, MaxMinted, MaxRecoveries,              \* KnowledgeHub
    Lineages, MaxCommits, MaxReceipts, MaxReboots,                \* LineageWorkspace
    Dsls, RootDsl, Shapes, Budget, Parallel, MaxNumber, MaxWindows, MaxProposed,   \* SearchPolicy
    Beats, Populations, MaxTicks, MaxEngines                      \* Heartbeats

VARIABLES
    part,
    journal, submitted, issued, poisoned, hub, seen, recoveries,
    git, branch, tree, records, manager, sequence, doing, returned, receipts, reboots,
    number, current, known, proposed, history, window, remaining, spent,
    tick, appended, notes, fired, engines

Hub == INSTANCE KnowledgeHub WITH Assignments <- Minted, MaxAttempts <- MaxMinted
Workspaces == INSTANCE LineageWorkspace
                WITH mem <- records, mgr <- manager, seq <- sequence, op <- doing, out <- returned,
                     journal <- receipts, restarts <- reboots, MaxRestarts <- MaxReboots
Steering == INSTANCE SearchPolicy
              WITH n <- number, left <- remaining, used <- spent, Attempts <- Budget, MaxConcurrency <- Parallel
Pulse == INSTANCE Heartbeats WITH n <- tick, hub <- notes, MaxNumber <- MaxTicks

\* What the schema of a policy and of a population, and the budgets of a
\* campaign, admit.  Fractions are in quarters.
Selectors == {"baseline", "elite", "diverse", "underexplored", "uncertain", "score_tier", "pareto"}
Policies == [selector : Selectors, explorers : 0 .. 4, floor : 0 .. 4, cost : Nat,
             width : Nat \ {0}, concurrency : Nat \ {0}, depth : Nat \ {0}, reseed : Nat \ {0}, cap : Nat \ {0}]

Nodes == [lineage : Nat, tier : Nat, label : Nat, structure : Nat]
Descriptors == [nodes : Seq(Nodes), depth : Nat, concentration : 0 .. 4, diversity : 0 .. 4, coverage : 0 .. 4,
                spent : Nat, cost : Nat]

\* What a workspace manager knows of its lineages.  None is a value of its own.
Entries == [parent : Lineages \cup {None}, head : Nat, bounded : BOOLEAN, quarantined : BOOLEAN]
Standings == [Lineages -> Entries \cup {None}]

ASSUME DiscoveryAssumption ==
    /\ IsFiniteSet(Lineages) /\ None \notin Lineages /\ None \notin Entries /\ None \notin Standings
    /\ Dsls \cup {RootDsl} \subseteq Policies /\ Shapes \subseteq Descriptors
    /\ {Budget, Parallel} \subseteq Nat \ {0}

knowledge == <<journal, submitted, issued, poisoned, hub, seen, recoveries>>
workspaces == <<git, branch, tree, records, manager, sequence, doing, returned, receipts, reboots>>
steering == <<number, current, known, proposed, history, window, remaining, spent>>
pulse == <<tick, appended, notes, fired, engines>>
discovery == <<part, knowledge, workspaces, steering, pulse>>

DiscoveryInit ==
    /\ part \in {"knowledge", "workspaces", "steering", "pulse"}
    /\ Hub!Init /\ Workspaces!Init /\ Steering!Init /\ Pulse!Init

DiscoveryNext ==
    /\ UNCHANGED part
    /\ \/ part = "knowledge" /\ Hub!Next /\ UNCHANGED <<workspaces, steering, pulse>>
       \/ part = "workspaces" /\ Workspaces!Next /\ UNCHANGED <<knowledge, steering, pulse>>
       \/ part = "steering" /\ Steering!Next /\ UNCHANGED <<knowledge, workspaces, pulse>>
       \/ part = "pulse" /\ Pulse!Next /\ UNCHANGED <<knowledge, workspaces, steering>>

DiscoverySpec == DiscoveryInit /\ [][DiscoveryNext]_discovery

-----------------------------------------------------------------------------
(* The properties of the parts, under names a configuration can give.      *)

\* What a hub shows beyond its writer is durably accepted.
WritesAreIssued == Hub!WritesAreIssued

\* What is of a lineage is read and superseded under an assignment to it only.
LineagesAreKeptApart == Hub!LineagesAreKeptApart

\* The receipts of the manager replay, unless one straddles a commit of the worker,
\* and nothing grows from a quarantined lineage.
LineagesReplay == Workspaces!JournalsReplay /\ Workspaces!QuarantineHolds

\* The journal of the strategy explains the active policy, caps hold over all
\* tenures, batches are whole, and no firing is told without its artifact.
SteeringIsSound ==
    /\ Steering!HistoryReplays /\ Steering!PolicyCapHolds /\ Steering!BatchIsWhole
    /\ Pulse!FiringsHaveArtifacts
=============================================================================
