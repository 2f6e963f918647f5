------------------------------ MODULE Records ------------------------------
(* What outlives every process, in one specification: the evidence of a    *)
(* project's campaigns (ScaffoldCampaign), its memory (MemoryBroker), and  *)
(* what it has learned: its packs (PackStore), the state of the loop       *)
(* (Learner) and its compiled executors (Executors).  They share no file;  *)
(* a behaviour is one of them.                                             *)
EXTENDS ScaffoldCampaign

CONSTANTS
    Words, Texts, Scopes, Project, Policy, Seeds, Callers, None, MaxRows, MaxReopens,
    Entries, Procs, Threshold, MaxMarks, MaxFaults, MaxOps,
    Packs, Topics, Coverage, MinFailures, BackoffRounds, MaxFailures, MaxObserved, MaxDeaths,
    Sources, Procedures, CompiledFrom, Gates, MaxCalls, MaxKills, MaxChanges,
    FirstProcedure          \* the procedure of the entry that gets executors

VARIABLES part, rows, indexed, attested, counter, txn, caller, reopens,
    md, strays, manifest, probes, vectors, broken, mem, todo, doctor, shared, faults, ops,
    running, failures, backoff, file, step, signals, observed, raised, since, deaths,
    registry, source, procedure, known, baseline, call, earned, served, ran, lone, calls, kills, changes

Memory == INSTANCE MemoryBroker WITH Runs <- Callers, run <- caller
Pack == INSTANCE PackStore
Loop == INSTANCE Learner WITH pc <- step, crashes <- deaths, MaxCrashes <- MaxDeaths
Compiled == INSTANCE Executors WITH crashes <- kills, MaxCrashes <- MaxKills

\* What an operator gives for a record, and what the registry keeps of one.
Fields == {"scope", "text", "sens", "life", "act", "sources", "supersedes"}
ExecutorRecords ==
    [src : Sources, status : {"quarantined", "active", "rejected", "superseded"}, receipt : Nat]

\* A record that is committed as it is derives from nothing; a failure makes no
\* signal by itself; a topic that a map covers is a topic; a procedure is what
\* a source was compiled from; and None is no source and no record.
ASSUME RecordsAssumption ==
    /\ \A seed \in Seeds :
          seed = [f \in Fields |-> seed[f]] /\ seed.sources = {} /\ seed.supersedes = {}
    /\ MinFailures \in Nat \ {0} /\ BackoffRounds \in Nat
    /\ \A p \in Packs : DOMAIN Coverage[p] \subseteq Topics
    /\ FirstProcedure \in Procedures /\ CompiledFrom \in [Sources -> Procedures]
    /\ {None, "other"} \cap Sources = {} /\ None \notin ExecutorRecords

campaigns == <<ledger, opened, disk, pc, run, crashes>>
memory == <<rows, indexed, attested, counter, txn, caller, reopens>>
packs == <<md, strays, manifest, probes, vectors, broken, mem, todo, doctor, shared, faults, ops>>
learning == <<running, failures, backoff, file, step, signals, observed, raised, since, deaths>>
executors == <<registry, source, procedure, known, baseline, call, earned, served, ran, lone, calls, kills, changes>>
all == <<part, campaigns, memory, packs, learning, executors>>

RecordsInit ==
    /\ part \in {"campaigns", "memory", "packs", "learning", "executors"}
    /\ Init /\ Memory!Init /\ Pack!Init /\ Loop!Init /\ Compiled!Init
    /\ procedure = FirstProcedure
    /\ part # "packs" => manifest.state = "fine"
    /\ part # "executors" => baseline

RecordsNext ==
    /\ UNCHANGED part
    /\ \/ part = "campaigns" /\ Next /\ UNCHANGED <<memory, packs, learning, executors>>
       \/ part = "memory" /\ Memory!Next /\ UNCHANGED <<campaigns, packs, learning, executors>>
       \/ part = "packs" /\ Pack!Next /\ UNCHANGED <<campaigns, memory, learning, executors>>
       \/ part = "learning" /\ Loop!Next /\ UNCHANGED <<campaigns, memory, packs, executors>>
       \/ part = "executors" /\ Compiled!Next /\ UNCHANGED <<campaigns, memory, packs, learning>>

RecordsSpec == RecordsInit /\ [][RecordsNext]_all

\* The properties of the other parts, under names a configuration can give.
WritesAreFreshAndWhole == Memory!NextWriteIsFresh /\ Memory!WritesAreWhole
NothingIsLaundered == Memory!NothingIsLaundered
PacksHeal == Pack!DoctorHeals /\ Pack!WritesThrough
SignalsAreEarned == Loop!FailuresCountOnce /\ Loop!SignalsKeepTheirDistance
ExecutorsAreEarned == Compiled!OnlyEarnedRun /\ Compiled!SwapsLeaveOne /\ Compiled!DoctorTells
=============================================================================
