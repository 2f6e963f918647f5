----------------------------- MODULE Heartbeats -----------------------------
(***************************************************************************)
(* The heartbeats of a discovery campaign (discovery/heartbeat.py): policy *)
(* owned actions that fire on a plateau, on evidence or on a cadence, and  *)
(* leave a note in the knowledge hub or a proposal with the caller.  The   *)
(* engine remembers only what it appended; the caller keeps the numbers    *)
(* and the last firings.  An evaluation works on one beat after another    *)
(* and may raise in the middle.                                            *)
(***************************************************************************)
EXTENDS Integers, FiniteSets, SequencesExt

CONSTANTS
    Beats,           \* actions in the order of their ids: [id, trigger, kind, epsilon, cooldown, cost]
    Populations,     \* [steps, cost]: epsilon is a quarter, and no cost is -1
    MaxNumber, MaxEngines   \* bounds: numbers, engines over one hub

VARIABLES
    n,          \* the number of the evaluation to make
    appended,   \* keys this engine appended
    hub,        \* artifacts: [beat, n, population]
    fired,      \* what the caller was told: [beat, n, population]
    engines

vars == <<n, appended, hub, fired, engines>>

Init == n = 0 /\ appended = {} /\ hub = {} /\ fired = {} /\ engines = 1

TriggerHolds(b, population, evidence) ==
    CASE b.trigger = "plateau"  -> b.epsilon > 0 /\ population.steps * b.epsilon >= 4
      [] b.trigger = "time"     -> n > 0 /\ n % b.cooldown = 0
      [] b.trigger = "evidence" -> evidence

CoolingDown(b) == \E f \in fired : f.beat = b /\ n - f.n < b.cooldown

\* The beats that fire, in order, each paid from what is left of the cost
\* budget; the first costly one of a population without one raises.
Firing(population, evidence) ==
    LET due == SelectSeq(Beats, LAMBDA b : TriggerHolds(b, population, evidence) /\ ~CoolingDown(b))
        Pay(acc, b) ==
            IF acc.raises \/ (population.cost >= 0 /\ b.cost > acc.cost) THEN acc
            ELSE IF population.cost < 0 /\ b.cost > 0 THEN [acc EXCEPT !.raises = TRUE]
            ELSE [acc EXCEPT !.cost = @ - b.cost, !.beats = Append(@, b)]
    IN FoldLeft(Pay, [cost |-> population.cost, beats |-> <<>>, raises |-> FALSE], due)

Key(b) == [beat |-> b, n |-> n]
Artifact(b, population) == [beat |-> b, n |-> n, population |-> population]

\* A redirection is a proposal for the scheduler and leaves no artifact.
Appends(bs) == {b \in Range(bs) : b.kind # "redirection" /\ Key(b) \notin appended}

\* The hub refuses an id it has, and anything for reasons of its own.
Taken(b) == \E a \in hub : a.beat = b /\ a.n = n

AppendAll(bs, failing, population) ==
    /\ hub' = hub \cup {Artifact(b, population) : b \in Appends(bs)}
    /\ appended' = appended \cup {Key(b) : b \in Appends(bs)}

Evaluate(population, evidence) ==
    LET firing == Firing(population, evidence) IN
    /\ n < MaxNumber /\ n' = n + 1
    /\ ~firing.raises /\ \A b \in Appends(firing.beats) : ~Taken(b)
    /\ AppendAll(firing.beats, {}, population)
    /\ fired' = fired \cup {Artifact(b, population) : b \in Range(firing.beats)}
    /\ UNCHANGED engines

\* The caller learns of no firing and makes the call for this number again.
HubRefuses(population, evidence) ==
    LET firing == Firing(population, evidence).beats IN
    \E k \in 1 .. Len(firing) :
        /\ firing[k] \in Appends(firing)
        /\ \A b \in Appends(SubSeq(firing, 1, k - 1)) : ~Taken(b)
        /\ AppendAll(SubSeq(firing, 1, k - 1), {firing[k]}, population)
        /\ UNCHANGED <<n, fired, engines>>

NoBudget(population, evidence) ==
    LET firing == Firing(population, evidence) IN
    /\ firing.raises /\ \A b \in Appends(firing.beats) : ~Taken(b)
    /\ AppendAll(firing.beats, {}, population)
    /\ UNCHANGED <<n, fired, engines>>

\* A new engine over the same hub.
NewEngine ==
    /\ engines < MaxEngines /\ engines' = engines + 1 /\ appended' = {}
    /\ UNCHANGED <<n, hub, fired>>

Next ==
    \/ \E population \in Populations, evidence \in BOOLEAN :
          Evaluate(population, evidence) \/ HubRefuses(population, evidence) \/ NoBudget(population, evidence)
    \/ NewEngine

Spec == Init /\ [][Next]_vars

-----------------------------------------------------------------------------
(* Properties.                                                             *)

\* Every firing the caller learns of, redirections apart, has its one artifact
\* in the hub, also when the call for its number was raised half way and made
\* again, or made again by a new engine.  What the artifact says may be the
\* earlier call's: the key of a firing leaves the population out.
FiringsHaveArtifacts ==
    /\ \A f \in fired : f.beat.kind # "redirection" => \E a \in hub : a.beat = f.beat /\ a.n = f.n
    /\ \A a, b \in hub : a.beat = b.beat /\ a.n = b.n => a = b
=============================================================================
