------------------------------- MODULE Learner -------------------------------
(* The slow loop of learning (selflearn learning/gaps.py): failures are kept *)
(* until enough of one topic make a signal, which uses them up and silences  *)
(* the topic of that pack for some sweeps.  One process owns the loop; it    *)
(* dies at any point and starts again from learner-state.json, which the     *)
(* doctor (doctor.py) moves aside when it cannot be read.                    *)
EXTENDS Integers, FiniteSets

CONSTANTS Packs, Topics,
          Coverage,      \* [Packs -> [some topics -> {"claimed", "covered"}]]
          MinFailures, BackoffRounds, MaxFailures,
          MaxObserved, MaxCrashes

VARIABLES
    running,
    failures,    \* the retained failures, numbered from the oldest: [at, topic, got]
    backoff,     \* [Packs \X Topics -> Nat]
    file,        \* [state, failures, backoff]
    pc,          \* "idle", "observed" or "swept": what still has to be saved
    signals,     \* the signals of the sweep under way
    observed,    \* [Topics -> Nat]: the failures ever observed
    raised,      \* [Topics -> Nat]: the signals ever returned
    since,       \* [Packs \X Topics -> Nat]: the sweeps of the pack since it signalled the topic
    crashes

state == <<running, failures, backoff, file, pc, signals>>
vars == <<state, observed, raised, since, crashes>>

Keys == Packs \X Topics
Silent == BackoffRounds + 1     \* long enough ago
File(s, f, b) == [state |-> s, failures |-> f, backoff |-> b]
Fresh == [k \in Keys |-> 0]

Init ==
    /\ running = FALSE /\ failures = {} /\ backoff = Fresh
    /\ file = File("missing", {}, Fresh)
    /\ pc = "idle" /\ signals = {}
    /\ observed = [t \in Topics |-> 0] /\ raised = observed
    /\ since = [k \in Keys |-> Silent] /\ crashes = 0

\* A file that cannot be read stops the construction.
Start ==
    /\ ~running /\ file.state # "torn"
    /\ running' = TRUE /\ failures' = file.failures /\ backoff' = file.backoff
    /\ UNCHANGED <<file, pc, signals, observed, raised, since, crashes>>

\* Numbered anew after some are gone.
InOrder(s) == {[f EXCEPT !.at = Cardinality({g \in s : g.at <= f.at})] : f \in s}
Kept(s) == InOrder({f \in s : Cardinality({g \in s : g.at > f.at}) < MaxFailures})

\* A failed task, after its marks: kept, the oldest dropped at the cap.
Observe(t, got) ==
    /\ running /\ pc = "idle" /\ observed[t] < MaxObserved
    /\ LET new == [at |-> Cardinality(failures) + 1, topic |-> t, got |-> got]
       IN  failures' = Kept(failures \cup {new})
    /\ observed' = [observed EXCEPT ![t] = @ + 1]
    /\ pc' = "observed"
    /\ UNCHANGED <<running, backoff, file, signals, raised, since, crashes>>

\* The topics the pack's coverage map owns, and their failures.
Owned(p) == DOMAIN Coverage[p]
Of(t) == {f \in failures : f.topic = t}
Suppressed(p) == {t \in Topics : backoff[<<p, t>>] > 0}
Signalled(p) == {t \in Owned(p) \ Suppressed(p) : Cardinality(Of(t)) >= MinFailures}

\* Knowledge is missing, or it is there, was retrieved, and did not work.
Kind(p, t) ==
    IF Coverage[p][t] = "covered" /\ \E f \in Of(t) : f.got THEN "quality" ELSE "coverage"

\* Mutant: the failures stay after they made a signal.
UnusedKept(p) == failures
Unused(p) == InOrder({f \in failures : f.topic \notin Signalled(p)})

\* One sweep: every counter of the pack ages; each topic with enough failures
\* that is not silenced is signalled, its failures are used up.
Sweep(p) ==
    /\ running /\ pc = "idle"
    /\ signals' = {[pack |-> p, topic |-> t, kind |-> Kind(p, t)] : t \in Signalled(p)}
    /\ backoff' = [k \in Keys |->
                      IF k[1] # p THEN backoff[k]
                      ELSE IF k[2] \in Signalled(p) THEN BackoffRounds
                      ELSE IF backoff[k] > 0 THEN backoff[k] - 1 ELSE 0]
    /\ failures' = Unused(p)
    /\ since' = [k \in Keys |-> IF k[1] = p /\ since[k] < Silent THEN since[k] + 1 ELSE since[k]]
    /\ pc' = IF Signalled(p) \cup Suppressed(p) # {} THEN "swept" ELSE "idle"
    /\ UNCHANGED <<running, file, observed, raised, crashes>>

\* The whole state is written in place; only then are the signals returned.
Save ==
    /\ pc # "idle"
    /\ file' = File("fine", failures, backoff)
    /\ raised' = [t \in Topics |-> raised[t] + Cardinality({s \in signals : s.topic = t})]
    /\ since' = [k \in Keys |-> IF \E s \in signals : <<s.pack, s.topic>> = k THEN 0 ELSE since[k]]
    /\ pc' = "idle" /\ signals' = {}
    /\ UNCHANGED <<running, failures, backoff, observed, crashes>>

\* Killed, perhaps in the middle of a write.
Crash ==
    /\ running /\ crashes < MaxCrashes /\ crashes' = crashes + 1
    /\ \/ file' = file
       \/ pc # "idle" /\ file' = File("torn", {}, Fresh)
    /\ running' = FALSE /\ failures' = {} /\ backoff' = Fresh
    /\ pc' = "idle" /\ signals' = {}
    /\ UNCHANGED <<observed, raised, since>>

\* The evidence is lost with the file; the loop starts clean.
MoveAside ==
    /\ ~running /\ file.state = "torn"
    /\ file' = File("missing", {}, Fresh)
    /\ since' = [k \in Keys |-> Silent]
    /\ UNCHANGED <<running, failures, backoff, pc, signals, observed, raised, crashes>>

Next ==
    \/ Start \/ Save \/ Crash \/ MoveAside
    \/ \E t \in Topics, got \in BOOLEAN : Observe(t, got)
    \/ \E p \in Packs : Sweep(p)

Spec == Init /\ [][Next]_vars

(***************************************************************************)
(* Properties.                                                             *)

\* No failure counts twice: a topic has been signalled, by all packs together,
\* at most once for every MinFailures failures observed, whatever crashed in
\* between, and with a signal still under way.
FailuresCountOnce ==
    \A t \in Topics :
        /\ MinFailures * (raised[t] + Cardinality({s \in signals : s.topic = t})) <= observed[t]
        /\ MinFailures * raised[t] + (IF running THEN Cardinality(Of(t)) ELSE 0) <= observed[t]

\* A pack that has signalled a topic leaves it alone for BackoffRounds sweeps
\* of its own, across restarts, unless the counters were lost with the file.
SignalsKeepTheirDistance ==
    \A s \in signals : since[<<s.pack, s.topic>>] > BackoffRounds
=============================================================================
