----------------------------- MODULE RunContract -----------------------------
(***************************************************************************)
(* What a workflow run promises to whoever reads its journal: no process,  *)
(* no lock, no crash, only the durable progress of the run.  Steps settle  *)
(* once, in dependency order and behind their gates; a parked run waits    *)
(* for one decision, which is final; a finished run does not change.       *)
(***************************************************************************)
CONSTANTS Steps, NoStep

VARIABLES
    flow,       \* the workflow (as in WorkflowRun)
    phase,      \* unborn, running, awaiting_approval, completed or failed
    done,       \* steps with an accepted output
    skipped,    \* steps whose branch was not taken
    decision,   \* what the human decided about each step
    gate        \* the step the run is parked at

cvars == <<flow, phase, done, skipped, decision, gate>>

Init ==
    /\ phase = "unborn"
    /\ done = {} /\ skipped = {} /\ gate = NoStep
    /\ decision = [s \in Steps |-> "none"]

Guarded(s) == flow.step[s].gate = "before" \/ flow.step[s].toolGate

Open(s) == s \notin done \cup skipped

Begin ==
    /\ phase = "unborn" /\ phase' = "running"
    /\ UNCHANGED <<flow, done, skipped, decision, gate>>

Complete(s) ==
    /\ phase = "running" /\ Open(s)
    /\ flow.step[s].deps \subseteq done
    /\ Guarded(s) => decision[s] = "approved"
    /\ done' = done \cup {s}
    /\ UNCHANGED <<flow, phase, skipped, decision, gate>>

Skip(s) ==
    /\ phase = "running" /\ Open(s)
    /\ flow.step[s].deps \subseteq done \cup skipped
    /\ skipped' = skipped \cup {s}
    /\ UNCHANGED <<flow, phase, done, decision, gate>>

\* Ask about s: before it runs, or about the output it left.
Ask(s) ==
    /\ phase = "running" /\ decision[s] = "none"
    /\ IF s \in done THEN flow.step[s].gate = "after" ELSE Guarded(s) /\ Open(s)
    /\ phase' = "awaiting_approval" /\ gate' = s
    /\ UNCHANGED <<flow, done, skipped, decision>>

Decide(d) ==
    /\ phase = "awaiting_approval" /\ phase' = "running"
    /\ decision' = [decision EXCEPT ![gate] = d] /\ gate' = NoStep
    /\ UNCHANGED <<flow, done, skipped>>

Finish ==
    /\ phase = "running" /\ phase' = "completed"
    /\ done \cup skipped = Steps
    /\ \A s \in done : flow.step[s].gate = "after" => decision[s] = "approved"
    /\ \A s \in Steps : decision[s] # "rejected"
    /\ UNCHANGED <<flow, done, skipped, decision, gate>>

Fail ==
    /\ phase \in {"running", "awaiting_approval"} /\ phase' = "failed"
    /\ UNCHANGED <<flow, done, skipped, decision, gate>>

Next ==
    \/ Begin \/ Finish \/ Fail
    \/ \E s \in Steps : Complete(s) \/ Skip(s) \/ Ask(s)
    \/ \E d \in {"approved", "rejected"} : Decide(d)

Spec == Init /\ [][Next]_cvars
=============================================================================
