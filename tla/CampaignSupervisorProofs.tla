---------------------- MODULE CampaignSupervisorProofs ----------------------
(***************************************************************************)
(* Proofs that a supervisor's own journals replay and that its budgets and *)
(* its memory survive crashes, for any finite set of attempts, any         *)
(* budgets, clocks that go wrong and any number of crashes.                *)
(*                                                                         *)
(* The inductive invariant SupInv sets the memory beside the replay of the *)
(* journal: as long as the journal is accepted they are the same but for   *)
(* the time of the last event, and the budgets of the calls that were      *)
(* really made, and of those still to come, are kept also after a refusal. *)
(* A call of the supervisor writes several events of which any prefix may  *)
(* be all that lasts, so a turn is followed event by event (On, Written).  *)
(* A stop and a recovery go over attempts one after another: what Folding  *)
(* proves of folds, by induction over a set, carries a loop invariant      *)
(* (Recovering) from one attempt to the next.                              *)
(***************************************************************************)
EXTENDS CampaignSupervisor, FiniteSetTheorems, SequenceTheorems, TLAPS

\* The events of a journal.
Kinds == Intents \cup
    {"prepared", "stop_requested", "stopped", "submit.outcome", "launch.outcome", "checkpoint.outcome",
     "evaluate.outcome", "interrupted", "terminal"}
\* The intent an attempt waits for.
Pendings == Intents \cup {"none"}
\* The states of an attempt.
States == {"none", "intended", "ended"} \cup Unfinished
\* What is reported of a call, and how an attempt ends.
Reports == {"none", "completed", "crashed", "worker_error", "evaluator_error", "cancelled", "timed_out",
            "COMPLETED", "CRASHED", "WORKER_ERROR", "EVALUATOR_ERROR", "CANCELLED", "TIMED_OUT", "FAILED", "OMITTED"}
\* Where the task of an attempt is.
Places == {"idle", "waiting", "executing", "evaluating"}

\* What operation and replay both keep.
Lives == [campaign : {"prepared", "running", "stopping", "stopped"}, deadline : Int, last : Nat, evals : Nat, submitted : Nat,
          state : [Attempts -> States], restarts : [Attempts -> Nat], due : [Attempts -> Int]]
\* The calls that were really made.
Calls == [evaluate : Nat, launch : [Attempts -> Nat], resume : [Attempts -> Nat]]
\* What replay makes of a journal.
Replays == [live : Lives, ok : BOOLEAN, why : {"none", "scored", "monotonic", "other"}, calls : Calls, order : Seq(Attempts),
            pending : [Attempts -> Pendings], launch : [Attempts -> Reports],
            evaluate : [Attempts -> Reports]]

\* No element twice.
Once(s) == \A i, j \in DOMAIN s : s[i] = s[j] => i = j

\* A launch that is still to come is covered: by the first one, the restarts
\* and what was resumed without a report.
Payable(launched, resumed, state, pending, restarts) ==
    launched + (IF state \in Launchable \cup {"none", "intended"} /\ pending # "launch.intent" THEN 1 ELSE 0)
        <= 1 + restarts + resumed

\* What the last intent of an attempt says of its state, and the order of the
\* accepted submissions of those that are not finished.
Steady(s, a) ==
    /\ s.pending[a] = "submit.intent" <=> s.live.state[a] = "intended"
    /\ s.pending[a] = "launch.intent" => s.live.state[a] \in Launchable /\ s.evaluate[a] = "none"
    /\ s.pending[a] \in {"checkpoint.intent", "evaluate.intent"} => s.live.state[a] \in Active
    /\ s.live.state[a] \in Unfinished => a \in Range(s.order)
    /\ a \in Range(s.order) => s.live.state[a] \notin {"none", "intended"}

\* An attempt as the replay s has it.
At(s, a) ==
    /\ Steady(s, a) /\ s.live.restarts[a] <= MaxRestarts
    /\ Payable(s.calls.launch[a], s.calls.resume[a], s.live.state[a], s.pending[a], s.live.restarts[a])

\* The budgets, in what was really called.
Within(calls) ==
    /\ calls.evaluate <= MaxEvaluations
    /\ \A a \in Attempts : calls.launch[a] <= 1 + MaxRestarts + calls.resume[a]

\* A replay that refuses nothing but what a score or a monotonic clock explains.
Good(s) ==
    /\ s \in Replays /\ s.why # "other" /\ Within(s.calls)
    /\ s.ok => Once(s.order) /\ s.calls.evaluate = s.live.evals /\ \A a \in Attempts : At(s, a)

\* The same but for the time of the last event.
Agree(l, m) ==
    /\ l.campaign = m.campaign /\ l.deadline = m.deadline /\ l.evals = m.evals
    /\ l.submitted = m.submitted /\ l.state = m.state /\ l.restarts = m.restarts /\ l.due = m.due

\* The memory m, between two events, beside the replay s of the journal: the
\* budgets of what is to come, and, unless the journal was refused, the same.
Track(s, m, pending, now) ==
    /\ m \in Lives /\ pending \in [Attempts -> Pendings] /\ m.evals = s.calls.evaluate
    /\ \A a \in Attempts :
          /\ m.restarts[a] <= MaxRestarts
          /\ Payable(s.calls.launch[a], s.calls.resume[a], m.state[a], pending[a], m.restarts[a])
    /\ s.ok => s.pending = pending /\ s.live.last <= now /\ Agree(s.live, m)

\* The intents that wait for an answer, by where the calls are.
Pending(p) == [a \in Attempts |-> IF p[a] = "executing" THEN "launch.intent"
                                  ELSE IF p[a] = "evaluating" THEN "evaluate.intent" ELSE "none"]

\* Who is waited for, and who is queued.
Manned(state, p, q) ==
    /\ p \in [Attempts -> Places] /\ q \in Seq(Attempts) /\ Once(q)
    /\ \A a \in Attempts :
          /\ p[a] \in {"waiting", "executing"} => state[a] \in Launchable
          /\ p[a] = "evaluating" => state[a] = "checkpointed"
          /\ a \in Range(q) => p[a] = "idle" /\ state[a] \in Launchable

\* The inductive invariant.
SupInv ==
    /\ wall \in Nat /\ up \in BOOLEAN /\ Good(durable)
    /\ up => Track(durable, mem, Pending(pc), mem.last) /\ Manned(mem.state, pc, queue)
    /\ ~up => mem = Fresh /\ pc = Each("idle") /\ queue = << >>

-----------------------------------------------------------------------------
(* What replay makes of each kind of event, accepted or refused.           *)

\* An event of the journal.
Events == [kind : Kinds, of : Attempts \cup {NoAttempt}, status : Reports, restarts : Nat,
           evals : Nat, seconds : Int, wall : Nat]

\* r is the replay s after one more event that it accepts.
Grew(r, s, live, calls, order, pending, launch, evaluate) ==
    /\ r \in Replays /\ r.ok /\ r.why = s.why
    /\ r.live = live /\ r.calls = calls /\ r.order = order
    /\ r.pending = pending /\ r.launch = launch /\ r.evaluate = evaluate

\* Budgets are numbers.
LEMMA Numbers ==
    {MaxRestarts, MaxTime} \subseteq Nat /\ MaxRestarts \in Nat /\ MaxWall \in Nat \ {0}
BY CampaignSupervisorAssumption

\* An accepted event is written as its effect and counted.
LEMMA WriteLegal ==
    ASSUME NEW s, s.ok, NEW e, Legal(s, e)
    PROVE  Write(s, e) = [Effect(s, e) EXCEPT !.calls = Count(s, e)]
BY DEF Write, Observe

\* The fields of a replay.
LEMMA Fields ==
    ASSUME NEW s \in Replays
    PROVE  /\ DOMAIN s = {"live", "ok", "why", "calls", "order", "pending", "launch", "evaluate"}
           /\ DOMAIN s.live = {"campaign", "deadline", "last", "evals", "submitted", "state", "restarts", "due"}
           /\ DOMAIN s.calls = {"evaluate", "launch", "resume"}
BY DEF Replays, Lives, Calls

\* Counting a call leaves counts.
LEMMA CallsKeep ==
    ASSUME NEW c \in Calls
    PROVE  /\ [c EXCEPT !.evaluate = @ + 1] \in Calls
           /\ \A a \in Attempts : [c EXCEPT !.launch[a] = @ + 1] \in Calls
           /\ \A a \in Attempts : [c EXCEPT !.resume[a] = @ + 1] \in Calls
BY DEF Calls

\* No report is one, too.
LEMMA NoneIsReport == "none" \in Reports
BY DEF Reports

\* The states the supervisor assigns.
LEMMA StatesAre ==
    "intended" \in States /\ "ended" \in States /\ "prepared" \in States /\ "interrupted" \in States
      /\ "running" \in States /\ "checkpointed" \in States
BY DEF States, Unfinished, MidFlight, Active

\* What replay makes of the event: prepared.
LEMMA PreparedWrites ==
    ASSUME NEW s \in Replays, s.ok, NEW e \in Events, e.kind = "prepared", Legal(s, e)
    PROVE  Grew(Write(s, e), s, [s.live EXCEPT !.last = e.wall, !.campaign = "running", !.deadline = e.wall + MaxWall],
                s.calls, s.order, s.pending, s.launch, s.evaluate)
<1> DEFINE r == Write(s, e)
<1>1. r = [[[s EXCEPT !.live.last = e.wall] EXCEPT !.live.campaign = "running", !.live.deadline = e.wall + MaxWall]
              EXCEPT !.calls = Count(s, e)]
  BY WriteLegal DEF Effect, Intents
<1>2. Count(s, e) = s.calls /\ s.calls \in Calls
  BY CallsKeep DEF Replays, Count, Intents
<1> HIDE DEF r
<1>3. r.live = [s.live EXCEPT !.last = e.wall, !.campaign = "running", !.deadline = e.wall + MaxWall]
  BY <1>1, Fields
<1>4. r.calls = s.calls /\ r.ok = s.ok /\ r.why = s.why /\ r.order = s.order
  <2>1. r.calls = Count(s, e) /\ r.ok = s.ok /\ r.why = s.why /\ r.order = s.order
    BY <1>1, Fields
  <2> QED BY <2>1, <1>2
<1>5. /\ r.pending = s.pending /\ r.launch = s.launch
      /\ r.evaluate = s.evaluate
  BY <1>1, Fields
<1>6. r.live \in Lives
  <2>1. r.live = [campaign |-> "running", deadline |-> e.wall + MaxWall, last |-> e.wall,
                  evals |-> s.live.evals, submitted |-> s.live.submitted, state |-> s.live.state,
                  restarts |-> s.live.restarts, due |-> s.live.due]
    BY <1>3, Fields
  <2>2. (e.wall + MaxWall) \in Int
    BY Numbers DEF Events
  <2> QED BY <2>1, <2>2 DEF Replays, Lives, Events
<1>7. r.pending \in [Attempts -> Pendings] /\ r.order \in Seq(Attempts)
  BY <1>4, <1>5 DEF Replays, Pendings, Intents
<1>8. r.launch \in [Attempts -> Reports] /\ r.evaluate \in [Attempts -> Reports]
  BY <1>5, NoneIsReport DEF Replays, Events
<1>9. r \in Replays
  <2>1. r = [live |-> r.live, ok |-> r.ok, why |-> r.why, calls |-> r.calls, order |-> r.order,
             pending |-> r.pending, launch |-> r.launch, evaluate |-> r.evaluate]
    BY <1>1, Fields
  <2> QED BY <1>2, <1>4, <1>6, <1>7, <1>8, <2>1 DEF Replays
<1> QED BY <1>3, <1>4, <1>5, <1>9 DEF Grew, r

\* What replay makes of the event: stop requested.
LEMMA StopRequestedWrites ==
    ASSUME NEW s \in Replays, s.ok, NEW e \in Events, e.kind = "stop_requested", Legal(s, e)
    PROVE  Grew(Write(s, e), s, [s.live EXCEPT !.last = e.wall, !.campaign = "stopping"],
                s.calls, s.order, s.pending, s.launch, s.evaluate)
<1> DEFINE r == Write(s, e)
<1>1. r = [[[s EXCEPT !.live.last = e.wall] EXCEPT !.live.campaign = "stopping"]
              EXCEPT !.calls = Count(s, e)]
  BY WriteLegal DEF Effect, Intents
<1>2. Count(s, e) = s.calls /\ s.calls \in Calls
  BY CallsKeep DEF Replays, Count, Intents
<1> HIDE DEF r
<1>3. r.live = [s.live EXCEPT !.last = e.wall, !.campaign = "stopping"]
  BY <1>1, Fields
<1>4. r.calls = s.calls /\ r.ok = s.ok /\ r.why = s.why /\ r.order = s.order
  <2>1. r.calls = Count(s, e) /\ r.ok = s.ok /\ r.why = s.why /\ r.order = s.order
    BY <1>1, Fields
  <2> QED BY <2>1, <1>2
<1>5. /\ r.pending = s.pending /\ r.launch = s.launch
      /\ r.evaluate = s.evaluate
  BY <1>1, Fields
<1>6. r.live \in Lives
  <2>1. r.live = [campaign |-> "stopping", deadline |-> s.live.deadline, last |-> e.wall,
                  evals |-> s.live.evals, submitted |-> s.live.submitted, state |-> s.live.state,
                  restarts |-> s.live.restarts, due |-> s.live.due]
    BY <1>3, Fields
  <2> QED BY <2>1 DEF Replays, Lives, Events
<1>7. r.pending \in [Attempts -> Pendings] /\ r.order \in Seq(Attempts)
  BY <1>4, <1>5 DEF Replays, Pendings, Intents
<1>8. r.launch \in [Attempts -> Reports] /\ r.evaluate \in [Attempts -> Reports]
  BY <1>5, NoneIsReport DEF Replays, Events
<1>9. r \in Replays
  <2>1. r = [live |-> r.live, ok |-> r.ok, why |-> r.why, calls |-> r.calls, order |-> r.order,
             pending |-> r.pending, launch |-> r.launch, evaluate |-> r.evaluate]
    BY <1>1, Fields
  <2> QED BY <1>2, <1>4, <1>6, <1>7, <1>8, <2>1 DEF Replays
<1> QED BY <1>3, <1>4, <1>5, <1>9 DEF Grew, r

\* What replay makes of the event: stopped.
LEMMA StoppedWrites ==
    ASSUME NEW s \in Replays, s.ok, NEW e \in Events, e.kind = "stopped", Legal(s, e)
    PROVE  Grew(Write(s, e), s, [s.live EXCEPT !.last = e.wall, !.campaign = "stopped"],
                s.calls, s.order, s.pending, s.launch, s.evaluate)
<1> DEFINE r == Write(s, e)
<1>1. r = [[[s EXCEPT !.live.last = e.wall] EXCEPT !.live.campaign = "stopped"]
              EXCEPT !.calls = Count(s, e)]
  BY WriteLegal DEF Effect, Intents
<1>2. Count(s, e) = s.calls /\ s.calls \in Calls
  BY CallsKeep DEF Replays, Count, Intents
<1> HIDE DEF r
<1>3. r.live = [s.live EXCEPT !.last = e.wall, !.campaign = "stopped"]
  BY <1>1, Fields
<1>4. r.calls = s.calls /\ r.ok = s.ok /\ r.why = s.why /\ r.order = s.order
  <2>1. r.calls = Count(s, e) /\ r.ok = s.ok /\ r.why = s.why /\ r.order = s.order
    BY <1>1, Fields
  <2> QED BY <2>1, <1>2
<1>5. /\ r.pending = s.pending /\ r.launch = s.launch
      /\ r.evaluate = s.evaluate
  BY <1>1, Fields
<1>6. r.live \in Lives
  <2>1. r.live = [campaign |-> "stopped", deadline |-> s.live.deadline, last |-> e.wall,
                  evals |-> s.live.evals, submitted |-> s.live.submitted, state |-> s.live.state,
                  restarts |-> s.live.restarts, due |-> s.live.due]
    BY <1>3, Fields
  <2> QED BY <2>1 DEF Replays, Lives, Events
<1>7. r.pending \in [Attempts -> Pendings] /\ r.order \in Seq(Attempts)
  BY <1>4, <1>5 DEF Replays, Pendings, Intents
<1>8. r.launch \in [Attempts -> Reports] /\ r.evaluate \in [Attempts -> Reports]
  BY <1>5, NoneIsReport DEF Replays, Events
<1>9. r \in Replays
  <2>1. r = [live |-> r.live, ok |-> r.ok, why |-> r.why, calls |-> r.calls, order |-> r.order,
             pending |-> r.pending, launch |-> r.launch, evaluate |-> r.evaluate]
    BY <1>1, Fields
  <2> QED BY <1>2, <1>4, <1>6, <1>7, <1>8, <2>1 DEF Replays
<1> QED BY <1>3, <1>4, <1>5, <1>9 DEF Grew, r

\* What replay makes of the event: submit intent.
LEMMA SubmitIntentWrites ==
    ASSUME NEW s \in Replays, s.ok, NEW e \in Events, e.kind = "submit.intent", e.of \in Attempts, Legal(s, e)
    PROVE  Grew(Write(s, e), s, [s.live EXCEPT !.last = e.wall, !.state[e.of] = "intended"],
                s.calls, s.order, [s.pending EXCEPT ![e.of] = e.kind], s.launch, s.evaluate)
<1> DEFINE r == Write(s, e)
<1>1. r = [[[s EXCEPT !.live.last = e.wall] EXCEPT !.live.state[e.of] = "intended", !.pending[e.of] = e.kind]
              EXCEPT !.calls = Count(s, e)]
  BY WriteLegal DEF Effect, Intents
<1>2. Count(s, e) = s.calls /\ s.calls \in Calls
  BY CallsKeep DEF Replays, Count, Intents
<1> HIDE DEF r
<1>3. r.live = [s.live EXCEPT !.last = e.wall, !.state[e.of] = "intended"]
  BY <1>1, Fields
<1>4. r.calls = s.calls /\ r.ok = s.ok /\ r.why = s.why /\ r.order = s.order
  <2>1. r.calls = Count(s, e) /\ r.ok = s.ok /\ r.why = s.why /\ r.order = s.order
    BY <1>1, Fields
  <2> QED BY <2>1, <1>2
<1>5. /\ r.pending = [s.pending EXCEPT ![e.of] = e.kind] /\ r.launch = s.launch
      /\ r.evaluate = s.evaluate
  BY <1>1, Fields
<1>6. r.live \in Lives
  <2>1. r.live = [campaign |-> s.live.campaign, deadline |-> s.live.deadline, last |-> e.wall,
                  evals |-> s.live.evals, submitted |-> s.live.submitted, state |-> [s.live.state EXCEPT ![e.of] = "intended"],
                  restarts |-> s.live.restarts, due |-> s.live.due]
    BY <1>3, Fields
  <2>2. ([s.live.state EXCEPT ![e.of] = "intended"]) \in [Attempts -> States]
    BY StatesAre DEF Replays, Lives, Events
  <2> QED BY <2>1, <2>2 DEF Replays, Lives, Events
<1>7. r.pending \in [Attempts -> Pendings] /\ r.order \in Seq(Attempts)
  BY <1>4, <1>5 DEF Replays, Pendings, Intents
<1>8. r.launch \in [Attempts -> Reports] /\ r.evaluate \in [Attempts -> Reports]
  BY <1>5, NoneIsReport DEF Replays, Events
<1>9. r \in Replays
  <2>1. r = [live |-> r.live, ok |-> r.ok, why |-> r.why, calls |-> r.calls, order |-> r.order,
             pending |-> r.pending, launch |-> r.launch, evaluate |-> r.evaluate]
    BY <1>1, Fields
  <2> QED BY <1>2, <1>4, <1>6, <1>7, <1>8, <2>1 DEF Replays
<1> QED BY <1>3, <1>4, <1>5, <1>9 DEF Grew, r

\* What replay makes of the event: submit outcome.
LEMMA SubmitOutcomeWrites ==
    ASSUME NEW s \in Replays, s.ok, NEW e \in Events, e.kind = "submit.outcome", e.of \in Attempts, Legal(s, e)
    PROVE  Grew(Write(s, e), s, [s.live EXCEPT !.last = e.wall, !.state[e.of] = "prepared", !.submitted = @ + 1],
                s.calls, Append(s.order, e.of), [s.pending EXCEPT ![e.of] = "none"], s.launch, s.evaluate)
<1> DEFINE r == Write(s, e)
<1>1. r = [[[s EXCEPT !.live.last = e.wall] EXCEPT !.live.state[e.of] = "prepared", !.pending[e.of] = "none", !.live.submitted = @ + 1, !.order = Append(@, e.of)]
              EXCEPT !.calls = Count(s, e)]
  BY WriteLegal DEF Effect, Intents
<1>2. Count(s, e) = s.calls /\ s.calls \in Calls
  BY CallsKeep DEF Replays, Count, Intents
<1> HIDE DEF r
<1>3. r.live = [s.live EXCEPT !.last = e.wall, !.state[e.of] = "prepared", !.submitted = @ + 1]
  BY <1>1, Fields
<1>4. r.calls = s.calls /\ r.ok = s.ok /\ r.why = s.why /\ r.order = Append(s.order, e.of)
  <2>1. r.calls = Count(s, e) /\ r.ok = s.ok /\ r.why = s.why /\ r.order = Append(s.order, e.of)
    BY <1>1, Fields
  <2> QED BY <2>1, <1>2
<1>5. /\ r.pending = [s.pending EXCEPT ![e.of] = "none"] /\ r.launch = s.launch
      /\ r.evaluate = s.evaluate
  BY <1>1, Fields
<1>6. r.live \in Lives
  <2>1. r.live = [campaign |-> s.live.campaign, deadline |-> s.live.deadline, last |-> e.wall,
                  evals |-> s.live.evals, submitted |-> s.live.submitted + 1, state |-> [s.live.state EXCEPT ![e.of] = "prepared"],
                  restarts |-> s.live.restarts, due |-> s.live.due]
    BY <1>3, Fields
  <2>2. (s.live.submitted + 1) \in Nat /\ ([s.live.state EXCEPT ![e.of] = "prepared"]) \in [Attempts -> States]
    BY StatesAre DEF Replays, Lives, Events
  <2> QED BY <2>1, <2>2 DEF Replays, Lives, Events
<1>7. r.pending \in [Attempts -> Pendings] /\ r.order \in Seq(Attempts)
  BY <1>4, <1>5 DEF Replays, Pendings, Intents
<1>8. r.launch \in [Attempts -> Reports] /\ r.evaluate \in [Attempts -> Reports]
  BY <1>5, NoneIsReport DEF Replays, Events
<1>9. r \in Replays
  <2>1. r = [live |-> r.live, ok |-> r.ok, why |-> r.why, calls |-> r.calls, order |-> r.order,
             pending |-> r.pending, launch |-> r.launch, evaluate |-> r.evaluate]
    BY <1>1, Fields
  <2> QED BY <1>2, <1>4, <1>6, <1>7, <1>8, <2>1 DEF Replays
<1> QED BY <1>3, <1>4, <1>5, <1>9 DEF Grew, r

\* What replay makes of the event: launch intent.
LEMMA LaunchIntentWrites ==
    ASSUME NEW s \in Replays, s.ok, NEW e \in Events, e.kind = "launch.intent", e.of \in Attempts, Legal(s, e)
    PROVE  Grew(Write(s, e), s, [s.live EXCEPT !.last = e.wall, !.due[e.of] = IF @ = Unset THEN e.wall + AttemptTimeout ELSE @],
                [s.calls EXCEPT !.launch[e.of] = @ + 1], s.order, [s.pending EXCEPT ![e.of] = e.kind], [s.launch EXCEPT ![e.of] = "none"], [s.evaluate EXCEPT ![e.of] = "none"])
<1> DEFINE r == Write(s, e)
<1>1. r = [[[s EXCEPT !.live.last = e.wall] EXCEPT !.pending[e.of] = e.kind, !.launch[e.of] = "none", !.evaluate[e.of] = "none", !.live.due[e.of] = IF @ = Unset THEN e.wall + AttemptTimeout ELSE @]
              EXCEPT !.calls = Count(s, e)]
  BY WriteLegal DEF Effect, Intents
<1>2. Count(s, e) = [s.calls EXCEPT !.launch[e.of] = @ + 1] /\ [s.calls EXCEPT !.launch[e.of] = @ + 1] \in Calls
  BY CallsKeep DEF Replays, Count, Intents
<1> HIDE DEF r
<1>3. r.live = [s.live EXCEPT !.last = e.wall, !.due[e.of] = IF @ = Unset THEN e.wall + AttemptTimeout ELSE @]
  BY <1>1, Fields
<1>4. r.calls = [s.calls EXCEPT !.launch[e.of] = @ + 1] /\ r.ok = s.ok /\ r.why = s.why /\ r.order = s.order
  <2>1. r.calls = Count(s, e) /\ r.ok = s.ok /\ r.why = s.why /\ r.order = s.order
    BY <1>1, Fields
  <2> QED BY <2>1, <1>2
<1>5. /\ r.pending = [s.pending EXCEPT ![e.of] = e.kind] /\ r.launch = [s.launch EXCEPT ![e.of] = "none"]
      /\ r.evaluate = [s.evaluate EXCEPT ![e.of] = "none"]
  BY <1>1, Fields
<1>6. r.live \in Lives
  <2>1. r.live = [campaign |-> s.live.campaign, deadline |-> s.live.deadline, last |-> e.wall,
                  evals |-> s.live.evals, submitted |-> s.live.submitted, state |-> s.live.state,
                  restarts |-> s.live.restarts, due |-> [s.live.due EXCEPT ![e.of] = IF @ = Unset THEN e.wall + AttemptTimeout ELSE @]]
    BY <1>3, Fields
  <2>2. /\ s.live.due \in [Attempts -> Int] /\ s.live.due[e.of] \in Int
        /\ e.wall + AttemptTimeout \in Int
    <3>1. e.wall \in Nat /\ s.live.due \in [Attempts -> Int]
      BY DEF Replays, Lives, Events
    <3>2. AttemptTimeout \in Nat
      BY CampaignSupervisorAssumption
    <3> QED BY <3>1, <3>2
  <2> QED BY <2>1, <2>2 DEF Replays, Lives, Events
<1>7. r.pending \in [Attempts -> Pendings] /\ r.order \in Seq(Attempts)
  BY <1>4, <1>5 DEF Replays, Pendings, Intents
<1>8. r.launch \in [Attempts -> Reports] /\ r.evaluate \in [Attempts -> Reports]
  BY <1>5, NoneIsReport DEF Replays, Events
<1>9. r \in Replays
  <2>1. r = [live |-> r.live, ok |-> r.ok, why |-> r.why, calls |-> r.calls, order |-> r.order,
             pending |-> r.pending, launch |-> r.launch, evaluate |-> r.evaluate]
    BY <1>1, Fields
  <2> QED BY <1>2, <1>4, <1>6, <1>7, <1>8, <2>1 DEF Replays
<1> QED BY <1>3, <1>4, <1>5, <1>9 DEF Grew, r

\* What replay makes of the event: launch outcome.
LEMMA LaunchOutcomeWrites ==
    ASSUME NEW s \in Replays, s.ok, NEW e \in Events, e.kind = "launch.outcome", e.of \in Attempts, Legal(s, e)
    PROVE  Grew(Write(s, e), s, [s.live EXCEPT !.last = e.wall, !.state[e.of] = "running"],
                s.calls, s.order, [s.pending EXCEPT ![e.of] = "none"], [s.launch EXCEPT ![e.of] = e.status], s.evaluate)
<1> DEFINE r == Write(s, e)
<1>1. r = [[[s EXCEPT !.live.last = e.wall] EXCEPT !.live.state[e.of] = "running", !.pending[e.of] = "none", !.launch[e.of] = e.status]
              EXCEPT !.calls = Count(s, e)]
  BY WriteLegal DEF Effect, Intents
<1>2. Count(s, e) = s.calls /\ s.calls \in Calls
  BY CallsKeep DEF Replays, Count, Intents
<1> HIDE DEF r
<1>3. r.live = [s.live EXCEPT !.last = e.wall, !.state[e.of] = "running"]
  BY <1>1, Fields
<1>4. r.calls = s.calls /\ r.ok = s.ok /\ r.why = s.why /\ r.order = s.order
  <2>1. r.calls = Count(s, e) /\ r.ok = s.ok /\ r.why = s.why /\ r.order = s.order
    BY <1>1, Fields
  <2> QED BY <2>1, <1>2
<1>5. /\ r.pending = [s.pending EXCEPT ![e.of] = "none"] /\ r.launch = [s.launch EXCEPT ![e.of] = e.status]
      /\ r.evaluate = s.evaluate
  BY <1>1, Fields
<1>6. r.live \in Lives
  <2>1. r.live = [campaign |-> s.live.campaign, deadline |-> s.live.deadline, last |-> e.wall,
                  evals |-> s.live.evals, submitted |-> s.live.submitted, state |-> [s.live.state EXCEPT ![e.of] = "running"],
                  restarts |-> s.live.restarts, due |-> s.live.due]
    BY <1>3, Fields
  <2>2. ([s.live.state EXCEPT ![e.of] = "running"]) \in [Attempts -> States]
    BY StatesAre DEF Replays, Lives, Events
  <2> QED BY <2>1, <2>2 DEF Replays, Lives, Events
<1>7. r.pending \in [Attempts -> Pendings] /\ r.order \in Seq(Attempts)
  BY <1>4, <1>5 DEF Replays, Pendings, Intents
<1>8. r.launch \in [Attempts -> Reports] /\ r.evaluate \in [Attempts -> Reports]
  BY <1>5, NoneIsReport DEF Replays, Events
<1>9. r \in Replays
  <2>1. r = [live |-> r.live, ok |-> r.ok, why |-> r.why, calls |-> r.calls, order |-> r.order,
             pending |-> r.pending, launch |-> r.launch, evaluate |-> r.evaluate]
    BY <1>1, Fields
  <2> QED BY <1>2, <1>4, <1>6, <1>7, <1>8, <2>1 DEF Replays
<1> QED BY <1>3, <1>4, <1>5, <1>9 DEF Grew, r

\* What replay makes of the event: checkpoint intent.
LEMMA CheckpointIntentWrites ==
    ASSUME NEW s \in Replays, s.ok, NEW e \in Events, e.kind = "checkpoint.intent", e.of \in Attempts, Legal(s, e)
    PROVE  Grew(Write(s, e), s, [s.live EXCEPT !.last = e.wall],
                s.calls, s.order, [s.pending EXCEPT ![e.of] = e.kind], s.launch, s.evaluate)
<1> DEFINE r == Write(s, e)
<1>1. r = [[[s EXCEPT !.live.last = e.wall] EXCEPT !.pending[e.of] = e.kind]
              EXCEPT !.calls = Count(s, e)]
  BY WriteLegal DEF Effect, Intents
<1>2. Count(s, e) = s.calls /\ s.calls \in Calls
  BY CallsKeep DEF Replays, Count, Intents
<1> HIDE DEF r
<1>3. r.live = [s.live EXCEPT !.last = e.wall]
  BY <1>1, Fields
<1>4. r.calls = s.calls /\ r.ok = s.ok /\ r.why = s.why /\ r.order = s.order
  <2>1. r.calls = Count(s, e) /\ r.ok = s.ok /\ r.why = s.why /\ r.order = s.order
    BY <1>1, Fields
  <2> QED BY <2>1, <1>2
<1>5. /\ r.pending = [s.pending EXCEPT ![e.of] = e.kind] /\ r.launch = s.launch
      /\ r.evaluate = s.evaluate
  BY <1>1, Fields
<1>6. r.live \in Lives
  <2>1. r.live = [campaign |-> s.live.campaign, deadline |-> s.live.deadline, last |-> e.wall,
                  evals |-> s.live.evals, submitted |-> s.live.submitted, state |-> s.live.state,
                  restarts |-> s.live.restarts, due |-> s.live.due]
    BY <1>3, Fields
  <2> QED BY <2>1 DEF Replays, Lives, Events
<1>7. r.pending \in [Attempts -> Pendings] /\ r.order \in Seq(Attempts)
  BY <1>4, <1>5 DEF Replays, Pendings, Intents
<1>8. r.launch \in [Attempts -> Reports] /\ r.evaluate \in [Attempts -> Reports]
  BY <1>5, NoneIsReport DEF Replays, Events
<1>9. r \in Replays
  <2>1. r = [live |-> r.live, ok |-> r.ok, why |-> r.why, calls |-> r.calls, order |-> r.order,
             pending |-> r.pending, launch |-> r.launch, evaluate |-> r.evaluate]
    BY <1>1, Fields
  <2> QED BY <1>2, <1>4, <1>6, <1>7, <1>8, <2>1 DEF Replays
<1> QED BY <1>3, <1>4, <1>5, <1>9 DEF Grew, r

\* What replay makes of the event: checkpoint outcome.
LEMMA CheckpointOutcomeWrites ==
    ASSUME NEW s \in Replays, s.ok, NEW e \in Events, e.kind = "checkpoint.outcome", e.of \in Attempts, Legal(s, e)
    PROVE  Grew(Write(s, e), s, [s.live EXCEPT !.last = e.wall, !.state[e.of] = "checkpointed"],
                s.calls, s.order, [s.pending EXCEPT ![e.of] = "none"], s.launch, s.evaluate)
<1> DEFINE r == Write(s, e)
<1>1. r = [[[s EXCEPT !.live.last = e.wall] EXCEPT !.live.state[e.of] = "checkpointed", !.pending[e.of] = "none"]
              EXCEPT !.calls = Count(s, e)]
  BY WriteLegal DEF Effect, Intents
<1>2. Count(s, e) = s.calls /\ s.calls \in Calls
  BY CallsKeep DEF Replays, Count, Intents
<1> HIDE DEF r
<1>3. r.live = [s.live EXCEPT !.last = e.wall, !.state[e.of] = "checkpointed"]
  BY <1>1, Fields
<1>4. r.calls = s.calls /\ r.ok = s.ok /\ r.why = s.why /\ r.order = s.order
  <2>1. r.calls = Count(s, e) /\ r.ok = s.ok /\ r.why = s.why /\ r.order = s.order
    BY <1>1, Fields
  <2> QED BY <2>1, <1>2
<1>5. /\ r.pending = [s.pending EXCEPT ![e.of] = "none"] /\ r.launch = s.launch
      /\ r.evaluate = s.evaluate
  BY <1>1, Fields
<1>6. r.live \in Lives
  <2>1. r.live = [campaign |-> s.live.campaign, deadline |-> s.live.deadline, last |-> e.wall,
                  evals |-> s.live.evals, submitted |-> s.live.submitted, state |-> [s.live.state EXCEPT ![e.of] = "checkpointed"],
                  restarts |-> s.live.restarts, due |-> s.live.due]
    BY <1>3, Fields
  <2>2. ([s.live.state EXCEPT ![e.of] = "checkpointed"]) \in [Attempts -> States]
    BY StatesAre DEF Replays, Lives, Events
  <2> QED BY <2>1, <2>2 DEF Replays, Lives, Events
<1>7. r.pending \in [Attempts -> Pendings] /\ r.order \in Seq(Attempts)
  BY <1>4, <1>5 DEF Replays, Pendings, Intents
<1>8. r.launch \in [Attempts -> Reports] /\ r.evaluate \in [Attempts -> Reports]
  BY <1>5, NoneIsReport DEF Replays, Events
<1>9. r \in Replays
  <2>1. r = [live |-> r.live, ok |-> r.ok, why |-> r.why, calls |-> r.calls, order |-> r.order,
             pending |-> r.pending, launch |-> r.launch, evaluate |-> r.evaluate]
    BY <1>1, Fields
  <2> QED BY <1>2, <1>4, <1>6, <1>7, <1>8, <2>1 DEF Replays
<1> QED BY <1>3, <1>4, <1>5, <1>9 DEF Grew, r

\* What replay makes of the event: evaluate intent.
LEMMA EvaluateIntentWrites ==
    ASSUME NEW s \in Replays, s.ok, NEW e \in Events, e.kind = "evaluate.intent", e.of \in Attempts, Legal(s, e)
    PROVE  Grew(Write(s, e), s, [s.live EXCEPT !.last = e.wall, !.evals = @ + 1],
                [s.calls EXCEPT !.evaluate = @ + 1], s.order, [s.pending EXCEPT ![e.of] = e.kind], s.launch, s.evaluate)
<1> DEFINE r == Write(s, e)
<1>1. r = [[[s EXCEPT !.live.last = e.wall] EXCEPT !.pending[e.of] = e.kind, !.live.evals = @ + 1]
              EXCEPT !.calls = Count(s, e)]
  BY WriteLegal DEF Effect, Intents
<1>2. Count(s, e) = [s.calls EXCEPT !.evaluate = @ + 1] /\ [s.calls EXCEPT !.evaluate = @ + 1] \in Calls
  BY CallsKeep DEF Replays, Count, Intents
<1> HIDE DEF r
<1>3. r.live = [s.live EXCEPT !.last = e.wall, !.evals = @ + 1]
  BY <1>1, Fields
<1>4. r.calls = [s.calls EXCEPT !.evaluate = @ + 1] /\ r.ok = s.ok /\ r.why = s.why /\ r.order = s.order
  <2>1. r.calls = Count(s, e) /\ r.ok = s.ok /\ r.why = s.why /\ r.order = s.order
    BY <1>1, Fields
  <2> QED BY <2>1, <1>2
<1>5. /\ r.pending = [s.pending EXCEPT ![e.of] = e.kind] /\ r.launch = s.launch
      /\ r.evaluate = s.evaluate
  BY <1>1, Fields
<1>6. r.live \in Lives
  <2>1. r.live = [campaign |-> s.live.campaign, deadline |-> s.live.deadline, last |-> e.wall,
                  evals |-> s.live.evals + 1, submitted |-> s.live.submitted, state |-> s.live.state,
                  restarts |-> s.live.restarts, due |-> s.live.due]
    BY <1>3, Fields
  <2>2. (s.live.evals + 1) \in Nat
    BY  DEF Replays, Lives, Events
  <2> QED BY <2>1, <2>2 DEF Replays, Lives, Events
<1>7. r.pending \in [Attempts -> Pendings] /\ r.order \in Seq(Attempts)
  BY <1>4, <1>5 DEF Replays, Pendings, Intents
<1>8. r.launch \in [Attempts -> Reports] /\ r.evaluate \in [Attempts -> Reports]
  BY <1>5, NoneIsReport DEF Replays, Events
<1>9. r \in Replays
  <2>1. r = [live |-> r.live, ok |-> r.ok, why |-> r.why, calls |-> r.calls, order |-> r.order,
             pending |-> r.pending, launch |-> r.launch, evaluate |-> r.evaluate]
    BY <1>1, Fields
  <2> QED BY <1>2, <1>4, <1>6, <1>7, <1>8, <2>1 DEF Replays
<1> QED BY <1>3, <1>4, <1>5, <1>9 DEF Grew, r

\* What replay makes of the event: evaluate outcome.
LEMMA EvaluateOutcomeWrites ==
    ASSUME NEW s \in Replays, s.ok, NEW e \in Events, e.kind = "evaluate.outcome", e.of \in Attempts, Legal(s, e)
    PROVE  Grew(Write(s, e), s, [s.live EXCEPT !.last = e.wall],
                s.calls, s.order, [s.pending EXCEPT ![e.of] = "none"], s.launch, [s.evaluate EXCEPT ![e.of] = e.status])
<1> DEFINE r == Write(s, e)
<1>1. r = [[[s EXCEPT !.live.last = e.wall] EXCEPT !.pending[e.of] = "none", !.evaluate[e.of] = e.status]
              EXCEPT !.calls = Count(s, e)]
  BY WriteLegal DEF Effect, Intents
<1>2. Count(s, e) = s.calls /\ s.calls \in Calls
  BY CallsKeep DEF Replays, Count, Intents
<1> HIDE DEF r
<1>3. r.live = [s.live EXCEPT !.last = e.wall]
  BY <1>1, Fields
<1>4. r.calls = s.calls /\ r.ok = s.ok /\ r.why = s.why /\ r.order = s.order
  <2>1. r.calls = Count(s, e) /\ r.ok = s.ok /\ r.why = s.why /\ r.order = s.order
    BY <1>1, Fields
  <2> QED BY <2>1, <1>2
<1>5. /\ r.pending = [s.pending EXCEPT ![e.of] = "none"] /\ r.launch = s.launch
      /\ r.evaluate = [s.evaluate EXCEPT ![e.of] = e.status]
  BY <1>1, Fields
<1>6. r.live \in Lives
  <2>1. r.live = [campaign |-> s.live.campaign, deadline |-> s.live.deadline, last |-> e.wall,
                  evals |-> s.live.evals, submitted |-> s.live.submitted, state |-> s.live.state,
                  restarts |-> s.live.restarts, due |-> s.live.due]
    BY <1>3, Fields
  <2> QED BY <2>1 DEF Replays, Lives, Events
<1>7. r.pending \in [Attempts -> Pendings] /\ r.order \in Seq(Attempts)
  BY <1>4, <1>5 DEF Replays, Pendings, Intents
<1>8. r.launch \in [Attempts -> Reports] /\ r.evaluate \in [Attempts -> Reports]
  BY <1>5, NoneIsReport DEF Replays, Events
<1>9. r \in Replays
  <2>1. r = [live |-> r.live, ok |-> r.ok, why |-> r.why, calls |-> r.calls, order |-> r.order,
             pending |-> r.pending, launch |-> r.launch, evaluate |-> r.evaluate]
    BY <1>1, Fields
  <2> QED BY <1>2, <1>4, <1>6, <1>7, <1>8, <2>1 DEF Replays
<1> QED BY <1>3, <1>4, <1>5, <1>9 DEF Grew, r

\* What replay makes of the event: interrupted.
LEMMA InterruptedWrites ==
    ASSUME NEW s \in Replays, s.ok, NEW e \in Events, e.kind = "interrupted", e.of \in Attempts, Legal(s, e)
    PROVE  Grew(Write(s, e), s, [s.live EXCEPT !.last = e.wall, !.state[e.of] = "interrupted", !.restarts[e.of] = e.restarts],
                Count(s, e), s.order, [s.pending EXCEPT ![e.of] = "none"], s.launch, s.evaluate)
<1> DEFINE r == Write(s, e)
<1>1. r = [[[s EXCEPT !.live.last = e.wall] EXCEPT !.live.state[e.of] = "interrupted", !.pending[e.of] = "none", !.live.restarts[e.of] = e.restarts]
              EXCEPT !.calls = Count(s, e)]
  BY WriteLegal DEF Effect, Intents
<1>2. Count(s, e) = Count(s, e) /\ Count(s, e) \in Calls
  BY CallsKeep DEF Replays, Count, Intents
<1> HIDE DEF r
<1>3. r.live = [s.live EXCEPT !.last = e.wall, !.state[e.of] = "interrupted", !.restarts[e.of] = e.restarts]
  BY <1>1, Fields
<1>4. r.calls = Count(s, e) /\ r.ok = s.ok /\ r.why = s.why /\ r.order = s.order
  <2>1. r.calls = Count(s, e) /\ r.ok = s.ok /\ r.why = s.why /\ r.order = s.order
    BY <1>1, Fields
  <2> QED BY <2>1, <1>2
<1>5. /\ r.pending = [s.pending EXCEPT ![e.of] = "none"] /\ r.launch = s.launch
      /\ r.evaluate = s.evaluate
  BY <1>1, Fields
<1>6. r.live \in Lives
  <2>1. r.live = [campaign |-> s.live.campaign, deadline |-> s.live.deadline, last |-> e.wall,
                  evals |-> s.live.evals, submitted |-> s.live.submitted, state |-> [s.live.state EXCEPT ![e.of] = "interrupted"],
                  restarts |-> [s.live.restarts EXCEPT ![e.of] = e.restarts], due |-> s.live.due]
    <3>1. r.live.state = [s.live.state EXCEPT ![e.of] = "interrupted"]
      BY <1>3, Fields
    <3>2. r.live.restarts = [s.live.restarts EXCEPT ![e.of] = e.restarts]
      BY <1>3, Fields
    <3>3. /\ r.live.campaign = s.live.campaign /\ r.live.deadline = s.live.deadline /\ r.live.last = e.wall
          /\ r.live.evals = s.live.evals /\ r.live.submitted = s.live.submitted /\ r.live.due = s.live.due
      BY <1>3, Fields
    <3>4. r.live = [campaign |-> r.live.campaign, deadline |-> r.live.deadline, last |-> r.live.last,
                    evals |-> r.live.evals, submitted |-> r.live.submitted, state |-> r.live.state,
                    restarts |-> r.live.restarts, due |-> r.live.due]
      BY <1>3, Fields
    <3> QED BY <3>1, <3>2, <3>3, <3>4
  <2>2. ([s.live.state EXCEPT ![e.of] = "interrupted"]) \in [Attempts -> States] /\ ([s.live.restarts EXCEPT ![e.of] = e.restarts]) \in [Attempts -> Nat]
    BY StatesAre DEF Replays, Lives, Events
  <2> QED BY <2>1, <2>2 DEF Replays, Lives, Events
<1>7. r.pending \in [Attempts -> Pendings] /\ r.order \in Seq(Attempts)
  BY <1>4, <1>5 DEF Replays, Pendings, Intents
<1>8. r.launch \in [Attempts -> Reports] /\ r.evaluate \in [Attempts -> Reports]
  BY <1>5, NoneIsReport DEF Replays, Events
<1>9. r \in Replays
  <2>1. r = [live |-> r.live, ok |-> r.ok, why |-> r.why, calls |-> r.calls, order |-> r.order,
             pending |-> r.pending, launch |-> r.launch, evaluate |-> r.evaluate]
    BY <1>1, Fields
  <2> QED BY <1>2, <1>4, <1>6, <1>7, <1>8, <2>1 DEF Replays
<1> QED BY <1>3, <1>4, <1>5, <1>9 DEF Grew, r

\* What replay makes of the event: terminal.
LEMMA TerminalWrites ==
    ASSUME NEW s \in Replays, s.ok, NEW e \in Events, e.kind = "terminal", e.of \in Attempts, Legal(s, e)
    PROVE  Grew(Write(s, e), s, [s.live EXCEPT !.last = e.wall, !.state[e.of] = "ended"],
                s.calls, s.order, [s.pending EXCEPT ![e.of] = "none"], s.launch, s.evaluate)
<1> DEFINE r == Write(s, e)
<1>1. r = [[[s EXCEPT !.live.last = e.wall] EXCEPT !.live.state[e.of] = "ended", !.pending[e.of] = "none"]
              EXCEPT !.calls = Count(s, e)]
  BY WriteLegal DEF Effect, Intents
<1>2. Count(s, e) = s.calls /\ s.calls \in Calls
  BY CallsKeep DEF Replays, Count, Intents
<1> HIDE DEF r
<1>3. r.live = [s.live EXCEPT !.last = e.wall, !.state[e.of] = "ended"]
  BY <1>1, Fields
<1>4. r.calls = s.calls /\ r.ok = s.ok /\ r.why = s.why /\ r.order = s.order
  <2>1. r.calls = Count(s, e) /\ r.ok = s.ok /\ r.why = s.why /\ r.order = s.order
    BY <1>1, Fields
  <2> QED BY <2>1, <1>2
<1>5. /\ r.pending = [s.pending EXCEPT ![e.of] = "none"] /\ r.launch = s.launch
      /\ r.evaluate = s.evaluate
  BY <1>1, Fields
<1>6. r.live \in Lives
  <2>1. r.live = [campaign |-> s.live.campaign, deadline |-> s.live.deadline, last |-> e.wall,
                  evals |-> s.live.evals, submitted |-> s.live.submitted, state |-> [s.live.state EXCEPT ![e.of] = "ended"],
                  restarts |-> s.live.restarts, due |-> s.live.due]
    BY <1>3, Fields
  <2>2. ([s.live.state EXCEPT ![e.of] = "ended"]) \in [Attempts -> States]
    BY StatesAre DEF Replays, Lives, Events
  <2> QED BY <2>1, <2>2 DEF Replays, Lives, Events
<1>7. r.pending \in [Attempts -> Pendings] /\ r.order \in Seq(Attempts)
  BY <1>4, <1>5 DEF Replays, Pendings, Intents
<1>8. r.launch \in [Attempts -> Reports] /\ r.evaluate \in [Attempts -> Reports]
  BY <1>5, NoneIsReport DEF Replays, Events
<1>9. r \in Replays
  <2>1. r = [live |-> r.live, ok |-> r.ok, why |-> r.why, calls |-> r.calls, order |-> r.order,
             pending |-> r.pending, launch |-> r.launch, evaluate |-> r.evaluate]
    BY <1>1, Fields
  <2> QED BY <1>2, <1>4, <1>6, <1>7, <1>8, <2>1 DEF Replays
<1> QED BY <1>3, <1>4, <1>5, <1>9 DEF Grew, r

-----------------------------------------------------------------------------
(* The memory that made an event follows its replay.                       *)

\* A record of the campaign stays one in each field an event changes.
LEMMA LivesKeep ==
    ASSUME NEW l \in Lives
    PROVE  /\ \A x \in {"running", "stopping", "stopped"} : [l EXCEPT !.campaign = x] \in Lives
           /\ \A x \in Int : [l EXCEPT !.deadline = x] \in Lives
           /\ \A x \in Nat : [l EXCEPT !.last = x] \in Lives
           /\ \A x \in Nat : [l EXCEPT !.evals = x] \in Lives
           /\ \A x \in Nat : [l EXCEPT !.submitted = x] \in Lives
           /\ \A a \in Attempts, x \in States : [l EXCEPT !.state[a] = x] \in Lives
           /\ \A a \in Attempts, x \in Nat : [l EXCEPT !.restarts[a] = x] \in Lives
           /\ \A a \in Attempts, x \in Int : [l EXCEPT !.due[a] = x] \in Lives
BY DEF Lives

\* A refused terminal leaves everything but the refusal and its reason.
LEMMA WriteRefused ==
    ASSUME NEW s \in Replays, s.ok, NEW e \in Events, e.kind = "terminal", ~Legal(s, e)
    PROVE  /\ Write(s, e) \in Replays /\ ~Write(s, e).ok /\ Write(s, e).why = Why(s, e)
           /\ Write(s, e).calls = s.calls /\ Write(s, e).live = s.live /\ Write(s, e).pending = s.pending
<1>1. Write(s, e) = [[s EXCEPT !.ok = FALSE, !.why = Why(s, e)] EXCEPT !.calls = s.calls]
  BY DEF Write, Observe, Count
<1>2. Why(s, e) \in {"none", "scored", "monotonic", "other"}
  <2>1. CASE Contradicts(s, e)
    BY <2>1 DEF Why
  <2>2. CASE ~Contradicts(s, e) /\ e.status = "TIMED_OUT" /\ ~DeadlineProven(s, e) /\ ~Reported(s, e.of, "timed_out")
    BY <2>2 DEF Why
  <2>3. CASE ~Contradicts(s, e) /\ ~(e.status = "TIMED_OUT" /\ ~DeadlineProven(s, e) /\ ~Reported(s, e.of, "timed_out"))
    BY <2>3 DEF Why
  <2> QED BY <2>1, <2>2, <2>3
<1> QED BY <1>1, <1>2 DEF Replays

\* After a refusal only the calls are counted.
LEMMA WriteAfterRefusal ==
    ASSUME NEW s \in Replays, ~s.ok, NEW e \in Events
    PROVE  /\ Write(s, e).ok = s.ok /\ Write(s, e).why = s.why
           /\ Write(s, e).calls = Count(s, e) /\ Write(s, e).live = s.live /\ Write(s, e).pending = s.pending
           /\ Count(s, e) \in Calls => Write(s, e) \in Replays
<1>1. Write(s, e) = [s EXCEPT !.calls = Count(s, e)]
  BY DEF Write, Observe
<1> QED BY <1>1 DEF Replays

\* The attempts other than a are left alone.
Apart(r, s, a) ==
    \A b \in Attempts \ {a} :
        /\ r.pending[b] = s.pending[b] /\ r.live.state[b] = s.live.state[b]
        /\ r.live.restarts[b] = s.live.restarts[b]

\* A terminal is refused for its score or its deadline only.
LEMMA WhyTerminal ==
    ASSUME NEW s, NEW e, e.kind = "terminal", Contradicts(s, e) \/
              (e.status = "TIMED_OUT" /\ ~DeadlineProven(s, e) /\ ~Reported(s, e.of, "timed_out"))
    PROVE Why(s, e) # "other"
BY DEF Why

\* The memory follows it: terminal.
LEMMA TerminalFollows ==
    ASSUME NEW s, Good(s), NEW m, NEW pending, NEW w \in Nat, Track(s, m, pending, w), NEW a \in Attempts,
           NEW e \in Events, e.kind = "terminal", e.of = a, e.wall = w, e.evals = m.evals,
           e.restarts = m.restarts[a], e.seconds = Elapsed(m, a, w),
           m.state[a] \in Unfinished \cup {"intended"},
           s.ok => Precursor(s, e) \/ (e.status = "TIMED_OUT" /\ m.state[a] \in Unfinished)
    PROVE  /\ Good(Write(s, e)) /\ Apart(Write(s, e), s, a)
           /\ Track(Write(s, e), [m EXCEPT !.state[a] = "ended"], [pending EXCEPT ![a] = "none"], w)
<1> DEFINE r == Write(s, e)
           k == [m EXCEPT !.state[a] = "ended"]
           p == [pending EXCEPT ![a] = "none"]
<1>1. s \in Replays /\ m \in Lives /\ a # NoAttempt /\ pending \in [Attempts -> Pendings]
  BY CampaignSupervisorAssumption DEF Good, Track
<1>2. /\ k \in Lives /\ k.state = [m.state EXCEPT ![a] = "ended"] /\ k.campaign = m.campaign /\ k.deadline = m.deadline
      /\ k.evals = m.evals /\ k.submitted = m.submitted /\ k.restarts = m.restarts /\ k.due = m.due
      /\ m.state \in [Attempts -> States]
  BY <1>1, StatesAre DEF Lives
<1>3. p \in [Attempts -> Pendings] /\ p[a] = "none" /\ \A b \in Attempts \ {a} : p[b] = pending[b]
  BY <1>1 DEF Pendings
<1>4. ASSUME r.calls = s.calls
      PROVE  /\ k.evals = r.calls.evaluate
             /\ \A b \in Attempts : /\ k.restarts[b] <= MaxRestarts
                                    /\ Payable(r.calls.launch[b], r.calls.resume[b], k.state[b], p[b], k.restarts[b])
  <2>1. k.evals = r.calls.evaluate
    BY <1>2, <1>4 DEF Track
  <2>2. ASSUME NEW b \in Attempts
        PROVE  /\ k.restarts[b] <= MaxRestarts
               /\ Payable(r.calls.launch[b], r.calls.resume[b], k.state[b], p[b], k.restarts[b])
    <3>1. /\ m.restarts[b] <= MaxRestarts
          /\ Payable(s.calls.launch[b], s.calls.resume[b], m.state[b], pending[b], m.restarts[b])
      BY DEF Track
    <3>2. CASE b # a
      BY <3>1, <3>2, <1>2, <1>3, <1>4
    <3>3. CASE b = a
      <4>1. /\ k.state[b] = "ended" /\ s.calls.launch[b] \in Nat /\ s.calls.resume[b] \in Nat /\ m.restarts[b] \in Nat
        BY <3>3, <1>1, <1>2 DEF Replays, Calls, Lives
      <4> QED BY <4>1, <3>1, <1>2, <1>4 DEF Payable, Launchable
    <3> QED BY <3>2, <3>3
  <2> QED BY <2>1, <2>2
<1>5. CASE ~s.ok
  <2>1. r.ok = s.ok /\ r.why = s.why /\ r.calls = s.calls /\ r.live = s.live /\ r.pending = s.pending /\ r \in Replays
    <3>1. Count(s, e) = s.calls /\ s.calls \in Calls
      BY <1>1 DEF Count, Replays
    <3> QED BY <3>1, <1>1, <1>5, WriteAfterRefusal
  <2> HIDE DEF r, k, p
  <2> QED BY <2>1, <1>1, <1>2, <1>3, <1>4, <1>5 DEF Good, Track, Apart, Within, r, k, p
<1>6. CASE s.ok /\ ~Legal(s, e)
  <2>1. /\ r \in Replays /\ ~r.ok /\ r.why = Why(s, e)
        /\ r.calls = s.calls /\ r.live = s.live /\ r.pending = s.pending
    BY <1>1, <1>6, WriteRefused
  <2>2. Contradicts(s, e) \/ (e.status = "TIMED_OUT" /\ ~DeadlineProven(s, e) /\ ~Reported(s, e.of, "timed_out"))
    <3>1. s.live.state = m.state /\ s.live.evals = m.evals /\ s.live.restarts = m.restarts /\ s.live.due = m.due /\ s.live.last <= w
      BY <1>6 DEF Track, Agree
    <3>2. Truthful(s, e)
      BY <3>1 DEF Truthful, Elapsed
    <3>3. s.live.state[a] # "ended" /\ e.kind \notin Intents /\ IntentOf(e.kind) = "none"
      BY <3>1 DEF Intents, IntentOf, Unfinished, MidFlight, Active
    <3>4. ~(Precursor(s, e) /\ ~Contradicts(s, e))
      BY <1>1, <1>6, <3>1, <3>2, <3>3 DEF Legal, LegalAttempt, Events
    <3>5. e.status = "TIMED_OUT" /\ m.state[a] \in Unfinished /\ (DeadlineProven(s, e) \/ Reported(s, a, "timed_out")) => Precursor(s, e)
      BY <3>1 DEF Precursor
    <3> QED BY <3>4, <3>5, <1>6
  <2>3. Why(s, e) # "other"
    BY <2>2, WhyTerminal
  <2> HIDE DEF r, k, p
  <2> QED BY <2>1, <2>3, <1>1, <1>2, <1>3, <1>4, <1>6 DEF Good, Track, Apart, Within, r, k, p
<1>7. CASE s.ok /\ Legal(s, e)
  <2>1. Grew(r, s, [s.live EXCEPT !.last = e.wall, !.state[e.of] = "ended"],
                s.calls, s.order, [s.pending EXCEPT ![e.of] = "none"], s.launch, s.evaluate)
    BY <1>1, <1>7, TerminalWrites
  <2>2. /\ r.live.state = [s.live.state EXCEPT ![a] = "ended"] /\ r.live.campaign = s.live.campaign
        /\ r.live.deadline = s.live.deadline /\ r.live.evals = s.live.evals /\ r.live.last = w
        /\ r.live.submitted = s.live.submitted /\ r.live.restarts = s.live.restarts /\ r.live.due = s.live.due
    BY <2>1, <1>1, Fields DEF Grew
  <2>3. /\ r \in Replays /\ r.ok /\ r.why = s.why /\ r.calls = s.calls /\ r.order = s.order
        /\ r.pending = [s.pending EXCEPT ![a] = "none"] /\ r.evaluate = s.evaluate
    BY <2>1 DEF Grew
  <2> HIDE DEF r, k, p
  <2>4. Agree(r.live, k) /\ r.pending = p
    <3>1. s.pending = pending /\ Agree(s.live, m)
      BY <1>7 DEF Track
    <3>2. r.pending = p
      BY <3>1, <2>3 DEF p
    <3> QED BY <3>1, <3>2, <1>2, <2>2 DEF Agree
  <2>5. Track(r, k, p, w)
    BY <1>2, <1>3, <1>4, <2>2, <2>3, <2>4 DEF Track
  <2>6. ASSUME NEW b \in Attempts PROVE At(r, b)
    <3>1. At(s, b)
      BY <1>7 DEF Good
    <3>2. CASE b = a
      <4>1. r.live.state[b] = "ended" /\ r.pending[b] = "none"
        BY <3>2, <1>1, <2>2, <2>3 DEF Replays, Lives
      <4>2. Payable(r.calls.launch[b], r.calls.resume[b], r.live.state[b], r.pending[b], r.live.restarts[b])
        BY <1>4, <2>3, <2>4 DEF Agree
      <4> QED BY <4>1, <4>2, <3>1, <2>2 DEF At, Steady, Unfinished, MidFlight, Active
    <3>3. CASE b # a
      <4>1. r.live.state[b] = s.live.state[b] /\ r.pending[b] = s.pending[b] /\ r.live.restarts[b] = s.live.restarts[b]
        BY <3>3, <1>1, <2>2, <2>3 DEF Replays, Lives
      <4> QED BY <4>1, <3>1, <2>3 DEF At, Steady
    <3> QED BY <3>2, <3>3
  <2>7. Good(r)
    BY <2>2, <2>3, <2>6, <1>7 DEF Good, Within
  <2>8. Apart(r, s, a)
    BY <1>1, <2>2, <2>3 DEF Apart, Replays, Lives
  <2> QED BY <2>5, <2>7, <2>8 DEF r, k, p
<1> QED BY <1>5, <1>6, <1>7

\* What has to be shown of an event for the memory to follow the journal.
LEMMA Following ==
    ASSUME NEW s, Good(s), NEW e \in Events, NEW k \in Lives, NEW p \in [Attempts -> Pendings], NEW w \in Nat,
           Count(s, e) \in Calls, k.evals = Count(s, e).evaluate, k.evals <= MaxEvaluations,
           \A b \in Attempts : /\ k.restarts[b] <= MaxRestarts
                               /\ Payable(Count(s, e).launch[b], Count(s, e).resume[b], k.state[b], p[b], k.restarts[b]),
           s.ok => /\ Write(s, e) \in Replays /\ Write(s, e).ok /\ Write(s, e).why = s.why
                   /\ Write(s, e).calls = Count(s, e) /\ Write(s, e).pending = p
                   /\ Agree(Write(s, e).live, k) /\ Write(s, e).live.last <= w
                   /\ Once(Write(s, e).order) /\ \A b \in Attempts : Steady(Write(s, e), b)
    PROVE  Good(Write(s, e)) /\ Track(Write(s, e), k, p, w)
<1> DEFINE r == Write(s, e)
<1>1. s \in Replays
  BY DEF Good
<1>2. r \in Replays /\ r.why = s.why /\ r.calls = Count(s, e) /\ (r.ok <=> s.ok)
  BY <1>1, WriteAfterRefusal
<1>3. ASSUME NEW b \in Attempts PROVE r.calls.launch[b] <= 1 + MaxRestarts + r.calls.resume[b]
  <2>1. /\ k.restarts[b] <= MaxRestarts /\ k.restarts[b] \in Nat /\ MaxRestarts \in Nat
        /\ r.calls.launch[b] \in Nat /\ r.calls.resume[b] \in Nat
    BY <1>2, CampaignSupervisorAssumption DEF Lives, Calls
  <2>2. Payable(r.calls.launch[b], r.calls.resume[b], k.state[b], p[b], k.restarts[b])
    BY <1>2
  <2> QED BY <2>1, <2>2 DEF Payable
<1>4. Within(r.calls)
  BY <1>2, <1>3 DEF Within
<1>5. Track(r, k, p, w)
  BY <1>2 DEF Track
<1>6. ASSUME s.ok, NEW b \in Attempts PROVE At(r, b)
  BY <1>2, <1>6 DEF At, Agree
<1>7. s.ok => r.calls.evaluate = r.live.evals
  BY <1>2 DEF Agree
<1> HIDE DEF r
<1>8. Good(r)
  BY <1>2, <1>4, <1>6, <1>7 DEF Good, r
<1> QED BY <1>5, <1>8 DEF r

\* The memory follows it: launch outcome.
LEMMA LaunchOutcomeFollows ==
    ASSUME NEW s, Good(s), NEW m, NEW pending, NEW w \in Nat, Track(s, m, pending, w), NEW a \in Attempts,
           NEW e \in Events, e.kind = "launch.outcome", e.of = a, e.wall = w,
           m.state[a] \in Launchable, pending[a] = "launch.intent"
    PROVE  /\ Good(Write(s, e))
           /\ Track(Write(s, e), [m EXCEPT !.state[a] = "running"], [pending EXCEPT ![a] = "none"], w)
           /\ Write(s, e).ok => s.ok /\ Write(s, e).launch[a] = e.status /\ Write(s, e).evaluate[a] = "none"
<1> DEFINE r == Write(s, e)
           k == [m EXCEPT !.state[a] = "running"]
           p == [pending EXCEPT ![a] = "none"]
<1>1. s \in Replays /\ m \in Lives /\ a # NoAttempt /\ pending \in [Attempts -> Pendings] /\ s.calls \in Calls
  BY CampaignSupervisorAssumption DEF Good, Track, Replays
<1>2. /\ k \in Lives /\ k.state = [m.state EXCEPT ![a] = "running"] /\ k.campaign = m.campaign /\ k.deadline = m.deadline
      /\ k.evals = m.evals /\ k.submitted = m.submitted /\ k.restarts = m.restarts /\ k.due = m.due
      /\ m.state \in [Attempts -> States]
  BY <1>1, StatesAre DEF Lives
<1>3. p \in [Attempts -> Pendings] /\ p[a] = "none" /\ \A b \in Attempts \ {a} : p[b] = pending[b]
  BY <1>1 DEF Pendings
<1>4. Count(s, e) = s.calls
  BY DEF Count
<1>5. ASSUME NEW b \in Attempts
      PROVE  /\ k.restarts[b] <= MaxRestarts
             /\ Payable(Count(s, e).launch[b], Count(s, e).resume[b], k.state[b], p[b], k.restarts[b])
  <2>1. /\ m.restarts[b] <= MaxRestarts
        /\ Payable(s.calls.launch[b], s.calls.resume[b], m.state[b], pending[b], m.restarts[b])
    BY DEF Track
  <2>2. CASE b # a
    BY <2>1, <2>2, <1>2, <1>3, <1>4
  <2>3. CASE b = a
    BY <2>3, <2>1, <1>2, <1>4 DEF Payable, Launchable
  <2> QED BY <2>2, <2>3
<1>6. k.evals = Count(s, e).evaluate /\ k.evals <= MaxEvaluations
  BY <1>2, <1>4 DEF Track, Good, Within
<1> HIDE DEF k, p, r
<1>7. ASSUME s.ok
      PROVE  /\ r \in Replays /\ r.ok /\ r.why = s.why /\ r.calls = Count(s, e) /\ r.pending = p
             /\ Agree(r.live, k) /\ r.live.last <= w /\ Once(r.order) /\ \A b \in Attempts : Steady(r, b)
             /\ r.launch[a] = e.status /\ r.evaluate[a] = "none"
  <2>1. s.pending = pending /\ Agree(s.live, m) /\ s.live.last <= w
    BY <1>7 DEF Track
  <2>2. Legal(s, e)
    BY <1>1, <2>1 DEF Legal, LegalAttempt, Intents, IntentOf, Agree, Launchable
  <2>3. Grew(r, s, [s.live EXCEPT !.last = e.wall, !.state[e.of] = "running"], s.calls, s.order,
             [s.pending EXCEPT ![e.of] = "none"], [s.launch EXCEPT ![e.of] = e.status], s.evaluate)
    BY <1>1, <1>7, <2>2, LaunchOutcomeWrites DEF r
  <2>4. /\ r.live.state = [s.live.state EXCEPT ![a] = "running"] /\ r.live.campaign = s.live.campaign
        /\ r.live.deadline = s.live.deadline /\ r.live.evals = s.live.evals /\ r.live.last = w
        /\ r.live.submitted = s.live.submitted /\ r.live.restarts = s.live.restarts /\ r.live.due = s.live.due
    BY <2>3, <1>1, Fields DEF Grew
  <2>5. /\ r \in Replays /\ r.ok /\ r.why = s.why /\ r.calls = s.calls /\ r.order = s.order
        /\ r.pending = [s.pending EXCEPT ![a] = "none"] /\ r.launch = [s.launch EXCEPT ![a] = e.status]
        /\ r.evaluate = s.evaluate
    BY <2>3 DEF Grew
  <2>6. Agree(r.live, k) /\ r.pending = p
    BY <2>1, <2>4, <2>5, <1>2 DEF Agree, p
  <2>7. ASSUME NEW b \in Attempts PROVE Steady(r, b)
    <3>1. Steady(s, b)
      BY <1>7 DEF Good, At
    <3>2. CASE b = a
      <4>1. r.live.state[b] = "running" /\ r.pending[b] = "none" /\ s.live.state[b] \in Launchable
        BY <3>2, <1>1, <2>1, <2>4, <2>5 DEF Replays, Lives, Agree
      <4> QED BY <4>1, <3>1, <2>5 DEF Steady, Unfinished, MidFlight, Active, Launchable
    <3>3. CASE b # a
      <4>1. r.live.state[b] = s.live.state[b] /\ r.pending[b] = s.pending[b]
        BY <3>3, <1>1, <2>4, <2>5 DEF Replays, Lives
      <4> QED BY <4>1, <3>1, <2>5 DEF Steady
    <3> QED BY <3>2, <3>3
  <2>8. Once(r.order)
    BY <2>5, <1>7 DEF Good
  <2>9. r.launch[a] = e.status /\ r.evaluate[a] = "none"
    <3>1. s.evaluate[a] = "none"
      BY <2>1, <1>7 DEF Good, At, Steady
    <3> QED BY <3>1, <2>5, <1>1 DEF Replays
  <2> QED BY <2>1, <2>4, <2>5, <2>6, <2>7, <2>8, <2>9, <1>4
<1>8. Good(r) /\ Track(r, k, p, w)
  BY <1>2, <1>3, <1>1, <1>4, <1>5, <1>6, <1>7, Following DEF r
<1>9. r.ok => s.ok
  BY <1>1, WriteAfterRefusal DEF r
<1> QED BY <1>7, <1>8, <1>9 DEF r, k, p

\* A new element at the end of a sequence without duplicates.
LEMMA OnceMore ==
    ASSUME NEW T, NEW q \in Seq(T), Once(q), NEW x \in T, x \notin Range(q)
    PROVE  Once(Append(q, x)) /\ Range(Append(q, x)) = Range(q) \cup {x}
BY DEF Once, Range

\* The fields of the record of a campaign.
LEMMA LifeFields ==
    ASSUME NEW l \in Lives
    PROVE  DOMAIN l = {"campaign", "deadline", "last", "evals", "submitted", "state", "restarts", "due"}
BY DEF Lives

\* The memory follows it: prepared.
LEMMA PreparedFollows ==
    ASSUME NEW s, Good(s), NEW m, NEW pending, NEW w \in Nat, Track(s, m, pending, w), NEW e \in Events, e.kind = "prepared", e.wall = w, m.campaign = "prepared"
    PROVE  /\ Good(Write(s, e)) /\ Track(Write(s, e), [m EXCEPT !.campaign = "running", !.deadline = w + MaxWall], pending, w)
<1> DEFINE r == Write(s, e)
           k == [m EXCEPT !.campaign = "running", !.deadline = w + MaxWall]
           p == pending
<1>1. s \in Replays /\ m \in Lives /\ pending \in [Attempts -> Pendings] /\ s.calls \in Calls
  BY CampaignSupervisorAssumption DEF Good, Track, Replays
<1>2. k.campaign = "running" /\ k.deadline = w + MaxWall /\ k.evals = m.evals /\ k.submitted = m.submitted /\ k.state = m.state /\ k.restarts = m.restarts /\ k.due = m.due
      /\ m.state \in [Attempts -> States] /\ m.restarts \in [Attempts -> Nat]
  BY <1>1 DEF Lives
<1>20. k \in Lives
  <2> DEFINE l == [m EXCEPT !.campaign = "running"]
  <2>1. l \in Lives
    BY <1>1, LivesKeep, StatesAre
  <2>2. w + MaxWall \in Int
    BY <2>1, CampaignSupervisorAssumption DEF Lives
  <2> QED BY <2>1, <2>2, LivesKeep
<1>3. p \in [Attempts -> Pendings] /\ p = pending
  BY <1>1
<1>4. Count(s, e) = s.calls /\ Count(s, e) \in Calls
  BY <1>1, CallsKeep DEF Count, Intents
<1>5. ASSUME NEW b \in Attempts
      PROVE  /\ k.restarts[b] <= MaxRestarts
             /\ Payable(Count(s, e).launch[b], Count(s, e).resume[b], k.state[b], p[b], k.restarts[b])
  <2>1. /\ m.restarts[b] <= MaxRestarts
        /\ Payable(s.calls.launch[b], s.calls.resume[b], m.state[b], pending[b], m.restarts[b])
    BY DEF Track
  <2> QED BY <2>1, <1>2, <1>3, <1>4
<1>6. k.evals = Count(s, e).evaluate /\ k.evals <= MaxEvaluations
  BY <1>1, <1>2, <1>4 DEF Track, Good, Within, Calls
<1> HIDE DEF k, p, r
<1>7. ASSUME s.ok
      PROVE  /\ r \in Replays /\ r.ok /\ r.why = s.why /\ r.calls = Count(s, e) /\ r.pending = p
             /\ Agree(r.live, k) /\ r.live.last <= w /\ Once(r.order) /\ \A b \in Attempts : Steady(r, b)
  <2>1. s.pending = pending /\ Agree(s.live, m) /\ s.live.last <= w
    BY <1>7 DEF Track
  <2>2. Legal(s, e)
    BY <1>1, <1>7, <2>1 DEF Legal, LegalAttempt, Intents, IntentOf, Agree, Launchable
  <2>3. Grew(r, s, [s.live EXCEPT !.last = e.wall, !.campaign = "running", !.deadline = e.wall + MaxWall],
             s.calls, s.order, s.pending, s.launch, s.evaluate)
    BY <1>1, <1>4, <1>7, <2>2, PreparedWrites DEF r
  <2>4. r.live.campaign = "running" /\ r.live.deadline = w + MaxWall /\ r.live.evals = s.live.evals /\ r.live.submitted = s.live.submitted /\ r.live.state = s.live.state /\ r.live.restarts = s.live.restarts /\ r.live.due = s.live.due /\ r.live.last = w
    BY <2>3, <1>1, Fields DEF Grew
  <2>5. /\ r \in Replays /\ r.ok /\ r.why = s.why /\ r.calls = Count(s, e) /\ r.order = s.order
        /\ r.pending = s.pending
        /\ r.launch = s.launch /\ r.evaluate = s.evaluate
    BY <2>3, <1>4 DEF Grew
  <2>6. Agree(r.live, k) /\ r.pending = p
    BY <2>1, <2>4, <2>5, <1>2 DEF Agree, p
  <2>7. ASSUME NEW b \in Attempts PROVE Steady(r, b)
    <3>1. Steady(s, b)
      BY <1>7 DEF Good, At
    <3> QED BY <3>1, <2>4, <2>5 DEF Steady
  <2>8. Once(r.order)
    BY <2>5, <1>7 DEF Good
  <2> QED BY <2>1, <2>4, <2>5, <2>6, <2>7, <2>8
<1>8. Good(r) /\ Track(r, k, p, w)
  BY <1>20, <1>3, <1>1, <1>4, <1>5, <1>6, <1>7, Following DEF r
<1>9. r.ok => s.ok
  BY <1>1, WriteAfterRefusal DEF r
<1> QED BY <1>7, <1>8, <1>9 DEF r, k, p

\* The memory follows it: stop requested.
LEMMA StopRequestedFollows ==
    ASSUME NEW s, Good(s), NEW m, NEW pending, NEW w \in Nat, Track(s, m, pending, w), NEW e \in Events, e.kind = "stop_requested", e.wall = w, m.campaign = "running"
    PROVE  /\ Good(Write(s, e)) /\ Track(Write(s, e), [m EXCEPT !.campaign = "stopping"], pending, w)
<1> DEFINE r == Write(s, e)
           k == [m EXCEPT !.campaign = "stopping"]
           p == pending
<1>1. s \in Replays /\ m \in Lives /\ pending \in [Attempts -> Pendings] /\ s.calls \in Calls
  BY CampaignSupervisorAssumption DEF Good, Track, Replays
<1>2. k.campaign = "stopping" /\ k.deadline = m.deadline /\ k.evals = m.evals /\ k.submitted = m.submitted /\ k.state = m.state /\ k.restarts = m.restarts /\ k.due = m.due
      /\ m.state \in [Attempts -> States] /\ m.restarts \in [Attempts -> Nat]
  BY <1>1 DEF Lives
<1>20. k \in Lives
  <2>1. k = [campaign |-> k.campaign, deadline |-> k.deadline, last |-> m.last, evals |-> k.evals, submitted |-> k.submitted,
             state |-> k.state, restarts |-> k.restarts, due |-> k.due]
    BY <1>1, <1>2 DEF Lives
  <2> HIDE DEF k
  <2> QED BY <1>1, <1>2, <2>1 DEF Lives, Events, Unset
<1>3. p \in [Attempts -> Pendings] /\ p = pending
  BY <1>1
<1>4. Count(s, e) = s.calls /\ Count(s, e) \in Calls
  BY <1>1, CallsKeep DEF Count, Intents
<1>5. ASSUME NEW b \in Attempts
      PROVE  /\ k.restarts[b] <= MaxRestarts
             /\ Payable(Count(s, e).launch[b], Count(s, e).resume[b], k.state[b], p[b], k.restarts[b])
  <2>1. /\ m.restarts[b] <= MaxRestarts
        /\ Payable(s.calls.launch[b], s.calls.resume[b], m.state[b], pending[b], m.restarts[b])
    BY DEF Track
  <2> QED BY <2>1, <1>2, <1>3, <1>4
<1>6. k.evals = Count(s, e).evaluate /\ k.evals <= MaxEvaluations
  BY <1>1, <1>2, <1>4 DEF Track, Good, Within, Calls
<1> HIDE DEF k, p, r
<1>7. ASSUME s.ok
      PROVE  /\ r \in Replays /\ r.ok /\ r.why = s.why /\ r.calls = Count(s, e) /\ r.pending = p
             /\ Agree(r.live, k) /\ r.live.last <= w /\ Once(r.order) /\ \A b \in Attempts : Steady(r, b)
  <2>1. s.pending = pending /\ Agree(s.live, m) /\ s.live.last <= w
    BY <1>7 DEF Track
  <2>2. Legal(s, e)
    BY <1>1, <1>7, <2>1 DEF Legal, LegalAttempt, Intents, IntentOf, Agree, Launchable
  <2>3. Grew(r, s, [s.live EXCEPT !.last = e.wall, !.campaign = "stopping"],
             s.calls, s.order, s.pending, s.launch, s.evaluate)
    BY <1>1, <1>4, <1>7, <2>2, StopRequestedWrites DEF r
  <2>4. r.live.campaign = "stopping" /\ r.live.deadline = s.live.deadline /\ r.live.evals = s.live.evals /\ r.live.submitted = s.live.submitted /\ r.live.state = s.live.state /\ r.live.restarts = s.live.restarts /\ r.live.due = s.live.due /\ r.live.last = w
    BY <2>3, <1>1, Fields DEF Grew
  <2>5. /\ r \in Replays /\ r.ok /\ r.why = s.why /\ r.calls = Count(s, e) /\ r.order = s.order
        /\ r.pending = s.pending
        /\ r.launch = s.launch /\ r.evaluate = s.evaluate
    BY <2>3, <1>4 DEF Grew
  <2>6. Agree(r.live, k) /\ r.pending = p
    BY <2>1, <2>4, <2>5, <1>2 DEF Agree, p
  <2>7. ASSUME NEW b \in Attempts PROVE Steady(r, b)
    <3>1. Steady(s, b)
      BY <1>7 DEF Good, At
    <3> QED BY <3>1, <2>4, <2>5 DEF Steady
  <2>8. Once(r.order)
    BY <2>5, <1>7 DEF Good
  <2> QED BY <2>1, <2>4, <2>5, <2>6, <2>7, <2>8
<1>8. Good(r) /\ Track(r, k, p, w)
  BY <1>20, <1>3, <1>1, <1>4, <1>5, <1>6, <1>7, Following DEF r
<1>9. r.ok => s.ok
  BY <1>1, WriteAfterRefusal DEF r
<1> QED BY <1>7, <1>8, <1>9 DEF r, k, p

\* The memory follows it: stopped.
LEMMA StoppedFollows ==
    ASSUME NEW s, Good(s), NEW m, NEW pending, NEW w \in Nat, Track(s, m, pending, w), NEW e \in Events, e.kind = "stopped", e.wall = w, m.campaign = "stopping"
    PROVE  /\ Good(Write(s, e)) /\ Track(Write(s, e), [m EXCEPT !.campaign = "stopped"], pending, w)
<1> DEFINE r == Write(s, e)
           k == [m EXCEPT !.campaign = "stopped"]
           p == pending
<1>1. s \in Replays /\ m \in Lives /\ pending \in [Attempts -> Pendings] /\ s.calls \in Calls
  BY CampaignSupervisorAssumption DEF Good, Track, Replays
<1>2. k.campaign = "stopped" /\ k.deadline = m.deadline /\ k.evals = m.evals /\ k.submitted = m.submitted /\ k.state = m.state /\ k.restarts = m.restarts /\ k.due = m.due
      /\ m.state \in [Attempts -> States] /\ m.restarts \in [Attempts -> Nat]
  BY <1>1 DEF Lives
<1>20. k \in Lives
  <2>1. k = [campaign |-> k.campaign, deadline |-> k.deadline, last |-> m.last, evals |-> k.evals, submitted |-> k.submitted,
             state |-> k.state, restarts |-> k.restarts, due |-> k.due]
    BY <1>1, <1>2 DEF Lives
  <2> HIDE DEF k
  <2> QED BY <1>1, <1>2, <2>1 DEF Lives, Events, Unset
<1>3. p \in [Attempts -> Pendings] /\ p = pending
  BY <1>1
<1>4. Count(s, e) = s.calls /\ Count(s, e) \in Calls
  BY <1>1, CallsKeep DEF Count, Intents
<1>5. ASSUME NEW b \in Attempts
      PROVE  /\ k.restarts[b] <= MaxRestarts
             /\ Payable(Count(s, e).launch[b], Count(s, e).resume[b], k.state[b], p[b], k.restarts[b])
  <2>1. /\ m.restarts[b] <= MaxRestarts
        /\ Payable(s.calls.launch[b], s.calls.resume[b], m.state[b], pending[b], m.restarts[b])
    BY DEF Track
  <2> QED BY <2>1, <1>2, <1>3, <1>4
<1>6. k.evals = Count(s, e).evaluate /\ k.evals <= MaxEvaluations
  BY <1>1, <1>2, <1>4 DEF Track, Good, Within, Calls
<1> HIDE DEF k, p, r
<1>7. ASSUME s.ok
      PROVE  /\ r \in Replays /\ r.ok /\ r.why = s.why /\ r.calls = Count(s, e) /\ r.pending = p
             /\ Agree(r.live, k) /\ r.live.last <= w /\ Once(r.order) /\ \A b \in Attempts : Steady(r, b)
  <2>1. s.pending = pending /\ Agree(s.live, m) /\ s.live.last <= w
    BY <1>7 DEF Track
  <2>2. Legal(s, e)
    BY <1>1, <1>7, <2>1 DEF Legal, LegalAttempt, Intents, IntentOf, Agree, Launchable
  <2>3. Grew(r, s, [s.live EXCEPT !.last = e.wall, !.campaign = "stopped"],
             s.calls, s.order, s.pending, s.launch, s.evaluate)
    BY <1>1, <1>4, <1>7, <2>2, StoppedWrites DEF r
  <2>4. r.live.campaign = "stopped" /\ r.live.deadline = s.live.deadline /\ r.live.evals = s.live.evals /\ r.live.submitted = s.live.submitted /\ r.live.state = s.live.state /\ r.live.restarts = s.live.restarts /\ r.live.due = s.live.due /\ r.live.last = w
    BY <2>3, <1>1, Fields DEF Grew
  <2>5. /\ r \in Replays /\ r.ok /\ r.why = s.why /\ r.calls = Count(s, e) /\ r.order = s.order
        /\ r.pending = s.pending
        /\ r.launch = s.launch /\ r.evaluate = s.evaluate
    BY <2>3, <1>4 DEF Grew
  <2>6. Agree(r.live, k) /\ r.pending = p
    BY <2>1, <2>4, <2>5, <1>2 DEF Agree, p
  <2>7. ASSUME NEW b \in Attempts PROVE Steady(r, b)
    <3>1. Steady(s, b)
      BY <1>7 DEF Good, At
    <3> QED BY <3>1, <2>4, <2>5 DEF Steady
  <2>8. Once(r.order)
    BY <2>5, <1>7 DEF Good
  <2> QED BY <2>1, <2>4, <2>5, <2>6, <2>7, <2>8
<1>8. Good(r) /\ Track(r, k, p, w)
  BY <1>20, <1>3, <1>1, <1>4, <1>5, <1>6, <1>7, Following DEF r
<1>9. r.ok => s.ok
  BY <1>1, WriteAfterRefusal DEF r
<1> QED BY <1>7, <1>8, <1>9 DEF r, k, p

\* The memory follows it: submit intent.
LEMMA SubmitIntentFollows ==
    ASSUME NEW s, Good(s), NEW m, NEW pending, NEW w \in Nat, Track(s, m, pending, w), NEW a \in Attempts,
           NEW e \in Events, e.kind = "submit.intent", e.of = a, e.wall = w,
           m.state[a] = "none", pending[a] = "none"
    PROVE  /\ Good(Write(s, e)) /\ Track(Write(s, e), [m EXCEPT !.state[a] = "intended"], [pending EXCEPT ![a] = "submit.intent"], w)
<1> DEFINE r == Write(s, e)
           k == [m EXCEPT !.state[a] = "intended"]
           p == [pending EXCEPT ![a] = "submit.intent"]
<1>1. s \in Replays /\ m \in Lives /\ pending \in [Attempts -> Pendings] /\ s.calls \in Calls /\ a # NoAttempt
  BY CampaignSupervisorAssumption DEF Good, Track, Replays
<1>2. k.campaign = m.campaign /\ k.deadline = m.deadline /\ k.evals = m.evals /\ k.submitted = m.submitted /\ k.state = [m.state EXCEPT ![a] = "intended"] /\ k.restarts = m.restarts /\ k.due = m.due
      /\ m.state \in [Attempts -> States] /\ m.restarts \in [Attempts -> Nat]
  BY <1>1 DEF Lives
<1>20. k \in Lives
  <2>1. k = [campaign |-> k.campaign, deadline |-> k.deadline, last |-> m.last, evals |-> k.evals, submitted |-> k.submitted,
             state |-> k.state, restarts |-> k.restarts, due |-> k.due]
    BY <1>1, <1>2 DEF Lives
  <2> HIDE DEF k
  <2> QED BY <1>1, <1>2, <2>1, StatesAre DEF Lives, Events, Unset
<1>3. p \in [Attempts -> Pendings] /\ p[a] = "submit.intent" /\ \A b \in Attempts \ {a} : p[b] = pending[b]
  BY <1>1 DEF Pendings, Intents
<1>4. Count(s, e) = s.calls /\ Count(s, e) \in Calls
  BY <1>1, CallsKeep DEF Count, Intents
<1>5. ASSUME NEW b \in Attempts
      PROVE  /\ k.restarts[b] <= MaxRestarts
             /\ Payable(Count(s, e).launch[b], Count(s, e).resume[b], k.state[b], p[b], k.restarts[b])
  <2>1. /\ m.restarts[b] <= MaxRestarts
        /\ Payable(s.calls.launch[b], s.calls.resume[b], m.state[b], pending[b], m.restarts[b])
    BY DEF Track
  <2>2. CASE b # a
    BY <2>1, <2>2, <1>2, <1>3, <1>4
  <2>3. CASE b = a
    BY <2>3, <2>1, <1>1, <1>2, <1>3, <1>4 DEF Payable, Launchable, Active
  <2> QED BY <2>2, <2>3
<1>6. k.evals = Count(s, e).evaluate /\ k.evals <= MaxEvaluations
  BY <1>1, <1>2, <1>4 DEF Track, Good, Within, Calls
<1> HIDE DEF k, p, r
<1>7. ASSUME s.ok
      PROVE  /\ r \in Replays /\ r.ok /\ r.why = s.why /\ r.calls = Count(s, e) /\ r.pending = p
             /\ Agree(r.live, k) /\ r.live.last <= w /\ Once(r.order) /\ \A b \in Attempts : Steady(r, b)
  <2>1. s.pending = pending /\ Agree(s.live, m) /\ s.live.last <= w
    BY <1>7 DEF Track
  <2>2. Legal(s, e)
    BY <1>1, <1>7, <2>1 DEF Legal, LegalAttempt, Intents, IntentOf, Agree, Launchable
  <2>3. Grew(r, s, [s.live EXCEPT !.last = e.wall, !.state[e.of] = "intended"],
             s.calls, s.order, [s.pending EXCEPT ![e.of] = e.kind], s.launch, s.evaluate)
    BY <1>1, <1>4, <1>7, <2>2, SubmitIntentWrites DEF r
  <2>4. r.live.campaign = s.live.campaign /\ r.live.deadline = s.live.deadline /\ r.live.evals = s.live.evals /\ r.live.submitted = s.live.submitted /\ r.live.state = [s.live.state EXCEPT ![a] = "intended"] /\ r.live.restarts = s.live.restarts /\ r.live.due = s.live.due /\ r.live.last = w
    BY <2>3, <1>1, Fields DEF Grew
  <2>5. /\ r \in Replays /\ r.ok /\ r.why = s.why /\ r.calls = Count(s, e) /\ r.order = s.order
        /\ r.pending = [s.pending EXCEPT ![a] = "submit.intent"]
        /\ r.launch = s.launch /\ r.evaluate = s.evaluate
    BY <2>3, <1>4 DEF Grew
  <2>6. Agree(r.live, k) /\ r.pending = p
    BY <2>1, <2>4, <2>5, <1>2 DEF Agree, p
  <2>7. ASSUME NEW b \in Attempts PROVE Steady(r, b)
    <3>1. Steady(s, b)
      BY <1>7 DEF Good, At
    <3>2. CASE b = a
      <4>1. r.live.state[b] = k.state[b] /\ r.pending[b] = p[b] /\ s.live.state[b] = m.state[b] /\ s.pending[b] = pending[b]
        BY <2>1, <2>6 DEF Agree
      <4>2. k.state[b] = "intended"
        BY <3>2, <1>1, <1>2
      <4> QED BY <4>1, <4>2, <3>1, <3>2, <1>1, <1>3, <2>5 DEF Steady, Unfinished, MidFlight, Active, Launchable, Replays
    <3>3. CASE b # a
      <4>1. r.live.state[b] = s.live.state[b] /\ r.pending[b] = s.pending[b] /\ r.evaluate[b] = s.evaluate[b]
        BY <3>3, <1>1, <2>4, <2>5 DEF Replays, Lives
      <4> QED BY <4>1, <3>1, <2>5 DEF Steady
    <3> QED BY <3>2, <3>3
  <2>8. Once(r.order)
    BY <2>5, <1>7 DEF Good
  <2> QED BY <2>1, <2>4, <2>5, <2>6, <2>7, <2>8
<1>8. Good(r) /\ Track(r, k, p, w)
  BY <1>20, <1>3, <1>1, <1>4, <1>5, <1>6, <1>7, Following DEF r
<1>9. r.ok => s.ok
  BY <1>1, WriteAfterRefusal DEF r
<1> QED BY <1>7, <1>8, <1>9 DEF r, k, p

\* The memory follows it: submit outcome.
LEMMA SubmitOutcomeFollows ==
    ASSUME NEW s, Good(s), NEW m, NEW pending, NEW w \in Nat, Track(s, m, pending, w), NEW a \in Attempts,
           NEW e \in Events, e.kind = "submit.outcome", e.of = a, e.wall = w,
           m.state[a] = "intended", pending[a] = "submit.intent", m.submitted < MaxAttempts
    PROVE  /\ Good(Write(s, e)) /\ Track(Write(s, e), [m EXCEPT !.state[a] = "prepared", !.submitted = @ + 1], [pending EXCEPT ![a] = "none"], w)
<1> DEFINE r == Write(s, e)
           k == [m EXCEPT !.state[a] = "prepared", !.submitted = @ + 1]
           p == [pending EXCEPT ![a] = "none"]
<1>1. s \in Replays /\ m \in Lives /\ pending \in [Attempts -> Pendings] /\ s.calls \in Calls /\ a # NoAttempt
  BY CampaignSupervisorAssumption DEF Good, Track, Replays
<1>2. k.campaign = m.campaign /\ k.deadline = m.deadline /\ k.evals = m.evals /\ k.submitted = m.submitted + 1 /\ k.state = [m.state EXCEPT ![a] = "prepared"] /\ k.restarts = m.restarts /\ k.due = m.due
      /\ m.state \in [Attempts -> States] /\ m.restarts \in [Attempts -> Nat]
  BY <1>1 DEF Lives
<1>20. k \in Lives
  <2> DEFINE l == [m EXCEPT !.state[a] = "prepared"]
  <2>1. l \in Lives
    BY <1>1, LivesKeep, StatesAre
  <2>2. l.submitted + 1 \in Nat
    BY <2>1, CampaignSupervisorAssumption DEF Lives
  <2> QED BY <2>1, <2>2, LivesKeep
<1>3. p \in [Attempts -> Pendings] /\ p[a] = "none" /\ \A b \in Attempts \ {a} : p[b] = pending[b]
  BY <1>1 DEF Pendings, Intents
<1>4. Count(s, e) = s.calls /\ Count(s, e) \in Calls
  BY <1>1, CallsKeep DEF Count, Intents
<1>5. ASSUME NEW b \in Attempts
      PROVE  /\ k.restarts[b] <= MaxRestarts
             /\ Payable(Count(s, e).launch[b], Count(s, e).resume[b], k.state[b], p[b], k.restarts[b])
  <2>1. /\ m.restarts[b] <= MaxRestarts
        /\ Payable(s.calls.launch[b], s.calls.resume[b], m.state[b], pending[b], m.restarts[b])
    BY DEF Track
  <2>2. CASE b # a
    BY <2>1, <2>2, <1>2, <1>3, <1>4
  <2>3. CASE b = a
    BY <2>3, <2>1, <1>1, <1>2, <1>3, <1>4 DEF Payable, Launchable, Active
  <2> QED BY <2>2, <2>3
<1>6. k.evals = Count(s, e).evaluate /\ k.evals <= MaxEvaluations
  BY <1>1, <1>2, <1>4 DEF Track, Good, Within, Calls
<1> HIDE DEF k, p, r
<1>7. ASSUME s.ok
      PROVE  /\ r \in Replays /\ r.ok /\ r.why = s.why /\ r.calls = Count(s, e) /\ r.pending = p
             /\ Agree(r.live, k) /\ r.live.last <= w /\ Once(r.order) /\ \A b \in Attempts : Steady(r, b)
  <2>1. s.pending = pending /\ Agree(s.live, m) /\ s.live.last <= w
    BY <1>7 DEF Track
  <2>2. Legal(s, e)
    BY <1>1, <1>7, <2>1 DEF Legal, LegalAttempt, Intents, IntentOf, Agree, Launchable
  <2>3. Grew(r, s, [s.live EXCEPT !.last = e.wall, !.state[e.of] = "prepared", !.submitted = @ + 1],
             s.calls, Append(s.order, e.of), [s.pending EXCEPT ![e.of] = "none"], s.launch, s.evaluate)
    BY <1>1, <1>4, <1>7, <2>2, SubmitOutcomeWrites DEF r
  <2>4. r.live.campaign = s.live.campaign /\ r.live.deadline = s.live.deadline /\ r.live.evals = s.live.evals /\ r.live.submitted = s.live.submitted + 1 /\ r.live.state = [s.live.state EXCEPT ![a] = "prepared"] /\ r.live.restarts = s.live.restarts /\ r.live.due = s.live.due /\ r.live.last = w
    BY <2>3, <1>1, Fields DEF Grew
  <2>5. /\ r \in Replays /\ r.ok /\ r.why = s.why /\ r.calls = Count(s, e) /\ r.order = Append(s.order, a)
        /\ r.pending = [s.pending EXCEPT ![a] = "none"]
        /\ r.launch = s.launch /\ r.evaluate = s.evaluate
    BY <2>3, <1>4 DEF Grew
  <2>6. Agree(r.live, k) /\ r.pending = p
    BY <2>1, <2>4, <2>5, <1>2 DEF Agree, p
  <2>7. Once(r.order) /\ Range(r.order) = Range(s.order) \cup {a}
    <3>1. s.order \in Seq(Attempts) /\ Once(s.order) /\ a \notin Range(s.order)
      BY <1>1, <1>7, <2>1 DEF Good, At, Steady, Replays, Agree
    <3> QED BY <3>1, <2>5, OnceMore
  <2>8. ASSUME NEW b \in Attempts PROVE Steady(r, b)
    <3>1. Steady(s, b)
      BY <1>7 DEF Good, At
    <3>2. CASE b = a
      <4>1. r.live.state[b] = "prepared" /\ r.pending[b] = "none"
        BY <3>2, <1>1, <1>2, <1>3, <2>6 DEF Agree
      <4> QED BY <4>1, <3>1, <3>2, <2>5, <2>7 DEF Steady, Unfinished, MidFlight, Active, Launchable
    <3>3. CASE b # a
      <4>1. r.live.state[b] = s.live.state[b] /\ r.pending[b] = s.pending[b] /\ r.evaluate[b] = s.evaluate[b]
        BY <3>3, <1>1, <2>4, <2>5 DEF Replays, Lives
      <4> QED BY <4>1, <3>1, <3>3, <2>5, <2>7 DEF Steady
    <3> QED BY <3>2, <3>3
  <2> QED BY <2>1, <2>4, <2>5, <2>6, <2>7, <2>8
<1>8. Good(r) /\ Track(r, k, p, w)
  BY <1>20, <1>3, <1>1, <1>4, <1>5, <1>6, <1>7, Following DEF r
<1>9. r.ok => s.ok
  BY <1>1, WriteAfterRefusal DEF r
<1> QED BY <1>7, <1>8, <1>9 DEF r, k, p

\* The memory follows it: launch intent.
LEMMA LaunchIntentFollows ==
    ASSUME NEW s, Good(s), NEW m, NEW pending, NEW w \in Nat, Track(s, m, pending, w), NEW a \in Attempts,
           NEW e \in Events, e.kind = "launch.intent", e.of = a, e.wall = w,
           m.state[a] \in Launchable, pending[a] = "none"
    PROVE  /\ Good(Write(s, e)) /\ Track(Write(s, e), [m EXCEPT !.due[a] = IF @ = Unset THEN w + AttemptTimeout ELSE @], [pending EXCEPT ![a] = "launch.intent"], w)
<1> DEFINE r == Write(s, e)
           k == [m EXCEPT !.due[a] = IF @ = Unset THEN w + AttemptTimeout ELSE @]
           p == [pending EXCEPT ![a] = "launch.intent"]
<1>1. s \in Replays /\ m \in Lives /\ pending \in [Attempts -> Pendings] /\ s.calls \in Calls /\ a # NoAttempt
  BY CampaignSupervisorAssumption DEF Good, Track, Replays
<1>2. k.campaign = m.campaign /\ k.deadline = m.deadline /\ k.evals = m.evals /\ k.submitted = m.submitted /\ k.state = m.state /\ k.restarts = m.restarts /\ k.due = [m.due EXCEPT ![a] = IF @ = Unset THEN w + AttemptTimeout ELSE @]
      /\ m.state \in [Attempts -> States] /\ m.restarts \in [Attempts -> Nat]
  BY <1>1 DEF Lives
<1>20. k \in Lives
  <2>1. k = [campaign |-> k.campaign, deadline |-> k.deadline, last |-> m.last, evals |-> k.evals, submitted |-> k.submitted,
             state |-> k.state, restarts |-> k.restarts, due |-> k.due]
    BY <1>1, <1>2 DEF Lives
  <2> HIDE DEF k
  <2> QED BY <1>1, <1>2, <2>1, CampaignSupervisorAssumption DEF Lives, Events, Unset
<1>3. p \in [Attempts -> Pendings] /\ p[a] = "launch.intent" /\ \A b \in Attempts \ {a} : p[b] = pending[b]
  BY <1>1 DEF Pendings, Intents
<1>4. Count(s, e) = [s.calls EXCEPT !.launch[a] = @ + 1] /\ Count(s, e) \in Calls
  BY <1>1, CallsKeep DEF Count, Intents
<1>5. ASSUME NEW b \in Attempts
      PROVE  /\ k.restarts[b] <= MaxRestarts
             /\ Payable(Count(s, e).launch[b], Count(s, e).resume[b], k.state[b], p[b], k.restarts[b])
  <2>1. /\ m.restarts[b] <= MaxRestarts
        /\ Payable(s.calls.launch[b], s.calls.resume[b], m.state[b], pending[b], m.restarts[b])
    BY DEF Track
  <2>2. CASE b # a
    BY <2>1, <2>2, <1>2, <1>3, <1>4
  <2>3. CASE b = a
    <3>1. /\ s.calls.launch[a] \in Nat /\ s.calls.resume[a] \in Nat /\ m.restarts[a] \in Nat
          /\ Count(s, e).launch[a] = s.calls.launch[a] + 1 /\ Count(s, e).resume[a] = s.calls.resume[a]
      BY <1>1, <1>2, <1>4 DEF Calls
    <3> QED BY <2>3, <2>1, <3>1, <1>2, <1>3 DEF Payable
  <2> QED BY <2>2, <2>3
<1>6. k.evals = Count(s, e).evaluate /\ k.evals <= MaxEvaluations
  BY <1>1, <1>2, <1>4 DEF Track, Good, Within, Calls
<1> HIDE DEF k, p, r
<1>7. ASSUME s.ok
      PROVE  /\ r \in Replays /\ r.ok /\ r.why = s.why /\ r.calls = Count(s, e) /\ r.pending = p
             /\ Agree(r.live, k) /\ r.live.last <= w /\ Once(r.order) /\ \A b \in Attempts : Steady(r, b)
  <2>1. s.pending = pending /\ Agree(s.live, m) /\ s.live.last <= w
    BY <1>7 DEF Track
  <2>2. Legal(s, e)
    BY <1>1, <1>7, <2>1 DEF Legal, LegalAttempt, Intents, IntentOf, Agree, Launchable
  <2>3. Grew(r, s, [s.live EXCEPT !.last = e.wall, !.due[e.of] = IF @ = Unset THEN e.wall + AttemptTimeout ELSE @],
             [s.calls EXCEPT !.launch[e.of] = @ + 1], s.order, [s.pending EXCEPT ![e.of] = e.kind], [s.launch EXCEPT ![e.of] = "none"], [s.evaluate EXCEPT ![e.of] = "none"])
    BY <1>1, <1>4, <1>7, <2>2, LaunchIntentWrites DEF r
  <2>4. r.live.campaign = s.live.campaign /\ r.live.deadline = s.live.deadline /\ r.live.evals = s.live.evals /\ r.live.submitted = s.live.submitted /\ r.live.state = s.live.state /\ r.live.restarts = s.live.restarts /\ r.live.due = [s.live.due EXCEPT ![a] = IF @ = Unset THEN w + AttemptTimeout ELSE @] /\ r.live.last = w
    BY <2>3, <1>1, Fields DEF Grew
  <2>5. /\ r \in Replays /\ r.ok /\ r.why = s.why /\ r.calls = Count(s, e) /\ r.order = s.order
        /\ r.pending = [s.pending EXCEPT ![a] = "launch.intent"]
        /\ r.launch = [s.launch EXCEPT ![a] = "none"] /\ r.evaluate = [s.evaluate EXCEPT ![a] = "none"]
    BY <2>3, <1>4 DEF Grew
  <2>6. Agree(r.live, k) /\ r.pending = p
    BY <2>1, <2>4, <2>5, <1>2 DEF Agree, p
  <2>7. ASSUME NEW b \in Attempts PROVE Steady(r, b)
    <3>1. Steady(s, b)
      BY <1>7 DEF Good, At
    <3>2. CASE b = a
      <4>1. r.live.state[b] = k.state[b] /\ r.pending[b] = p[b] /\ s.live.state[b] = m.state[b] /\ s.pending[b] = pending[b]
        BY <2>1, <2>6 DEF Agree
      <4>2. k.state[b] = m.state[b]
        BY <3>2, <1>1, <1>2
      <4> QED BY <4>1, <4>2, <3>1, <3>2, <1>1, <1>3, <2>5 DEF Steady, Unfinished, MidFlight, Active, Launchable, Replays
    <3>3. CASE b # a
      <4>1. r.live.state[b] = s.live.state[b] /\ r.pending[b] = s.pending[b] /\ r.evaluate[b] = s.evaluate[b]
        BY <3>3, <1>1, <2>4, <2>5 DEF Replays, Lives
      <4> QED BY <4>1, <3>1, <2>5 DEF Steady
    <3> QED BY <3>2, <3>3
  <2>8. Once(r.order)
    BY <2>5, <1>7 DEF Good
  <2> QED BY <2>1, <2>4, <2>5, <2>6, <2>7, <2>8
<1>8. Good(r) /\ Track(r, k, p, w)
  BY <1>20, <1>3, <1>1, <1>4, <1>5, <1>6, <1>7, Following DEF r
<1>9. r.ok => s.ok
  BY <1>1, WriteAfterRefusal DEF r
<1> QED BY <1>7, <1>8, <1>9 DEF r, k, p

\* The memory follows it: checkpoint intent.
LEMMA CheckpointIntentFollows ==
    ASSUME NEW s, Good(s), NEW m, NEW pending, NEW w \in Nat, Track(s, m, pending, w), NEW a \in Attempts,
           NEW e \in Events, e.kind = "checkpoint.intent", e.of = a, e.wall = w,
           m.state[a] \in Active, pending[a] = "none", s.ok => s.launch[a] = "completed"
    PROVE  /\ Good(Write(s, e)) /\ Track(Write(s, e), m, [pending EXCEPT ![a] = "checkpoint.intent"], w)
           /\ Write(s, e).ok => s.ok /\ Write(s, e).launch = s.launch /\ Write(s, e).evaluate = s.evaluate
<1> DEFINE r == Write(s, e)
           k == m
           p == [pending EXCEPT ![a] = "checkpoint.intent"]
<1>1. s \in Replays /\ m \in Lives /\ pending \in [Attempts -> Pendings] /\ s.calls \in Calls /\ a # NoAttempt
  BY CampaignSupervisorAssumption DEF Good, Track, Replays
<1>2. k.campaign = m.campaign /\ k.deadline = m.deadline /\ k.evals = m.evals /\ k.submitted = m.submitted /\ k.state = m.state /\ k.restarts = m.restarts /\ k.due = m.due
      /\ m.state \in [Attempts -> States] /\ m.restarts \in [Attempts -> Nat]
  BY <1>1 DEF Lives
<1>20. k \in Lives
  <2>1. k = [campaign |-> k.campaign, deadline |-> k.deadline, last |-> m.last, evals |-> k.evals, submitted |-> k.submitted,
             state |-> k.state, restarts |-> k.restarts, due |-> k.due]
    BY <1>1, <1>2 DEF Lives
  <2> HIDE DEF k
  <2> QED BY <1>1, <1>2, <2>1 DEF Lives, Events, Unset
<1>3. p \in [Attempts -> Pendings] /\ p[a] = "checkpoint.intent" /\ \A b \in Attempts \ {a} : p[b] = pending[b]
  BY <1>1 DEF Pendings, Intents
<1>4. Count(s, e) = s.calls /\ Count(s, e) \in Calls
  BY <1>1, CallsKeep DEF Count, Intents
<1>5. ASSUME NEW b \in Attempts
      PROVE  /\ k.restarts[b] <= MaxRestarts
             /\ Payable(Count(s, e).launch[b], Count(s, e).resume[b], k.state[b], p[b], k.restarts[b])
  <2>1. /\ m.restarts[b] <= MaxRestarts
        /\ Payable(s.calls.launch[b], s.calls.resume[b], m.state[b], pending[b], m.restarts[b])
    BY DEF Track
  <2>2. CASE b # a
    BY <2>1, <2>2, <1>2, <1>3, <1>4
  <2>3. CASE b = a
    BY <2>3, <2>1, <1>1, <1>2, <1>3, <1>4 DEF Payable, Launchable, Active
  <2> QED BY <2>2, <2>3
<1>6. k.evals = Count(s, e).evaluate /\ k.evals <= MaxEvaluations
  BY <1>1, <1>2, <1>4 DEF Track, Good, Within, Calls
<1> HIDE DEF k, p, r
<1>7. ASSUME s.ok
      PROVE  /\ r \in Replays /\ r.ok /\ r.why = s.why /\ r.calls = Count(s, e) /\ r.pending = p
             /\ Agree(r.live, k) /\ r.live.last <= w /\ Once(r.order) /\ \A b \in Attempts : Steady(r, b)
             /\ r.launch = s.launch /\ r.evaluate = s.evaluate
  <2>1. s.pending = pending /\ Agree(s.live, m) /\ s.live.last <= w
    BY <1>7 DEF Track
  <2>2. Legal(s, e)
    BY <1>1, <1>7, <2>1 DEF Legal, LegalAttempt, Intents, IntentOf, Agree, Launchable, Active
  <2>3. Grew(r, s, [s.live EXCEPT !.last = e.wall],
             s.calls, s.order, [s.pending EXCEPT ![e.of] = e.kind], s.launch, s.evaluate)
    BY <1>1, <1>4, <1>7, <2>2, CheckpointIntentWrites DEF r
  <2>4. r.live.campaign = s.live.campaign /\ r.live.deadline = s.live.deadline /\ r.live.evals = s.live.evals /\ r.live.submitted = s.live.submitted /\ r.live.state = s.live.state /\ r.live.restarts = s.live.restarts /\ r.live.due = s.live.due /\ r.live.last = w
    BY <2>3, <1>1, Fields DEF Grew
  <2>5. /\ r \in Replays /\ r.ok /\ r.why = s.why /\ r.calls = Count(s, e) /\ r.order = s.order
        /\ r.pending = [s.pending EXCEPT ![a] = "checkpoint.intent"]
        /\ r.launch = s.launch /\ r.evaluate = s.evaluate
    BY <2>3, <1>4 DEF Grew
  <2>6. Agree(r.live, k) /\ r.pending = p
    BY <2>1, <2>4, <2>5, <1>2 DEF Agree, p
  <2>7. ASSUME NEW b \in Attempts PROVE Steady(r, b)
    <3>1. Steady(s, b)
      BY <1>7 DEF Good, At
    <3>2. CASE b = a
      <4>1. r.live.state[b] = k.state[b] /\ r.pending[b] = p[b] /\ s.live.state[b] = m.state[b] /\ s.pending[b] = pending[b]
        BY <2>1, <2>6 DEF Agree
      <4>2. k.state[b] = m.state[b]
        BY <3>2, <1>1, <1>2
      <4> QED BY <4>1, <4>2, <3>1, <3>2, <1>1, <1>3, <2>5 DEF Steady, Unfinished, MidFlight, Active, Launchable, Replays
    <3>3. CASE b # a
      <4>1. r.live.state[b] = s.live.state[b] /\ r.pending[b] = s.pending[b] /\ r.evaluate[b] = s.evaluate[b]
        BY <3>3, <1>1, <2>4, <2>5 DEF Replays, Lives
      <4> QED BY <4>1, <3>1, <2>5 DEF Steady
    <3> QED BY <3>2, <3>3
  <2>8. Once(r.order)
    BY <2>5, <1>7 DEF Good
  <2> QED BY <2>1, <2>4, <2>5, <2>6, <2>7, <2>8
<1>8. Good(r) /\ Track(r, k, p, w)
  BY <1>20, <1>3, <1>1, <1>4, <1>5, <1>6, <1>7, Following DEF r
<1>9. r.ok => s.ok
  BY <1>1, WriteAfterRefusal DEF r
<1> QED BY <1>4, <1>7, <1>8, <1>9 DEF r, k, p

\* The memory follows it: checkpoint outcome.
LEMMA CheckpointOutcomeFollows ==
    ASSUME NEW s, Good(s), NEW m, NEW pending, NEW w \in Nat, Track(s, m, pending, w), NEW a \in Attempts,
           NEW e \in Events, e.kind = "checkpoint.outcome", e.of = a, e.wall = w,
           m.state[a] \in Active, pending[a] = "checkpoint.intent"
    PROVE  /\ Good(Write(s, e)) /\ Track(Write(s, e), [m EXCEPT !.state[a] = "checkpointed"], [pending EXCEPT ![a] = "none"], w)
           /\ Write(s, e).ok => s.ok /\ Write(s, e).launch = s.launch /\ Write(s, e).evaluate = s.evaluate
<1> DEFINE r == Write(s, e)
           k == [m EXCEPT !.state[a] = "checkpointed"]
           p == [pending EXCEPT ![a] = "none"]
<1>1. s \in Replays /\ m \in Lives /\ pending \in [Attempts -> Pendings] /\ s.calls \in Calls /\ a # NoAttempt
  BY CampaignSupervisorAssumption DEF Good, Track, Replays
<1>2. k.campaign = m.campaign /\ k.deadline = m.deadline /\ k.evals = m.evals /\ k.submitted = m.submitted /\ k.state = [m.state EXCEPT ![a] = "checkpointed"] /\ k.restarts = m.restarts /\ k.due = m.due
      /\ m.state \in [Attempts -> States] /\ m.restarts \in [Attempts -> Nat]
  BY <1>1 DEF Lives
<1>20. k \in Lives
  <2>1. k = [campaign |-> k.campaign, deadline |-> k.deadline, last |-> m.last, evals |-> k.evals, submitted |-> k.submitted,
             state |-> k.state, restarts |-> k.restarts, due |-> k.due]
    BY <1>1, <1>2 DEF Lives
  <2> HIDE DEF k
  <2> QED BY <1>1, <1>2, <2>1, StatesAre DEF Lives, Events, Unset
<1>3. p \in [Attempts -> Pendings] /\ p[a] = "none" /\ \A b \in Attempts \ {a} : p[b] = pending[b]
  BY <1>1 DEF Pendings, Intents
<1>4. Count(s, e) = s.calls /\ Count(s, e) \in Calls
  BY <1>1, CallsKeep DEF Count, Intents
<1>5. ASSUME NEW b \in Attempts
      PROVE  /\ k.restarts[b] <= MaxRestarts
             /\ Payable(Count(s, e).launch[b], Count(s, e).resume[b], k.state[b], p[b], k.restarts[b])
  <2>1. /\ m.restarts[b] <= MaxRestarts
        /\ Payable(s.calls.launch[b], s.calls.resume[b], m.state[b], pending[b], m.restarts[b])
    BY DEF Track
  <2>2. CASE b # a
    BY <2>1, <2>2, <1>2, <1>3, <1>4
  <2>3. CASE b = a
    BY <2>3, <2>1, <1>1, <1>2, <1>3, <1>4 DEF Payable, Launchable, Active
  <2> QED BY <2>2, <2>3
<1>6. k.evals = Count(s, e).evaluate /\ k.evals <= MaxEvaluations
  BY <1>1, <1>2, <1>4 DEF Track, Good, Within, Calls
<1> HIDE DEF k, p, r
<1>7. ASSUME s.ok
      PROVE  /\ r \in Replays /\ r.ok /\ r.why = s.why /\ r.calls = Count(s, e) /\ r.pending = p
             /\ Agree(r.live, k) /\ r.live.last <= w /\ Once(r.order) /\ \A b \in Attempts : Steady(r, b)
             /\ r.launch = s.launch /\ r.evaluate = s.evaluate
  <2>1. s.pending = pending /\ Agree(s.live, m) /\ s.live.last <= w
    BY <1>7 DEF Track
  <2>2. Legal(s, e)
    BY <1>1, <1>7, <2>1 DEF Legal, LegalAttempt, Intents, IntentOf, Agree, Launchable, Active
  <2>3. Grew(r, s, [s.live EXCEPT !.last = e.wall, !.state[e.of] = "checkpointed"],
             s.calls, s.order, [s.pending EXCEPT ![e.of] = "none"], s.launch, s.evaluate)
    BY <1>1, <1>4, <1>7, <2>2, CheckpointOutcomeWrites DEF r
  <2>4. r.live.campaign = s.live.campaign /\ r.live.deadline = s.live.deadline /\ r.live.evals = s.live.evals /\ r.live.submitted = s.live.submitted /\ r.live.state = [s.live.state EXCEPT ![a] = "checkpointed"] /\ r.live.restarts = s.live.restarts /\ r.live.due = s.live.due /\ r.live.last = w
    BY <2>3, <1>1, Fields DEF Grew
  <2>5. /\ r \in Replays /\ r.ok /\ r.why = s.why /\ r.calls = Count(s, e) /\ r.order = s.order
        /\ r.pending = [s.pending EXCEPT ![a] = "none"]
        /\ r.launch = s.launch /\ r.evaluate = s.evaluate
    BY <2>3, <1>4 DEF Grew
  <2>6. Agree(r.live, k) /\ r.pending = p
    BY <2>1, <2>4, <2>5, <1>2 DEF Agree, p
  <2>7. ASSUME NEW b \in Attempts PROVE Steady(r, b)
    <3>1. Steady(s, b)
      BY <1>7 DEF Good, At
    <3>2. CASE b = a
      <4>1. r.live.state[b] = k.state[b] /\ r.pending[b] = p[b] /\ s.live.state[b] = m.state[b] /\ s.pending[b] = pending[b]
        BY <2>1, <2>6 DEF Agree
      <4>2. k.state[b] = "checkpointed"
        BY <3>2, <1>1, <1>2
      <4> QED BY <4>1, <4>2, <3>1, <3>2, <1>1, <1>3, <2>5 DEF Steady, Unfinished, MidFlight, Active, Launchable, Replays
    <3>3. CASE b # a
      <4>1. r.live.state[b] = s.live.state[b] /\ r.pending[b] = s.pending[b] /\ r.evaluate[b] = s.evaluate[b]
        BY <3>3, <1>1, <2>4, <2>5 DEF Replays, Lives
      <4> QED BY <4>1, <3>1, <2>5 DEF Steady
    <3> QED BY <3>2, <3>3
  <2>8. Once(r.order)
    BY <2>5, <1>7 DEF Good
  <2> QED BY <2>1, <2>4, <2>5, <2>6, <2>7, <2>8
<1>8. Good(r) /\ Track(r, k, p, w)
  BY <1>20, <1>3, <1>1, <1>4, <1>5, <1>6, <1>7, Following DEF r
<1>9. r.ok => s.ok
  BY <1>1, WriteAfterRefusal DEF r
<1> QED BY <1>4, <1>7, <1>8, <1>9 DEF r, k, p

\* The memory follows it: evaluate intent.
LEMMA EvaluateIntentFollows ==
    ASSUME NEW s, Good(s), NEW m, NEW pending, NEW w \in Nat, Track(s, m, pending, w), NEW a \in Attempts,
           NEW e \in Events, e.kind = "evaluate.intent", e.of = a, e.wall = w,
           m.state[a] \in Active, pending[a] = "none", s.ok => s.launch[a] = "completed", m.evals < MaxEvaluations
    PROVE  /\ Good(Write(s, e)) /\ Track(Write(s, e), [m EXCEPT !.evals = @ + 1], [pending EXCEPT ![a] = "evaluate.intent"], w)
<1> DEFINE r == Write(s, e)
           k == [m EXCEPT !.evals = @ + 1]
           p == [pending EXCEPT ![a] = "evaluate.intent"]
<1>1. s \in Replays /\ m \in Lives /\ pending \in [Attempts -> Pendings] /\ s.calls \in Calls /\ a # NoAttempt
  BY CampaignSupervisorAssumption DEF Good, Track, Replays
<1>2. k.campaign = m.campaign /\ k.deadline = m.deadline /\ k.evals = m.evals + 1 /\ k.submitted = m.submitted /\ k.state = m.state /\ k.restarts = m.restarts /\ k.due = m.due
      /\ m.state \in [Attempts -> States] /\ m.restarts \in [Attempts -> Nat]
  BY <1>1 DEF Lives
<1>20. k \in Lives
  <2>1. k = [campaign |-> k.campaign, deadline |-> k.deadline, last |-> m.last, evals |-> k.evals, submitted |-> k.submitted,
             state |-> k.state, restarts |-> k.restarts, due |-> k.due]
    BY <1>1, <1>2 DEF Lives
  <2> HIDE DEF k
  <2> QED BY <1>1, <1>2, <2>1 DEF Lives, Events, Unset
<1>3. p \in [Attempts -> Pendings] /\ p[a] = "evaluate.intent" /\ \A b \in Attempts \ {a} : p[b] = pending[b]
  BY <1>1 DEF Pendings, Intents
<1>4. Count(s, e) = [s.calls EXCEPT !.evaluate = @ + 1] /\ Count(s, e) \in Calls
  BY <1>1, CallsKeep DEF Count, Intents
<1>5. ASSUME NEW b \in Attempts
      PROVE  /\ k.restarts[b] <= MaxRestarts
             /\ Payable(Count(s, e).launch[b], Count(s, e).resume[b], k.state[b], p[b], k.restarts[b])
  <2>1. /\ m.restarts[b] <= MaxRestarts
        /\ Payable(s.calls.launch[b], s.calls.resume[b], m.state[b], pending[b], m.restarts[b])
    BY DEF Track
  <2>2. CASE b # a
    BY <2>1, <2>2, <1>2, <1>3, <1>4
  <2>3. CASE b = a
    BY <2>3, <2>1, <1>1, <1>2, <1>3, <1>4 DEF Payable, Launchable, Active
  <2> QED BY <2>2, <2>3
<1>6. k.evals = Count(s, e).evaluate /\ k.evals <= MaxEvaluations
  <2>1. m.evals \in Nat /\ m.evals = s.calls.evaluate /\ MaxEvaluations \in Nat
    BY <1>1, CampaignSupervisorAssumption DEF Track, Lives
  <2>2. Count(s, e).evaluate = s.calls.evaluate + 1
    BY <1>1, <1>4 DEF Calls
  <2> QED BY <1>2, <2>1, <2>2
<1> HIDE DEF k, p, r
<1>7. ASSUME s.ok
      PROVE  /\ r \in Replays /\ r.ok /\ r.why = s.why /\ r.calls = Count(s, e) /\ r.pending = p
             /\ Agree(r.live, k) /\ r.live.last <= w /\ Once(r.order) /\ \A b \in Attempts : Steady(r, b)
  <2>1. s.pending = pending /\ Agree(s.live, m) /\ s.live.last <= w
    BY <1>7 DEF Track
  <2>2. Legal(s, e)
    BY <1>1, <1>7, <2>1 DEF Legal, LegalAttempt, Intents, IntentOf, Agree, Launchable, Active
  <2>3. Grew(r, s, [s.live EXCEPT !.last = e.wall, !.evals = @ + 1],
             [s.calls EXCEPT !.evaluate = @ + 1], s.order, [s.pending EXCEPT ![e.of] = e.kind], s.launch, s.evaluate)
    BY <1>1, <1>4, <1>7, <2>2, EvaluateIntentWrites DEF r
  <2>4. r.live.campaign = s.live.campaign /\ r.live.deadline = s.live.deadline /\ r.live.evals = s.live.evals + 1 /\ r.live.submitted = s.live.submitted /\ r.live.state = s.live.state /\ r.live.restarts = s.live.restarts /\ r.live.due = s.live.due /\ r.live.last = w
    BY <2>3, <1>1, Fields DEF Grew
  <2>5. /\ r \in Replays /\ r.ok /\ r.why = s.why /\ r.calls = Count(s, e) /\ r.order = s.order
        /\ r.pending = [s.pending EXCEPT ![a] = "evaluate.intent"]
        /\ r.launch = s.launch /\ r.evaluate = s.evaluate
    BY <2>3, <1>4 DEF Grew
  <2>6. Agree(r.live, k) /\ r.pending = p
    BY <2>1, <2>4, <2>5, <1>2 DEF Agree, p
  <2>7. ASSUME NEW b \in Attempts PROVE Steady(r, b)
    <3>1. Steady(s, b)
      BY <1>7 DEF Good, At
    <3>2. CASE b = a
      <4>1. r.live.state[b] = k.state[b] /\ r.pending[b] = p[b] /\ s.live.state[b] = m.state[b] /\ s.pending[b] = pending[b]
        BY <2>1, <2>6 DEF Agree
      <4>2. k.state[b] = m.state[b]
        BY <3>2, <1>1, <1>2
      <4> QED BY <4>1, <4>2, <3>1, <3>2, <1>1, <1>3, <2>5 DEF Steady, Unfinished, MidFlight, Active, Launchable, Replays
    <3>3. CASE b # a
      <4>1. r.live.state[b] = s.live.state[b] /\ r.pending[b] = s.pending[b] /\ r.evaluate[b] = s.evaluate[b]
        BY <3>3, <1>1, <2>4, <2>5 DEF Replays, Lives
      <4> QED BY <4>1, <3>1, <2>5 DEF Steady
    <3> QED BY <3>2, <3>3
  <2>8. Once(r.order)
    BY <2>5, <1>7 DEF Good
  <2> QED BY <2>1, <2>4, <2>5, <2>6, <2>7, <2>8
<1>8. Good(r) /\ Track(r, k, p, w)
  BY <1>20, <1>3, <1>1, <1>4, <1>5, <1>6, <1>7, Following DEF r
<1>9. r.ok => s.ok
  BY <1>1, WriteAfterRefusal DEF r
<1> QED BY <1>7, <1>8, <1>9 DEF r, k, p

\* The memory follows it: evaluate outcome.
LEMMA EvaluateOutcomeFollows ==
    ASSUME NEW s, Good(s), NEW m, NEW pending, NEW w \in Nat, Track(s, m, pending, w), NEW a \in Attempts,
           NEW e \in Events, e.kind = "evaluate.outcome", e.of = a, e.wall = w,
           m.state[a] \in Active, pending[a] = "evaluate.intent"
    PROVE  /\ Good(Write(s, e)) /\ Track(Write(s, e), m, [pending EXCEPT ![a] = "none"], w)
           /\ Write(s, e).ok => s.ok /\ Write(s, e).evaluate[a] = e.status
<1> DEFINE r == Write(s, e)
           k == m
           p == [pending EXCEPT ![a] = "none"]
<1>1. s \in Replays /\ m \in Lives /\ pending \in [Attempts -> Pendings] /\ s.calls \in Calls /\ a # NoAttempt
  BY CampaignSupervisorAssumption DEF Good, Track, Replays
<1>2. k.campaign = m.campaign /\ k.deadline = m.deadline /\ k.evals = m.evals /\ k.submitted = m.submitted /\ k.state = m.state /\ k.restarts = m.restarts /\ k.due = m.due
      /\ m.state \in [Attempts -> States] /\ m.restarts \in [Attempts -> Nat]
  BY <1>1 DEF Lives
<1>20. k \in Lives
  <2>1. k = [campaign |-> k.campaign, deadline |-> k.deadline, last |-> m.last, evals |-> k.evals, submitted |-> k.submitted,
             state |-> k.state, restarts |-> k.restarts, due |-> k.due]
    BY <1>1, <1>2 DEF Lives
  <2> HIDE DEF k
  <2> QED BY <1>1, <1>2, <2>1 DEF Lives, Events, Unset
<1>3. p \in [Attempts -> Pendings] /\ p[a] = "none" /\ \A b \in Attempts \ {a} : p[b] = pending[b]
  BY <1>1 DEF Pendings, Intents
<1>4. Count(s, e) = s.calls /\ Count(s, e) \in Calls
  BY <1>1, CallsKeep DEF Count, Intents
<1>5. ASSUME NEW b \in Attempts
      PROVE  /\ k.restarts[b] <= MaxRestarts
             /\ Payable(Count(s, e).launch[b], Count(s, e).resume[b], k.state[b], p[b], k.restarts[b])
  <2>1. /\ m.restarts[b] <= MaxRestarts
        /\ Payable(s.calls.launch[b], s.calls.resume[b], m.state[b], pending[b], m.restarts[b])
    BY DEF Track
  <2>2. CASE b # a
    BY <2>1, <2>2, <1>2, <1>3, <1>4
  <2>3. CASE b = a
    BY <2>3, <2>1, <1>1, <1>2, <1>3, <1>4 DEF Payable, Launchable, Active
  <2> QED BY <2>2, <2>3
<1>6. k.evals = Count(s, e).evaluate /\ k.evals <= MaxEvaluations
  BY <1>1, <1>2, <1>4 DEF Track, Good, Within, Calls
<1> HIDE DEF k, p, r
<1>7. ASSUME s.ok
      PROVE  /\ r \in Replays /\ r.ok /\ r.why = s.why /\ r.calls = Count(s, e) /\ r.pending = p
             /\ Agree(r.live, k) /\ r.live.last <= w /\ Once(r.order) /\ \A b \in Attempts : Steady(r, b)
             /\ r.evaluate[a] = e.status
  <2>1. s.pending = pending /\ Agree(s.live, m) /\ s.live.last <= w
    BY <1>7 DEF Track
  <2>2. Legal(s, e)
    BY <1>1, <1>7, <2>1 DEF Legal, LegalAttempt, Intents, IntentOf, Agree, Launchable, Active
  <2>3. Grew(r, s, [s.live EXCEPT !.last = e.wall],
             s.calls, s.order, [s.pending EXCEPT ![e.of] = "none"], s.launch, [s.evaluate EXCEPT ![e.of] = e.status])
    BY <1>1, <1>4, <1>7, <2>2, EvaluateOutcomeWrites DEF r
  <2>4. r.live.campaign = s.live.campaign /\ r.live.deadline = s.live.deadline /\ r.live.evals = s.live.evals /\ r.live.submitted = s.live.submitted /\ r.live.state = s.live.state /\ r.live.restarts = s.live.restarts /\ r.live.due = s.live.due /\ r.live.last = w
    BY <2>3, <1>1, Fields DEF Grew
  <2>5. /\ r \in Replays /\ r.ok /\ r.why = s.why /\ r.calls = Count(s, e) /\ r.order = s.order
        /\ r.pending = [s.pending EXCEPT ![a] = "none"]
        /\ r.launch = s.launch /\ r.evaluate = [s.evaluate EXCEPT ![a] = e.status]
    BY <2>3, <1>4 DEF Grew
  <2>6. Agree(r.live, k) /\ r.pending = p
    BY <2>1, <2>4, <2>5, <1>2 DEF Agree, p
  <2>7. ASSUME NEW b \in Attempts PROVE Steady(r, b)
    <3>1. Steady(s, b)
      BY <1>7 DEF Good, At
    <3>2. CASE b = a
      <4>1. r.live.state[b] = k.state[b] /\ r.pending[b] = p[b] /\ s.live.state[b] = m.state[b] /\ s.pending[b] = pending[b]
        BY <2>1, <2>6 DEF Agree
      <4>2. k.state[b] = m.state[b]
        BY <3>2, <1>1, <1>2
      <4> QED BY <4>1, <4>2, <3>1, <3>2, <1>1, <1>3, <2>5 DEF Steady, Unfinished, MidFlight, Active, Launchable, Replays
    <3>3. CASE b # a
      <4>1. r.live.state[b] = s.live.state[b] /\ r.pending[b] = s.pending[b] /\ r.evaluate[b] = s.evaluate[b]
        BY <3>3, <1>1, <2>4, <2>5 DEF Replays, Lives
      <4> QED BY <4>1, <3>1, <2>5 DEF Steady
    <3> QED BY <3>2, <3>3
  <2>8. Once(r.order)
    BY <2>5, <1>7 DEF Good
  <2>9. r.evaluate[a] = e.status
    BY <1>1, <2>5 DEF Replays
  <2> QED BY <2>1, <2>4, <2>5, <2>6, <2>7, <2>8, <2>9
<1>8. Good(r) /\ Track(r, k, p, w)
  BY <1>20, <1>3, <1>1, <1>4, <1>5, <1>6, <1>7, Following DEF r
<1>9. r.ok => s.ok
  BY <1>1, WriteAfterRefusal DEF r
<1> QED BY <1>4, <1>7, <1>8, <1>9 DEF r, k, p

\* An interrupted event e of the attempt a fits the memory m and the replay s:
\* it charges a restart, or it charges none and the replay has the attempt active.
InterruptFits(s, m, pending, a, e) ==
    /\ m.state[a] \in MidFlight \/ (m.state[a] = "interrupted" /\ pending[a] # "none")
    /\ e.restarts <= MaxRestarts
    /\ \/ e.restarts = m.restarts[a] + 1
       \/ /\ e.restarts = m.restarts[a] /\ s.live.restarts[a] = e.restarts
          /\ s.pending[a] = "none" /\ s.live.state[a] \in Active

\* The memory follows it: interrupted.
LEMMA InterruptedFollows ==
    ASSUME NEW s, Good(s), NEW m, NEW pending, NEW w \in Nat, Track(s, m, pending, w), NEW a \in Attempts,
           NEW e \in Events, e.kind = "interrupted", e.of = a, e.wall = w,
           InterruptFits(s, m, pending, a, e)
    PROVE  /\ Good(Write(s, e)) /\ Apart(Write(s, e), s, a)
           /\ Track(Write(s, e), [m EXCEPT !.state[a] = "interrupted", !.restarts[a] = e.restarts],
                    [pending EXCEPT ![a] = "none"], w)
<1> DEFINE r == Write(s, e)
           k == [m EXCEPT !.state[a] = "interrupted", !.restarts[a] = e.restarts]
           p == [pending EXCEPT ![a] = "none"]
<1>0. /\ m.state[a] \in MidFlight \/ (m.state[a] = "interrupted" /\ pending[a] # "none")
      /\ e.restarts <= MaxRestarts
      /\ \/ e.restarts = m.restarts[a] + 1
         \/ /\ e.restarts = m.restarts[a] /\ s.live.restarts[a] = e.restarts
            /\ s.pending[a] = "none" /\ s.live.state[a] \in Active
  BY DEF InterruptFits
<1>1. /\ s \in Replays /\ m \in Lives /\ a # NoAttempt /\ pending \in [Attempts -> Pendings] /\ s.calls \in Calls
      /\ e.restarts \in Nat
  BY CampaignSupervisorAssumption DEF Good, Track, Replays, Events
<1>2. /\ k.state = [m.state EXCEPT ![a] = "interrupted"] /\ k.campaign = m.campaign /\ k.deadline = m.deadline
      /\ k.evals = m.evals /\ k.submitted = m.submitted /\ k.restarts = [m.restarts EXCEPT ![a] = e.restarts]
      /\ k.due = m.due /\ m.state \in [Attempts -> States] /\ m.restarts \in [Attempts -> Nat]
  BY <1>1 DEF Lives
<1>20. k \in Lives
  <2> DEFINE l == [m EXCEPT !.state[a] = "interrupted"]
  <2>1. l \in Lives
    BY <1>1, LivesKeep, StatesAre
  <2> QED BY <2>1, <1>1, LivesKeep
<1>3. p \in [Attempts -> Pendings] /\ p[a] = "none" /\ \A b \in Attempts \ {a} : p[b] = pending[b]
  BY <1>1 DEF Pendings
<1>4. /\ Count(s, e) \in Calls /\ Count(s, e).evaluate = s.calls.evaluate /\ Count(s, e).launch = s.calls.launch
      /\ \A b \in Attempts : Count(s, e).resume[b] >= s.calls.resume[b]
      /\ (s.pending[a] = "none" /\ s.live.state[a] \in Active /\ s.live.restarts[a] = e.restarts) =>
            Count(s, e).resume[a] = s.calls.resume[a] + 1
  <2>1. CASE s.pending[a] = "none" /\ s.live.state[a] \in Active /\ s.live.restarts[a] = e.restarts
    <3>1. Count(s, e) = [s.calls EXCEPT !.resume[a] = @ + 1]
      BY <2>1 DEF Count
    <3> QED BY <1>1, <3>1, CallsKeep DEF Calls
  <2>2. CASE ~(s.pending[a] = "none" /\ s.live.state[a] \in Active /\ s.live.restarts[a] = e.restarts)
    <3>1. Count(s, e) = s.calls
      BY <2>2 DEF Count
    <3> QED BY <1>1, <2>2, <3>1 DEF Calls
  <2> QED BY <2>1, <2>2
<1>5. ASSUME NEW b \in Attempts
      PROVE  /\ k.restarts[b] <= MaxRestarts
             /\ Payable(Count(s, e).launch[b], Count(s, e).resume[b], k.state[b], p[b], k.restarts[b])
  <2>1. /\ m.restarts[b] <= MaxRestarts
        /\ Payable(s.calls.launch[b], s.calls.resume[b], m.state[b], pending[b], m.restarts[b])
    BY DEF Track
  <2>2. /\ s.calls.launch[b] \in Nat /\ s.calls.resume[b] \in Nat /\ m.restarts[b] \in Nat
        /\ Count(s, e).resume[b] \in Nat /\ Count(s, e).resume[b] >= s.calls.resume[b]
    BY <1>1, <1>2, <1>4 DEF Calls
  <2>3. CASE b # a
    BY <2>1, <2>2, <2>3, <1>2, <1>3, <1>4 DEF Payable
  <2>4. CASE b = a
    <3>1. k.restarts[a] = e.restarts /\ k.state[a] = "interrupted"
      BY <1>1, <1>2
    <3>2. CASE e.restarts = m.restarts[a] + 1
      BY <1>0, <2>4, <3>1, <3>2, <2>1, <2>2, <1>4 DEF Payable
    <3>3. CASE /\ e.restarts = m.restarts[a] /\ s.live.restarts[a] = e.restarts
               /\ s.pending[a] = "none" /\ s.live.state[a] \in Active
      BY <1>0, <2>4, <3>1, <3>3, <2>1, <2>2, <1>4 DEF Payable
    <3> QED BY <1>0, <3>2, <3>3
  <2> QED BY <2>3, <2>4
<1>6. k.evals = Count(s, e).evaluate /\ k.evals <= MaxEvaluations
  BY <1>1, <1>2, <1>4 DEF Track, Good, Within, Calls
<1> HIDE DEF k, p, r
<1>7. ASSUME s.ok
      PROVE  /\ r \in Replays /\ r.ok /\ r.why = s.why /\ r.calls = Count(s, e) /\ r.pending = p
             /\ Agree(r.live, k) /\ r.live.last <= w /\ Once(r.order) /\ \A b \in Attempts : Steady(r, b)
             /\ Apart(r, s, a)
  <2>1. s.pending = pending /\ Agree(s.live, m) /\ s.live.last <= w
    BY <1>7 DEF Track
  <2>2. Legal(s, e)
    <3>1. e.restarts \in s.live.restarts[a] .. MaxRestarts
      BY <1>0, <1>1, <1>2, <2>1, CampaignSupervisorAssumption DEF Agree
    <3> QED BY <1>0, <1>1, <1>7, <2>1, <3>1 DEF Legal, LegalAttempt, Intents, IntentOf, Agree, MidFlight, Active
  <2>3. Grew(r, s, [s.live EXCEPT !.last = e.wall, !.state[e.of] = "interrupted", !.restarts[e.of] = e.restarts],
             Count(s, e), s.order, [s.pending EXCEPT ![e.of] = "none"], s.launch, s.evaluate)
    BY <1>1, <1>7, <2>2, InterruptedWrites DEF r
  <2>4. /\ r.live.state = [s.live.state EXCEPT ![a] = "interrupted"] /\ r.live.campaign = s.live.campaign
        /\ r.live.deadline = s.live.deadline /\ r.live.evals = s.live.evals /\ r.live.last = w
        /\ r.live.submitted = s.live.submitted /\ r.live.restarts = [s.live.restarts EXCEPT ![a] = e.restarts]
        /\ r.live.due = s.live.due
    BY <2>3, <1>1, Fields DEF Grew
  <2>5. /\ r \in Replays /\ r.ok /\ r.why = s.why /\ r.calls = Count(s, e) /\ r.order = s.order
        /\ r.pending = [s.pending EXCEPT ![a] = "none"] /\ r.evaluate = s.evaluate
    BY <2>3 DEF Grew
  <2>6. Agree(r.live, k) /\ r.pending = p
    BY <2>1, <2>4, <2>5, <1>2 DEF Agree, p
  <2>7. ASSUME NEW b \in Attempts PROVE Steady(r, b)
    <3>1. Steady(s, b)
      BY <1>7 DEF Good, At
    <3>2. CASE b = a
      <4>1. /\ r.live.state[b] = "interrupted" /\ r.pending[b] = "none"
            /\ s.live.state[b] \in Unfinished
        BY <3>2, <1>0, <1>1, <1>2, <1>3, <2>1, <2>6 DEF Agree, Unfinished, MidFlight
      <4> QED BY <4>1, <3>1, <2>5 DEF Steady, Unfinished, MidFlight, Active
    <3>3. CASE b # a
      <4>1. r.live.state[b] = s.live.state[b] /\ r.pending[b] = s.pending[b]
        BY <3>3, <1>1, <2>4, <2>5 DEF Replays, Lives
      <4> QED BY <4>1, <3>1, <2>5 DEF Steady
    <3> QED BY <3>2, <3>3
  <2>8. Once(r.order)
    BY <2>5, <1>7 DEF Good
  <2>9. Apart(r, s, a)
    BY <1>1, <2>4, <2>5 DEF Apart, Replays, Lives
  <2> QED BY <2>1, <2>4, <2>5, <2>6, <2>7, <2>8, <2>9
<1>8. Good(r) /\ Track(r, k, p, w)
  BY <1>20, <1>3, <1>1, <1>4, <1>5, <1>6, <1>7, Following DEF r
<1>9. Apart(r, s, a)
  BY <1>1, <1>7, WriteAfterRefusal DEF r, Apart
<1> QED BY <1>8, <1>9 DEF r, k, p

-----------------------------------------------------------------------------
(* A turn: the events of one call, every prefix of which may be what lasts.*)

\* The journal is folded with Write.
Writes == INSTANCE Folding WITH Op <- Write

\* A turn of the supervisor.
Turns == [m : Lives, pc : [Attempts -> Places], queue : Seq(Attempts), es : Seq(Events)]

\* A batch every prefix of which may be all that reaches the disk.
Written(es) == es \in Seq(Events) /\ \A n \in 0 .. Len(es) : Good(Replayed(SubSeq(es, 1, n)))

\* A turn whose memory follows its events, with the intents that are pending.
On(t, pending) == t \in Turns /\ Written(t.es) /\ Track(Replayed(t.es), t.m, pending, wall)

\* The replay of a batch is its fold.
LEMMA ReplayIsFold == \A es : Replayed(es) = Writes!Fold(durable, es)
BY DEF Replayed, FoldLeft, Writes!FoldLeft, MapThenFoldSet, Writes!MapThenFoldSet, Max, Writes!Max, Writes!Fold

\* A turn that has written nothing.
LEMMA WrittenNone == ASSUME Good(durable) PROVE Written(<< >>) /\ Replayed(<< >>) = durable
<1>1. Replayed(<< >>) = durable
  BY Writes!FoldOfNone, ReplayIsFold
<1>2. \A n \in 0 .. Len(<< >>) : SubSeq(<< >>, 1, n) = << >>
  OBVIOUS
<1>3. << >> \in Seq(Events)
  OBVIOUS
<1>4. \A n \in 0 .. Len(<< >>) : Good(Replayed(SubSeq(<< >>, 1, n)))
  BY <1>1, <1>2
<1> QED BY <1>1, <1>3, <1>4 DEF Written

\* The whole batch is a prefix of itself.
LEMMA AllWritten == ASSUME NEW es, Written(es) PROVE Good(Replayed(es))
<1>1. es \in Seq(Events) /\ Len(es) \in Nat /\ SubSeq(es, 1, Len(es)) = es
  BY DEF Written
<1>2. Len(es) \in 0 .. Len(es)
  BY <1>1
<1>3. Good(Replayed(SubSeq(es, 1, Len(es))))
  BY <1>2 DEF Written
<1> QED BY <1>1, <1>3

\* One more event.
LEMMA WrittenMore ==
    ASSUME NEW es, Written(es), NEW e \in Events, Good(Write(Replayed(es), e))
    PROVE  Written(Append(es, e)) /\ Replayed(Append(es, e)) = Write(Replayed(es), e)
<1>1. es \in Seq(Events) /\ Len(es) \in Nat /\ Append(es, e) \in Seq(Events) /\ Len(Append(es, e)) = Len(es) + 1
  BY DEF Written
<1>2. Replayed(Append(es, e)) = Write(Replayed(es), e)
  BY <1>1, Writes!FoldAppend, ReplayIsFold
<1>3. ASSUME NEW n \in 0 .. Len(es) + 1 PROVE Good(Replayed(SubSeq(Append(es, e), 1, n)))
  <2>1. CASE n = Len(es) + 1
    <3>1. SubSeq(Append(es, e), 1, n) = Append(es, e)
      BY <1>1, <2>1
    <3> QED BY <3>1, <1>2
  <2>2. CASE n \in 0 .. Len(es)
    <3>1. SubSeq(Append(es, e), 1, n) = SubSeq(es, 1, n)
      BY <1>1, <2>2
    <3> QED BY <3>1, <2>2 DEF Written
  <2> QED BY <1>1, <2>1, <2>2
<1> QED BY <1>1, <1>2, <1>3 DEF Written

\* An event is one.
LEMMA EventTyped ==
    ASSUME wall \in Nat, NEW kind \in Kinds, NEW a \in Attempts \cup {NoAttempt}
    PROVE  Event(kind, a) \in Events
BY NoneIsReport DEF Events, Event

\* An event stays one in each field that is set.
LEMMA EventsKeep ==
    ASSUME NEW e \in Events
    PROVE  /\ \A x \in Reports : [e EXCEPT !.status = x] \in Events
           /\ \A x \in Nat : [e EXCEPT !.restarts = x] \in Events
           /\ \A x \in Nat : [e EXCEPT !.evals = x] \in Events
           /\ \A x \in Int : [e EXCEPT !.seconds = x] \in Events
BY DEF Events

\* What has elapsed is a number.
LEMMA ElapsedTyped == ASSUME wall \in Nat, NEW m \in Lives, NEW a \in Attempts PROVE Elapsed(m, a, wall) \in Int
BY CampaignSupervisorAssumption DEF Elapsed, Lives

\* Finalize, in a turn: the attempt ends and nobody waits for it.
LEMMA FinalizeTurn ==
    ASSUME wall \in Nat, NEW t, NEW pending, On(t, pending), NEW a \in Attempts, NEW outcome \in Reports,
           t.m.state[a] \in Unfinished \cup {"intended"},
           Replayed(t.es).ok =>
              \/ outcome = "TIMED_OUT" /\ t.m.state[a] \in Unfinished
              \/ \A e \in Events : e.kind = "terminal" /\ e.of = a /\ e.status = outcome => Precursor(Replayed(t.es), e)
    PROVE  LET f == Finalize(t, a, outcome) IN
           /\ On(f, [pending EXCEPT ![a] = "none"]) /\ Apart(Replayed(f.es), Replayed(t.es), a)
           /\ f.m = [t.m EXCEPT !.state[a] = "ended"] /\ f.pc = [t.pc EXCEPT ![a] = "idle"] /\ f.queue = t.queue
           /\ f.es = Append(t.es, f.es[Len(t.es) + 1]) /\ Len(f.es) = Len(t.es) + 1
<1> DEFINE f == Finalize(t, a, outcome)
           e == [Event("terminal", a) EXCEPT !.status = outcome, !.evals = t.m.evals,
                   !.restarts = t.m.restarts[a], !.seconds = Elapsed(t.m, a, wall)]
           s == Replayed(t.es)
<1>1. t \in Turns /\ t.m \in Lives /\ t.es \in Seq(Events) /\ t.pc \in [Attempts -> Places]
  BY DEF On, Turns
<1>2. f = [t EXCEPT !.m = [t.m EXCEPT !.state[a] = "ended"], !.pc = [t.pc EXCEPT ![a] = "idle"], !.es = Append(t.es, e)]
  BY <1>1 DEF Finalize, Emit, Turns
<1>3. /\ f.m = [t.m EXCEPT !.state[a] = "ended"] /\ f.pc = [t.pc EXCEPT ![a] = "idle"]
      /\ f.queue = t.queue /\ f.es = Append(t.es, e)
  <2> HIDE DEF f, e
  <2> QED BY <1>1, <1>2 DEF Turns
<1>4. /\ e \in Events /\ e.kind = "terminal" /\ e.of = a /\ e.wall = wall /\ e.status = outcome
      /\ e.evals = t.m.evals /\ e.restarts = t.m.restarts[a] /\ e.seconds = Elapsed(t.m, a, wall)
  <2>1. t.m.evals \in Nat /\ t.m.restarts[a] \in Nat /\ Elapsed(t.m, a, wall) \in Int /\ "terminal" \in Kinds
    BY <1>1, ElapsedTyped DEF Lives, Kinds
  <2>2. Event("terminal", a) \in Events
    BY <2>1, EventTyped
  <2>3. e \in Events
    BY <2>1, <2>2, EventsKeep
  <2> QED BY <2>3 DEF Event
<1> HIDE DEF e
<1>5. Good(s) /\ Track(s, t.m, pending, wall)
  BY AllWritten DEF On
<1>6. s.ok => Precursor(s, e) \/ (e.status = "TIMED_OUT" /\ t.m.state[a] \in Unfinished)
  BY <1>4
<1>7. /\ Good(Write(s, e)) /\ Apart(Write(s, e), s, a)
      /\ Track(Write(s, e), [t.m EXCEPT !.state[a] = "ended"], [pending EXCEPT ![a] = "none"], wall)
  <2> HIDE DEF s
  <2> QED BY <1>4, <1>5, <1>6, TerminalFollows
<1>8. Written(f.es) /\ Replayed(f.es) = Write(s, e)
  BY <1>3, <1>4, <1>7, WrittenMore DEF On
<1>9. f \in Turns
  <2>1. f.m \in Lives
    <3>1. [t.m EXCEPT !.state[a] = "ended"] \in Lives
      BY <1>1, LivesKeep, StatesAre
    <3> QED BY <3>1, <1>3
  <2>2. f.pc \in [Attempts -> Places] /\ f.es \in Seq(Events)
    BY <1>1, <1>3, <1>4 DEF Places
  <2>3. f = [m |-> f.m, pc |-> f.pc, queue |-> f.queue, es |-> f.es]
    <3> HIDE DEF f
    <3> QED BY <1>1, <1>2 DEF Turns
  <2> HIDE DEF f
  <2> QED BY <1>1, <1>3, <2>1, <2>2, <2>3 DEF Turns
<1> HIDE DEF f, s
<1>10. On(f, [pending EXCEPT ![a] = "none"])
  BY <1>3, <1>7, <1>8, <1>9 DEF On
<1>11. f.es = Append(t.es, f.es[Len(t.es) + 1]) /\ Len(f.es) = Len(t.es) + 1
  BY <1>1, <1>3, <1>4
<1> QED BY <1>3, <1>7, <1>8, <1>10, <1>11 DEF f, s

\* Emit, in a turn.
LEMMA Emitted ==
    ASSUME NEW u, u \in Turns, Written(u.es), NEW e \in Events, NEW pending,
           Good(Write(Replayed(u.es), e)), Track(Write(Replayed(u.es), e), u.m, pending, wall)
    PROVE  /\ On(Emit(u, e), pending)
           /\ Emit(u, e).m = u.m /\ Emit(u, e).pc = u.pc /\ Emit(u, e).queue = u.queue
           /\ Replayed(Emit(u, e).es) = Write(Replayed(u.es), e)
           /\ Emit(u, e).es = Append(u.es, e)
<1> DEFINE f == Emit(u, e)
<1>1. f = [u EXCEPT !.es = Append(u.es, e)] /\ u.es \in Seq(Events)
  BY DEF Emit, Turns
<1>2. f.m = u.m /\ f.pc = u.pc /\ f.queue = u.queue /\ f.es = Append(u.es, e)
  <2> HIDE DEF f
  <2> QED BY <1>1 DEF Turns
<1>3. f \in Turns
  <2>1. Append(u.es, e) \in Seq(Events)
    BY <1>1
  <2> HIDE DEF f
  <2> QED BY <1>1, <2>1 DEF Turns
<1>4. Written(f.es) /\ Replayed(f.es) = Write(Replayed(u.es), e)
  BY <1>2, WrittenMore
<1> HIDE DEF f
<1>5. On(f, pending)
  BY <1>2, <1>3, <1>4 DEF On
<1> QED BY <1>2, <1>4, <1>5 DEF f

\* What a turn is, spelled out.
LEMMA OnIs == ASSUME NEW t, NEW pending, On(t, pending)
              PROVE  /\ t \in Turns /\ Written(t.es) /\ Good(Replayed(t.es)) /\ Track(Replayed(t.es), t.m, pending, wall)
                     /\ t.m \in Lives /\ t.pc \in [Attempts -> Places] /\ t.queue \in Seq(Attempts) /\ t.es \in Seq(Events)
                     /\ pending \in [Attempts -> Pendings]
<1>1. t \in Turns /\ Written(t.es) /\ Track(Replayed(t.es), t.m, pending, wall)
  BY DEF On
<1>2. Good(Replayed(t.es))
  BY <1>1, AllWritten
<1>3. pending \in [Attempts -> Pendings]
  BY <1>1 DEF Track
<1>4. t.m \in Lives /\ t.pc \in [Attempts -> Places] /\ t.queue \in Seq(Attempts) /\ t.es \in Seq(Events)
  BY <1>1 DEF Turns
<1> QED BY <1>1, <1>2, <1>3, <1>4

\* The attempt a may be interrupted, with a charge of a restart or, when the
\* journal has it active with no intent pending, without.
MayInterrupt(t, pending, a, charge) ==
    /\ t.m.state[a] \in MidFlight \/ (t.m.state[a] = "interrupted" /\ pending[a] # "none")
    /\ t.m.restarts[a] + charge <= MaxRestarts
    /\ \/ charge = 1
       \/ /\ charge = 0 /\ Replayed(t.es).live.restarts[a] = t.m.restarts[a]
          /\ Replayed(t.es).pending[a] = "none" /\ Replayed(t.es).live.state[a] \in Active

\* f is the turn t once the attempt a is interrupted.
Interrupted(f, t, pending, a, charge) ==
    /\ On(f, [pending EXCEPT ![a] = "none"]) /\ Apart(Replayed(f.es), Replayed(t.es), a)
    /\ f.m.state = [t.m.state EXCEPT ![a] = "interrupted"] /\ f.m.campaign = t.m.campaign
    /\ f.m.restarts = [t.m.restarts EXCEPT ![a] = t.m.restarts[a] + charge]
    /\ f.pc = t.pc /\ f.queue = t.queue

\* Interrupt, in a turn.
LEMMA InterruptTurn ==
    ASSUME wall \in Nat, NEW t, NEW pending, On(t, pending), NEW a \in Attempts, NEW charge \in {0, 1},
           MayInterrupt(t, pending, a, charge)
    PROVE  Interrupted(Interrupt(t, a, charge), t, pending, a, charge)
<1> DEFINE n == t.m.restarts[a] + charge
           e == [Event("interrupted", a) EXCEPT !.restarts = n]
           k == [t.m EXCEPT !.state[a] = "interrupted", !.restarts[a] = n]
           u == [t EXCEPT !.m = k]
           s == Replayed(t.es)
<1>1. /\ t \in Turns /\ Written(t.es) /\ Good(s) /\ Track(s, t.m, pending, wall) /\ t.m \in Lives
      /\ t.pc \in [Attempts -> Places] /\ t.queue \in Seq(Attempts) /\ t.es \in Seq(Events)
  BY OnIs
<1>2. Interrupt(t, a, charge) = Emit(u, e)
  <2>1. [t EXCEPT !.m.state[a] = "interrupted", !.m.restarts[a] = n] = u
    BY <1>1 DEF Turns
  <2>2. Interrupt(t, a, charge) =
           Emit([t EXCEPT !.m.state[a] = "interrupted", !.m.restarts[a] = n], e)
    BY DEF Interrupt
  <2> QED BY <2>1, <2>2
<1>3. n \in Nat /\ "interrupted" \in Kinds
  BY <1>1 DEF Lives, Kinds
<1>4. e \in Events /\ e.kind = "interrupted" /\ e.of = a /\ e.wall = wall /\ e.restarts = n
  <2>1. Event("interrupted", a) \in Events
    BY <1>3, EventTyped
  <2>2. e \in Events
    BY <1>3, <2>1, EventsKeep
  <2> QED BY <2>2 DEF Event
<1>5. k \in Lives
  <2>1. [t.m EXCEPT !.state[a] = "interrupted"] \in Lives
    BY <1>1, LivesKeep, StatesAre
  <2>2. [[t.m EXCEPT !.state[a] = "interrupted"] EXCEPT !.restarts[a] = n] \in Lives
    <3> HIDE DEF n
    <3> QED BY <1>3, <2>1, LivesKeep
  <2> QED BY <2>2
<1>6. u \in Turns /\ u.m = k /\ u.pc = t.pc /\ u.queue = t.queue /\ u.es = t.es
  <2> HIDE DEF k
  <2> QED BY <1>1, <1>5 DEF Turns
<1>7. /\ Good(Write(s, e)) /\ Apart(Write(s, e), s, a)
      /\ Track(Write(s, e), [t.m EXCEPT !.state[a] = "interrupted", !.restarts[a] = e.restarts],
               [pending EXCEPT ![a] = "none"], wall)
  <2>1. n <= MaxRestarts /\ (n = t.m.restarts[a] + 1 \/ (n = t.m.restarts[a] /\ s.live.restarts[a] = n
              /\ s.pending[a] = "none" /\ s.live.state[a] \in Active))
    BY <1>1 DEF Lives, MayInterrupt
  <2>2. e.restarts <= MaxRestarts /\ (e.restarts = t.m.restarts[a] + 1 \/ (e.restarts = t.m.restarts[a] /\ s.live.restarts[a] = e.restarts
              /\ s.pending[a] = "none" /\ s.live.state[a] \in Active))
    <3> HIDE DEF s, e, n, k, u
    <3> QED BY <1>4, <2>1
  <2>3. e \in Events /\ e.kind = "interrupted" /\ e.of = a /\ e.wall = wall /\ Good(s) /\ Track(s, t.m, pending, wall)
    BY <1>1, <1>4
  <2> HIDE DEF s, e, n, k, u
  <2>4. t.m.state[a] \in MidFlight \/ (t.m.state[a] = "interrupted" /\ pending[a] # "none")
    BY DEF MayInterrupt
  <2>5. InterruptFits(s, t.m, pending, a, e)
    BY <2>2, <2>4 DEF InterruptFits
  <2> QED BY <2>3, <2>5, InterruptedFollows
<1>8. Track(Write(s, e), u.m, [pending EXCEPT ![a] = "none"], wall)
  <2> HIDE DEF s, e, n, u
  <2> QED BY <1>4, <1>6, <1>7 DEF k
<1>9. /\ On(Emit(u, e), [pending EXCEPT ![a] = "none"])
      /\ Emit(u, e).m = u.m /\ Emit(u, e).pc = u.pc /\ Emit(u, e).queue = u.queue
      /\ Replayed(Emit(u, e).es) = Write(Replayed(u.es), e)
  <2>1. Good(Write(Replayed(u.es), e)) /\ Track(Write(Replayed(u.es), e), u.m, [pending EXCEPT ![a] = "none"], wall) /\ Written(u.es)
    <3> HIDE DEF u, e
    <3> QED BY <1>1, <1>6, <1>7, <1>8
  <2>2. u \in Turns /\ e \in Events
    BY <1>4, <1>6
  <2> HIDE DEF u, e, s, n, k
  <2> QED BY <2>1, <2>2, Emitted
<1>10. /\ k.state = [t.m.state EXCEPT ![a] = "interrupted"] /\ k.campaign = t.m.campaign
       /\ k.restarts = [t.m.restarts EXCEPT ![a] = t.m.restarts[a] + charge]
  BY <1>1 DEF Lives
<1> HIDE DEF u, e, k
<1> QED BY <1>2, <1>6, <1>7, <1>9, <1>10 DEF Interrupted

\* The empty turn.
LEMMA TurnStarts ==
    ASSUME SupInv, up, wall >= mem.last
    PROVE  /\ On(Turn, Pending(pc)) /\ Replayed(Turn.es) = durable
           /\ Turn.m = mem /\ Turn.pc = pc /\ Turn.queue = queue /\ Turn.es = << >>
<1>1. /\ wall \in Nat /\ Good(durable) /\ Track(durable, mem, Pending(pc), mem.last) /\ Manned(mem.state, pc, queue)
  BY DEF SupInv
<1>2. Turn.m = mem /\ Turn.pc = pc /\ Turn.queue = queue /\ Turn.es = << >>
  BY DEF Turn
<1>3. mem \in Lives /\ pc \in [Attempts -> Places] /\ queue \in Seq(Attempts)
  BY <1>1 DEF Track, Manned
<1>4. << >> \in Seq(Events)
  OBVIOUS
<1>5. Turn \in Turns
  BY <1>3, <1>4 DEF Turn, Turns
<1>6. Written(<< >>) /\ Replayed(<< >>) = durable
  BY <1>1, WrittenNone
<1>7. Track(durable, mem, Pending(pc), wall)
  <2>1. durable.live.last \in Nat /\ mem.last \in Nat
    BY <1>1, <1>3 DEF Good, Replays, Lives
  <2> QED BY <1>1, <2>1 DEF Track
<1> QED BY <1>2, <1>5, <1>6, <1>7 DEF On

\* A process that dies leaves a good journal, and nothing else.
LEMMA FreshKeeps ==
    ASSUME wall \in Nat, wall' \in Nat, Good(durable'), up' = FALSE, mem' = Fresh, pc' = Each("idle"), queue' = << >>
    PROVE  SupInv'
BY DEF SupInv, Each, Fresh

\* A whole turn, or what of it is durable, keeps the invariant.
LEMMA TakeKeeps ==
    ASSUME SupInv, NEW t, On(t, Pending(t.pc)), Manned(t.m.state, t.pc, t.queue),
           Durable(t) \/ Take(t)
    PROVE  SupInv'
<1>0. wall \in Nat
  BY DEF SupInv
<1>1. /\ t \in Turns /\ Written(t.es) /\ Good(Replayed(t.es)) /\ Track(Replayed(t.es), t.m, Pending(t.pc), wall) /\ t.m \in Lives
      /\ t.pc \in [Attempts -> Places] /\ t.queue \in Seq(Attempts) /\ t.es \in Seq(Events)
  BY OnIs
<1>2. CASE Durable(t)
  <2>1. /\ durable' = Replayed(t.es) /\ mem' = [t.m EXCEPT !.last = wall] /\ pc' = t.pc /\ queue' = t.queue
        /\ up' = TRUE /\ wall' = wall
    BY <1>2 DEF Durable
  <2>2. mem' \in Lives /\ mem'.last = wall /\ mem'.state = t.m.state
    BY <1>0, <1>1, <2>1, LivesKeep DEF Lives
  <2>3. Track(Replayed(t.es), mem', Pending(t.pc), wall)
    <3>1. /\ mem'.evals = t.m.evals /\ mem'.restarts = t.m.restarts /\ mem'.campaign = t.m.campaign
          /\ mem'.deadline = t.m.deadline /\ mem'.submitted = t.m.submitted /\ mem'.due = t.m.due
      BY <1>1, <2>1 DEF Lives
    <3> QED BY <1>1, <2>2, <3>1 DEF Track, Agree
  <2> QED BY <1>0, <1>1, <2>1, <2>2, <2>3 DEF SupInv
<1>3. CASE Lost(t)
  <2>1. PICK n \in 1 .. Len(t.es) - 1 : durable' = Replayed(SubSeq(t.es, 1, n))
    BY <1>3 DEF Lost
  <2>2. Len(t.es) \in Nat /\ n \in 0 .. Len(t.es)
    BY <1>1
  <2>3. Good(durable')
    BY <1>1, <2>1, <2>2 DEF Written
  <2>4. up' = FALSE /\ mem' = Fresh /\ pc' = Each("idle") /\ queue' = << >> /\ wall' = wall
    BY <1>3 DEF Lost, Down
  <2> QED BY <1>0, <2>3, <2>4, FreshKeeps
<1> QED BY <1>2, <1>3 DEF Take

-----------------------------------------------------------------------------
(* A turn in the middle of one attempt.                                    *)

\* A turn that may end here.
Ready(t) == On(t, Pending(t.pc)) /\ Manned(t.m.state, t.pc, t.queue)

\* The turn t is in the middle of what it does to the attempt a.
Nearly(t, pending, a) ==
    /\ On(t, pending) /\ Once(t.queue) /\ a \notin Range(t.queue)
    /\ \A b \in Attempts \ {a} :
          /\ pending[b] = Pending(t.pc)[b]
          /\ t.pc[b] \in {"waiting", "executing"} => t.m.state[b] \in Launchable
          /\ t.pc[b] = "evaluating" => t.m.state[b] = "checkpointed"
          /\ b \in Range(t.queue) => t.pc[b] = "idle" /\ t.m.state[b] \in Launchable

\* f differs from t at the attempt a only.
Same(f, t, a) ==
    /\ f.queue = t.queue
    /\ \A b \in Attempts \ {a} : f.pc[b] = t.pc[b] /\ f.m.state[b] = t.m.state[b]

\* One attempt is where its intent and state say.
Settles(pending, place, state) ==
    /\ pending = IF place = "executing" THEN "launch.intent"
                 ELSE IF place = "evaluating" THEN "evaluate.intent" ELSE "none"
    /\ place \in {"waiting", "executing"} => state \in Launchable
    /\ place = "evaluating" => state = "checkpointed"

\* The time of the last event does not matter to what follows.
LEMMA TrackAgrees ==
    ASSUME NEW s, NEW m, NEW p, NEW w, Track(s, m, p, w), NEW k \in Lives, Agree(m, k)
    PROVE  Track(s, k, p, w)
BY DEF Track, Agree

\* A turn that may end here may also go on with an attempt that is not queued.
LEMMA ReadyIsNearly ==
    ASSUME NEW t, Ready(t), NEW a \in Attempts, a \notin Range(t.queue)
    PROVE  Nearly(t, Pending(t.pc), a)
BY DEF Ready, Nearly, Manned

\* A step on the attempt a stays in the middle.
LEMMA SameIsNearly ==
    ASSUME NEW t, NEW p, NEW a \in Attempts, Nearly(t, p, a), NEW f, Same(f, t, a), NEW x, On(f, [p EXCEPT ![a] = x])
    PROVE  Nearly(f, [p EXCEPT ![a] = x], a)
<1>1. p \in [Attempts -> Pendings] /\ f.pc \in [Attempts -> Places] /\ t.pc \in [Attempts -> Places]
  BY OnIs DEF Nearly
<1>2. \A b \in Attempts \ {a} : [p EXCEPT ![a] = x][b] = p[b] /\ Pending(f.pc)[b] = Pending(t.pc)[b]
  BY <1>1 DEF Pending, Same
<1> HIDE <1>1
<1> QED BY <1>2 DEF Nearly, Same

\* Once the attempt a is settled, the turn may end.
LEMMA Settled ==
    ASSUME NEW t, NEW p, NEW a \in Attempts, Nearly(t, p, a), NEW f, Same(f, t, a), NEW q, On(f, q),
           \A b \in Attempts \ {a} : q[b] = p[b], Settles(q[a], f.pc[a], f.m.state[a])
    PROVE  Ready(f)
<1>1. q \in [Attempts -> Pendings] /\ f.pc \in [Attempts -> Places] /\ t.pc \in [Attempts -> Places] /\ f.queue \in Seq(Attempts)
  BY OnIs DEF Nearly
<1>2. q = Pending(f.pc)
  <2>1. \A b \in Attempts : q[b] = Pending(f.pc)[b]
    <3>1. q[a] = Pending(f.pc)[a]
      BY DEF Settles, Pending
    <3>2. ASSUME NEW b \in Attempts \ {a} PROVE q[b] = Pending(f.pc)[b]
      <4>1. f.pc[b] = t.pc[b] /\ p[b] = Pending(t.pc)[b] /\ q[b] = p[b]
        BY DEF Same, Nearly
      <4> QED BY <4>1 DEF Pending
    <3> QED BY <3>1, <3>2
  <2> QED BY <1>1, <2>1 DEF Pending
<1>3. Manned(f.m.state, f.pc, f.queue)
  <2>1. Once(f.queue) /\ a \notin Range(f.queue)
    BY DEF Same, Nearly
  <2>2. ASSUME NEW b \in Attempts
        PROVE  /\ f.pc[b] \in {"waiting", "executing"} => f.m.state[b] \in Launchable
               /\ f.pc[b] = "evaluating" => f.m.state[b] = "checkpointed"
               /\ b \in Range(f.queue) => f.pc[b] = "idle" /\ f.m.state[b] \in Launchable
    <3>1. CASE b = a
      BY <2>1, <3>1 DEF Settles
    <3>2. CASE b # a
      BY <3>2 DEF Same, Nearly
    <3> QED BY <3>1, <3>2
  <2> QED BY <1>1, <2>1, <2>2 DEF Manned
<1> QED BY <1>2, <1>3 DEF Ready

\* Finalize settles.
LEMMA FinishReady ==
    ASSUME wall \in Nat, NEW t, NEW pending, NEW a \in Attempts, Nearly(t, pending, a), NEW outcome \in Reports,
           t.m.state[a] \in Unfinished \cup {"intended"},
           Replayed(t.es).ok =>
              \/ outcome = "TIMED_OUT" /\ t.m.state[a] \in Unfinished
              \/ \A e \in Events : e.kind = "terminal" /\ e.of = a /\ e.status = outcome => Precursor(Replayed(t.es), e)
    PROVE  Ready(Finalize(t, a, outcome))
<1> DEFINE f == Finalize(t, a, outcome)
           q == [pending EXCEPT ![a] = "none"]
<1>1. On(t, pending)
  BY DEF Nearly
<1>2. On(f, q) /\ f.m = [t.m EXCEPT !.state[a] = "ended"] /\ f.pc = [t.pc EXCEPT ![a] = "idle"] /\ f.queue = t.queue
  BY <1>1, FinalizeTurn
<1>3. /\ t.m \in Lives /\ t.pc \in [Attempts -> Places] /\ pending \in [Attempts -> Pendings]
  BY <1>1, OnIs
<1> HIDE DEF f
<1>4. Same(f, t, a) /\ f.pc[a] = "idle" /\ q[a] = "none"
  BY <1>2, <1>3 DEF Same, Lives
<1>5. \A b \in Attempts \ {a} : q[b] = pending[b]
  BY <1>3
<1>6. Settles(q[a], f.pc[a], f.m.state[a])
  BY <1>4 DEF Settles
<1> HIDE DEF q
<1>7. Ready(f)
  BY <1>2, <1>4, <1>5, <1>6, Settled
<1> QED BY <1>7 DEF f

\* MaybeRetry settles, whatever it decides.
LEMMA RetryReady ==
    ASSUME wall \in Nat, NEW t, NEW pending, NEW a \in Attempts, Nearly(t, pending, a), pending[a] = "none",
           NEW status \in {"crashed", "worker_error", "evaluator_error", "cancelled", "timed_out"},
           t.m.state[a] \in Active,
           Replayed(t.es).ok => \/ Replayed(t.es).launch[a] = status
                                \/ t.m.state[a] = "checkpointed" /\ Replayed(t.es).evaluate[a] = status
    PROVE  Ready(MaybeRetry(t, a, status))
<1> DEFINE s == Replayed(t.es)
<1>1. /\ On(t, pending) /\ Track(s, t.m, pending, wall) /\ t.m \in Lives /\ t.pc \in [Attempts -> Places]
      /\ t.queue \in Seq(Attempts) /\ t.es \in Seq(Events) /\ pending \in [Attempts -> Pendings]
  BY OnIs DEF Nearly
<1>2. CASE t.m.restarts[a] >= MaxRestarts
  <2>1. MaybeRetry(t, a, status) = Finalize(t, a, OutcomeOf(status))
    BY <1>2 DEF MaybeRetry
  <2>2. OutcomeOf(status) \in {"CRASHED", "WORKER_ERROR", "EVALUATOR_ERROR", "TIMED_OUT", "CANCELLED"}
        /\ OutcomeOf(status) \in Reports /\ StatusOf(OutcomeOf(status)) = status
        /\ (OutcomeOf(status) = "TIMED_OUT" => status = "timed_out") /\ (OutcomeOf(status) = "CANCELLED" => status = "cancelled")
    BY DEF OutcomeOf, StatusOf, Reports
  <2>3. t.m.state[a] \in Unfinished
    BY DEF Unfinished, MidFlight
  <2>4. s.ok => \A e \in Events : e.kind = "terminal" /\ e.of = a /\ e.status = OutcomeOf(status) => Precursor(s, e)
    <3>1. SUFFICES ASSUME s.ok, NEW e \in Events, e.of = a, e.status = OutcomeOf(status) PROVE Precursor(s, e)
      OBVIOUS
    <3>2. Agree(s.live, t.m) /\ (s.launch[a] = status \/ (t.m.state[a] = "checkpointed" /\ s.evaluate[a] = status))
      BY <1>1, <3>1 DEF Track
    <3>3. Reported(s, a, status)
      BY <1>2, <3>2 DEF Reported, Agree, Active
    <3>4. s.live.state[a] \in Unfinished
      BY <2>3, <3>2 DEF Agree
    <3> HIDE DEF s
    <3> QED BY <2>2, <3>1, <3>3, <3>4 DEF Precursor
  <2> QED BY <2>1, <2>2, <2>3, <2>4, FinishReady
<1>3. CASE ~(t.m.restarts[a] >= MaxRestarts)
  <2> DEFINE f == Interrupt(t, a, 1)
             g == [f EXCEPT !.pc[a] = "waiting"]
             q == [pending EXCEPT ![a] = "none"]
  <2>1. MaybeRetry(t, a, status) = g
    BY <1>3 DEF MaybeRetry
  <2>2. t.m.state[a] \in MidFlight /\ t.m.restarts[a] + 1 <= MaxRestarts
    BY <1>1, <1>3, Numbers DEF MidFlight, Lives
  <2>3. /\ On(f, q) /\ f.m.state = [t.m.state EXCEPT ![a] = "interrupted"]
        /\ f.pc = t.pc /\ f.queue = t.queue
    <3>1. MayInterrupt(t, pending, a, 1)
      BY <2>2 DEF MayInterrupt
    <3>2. Interrupted(f, t, pending, a, 1)
      BY <1>1, <3>1, InterruptTurn
    <3> QED BY <3>2 DEF Interrupted
  <2> HIDE DEF f
  <2>4. f \in Turns /\ Written(f.es) /\ Track(Replayed(f.es), f.m, q, wall) /\ f.m \in Lives /\ f.es \in Seq(Events)
    BY <2>3, OnIs
  <2>5. g.m = f.m /\ g.pc = [t.pc EXCEPT ![a] = "waiting"] /\ g.queue = t.queue /\ g.es = f.es /\ g \in Turns
    BY <1>1, <2>3, <2>4 DEF Turns, Places
  <2> HIDE DEF g
  <2>6. On(g, q)
    BY <2>4, <2>5 DEF On
  <2>7. f.m.state = [t.m.state EXCEPT ![a] = "interrupted"] /\ t.m.state \in [Attempts -> States]
    BY <1>1, <2>3 DEF Lives
  <2>8. Same(g, t, a) /\ g.pc[a] = "waiting" /\ q[a] = "none" /\ g.m.state[a] = "interrupted"
    BY <1>1, <2>5, <2>7 DEF Same
  <2>9. Settles(q[a], g.pc[a], g.m.state[a])
    BY <2>8 DEF Settles, Launchable
  <2>10. \A b \in Attempts \ {a} : q[b] = pending[b]
    BY <1>1
  <2> HIDE DEF q
  <2>11. Ready(g)
    BY <2>6, <2>8, <2>9, <2>10, Settled
  <2> QED BY <2>1, <2>11
<1> QED BY <1>2, <1>3

-----------------------------------------------------------------------------
(* The actions.                                                            *)

\* An empty journal is good.
LEMMA BlankGood ==
    /\ Good(Blank) /\ Pending(Each("idle")) = Each("none") /\ Manned(Fresh.state, Each("idle"), << >>)
    /\ \A w \in Nat : Track(Blank, Fresh, Each("none"), w)
<1>1. /\ Fresh \in Lives /\ Fresh.restarts = [a \in Attempts |-> 0] /\ Fresh.state = [a \in Attempts |-> "none"]
      /\ Fresh.evals = 0 /\ Fresh.last = 0
  BY DEF Fresh, Lives, Each, States, Unset
<1>2. NoCalls \in Calls /\ NoCalls.evaluate = 0 /\ \A a \in Attempts : NoCalls.launch[a] = 0 /\ NoCalls.resume[a] = 0
  BY DEF NoCalls, Calls, Each
<1>3. /\ Blank.live = Fresh /\ Blank.ok /\ Blank.why = "none" /\ Blank.calls = NoCalls /\ Blank.order = << >>
      /\ Blank.pending = Each("none") /\ Blank.launch = Each("none") /\ Blank.evaluate = Each("none")
  BY DEF Blank
<1>4. Each("none") \in [Attempts -> Pendings] /\ Each("none") \in [Attempts -> Reports] /\ \A a \in Attempts : Each("none")[a] = "none"
  BY DEF Each, Pendings, Reports
<1>5. << >> \in Seq(Attempts) /\ Range(<< >>) = {} /\ Once(<< >>)
  BY DEF Range, Once
<1>6. Blank \in Replays
  BY <1>1, <1>2, <1>4, <1>5 DEF Blank, Replays
<1>7. MaxRestarts \in Nat /\ MaxEvaluations \in Nat
  BY CampaignSupervisorAssumption
<1>8. Within(NoCalls)
  BY <1>2, <1>7 DEF Within
<1>9. ASSUME NEW a \in Attempts PROVE Payable(0, 0, "none", "none", 0) /\ At(Blank, a)
  <2>1. Payable(0, 0, "none", "none", 0)
    BY DEF Payable
  <2>2. /\ Blank.pending[a] = "none" /\ Blank.live.state[a] = "none" /\ Blank.live.restarts[a] = 0
        /\ Blank.calls.launch[a] = 0 /\ Blank.calls.resume[a] = 0 /\ Range(Blank.order) = {}
    BY <1>1, <1>2, <1>3, <1>4, <1>5
  <2>3. Steady(Blank, a)
    BY <2>2 DEF Steady, Unfinished, MidFlight, Active
  <2> QED BY <1>7, <2>1, <2>2, <2>3 DEF At
<1>10. Good(Blank)
  BY <1>1, <1>2, <1>3, <1>5, <1>6, <1>8, <1>9 DEF Good
<1>11. ASSUME NEW w \in Nat PROVE Track(Blank, Fresh, Each("none"), w)
  BY <1>1, <1>2, <1>3, <1>4, <1>7, <1>9 DEF Track, Agree
<1>12. Pending(Each("idle")) = Each("none") /\ Manned(Fresh.state, Each("idle"), << >>)
  BY <1>5 DEF Pending, Each, Manned, Places
<1> QED BY <1>10, <1>11, <1>12

\* Every action keeps the invariant: preparing,
LEMMA PrepareKeeps == ASSUME SupInv, Prepare PROVE SupInv'
<1> DEFINE e == Event("prepared", NoAttempt)
           k == [mem EXCEPT !.campaign = "running", !.deadline = wall + MaxWall]
           u == [Turn EXCEPT !.m = k]
           none == Each("none")
<1>1. wall \in Nat /\ mem = Fresh /\ pc = Each("idle") /\ queue = << >> /\ durable = Blank
  BY DEF Prepare, SupInv
<1>2. Good(durable) /\ Track(durable, mem, none, wall)
  BY <1>1, BlankGood
<1>3. Written(<< >>) /\ Replayed(<< >>) = durable
  BY <1>2, WrittenNone
<1>4. e \in Events /\ e.kind = "prepared" /\ e.wall = wall
  <2>1. "prepared" \in Kinds
    BY DEF Kinds
  <2>2. e \in Events
    BY <1>1, <2>1, EventTyped
  <2> QED BY <2>2 DEF Event
<1>5. mem \in Lives /\ mem.campaign = "prepared"
  BY <1>1, <1>2 DEF Track, Fresh
<1>6. Good(Write(durable, e)) /\ Track(Write(durable, e), k, none, wall)
  <2> HIDE DEF e
  <2> QED BY <1>1, <1>2, <1>4, <1>5, PreparedFollows
<1>7. k \in Lives /\ k.state = Fresh.state
  BY <1>1, <1>5, <1>6 DEF Track, Lives
<1>8. u.m = k /\ u.pc = Each("idle") /\ u.queue = << >> /\ u.es = << >> /\ u \in Turns
  <2>1. << >> \in Seq(Attempts) /\ << >> \in Seq(Events) /\ Each("idle") \in [Attempts -> Places]
    BY DEF Each, Places
  <2>2. u.m = k /\ u.pc = Each("idle") /\ u.queue = << >> /\ u.es = << >>
    BY <1>1 DEF Turn
  <2>3. u = [m |-> k, pc |-> Each("idle"), queue |-> << >>, es |-> << >>]
    BY <1>1 DEF Turn
  <2> HIDE DEF k, u
  <2> QED BY <1>7, <2>1, <2>2, <2>3 DEF Turns
<1>9. [Turn EXCEPT !.m.campaign = "running", !.m.deadline = wall + MaxWall] = u
  BY DEF Turn
<1> HIDE DEF e, k, u, none
<1>10. On(Emit(u, e), none) /\ Emit(u, e).m = k /\ Emit(u, e).pc = Each("idle") /\ Emit(u, e).queue = << >>
  BY <1>3, <1>4, <1>6, <1>8, Emitted
<1>11. On(Emit(u, e), Pending(Emit(u, e).pc)) /\ Manned(Emit(u, e).m.state, Emit(u, e).pc, Emit(u, e).queue)
  BY <1>7, <1>10, BlankGood DEF none
<1>12. Durable(Emit(u, e))
  BY <1>9 DEF Prepare, e
<1> QED BY <1>11, <1>12, TakeKeeps

\* (an empty turn may end, at any time that is not before the last event,
LEMMA StartReady == ASSUME SupInv, up, wall >= mem.last PROVE Ready(Turn)
<1>1. On(Turn, Pending(pc)) /\ Turn.m = mem /\ Turn.pc = pc /\ Turn.queue = queue
  BY TurnStarts
<1>2. Manned(mem.state, pc, queue)
  BY DEF SupInv
<1> QED BY <1>1, <1>2 DEF Ready

\* a turn that may end keeps the invariant,
LEMMA ReadyKeeps == ASSUME SupInv, NEW t, Ready(t), Take(t) \/ Durable(t) PROVE SupInv'
BY TakeKeeps DEF Ready

\* and a turn is taken only at such a time)
LEMMA TakeIsTimely == ASSUME NEW t, Take(t) \/ Durable(t) PROVE wall >= mem.last
BY DEF Take, Durable, Lost

\* starting to run,
LEMMA RunAvailableKeeps == ASSUME SupInv, RunAvailable PROVE SupInv'
<1>1. /\ wall \in Nat /\ up /\ Good(durable) /\ Track(durable, mem, Pending(pc), mem.last) /\ Manned(mem.state, pc, queue)
  BY DEF SupInv, RunAvailable
<1>2. /\ pc' = [a \in Attempts |-> IF a \in Range(queue) THEN "waiting" ELSE pc[a]] /\ queue' = << >>
      /\ durable' = durable /\ wall' = wall /\ up' = up /\ mem' = mem
  BY DEF RunAvailable
<1>3. ASSUME NEW a \in Attempts
      PROVE  /\ pc'[a] \in Places /\ Pending(pc')[a] = Pending(pc)[a]
             /\ pc'[a] \in {"waiting", "executing"} => mem.state[a] \in Launchable
             /\ pc'[a] = "evaluating" => mem.state[a] = "checkpointed"
  <2>1. CASE a \in Range(queue)
    BY <1>1, <1>2, <2>1 DEF Manned, Places, Pending
  <2>2. CASE a \notin Range(queue)
    BY <1>1, <1>2, <2>2 DEF Manned, Pending
  <2> QED BY <2>1, <2>2
<1>4. pc' \in [Attempts -> Places] /\ Pending(pc') = Pending(pc)
  <2>1. pc' \in [Attempts -> Places]
    BY <1>2, <1>3
  <2>2. \A a \in Attempts : Pending(pc')[a] = Pending(pc)[a]
    BY <1>3
  <2> QED BY <2>1, <2>2 DEF Pending
<1>5. << >> \in Seq(Attempts) /\ Range(<< >>) = {} /\ Once(<< >>)
  BY DEF Range, Once
<1>6. Manned(mem.state, pc', << >>)
  BY <1>3, <1>4, <1>5 DEF Manned
<1> QED BY <1>1, <1>2, <1>4, <1>6 DEF SupInv

\* a crash, a rollback of the disk and the clocks,
LEMMA OtherKeeps ==
    ASSUME SupInv, Crash \/ RolledBack \/ Tick \/ SetBack \/ UNCHANGED vars
    PROVE  SupInv'
<1>1. wall \in Nat /\ Good(durable)
  BY DEF SupInv
<1>2. CASE Crash \/ RolledBack
  <2>1. durable' = durable /\ wall' = wall /\ up' = FALSE /\ mem' = Fresh /\ pc' = Each("idle") /\ queue' = << >>
    BY <1>2 DEF Crash, RolledBack, Down
  <2> QED BY <1>1, <2>1, FreshKeeps
<1>3. CASE Tick \/ SetBack \/ UNCHANGED vars
  <2>1. /\ durable' = durable /\ wall' \in Nat /\ up' = up /\ mem' = mem /\ pc' = pc /\ queue' = queue
    BY <1>1, <1>3 DEF Tick, SetBack, vars
  <2> QED BY <2>1 DEF SupInv
<1> QED BY <1>2, <1>3

\* launching,
LEMMA LaunchKeeps == ASSUME SupInv, NEW a \in Attempts, Launch(a) PROVE SupInv'
<1>0. /\ wall \in Nat /\ up /\ pc[a] = "waiting" /\ wall >= mem.last
  BY TakeIsTimely DEF SupInv, Launch, LaunchNow
<1>1. /\ On(Turn, Pending(pc)) /\ Replayed(Turn.es) = durable /\ Ready(Turn)
      /\ Turn.m = mem /\ Turn.pc = pc /\ Turn.queue = queue /\ Turn.es = << >>
  BY <1>0, TurnStarts, StartReady
<1>2. /\ Manned(mem.state, pc, queue) /\ Track(durable, mem, Pending(pc), mem.last) /\ Good(durable)
  BY <1>0 DEF SupInv
<1>3. mem.state[a] \in Launchable /\ a \notin Range(queue) /\ mem.state[a] \in Unfinished /\ pc \in [Attempts -> Places] /\ mem \in Lives
  BY <1>0, <1>2 DEF Manned, Launchable, Unfinished, MidFlight, Track
<1>4. Nearly(Turn, Pending(pc), a)
  BY <1>1, <1>3, ReadyIsNearly
<1>5. CASE mem.campaign # "running" /\ Take(Finalize(Turn, a, "CANCELLED"))
  <2>1. "CANCELLED" \in Reports
    BY DEF Reports
  <2>2. durable.ok => \A e \in Events : e.kind = "terminal" /\ e.of = a /\ e.status = "CANCELLED" => Precursor(durable, e)
    BY <1>2, <1>3, <1>5 DEF Track, Agree, Precursor
  <2>3. Ready(Finalize(Turn, a, "CANCELLED"))
    BY <1>0, <1>1, <1>3, <1>4, <2>1, <2>2, FinishReady
  <2> QED BY <1>5, <2>3, ReadyKeeps
<1>6. CASE mem.campaign = "running" /\ Take(Finalize(Turn, a, "TIMED_OUT"))
  <2>1. "TIMED_OUT" \in Reports
    BY DEF Reports
  <2>3. Ready(Finalize(Turn, a, "TIMED_OUT"))
    BY <1>0, <1>1, <1>3, <1>4, <2>1, FinishReady
  <2> QED BY <1>6, <2>3, ReadyKeeps
<1>7. CASE LaunchNow(a)
  <2> DEFINE e == Event("launch.intent", a)
             k == [mem EXCEPT !.due[a] = IF @ = Unset THEN wall + AttemptTimeout ELSE @]
             u == [Turn EXCEPT !.pc[a] = "executing", !.m = k]
             p == [Pending(pc) EXCEPT ![a] = "launch.intent"]
  <2>1. e \in Events /\ e.kind = "launch.intent" /\ e.wall = wall /\ e.of = a
    <3>1. "launch.intent" \in Kinds
      BY DEF Kinds, Intents
    <3>2. e \in Events
      BY <1>0, <3>1, EventTyped
    <3> QED BY <3>2 DEF Event
  <2>2. Track(durable, mem, Pending(pc), wall) /\ Pending(pc)[a] = "none"
    BY <1>0, <1>1 DEF On, Pending
  <2>3. Good(Write(durable, e)) /\ Track(Write(durable, e), k, p, wall)
    <3> HIDE DEF e
    <3> QED BY <1>0, <1>2, <1>3, <2>1, <2>2, LaunchIntentFollows
  <2>4. k \in Lives /\ k.state = mem.state
    BY <1>3, <2>3 DEF Track, Lives
  <2>5. u.m = k /\ u.pc = [pc EXCEPT ![a] = "executing"] /\ u.queue = queue /\ u.es = << >> /\ u \in Turns
    <3> HIDE DEF k
    <3>1. queue \in Seq(Attempts) /\ << >> \in Seq(Events)
      BY <1>2 DEF Manned
    <3> QED BY <1>1, <1>3, <2>4, <3>1 DEF Turn, Turns, Places
  <2>6. [Turn EXCEPT !.pc[a] = "executing", !.m.due[a] = IF @ = Unset THEN wall + AttemptTimeout ELSE @] = u
    BY DEF Turn
  <2>7. Written(<< >>) /\ Replayed(<< >>) = durable
    BY <1>2, WrittenNone
  <2> HIDE DEF e, k, u
  <2>8. On(Emit(u, e), p) /\ Emit(u, e).m = k /\ Emit(u, e).pc = [pc EXCEPT ![a] = "executing"] /\ Emit(u, e).queue = queue
    BY <2>1, <2>3, <2>5, <2>7, Emitted
  <2>9. Same(Emit(u, e), Turn, a) /\ p[a] = "launch.intent" /\ \A b \in Attempts \ {a} : p[b] = Pending(pc)[b]
    BY <1>1, <1>3, <2>4, <2>8 DEF Same, Pending
  <2>10. Settles(p[a], Emit(u, e).pc[a], Emit(u, e).m.state[a])
    BY <1>3, <2>4, <2>8, <2>9 DEF Settles
  <2> HIDE DEF p
  <2>11. Ready(Emit(u, e))
    BY <1>4, <2>8, <2>9, <2>10, Settled
  <2>12. Durable(Emit(u, e))
    BY <1>7, <2>6 DEF LaunchNow, e
  <2> QED BY <2>11, <2>12, ReadyKeeps
<1> QED BY <1>5, <1>6, <1>7 DEF Launch

\* (two events in one turn,
LEMMA EmittedTwice ==
    ASSUME NEW u, u \in Turns, Written(u.es), NEW e \in Events, NEW d \in Events, NEW pending,
           Good(Write(Replayed(u.es), e)), Good(Write(Write(Replayed(u.es), e), d)),
           Track(Write(Write(Replayed(u.es), e), d), u.m, pending, wall)
    PROVE  LET f == Emit(Emit(u, e), d) IN
           /\ On(f, pending) /\ f.m = u.m /\ f.pc = u.pc /\ f.queue = u.queue
           /\ Replayed(f.es) = Write(Write(Replayed(u.es), e), d)
<1> DEFINE v == Emit(u, e)
<1>1. v = [u EXCEPT !.es = Append(u.es, e)] /\ u.es \in Seq(Events) /\ Append(u.es, e) \in Seq(Events)
  BY DEF Emit, Turns
<1>2. v.m = u.m /\ v.pc = u.pc /\ v.queue = u.queue /\ v.es = Append(u.es, e) /\ v \in Turns
  <2> HIDE DEF v
  <2> QED BY <1>1 DEF Turns
<1>3. Written(v.es) /\ Replayed(v.es) = Write(Replayed(u.es), e)
  BY <1>2, WrittenMore
<1> HIDE DEF v
<1>4. Good(Write(Replayed(v.es), d)) /\ Track(Write(Replayed(v.es), d), v.m, pending, wall)
  BY <1>2, <1>3
<1>5. /\ On(Emit(v, d), pending) /\ Emit(v, d).m = v.m /\ Emit(v, d).pc = v.pc /\ Emit(v, d).queue = v.queue
      /\ Replayed(Emit(v, d).es) = Write(Replayed(v.es), d)
  BY <1>2, <1>3, <1>4, Emitted
<1> QED BY <1>2, <1>3, <1>5 DEF v

\* and what an event is, spelled out)
LEMMA EventIs ==
    ASSUME wall \in Nat, NEW kind \in Kinds, NEW a \in Attempts
    PROVE  /\ Event(kind, a) \in Events /\ Event(kind, a).kind = kind /\ Event(kind, a).of = a /\ Event(kind, a).wall = wall
           /\ \A status \in Reports :
                 LET e == [Event(kind, a) EXCEPT !.status = status] IN
                 e \in Events /\ e.kind = kind /\ e.of = a /\ e.wall = wall /\ e.status = status
<1>1. Event(kind, a) \in Events
  BY EventTyped
<1>2. Event(kind, a).kind = kind /\ Event(kind, a).of = a /\ Event(kind, a).wall = wall
  BY DEF Event
<1>3. ASSUME NEW status \in Reports
      PROVE  LET e == [Event(kind, a) EXCEPT !.status = status] IN
             e \in Events /\ e.kind = kind /\ e.of = a /\ e.wall = wall /\ e.status = status
  <2>1. [Event(kind, a) EXCEPT !.status = status] \in Events
    BY <1>1, EventsKeep
  <2> QED BY <2>1 DEF Event
<1> QED BY <1>1, <1>2, <1>3

\* submitting,
LEMMA SubmitKeeps == ASSUME SupInv, NEW a \in Attempts, Submit(a) PROVE SupInv'
<1> DEFINE d == Event("submit.intent", a)
           e == Event("submit.outcome", a)
           l == [mem EXCEPT !.state[a] = "intended"]
           n == [l EXCEPT !.state[a] = "prepared", !.submitted = @ + 1]
           k == [mem EXCEPT !.submitted = @ + 1, !.state[a] = "prepared"]
           u == [m |-> k, pc |-> pc, queue |-> Append(queue, a), es |-> << >>]
           p == [Pending(pc) EXCEPT ![a] = "submit.intent"]
           q == [p EXCEPT ![a] = "none"]
           s == Write(durable, d)
<1>1. wall \in Nat /\ up /\ wall >= mem.last /\ mem.state[a] = "none" /\ mem.submitted < MaxAttempts
  BY TakeIsTimely DEF Submit, SupInv
<1>2. Good(durable) /\ Manned(mem.state, pc, queue) /\ Track(durable, mem, Pending(pc), wall)
  BY <1>1, TurnStarts, OnIs DEF SupInv
<1>3. /\ mem \in Lives /\ pc \in [Attempts -> Places] /\ queue \in Seq(Attempts) /\ Pending(pc) \in [Attempts -> Pendings]
  BY <1>2 DEF Manned, Track
<1>4. pc[a] = "idle" /\ a \notin Range(queue) /\ Pending(pc)[a] = "none"
  BY <1>1, <1>2, <1>3 DEF Manned, Places, Launchable, Pending
<1>5. d \in Events /\ d.kind = "submit.intent" /\ d.of = a /\ d.wall = wall
  <2>1. "submit.intent" \in Kinds
    BY DEF Kinds, Intents
  <2> QED BY <1>1, <2>1, EventIs
<1>6. e \in Events /\ e.kind = "submit.outcome" /\ e.of = a /\ e.wall = wall
  <2>1. "submit.outcome" \in Kinds
    BY DEF Kinds, Intents
  <2> QED BY <1>1, <2>1, EventIs
<1> HIDE DEF d, e
<1>7. Good(s) /\ Track(s, l, p, wall)
  BY <1>1, <1>2, <1>4, <1>5, SubmitIntentFollows
<1>8. l.state[a] = "intended" /\ l.submitted = mem.submitted /\ p[a] = "submit.intent"
  BY <1>3 DEF Lives
<1>9. Good(Write(s, e)) /\ Track(Write(s, e), n, q, wall)
  <2> HIDE DEF s, l, p
  <2> QED BY <1>1, <1>6, <1>7, <1>8, SubmitOutcomeFollows
<1>10. k \in Lives /\ k.state = [mem.state EXCEPT ![a] = "prepared"]
  <2>0. mem.submitted + 1 \in Nat
    BY <1>3 DEF Lives
  <2>1. [mem EXCEPT !.submitted = mem.submitted + 1] \in Lives
    BY <1>3, <2>0, LivesKeep
  <2>2. k \in Lives
    BY <2>1, LivesKeep, StatesAre
  <2> QED BY <1>3, <2>2 DEF Lives
<1>11. Agree(n, k)
  <2>1. /\ l.state = [mem.state EXCEPT ![a] = "intended"] /\ l.campaign = mem.campaign /\ l.deadline = mem.deadline
        /\ l.evals = mem.evals /\ l.submitted = mem.submitted /\ l.restarts = mem.restarts /\ l.due = mem.due
        /\ l \in Lives
    BY <1>3, <1>7 DEF Lives, Track
  <2>2. /\ k.campaign = mem.campaign /\ k.deadline = mem.deadline
        /\ k.evals = mem.evals /\ k.submitted = mem.submitted + 1 /\ k.restarts = mem.restarts /\ k.due = mem.due
    BY <1>3 DEF Lives
  <2> HIDE DEF l, k
  <2>3. /\ n.state = [l.state EXCEPT ![a] = "prepared"] /\ n.campaign = l.campaign /\ n.deadline = l.deadline
        /\ n.evals = l.evals /\ n.submitted = l.submitted + 1 /\ n.restarts = l.restarts /\ n.due = l.due
    BY <2>1 DEF Lives
  <2>4. n.state = k.state
    BY <1>3, <1>10, <2>1, <2>3 DEF Lives
  <2> QED BY <2>1, <2>2, <2>3, <2>4 DEF Agree
<1>12. Track(Write(s, e), k, q, wall)
  <2> HIDE DEF s, n, k, q
  <2> QED BY <1>9, <1>10, <1>11, TrackAgrees
<1>13. u.m = k /\ u.pc = pc /\ u.queue = Append(queue, a) /\ u.es = << >> /\ u \in Turns
  <2>1. Append(queue, a) \in Seq(Attempts) /\ << >> \in Seq(Events)
    BY <1>3
  <2> HIDE DEF k
  <2> QED BY <1>3, <1>10, <2>1 DEF Turns
<1>14. Written(<< >>) /\ Replayed(<< >>) = durable
  BY <1>2, WrittenNone
<1>15. q = Pending(pc)
  BY <1>3, <1>4
<1> DEFINE f == Emit(Emit(u, d), e)
<1>16. On(f, q) /\ f.m = k /\ f.pc = pc /\ f.queue = Append(queue, a)
  <2> HIDE DEF u, k, q
  <2> QED BY <1>5, <1>6, <1>7, <1>9, <1>12, <1>13, <1>14, EmittedTwice
<1>17. Manned(k.state, pc, Append(queue, a))
  <2>1. Once(Append(queue, a)) /\ Range(Append(queue, a)) = Range(queue) \cup {a} /\ Append(queue, a) \in Seq(Attempts)
    BY <1>2, <1>3, <1>4, OnceMore DEF Manned
  <2>2. ASSUME NEW b \in Attempts
        PROVE  /\ pc[b] \in {"waiting", "executing"} => k.state[b] \in Launchable
               /\ pc[b] = "evaluating" => k.state[b] = "checkpointed"
               /\ b \in Range(Append(queue, a)) => pc[b] = "idle" /\ k.state[b] \in Launchable
    <3> HIDE DEF k
    <3>1. CASE b = a
      BY <1>3, <1>4, <1>10, <3>1 DEF Launchable, Lives
    <3>2. CASE b # a
      BY <1>2, <1>3, <1>10, <2>1, <3>2 DEF Manned, Lives
    <3> QED BY <3>1, <3>2
  <2> QED BY <1>3, <2>1, <2>2 DEF Manned
<1>18. [Turn EXCEPT !.m.submitted = @ + 1, !.m.state[a] = "prepared", !.queue = Append(@, a)] = u
  <2> DEFINE x == [Turn EXCEPT !.m.submitted = @ + 1, !.m.state[a] = "prepared"]
  <2> DEFINE l1 == [mem EXCEPT !.submitted = @ + 1]
             y == [Turn EXCEPT !.m.submitted = @ + 1]
  <2>3. y = [m |-> l1, pc |-> pc, queue |-> queue, es |-> << >>]
    BY DEF Turn
  <2>4. x = [y EXCEPT !.m.state[a] = "prepared"]
    OBVIOUS
  <2>5. k = [l1 EXCEPT !.state[a] = "prepared"]
    OBVIOUS
  <2>1. x = [m |-> k, pc |-> pc, queue |-> queue, es |-> << >>]
    <3> HIDE DEF l1, y, x, k, u, l, n, s, p, q
    <3> QED BY <2>3, <2>4, <2>5
  <2>2. [Turn EXCEPT !.m.submitted = @ + 1, !.m.state[a] = "prepared", !.queue = Append(@, a)] = [x EXCEPT !.queue = Append(queue, a)]
    BY DEF Turn
  <2> HIDE DEF k, x
  <2> QED BY <2>1, <2>2
<1>19. Take(f)
  BY <1>18 DEF Submit, d, e
<1> HIDE DEF f, k
<1> QED BY <1>15, <1>16, <1>17, <1>19, ReadyKeeps DEF Ready

\* stopping for good,
LEMMA FinishStopKeeps == ASSUME SupInv, FinishStop PROVE SupInv'
<1> DEFINE e == Event("stopped", NoAttempt)
           k == [mem EXCEPT !.campaign = "stopped"]
           u == [Turn EXCEPT !.m = k]
<1>1. wall \in Nat /\ up /\ wall >= mem.last /\ mem.campaign = "stopping"
  BY TakeIsTimely DEF FinishStop, SupInv
<1>2. Good(durable) /\ Manned(mem.state, pc, queue) /\ Track(durable, mem, Pending(pc), wall) /\ Turn \in Turns
  BY <1>1, TurnStarts, OnIs DEF SupInv
<1>3. mem \in Lives
  BY <1>2 DEF Track
<1>4. e \in Events /\ e.kind = "stopped" /\ e.wall = wall
  <2>1. "stopped" \in Kinds
    BY DEF Kinds
  <2>2. e \in Events
    BY <1>1, <2>1, EventTyped
  <2> QED BY <2>2 DEF Event
<1> HIDE DEF e
<1>5. Good(Write(durable, e)) /\ Track(Write(durable, e), k, Pending(pc), wall)
  BY <1>1, <1>2, <1>4, StoppedFollows
<1>6. k \in Lives /\ k.state = mem.state
  BY <1>3, <1>5 DEF Track, Lives
<1>7. u.m = k /\ u.pc = pc /\ u.queue = queue /\ u.es = << >> /\ u \in Turns
  <2> HIDE DEF k
  <2> QED BY <1>2, <1>6 DEF Turns, Turn
<1>8. Written(<< >>) /\ Replayed(<< >>) = durable
  BY <1>2, WrittenNone
<1>9. [Turn EXCEPT !.m.campaign = "stopped"] = u
  BY DEF Turn
<1>10. On(Emit(u, e), Pending(pc)) /\ Emit(u, e).m = k /\ Emit(u, e).pc = pc /\ Emit(u, e).queue = queue
  <2> HIDE DEF u, k
  <2> QED BY <1>4, <1>5, <1>7, <1>8, Emitted
<1>11. Take(Emit(u, e))
  BY <1>9 DEF FinishStop, e
<1> HIDE DEF u, k
<1> QED BY <1>2, <1>6, <1>10, <1>11, ReadyKeeps DEF Ready

\* an answer of the evaluator,
LEMMA EvaluatorReturnsKeeps ==
    ASSUME SupInv, NEW a \in Attempts, NEW status \in EvalStatuses, EvaluatorReturns(a, status)
    PROVE  SupInv'
<1> DEFINE e == [Event("evaluate.outcome", a) EXCEPT !.status = status]
           p == [Pending(pc) EXCEPT ![a] = "none"]
           t == Emit(Turn, e)
<1>1. wall \in Nat /\ up /\ wall >= mem.last /\ pc[a] = "evaluating"
  BY TakeIsTimely DEF EvaluatorReturns, SupInv
<1>2. /\ Good(durable) /\ Manned(mem.state, pc, queue) /\ Track(durable, mem, Pending(pc), wall) /\ Turn \in Turns
      /\ Ready(Turn) /\ Replayed(Turn.es) = durable /\ Turn.m = mem /\ Turn.pc = pc /\ Turn.queue = queue /\ Written(Turn.es)
  BY <1>1, TurnStarts, OnIs, StartReady DEF SupInv
<1>3. mem \in Lives /\ mem.state[a] = "checkpointed" /\ a \notin Range(queue) /\ Pending(pc)[a] = "evaluate.intent"
      /\ pc \in [Attempts -> Places]
  BY <1>1, <1>2 DEF Track, Manned, Pending
<1>4. e \in Events /\ e.kind = "evaluate.outcome" /\ e.of = a /\ e.wall = wall /\ e.status = status
  <2>1. "evaluate.outcome" \in Kinds /\ status \in Reports
    BY CampaignSupervisorAssumption DEF Kinds, Reports
  <2> QED BY <1>1, <2>1, EventIs
<1> HIDE DEF e
<1>5. /\ Good(Write(durable, e)) /\ Track(Write(durable, e), mem, p, wall)
      /\ Write(durable, e).ok => Write(durable, e).evaluate[a] = status
  <2>1. mem.state[a] \in Active
    BY <1>3 DEF Active
  <2> QED BY <1>1, <1>2, <1>3, <1>4, <2>1, EvaluateOutcomeFollows
<1>6. On(t, p) /\ t.m = mem /\ t.pc = pc /\ t.queue = queue /\ Replayed(t.es) = Write(durable, e)
  <2> HIDE DEF p
  <2> QED BY <1>2, <1>4, <1>5, Emitted
<1> HIDE DEF t
<1>7. Nearly(t, p, a) /\ p[a] = "none"
  <2>1. Nearly(Turn, Pending(pc), a)
    BY <1>2, <1>3, ReadyIsNearly
  <2>2. Same(t, Turn, a)
    BY <1>2, <1>6 DEF Same
  <2>3. p[a] = "none"
    BY <1>3 DEF Pending
  <2> QED BY <1>6, <2>1, <2>2, <2>3, SameIsNearly
<1>8. CASE status = "completed"
  <2>1. "COMPLETED" \in Reports /\ t.m.state[a] \in Unfinished
    BY <1>3, <1>6 DEF Reports, Unfinished, MidFlight, Active
  <2>2. Replayed(t.es).ok =>
           \A x \in Events : x.kind = "terminal" /\ x.of = a /\ x.status = "COMPLETED" => Precursor(Replayed(t.es), x)
    BY <1>3, <1>5, <1>6, <1>8 DEF Track, Agree, Precursor
  <2>3. Ready(Finalize(t, a, "COMPLETED"))
    BY <1>1, <1>7, <2>1, <2>2, FinishReady
  <2> QED BY <1>8, <2>3, ReadyKeeps DEF EvaluatorReturns, t, e
<1>9. CASE status # "completed"
  <2>1. status \in {"crashed", "worker_error", "evaluator_error", "cancelled", "timed_out"}
    BY <1>9, CampaignSupervisorAssumption
  <2>2. t.m.state[a] \in Active /\ t.m.state[a] = "checkpointed"
    BY <1>3, <1>6 DEF Active
  <2>3. Ready(MaybeRetry(t, a, status))
    BY <1>1, <1>5, <1>6, <1>7, <2>1, <2>2, RetryReady
  <2> QED BY <1>9, <2>3, ReadyKeeps DEF EvaluatorReturns, t, e
<1> QED BY <1>8, <1>9

\* A turn t in the middle of attempt a, which the executor has completed.
Scored(t, p, a) ==
    /\ Nearly(t, p, a) /\ p[a] = "none" /\ t.m.state[a] = "checkpointed"
    /\ Replayed(t.es).ok => Replayed(t.es).launch[a] = "completed" /\ Replayed(t.es).evaluate[a] = "none"

\* (a checkpoint leads to one)
LEMMA CheckpointedScored ==
    ASSUME wall \in Nat, NEW t, NEW p, NEW a \in Attempts, Nearly(t, p, a), p[a] = "none", t.m.state[a] \in Active,
           Replayed(t.es).ok => Replayed(t.es).launch[a] = "completed" /\ Replayed(t.es).evaluate[a] = "none"
    PROVE  Scored(Checkpointed(t, a), p, a)
<1> DEFINE d == Event("checkpoint.intent", a)
           e == Event("checkpoint.outcome", a)
           k == [t.m EXCEPT !.state[a] = "checkpointed"]
           u == [t EXCEPT !.m = k]
           q == [p EXCEPT ![a] = "checkpoint.intent"]
           f == Emit(Emit(u, d), e)
           s == Replayed(t.es)
           r == Write(Replayed(t.es), d)
<1>1. /\ Good(s) /\ Track(s, t.m, p, wall) /\ t.m \in Lives /\ t.pc \in [Attempts -> Places]
      /\ t.queue \in Seq(Attempts) /\ t.es \in Seq(Events) /\ p \in [Attempts -> Pendings] /\ t \in Turns /\ Written(t.es)
  BY OnIs DEF Nearly
<1>2. d \in Events /\ d.kind = "checkpoint.intent" /\ d.of = a /\ d.wall = wall
  <2>1. "checkpoint.intent" \in Kinds
    BY DEF Kinds, Intents
  <2> QED BY <2>1, EventIs
<1>3. e \in Events /\ e.kind = "checkpoint.outcome" /\ e.of = a /\ e.wall = wall
  <2>1. "checkpoint.outcome" \in Kinds
    BY DEF Kinds, Intents
  <2> QED BY <2>1, EventIs
<1> HIDE DEF d, e
<1>4. Good(r) /\ Track(r, t.m, q, wall) /\ (r.ok => s.ok /\ r.launch = s.launch /\ r.evaluate = s.evaluate)
  <2>1. s.ok => s.launch[a] = "completed"
    OBVIOUS
  <2> HIDE DEF s, f, u, k, r
  <2>2. /\ Good(Write(s, d)) /\ Track(Write(s, d), t.m, [p EXCEPT ![a] = "checkpoint.intent"], wall)
        /\ Write(s, d).ok => s.ok /\ Write(s, d).launch = s.launch /\ Write(s, d).evaluate = s.evaluate
    <3> HIDE DEF q
    <3>1. Good(s) /\ Track(s, t.m, p, wall) /\ t.m.state[a] \in Active /\ p[a] = "none" /\ (s.ok => s.launch[a] = "completed")
      BY <1>1, <2>1
    <3>2. Good(Write(s, d)) /\ Track(Write(s, d), t.m, [p EXCEPT ![a] = "checkpoint.intent"], wall)
      BY <3>1, <1>2, CheckpointIntentFollows
    <3>3. Write(s, d).ok => s.ok /\ Write(s, d).launch = s.launch /\ Write(s, d).evaluate = s.evaluate
      BY <3>1, <1>2, CheckpointIntentFollows
    <3> QED BY <3>2, <3>3
  <2> QED BY <2>2 DEF s, r
<1>5. /\ Good(Write(r, e)) /\ Track(Write(r, e), k, [q EXCEPT ![a] = "none"], wall)
      /\ Write(r, e).ok => r.ok /\ Write(r, e).launch = r.launch /\ Write(r, e).evaluate = r.evaluate
  <2>1. q[a] = "checkpoint.intent"
    BY <1>1
  <2> HIDE DEF r, q
  <2> QED BY <1>3, <1>4, <2>1, CheckpointOutcomeFollows
<1>6. [q EXCEPT ![a] = "none"] = p
  BY <1>1
<1>7. k \in Lives /\ k.state = [t.m.state EXCEPT ![a] = "checkpointed"]
  BY <1>1, LivesKeep, StatesAre DEF Lives
<1>8. u.m = k /\ u.pc = t.pc /\ u.queue = t.queue /\ u.es = t.es /\ u \in Turns
  <2> HIDE DEF k
  <2> QED BY <1>1, <1>7 DEF Turns
<1>9. On(f, p) /\ f.m = k /\ f.pc = t.pc /\ f.queue = t.queue /\ Replayed(f.es) = Write(r, e)
  <2>1. Written(u.es) /\ Replayed(u.es) = s
    BY <1>1, <1>8
  <2>2. Good(Write(Replayed(u.es), d)) /\ Good(Write(Write(Replayed(u.es), d), e))
    BY <1>4, <1>5, <2>1
  <2>3. Track(Write(Write(Replayed(u.es), d), e), u.m, p, wall)
    BY <1>5, <1>6, <1>8, <2>1
  <2>4. /\ On(Emit(Emit(u, d), e), p) /\ Emit(Emit(u, d), e).m = u.m /\ Emit(Emit(u, d), e).pc = u.pc
        /\ Emit(Emit(u, d), e).queue = u.queue
        /\ Replayed(Emit(Emit(u, d), e).es) = Write(Write(Replayed(u.es), d), e)
    <3> HIDE DEF u, k, q, s, r, f
    <3> QED BY <1>2, <1>3, <1>8, <2>1, <2>2, <2>3, EmittedTwice
  <2> HIDE DEF u, k, q
  <2> QED BY <1>8, <2>1, <2>4
<1>10. Checkpointed(t, a) = f
  <2>1. [t EXCEPT !.m.state[a] = "checkpointed"] = u
    BY <1>1 DEF Turns
  <2> QED BY <2>1 DEF Checkpointed, d, e
<1> HIDE DEF f
<1>11. Same(f, t, a) /\ f.m.state[a] = "checkpointed"
  BY <1>1, <1>7, <1>9 DEF Same, Lives
<1>12. Nearly(f, p, a)
  <2>1. [p EXCEPT ![a] = "none"] = p
    BY <1>1
  <2>2. On(f, [p EXCEPT ![a] = "none"])
    BY <1>9, <2>1
  <2>3. Nearly(f, [p EXCEPT ![a] = "none"], a)
    BY <1>11, <2>2, SameIsNearly
  <2> QED BY <2>1, <2>3
<1> HIDE DEF k, q
<1> QED BY <1>4, <1>5, <1>9, <1>10, <1>11, <1>12 DEF Scored

\* (and an evaluation of it, granted or refused, settles)
LEMMA EvaluateReady ==
    ASSUME wall \in Nat, NEW t, NEW p, NEW a \in Attempts, Scored(t, p, a)
    PROVE  Ready(Evaluate(t, a))
<1> DEFINE s == Replayed(t.es)
<1>1. /\ Good(s) /\ Track(s, t.m, p, wall) /\ t.m \in Lives /\ t.pc \in [Attempts -> Places]
      /\ t.queue \in Seq(Attempts) /\ t.es \in Seq(Events) /\ p \in [Attempts -> Pendings] /\ t \in Turns /\ Written(t.es)
      /\ Nearly(t, p, a)
  BY OnIs DEF Nearly, Scored
<1>2. /\ p[a] = "none" /\ t.m.state[a] = "checkpointed" /\ t.m.state[a] \in Unfinished /\ t.m.state[a] \in Active
      /\ s.ok => s.launch[a] = "completed" /\ s.evaluate[a] = "none"
  BY DEF Scored, Unfinished, MidFlight, Active
<1>3. CASE t.m.evals >= MaxEvaluations
  <2>1. "FAILED" \in Reports
    BY DEF Reports
  <2>2. s.ok => \A e \in Events : e.kind = "terminal" /\ e.of = a /\ e.status = "FAILED" => Precursor(s, e)
    <3>1. SUFFICES ASSUME s.ok, NEW e \in Events, e.of = a, e.status = "FAILED" PROVE Precursor(s, e)
      OBVIOUS
    <3>2. /\ s.live.state[a] = "checkpointed" /\ s.pending[a] = "none" /\ s.evaluate[a] = "none"
          /\ s.live.evals >= MaxEvaluations
      BY <1>1, <1>2, <1>3, <3>1 DEF Track, Agree
    <3> HIDE DEF s
    <3> QED BY <3>1, <3>2 DEF Precursor
  <2>3. Ready(Finalize(t, a, "FAILED"))
    BY <1>1, <1>2, <2>1, <2>2, FinishReady
  <2> QED BY <1>3, <2>3 DEF Evaluate
<1>4. CASE ~(t.m.evals >= MaxEvaluations) /\ (CampaignOver \/ AttemptOver(a))
  <2>1. "TIMED_OUT" \in Reports
    BY DEF Reports
  <2>3. Ready(Finalize(t, a, "TIMED_OUT"))
    BY <1>1, <1>2, <2>1, FinishReady
  <2> QED BY <1>4, <2>3 DEF Evaluate
<1>5. CASE ~(t.m.evals >= MaxEvaluations) /\ ~(CampaignOver \/ AttemptOver(a))
  <2> DEFINE e == Event("evaluate.intent", a)
             k == [t.m EXCEPT !.evals = @ + 1]
             u == [m |-> k, pc |-> [t.pc EXCEPT ![a] = "evaluating"], queue |-> t.queue, es |-> t.es]
             q == [p EXCEPT ![a] = "evaluate.intent"]
             f == Emit(u, e)
  <2>1. e \in Events /\ e.kind = "evaluate.intent" /\ e.of = a /\ e.wall = wall
    <3>1. "evaluate.intent" \in Kinds
      BY DEF Kinds, Intents
    <3> QED BY <3>1, EventIs
  <2> HIDE DEF e
  <2>2. t.m.evals < MaxEvaluations
    <3>1. t.m.evals \in Nat /\ MaxEvaluations \in Nat
      BY <1>1, CampaignSupervisorAssumption DEF Lives
    <3> HIDE DEF k, u, q, f, s
    <3> QED BY <1>5, <3>1
  <2>3. Good(Write(s, e)) /\ Track(Write(s, e), k, q, wall)
    <3> HIDE DEF s
    <3> QED BY <1>1, <1>2, <2>1, <2>2, EvaluateIntentFollows
  <2>4. k \in Lives /\ k.state = t.m.state
    BY <1>1, <2>3 DEF Track, Lives
  <2>5. u.m = k /\ u.pc = [t.pc EXCEPT ![a] = "evaluating"] /\ u.queue = t.queue /\ u.es = t.es /\ u \in Turns
    <3>1. [t.pc EXCEPT ![a] = "evaluating"] \in [Attempts -> Places]
      BY <1>1 DEF Places
    <3> HIDE DEF k
    <3> QED BY <1>1, <2>4, <3>1 DEF Turns
  <2>6. [t EXCEPT !.m.evals = @ + 1, !.pc[a] = "evaluating"] = u
    <3> DEFINE x == [t EXCEPT !.m.evals = @ + 1]
    <3>3. x = [t EXCEPT !.m = k]
      <4> HIDE DEF u, f, q, s
      <4> QED BY <1>1 DEF Turns
    <3>1. x = [m |-> k, pc |-> t.pc, queue |-> t.queue, es |-> t.es]
      <4> HIDE DEF k, x, u, f, q, s
      <4> QED BY <1>1, <3>3 DEF Turns
    <3>2. [t EXCEPT !.m.evals = @ + 1, !.pc[a] = "evaluating"] = [x EXCEPT !.pc[a] = "evaluating"]
      OBVIOUS
    <3> HIDE DEF k, x
    <3> QED BY <3>1, <3>2
  <2>7. On(f, q) /\ f.m = k /\ f.pc = [t.pc EXCEPT ![a] = "evaluating"] /\ f.queue = t.queue
    <3> HIDE DEF u, k, q
    <3> QED BY <1>1, <2>1, <2>3, <2>5, Emitted
  <2>8. Evaluate(t, a) = f
    BY <1>5, <2>6 DEF Evaluate, e
  <2> HIDE DEF f, u, k
  <2>9. Same(f, t, a) /\ f.pc[a] = "evaluating" /\ q[a] = "evaluate.intent" /\ f.m.state[a] = "checkpointed"
    BY <1>1, <1>2, <2>4, <2>7 DEF Same
  <2>10. Settles(q[a], f.pc[a], f.m.state[a])
    BY <2>9 DEF Settles
  <2>11. \A b \in Attempts \ {a} : q[b] = p[b]
    BY <1>1
  <2> HIDE DEF q
  <2>12. Ready(f)
    BY <1>1, <2>7, <2>9, <2>10, <2>11, Settled
  <2> QED BY <2>8, <2>12
<1> QED BY <1>3, <1>4, <1>5

\* an answer of the executor,
LEMMA ExecutorReturnsKeeps ==
    ASSUME SupInv, NEW a \in Attempts, NEW status \in ExecStatuses, ExecutorReturns(a, status)
    PROVE  SupInv'
<1> DEFINE e == [Event("launch.outcome", a) EXCEPT !.status = status]
           p == [Pending(pc) EXCEPT ![a] = "none"]
           k == [mem EXCEPT !.state[a] = "running"]
           u == [m |-> k, pc |-> pc, queue |-> queue, es |-> << >>]
           t == Emit(u, e)
<1>1. wall \in Nat /\ up /\ wall >= mem.last /\ pc[a] = "executing"
  BY TakeIsTimely DEF ExecutorReturns, SupInv
<1>2. /\ Good(durable) /\ Manned(mem.state, pc, queue) /\ Track(durable, mem, Pending(pc), wall) /\ Turn \in Turns
      /\ Ready(Turn) /\ Replayed(Turn.es) = durable /\ Turn.m = mem /\ Turn.pc = pc /\ Turn.queue = queue
      /\ Turn.es = << >>
  BY <1>1, TurnStarts, OnIs, StartReady DEF SupInv
<1>3. mem \in Lives /\ mem.state[a] \in Launchable /\ a \notin Range(queue) /\ Pending(pc)[a] = "launch.intent"
      /\ pc \in [Attempts -> Places] /\ queue \in Seq(Attempts)
  BY <1>1, <1>2 DEF Track, Manned, Pending
<1>4. e \in Events /\ e.kind = "launch.outcome" /\ e.of = a /\ e.wall = wall /\ e.status = status
  <2>1. "launch.outcome" \in Kinds /\ status \in Reports
    BY CampaignSupervisorAssumption DEF Kinds, Reports
  <2> QED BY <1>1, <2>1, EventIs
<1> HIDE DEF e
<1>5. /\ Good(Write(durable, e)) /\ Track(Write(durable, e), k, p, wall)
      /\ Write(durable, e).ok => Write(durable, e).launch[a] = status /\ Write(durable, e).evaluate[a] = "none"
  <2> HIDE DEF t, u
  <2>0. Good(durable) /\ Track(durable, mem, Pending(pc), wall) /\ mem.state[a] \in Launchable /\ Pending(pc)[a] = "launch.intent"
    BY <1>2, <1>3
  <2>2. Track(Write(durable, e), k, p, wall)
    BY <1>1, <2>0, <1>4, LaunchOutcomeFollows
  <2>3. Good(Write(durable, e))
    BY <1>1, <2>0, <1>4, <2>2, LaunchOutcomeFollows
  <2>1. Write(durable, e).ok => Write(durable, e).launch[a] = e.status /\ Write(durable, e).evaluate[a] = "none"
    BY <1>1, <2>0, <1>4, <2>2, LaunchOutcomeFollows
  <2> QED BY <1>4, <2>1, <2>2, <2>3
<1>6. k \in Lives /\ k.state = [mem.state EXCEPT ![a] = "running"]
  BY <1>3, LivesKeep, StatesAre DEF Lives
<1>7. u.m = k /\ u.pc = pc /\ u.queue = queue /\ u.es = << >> /\ u \in Turns
  <2>1. << >> \in Seq(Events)
    OBVIOUS
  <2> HIDE DEF k
  <2> QED BY <1>3, <1>6, <2>1 DEF Turns
<1>8. Written(<< >>) /\ Replayed(<< >>) = durable
  BY <1>2, WrittenNone
<1>9. On(t, p) /\ t.m = k /\ t.pc = pc /\ t.queue = queue /\ Replayed(t.es) = Write(durable, e)
  <2> HIDE DEF p, u, k
  <2> QED BY <1>4, <1>5, <1>7, <1>8, Emitted
<1>10. Emit([Turn EXCEPT !.m.state[a] = "running"], e) = t
  BY DEF Turn
<1> HIDE DEF t
<1>11. Nearly(t, p, a) /\ p[a] = "none" /\ t.m.state[a] = "running"
  <2>1. Nearly(Turn, Pending(pc), a)
    BY <1>2, <1>3, ReadyIsNearly
  <2>2. Same(t, Turn, a) /\ t.m.state[a] = "running"
    BY <1>2, <1>3, <1>6, <1>9 DEF Same, Lives
  <2>3. p[a] = "none"
    BY <1>3 DEF Pending
  <2> QED BY <1>9, <2>1, <2>2, <2>3, SameIsNearly
<1>12. t.m.state[a] \in Active
  BY <1>11 DEF Active
<1> HIDE DEF p, k
<1>13. CASE status = "completed"
  <2>1. Scored(Checkpointed(t, a), p, a)
    BY <1>1, <1>5, <1>9, <1>11, <1>12, <1>13, CheckpointedScored
  <2>2. Ready(Evaluate(Checkpointed(t, a), a))
    BY <1>1, <2>1, EvaluateReady
  <2> QED BY <1>10, <1>13, <2>2, ReadyKeeps DEF ExecutorReturns, e
<1>14. CASE status # "completed"
  <2>1. status \in {"crashed", "worker_error", "evaluator_error", "cancelled", "timed_out"}
    BY <1>14, CampaignSupervisorAssumption
  <2>3. Ready(MaybeRetry(t, a, status))
    BY <1>1, <1>5, <1>9, <1>11, <1>12, <2>1, RetryReady
  <2> QED BY <1>10, <1>14, <2>3, ReadyKeeps DEF ExecutorReturns, e
<1> QED BY <1>13, <1>14

-----------------------------------------------------------------------------
(* Folds over the attempts: a stop and a recovery.                         *)

\* A stop cancels one queued attempt after another.
Cancels == INSTANCE Folding WITH Op <- Cancel
\* A recovery resolves one accepted attempt after another,
Resolves == INSTANCE Folding WITH Op <- ResolvePending
\* and omits the others.
Omits == INSTANCE Folding WITH Op <- Omit

\* A stop cancels one queued attempt after another.
LEMMA StoppingIsFold ==
    Stopping = Cancels!Fold(Emit([Turn EXCEPT !.m.campaign = "stopping", !.queue = <<>>],
                                 Event("stop_requested", NoAttempt)), queue)
BY DEF Stopping, FoldLeft, Cancels!FoldLeft, MapThenFoldSet, Cancels!MapThenFoldSet, Max, Cancels!Max, Cancels!Fold

\* A recovery resolves the accepted attempts, then the ones it omits.
LEMMA ResolvedIsFold ==
    Resolved = Omits!Fold(Resolves!Fold([Turn EXCEPT !.m = durable.live], durable.order), SetToSeq(Attempts))
BY DEF Resolved, FoldLeft, Resolves!FoldLeft, MapThenFoldSet, Resolves!MapThenFoldSet, Max, Resolves!Max, Resolves!Fold,
       Omits!FoldLeft, Omits!MapThenFoldSet, Omits!Max, Omits!Fold

\* All attempts, each once.
LEMMA AttemptsListed == SetToSeq(Attempts) \in Seq(Attempts) /\ Range(SetToSeq(Attempts)) = Attempts /\ Once(SetToSeq(Attempts))
<1> DEFINE n == Cardinality(Attempts)
           s == SetToSeq(Attempts)
<1>1. IsFiniteSet(Attempts) /\ n \in Nat /\ ExistsBijection(1 .. n, Attempts)
  BY CampaignSupervisorAssumption, FS_CardinalityType
<1>2. \E f \in [1 .. n -> Attempts] : IsInjective(f)
  BY <1>1 DEF ExistsBijection, Bijection, Injection
<1>3. s \in [1 .. n -> Attempts] /\ IsInjective(s)
  BY <1>2 DEF SetToSeq
<1> HIDE DEF s
<1>4. s \in Injection(1 .. n, Attempts)
  BY <1>3 DEF Injection
<1>5. Cardinality(1 .. n) = n
  BY <1>1, FS_Interval
<1> HIDE DEF n
<1>6. s \in Surjection(1 .. n, Attempts)
  BY <1>1, <1>4, <1>5, FS_Injection DEF n
<1>7. s \in Seq(Attempts) /\ DOMAIN s = 1 .. n
  BY <1>1, <1>3
<1>8. Range(s) = Attempts
  BY <1>3, <1>6, <1>7 DEF Surjection, Range
<1>9. Once(s)
  BY <1>3 DEF Once, IsInjective
<1> QED BY <1>7, <1>8, <1>9 DEF s

\* The elements of s up to the i-th.
Upto(s, i) == {s[j] : j \in 1 .. i}

\* One element after another.
LEMMA UptoGrows ==
    ASSUME NEW T, NEW s \in Seq(T)
    PROVE  /\ Upto(s, 0) = {} /\ Upto(s, Len(s)) = Range(s)
           /\ \A i \in 1 .. Len(s) : /\ Upto(s, i) = Upto(s, i - 1) \cup {s[i]} /\ s[i] \in T
                                     /\ Once(s) => s[i] \notin Upto(s, i - 1)
<1>1. Len(s) \in Nat /\ DOMAIN s = 1 .. Len(s)
  OBVIOUS
<1>2. Upto(s, 0) = {} /\ Upto(s, Len(s)) = Range(s)
  BY <1>1 DEF Upto, Range
<1>3. ASSUME NEW i \in 1 .. Len(s)
      PROVE  /\ Upto(s, i) = Upto(s, i - 1) \cup {s[i]} /\ s[i] \in T
             /\ Once(s) => s[i] \notin Upto(s, i - 1)
  <2>1. i \in Nat /\ 1 .. i = (1 .. i - 1) \cup {i} /\ 1 .. i - 1 \subseteq DOMAIN s /\ i \in DOMAIN s
    BY <1>1
  <2>2. Upto(s, i) = Upto(s, i - 1) \cup {s[i]}
    BY <2>1 DEF Upto
  <2>3. ASSUME Once(s) PROVE s[i] \notin Upto(s, i - 1)
    BY <2>1, <2>3 DEF Upto, Once
  <2> QED BY <2>2, <2>3
<1> QED BY <1>2, <1>3

\* a request to stop,
LEMMA RequestStopKeeps == ASSUME SupInv, RequestStop PROVE SupInv'
<1> DEFINE e == Event("stop_requested", NoAttempt)
           k == [mem EXCEPT !.campaign = "stopping"]
           u == [m |-> k, pc |-> pc, queue |-> << >>, es |-> << >>]
           base == Emit(u, e)
           P == Pending(pc)
           W == [i \in 0 .. Len(queue) |->
                   {t \in Turns : /\ On(t, P) /\ t.pc = pc /\ t.queue = << >> /\ t.m.campaign = "stopping"
                                  /\ \A b \in Attempts \ Upto(queue, i) : t.m.state[b] = mem.state[b]}]
<1>1. wall \in Nat /\ up /\ wall >= mem.last /\ mem.campaign = "running" /\ Take(Stopping)
  BY TakeIsTimely DEF RequestStop, SupInv
<1>2. /\ Good(durable) /\ Manned(mem.state, pc, queue) /\ Track(durable, mem, P, wall)
  BY <1>1, TurnStarts, OnIs DEF SupInv
<1>3. mem \in Lives /\ pc \in [Attempts -> Places] /\ queue \in Seq(Attempts) /\ Once(queue) /\ Len(queue) \in Nat
  BY <1>2 DEF Track, Manned
<1>4. e \in Events /\ e.kind = "stop_requested" /\ e.wall = wall
  <2>1. "stop_requested" \in Kinds
    BY DEF Kinds
  <2>2. e \in Events
    BY <1>1, <2>1, EventTyped
  <2> QED BY <2>2 DEF Event
<1> HIDE DEF e
<1>5. Good(Write(durable, e)) /\ Track(Write(durable, e), k, P, wall)
  <2> HIDE DEF P, W, base, u
  <2> QED BY <1>1, <1>2, <1>4, StopRequestedFollows
<1>6. k \in Lives /\ k.state = mem.state /\ k.campaign = "stopping"
  BY <1>3, <1>5 DEF Track, Lives
<1>7. u.m = k /\ u.pc = pc /\ u.queue = << >> /\ u.es = << >> /\ u \in Turns
  <2>1. << >> \in Seq(Events) /\ << >> \in Seq(Attempts)
    OBVIOUS
  <2> HIDE DEF k
  <2> QED BY <1>3, <1>6, <2>1 DEF Turns
<1>8. Written(<< >>) /\ Replayed(<< >>) = durable
  BY <1>2, WrittenNone
<1>9. On(base, P) /\ base.m = k /\ base.pc = pc /\ base.queue = << >>
  <2> HIDE DEF P, u, k, W
  <2> QED BY <1>4, <1>5, <1>7, <1>8, Emitted
<1>10. [Turn EXCEPT !.m.campaign = "stopping", !.queue = << >>] = u
  <2> DEFINE x == [Turn EXCEPT !.m.campaign = "stopping"]
  <2>1. x = [m |-> k, pc |-> pc, queue |-> queue, es |-> << >>]
    BY DEF Turn
  <2>2. [Turn EXCEPT !.m.campaign = "stopping", !.queue = << >>] = [x EXCEPT !.queue = << >>]
    BY DEF Turn
  <2> HIDE DEF k, x
  <2> QED BY <2>1, <2>2
<1>11. Stopping = Cancels!Fold(base, queue)
  BY <1>10, StoppingIsFold DEF e
<1> HIDE DEF base
<1>12. base \in W[0]
  <2>1. base \in Turns
    BY <1>9, OnIs
  <2>2. 0 \in 0 .. Len(queue)
    BY <1>3
  <2> HIDE DEF P, k
  <2> QED BY <1>6, <1>9, <2>1, <2>2
<1>13. ASSUME NEW i \in 1 .. Len(queue), NEW t \in W[i - 1] PROVE Cancel(t, queue[i]) \in W[i]
  <2> DEFINE a == queue[i]
             f == Finalize(t, a, "CANCELLED")
  <2>1. i - 1 \in 0 .. Len(queue) /\ i \in 0 .. Len(queue) /\ i \in DOMAIN queue
    BY <1>3
  <2>2. a \in Attempts /\ a \notin Upto(queue, i - 1) /\ Upto(queue, i) = Upto(queue, i - 1) \cup {a} /\ a \in Range(queue)
    BY <1>3, <2>1, UptoGrows DEF Range
  <2>3. /\ t \in Turns /\ On(t, P) /\ t.pc = pc /\ t.queue = << >> /\ t.m.campaign = "stopping"
        /\ \A b \in Attempts \ Upto(queue, i - 1) : t.m.state[b] = mem.state[b]
    BY <2>1
  <2> HIDE DEF a, W, P
  <2>4. pc[a] = "idle" /\ mem.state[a] \in Launchable /\ P[a] = "none" /\ t.m.state[a] \in Unfinished
    BY <1>2, <2>2, <2>3 DEF Manned, Launchable, Unfinished, MidFlight, P, Pending
  <2>5. Replayed(t.es).ok => \A x \in Events : x.kind = "terminal" /\ x.of = a /\ x.status = "CANCELLED" => Precursor(Replayed(t.es), x)
    <3>1. Track(Replayed(t.es), t.m, P, wall)
      BY <2>3, OnIs
    <3> QED BY <2>3, <2>4, <3>1 DEF Track, Agree, Precursor
  <2>6. "CANCELLED" \in Reports
    BY DEF Reports
  <2>7. On(f, [P EXCEPT ![a] = "none"]) /\ f.m = [t.m EXCEPT !.state[a] = "ended"] /\ f.pc = [t.pc EXCEPT ![a] = "idle"] /\ f.queue = t.queue
    BY <1>1, <2>2, <2>3, <2>4, <2>5, <2>6, FinalizeTurn
  <2> HIDE DEF f
  <2>8. [P EXCEPT ![a] = "none"] = P /\ f.pc = pc
    BY <1>3, <2>2, <2>3, <2>4, <2>7 DEF P, Pending
  <2>9. f \in Turns /\ f.m.campaign = "stopping" /\ \A b \in Attempts \ Upto(queue, i) : f.m.state[b] = mem.state[b]
    <3>1. f \in Turns /\ t.m \in Lives
      BY <2>3, <2>7, OnIs
    <3>2. f.m.campaign = t.m.campaign /\ f.m.state = [t.m.state EXCEPT ![a] = "ended"]
      BY <2>7, <3>1 DEF Lives
    <3> QED BY <2>2, <2>3, <3>1, <3>2 DEF Lives
  <2>10. On(f, P) /\ f.queue = << >>
    BY <2>3, <2>7, <2>8
  <2>11. f \in W[i]
    BY <2>1, <2>8, <2>9, <2>10 DEF W
  <2> QED BY <2>11 DEF f, Cancel, a
<1>14. Stopping \in W[Len(queue)]
  <2> HIDE DEF W, k, u, P
  <2> QED BY <1>3, <1>11, <1>12, <1>13, Cancels!FoldKeeps
<1>15. /\ On(Stopping, P) /\ Stopping.pc = pc /\ Stopping.queue = << >>
       /\ \A b \in Attempts \ Range(queue) : Stopping.m.state[b] = mem.state[b]
  <2>1. Len(queue) \in 0 .. Len(queue) /\ Upto(queue, Len(queue)) = Range(queue)
    BY <1>3, UptoGrows
  <2> HIDE DEF P
  <2> QED BY <1>14, <2>1
<1>16. Manned(Stopping.m.state, pc, << >>)
  <2>1. << >> \in Seq(Attempts) /\ Once(<< >>) /\ Range(<< >>) = {}
    BY DEF Once, Range
  <2>2. ASSUME NEW b \in Attempts
        PROVE  /\ pc[b] \in {"waiting", "executing"} => Stopping.m.state[b] \in Launchable
               /\ pc[b] = "evaluating" => Stopping.m.state[b] = "checkpointed"
    BY <1>2, <1>15 DEF Manned
  <2> QED BY <1>3, <2>1, <2>2 DEF Manned
<1>17. Ready(Stopping)
  BY <1>15, <1>16 DEF Ready
<1> QED BY <1>1, <1>17, ReadyKeeps

\* What the journal leaves in flight once the attempts done are resolved.
Left(done) == [b \in Attempts |-> IF b \in done THEN "none" ELSE durable.pending[b]]

\* recover() after the attempts done: t is on the journal, the others are as
\* the journal left them, and only done ones are queued.
Recovering(t, done) ==
    /\ t \in Turns /\ On(t, Left(done)) /\ t.pc = Each("idle") /\ t.m.campaign = durable.live.campaign
    /\ \A b \in Attempts \ done :
          /\ t.m.state[b] = durable.live.state[b] /\ t.m.restarts[b] = durable.live.restarts[b]
          /\ Replayed(t.es).pending[b] = durable.pending[b]
          /\ Replayed(t.es).live.state[b] = durable.live.state[b]
          /\ Replayed(t.es).live.restarts[b] = durable.live.restarts[b]
    /\ Once(t.queue) /\ Range(t.queue) \subseteq done
    /\ \A b \in Range(t.queue) : t.m.state[b] \in Launchable

\* One more is resolved.
LEMMA LeftMore ==
    ASSUME durable.pending \in [Attempts -> Pendings], NEW done, NEW a \in Attempts
    PROVE  /\ Left(done) \in [Attempts -> Pendings]
           /\ Left(done \cup {a}) = [Left(done) EXCEPT ![a] = "none"]
           /\ (Left(done)[a] = "none" => Left(done \cup {a}) = Left(done))
BY DEF Left, Pendings

\* Requeue, in a turn.
LEMMA Requeued ==
    ASSUME NEW t \in Turns, NEW pending, On(t, pending), NEW a \in Attempts
    PROVE  /\ On(Requeue(t, a), pending) /\ Requeue(t, a) \in Turns /\ Requeue(t, a).m = t.m /\ Requeue(t, a).pc = t.pc
           /\ Requeue(t, a).queue = Append(t.queue, a) /\ Requeue(t, a).es = t.es
<1> DEFINE f == Requeue(t, a)
<1>1. f = [t EXCEPT !.queue = Append(t.queue, a)]
  BY DEF Requeue
<1>2. Append(t.queue, a) \in Seq(Attempts)
  BY DEF Turns
<1>3. f \in Turns /\ f.m = t.m /\ f.pc = t.pc /\ f.queue = Append(t.queue, a) /\ f.es = t.es
  <2> HIDE DEF f
  <2> QED BY <1>1, <1>2 DEF Turns
<1> HIDE DEF f
<1>4. On(f, pending)
  BY <1>3 DEF On
<1> QED BY <1>3, <1>4 DEF f

\* An attempt that is finished, or was never in flight, as recovery passes it.
LEMMA PassedOver ==
    ASSUME NEW t, NEW done, Recovering(t, done), NEW a \in Attempts, Left(done)[a] = "none",
           durable.pending \in [Attempts -> Pendings]
    PROVE  Recovering(t, done \cup {a})
<1>1. Left(done \cup {a}) = Left(done)
  BY LeftMore
<1> QED BY <1>1 DEF Recovering

\* One that recovery finalizes.
LEMMA FinalizedOver ==
    ASSUME wall \in Nat, NEW t, NEW done, Recovering(t, done), NEW a \in Attempts, a \notin Range(t.queue),
           durable.pending \in [Attempts -> Pendings], NEW outcome \in Reports,
           t.m.state[a] \in Unfinished \cup {"intended"},
           Replayed(t.es).ok => \A e \in Events : e.kind = "terminal" /\ e.of = a /\ e.status = outcome => Precursor(Replayed(t.es), e)
    PROVE  Recovering(Finalize(t, a, outcome), done \cup {a})
<1> DEFINE f == Finalize(t, a, outcome)
<1>1. On(t, Left(done)) /\ t.pc = Each("idle")
  BY DEF Recovering
<1>2. /\ On(f, [Left(done) EXCEPT ![a] = "none"]) /\ Apart(Replayed(f.es), Replayed(t.es), a)
      /\ f.m = [t.m EXCEPT !.state[a] = "ended"] /\ f.pc = [t.pc EXCEPT ![a] = "idle"] /\ f.queue = t.queue
  BY <1>1, FinalizeTurn
<1> HIDE DEF f
<1>3. t.m \in Lives /\ f \in Turns
  BY <1>1, <1>2, OnIs
<1>4. /\ f.m.campaign = t.m.campaign /\ f.m.state = [t.m.state EXCEPT ![a] = "ended"] /\ f.m.restarts = t.m.restarts
      /\ t.m.state \in [Attempts -> States]
  BY <1>2, <1>3 DEF Lives
<1>5. On(f, Left(done \cup {a}))
  <2>1. Left(done \cup {a}) = [Left(done) EXCEPT ![a] = "none"]
    BY LeftMore
  <2> QED BY <1>2, <2>1
<1>6. f.pc = Each("idle")
  BY <1>1, <1>2 DEF Each
<1>7. ASSUME NEW b \in Attempts \ (done \cup {a})
      PROVE  /\ f.m.state[b] = durable.live.state[b] /\ f.m.restarts[b] = durable.live.restarts[b]
             /\ Replayed(f.es).pending[b] = durable.pending[b]
             /\ Replayed(f.es).live.state[b] = durable.live.state[b]
             /\ Replayed(f.es).live.restarts[b] = durable.live.restarts[b]
  BY <1>2, <1>4 DEF Recovering, Apart
<1>8. \A b \in Range(f.queue) : f.m.state[b] \in Launchable
  <2>1. t.queue \in Seq(Attempts)
    BY <1>1, OnIs
  <2>2. Range(t.queue) \subseteq Attempts
    BY <2>1 DEF Range
  <2> QED BY <1>2, <1>4, <2>2 DEF Recovering
<1>9. Recovering(f, done \cup {a})
  BY <1>2, <1>3, <1>4, <1>5, <1>6, <1>7, <1>8 DEF Recovering
<1> QED BY <1>9 DEF f

\* One that recovery queues as it is.
LEMMA RequeuedOver ==
    ASSUME NEW t, NEW done, Recovering(t, done), NEW a \in Attempts, a \notin Range(t.queue), a \in done,
           t.m.state[a] \in Launchable
    PROVE  Recovering(Requeue(t, a), done)
<1> DEFINE f == Requeue(t, a)
<1>1. t \in Turns /\ On(t, Left(done)) /\ t.queue \in Seq(Attempts)
  BY OnIs DEF Recovering
<1>2. /\ On(f, Left(done)) /\ f \in Turns /\ f.m = t.m /\ f.pc = t.pc
      /\ f.queue = Append(t.queue, a) /\ f.es = t.es
  BY <1>1, Requeued
<1>3. Once(f.queue) /\ Range(f.queue) = Range(t.queue) \cup {a}
  BY <1>1, <1>2, OnceMore DEF Recovering
<1> HIDE DEF f
<1>4. Recovering(f, done)
  BY <1>2, <1>3 DEF Recovering
<1> QED BY <1>4 DEF f

\* One that recovery interrupts.
LEMMA InterruptedOver ==
    ASSUME wall \in Nat, NEW t, NEW done, Recovering(t, done), NEW a \in Attempts, a \notin Range(t.queue),
           durable.pending \in [Attempts -> Pendings], NEW charge \in {0, 1}, MayInterrupt(t, Left(done), a, charge)
    PROVE  Recovering(Requeue(Interrupt(t, a, charge), a), done \cup {a})
<1> DEFINE f == Interrupt(t, a, charge)
<1>1. On(t, Left(done)) /\ t.pc = Each("idle") /\ t.queue \in Seq(Attempts) /\ t.m \in Lives
  BY OnIs DEF Recovering
<1>2. Interrupted(f, t, Left(done), a, charge)
  BY <1>1, InterruptTurn
<1> HIDE DEF f
<1>3. /\ On(f, [Left(done) EXCEPT ![a] = "none"]) /\ Apart(Replayed(f.es), Replayed(t.es), a)
      /\ f.m.state = [t.m.state EXCEPT ![a] = "interrupted"] /\ f.m.campaign = t.m.campaign
      /\ f.m.restarts = [t.m.restarts EXCEPT ![a] = t.m.restarts[a] + charge]
      /\ f.pc = t.pc /\ f.queue = t.queue
      /\ t.m.state \in [Attempts -> States] /\ t.m.restarts \in [Attempts -> Nat]
  BY <1>1, <1>2 DEF Interrupted, Lives
<1>4. On(f, Left(done \cup {a}))
  BY <1>3, LeftMore
<1>5. f \in Turns /\ f.m.state[a] = "interrupted"
  BY <1>3, <1>4, OnIs
<1>7. ASSUME NEW b \in Attempts \ (done \cup {a})
      PROVE  /\ f.m.state[b] = durable.live.state[b] /\ f.m.restarts[b] = durable.live.restarts[b]
             /\ Replayed(f.es).pending[b] = durable.pending[b]
             /\ Replayed(f.es).live.state[b] = durable.live.state[b]
             /\ Replayed(f.es).live.restarts[b] = durable.live.restarts[b]
  BY <1>3 DEF Recovering, Apart
<1>8. \A b \in Range(f.queue) : f.m.state[b] \in Launchable
  <2>1. Range(t.queue) \subseteq Attempts
    BY <1>1 DEF Range
  <2> QED BY <1>3, <2>1 DEF Recovering
<1>9. Recovering(f, done \cup {a})
  BY <1>1, <1>3, <1>4, <1>5, <1>7, <1>8 DEF Recovering
<1>10. a \notin Range(f.queue) /\ f.m.state[a] \in Launchable
  BY <1>3, <1>5 DEF Launchable
<1>11. Recovering(Requeue(f, a), done \cup {a})
  BY <1>9, <1>10, RequeuedOver
<1> QED BY <1>11 DEF f

\* Whatever a recovery makes of an accepted attempt, it is done with it.
LEMMA ResolveStep ==
    ASSUME wall \in Nat, Good(durable), durable.ok, NEW t, NEW done, Recovering(t, done),
           NEW a \in Range(durable.order), a \notin done
    PROVE  Recovering(ResolvePending(t, a), done \cup {a})
<1> DEFINE p == durable.pending[a]
           s == Replayed(t.es)
<1>1. /\ durable \in Replays /\ durable.pending \in [Attempts -> Pendings] /\ a \in Attempts /\ Steady(durable, a)
  BY DEF Good, Replays, At, Range
<1>2. /\ t.m.state[a] = durable.live.state[a] /\ Left(done)[a] = p /\ a \notin Range(t.queue)
      /\ s.pending[a] = p /\ s.live.state[a] = durable.live.state[a] /\ s.live.restarts[a] = t.m.restarts[a]
  BY <1>1 DEF Recovering, Left
<1>3. /\ Track(s, t.m, Left(done), wall) /\ t.m \in Lives /\ On(t, Left(done)) /\ t.m.restarts[a] <= MaxRestarts
      /\ t.m.restarts[a] \in Nat /\ MaxRestarts \in Nat
  <2>1. On(t, Left(done)) /\ MaxRestarts \in Nat
    BY CampaignSupervisorAssumption DEF Recovering
  <2>2. Track(s, t.m, Left(done), wall) /\ t.m \in Lives
    <3> HIDE DEF p
    <3> QED BY <2>1, OnIs
  <2>3. t.m.restarts[a] <= MaxRestarts /\ t.m.restarts[a] \in Nat
    <3> HIDE DEF s, p
    <3> QED BY <1>1, <2>2 DEF Track, Lives
  <2> QED BY <2>1, <2>2, <2>3
<1>4. durable.live.state[a] \in States /\ p \in Pendings /\ durable.live.state[a] \notin {"none", "intended"}
  BY <1>1 DEF Steady, Replays, Lives
<1> HIDE DEF s, p
<1>5. ResolvePending(t, a) = Resolve(t, a, p)
  BY DEF ResolvePending, p
<1>6. CASE t.m.state[a] \notin Unfinished
  <2>1. p = "none"
    BY <1>1, <1>2, <1>4, <1>6 DEF Steady, Pendings, Intents, Launchable, Active, Unfinished, MidFlight, p
  <2>2. Recovering(t, done \cup {a})
    BY <1>1, <1>2, <2>1, PassedOver
  <2> QED BY <1>5, <1>6, <2>2 DEF Resolve
<1>7. CASE t.m.state[a] \in Unfinished /\ t.m.campaign # "running"
  <2>1. s.ok => \A e \in Events : e.kind = "terminal" /\ e.of = a /\ e.status = "CANCELLED" => Precursor(s, e)
    BY <1>3, <1>7 DEF Track, Agree, Precursor
  <2>2. "CANCELLED" \in Reports
    BY DEF Reports
  <2>3. Recovering(Finalize(t, a, "CANCELLED"), done \cup {a})
    BY <1>1, <1>2, <1>7, <2>1, <2>2, FinalizedOver DEF s
  <2> QED BY <1>5, <1>7, <2>3 DEF Resolve
<1>8. CASE t.m.state[a] \in Unfinished /\ t.m.campaign = "running" /\ p = "none" /\ t.m.state[a] = "interrupted"
  <2>1. Recovering(t, done \cup {a})
    BY <1>1, <1>2, <1>8, PassedOver
  <2>2. t.m.state[a] \in Launchable /\ a \in done \cup {a}
    BY <1>8 DEF Launchable
  <2> HIDE DEF p
  <2>3. Recovering(Requeue(t, a), done \cup {a})
    BY <1>1, <1>2, <2>1, <2>2, RequeuedOver
  <2> QED BY <1>5, <1>8, <2>3 DEF Resolve
<1>9. CASE t.m.state[a] \in Unfinished /\ t.m.campaign = "running" /\ p = "none" /\ t.m.state[a] \in Active
  <2>1. MayInterrupt(t, Left(done), a, 0)
    BY <1>2, <1>3, <1>9 DEF MayInterrupt, MidFlight, s
  <2>2. Recovering(Requeue(Interrupt(t, a, 0), a), done \cup {a})
    BY <1>1, <1>2, <2>1, InterruptedOver
  <2>3. t.m.state[a] # "interrupted"
    BY <1>9 DEF Active
  <2> QED BY <1>5, <1>9, <2>2, <2>3 DEF Resolve
<1>10. CASE t.m.state[a] \in Unfinished /\ t.m.campaign = "running" /\ ~(p = "none" /\ t.m.state[a] \in Active \cup {"interrupted"})
  <2>1. t.m.state[a] = "prepared" \/ p # "none"
    BY <1>10 DEF Unfinished, MidFlight
  <2>2. CASE t.m.restarts[a] >= MaxRestarts
    <3>1. s.ok => \A e \in Events : e.kind = "terminal" /\ e.of = a /\ e.status = "FAILED" => Precursor(s, e)
      <4>1. SUFFICES ASSUME s.ok, NEW e \in Events, e.of = a, e.status = "FAILED" PROVE Precursor(s, e)
        OBVIOUS
      <4>2. s.live.restarts[a] >= MaxRestarts /\ s.live.state[a] \in Unfinished /\ (s.live.state[a] = "prepared" \/ s.pending[a] # "none")
        BY <1>2, <1>10, <2>1, <2>2
      <4> QED BY <4>1, <4>2 DEF Precursor
    <3>2. "FAILED" \in Reports
      BY DEF Reports
    <3>3. Recovering(Finalize(t, a, "FAILED"), done \cup {a})
      BY <1>1, <1>2, <1>10, <3>1, <3>2, FinalizedOver DEF s
    <3> QED BY <1>5, <1>10, <2>2, <3>3 DEF Resolve
  <2>3. CASE ~(t.m.restarts[a] >= MaxRestarts)
    <3>1. t.m.restarts[a] + 1 <= MaxRestarts
      BY <1>3, <2>3
    <3>2. MayInterrupt(t, Left(done), a, 1)
      BY <1>2, <1>10, <2>1, <3>1 DEF MayInterrupt, Unfinished, MidFlight
    <3>3. Recovering(Requeue(Interrupt(t, a, 1), a), done \cup {a})
      BY <1>1, <1>2, <3>2, InterruptedOver
    <3> QED BY <1>5, <1>10, <2>3, <3>3 DEF Resolve
  <2> QED BY <2>2, <2>3
<1> QED BY <1>6, <1>7, <1>8, <1>9, <1>10

\* And with the others.
LEMMA OmitStep ==
    ASSUME wall \in Nat, Good(durable), durable.ok, NEW t, NEW done, Recovering(t, done), NEW a \in Attempts,
           Range(durable.order) \subseteq done
    PROVE  Recovering(Omit(t, a), done \cup {a})
<1> DEFINE s == Replayed(t.es)
<1>1. durable.pending \in [Attempts -> Pendings] /\ Steady(durable, a)
  BY DEF Good, Replays, At
<1>2. Track(s, t.m, Left(done), wall)
  BY OnIs DEF Recovering
<1>3. CASE t.m.state[a] = "intended"
  <2>1. a \notin Range(t.queue)
    BY <1>3 DEF Recovering, Launchable
  <2>2. s.ok => \A e \in Events : e.kind = "terminal" /\ e.of = a /\ e.status = "OMITTED" => Precursor(s, e)
    BY <1>2, <1>3 DEF Track, Agree, Precursor
  <2>3. "OMITTED" \in Reports
    BY DEF Reports
  <2>4. Recovering(Finalize(t, a, "OMITTED"), done \cup {a})
    BY <1>1, <1>3, <2>1, <2>2, <2>3, FinalizedOver
  <2> QED BY <1>3, <2>4 DEF Omit
<1>4. CASE t.m.state[a] # "intended"
  <2>1. Left(done)[a] = "none"
    <3>1. CASE a \in done
      BY <3>1 DEF Left
    <3>2. CASE a \notin done
      <4>1. durable.live.state[a] # "intended" /\ durable.live.state[a] \notin Unfinished
        BY <1>1, <1>4, <3>2 DEF Recovering, Steady
      <4> QED BY <1>1, <4>1 DEF Left, Steady, Pendings, Intents, Unfinished, MidFlight, Active, Launchable
    <3> QED BY <3>1, <3>2
  <2>2. Recovering(t, done \cup {a})
    BY <1>1, <2>1, PassedOver
  <2> QED BY <1>4, <2>2 DEF Omit
<1> QED BY <1>3, <1>4

-----------------------------------------------------------------------------
(* The recovery as a whole, and the theorems.                              *)

\* A recovery begins with nothing done.
LEMMA RecoverStarts ==
    ASSUME SupInv, ~up, durable.ok, wall >= durable.live.last
    PROVE  Recovering([Turn EXCEPT !.m = durable.live], {})
<1> DEFINE t == [Turn EXCEPT !.m = durable.live]
<1>1. wall \in Nat /\ Good(durable) /\ pc = Each("idle") /\ queue = << >>
  BY DEF SupInv
<1>2. /\ durable.live \in Lives /\ durable.pending \in [Attempts -> Pendings]
      /\ durable.calls.evaluate = durable.live.evals /\ \A a \in Attempts : At(durable, a)
  BY <1>1 DEF Good, Replays
<1>3. t.m = durable.live /\ t.pc = Each("idle") /\ t.queue = << >> /\ t.es = << >>
  BY <1>1 DEF Turn
<1>4. t \in Turns
  <2>1. << >> \in Seq(Attempts) /\ << >> \in Seq(Events) /\ Each("idle") \in [Attempts -> Places]
    BY DEF Each, Places
  <2>2. t = [m |-> durable.live, pc |-> Each("idle"), queue |-> << >>, es |-> << >>]
    BY <1>1 DEF Turn
  <2> HIDE DEF t
  <2> QED BY <1>2, <2>1, <2>2 DEF Turns
<1>5. Written(<< >>) /\ Replayed(<< >>) = durable
  BY <1>1, WrittenNone
<1>6. Left({}) = durable.pending
  BY <1>2 DEF Left
<1>7. Track(durable, durable.live, durable.pending, wall)
  <2>1. Agree(durable.live, durable.live)
    BY DEF Agree
  <2>2. \A a \in Attempts : durable.live.restarts[a] <= MaxRestarts
            /\ Payable(durable.calls.launch[a], durable.calls.resume[a], durable.live.state[a], durable.pending[a], durable.live.restarts[a])
    BY <1>2 DEF At
  <2> QED BY <1>2, <2>1, <2>2 DEF Track
<1> HIDE DEF t
<1>8. On(t, Left({})) /\ Replayed(t.es) = durable
  BY <1>3, <1>4, <1>5, <1>6, <1>7 DEF On
<1>9. Once(t.queue) /\ Range(t.queue) = {}
  BY <1>3 DEF Once, Range
<1>10. Recovering(t, {})
  BY <1>3, <1>4, <1>8, <1>9 DEF Recovering
<1> QED BY <1>10 DEF t

\* and a recovery, from any good journal.
LEMMA RecoverKeeps == ASSUME SupInv, Recover PROVE SupInv'
<1> DEFINE order == durable.order
           all == SetToSeq(Attempts)
           start == [Turn EXCEPT !.m = durable.live]
           half == Resolves!Fold(start, order)
           V == [i \in 0 .. Len(order) |-> {t \in Turns : Recovering(t, Upto(order, i))}]
           W == [i \in 0 .. Len(all) |-> {t \in Turns : Recovering(t, Range(order) \cup Upto(all, i))}]
<1>1. wall \in Nat /\ ~up /\ durable.ok /\ wall >= durable.live.last /\ Good(durable) /\ Take(Resolved)
  BY DEF Recover, SupInv
<1>2. order \in Seq(Attempts) /\ Len(order) \in Nat /\ Once(order)
  BY <1>1 DEF Good, Replays
<1>3. all \in Seq(Attempts) /\ Range(all) = Attempts /\ Len(all) \in Nat
  BY AttemptsListed
<1> HIDE DEF order, all
<1>4. start \in V[0]
  <2>1. Recovering(start, {})
    BY <1>1, RecoverStarts
  <2>2. Upto(order, 0) = {} /\ 0 \in 0 .. Len(order)
    BY <1>2, UptoGrows
  <2> HIDE DEF start
  <2>3. start \in Turns
    BY <2>1 DEF Recovering
  <2> QED BY <2>1, <2>2, <2>3
<1>5. ASSUME NEW i \in 1 .. Len(order), NEW t \in V[i - 1] PROVE ResolvePending(t, order[i]) \in V[i]
  <2>1. i - 1 \in 0 .. Len(order) /\ i \in 0 .. Len(order) /\ i \in DOMAIN order
    BY <1>2
  <2>2. /\ Upto(order, i) = Upto(order, i - 1) \cup {order[i]} /\ order[i] \notin Upto(order, i - 1)
        /\ order[i] \in Range(order)
    BY <1>2, <2>1, UptoGrows DEF Range
  <2>3. Recovering(t, Upto(order, i - 1))
    BY <2>1
  <2>4. Recovering(ResolvePending(t, order[i]), Upto(order, i))
    BY <1>1, <2>2, <2>3, ResolveStep DEF order
  <2>5. ResolvePending(t, order[i]) \in Turns
    BY <2>4 DEF Recovering
  <2> QED BY <2>1, <2>4, <2>5
<1>6. half \in V[Len(order)]
  <2> HIDE DEF V, start
  <2> QED BY <1>2, <1>4, <1>5, Resolves!FoldKeeps
<1>7. Recovering(half, Range(order))
  <2>1. Len(order) \in 0 .. Len(order) /\ Upto(order, Len(order)) = Range(order)
    BY <1>2, UptoGrows
  <2> HIDE DEF half
  <2> QED BY <1>6, <2>1
<1> HIDE DEF half
<1>8. half \in W[0]
  <2>1. Upto(all, 0) = {} /\ 0 \in 0 .. Len(all)
    BY <1>3, UptoGrows
  <2>2. Range(order) \cup {} = Range(order) /\ half \in Turns
    BY <1>7 DEF Recovering
  <2> QED BY <1>7, <2>1, <2>2
<1>9. ASSUME NEW i \in 1 .. Len(all), NEW t \in W[i - 1] PROVE Omit(t, all[i]) \in W[i]
  <2> DEFINE done == Range(order) \cup Upto(all, i - 1)
  <2>1. i - 1 \in 0 .. Len(all) /\ i \in 0 .. Len(all)
    BY <1>3
  <2>2. Upto(all, i) = Upto(all, i - 1) \cup {all[i]} /\ all[i] \in Attempts
    BY <1>3, UptoGrows
  <2>3. Recovering(t, done) /\ Range(order) \subseteq done /\ Range(order) \cup Upto(all, i) = done \cup {all[i]}
    BY <2>1, <2>2
  <2> HIDE DEF done
  <2>4. Recovering(Omit(t, all[i]), done \cup {all[i]})
    BY <1>1, <2>2, <2>3, OmitStep DEF order
  <2>5. Omit(t, all[i]) \in Turns
    BY <2>4 DEF Recovering
  <2> QED BY <2>1, <2>3, <2>4, <2>5
<1>10. Resolved = Omits!Fold(half, all)
  BY ResolvedIsFold DEF half, start, order, all
<1>11. Resolved \in W[Len(all)]
  <2> HIDE DEF W
  <2> QED BY <1>3, <1>8, <1>9, <1>10, Omits!FoldKeeps
<1>12. Recovering(Resolved, Attempts)
  <2>1. Len(all) \in 0 .. Len(all) /\ Upto(all, Len(all)) = Attempts
    BY <1>3, UptoGrows
  <2>2. Range(order) \cup Attempts = Attempts
    BY <1>2 DEF Range
  <2> QED BY <1>11, <2>1, <2>2
<1>13. Ready(Resolved)
  <2>1. Left(Attempts) = Pending(Each("idle"))
    BY DEF Left, Pending, Each
  <2>2. On(Resolved, Pending(Resolved.pc)) /\ Resolved.pc = Each("idle") /\ Resolved.queue \in Seq(Attempts)
    BY <1>12, <2>1, OnIs DEF Recovering
  <2>3. Manned(Resolved.m.state, Resolved.pc, Resolved.queue)
    BY <1>12, <2>2 DEF Recovering, Manned, Each, Places
  <2> QED BY <2>2, <2>3 DEF Ready
<1> QED BY <1>1, <1>13, ReadyKeeps

\* The invariant holds of a supervisor that was never prepared,
LEMMA SupStarts == ASSUME Init PROVE SupInv
<1>1. durable = Blank /\ wall = 0 /\ up = FALSE /\ mem = Fresh /\ queue = << >> /\ pc = Each("idle")
  BY DEF Init
<1> QED BY <1>1, BlankGood DEF SupInv

\* and every step keeps it.
LEMMA SupKept == ASSUME SupInv, [Next]_vars PROVE SupInv'
<1>1. CASE Prepare
  BY <1>1, PrepareKeeps
<1>2. CASE RunAvailable
  BY <1>2, RunAvailableKeeps
<1>3. CASE RequestStop
  BY <1>3, RequestStopKeeps
<1>4. CASE FinishStop
  BY <1>4, FinishStopKeeps
<1>5. CASE Recover
  BY <1>5, RecoverKeeps
<1>6. CASE Crash \/ RolledBack \/ Tick \/ SetBack \/ UNCHANGED vars
  BY <1>6, OtherKeeps
<1>7. ASSUME NEW a \in Attempts, Submit(a) PROVE SupInv'
  BY <1>7, SubmitKeeps
<1>8. ASSUME NEW a \in Attempts, Launch(a) PROVE SupInv'
  BY <1>8, LaunchKeeps
<1>9. ASSUME NEW a \in Attempts, NEW status \in ExecStatuses, ExecutorReturns(a, status) PROVE SupInv'
  BY <1>9, ExecutorReturnsKeeps
<1>10. ASSUME NEW a \in Attempts, NEW status \in EvalStatuses, EvaluatorReturns(a, status) PROVE SupInv'
  BY <1>10, EvaluatorReturnsKeeps
<1> QED BY <1>1, <1>2, <1>3, <1>4, <1>5, <1>6, <1>7, <1>8, <1>9, <1>10 DEF Next

\* What it says of the journal,
LEMMA SupHonest == ASSUME SupInv PROVE HonestJournalsReplay
BY DEF SupInv, Good, HonestJournalsReplay

\* of the memory beside it,
LEMMA SupLive == ASSUME SupInv PROVE LiveIsReplay
<1> SUFFICES ASSUME up, durable.ok
             PROVE  /\ [durable.live EXCEPT !.last = mem.last] = mem
                    /\ \A a \in Attempts : durable.pending[a] =
                          IF pc[a] = "executing" THEN "launch.intent"
                          ELSE IF pc[a] = "evaluating" THEN "evaluate.intent" ELSE "none"
  BY DEF LiveIsReplay
<1>1. Good(durable) /\ Track(durable, mem, Pending(pc), mem.last)
  BY DEF SupInv
<1>2. durable.live \in Lives /\ mem \in Lives /\ Agree(durable.live, mem) /\ durable.pending = Pending(pc)
  BY <1>1 DEF Good, Replays, Track
<1>3. [durable.live EXCEPT !.last = mem.last] = mem
  BY <1>2 DEF Lives, Agree
<1>4. \A a \in Attempts : Pending(pc)[a] =
                          IF pc[a] = "executing" THEN "launch.intent"
                          ELSE IF pc[a] = "evaluating" THEN "evaluate.intent" ELSE "none"
  BY DEF Pending
<1> QED BY <1>2, <1>3, <1>4

\* and of the budgets.
LEMMA SupRemembers == ASSUME SupInv PROVE NothingIsForgotten
BY SupLive DEF SupInv, Good, Within, NothingIsForgotten, BudgetsSurviveCrashes

\* For any attempts and budgets: a journal that this supervisor wrote, cut short
\* by a crash after any event, also in the middle of a recovery, is replayed by
\* the next one, and refused for nothing but a score that contradicts the report
\* or a deadline on another clock.
THEOREM HonestJournalsReplayHolds == Spec => []HonestJournalsReplay
<1>1. Init => SupInv
  BY SupStarts
<1>2. SupInv /\ [Next]_vars => SupInv'
  BY SupKept
<1>3. SupInv => HonestJournalsReplay
  BY SupHonest
<1> QED BY <1>1, <1>2, <1>3, PTL DEF Spec

\* For any attempts and budgets: however often the process dies, the memory is
\* what the journal replays to, and no more evaluations and launches are made
\* than the budgets allow.
THEOREM NothingIsForgottenHolds == Spec => []NothingIsForgotten
<1>1. Init => SupInv
  BY SupStarts
<1>2. SupInv /\ [Next]_vars => SupInv'
  BY SupKept
<1>3. SupInv => NothingIsForgotten
  BY SupRemembers
<1> QED BY <1>1, <1>2, <1>3, PTL DEF Spec
=============================================================================
