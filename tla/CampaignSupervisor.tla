------------------------- MODULE CampaignSupervisor -------------------------
(***************************************************************************)
(* CampaignSupervisor (discovery/supervisor.py): attempts submitted, run,  *)
(* evaluated, restarted and stopped under frozen budgets, over an append-  *)
(* only journal of intents and outcomes; and recover(), which replays the  *)
(* journal as untrusted input before it trusts a word of it.               *)
(*                                                                         *)
(* An action runs from one await to the next.  It writes a sequence of     *)
(* events; a crash, or an append of unknown durability, cuts the sequence  *)
(* anywhere and ends the instance: a poisoned one refuses every command.   *)
(* The journal is kept as what its replay makes of it, one event after the *)
(* other, which is all that recover() ever reads.                          *)
(***************************************************************************)
EXTENDS Integers, SequencesExt

CONSTANTS
    Attempts, NoAttempt,
    ExecStatuses,    \* what the executor reports in this instance
    EvalStatuses,
    MaxConcurrency, MaxRestarts, MaxEvaluations, MaxAttempts,  \* the manifest's
    MaxWall, AttemptTimeout,                                   \* budgets
    MaxTime, MaxSetbacks, MaxCrashes    \* bounds: clock, its setbacks, deaths

ASSUME CampaignSupervisorAssumption ==
    /\ IsFiniteSet(Attempts) /\ NoAttempt \notin Attempts
    /\ ExecStatuses \subseteq {"completed", "crashed", "worker_error", "cancelled", "timed_out"}
    /\ EvalStatuses \subseteq {"completed", "evaluator_error", "timed_out"}
    /\ {MaxRestarts, MaxTime, MaxSetbacks, MaxCrashes} \subseteq Nat
    /\ {MaxConcurrency, MaxEvaluations, MaxAttempts, MaxWall, AttemptTimeout} \subseteq Nat \ {0}

VARIABLES
    durable,   \* what replay makes of the journal
    wall,      \* the wall clock
    up,        \* an instance is prepared and not poisoned
    mem,       \* its campaign and attempt bookkeeping
    queue,     \* submitted or requeued, not yet popped by run_available
    pc,        \* where the task of each attempt is
    mono,      \* the monotonic clock since prepare() or recover()
    started,   \* its reading when this instance first launched an attempt
    setbacks, crashes

vars == <<durable, wall, up, mem, queue, pc, mono, started, setbacks, crashes>>

Unset == -1
Each(x) == [a \in Attempts |-> x]

\* What live operation keeps, and what replay keeps besides.  state "none":
\* unknown; "intended": its submit intent is durable, the outcome is not.
Fresh == [campaign |-> "prepared", deadline |-> Unset, last |-> 0, evals |-> 0,
          submitted |-> 0, state |-> Each("none"), restarts |-> Each(0), due |-> Each(Unset)]

\* History: evaluator and executor calls, and resumes of an attempt that had
\* nothing in flight.
NoCalls == [evaluate |-> 0, launch |-> Each(0), resume |-> Each(0)]

\* order: the attempts as their submissions were accepted.
Blank == [live |-> Fresh, ok |-> TRUE, why |-> "none", calls |-> NoCalls, order |-> <<>>,
          pending |-> Each("none"), launch |-> Each("none"), evaluate |-> Each("none")]

Active == {"running", "checkpointed"}
Launchable == {"prepared", "interrupted"}
MidFlight == {"prepared"} \cup Active
Unfinished == MidFlight \cup {"interrupted"}

\* What wall_seconds of a receipt is, live and on replay.
Elapsed(m, a, now) ==
    LET first == m.due[a] - AttemptTimeout
    IN  IF m.due[a] = Unset \/ now < first THEN 0 ELSE now - first

-----------------------------------------------------------------------------
(* Replay: _observe_wall_clock_domain, then _replay_event, for one event e *)
(* on the state s of the replay so far.                                    *)

IntentOf(kind) ==
    CASE kind = "submit.outcome" -> "submit.intent"
      [] kind = "launch.outcome" -> "launch.intent"
      [] kind = "checkpoint.outcome" -> "checkpoint.intent"
      [] kind = "evaluate.outcome" -> "evaluate.intent"
      [] OTHER -> "none"

Intents == {"submit.intent", "launch.intent", "checkpoint.intent", "evaluate.intent"}

\* The wall sample of the event proves that a deadline has passed.
DeadlineProven(s, e) ==
    \/ s.live.deadline # Unset /\ e.wall >= s.live.deadline
    \/ s.live.due[e.of] # Unset /\ e.wall >= s.live.due[e.of]

StatusOf(outcome) ==
    CASE outcome = "CRASHED" -> "crashed" [] outcome = "WORKER_ERROR" -> "worker_error"
      [] outcome = "EVALUATOR_ERROR" -> "evaluator_error" [] outcome = "TIMED_OUT" -> "timed_out"
      [] outcome = "CANCELLED" -> "cancelled" [] OTHER -> "none"

\* Rows 3, 5, 10-12: a reported status, with no restart left.
Reported(s, a, status) ==
    /\ s.live.restarts[a] >= MaxRestarts
    /\ \/ s.live.state[a] \in Active /\ s.launch[a] = status
       \/ s.live.state[a] = "checkpointed" /\ s.evaluate[a] = status

\* Mutant: an early timeout is no evidence, a proven deadline is needed.
PrecursorLate(s, e) ==
    LET a == e.of  exhausted == s.live.restarts[a] >= MaxRestarts  state == s.live.state[a] IN
    CASE e.status = "OMITTED" -> state = "intended"
      [] e.status = "CANCELLED" -> state \in Unfinished /\
            (s.live.campaign # "running" \/ Reported(s, a, "cancelled"))
      [] e.status = "TIMED_OUT" -> state \in Unfinished /\ DeadlineProven(s, e)
      [] e.status = "COMPLETED" -> state = "checkpointed" /\ s.evaluate[a] = "completed"
      [] e.status = "FAILED" ->
            \/ exhausted /\ (state = "prepared" \/ (state \in Unfinished /\ s.pending[a] # "none"))
            \/ /\ state = "checkpointed" /\ s.pending[a] = "none" /\ s.evaluate[a] = "none"
               /\ s.live.evals >= MaxEvaluations
      [] OTHER -> Reported(s, a, StatusOf(e.status))

\* The evidence table: what must be durable before a terminal.
Precursor(s, e) ==
    LET a == e.of  exhausted == s.live.restarts[a] >= MaxRestarts  state == s.live.state[a] IN
    CASE e.status = "OMITTED" -> state = "intended"
      [] e.status = "CANCELLED" -> state \in Unfinished /\
            (s.live.campaign # "running" \/ Reported(s, a, "cancelled"))
      [] e.status = "TIMED_OUT" -> state \in Unfinished /\
            (DeadlineProven(s, e) \/ Reported(s, a, "timed_out"))
      [] e.status = "COMPLETED" -> state = "checkpointed" /\ s.evaluate[a] = "completed"
      [] e.status = "FAILED" ->
            \/ exhausted /\ (state = "prepared" \/ (state \in Unfinished /\ s.pending[a] # "none"))
            \/ /\ state = "checkpointed" /\ s.pending[a] = "none" /\ s.evaluate[a] = "none"
               /\ s.live.evals >= MaxEvaluations
      [] OTHER -> Reported(s, a, StatusOf(e.status))

\* A completed evaluation of this round admits a COMPLETED terminal only.
Contradicts(s, e) == s.evaluate[e.of] = "completed" /\ e.status # "COMPLETED"

\* What a terminal claims to have used is what the journal before it says.
Truthful(s, e) ==
    /\ e.evals = s.live.evals /\ e.restarts = s.live.restarts[e.of]
    /\ e.seconds = Elapsed(s.live, e.of, e.wall)

LegalAttempt(s, e) ==
    LET a == e.of  state == s.live.state[a] IN
    /\ state # "ended"
    /\ e.kind \in Intents => s.pending[a] = "none"
    /\ IntentOf(e.kind) # "none" => s.pending[a] = IntentOf(e.kind)
    /\ \/ e.kind = "submit.intent" /\ state = "none"
       \/ e.kind = "submit.outcome" /\ state = "intended" /\ s.live.submitted < MaxAttempts
       \/ e.kind \in {"launch.intent", "launch.outcome"} /\ state \in Launchable
       \/ e.kind = "checkpoint.intent" /\ state \in Active /\ s.launch[a] = "completed"
       \/ /\ e.kind = "evaluate.intent" /\ state \in Active /\ s.launch[a] = "completed"
          /\ s.live.evals < MaxEvaluations
       \/ e.kind \in {"checkpoint.outcome", "evaluate.outcome"} /\ state \in Active
       \/ /\ e.kind = "interrupted"
          /\ state \in MidFlight \/ (state = "interrupted" /\ s.pending[a] # "none")
          /\ e.restarts \in s.live.restarts[a] .. MaxRestarts
       \/ /\ e.kind = "terminal" /\ Precursor(s, e) /\ ~Contradicts(s, e) /\ Truthful(s, e)

Legal(s, e) ==
    /\ e.wall >= s.live.last
    /\ \/ e.kind = "prepared" /\ s.live.campaign = "prepared"
       \/ e.kind = "stop_requested" /\ s.live.campaign = "running"
       \/ e.kind = "stopped" /\ s.live.campaign = "stopping"
       \/ e.of # NoAttempt /\ LegalAttempt(s, e)

\* Mutant: the evaluation slot is charged when its outcome is durable.
EffectLateCharge(s, e) ==
    LET a == e.of  t == [s EXCEPT !.live.last = e.wall] IN
    CASE e.kind = "prepared" ->
            [t EXCEPT !.live.campaign = "running", !.live.deadline = e.wall + MaxWall]
      [] e.kind = "stop_requested" -> [t EXCEPT !.live.campaign = "stopping"]
      [] e.kind = "stopped" -> [t EXCEPT !.live.campaign = "stopped"]
      [] e.kind = "submit.intent" -> [t EXCEPT !.live.state[a] = "intended", !.pending[a] = e.kind]
      [] e.kind = "submit.outcome" ->
            [t EXCEPT !.live.state[a] = "prepared", !.pending[a] = "none",
                      !.live.submitted = @ + 1, !.order = Append(@, a)]
      [] e.kind = "launch.intent" ->
            [t EXCEPT !.pending[a] = e.kind, !.launch[a] = "none", !.evaluate[a] = "none",
                      !.live.due[a] = IF @ = Unset THEN e.wall + AttemptTimeout ELSE @]
      [] e.kind = "launch.outcome" ->
            [t EXCEPT !.live.state[a] = "running", !.pending[a] = "none", !.launch[a] = e.status]
      [] e.kind = "checkpoint.intent" -> [t EXCEPT !.pending[a] = e.kind]
      [] e.kind = "checkpoint.outcome" ->
            [t EXCEPT !.live.state[a] = "checkpointed", !.pending[a] = "none"]
      [] e.kind = "evaluate.intent" -> [t EXCEPT !.pending[a] = e.kind]
      [] e.kind = "evaluate.outcome" ->
            [t EXCEPT !.pending[a] = "none", !.evaluate[a] = e.status, !.live.evals = @ + 1]
      [] e.kind = "interrupted" ->
            [t EXCEPT !.live.state[a] = "interrupted", !.pending[a] = "none",
                      !.live.restarts[a] = e.restarts]
      [] e.kind = "terminal" -> [t EXCEPT !.live.state[a] = "ended", !.pending[a] = "none"]

Effect(s, e) ==
    LET a == e.of  t == [s EXCEPT !.live.last = e.wall] IN
    CASE e.kind = "prepared" ->
            [t EXCEPT !.live.campaign = "running", !.live.deadline = e.wall + MaxWall]
      [] e.kind = "stop_requested" -> [t EXCEPT !.live.campaign = "stopping"]
      [] e.kind = "stopped" -> [t EXCEPT !.live.campaign = "stopped"]
      [] e.kind = "submit.intent" -> [t EXCEPT !.live.state[a] = "intended", !.pending[a] = e.kind]
      [] e.kind = "submit.outcome" ->
            [t EXCEPT !.live.state[a] = "prepared", !.pending[a] = "none",
                      !.live.submitted = @ + 1, !.order = Append(@, a)]
      [] e.kind = "launch.intent" ->
            [t EXCEPT !.pending[a] = e.kind, !.launch[a] = "none", !.evaluate[a] = "none",
                      !.live.due[a] = IF @ = Unset THEN e.wall + AttemptTimeout ELSE @]
      [] e.kind = "launch.outcome" ->
            [t EXCEPT !.live.state[a] = "running", !.pending[a] = "none", !.launch[a] = e.status]
      [] e.kind = "checkpoint.intent" -> [t EXCEPT !.pending[a] = e.kind]
      [] e.kind = "checkpoint.outcome" ->
            [t EXCEPT !.live.state[a] = "checkpointed", !.pending[a] = "none"]
      [] e.kind = "evaluate.intent" -> [t EXCEPT !.pending[a] = e.kind, !.live.evals = @ + 1]
      [] e.kind = "evaluate.outcome" -> [t EXCEPT !.pending[a] = "none", !.evaluate[a] = e.status]
      [] e.kind = "interrupted" ->
            [t EXCEPT !.live.state[a] = "interrupted", !.pending[a] = "none",
                      !.live.restarts[a] = e.restarts]
      [] e.kind = "terminal" -> [t EXCEPT !.live.state[a] = "ended", !.pending[a] = "none"]

\* History: what recover() holds against the first event it refuses.  A
\* terminal other than COMPLETED after a score; a timeout that the monotonic
\* clock alone has seen; anything else.
Why(s, e) ==
    CASE e.kind = "terminal" /\ Contradicts(s, e) -> "scored"
      [] /\ e.kind = "terminal" /\ ~Contradicts(s, e) /\ e.status = "TIMED_OUT"
         /\ ~DeadlineProven(s, e) /\ ~Reported(s, e.of, "timed_out") -> "monotonic"
      [] OTHER -> "other"

Observe(s, e) ==
    IF ~s.ok THEN s
    ELSE IF Legal(s, e) THEN Effect(s, e) ELSE [s EXCEPT !.ok = FALSE, !.why = Why(s, e)]

Count(s, e) ==
    CASE e.kind = "evaluate.intent" -> [s.calls EXCEPT !.evaluate = @ + 1]
      [] e.kind = "launch.intent" -> [s.calls EXCEPT !.launch[e.of] = @ + 1]
      [] e.kind = "interrupted" /\ s.pending[e.of] = "none" /\ s.live.state[e.of] \in Active
            /\ e.restarts = s.live.restarts[e.of] -> [s.calls EXCEPT !.resume[e.of] = @ + 1]
      [] OTHER -> s.calls

Write(s, e) == [Observe(s, e) EXCEPT !.calls = Count(s, e)]

\* recover() raises, for good.
Refused == ~up /\ ~durable.ok

-----------------------------------------------------------------------------
(* Live operation.  A turn is what one handler does between two awaits: it *)
(* starts from the memory of the instance and collects the events it emits.*)

Turn == [m |-> mem, pc |-> pc, queue |-> queue, es |-> <<>>]

Event(kind, a) == [kind |-> kind, of |-> a, status |-> "none", restarts |-> 0,
                   evals |-> 0, seconds |-> 0, wall |-> wall]

Emit(t, e) == [t EXCEPT !.es = Append(@, e)]

Down ==
    /\ up' = FALSE /\ mem' = Fresh /\ queue' = <<>> /\ pc' = Each("idle")
    /\ mono' = 0 /\ started' = Each(Unset)

\* What replay makes of the journal once the events es are durable.
Replayed(es) == FoldLeft(Write, durable, es)

\* The turn t is over, every append acknowledged.
Durable(t) ==
    /\ wall >= mem.last
    /\ durable' = Replayed(t.es)
    /\ mem' = [t.m EXCEPT !.last = wall] /\ pc' = t.pc /\ queue' = t.queue
    /\ up' = TRUE
    /\ UNCHANGED <<wall, setbacks, crashes>>

\* A prefix of the turn is durable, and the instance is gone or poisoned.
Lost(t) ==
    /\ wall >= mem.last /\ crashes < MaxCrashes
    /\ \E n \in 1 .. Len(t.es) - 1 : durable' = Replayed(SubSeq(t.es, 1, n))
    /\ crashes' = crashes + 1
    /\ Down /\ UNCHANGED <<wall, setbacks>>

Take(t) ==
    \/ Durable(t) /\ UNCHANGED <<mono, started>>
    \/ Lost(t)

OutcomeOf(status) ==
    CASE status = "crashed" -> "CRASHED" [] status = "worker_error" -> "WORKER_ERROR"
      [] status = "evaluator_error" -> "EVALUATOR_ERROR" [] status = "timed_out" -> "TIMED_OUT"
      [] status = "cancelled" -> "CANCELLED"

\* Exactly one terminal, with the receipt of the resources used.
Finalize(t, a, outcome) ==
    Emit([t EXCEPT !.m.state[a] = "ended", !.pc[a] = "idle"],
         [Event("terminal", a) EXCEPT !.status = outcome, !.evals = t.m.evals,
              !.restarts = t.m.restarts[a], !.seconds = Elapsed(t.m, a, wall)])

Interrupt(t, a, charge) ==
    LET n == t.m.restarts[a] + charge
    IN  Emit([t EXCEPT !.m.state[a] = "interrupted", !.m.restarts[a] = n],
             [Event("interrupted", a) EXCEPT !.restarts = n])

MaybeRetry(t, a, status) ==
    IF t.m.restarts[a] >= MaxRestarts THEN Finalize(t, a, OutcomeOf(status))
    ELSE [Interrupt(t, a, 1) EXCEPT !.pc[a] = "waiting"]

CampaignOver == wall >= mem.deadline \/ mono >= MaxWall
AttemptOver(a) ==
    mem.due[a] # Unset /\ (wall >= mem.due[a]
                           \/ (started[a] # Unset /\ mono - started[a] >= AttemptTimeout))

Evaluate(t, a) ==
    IF t.m.evals >= MaxEvaluations THEN Finalize(t, a, "FAILED")
    ELSE IF CampaignOver \/ AttemptOver(a) THEN Finalize(t, a, "TIMED_OUT")
    ELSE Emit([t EXCEPT !.m.evals = @ + 1, !.pc[a] = "evaluating"], Event("evaluate.intent", a))

-----------------------------------------------------------------------------
Init ==
    /\ durable = Blank /\ wall = 0 /\ setbacks = 0 /\ crashes = 0
    /\ up = FALSE /\ mem = Fresh /\ queue = <<>> /\ pc = Each("idle")
    /\ mono = 0 /\ started = Each(Unset)

Prepare ==
    /\ ~up /\ durable = Blank
    /\ Durable(Emit([Turn EXCEPT !.m.campaign = "running", !.m.deadline = wall + MaxWall],
                    Event("prepared", NoAttempt)))
    /\ UNCHANGED <<mono, started>>

Submit(a) ==
    /\ up /\ mem.campaign = "running"
    /\ mem.state[a] = "none" /\ mem.submitted < MaxAttempts
    /\ Take(Emit(Emit([Turn EXCEPT !.m.submitted = @ + 1, !.m.state[a] = "prepared",
                                   !.queue = Append(@, a)],
                      Event("submit.intent", a)), Event("submit.outcome", a)))

\* One task for every queued attempt.
RunAvailable ==
    /\ up /\ mem.campaign = "running" /\ queue # <<>>
    /\ pc' = [a \in Attempts |-> IF a \in Range(queue) THEN "waiting" ELSE pc[a]]
    /\ queue' = <<>>
    /\ UNCHANGED <<durable, wall, up, mem, mono, started, setbacks, crashes>>

InFlight == {a \in Attempts : pc[a] \in {"executing", "evaluating"}}

\* The deadline is anchored by the first launch, the monotonic bound by the
\* first of this instance.
LaunchNow(a) ==
    /\ Durable(Emit([Turn EXCEPT !.pc[a] = "executing",
                                 !.m.due[a] = IF @ = Unset THEN wall + AttemptTimeout ELSE @],
                    Event("launch.intent", a)))
    /\ started' = [started EXCEPT ![a] = IF @ = Unset THEN mono ELSE @]
    /\ UNCHANGED mono

\* The semaphore is acquired.
Launch(a) ==
    /\ up /\ pc[a] = "waiting" /\ Cardinality(InFlight) < MaxConcurrency
    /\ \/ mem.campaign # "running" /\ Take(Finalize(Turn, a, "CANCELLED"))
       \/ /\ mem.campaign = "running" /\ (CampaignOver \/ AttemptOver(a))
          /\ Take(Finalize(Turn, a, "TIMED_OUT"))
       \/ /\ mem.campaign = "running" /\ ~CampaignOver /\ ~AttemptOver(a)
          /\ LaunchNow(a)

Checkpointed(t, a) ==
    Emit(Emit([t EXCEPT !.m.state[a] = "checkpointed"],
              Event("checkpoint.intent", a)), Event("checkpoint.outcome", a))

ExecutorReturns(a, status) ==
    LET t == Emit([Turn EXCEPT !.m.state[a] = "running"],
                  [Event("launch.outcome", a) EXCEPT !.status = status])
    IN  /\ up /\ pc[a] = "executing"
        /\ Take(IF status = "completed" THEN Evaluate(Checkpointed(t, a), a)
                ELSE MaybeRetry(t, a, status))

EvaluatorReturns(a, status) ==
    LET t == Emit(Turn, [Event("evaluate.outcome", a) EXCEPT !.status = status])
    IN  /\ up /\ pc[a] = "evaluating"
        /\ Take(IF status = "completed" THEN Finalize(t, a, "COMPLETED")
                ELSE MaybeRetry(t, a, status))

Cancel(t, a) == Finalize(t, a, "CANCELLED")

Stopping ==
    FoldLeft(Cancel, Emit([Turn EXCEPT !.m.campaign = "stopping", !.queue = <<>>],
                          Event("stop_requested", NoAttempt)), queue)

RequestStop == up /\ mem.campaign = "running" /\ Take(Stopping)

FinishStop ==
    /\ up /\ mem.campaign = "stopping"
    /\ Take(Emit([Turn EXCEPT !.m.campaign = "stopped"], Event("stopped", NoAttempt)))

-----------------------------------------------------------------------------
(* recover(): what the journal leaves open is resolved, attempt by attempt *)
(* in the order of submission; then the submissions with no outcome.       *)

Requeue(t, a) == [t EXCEPT !.queue = Append(@, a)]

\* Mutant: only a crash of the last instance is queued again.
ResolveForgets(t, a, pending) ==
    IF t.m.state[a] \notin Unfinished THEN t
    ELSE IF t.m.campaign # "running" THEN Finalize(t, a, "CANCELLED")
    ELSE IF pending = "none" /\ t.m.state[a] = "interrupted" THEN t
    ELSE IF pending = "none" /\ t.m.state[a] \in Active THEN Requeue(Interrupt(t, a, 0), a)
    ELSE IF t.m.restarts[a] >= MaxRestarts THEN Finalize(t, a, "FAILED")
    ELSE Requeue(Interrupt(t, a, 1), a)

\* An attempt is resumed free of charge only where nothing was in flight.
Resolve(t, a, pending) ==
    IF t.m.state[a] \notin Unfinished THEN t
    ELSE IF t.m.campaign # "running" THEN Finalize(t, a, "CANCELLED")
    ELSE IF pending = "none" /\ t.m.state[a] = "interrupted" THEN Requeue(t, a)
    ELSE IF pending = "none" /\ t.m.state[a] \in Active THEN Requeue(Interrupt(t, a, 0), a)
    ELSE IF t.m.restarts[a] >= MaxRestarts THEN Finalize(t, a, "FAILED")
    ELSE Requeue(Interrupt(t, a, 1), a)

Omit(t, a) == IF t.m.state[a] = "intended" THEN Finalize(t, a, "OMITTED") ELSE t

ResolvePending(t, a) == Resolve(t, a, durable.pending[a])

Resolved ==
    FoldLeft(Omit, FoldLeft(ResolvePending, [Turn EXCEPT !.m = durable.live], durable.order),
             SetToSeq(Attempts))

Recover ==
    /\ ~up /\ durable.ok /\ durable.live.campaign # "prepared"
    /\ wall >= durable.live.last
    /\ Take(Resolved)

Crash ==
    /\ up /\ crashes < MaxCrashes
    /\ crashes' = crashes + 1
    /\ Down /\ UNCHANGED <<durable, wall, setbacks>>

\* The clock reads behind its last accepted reading: the instance is poisoned.
RolledBack ==
    /\ up /\ wall < mem.last
    /\ Down /\ UNCHANGED <<durable, wall, setbacks, crashes>>

Tick ==
    /\ wall < MaxTime
    /\ wall' = wall + 1 /\ mono' = IF up THEN mono + 1 ELSE 0
    /\ UNCHANGED <<durable, up, mem, queue, pc, started, setbacks, crashes>>

SetBack ==
    /\ wall > 0 /\ setbacks < MaxSetbacks
    /\ wall' = wall - 1 /\ setbacks' = setbacks + 1
    /\ UNCHANGED <<durable, up, mem, queue, pc, mono, started, crashes>>

Next ==
    \/ Prepare \/ RunAvailable \/ RequestStop \/ FinishStop
    \/ Recover \/ Crash \/ RolledBack \/ Tick \/ SetBack
    \/ \E a \in Attempts :
          \/ Submit(a) \/ Launch(a)
          \/ \E status \in ExecStatuses : ExecutorReturns(a, status)
          \/ \E status \in EvalStatuses : EvaluatorReturns(a, status)

Spec == Init /\ [][Next]_vars

\* The steps that Recover, and Launch, ExecutorReturns and EvaluatorReturns
\* take: named by what they change, which TLC can tell enabled at little cost.
Recovers == ~up /\ durable.ok /\ durable.live.campaign # "prepared" /\ wall >= durable.live.last /\ up' = TRUE
Moves(a) ==
    /\ up /\ wall >= mem.last /\ pc[a] # "idle"
    /\ pc[a] = "waiting" => Cardinality(InFlight) < MaxConcurrency
    /\ pc' \in [Attempts -> {"idle", "waiting", "executing", "evaluating"}] /\ pc'[a] # pc[a]

\* What a caller that keeps the supervisor running provides: it restarts and
\* recovers, calls run_available, both ports answer or wait_for answers for
\* them, and the clock moves on.
FairSpec ==
    /\ Spec
    /\ WF_up(Recovers) /\ WF_vars(RolledBack) /\ WF_vars(RunAvailable) /\ WF_vars(Tick)
    /\ \A a \in Attempts : WF_pc(Moves(a))

-----------------------------------------------------------------------------
(* Properties.                                                             *)

\* A fresh process that replays the journal would know what the live instance
\* knows, at every await, as long as the journal replays at all.
LiveIsReplay ==
    up /\ durable.ok =>
        /\ [durable.live EXCEPT !.last = mem.last] = mem
        /\ \A a \in Attempts : durable.pending[a] =
              IF pc[a] = "executing" THEN "launch.intent"
              ELSE IF pc[a] = "evaluating" THEN "evaluate.intent" ELSE "none"

\* Whatever the crashes, the evaluator is called at most max_evaluations
\* times, and the executor once per attempt, once per restart of its budget
\* and once per resume of an attempt that had nothing in flight.
BudgetsSurviveCrashes ==
    /\ durable.calls.evaluate <= MaxEvaluations
    /\ \A a \in Attempts :
          durable.calls.launch[a] <= 1 + MaxRestarts + durable.calls.resume[a]

\* What a dead instance knew and what it spent are known to the next one.
NothingIsForgotten == LiveIsReplay /\ BudgetsSurviveCrashes

\* recover() takes every journal the supervisor wrote, but for a terminal after
\* a score that recovery has put aside, and a timeout no wall clock shows.
HonestJournalsReplay == durable.why # "other"

\* An accepted submission ends in exactly one terminal, or the journal is
\* one that recover() refuses.
EverySubmissionEnds ==
    \A a \in Attempts :
        durable.live.state[a] = "prepared" ~> durable.live.state[a] = "ended" \/ ~durable.ok
=============================================================================
