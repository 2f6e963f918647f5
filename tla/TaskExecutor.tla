---------------------------- MODULE TaskExecutor ----------------------------
(***************************************************************************)
(* TaskExecutor.execute (core/executor.py): route, authorize, run, verify, *)
(* charge, then retry or escalate, for tasks that share one Router         *)
(* (routing/router.py), one WorkerRegistry, one CapabilityMatrix and one   *)
(* Budget (core/budget.py) on an asyncio loop.                             *)
(*                                                                         *)
(* A step runs from one await to the next: the hint load, the worker call, *)
(* the execution verifier and the judge are the places where other tasks   *)
(* and the operator interleave.  What a worker hands back is reduced to    *)
(* the cause of the verdict it gets.                                       *)
(***************************************************************************)
EXTENDS Integers, Sequences, FiniteSets

CONSTANTS
    Tasks, Workers, NoWorker,
    Pools,           \* per tier, small to frontier: its runners in order
    Fit,             \* per task: workers with its role, type, capabilities
    Pin,             \* per task: the hard-pinned worker or NoWorker
    Floor,           \* per task: the tier hint
    Checkable,       \* tasks with a success_check
    CodeEdits,       \* tasks whose signed workspace is executed
    Prior,           \* per tier: expected pass rate, in percent
    Threshold,       \* in percent
    Smoothing,
    EstCost,         \* per tier: TIER_EST_COST
    CostCap,         \* the budget's ceiling
    Charges,         \* what one call may charge
    Causes,          \* outcomes of a worker call that this instance explores
    Judging,         \* TRUE: a rubric judge is wired
    Denying,         \* TRUE: the token issuer may refuse a fresh token
    MaxAttempts,     \* Task.max_attempts
    Window,          \* PlateauDetector.window
    MaxRetirements   \* bound: operator changes to the registry

Tiers == 1..3   \* TIER_ORDER

\* Why a verdict was given; Verdict maps it to the enum.
AllCauses == {"pass", "fail", "schema", "error", "timeout", "contract",
              "authenticity", "budget", "none"}

Verdict(cause) ==
    CASE cause = "pass" -> "PASS" [] cause = "none" -> "UNVERIFIED" [] OTHER -> "FAIL"

ASSUME TaskExecutorAssumption ==
    /\ IsFiniteSet(Tasks) /\ NoWorker \notin Workers
    /\ Pools \in [Tiers -> Seq(Workers)] /\ \E i \in Tiers : Pools[i] # <<>>
    /\ Fit \in [Tasks -> SUBSET Workers]
    /\ Pin \in [Tasks -> Workers \cup {NoWorker}]
    /\ Floor \in [Tasks -> Tiers]
    /\ Checkable \subseteq Tasks /\ CodeEdits \subseteq Tasks
    /\ Prior \in [Tiers -> Nat] /\ EstCost \in [Tiers -> Nat]
    /\ {Threshold, Smoothing, CostCap, MaxAttempts, Window, MaxRetirements} \subseteq Nat
    /\ Charges \subseteq Nat /\ Causes \subseteq AllCauses
    /\ {Judging, Denying} \subseteq BOOLEAN

VARIABLES
    active,      \* workers the registry holds as active
    matrix,      \* CapabilityMatrix: passes and samples per worker's model
    spent,       \* Budget.spent_*
    task,        \* what each execute() call holds
    retirements

vars == <<active, matrix, spent, task, retirements>>

\* An attempt of a TaskOutcome; cut: the charge for it broke the ceiling.
Attempt == [tier : Tiers, worker : Workers, explored : BOOLEAN,
            cause : AllCauses, cut : BOOLEAN, cost : Nat]

Fresh == [pc |-> "idle", n |-> 0, tier |-> 0, worker |-> NoWorker,
          explored |-> FALSE, cause |-> "none", cost |-> 0, hinted |-> FALSE,
          excluded |-> {}, retried |-> {}, forced |-> 0, attempts |-> <<>>,
          verdict |-> "UNVERIFIED", escalations |-> 0,
          aborted |-> FALSE, denied |-> FALSE, observed |-> FALSE]

Init ==
    /\ active = Workers
    /\ matrix = [w \in Workers |-> [passed |-> 0, total |-> 0]]
    /\ spent = 0
    /\ task = [t \in Tasks |-> Fresh]
    /\ retirements = 0

-----------------------------------------------------------------------------
(* The router.  m is the capability matrix it reads, b the money spent.    *)

EligibleMembers(t, i) ==
    SelectSeq(Pools[i], LAMBDA w : /\ w \in active /\ w \in Fit[t]
                                   /\ Pin[t] \in {w, NoWorker} /\ Floor[t] <= i)

\* pass_rate(w) in percent is RateOf(...) / SamplesOf(...).
RateOf(m, w, i) == 100 * m[w].passed + Smoothing * Prior[i]
SamplesOf(m, w) == m[w].total + Smoothing

Clears(m, w, i) == RateOf(m, w, i) >= Threshold * SamplesOf(m, w)

\* w is the earliest runner of seq that no other beats, by the given order.
IsFirst(w, seq, Beats(_, _)) ==
    \E k \in DOMAIN seq :
        /\ seq[k] = w
        /\ \A j \in DOMAIN seq : ~Beats(seq[j], w)
        /\ \A j \in 1..(k - 1) : \E l \in DOMAIN seq : Beats(seq[l], seq[j])

IsBest(w, t, i, m) ==
    IsFirst(w, EligibleMembers(t, i),
            LAMBDA u, v : RateOf(m, u, i) * SamplesOf(m, v) > RateOf(m, v, i) * SamplesOf(m, u))

\* The least sampled of the members that are not the best one.
IsBenched(w, t, i, m) ==
    IsFirst(w, SelectSeq(EligibleMembers(t, i), LAMBDA v : ~IsBest(v, t, i, m)),
            LAMBDA u, v : m[u].total < m[v].total)

Decision == [tier : Tiers, worker : Workers, explored : BOOLEAN]

\* pick_member: the best member, or an explored one when a check can tell.
Pick(t, i, m) ==
    {d \in Decision : /\ d.tier = i
                      /\ IF d.explored THEN t \in Checkable /\ IsBenched(d.worker, t, i, m)
                                       ELSE IsBest(d.worker, t, i, m)}

Least(S) == CHOOSE x \in S : \A y \in S : x <= y
Greatest(S) == CHOOSE x \in S : \A y \in S : y <= x

Candidates(t, exclude) == {i \in Tiers \ exclude : EligibleMembers(t, i) # <<>>}

\* Tiers decide() chooses from: affordable ones, else the cheapest.
InReach(t, exclude, b) ==
    LET all == Candidates(t, exclude)
        affordable == {i \in all : b + EstCost[i] <= CostCap \/ EstCost[i] = 0}
    IN  IF affordable # {} THEN affordable ELSE {Least(all)}

\* The decisions Router.decide may return; none when it raises ValueError.
Decisions(t, exclude, m, b) ==
    LET all == Candidates(t, exclude)
        reach == InReach(t, exclude, b)
        clearing == {i \in reach : \E k \in DOMAIN EligibleMembers(t, i) :
                                        Clears(m, EligibleMembers(t, i)[k], i)}
    IN  CASE all = {} -> {}
          [] all # {} /\ Pin[t] # NoWorker ->
                {d \in Decision : /\ all = {d.tier} /\ EligibleMembers(t, d.tier) = <<Pin[t]>>
                                  /\ d.worker = Pin[t] /\ ~d.explored}
          [] OTHER -> Pick(t, IF clearing # {} THEN Least(clearing) ELSE Greatest(reach), m)

\* next_tier: the next tier up with a pool, 0 at the top.
NextTier(i) ==
    LET up == {j \in Tiers : j > i /\ Pools[j] # <<>>}
    IN  IF up = {} THEN 0 ELSE Least(up)

\* One-shot retry of a timed-out tier: every other tier is excluded.
Exclusions(r) == IF r.forced = 0 THEN r.excluded ELSE r.excluded \cup (Tiers \ {r.forced})

-----------------------------------------------------------------------------
(* One execute() call.  r is its record as the synchronous code between    *)
(* two awaits has left it.                                                 *)

\* Mutant: the last attempt's verdict is not carried to the task.
ClosedAsIs(r) == [r EXCEPT !.pc = "done", !.observed = ~(r.denied /\ r.attempts = <<>>)]

\* The tail of execute(): the last attempt's verdict is the task's.
Closed(r) ==
    [r EXCEPT !.pc = "done",
              !.verdict = IF r.verdict # "PASS" /\ r.attempts # <<>>
                          THEN Verdict(r.attempts[Len(r.attempts)].cause) ELSE r.verdict,
              !.observed = ~(r.denied /\ r.attempts = <<>>)]

Finish(t, r) == task' = [task EXCEPT ![t] = Closed(r)]

\* Another attempt is allowed.
AttemptsLeft(r) == r.n < MaxAttempts

\* Top of the attempt loop, up to the next await.
Proceed(t, r, m, b) ==
    LET options == Decisions(t, Exclusions(r), m, b) IN
    \/ /\ ~AttemptsLeft(r)
       /\ Finish(t, r)
    \/ /\ AttemptsLeft(r) /\ options = {}
       /\ Finish(t, [r EXCEPT !.forced = 0, !.aborted = TRUE, !.verdict = "FAIL"])
    \/ /\ AttemptsLeft(r) /\ Denying /\ options # {}
       /\ Finish(t, [r EXCEPT !.forced = 0, !.denied = TRUE, !.verdict = "FAIL"])
    \/ /\ AttemptsLeft(r)
       /\ \E d \in options :
            task' = [task EXCEPT ![t] =
                [r EXCEPT !.pc = IF r.hinted THEN "running" ELSE "hinting",
                          !.n = r.n + 1, !.forced = 0, !.tier = d.tier,
                          !.worker = d.worker, !.explored = d.explored]]

\* Mutant: the escalation is counted, the tier is not excluded.
CountOnly(r) == [r EXCEPT !.escalations = r.escalations + 1]

Leave(r) ==
    [r EXCEPT !.excluded = r.excluded \cup {r.tier}, !.escalations = r.escalations + 1]

\* How a failed attempt changes the next route.
Escalated(t, r, cause) ==
    CASE Pin[t] # NoWorker -> r
      [] Pin[t] = NoWorker /\ cause = "timeout" /\ r.tier \notin r.retried ->
            [r EXCEPT !.retried = r.retried \cup {r.tier},
                      !.forced = IF r.n < MaxAttempts THEN r.tier ELSE 0]
      [] Pin[t] = NoWorker /\ cause = "timeout" /\ r.tier \in r.retried ->
            IF r.n < MaxAttempts /\ NextTier(r.tier) # 0 THEN Leave(r) ELSE r
      [] OTHER -> IF ~r.explored /\ NextTier(r.tier) # 0 THEN Leave(r) ELSE r

\* A failed attempt scores 0, so the window of scores is flat once it is full.
Plateaued(r) == r.n >= Window + 1

Appended(r, cause, cut) ==
    [r EXCEPT !.attempts = Append(r.attempts,
        [tier |-> r.tier, worker |-> r.worker, explored |-> r.explored,
         cause |-> cause, cut |-> cut, cost |-> r.cost])]

\* A charge broke the ceiling: the attempt is appended and the loop stops.
Cut(t, r, cause) == Finish(t, Appended(r, cause, TRUE)) /\ UNCHANGED matrix

\* Mutant: a timeout counts against the model.
BankedTimeouts(cause) == cause \in {"pass", "fail", "schema", "error", "timeout"}

\* Verdicts that say something about the model's skill.
Banked(cause) == cause \in {"pass", "fail", "schema", "error"}

Learned(r, cause) ==
    IF Banked(cause)
    THEN [matrix EXCEPT ![r.worker] =
            [passed |-> @.passed + (IF cause = "pass" THEN 1 ELSE 0),
             total |-> @.total + 1]]
    ELSE matrix

\* An attempt has its verdict: bank it, append it, stop or go round again.
Settle(t, r, cause, b) ==
    LET a == Appended(r, cause, FALSE)
    IN  /\ matrix' = Learned(r, cause)
        /\ \/ /\ Verdict(cause) # "FAIL"
              /\ Finish(t, [a EXCEPT !.verdict = Verdict(cause)])
           \/ /\ cause = "contract"
              /\ Finish(t, a)
           \/ /\ Verdict(cause) = "FAIL" /\ cause # "contract"
              /\ IF Plateaued(a)
                 THEN Finish(t, Escalated(t, a, cause))
                 ELSE Proceed(t, Escalated(t, a, cause), matrix', b)

\* No deterministic verdict: ask the judge, when there is one.
JudgeOrSettle(t, r, cause, b) ==
    IF cause = "none" /\ Judging
    THEN /\ task' = [task EXCEPT ![t] = [r EXCEPT !.pc = "judging"]]
         /\ UNCHANGED matrix
    ELSE Settle(t, r, cause, b)

Begin(t) ==
    /\ task[t].pc = "idle"
    /\ Proceed(t, task[t], matrix, spent)
    /\ UNCHANGED <<active, matrix, spent, retirements>>

\* playbook_hints, off the loop, once and only after a successful check.
LoadHints(t) ==
    /\ task[t].pc = "hinting"
    /\ task' = [task EXCEPT ![t].pc = "running", ![t].hinted = TRUE]
    /\ UNCHANGED <<active, matrix, spent, retirements>>

\* verify_result, then verify_output, on what the worker's call returned.
CauseOf(t, r, outcome) ==
    CASE outcome = "authenticity" \/ r.worker \notin active -> "authenticity"
      [] outcome \in {"pass", "fail"} /\ r.worker \in active /\ t \notin Checkable -> "none"
      [] OTHER -> outcome

Malfunction(cause) == cause \in {"authenticity", "error", "timeout", "contract"}

\* The worker's call returns: verify, charge, then the stronger verifiers.
Return(t) ==
    \E outcome \in Causes \ {"budget"}, c \in Charges :
        LET cause == CauseOf(t, task[t], outcome)
            r == [task[t] EXCEPT !.cost = c]
        IN  /\ task[t].pc = "running"
            /\ spent' = spent + c
            /\ IF spent' > CostCap
               THEN Cut(t, r, IF Malfunction(cause) THEN cause ELSE "budget")
               ELSE IF t \in CodeEdits /\ ~Malfunction(cause) /\ cause # "schema"
               THEN /\ task' = [task EXCEPT ![t] = [r EXCEPT !.pc = "executing", !.cause = cause]]
                    /\ UNCHANGED matrix
               ELSE JudgeOrSettle(t, r, cause, spent')
            /\ UNCHANGED <<active, retirements>>

\* The sandboxed tests return a verdict, or nothing ("none": keep the first).
Execute(t) ==
    \E found \in {"none", "pass", "fail", "timeout"}, c \in Charges :
        LET r == task[t]
        IN  /\ r.pc = "executing"
            /\ spent' = spent + c
            /\ IF spent' > CostCap
               THEN Cut(t, r, "budget")
               ELSE JudgeOrSettle(t, r, IF found = "none" THEN r.cause ELSE found, spent')
            /\ UNCHANGED <<active, retirements>>

\* The judge charges its own call; "none": unavailable, unparseable or broken.
Judge(t) ==
    \E found \in {"none", "pass", "fail"}, c \in Charges :
        LET r == task[t]
        IN  /\ r.pc = "judging"
            /\ spent' = spent + c
            /\ IF spent' > CostCap THEN Cut(t, r, "budget") ELSE Settle(t, r, found, spent')
            /\ UNCHANGED <<active, retirements>>

\* registry.deactivate and reactivate, called by the operator at any time.
Retire(w) ==
    /\ w \in active /\ retirements < MaxRetirements
    /\ active' = active \ {w} /\ retirements' = retirements + 1
    /\ UNCHANGED <<matrix, spent, task>>

Reactivate(w) ==
    /\ w \in Workers \ active
    /\ active' = active \cup {w}
    /\ UNCHANGED <<matrix, spent, task, retirements>>

\* Mutant: the judge's answer is never awaited.
StepUnjudged(t) == Begin(t) \/ LoadHints(t) \/ Return(t) \/ Execute(t)

Step(t) == Begin(t) \/ LoadHints(t) \/ Return(t) \/ Execute(t) \/ Judge(t)

Next == (\E t \in Tasks : Step(t)) \/ (\E w \in Workers : Retire(w) \/ Reactivate(w))

Spec == Init /\ [][Next]_vars

\* Every await of an execute() call comes back: runners, verifiers and the
\* judge have timeouts, and the event loop runs every ready task.
FairSpec == Spec /\ \A t \in Tasks : WF_vars(Step(t))

-----------------------------------------------------------------------------

Attempts(t) == task[t].attempts

\* A finished task never reports less than what happened: a task that made
\* no attempt failed, and otherwise its verdict is the last attempt's.
VerdictIsEarned ==
    \A t \in DOMAIN task : task[t].pc = "done" =>
        task[t].verdict = IF Attempts(t) = <<>> THEN "FAIL"
                          ELSE Verdict(Attempts(t)[Len(Attempts(t))].cause)

\* The attempts of a worker that say something about its skill.
IsSkill(a, w) ==
    /\ a.worker = w /\ ~a.cut
    /\ a.cause \notin {"timeout", "contract", "authenticity", "budget", "none"}

SkillVerdicts(w) ==
    UNION {{t} \X {k \in DOMAIN Attempts(t) : IsSkill(Attempts(t)[k], w)} : t \in DOMAIN task}

\* The capability matrix holds one sample per attempt that says something
\* about skill, whichever tasks interleaved: no timeout, unsigned result,
\* contract violation, judge refusal or budget stop is ever banked.
EvidenceIsSkill ==
    \A w \in DOMAIN matrix :
        /\ matrix[w].total = Cardinality(SkillVerdicts(w))
        /\ matrix[w].passed = Cardinality({p \in SkillVerdicts(w) :
                                Attempts(p[1])[p[2]].cause = "pass"})

\* A task stays on a tier it failed on only for a reason: the failure was an
\* explored member's, it was the tier's first timeout, or there is no tier
\* above.  Anything else would spend attempts on a tier already refuted.
NoIdleRetry ==
    \A t \in Tasks : Pin[t] = NoWorker =>
        \A i, j \in DOMAIN Attempts(t) :
            LET a == Attempts(t)[i] IN
            /\ i < j /\ a.tier = Attempts(t)[j].tier
            /\ \E up \in Tiers : up > a.tier /\ Pools[up] # <<>>
            => IF a.cause = "timeout"
               THEN \A k \in 1..(i - 1) :
                        Attempts(t)[k].tier = a.tier => Attempts(t)[k].cause # "timeout"
               ELSE a.explored

\* Every task gets an outcome, however the attempts go.
EveryTaskSettles == \A t \in Tasks : <>(task[t].pc = "done")
=============================================================================
