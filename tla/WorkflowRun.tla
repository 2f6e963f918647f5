----------------------------- MODULE WorkflowRun -----------------------------
(***************************************************************************)
(* One durable workflow run: the step loop of WorkflowEngine.advance, the  *)
(* human approval gates, archive/restore and the outer failure handler of  *)
(* the web service (workflows/engine.py, web/app.py), over the append-only *)
(* journal and its cross-process sidecar lock (workflows/journal.py).      *)
(*                                                                         *)
(* Several processes share the journal file.  A process in Services is a   *)
(* web service: it advances runs in the background, journals an unexpected *)
(* failure of such an advance, and on boot advances the runs it finds      *)
(* "running".  The other processes are command-line invocations.  A        *)
(* process may crash between any two journal appends and boot again.       *)
(*                                                                         *)
(* The unit of atomicity is one fsynced journal append, with the memory    *)
(* updates that run next to it: an advance has no other await than the     *)
(* lock acquisition and the executor call.                                 *)
(***************************************************************************)
EXTENDS Integers, Sequences, FiniteSets

CONSTANTS
    Procs,           \* processes that may load the run
    Services,        \* those of them that run the web service
    Steps,           \* step ids
    Outputs,         \* step outputs the conditions can tell apart
    Flows,           \* workflows a run may be started with
    MaxAttempts,     \* bound: attempts of one executor call
    MaxCrashes,      \* bound: process crashes
    MaxWriteErrors,  \* bound: journal appends that raise OSError
    MaxRequests,     \* bound: requests from clients
    TornWrites,      \* TRUE: a failed append may leave a partial record
    NoProc, NoStep, NoOut

StepSpec ==
    [deps : SUBSET Steps, gate : {"none", "before", "after"},
     toolGate : BOOLEAN, tools : BOOLEAN,
     refs : SUBSET [step : Steps, readable : SUBSET Outputs],
     src : Steps \cup {NoStep}, accepts : SUBSET Outputs]

\* Positions in the order the step loop visits the steps.
Before(f, t, s) ==
    \E i, k \in DOMAIN f.order : i < k /\ f.order[i] = t /\ f.order[k] = s

\* What WorkflowSpec validation and topological_order establish.
WellFormed(f) ==
    /\ f.order \in Seq(Steps)
    /\ f.step \in [Steps -> StepSpec]
    /\ Len(f.order) = Cardinality(Steps)
    /\ \A s \in Steps :
        /\ \E i \in DOMAIN f.order : f.order[i] = s
        /\ \A t \in f.step[s].deps : Before(f, t, s)
        /\ f.step[s].src # NoStep => f.step[s].src \in f.step[s].deps
        /\ f.step[s].toolGate => f.step[s].tools

ASSUME ProcsAssumption == Services \subseteq Procs /\ NoProc \notin Procs
ASSUME StepsAssumption == NoStep \notin Steps /\ NoOut \notin Outputs
ASSUME FlowsAssumption == \A f \in Flows : WellFormed(f)
ASSUME BoundsAssumption ==
    /\ {MaxAttempts, MaxCrashes, MaxWriteErrors, MaxRequests} \subseteq Nat
    /\ TornWrites \in BOOLEAN

VARIABLES
    flow,       \* the workflow recorded in run.started
    journal,    \* complete records of the journal file
    torn,       \* the file also holds a partial record: it cannot be loaded
    archived,   \* the .archive.json file exists
    lock,       \* holder of the sidecar flock
    up,         \* processes that are running
    known,      \* processes with the run in _runs
    pc,         \* where the process is with the run's asyncio lock
    op,         \* the operation that holds it
    queue,      \* operations waiting for it
    mem,        \* the process's RunState
    seen,       \* how many records the process's Journal has in memory
    task,       \* the executor call in progress
    crashes, writeErrors, requests

shared == <<flow, journal, torn, archived, lock>>
local == <<up, known, pc, op, queue, mem, seen, task>>
bounds == <<crashes, writeErrors, requests>>
vars == <<shared, local, bounds>>

-----------------------------------------------------------------------------
(* Journal records and the state they stand for.                           *)

StepTerminals == {"step.completed", "step.failed", "step.skipped"}
RunTerminals == {"run.completed", "run.failed"}
\* "context.manifest" stands for what the executor's event sink writes besides
\* the attempts; the replay looks at none of it, and only one whose append raises
\* is modelled (SinkRaises).
Kinds == StepTerminals \cup RunTerminals \cup
    {"run.started", "step.ready", "step.started", "attempt.assigned", "context.manifest",
     "approval.required", "approval.resolved"}
Decisions == {"approved", "rejected"}
Statuses == {"running", "awaiting_approval", "completed", "failed"}

\* A completion carries the step's output, a resolution the decision; `raised`
\* (history) marks the record whose append raised although it is whole.
Event ==
    {e \in [seq : Nat, kind : Kinds, step : Steps \cup {NoStep},
            out : Outputs \cup Decisions \cup {NoOut}, n : Nat, raised : BOOLEAN] :
        /\ e.kind = "step.completed" => e.step \in Steps /\ e.out \in Outputs
        /\ e.kind = "approval.resolved" => e.step \in Steps /\ e.out \in Decisions}

\* The steps named by the records of one kind.
Named(j, kind) == {s \in Steps : \E i \in DOMAIN j : j[i].kind = kind /\ j[i].step = s}

\* The steps whose gate was resolved that way.
Decided(j, decision) ==
    {s \in Steps : \E i \in DOMAIN j :
        j[i].kind = "approval.resolved" /\ j[i].step = s /\ j[i].out = decision}

\* The last record of j whose kind is in K, when there is one.
IsLast(j, K, i) ==
    /\ i \in DOMAIN j
    /\ j[i].kind \in K
    /\ \A k \in DOMAIN j : k > i => j[k].kind \notin K

\* _load_into_self refuses the file: a truncated record, or a number that is not
\* the record's place.
Unreadable == torn \/ \E i \in DOMAIN journal : journal[i].seq # i - 1

Terminal(j) == \E i \in DOMAIN j : j[i].kind \in RunTerminals

\* The run status a record of that kind leaves behind.
StatusAfter(kind) ==
    CASE kind = "approval.required"             -> "awaiting_approval"
      [] kind = "run.completed"                 -> "completed"
      [] kind \in {"step.failed", "run.failed"} -> "failed"
      [] OTHER                                  -> "running"

StatusKinds == {"step.failed", "approval.required", "approval.resolved"} \cup RunTerminals
GateKinds == {"approval.required", "approval.resolved"}

ReplayStatus(j) ==
    IF \E i \in DOMAIN j : IsLast(j, StatusKinds, i)
    THEN StatusAfter(j[CHOOSE i \in DOMAIN j : IsLast(j, StatusKinds, i)].kind)
    ELSE "running"

\* The step whose gate request is still open.
ReplayAwaiting(j) ==
    IF \E i \in DOMAIN j : IsLast(j, GateKinds, i) /\ j[i].kind = "approval.required"
    THEN j[CHOOSE i \in DOMAIN j : IsLast(j, GateKinds, i)].step
    ELSE NoStep

ReplayOutput(j, s) ==
    IF s \in Named(j, "step.completed")
    THEN j[CHOOSE i \in DOMAIN j : j[i].kind = "step.completed" /\ j[i].step = s].out
    ELSE NoOut

\* _state_from_entries, in closed form.
Replay(j) ==
    [status    |-> ReplayStatus(j),
     completed |-> Named(j, "step.completed"),
     output    |-> [s \in Steps |-> ReplayOutput(j, s)],
     awaiting  |-> ReplayAwaiting(j),
     approved  |-> Decided(j, "approved"),
     rejected  |-> Decided(j, "rejected"),
     skipped   |-> Named(j, "step.skipped")]

RunState ==
    [status : Statuses, completed : SUBSET Steps,
     output : [Steps -> Outputs \cup {NoOut}], awaiting : Steps \cup {NoStep},
     approved : SUBSET Steps, rejected : SUBSET Steps, skipped : SUBSET Steps]

FreshState == Replay(<<>>)

\* One iteration of the loop in _state_from_entries.
Fold(m, e) ==
    CASE e.kind = "step.completed" ->
            [m EXCEPT !.completed = @ \cup {e.step}, !.output = [@ EXCEPT ![e.step] = e.out]]
      [] e.kind = "step.skipped" -> [m EXCEPT !.skipped = @ \cup {e.step}]
      [] e.kind = "approval.required" ->
            [m EXCEPT !.status = "awaiting_approval", !.awaiting = e.step]
      [] e.kind = "approval.resolved" ->
            LET d == IF e.out = "approved"
                     THEN [m EXCEPT !.approved = @ \cup {e.step}]
                     ELSE [m EXCEPT !.rejected = @ \cup {e.step}] IN
            IF m.awaiting = e.step
            THEN [d EXCEPT !.awaiting = NoStep, !.status = "running"] ELSE d
      [] e.kind = "run.completed" -> [m EXCEPT !.status = "completed"]
      [] e.kind \in {"step.failed", "run.failed"} -> [m EXCEPT !.status = "failed"]
      [] OTHER -> m

Blank ==
    [status |-> "running", completed |-> {}, output |-> [s \in Steps |-> NoOut],
     awaiting |-> NoStep, approved |-> {}, rejected |-> {}, skipped |-> {}]

\* The state of the loop behind each entry.
Folded(j) ==
    LET state[n \in 0 .. Len(j)] == IF n = 0 THEN Blank ELSE Fold(state[n - 1], j[n])
    IN  state[Len(j)]

-----------------------------------------------------------------------------
(* Operations and control.                                                 *)

Op(kind, s, decision) == [kind |-> kind, step |-> s, decision |-> decision]
Simple(kind) == Op(kind, NoStep, NoOut)
NoOp == Simple("none")
Ops ==
    {o \in [kind : {"none", "advance", "fail", "archive", "restore", "resolve"},
            step : Steps \cup {NoStep}, decision : Decisions \cup {NoOut}] :
        o.kind = "resolve" => o.step \in Steps /\ o.decision \in Decisions}

\* What a client may ask of a process that has loaded the run.
ClientOps ==
    {Simple(k) : k \in {"advance", "archive", "restore"}}
        \cup {Op("resolve", s, d) : s \in Steps, d \in Decisions}

Task == [step : Steps \cup {NoStep}, prior : Nat, n : Nat]
NoTask == [step |-> NoStep, prior |-> 0, n |-> 0]

\* A process after a crash, or before its first boot.
Down(p) ==
    /\ up' = up \ {p}
    /\ known' = known \ {p}
    /\ pc' = [pc EXCEPT ![p] = "idle"]
    /\ op' = [op EXCEPT ![p] = NoOp]
    /\ queue' = [queue EXCEPT ![p] = {}]
    /\ mem' = [mem EXCEPT ![p] = FreshState]
    /\ seen' = [seen EXCEPT ![p] = 0]
    /\ task' = [task EXCEPT ![p] = NoTask]

\* The operation goes on, still under the lock.
Proceed(p, at, t) ==
    /\ pc' = [pc EXCEPT ![p] = at]
    /\ task' = [task EXCEPT ![p] = t]
    /\ UNCHANGED <<lock, op, queue>>

\* The operation returns or raises: `finally: journal.release()`.
Return(p, next) ==
    /\ lock' = NoProc
    /\ pc' = [pc EXCEPT ![p] = "idle"]
    /\ op' = [op EXCEPT ![p] = NoOp]
    /\ queue' = [queue EXCEPT ![p] = @ \cup next]
    /\ task' = [task EXCEPT ![p] = NoTask]

\* Mutant: the outer handler swallows the exception.
ErrorsSwallowed(p) == {}
\* The service journals the failure of an advance it runs in the background.
OnError(p) ==
    IF p \in Services /\ op[p].kind = "advance" THEN {Simple("fail")} ELSE {}

Rec(p, kind, s, out, n) ==
    [seq |-> seen[p], kind |-> kind, step |-> s, out |-> out, n |-> n, raised |-> FALSE]
Ev(p, kind, s) == Rec(p, kind, s, NoOut, 0)

\* The record of an append that raised, whole in the file.
Kept(e) == [e EXCEPT !.raised = TRUE]

\* An append of e that raises: nothing of it, part of it or (the fsync raised)
\* all of it is in the file; the writer's own records do not have it.
Raises(p, e) ==
    /\ writeErrors < MaxWriteErrors
    /\ writeErrors' = writeErrors + 1
    /\ \/ journal' = journal /\ torn' \in {torn, torn \/ TornWrites}
       \/ journal' = Append(journal, Kept(e)) /\ torn' = torn
    /\ UNCHANGED seen

\* append_event by the lock holder p.  When it succeeds memory becomes m and
\* the operation continues with After; when the write raises the operation
\* ends, and memory (already mutated by some callers) is left at mErr.
Write(p, e, m, mErr, After) ==
    \/ /\ journal' = Append(journal, e)
       /\ seen' = [seen EXCEPT ![p] = @ + 1]
       /\ mem' = [mem EXCEPT ![p] = m]
       /\ After
       /\ UNCHANGED <<torn, writeErrors>>
    \/ /\ Raises(p, e)
       /\ mem' = [mem EXCEPT ![p] = mErr]
       /\ Return(p, OnError(p))

\* What an append under the lock leaves alone.
Frame == UNCHANGED <<flow, archived, up, known, crashes, requests>>

\* What a return that appends nothing leaves alone.
Quiet == Frame /\ UNCHANGED <<journal, torn, mem, seen, writeErrors>>

\* The records Journal.events() returns: the file's first seen[p] records.  (A
\* record the sink's append raised behind is not among them and the one after it
\* is; the questions put to them, Terminal and PriorAttempts, cannot tell.)
InMemory(p) == SubSeq(journal, 1, seen[p])

-----------------------------------------------------------------------------
(* Starting a run, processes, requests.                                    *)

Init ==
    /\ flow \in Flows
    /\ journal = <<>> /\ torn = FALSE /\ archived = FALSE /\ lock = NoProc
    /\ up = {} /\ known = {}
    /\ pc = [p \in Procs |-> "idle"] /\ op = [p \in Procs |-> NoOp]
    /\ queue = [p \in Procs |-> {}] /\ mem = [p \in Procs |-> FreshState]
    /\ seen = [p \in Procs |-> 0] /\ task = [p \in Procs |-> NoTask]
    /\ crashes = 0 /\ writeErrors = 0 /\ requests = 0

\* start(): run.started is durable before the run id exists for anyone else;
\* the caller advances the run next.
Start(p) ==
    /\ p \in up /\ journal = <<>> /\ lock = NoProc
    /\ journal' = <<Ev(p, "run.started", NoStep)>>
    /\ seen' = [seen EXCEPT ![p] = 1]
    /\ known' = known \cup {p}
    /\ mem' = [mem EXCEPT ![p] = FreshState]
    /\ queue' = [queue EXCEPT ![p] = {Simple("advance")}]
    /\ UNCHANGED <<flow, torn, archived, lock, up, pc, op, task, bounds>>

\* The append of run.started raised behind a whole record: the caller gets no
\* run, and the file is found by the next boot.  (Nothing or part of the record
\* leaves no run at all.)
StartRaises(p) ==
    /\ p \in up /\ journal = <<>> /\ lock = NoProc /\ writeErrors < MaxWriteErrors
    /\ writeErrors' = writeErrors + 1
    /\ journal' = <<Kept(Ev(p, "run.started", NoStep))>>
    /\ UNCHANGED <<flow, torn, archived, lock, local, crashes, requests>>

\* Boot: adopt the run, unless its journal cannot be loaded.  A service then
\* advances it when its status is "running".
Boot(p) ==
    /\ p \notin up /\ lock = NoProc
    /\ up' = up \cup {p}
    /\ IF journal = <<>> \/ Unreadable
       THEN UNCHANGED <<known, mem, seen, queue>>
       ELSE /\ known' = known \cup {p}
            /\ seen' = [seen EXCEPT ![p] = Len(journal)]
            /\ mem' = [mem EXCEPT ![p] = Replay(journal)]
            /\ queue' = [queue EXCEPT ![p] =
                  IF p \in Services /\ ReplayStatus(journal) = "running"
                  THEN {Simple("advance")} ELSE {}]
    /\ UNCHANGED <<shared, pc, op, task, bounds>>

\* The kernel drops the flock of a dead process; its last write may be torn.
Crash(p) ==
    /\ p \in up /\ crashes < MaxCrashes
    /\ crashes' = crashes + 1
    /\ lock' = IF lock = p THEN NoProc ELSE lock
    /\ torn' \in {torn, torn \/ (TornWrites /\ lock = p /\ pc[p] # "loaded")}
    /\ Down(p)
    /\ UNCHANGED <<flow, journal, archived, writeErrors, requests>>

\* A command-line process ends when its operation has.
Exit(p) ==
    /\ p \in up \ Services /\ pc[p] = "idle" /\ queue[p] = {}
    /\ Down(p)
    /\ UNCHANGED <<shared, bounds>>

Request(p, o) ==
    /\ p \in known /\ o \notin queue[p] /\ requests < MaxRequests
    /\ requests' = requests + 1
    /\ queue' = [queue EXCEPT ![p] = @ \cup {o}]
    /\ UNCHANGED <<shared, up, known, pc, op, mem, seen, task, crashes, writeErrors>>

-----------------------------------------------------------------------------
(* Every operation: the asyncio lock, the flock, a reload, a refresh.      *)

\* acquire(refresh=True), in a worker thread: the state is not refreshed yet.
Acquire(p, o) ==
    /\ p \in known /\ pc[p] = "idle" /\ o \in queue[p]
    /\ lock = NoProc /\ ~Unreadable
    /\ lock' = p
    /\ seen' = [seen EXCEPT ![p] = Len(journal)]
    /\ pc' = [pc EXCEPT ![p] = "loaded"]
    /\ op' = [op EXCEPT ![p] = o]
    /\ queue' = [queue EXCEPT ![p] = @ \ {o}]
    /\ UNCHANGED <<flow, journal, torn, archived, up, known, mem, task, bounds>>

\* The reload refuses the file and raises.
AcquireRaises(p, o) ==
    /\ p \in known /\ pc[p] = "idle" /\ o \in queue[p]
    /\ lock = NoProc /\ Unreadable
    /\ queue' = [queue EXCEPT ![p] = (@ \ {o}) \cup
          (IF p \in Services /\ o.kind = "advance" THEN {Simple("fail")} ELSE {})]
    /\ UNCHANGED <<shared, up, known, pc, op, mem, seen, task, bounds>>

\* Mutant: the state is not rebuilt after the lock is taken.
RefreshSkipped(p) ==
    /\ pc[p] = "loaded" /\ Proceed(p, "body", NoTask)
    /\ UNCHANGED <<flow, journal, torn, archived, up, known, mem, seen, bounds>>
\* Back on the event loop: _refresh_state.
Refresh(p) ==
    /\ pc[p] = "loaded"
    /\ mem' = [mem EXCEPT ![p] = Replay(InMemory(p))]
    /\ Proceed(p, "body", NoTask)
    /\ UNCHANGED <<flow, journal, torn, archived, up, known, seen, bounds>>

InBody(p, kind) == pc[p] = "body" /\ op[p].kind = kind

-----------------------------------------------------------------------------
(* _advance_locked.                                                        *)

\* Mutant: the after gate is not looked at.
PassedUnreviewed(m, s) == s \notin m.rejected /\ s \in m.skipped \cup m.completed
\* The loop has nothing left to do for s.
Passed(m, s) ==
    /\ s \notin m.rejected
    /\ \/ s \in m.skipped
       \/ /\ s \in m.completed
          /\ flow.step[s].gate = "after" => s \in m.approved

\* The step the loop stands at.
At(m, s) ==
    /\ ~Passed(m, s)
    /\ \A t \in Steps : Before(flow, t, s) => Passed(m, t)

Stepping(p, s) ==
    /\ InBody(p, "advance") /\ mem[p].status = "running"
    /\ At(mem[p], s)

Failed(p) == [mem[p] EXCEPT !.status = "failed"]
Parked(p, s) == [mem[p] EXCEPT !.status = "awaiting_approval", !.awaiting = s]
Skipped(p, s) == [mem[p] EXCEPT !.skipped = @ \cup {s}]
\* Mutant: the completion is journaled, not recorded in memory.
CompletedUnrecorded(p, s, o) == mem[p]
Completed(p, s, o) ==
    [mem[p] EXCEPT !.completed = @ \cup {s}, !.output[s] = o]

\* COMPLETED, AWAITING_APPROVAL, or FAILED with its run terminal in place.
NothingToAdvance(p) ==
    /\ InBody(p, "advance")
    /\ \/ mem[p].status \in {"completed", "awaiting_approval"}
       \/ mem[p].status = "failed" /\ Terminal(InMemory(p))
    /\ Return(p, {}) /\ Quiet

\* run.failed after a durable step.failed, in the same advance or a later one.
CloseFailed(p) ==
    /\ InBody(p, "advance") /\ mem[p].status = "failed" /\ ~Terminal(InMemory(p))
    /\ Write(p, Ev(p, "run.failed", NoStep), mem[p], mem[p], Return(p, {}))
    /\ Frame

StopRejected(p, s) ==
    /\ Stepping(p, s) /\ s \in mem[p].rejected
    /\ Write(p, Ev(p, "run.failed", s), Failed(p), Failed(p), Return(p, {}))
    /\ Frame

\* The post-artifact gate, right after step.completed or on a later advance.
ParkAfter(p, s) ==
    /\ Stepping(p, s) /\ s \notin mem[p].rejected /\ s \in mem[p].completed
    /\ Write(p, Ev(p, "approval.required", s), Parked(p, s), Parked(p, s), Return(p, {}))
    /\ Frame

Pending(p, s) ==
    /\ Stepping(p, s)
    /\ s \notin mem[p].rejected \cup mem[p].completed

SkipDependent(p, s) ==
    /\ Pending(p, s) /\ flow.step[s].deps \cap mem[p].skipped # {}
    /\ Write(p, Ev(p, "step.skipped", s), Skipped(p, s), Skipped(p, s),
             Proceed(p, "body", NoTask))
    /\ Frame

\* when_satisfied: a source without a recorded output does not satisfy.
WhenSatisfied(m, s) ==
    LET src == flow.step[s].src IN
    src # NoStep => src \in m.completed /\ m.output[src] \in flow.step[s].accepts

Runnable(p, s) ==
    /\ Pending(p, s)
    /\ flow.step[s].deps \cap mem[p].skipped = {}
    /\ flow.step[s].deps \subseteq mem[p].completed

SkipUnmet(p, s) ==
    /\ Runnable(p, s) /\ ~WhenSatisfied(mem[p], s)
    /\ Write(p, Ev(p, "step.skipped", s), Skipped(p, s), Skipped(p, s),
             Proceed(p, "body", NoTask))
    /\ Frame

\* Mutant: the step id is lost on the way to its gate.
ReadyUnnamed(p, s) ==
    /\ Runnable(p, s) /\ WhenSatisfied(mem[p], s)
    /\ Write(p, Ev(p, "step.ready", s), mem[p], mem[p], Proceed(p, "gate", NoTask))
    /\ Frame
Ready(p, s) ==
    /\ Runnable(p, s) /\ WhenSatisfied(mem[p], s)
    /\ Write(p, Ev(p, "step.ready", s), mem[p], mem[p],
             Proceed(p, "gate", [NoTask EXCEPT !.step = s]))
    /\ Frame

NeedsApproval(s) == flow.step[s].gate = "before" \/ flow.step[s].toolGate

ParkBefore(p) ==
    LET s == task[p].step IN
    /\ pc[p] = "gate" /\ NeedsApproval(s) /\ s \notin mem[p].approved
    /\ Write(p, Ev(p, "approval.required", s), Parked(p, s), Parked(p, s), Return(p, {}))
    /\ Frame

\* Mutant: the approval check dropped.
AdmittedUnasked(p) == pc[p] = "gate"
Admitted(p) ==
    /\ pc[p] = "gate"
    /\ NeedsApproval(task[p].step) => task[p].step \in mem[p].approved

\* resolve_reference finds the output, and the path in it.
Resolves(m, r) == r.step \in m.completed /\ m.output[r.step] \in r.readable

\* A tool disappeared since the run was planned, or a reference does not
\* resolve: step.failed now, run.failed by CloseFailed.
CannotStart(p) ==
    LET s == task[p].step IN
    /\ Admitted(p)
    /\ flow.step[s].tools \/ \E r \in flow.step[s].refs : ~Resolves(mem[p], r)
    /\ Write(p, Ev(p, "step.failed", s), Failed(p), Failed(p), Proceed(p, "body", NoTask))
    /\ Frame

\* Attempts of s already in the journal, from executor calls cut short.
PriorAttempts(p, s) ==
    Cardinality({i \in 1 .. seen[p] :
        journal[i].kind = "attempt.assigned" /\ journal[i].step = s})

StartStep(p) ==
    LET s == task[p].step IN
    /\ Admitted(p)
    /\ \A r \in flow.step[s].refs : Resolves(mem[p], r)
    /\ Write(p, Ev(p, "step.started", s), mem[p], mem[p],
             Proceed(p, "executing", [step |-> s, prior |-> PriorAttempts(p, s), n |-> 0]))
    /\ Frame

\* The executor's event sink journals an attempt (TaskExecutor has the rest).
Attempt(p) ==
    LET t == task[p] IN
    /\ pc[p] = "executing" /\ t.n < MaxAttempts
    /\ journal' = Append(journal,
          Rec(p, "attempt.assigned", t.step, NoOut, t.prior + t.n + 1))
    /\ seen' = [seen EXCEPT ![p] = @ + 1]
    /\ Proceed(p, "executing", [t EXCEPT !.n = @ + 1])
    /\ UNCHANGED <<mem, torn, writeErrors>> /\ Frame

StepCompletes(p, o) ==
    LET s == task[p].step IN
    /\ pc[p] = "executing" /\ task[p].n > 0
    /\ Write(p, Rec(p, "step.completed", s, o, task[p].n), Completed(p, s, o),
             Completed(p, s, o), Proceed(p, "body", NoTask))
    /\ Frame

\* A FAIL verdict, or (mErr = failed) an exception out of the executor call.
StepFails(p) ==
    /\ pc[p] = "executing"
    /\ \E mErr \in {mem[p], Failed(p)} :
          Write(p, Ev(p, "step.failed", task[p].step), Failed(p), mErr,
                Proceed(p, "body", NoTask))
    /\ Frame

\* An append of the event sink raises, inside executor.execute.  It surfaces and
\* the engine journals step.failed (StepFails), or the worker's guard swallows
\* it (the manifest of a context, an event of its tools) and the call goes on;
\* either way the engine numbers its next record from memory.
SinkRaises(p) ==
    /\ pc[p] = "executing"
    /\ Raises(p, Ev(p, "context.manifest", task[p].step))
    /\ UNCHANGED <<lock, pc, op, queue, mem, task>> /\ Frame

CompleteRun(p) ==
    /\ InBody(p, "advance") /\ mem[p].status = "running"
    /\ \A s \in Steps : Passed(mem[p], s)
    /\ LET m == [mem[p] EXCEPT !.status = "completed"] IN
       Write(p, Ev(p, "run.completed", NoStep), m, m, Return(p, {}))
    /\ Frame

-----------------------------------------------------------------------------
(* resolve_hitl, fail, archive, restore.                                   *)

\* The approval endpoint of the service advances the run next.
Followup(p) == IF p \in Services THEN {Simple("advance")} ELSE {}

Taken(m, decision) == IF decision = "approved" THEN m.approved ELSE m.rejected
Opposite(decision) == IF decision = "approved" THEN "rejected" ELSE "approved"

\* The retry of a decision already taken succeeds without a record.
ResolveAgain(p) ==
    /\ InBody(p, "resolve") /\ op[p].step \in Taken(mem[p], op[p].decision)
    /\ Return(p, Followup(p)) /\ Quiet

\* The other decision was taken, or this gate is not the one being waited on.
ResolveRefused(p) ==
    /\ InBody(p, "resolve") /\ op[p].step \notin Taken(mem[p], op[p].decision)
    /\ \/ op[p].step \in Taken(mem[p], Opposite(op[p].decision))
       \/ mem[p].status # "awaiting_approval"
       \/ mem[p].awaiting # op[p].step
    /\ Return(p, {}) /\ Quiet

Resolve(p) ==
    LET s == op[p].step
        d == op[p].decision
        open == [mem[p] EXCEPT !.awaiting = NoStep, !.status = "running"]
        m == IF d = "approved" THEN [open EXCEPT !.approved = @ \cup {s}]
                               ELSE [open EXCEPT !.rejected = @ \cup {s}] IN
    /\ InBody(p, "resolve") /\ s \notin mem[p].approved \cup mem[p].rejected
    /\ mem[p].status = "awaiting_approval" /\ mem[p].awaiting = s
    /\ Write(p, Rec(p, "approval.resolved", s, d, 0), m, mem[p], Return(p, Followup(p)))
    /\ Frame

\* fail(): durably terminate the run after an advance that raised.
FailRun(p) ==
    /\ InBody(p, "fail") /\ mem[p].status # "completed" /\ ~Terminal(InMemory(p))
    /\ Write(p, Ev(p, "run.failed", NoStep), Failed(p), mem[p], Return(p, {}))
    /\ Frame

FailIsLate(p) ==
    /\ InBody(p, "fail") /\ (mem[p].status = "completed" \/ Terminal(InMemory(p)))
    /\ Return(p, {}) /\ Quiet

Archive(p) ==
    /\ InBody(p, "archive") /\ mem[p].status \in {"completed", "failed"} /\ ~archived
    /\ archived' = TRUE /\ Return(p, {})
    /\ UNCHANGED <<flow, journal, torn, up, known, mem, seen, bounds>>

Restore(p) ==
    /\ InBody(p, "restore") /\ archived
    /\ archived' = FALSE /\ Return(p, {})
    /\ UNCHANGED <<flow, journal, torn, up, known, mem, seen, bounds>>

\* RunArchiveConflict.
ArchiveConflict(p) ==
    /\ \/ InBody(p, "archive") /\ (mem[p].status \notin {"completed", "failed"} \/ archived)
       \/ InBody(p, "restore") /\ ~archived
    /\ Return(p, {}) /\ Quiet

-----------------------------------------------------------------------------
AdvanceStep(p) ==
    \/ NothingToAdvance(p) \/ CloseFailed(p) \/ CompleteRun(p)
    \/ \E s \in Steps : \/ StopRejected(p, s) \/ ParkAfter(p, s)
                        \/ SkipDependent(p, s) \/ SkipUnmet(p, s) \/ Ready(p, s)
    \/ ParkBefore(p) \/ CannotStart(p) \/ StartStep(p)
    \/ Attempt(p) \/ StepFails(p) \/ SinkRaises(p)
    \/ \E o \in Outputs : StepCompletes(p, o)

OtherStep(p) ==
    \/ ResolveAgain(p) \/ ResolveRefused(p) \/ Resolve(p)
    \/ FailRun(p) \/ FailIsLate(p)
    \/ Archive(p) \/ Restore(p) \/ ArchiveConflict(p)

\* What the event loop of a live process does by itself.
Work(p) ==
    \/ \E o \in queue[p] : Acquire(p, o) \/ AcquireRaises(p, o)
    \/ Refresh(p) \/ AdvanceStep(p) \/ OtherStep(p)

Environment(p) ==
    \/ Start(p) \/ StartRaises(p) \/ Boot(p) \/ Crash(p) \/ Exit(p)
    \/ \E o \in ClientOps : Request(p, o)

Next == \E p \in Procs : Work(p) \/ Environment(p)

Spec == Init /\ [][Next]_vars

\* A live process keeps running its event loop and a service is restarted by
\* its supervisor; nobody promises a request, a crash, or a human decision.
Fairness == \A p \in Procs : WF_vars(Work(p)) /\ (p \in Services => WF_vars(Boot(p)))
FairSpec == Spec /\ Fairness

-----------------------------------------------------------------------------
(* Safety.                                                                 *)

TypeOK ==
    /\ flow \in Flows
    /\ journal \in Seq(Event) /\ torn \in BOOLEAN /\ archived \in BOOLEAN
    /\ lock \in Procs \cup {NoProc}
    /\ up \subseteq Procs /\ known \subseteq up
    /\ pc \in [Procs -> {"idle", "loaded", "body", "gate", "executing"}]
    /\ op \in [Procs -> Ops] /\ queue \in [Procs -> SUBSET Ops]
    /\ mem \in [Procs -> RunState] /\ seen \in [Procs -> Nat]
    /\ task \in [Procs -> Task]
    /\ \A p \in Procs : pc[p] \in {"gate", "executing"} => task[p].step \in Steps
    /\ crashes \in Nat /\ writeErrors \in Nat /\ requests \in Nat

\* No operation starts from a stale copy of the journal: whatever processes
\* crash, fail to write or interleave, the numbers the writers assign (len of
\* their own records) have no gap, and none is used twice, except that an append
\* of the executor's event sink that raised behind a whole record leaves its
\* number to the next one: only a torn record or such a repeat ever makes a file
\* unreadable.
SequenceContiguous ==
    /\ journal # <<>> => journal[1].seq = 0
    /\ \A i \in DOMAIN journal \ {1} :
          \/ journal[i].seq = journal[i - 1].seq + 1
          \/ /\ journal[i].seq = journal[i - 1].seq
             /\ journal[i - 1].kind = "context.manifest" /\ journal[i - 1].raised

\* append_event never refuses an event of the engine, and no later load refuses
\* the file for its history: _validate_canonical_history holds of every journal the
\* engine writes, across crashes, restarts and a late fail().
CanonicalHistory ==
    /\ \A i \in DOMAIN journal : journal[i].kind = "run.started" <=> i = 1
    /\ \A i \in DOMAIN journal : journal[i].kind \in RunTerminals => i = Len(journal)
    /\ \A i, k \in DOMAIN journal :
          /\ journal[i].kind \in StepTerminals /\ journal[k].kind \in StepTerminals
          /\ journal[i].step = journal[k].step
          => i = k

\* While an operation holds the lock, the state the engine mutates in place
\* is the one a fresh process would rebuild from the file, so a crash between
\* any two appends loses and invents nothing.
LiveStateIsReplay ==
    \A p \in Procs : pc[p] \in {"body", "gate", "executing"} => mem[p] = Replay(journal)

Precedes(i, kind, s) == \E k \in DOMAIN journal :
    k < i /\ journal[k].kind = kind /\ journal[k].step = s

\* A step behind a before gate or a tool gate starts only after a recorded
\* approval of that very step.
GateBeforeWork ==
    \A i \in DOMAIN journal :
        /\ journal[i].kind = "step.started"
        /\ flow.step[journal[i].step].gate = "before" \/ flow.step[journal[i].step].toolGate
        => \E k \in 1 .. i - 1 :
                /\ journal[k].kind = "approval.resolved"
                /\ journal[k].step = journal[i].step /\ journal[k].out = "approved"

\* Completed steps are at-most-once: once a step has its terminal, no process
\* readies, starts or attempts it again, after a crash either.
SettledStepsStaySettled ==
    \A i, k \in DOMAIN journal :
        /\ i < k /\ journal[i].kind \in StepTerminals
        /\ journal[k].step = journal[i].step
        => journal[k].kind \notin {"step.ready", "step.started", "attempt.assigned"}

\* One decision per gate: each resolution answers a request still open, and no
\* step is resolved twice, so an approval and a rejection that race from two
\* processes never both count.
OneDecisionPerGate ==
    \A k \in DOMAIN journal :
        journal[k].kind = "approval.resolved" =>
            /\ Precedes(k, "approval.required", journal[k].step)
            /\ ~Precedes(k, "approval.resolved", journal[k].step)

\* The closed form the operations work with is what the loop over the entries
\* computes, for every journal the engine can write.
ReplayIsTheFold == Replay(journal) = Folded(journal)

\* Whatever crashes, the history on disk is in order, rebuilds the run, and is
\* continued without repeating what is settled; every later process loads it,
\* that of a torn record or of a number the sink left twice excepted.
HistoryIsSound ==
    /\ SequenceContiguous /\ CanonicalHistory
    /\ SettledStepsStaySettled /\ ReplayIsTheFold

\* What the gates decide, decides: no work before it is approved, and one
\* decision of each.
GatesDecide == GateBeforeWork /\ OneDecisionPerGate

\* The run implements the contract its readers rely on.
Contract == INSTANCE RunContract WITH
    phase <- IF journal = <<>> THEN "unborn" ELSE ReplayStatus(journal),
    done <- Named(journal, "step.completed"),
    skipped <- Named(journal, "step.skipped"),
    decision <- [s \in Steps |->
        IF s \in Decided(journal, "approved") THEN "approved"
        ELSE IF s \in Decided(journal, "rejected") THEN "rejected" ELSE "none"],
    gate <- ReplayAwaiting(journal)
ImplementsContract == Contract!Spec

-----------------------------------------------------------------------------
(* Liveness, and what does not hold.                                       *)

Running == journal # <<>> /\ ReplayStatus(journal) = "running"

\* The append of a decision raised behind a whole record: the run goes on for
\* whoever reads the file, but the client was refused, and it is a retry or a
\* restart that takes the run up again.
Unheard ==
    \E i \in DOMAIN journal :
        i = Len(journal) /\ journal[i].kind = "approval.resolved" /\ journal[i].raised

\* A run that a service has started or adopted never sits "running" forever:
\* whatever crashed, it ends up parked at a gate, completed or failed, unless its
\* file has become unreadable or waits for an unheard decision to be retried.
RunsSettle == Running /\ known \cap Services # {} ~> ~Running \/ Unreadable \/ Unheard

=============================================================================
