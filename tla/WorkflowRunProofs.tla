-------------------------- MODULE WorkflowRunProofs --------------------------
(***************************************************************************)
(* Proofs about WorkflowRun, for every workflow, number of processes and   *)
(* bound: type correctness, exclusion under the sidecar lock, and that the *)
(* journal is only ever extended by a writer whose copy is current; then   *)
(* that what is in the journal is what the run did.                        *)
(***************************************************************************)
EXTENDS WorkflowRun, FiniteSetTheorems, TLAPS

\* The number of a record whose append raised inside the executor's event sink,
\* which the next one takes too.
Left(e) == e.kind = "context.manifest" /\ e.raised

\* The number p gives its next record: the one behind the last of the file.
Numbers(p) ==
    LET e == journal[Len(journal)] IN
    seen[p] = e.seq + 1 \/ (Left(e) /\ seen[p] = e.seq)

\* The process inside an operation is the holder of the flock, has the run
\* loaded and numbers its records behind the file's; what it does not have in
\* memory is no terminal of the run.  No process has more than the file.
LockInv ==
    \A p \in Procs :
        /\ seen[p] <= Len(journal)
        /\ pc[p] # "idle" <=> lock = p
        /\ p \in known => journal # <<>>
        /\ pc[p] # "idle" => p \in known /\ Numbers(p)
        /\ pc[p] = "loaded" => seen[p] = Len(journal)
        /\ pc[p] # "idle" =>
              \A i \in DOMAIN journal : i > seen[p] => journal[i].kind \notin RunTerminals

IInv == TypeOK /\ LockInv /\ SequenceContiguous

-----------------------------------------------------------------------------
\* Rebuilding the state from any journal gives a RunState.
LEMMA ReplayType ==
    ASSUME NEW j \in Seq(Event)
    PROVE  Replay(j) \in RunState
<1>1. ReplayStatus(j) \in Statuses
  BY DEF ReplayStatus, StatusAfter, Statuses
<1>2. ReplayAwaiting(j) \in Steps \cup {NoStep}
  BY DEF ReplayAwaiting, IsLast, Event
<1>3. ASSUME NEW s \in Steps PROVE ReplayOutput(j, s) \in Outputs \cup {NoOut}
  <2>1. CASE s \in Named(j, "step.completed")
    <3> DEFINE P(i) == i \in DOMAIN j /\ j[i].kind = "step.completed" /\ j[i].step = s
    <3>1. \E i : P(i)
      BY <2>1 DEF Named
    <3> DEFINE c == CHOOSE i \in DOMAIN j : j[i].kind = "step.completed" /\ j[i].step = s
    <3>2. P(c)
      BY <3>1
    <3>3. j[c] \in Event
      BY <3>2
    <3> QED BY <2>1, <3>2, <3>3 DEF ReplayOutput, Event
  <2>2. CASE s \notin Named(j, "step.completed")
    BY <2>2 DEF ReplayOutput
  <2> QED BY <2>1, <2>2
<1> QED
  BY <1>1, <1>2, <1>3 DEF Replay, RunState, Named, Decided

LEMMA FreshType == FreshState \in RunState
<1>1. <<>> \in Seq(Event)
  OBVIOUS
<1> QED BY <1>1, ReplayType DEF FreshState

\* The records an operation writes are well formed.
LEMMA RecType ==
    ASSUME TypeOK, NEW p \in Procs, NEW kind \in Kinds, NEW s \in Steps \cup {NoStep},
           NEW out \in Outputs \cup Decisions \cup {NoOut}, NEW n \in Nat,
           kind = "step.completed" => s \in Steps /\ out \in Outputs,
           kind = "approval.resolved" => s \in Steps /\ out \in Decisions
    PROVE  /\ Rec(p, kind, s, out, n) \in Event
           /\ Rec(p, kind, s, out, n).seq = seen[p]
<1>1. seen[p] \in Nat
  BY DEF TypeOK
<1> QED BY <1>1 DEF Rec, Event

\* The record of an append that raised is a record, and says the same.
LEMMA KeptType ==
    ASSUME NEW e \in Event
    PROVE  /\ Kept(e) \in Event /\ Kept(e).raised
           /\ Kept(e).kind = e.kind /\ Kept(e).step = e.step /\ Kept(e).seq = e.seq
           /\ Kept(e).out = e.out /\ Kept(e).n = e.n
BY DEF Kept, Event

\* Appending the record a holder numbers keeps the file in order.
LEMMA AppendContiguous ==
    ASSUME IInv, NEW p \in Procs, pc[p] # "idle",
           NEW e \in Event, e.seq = seen[p], journal' = Append(journal, e)
    PROVE  /\ journal' \in Seq(Event)
           /\ Len(journal') = Len(journal) + 1
           /\ journal'[Len(journal')] = e
           /\ \A i \in DOMAIN journal : journal'[i] = journal[i]
           /\ journal' # <<>>
           /\ SequenceContiguous'
<1>1. journal \in Seq(Event) /\ journal # <<>> /\ Numbers(p)
  BY DEF IInv, TypeOK, LockInv
<1>2. /\ journal' \in Seq(Event) /\ Len(journal) \in Nat /\ Len(journal) >= 1
      /\ Len(journal') = Len(journal) + 1 /\ journal'[Len(journal) + 1] = e
      /\ DOMAIN journal' = 1 .. Len(journal) + 1 /\ DOMAIN journal = 1 .. Len(journal)
      /\ \A i \in DOMAIN journal : journal'[i] = journal[i]
      /\ journal' # <<>>
  BY <1>1
<1>3. journal'[1].seq = 0
  BY <1>1, <1>2 DEF IInv, SequenceContiguous
<1>4. ASSUME NEW i \in DOMAIN journal' \ {1}
      PROVE  \/ journal'[i].seq = journal'[i - 1].seq + 1
             \/ /\ journal'[i].seq = journal'[i - 1].seq
                /\ journal'[i - 1].kind = "context.manifest" /\ journal'[i - 1].raised
  <2>1. CASE i \in DOMAIN journal
    <3>1. i - 1 \in DOMAIN journal /\ i \in DOMAIN journal \ {1}
      BY <1>2, <1>4, <2>1
    <3> QED BY <1>2, <2>1, <3>1 DEF IInv, SequenceContiguous
  <2>2. CASE i = Len(journal) + 1
    <3>1. i - 1 = Len(journal) /\ i - 1 \in DOMAIN journal
      BY <1>2, <2>2
    <3>2. journal'[i - 1] = journal[Len(journal)] /\ journal'[i] = e
      BY <1>2, <2>2, <3>1
    <3> QED BY <1>1, <3>2 DEF Numbers, Left
  <2> QED BY <1>2, <2>1, <2>2
<1> QED BY <1>2, <1>3, <1>4 DEF SequenceContiguous

\* The others are outside, and have no more than the file.
LEMMA OnlyHolder ==
    ASSUME IInv, NEW p \in Procs, pc[p] # "idle", NEW q \in Procs \ {p}
    PROVE  pc[q] = "idle"
BY DEF IInv, LockInv

\* An operation that holds the lock and goes on after an append.
LEMMA AppendAndProceed ==
    ASSUME IInv, NEW p \in Procs, pc[p] # "idle", pc[p] # "loaded",
           NEW e \in Event, e.seq = seen[p], e.kind \notin RunTerminals,
           NEW m \in RunState,
           NEW at \in {"body", "gate", "executing"}, NEW t \in Task,
           at \in {"gate", "executing"} => t.step \in Steps,
           journal' = Append(journal, e), seen' = [seen EXCEPT ![p] = @ + 1],
           mem' = [mem EXCEPT ![p] = m], torn' \in BOOLEAN, writeErrors' \in Nat,
           Proceed(p, at, t), Frame
    PROVE  IInv'
<1> USE DEF IInv
<1>2. /\ journal' \in Seq(Event) /\ Len(journal') = Len(journal) + 1
      /\ journal'[Len(journal')] = e /\ \A i \in DOMAIN journal : journal'[i] = journal[i]
      /\ journal' # <<>> /\ SequenceContiguous'
  BY AppendContiguous
<1>3. TypeOK'
  BY <1>2 DEF TypeOK, Proceed, Frame
<1>4. LockInv'
  <2>1. /\ journal \in Seq(Event) /\ Len(journal) \in Nat /\ seen \in [Procs -> Nat]
        /\ pc \in [Procs -> {"idle", "loaded", "body", "gate", "executing"}]
    BY DEF TypeOK
  <2>2. pc' = [pc EXCEPT ![p] = at] /\ lock' = lock /\ known' = known
    BY DEF Proceed, Frame
  <2>3. ASSUME NEW q \in Procs \ {p}
        PROVE  pc[q] = "idle" /\ pc'[q] = "idle" /\ seen'[q] = seen[q] /\ lock # q
    BY <2>1, <2>2, OnlyHolder DEF LockInv
  <2>4. seen'[p] = seen[p] + 1 /\ pc'[p] = at /\ seen[p] <= Len(journal) /\ lock = p
        /\ p \in known
    BY <2>1, <2>2 DEF LockInv
  <2>5. ASSUME NEW i \in DOMAIN journal', i > seen'[p]
        PROVE  journal'[i].kind \notin RunTerminals
    <3>1. CASE i \in DOMAIN journal
      BY <1>2, <2>1, <2>4, <2>5, <3>1 DEF LockInv
    <3>2. CASE i = Len(journal')
      BY <1>2, <3>2
    <3> QED BY <1>2, <2>1, <3>1, <3>2
  <2>6. Numbers(p)'
    BY <1>2, <2>4 DEF Numbers
  <2> QED BY <1>2, <2>1, <2>2, <2>3, <2>4, <2>5, <2>6 DEF LockInv
<1> QED BY <1>2, <1>3, <1>4

\* An operation that ends with a record in the file, its own or not.
LEMMA AppendAndReturn ==
    ASSUME IInv, NEW p \in Procs, pc[p] # "idle",
           NEW e \in Event, e.seq = seen[p], NEW m \in RunState, NEW next \in SUBSET Ops,
           journal' = Append(journal, e),
           seen' = [seen EXCEPT ![p] = @ + 1] \/ seen' = seen,
           mem' = [mem EXCEPT ![p] = m], torn' \in BOOLEAN, writeErrors' \in Nat,
           Return(p, next), Frame
    PROVE  IInv'
<1> USE DEF IInv
<1>2. /\ journal' \in Seq(Event) /\ Len(journal') = Len(journal) + 1
      /\ journal' # <<>> /\ SequenceContiguous'
  BY AppendContiguous
<1>3. NoOp \in Ops /\ NoTask \in Task
  BY DEF NoOp, Simple, Op, Ops, NoTask, Task
<1>4. TypeOK'
  <2>1. seen' \in [Procs -> Nat]
    BY DEF TypeOK
  <2> QED BY <1>2, <1>3, <2>1 DEF TypeOK, Return, Frame
<1>5. LockInv'
  <2>1. Len(journal) \in Nat /\ seen \in [Procs -> Nat] /\ pc \in [Procs ->
          {"idle", "loaded", "body", "gate", "executing"}]
    BY DEF TypeOK
  <2>2. \A q \in Procs : pc'[q] = "idle"
    BY <2>1, OnlyHolder DEF Return
  <2>3. \A q \in Procs : seen'[q] <= Len(journal) + 1
    BY <2>1 DEF LockInv
  <2> QED BY <1>2, <2>2, <2>3, ProcsAssumption DEF LockInv, Return
<1> QED BY <1>2, <1>4, <1>5

\* An operation that ends without touching the journal.
LEMMA ReturnOnly ==
    ASSUME IInv, NEW p \in Procs, pc[p] # "idle", NEW m \in RunState,
           NEW next \in SUBSET Ops, Return(p, next),
           mem' = [mem EXCEPT ![p] = m],
           torn' \in BOOLEAN, writeErrors' \in Nat, archived' \in BOOLEAN,
           UNCHANGED <<flow, journal, up, known, seen, crashes, requests>>
    PROVE  IInv'
<1> USE DEF IInv
<1>1. NoOp \in Ops /\ NoTask \in Task
  BY DEF NoOp, Simple, Op, Ops, NoTask, Task
<1>2. TypeOK'
  BY <1>1 DEF TypeOK, Return
<1>3. LockInv'
  <2>1. \A q \in Procs : pc'[q] = "idle"
    BY OnlyHolder DEF Return, TypeOK
  <2> QED BY <2>1, ProcsAssumption DEF LockInv, Return
<1>4. SequenceContiguous'
  BY DEF SequenceContiguous
<1> QED BY <1>2, <1>3, <1>4

\* What the service queues after a failure is an operation.
LEMMA OnErrorType == ASSUME NEW p \in Procs PROVE OnError(p) \in SUBSET Ops
  BY DEF OnError, Simple, Op, Ops

LEMMA WriteFails ==
    ASSUME IInv, NEW p \in Procs, pc[p] # "idle", NEW mErr \in RunState,
           NEW e \in Event, e.seq = seen[p], Raises(p, e),
           mem' = [mem EXCEPT ![p] = mErr], Return(p, OnError(p)), Frame
    PROVE  IInv'
<1>1. torn' \in BOOLEAN /\ writeErrors' \in Nat /\ archived' \in BOOLEAN
  BY BoundsAssumption DEF IInv, TypeOK, Frame, Raises
<1>2. CASE journal' = journal
  <2>1. UNCHANGED <<flow, journal, up, known, seen, crashes, requests>>
    BY <1>2 DEF Frame, Raises
  <2> QED BY <1>1, <2>1, OnErrorType, ReturnOnly
<1>3. CASE journal' = Append(journal, Kept(e)) /\ seen' = seen
  <2>1. Kept(e) \in Event /\ Kept(e).seq = seen[p]
    BY KeptType
  <2> QED BY <1>1, <1>3, <2>1, OnErrorType, AppendAndReturn
<1> QED BY <1>2, <1>3 DEF Raises

LEMMA WriteProceeds ==
    ASSUME IInv, NEW p \in Procs, pc[p] # "idle", pc[p] # "loaded",
           NEW e \in Event, e.seq = seen[p], e.kind \notin RunTerminals,
           NEW m \in RunState, NEW mErr \in RunState,
           NEW at \in {"body", "gate", "executing"}, NEW t \in Task,
           at \in {"gate", "executing"} => t.step \in Steps,
           Write(p, e, m, mErr, Proceed(p, at, t)), Frame
    PROVE  IInv'
<1>1. CASE /\ journal' = Append(journal, e) /\ seen' = [seen EXCEPT ![p] = @ + 1]
           /\ mem' = [mem EXCEPT ![p] = m] /\ Proceed(p, at, t)
           /\ UNCHANGED <<torn, writeErrors>>
  <2>1. torn' \in BOOLEAN /\ writeErrors' \in Nat
    BY <1>1 DEF IInv, TypeOK
  <2> QED BY <1>1, <2>1, AppendAndProceed
<1>2. CASE Raises(p, e) /\ mem' = [mem EXCEPT ![p] = mErr] /\ Return(p, OnError(p))
  BY <1>2, WriteFails
<1> QED BY <1>1, <1>2 DEF Write

LEMMA WriteReturns ==
    ASSUME IInv, NEW p \in Procs, pc[p] # "idle",
           NEW e \in Event, e.seq = seen[p], NEW m \in RunState, NEW mErr \in RunState,
           NEW next \in SUBSET Ops,
           Write(p, e, m, mErr, Return(p, next)), Frame
    PROVE  IInv'
<1>1. CASE /\ journal' = Append(journal, e) /\ seen' = [seen EXCEPT ![p] = @ + 1]
           /\ mem' = [mem EXCEPT ![p] = m] /\ Return(p, next)
           /\ UNCHANGED <<torn, writeErrors>>
  <2>1. torn' \in BOOLEAN /\ writeErrors' \in Nat
    BY <1>1 DEF IInv, TypeOK
  <2> QED BY <1>1, <2>1, AppendAndReturn
<1>2. CASE Raises(p, e) /\ mem' = [mem EXCEPT ![p] = mErr] /\ Return(p, OnError(p))
  BY <1>2, WriteFails
<1> QED BY <1>1, <1>2 DEF Write

LEMMA QuietReturn ==
    ASSUME IInv, NEW p \in Procs, pc[p] # "idle", NEW next \in SUBSET Ops,
           Return(p, next), Quiet
    PROVE  IInv'
<1>1. mem[p] \in RunState /\ mem' = [mem EXCEPT ![p] = mem[p]]
  BY DEF IInv, TypeOK, Quiet
<1>2. torn' \in BOOLEAN /\ writeErrors' \in Nat /\ archived' \in BOOLEAN
  BY DEF IInv, TypeOK, Quiet, Frame
<1>3. UNCHANGED <<flow, journal, up, known, seen, crashes, requests>>
  BY DEF Quiet, Frame
<1> QED BY <1>1, <1>2, <1>3, ReturnOnly

-----------------------------------------------------------------------------
\* Each step of the advance loop.
LEMMA AdvancePreserves ==
    ASSUME IInv, NEW p \in Procs, AdvanceStep(p)
    PROVE  IInv'
<1> USE DEF IInv
<1>0. /\ mem[p] \in RunState /\ Failed(p) \in RunState
      /\ [mem[p] EXCEPT !.status = "completed"] \in RunState
  <2>1. mem[p] \in RunState
    BY DEF TypeOK
  <2> QED BY <2>1 DEF Failed, RunState, Statuses
<1>none. {} \in SUBSET Ops /\ NoTask \in Task
  BY DEF NoTask, Task
<1>pc. pc[p] # "idle" /\ pc[p] # "loaded"
  BY DEF AdvanceStep, NothingToAdvance, CloseFailed, CompleteRun, StopRejected, ParkAfter,
         SkipDependent, SkipUnmet, Ready, Runnable, Pending, Stepping, InBody, ParkBefore,
         CannotStart, StartStep, Admitted, Attempt, StepFails, SinkRaises, StepCompletes
<1>rec. ASSUME NEW kind \in Kinds \ {"step.completed", "approval.resolved"},
             NEW s \in Steps \cup {NoStep}
      PROVE  /\ Ev(p, kind, s) \in Event /\ Ev(p, kind, s).seq = seen[p]
             /\ Ev(p, kind, s).kind = kind
  <2>1. Ev(p, kind, s) \in Event /\ Ev(p, kind, s).seq = seen[p]
    BY RecType DEF Ev
  <2> QED BY <2>1 DEF Ev, Rec
<1>kinds. "run.failed" \in Kinds /\ "run.completed" \in Kinds /\ "approval.required" \in Kinds
      /\ "step.skipped" \in Kinds /\ "step.ready" \in Kinds /\ "step.failed" \in Kinds
      /\ "step.started" \in Kinds /\ "step.completed" \in Kinds
      /\ "attempt.assigned" \in Kinds /\ "context.manifest" \in Kinds
  BY DEF Kinds, StepTerminals, RunTerminals
<1>go. {"step.skipped", "step.ready", "step.failed", "step.started", "step.completed",
        "attempt.assigned", "context.manifest"} \cap RunTerminals = {}
  BY DEF RunTerminals
<1>1. CASE NothingToAdvance(p)
  BY <1>1, <1>none, QuietReturn DEF NothingToAdvance, InBody
<1>2. CASE CloseFailed(p)
  BY <1>2, <1>0, <1>none, <1>rec, <1>kinds, WriteReturns DEF CloseFailed, InBody
<1>3. CASE CompleteRun(p)
  BY <1>3, <1>0, <1>none, <1>rec, <1>kinds, WriteReturns DEF CompleteRun, InBody
<1>4. ASSUME NEW s \in Steps, StopRejected(p, s) PROVE IInv'
  BY <1>4, <1>0, <1>none, <1>rec, <1>kinds, WriteReturns DEF StopRejected, Stepping, InBody
<1>5. ASSUME NEW s \in Steps, ParkAfter(p, s) PROVE IInv'
  <2>1. Parked(p, s) \in RunState
    BY <1>0 DEF Parked, RunState, Statuses
  <2> QED BY <2>1, <1>5, <1>none, <1>rec, <1>kinds, WriteReturns DEF ParkAfter, Stepping, InBody
<1>6. ASSUME NEW s \in Steps, SkipDependent(p, s) \/ SkipUnmet(p, s) PROVE IInv'
  <2>1. Skipped(p, s) \in RunState
    BY <1>0 DEF Skipped, RunState
  <2> QED BY <2>1, <1>6, <1>none, <1>pc, <1>go, <1>rec, <1>kinds, WriteProceeds
          DEF SkipDependent, SkipUnmet, Runnable, Pending, Stepping, InBody
<1>7. ASSUME NEW s \in Steps, Ready(p, s) PROVE IInv'
  <2>1. [NoTask EXCEPT !.step = s] \in Task /\ [NoTask EXCEPT !.step = s].step \in Steps
    BY DEF NoTask, Task
  <2>2. Write(p, Ev(p, "step.ready", s), mem[p], mem[p],
              Proceed(p, "gate", [NoTask EXCEPT !.step = s])) /\ Frame
    BY <1>7 DEF Ready
  <2>3. /\ Ev(p, "step.ready", s) \in Event /\ Ev(p, "step.ready", s).seq = seen[p]
        /\ Ev(p, "step.ready", s).kind \notin RunTerminals
    BY <1>rec, <1>kinds, <1>go
  <2> QED BY <2>1, <2>2, <2>3, <1>0, <1>pc, WriteProceeds
<1>8. CASE ParkBefore(p)
  <2>1. task[p].step \in Steps
    BY <1>8 DEF ParkBefore, TypeOK
  <2>2. Parked(p, task[p].step) \in RunState
    BY <2>1, <1>0 DEF Parked, RunState, Statuses
  <2> QED BY <2>1, <2>2, <1>8, <1>none, <1>rec, <1>kinds, WriteReturns DEF ParkBefore
<1>9. CASE CannotStart(p)
  <2>1. task[p].step \in Steps
    BY <1>9 DEF CannotStart, Admitted, TypeOK
  <2> QED BY <2>1, <1>9, <1>0, <1>none, <1>pc, <1>go, <1>rec, <1>kinds, WriteProceeds DEF CannotStart, Admitted
<1>10. CASE StartStep(p)
  <2> DEFINE s == task[p].step
             t == [step |-> s, prior |-> PriorAttempts(p, s), n |-> 0]
  <2>1. s \in Steps
    BY <1>10 DEF StartStep, Admitted, TypeOK
  <2>2. PriorAttempts(p, s) \in Nat
    <3>1. IsFiniteSet(1 .. seen[p])
      BY FS_Interval DEF TypeOK
    <3>2. IsFiniteSet({i \in 1 .. seen[p] :
              journal[i].kind = "attempt.assigned" /\ journal[i].step = s})
      BY <3>1, FS_Subset
    <3> QED BY <3>2, FS_CardinalityType DEF PriorAttempts
  <2>3. t \in Task /\ t.step \in Steps
    BY <2>1, <2>2 DEF Task
  <2>4. pc[p] # "idle" /\ Frame
    BY <1>10 DEF StartStep, Admitted
  <2>5. Write(p, Ev(p, "step.started", s), mem[p], mem[p], Proceed(p, "executing", t))
    BY <1>10 DEF StartStep
  <2> HIDE DEF s, t
  <2> QED BY <2>1, <2>3, <2>4, <2>5, <1>0, <1>pc, <1>go, <1>rec, <1>kinds, WriteProceeds
<1>11. CASE Attempt(p)
  <2> DEFINE t == task[p]
             e == Rec(p, "attempt.assigned", t.step, NoOut, t.prior + t.n + 1)
  <2>1. t \in Task /\ t.step \in Steps
    BY <1>11 DEF Attempt, TypeOK
  <2>2. [t EXCEPT !.n = @ + 1] \in Task /\ [t EXCEPT !.n = @ + 1].step \in Steps
        /\ t.prior + t.n + 1 \in Nat
    BY <2>1 DEF Task
  <2>3. e \in Event /\ e.seq = seen[p] /\ e.kind \notin RunTerminals
    <3> DEFINE k == t.prior + t.n + 1
    <3>1. k \in Nat /\ t.step \in Steps \cup {NoStep} /\ TypeOK
          /\ NoOut \in Outputs \cup Decisions \cup {NoOut} /\ "attempt.assigned" \in Kinds
      BY <2>1, <2>2, <1>kinds DEF IInv
    <3>2. e = Rec(p, "attempt.assigned", t.step, NoOut, k)
      OBVIOUS
    <3>3. Rec(p, "attempt.assigned", t.step, NoOut, k).kind = "attempt.assigned"
      BY DEF Rec
    <3> HIDE DEF k, t, e
    <3> QED BY <3>1, <3>2, <3>3, <1>go, RecType
  <2>7. \A f : f \in [Procs -> RunState] => f = [f EXCEPT ![p] = f[p]]
    OBVIOUS
  <2>5. torn \in BOOLEAN /\ writeErrors \in Nat /\ mem = [mem EXCEPT ![p] = mem[p]]
    <3>1. mem \in [Procs -> RunState] /\ torn \in BOOLEAN /\ writeErrors \in Nat
      BY DEF TypeOK
    <3> QED BY <2>7, <3>1
  <2>6. /\ journal' = Append(journal, e) /\ seen' = [seen EXCEPT ![p] = @ + 1]
        /\ mem' = mem /\ torn' = torn /\ writeErrors' = writeErrors
        /\ Proceed(p, "executing", [t EXCEPT !.n = @ + 1]) /\ Frame /\ pc[p] # "idle"
    BY <1>11 DEF Attempt
  <2>4. /\ journal' = Append(journal, e) /\ seen' = [seen EXCEPT ![p] = @ + 1]
        /\ mem' = [mem EXCEPT ![p] = mem[p]] /\ torn' \in BOOLEAN /\ writeErrors' \in Nat
        /\ Proceed(p, "executing", [t EXCEPT !.n = @ + 1]) /\ Frame /\ pc[p] # "idle"
    BY <2>5, <2>6
  <2> HIDE DEF t, e
  <2> QED BY <2>2, <2>3, <2>4, <1>0, <1>pc, AppendAndProceed
<1>12. CASE StepFails(p)
  <2>1. task[p].step \in Steps /\ pc[p] # "idle"
    BY <1>12 DEF StepFails, TypeOK
  <2>2. PICK mErr \in {mem[p], Failed(p)} :
          Write(p, Ev(p, "step.failed", task[p].step), Failed(p), mErr,
                Proceed(p, "body", NoTask))
    BY <1>12 DEF StepFails
  <2>3. mErr \in RunState
    BY <1>0
  <2> QED BY <2>1, <2>2, <2>3, <1>12, <1>0, <1>none, <1>pc, <1>go, <1>rec, <1>kinds, WriteProceeds DEF StepFails
<1>13. CASE SinkRaises(p)
  <2> DEFINE e == Ev(p, "context.manifest", task[p].step)
  <2>1. task[p].step \in Steps /\ pc[p] = "executing"
    BY <1>13 DEF SinkRaises, TypeOK
  <2>2. e \in Event /\ e.seq = seen[p] /\ e.kind = "context.manifest"
    BY <2>1, <1>rec, <1>kinds
  <2>3. Kept(e) \in Event /\ Kept(e).seq = seen[p] /\ Left(Kept(e))
    BY <2>2, KeptType DEF Left
  <2>4. /\ Raises(p, e) /\ Frame /\ UNCHANGED <<lock, pc, op, queue, mem, task, seen>>
        /\ torn' \in BOOLEAN /\ writeErrors' \in Nat
    BY <1>13, BoundsAssumption DEF SinkRaises, Raises, TypeOK
  <2> HIDE DEF e
  <2>5. CASE journal' = journal
    <3>1. TypeOK'
      BY <2>4, <2>5 DEF TypeOK, Frame
    <3>2. LockInv' /\ SequenceContiguous'
      BY <2>4, <2>5 DEF LockInv, Numbers, SequenceContiguous, Frame
    <3> QED BY <3>1, <3>2
  <2>6. CASE journal' = Append(journal, Kept(e))
    <3>1. /\ journal' \in Seq(Event) /\ Len(journal') = Len(journal) + 1
          /\ journal'[Len(journal')] = Kept(e)
          /\ \A i \in DOMAIN journal : journal'[i] = journal[i]
          /\ journal' # <<>> /\ SequenceContiguous'
      BY <2>3, <2>6, <1>pc, AppendContiguous
    <3>2. TypeOK'
      BY <2>4, <3>1 DEF TypeOK, Frame
    <3>3. Len(journal) \in Nat /\ seen \in [Procs -> Nat] /\ known' = known
          /\ DOMAIN journal' = DOMAIN journal \cup {Len(journal')}
      BY <2>4, <3>1 DEF TypeOK, Frame
    <3>4. Numbers(p)'
      BY <2>3, <2>4, <3>1 DEF Numbers
    <3>5. ASSUME NEW i \in DOMAIN journal', i > seen'[p]
          PROVE  journal'[i].kind \notin RunTerminals
      <4>1. CASE i \in DOMAIN journal
        BY <1>pc, <2>4, <3>1, <3>5, <4>1 DEF LockInv
      <4>2. CASE i = Len(journal')
        BY <1>go, <2>3, <3>1, <4>2 DEF Left
      <4> QED BY <3>3, <4>1, <4>2
    <3>6. ASSUME NEW q \in Procs \ {p}
          PROVE  pc'[q] = "idle" /\ seen'[q] <= Len(journal') /\ lock' # q
      BY <1>pc, <2>4, <3>1, <3>3, OnlyHolder DEF LockInv
    <3>7. pc'[p] = "executing" /\ lock' = p /\ p \in known' /\ seen'[p] <= Len(journal')
      BY <2>1, <2>4, <3>1, <3>3 DEF LockInv
    <3>8. LockInv'
      BY <3>1, <3>4, <3>5, <3>6, <3>7 DEF LockInv
    <3> QED BY <3>1, <3>2, <3>8
  <2> QED BY <2>4, <2>5, <2>6 DEF Raises
<1>14. ASSUME NEW o \in Outputs, StepCompletes(p, o) PROVE IInv'
  <2> DEFINE s == task[p].step
             e == Rec(p, "step.completed", s, o, task[p].n)
  <2>1. s \in Steps /\ task[p].n \in Nat /\ pc[p] # "idle" /\ Frame
    BY <1>14 DEF StepCompletes, TypeOK, Task
  <2>2. e \in Event /\ e.seq = seen[p] /\ e.kind \notin RunTerminals
    <3>1. e.kind = "step.completed"
      BY DEF Rec
    <3> QED BY <2>1, <3>1, <1>kinds, <1>go, RecType
  <2>3. Completed(p, s, o) \in RunState
    BY <2>1, <1>0 DEF Completed, RunState
  <2>4. Write(p, e, Completed(p, s, o), Completed(p, s, o), Proceed(p, "body", NoTask))
    BY <1>14 DEF StepCompletes
  <2> HIDE DEF s, e
  <2> QED BY <2>1, <2>2, <2>3, <2>4, <1>none, <1>pc, WriteProceeds
<1> QED BY <1>1, <1>2, <1>3, <1>4, <1>5, <1>6, <1>7, <1>8, <1>9, <1>10, <1>11,
           <1>12, <1>13, <1>14 DEF AdvanceStep

\* Decisions, outer failures, archive and restore.
LEMMA OtherPreserves ==
    ASSUME IInv, NEW p \in Procs, OtherStep(p)
    PROVE  IInv'
<1> USE DEF IInv
<1>1. {} \in SUBSET Ops /\ Followup(p) \in SUBSET Ops
  BY DEF Followup, Simple, Op, Ops
<1>2. mem[p] \in RunState /\ Failed(p) \in RunState
  <2>1. mem[p] \in RunState
    BY DEF TypeOK
  <2> QED BY <2>1 DEF Failed, RunState, Statuses
<1>3. CASE ResolveAgain(p) \/ ResolveRefused(p) \/ FailIsLate(p) \/ ArchiveConflict(p)
  BY <1>3, <1>1, QuietReturn
     DEF ResolveAgain, ResolveRefused, FailIsLate, ArchiveConflict, InBody
<1>4. CASE Resolve(p)
  <2> DEFINE s == op[p].step
             d == op[p].decision
             open == [mem[p] EXCEPT !.awaiting = NoStep, !.status = "running"]
             m == IF d = "approved" THEN [open EXCEPT !.approved = @ \cup {s}]
                                    ELSE [open EXCEPT !.rejected = @ \cup {s}]
             e == Rec(p, "approval.resolved", s, d, 0)
  <2>1. s \in Steps /\ d \in Decisions /\ pc[p] # "idle" /\ Frame
    BY <1>4 DEF Resolve, InBody, TypeOK, Ops
  <2>2. open \in RunState
    BY <1>2 DEF RunState, Statuses
  <2>3. m \in RunState
    BY <2>1, <2>2 DEF RunState
  <2>4. "approval.resolved" \in Kinds /\ 0 \in Nat
    BY DEF Kinds
  <2>5. e \in Event /\ e.seq = seen[p]
    BY <2>1, <2>4, RecType
  <2>6. Write(p, e, m, mem[p], Return(p, Followup(p)))
    BY <1>4 DEF Resolve
  <2> HIDE DEF s, d, open, m, e
  <2> QED BY <2>1, <2>3, <2>5, <2>6, <1>1, <1>2, WriteReturns
<1>5. CASE FailRun(p)
  <2>1. "run.failed" \in Kinds /\ NoOut \in Outputs \cup Decisions \cup {NoOut} /\ 0 \in Nat
    BY DEF Kinds, RunTerminals
  <2>2. Ev(p, "run.failed", NoStep) \in Event /\ Ev(p, "run.failed", NoStep).seq = seen[p]
    BY <2>1, RecType DEF Ev
  <2> QED BY <2>2, <1>5, <1>1, <1>2, WriteReturns DEF FailRun, InBody
<1>6. CASE Archive(p) \/ Restore(p)
  <2>1. /\ Return(p, {}) /\ pc[p] # "idle" /\ archived' \in BOOLEAN
        /\ mem' = [mem EXCEPT ![p] = mem[p]] /\ torn' \in BOOLEAN /\ writeErrors' \in Nat
        /\ UNCHANGED <<flow, journal, up, known, seen, crashes, requests>>
    BY <1>6 DEF Archive, Restore, InBody, TypeOK, bounds
  <2> QED BY <2>1, <1>1, <1>2, ReturnOnly
<1> QED BY <1>3, <1>4, <1>5, <1>6 DEF OtherStep

\* Taking the lock, reloading, refreshing.
LEMMA AcquirePreserves ==
    ASSUME IInv, NEW p \in Procs,
           Refresh(p) \/ \E o \in queue[p] : Acquire(p, o) \/ AcquireRaises(p, o)
    PROVE  IInv'
<1> USE DEF IInv
<1>1. CASE Refresh(p)
  <2>1. seen[p] = Len(journal) /\ journal \in Seq(Event)
    BY <1>1 DEF Refresh, LockInv, TypeOK
  <2>2. InMemory(p) \in Seq(Event)
    BY <2>1 DEF InMemory
  <2>3. Replay(InMemory(p)) \in RunState
    BY <2>2, ReplayType
  <2>4. NoTask \in Task
    BY DEF NoTask, Task
  <2>5. TypeOK'
    BY <1>1, <2>3, <2>4 DEF Refresh, Proceed, TypeOK, bounds
  <2>6. LockInv' /\ SequenceContiguous'
    BY <1>1 DEF Refresh, Proceed, LockInv, Numbers, TypeOK, SequenceContiguous
  <2> QED BY <2>5, <2>6
<1>2. ASSUME NEW o \in queue[p], Acquire(p, o) PROVE IInv'
  <2>1. o \in Ops
    BY DEF TypeOK
  <2>2. TypeOK'
    BY <1>2, <2>1 DEF Acquire, TypeOK, bounds
  <2>3. LockInv'
    <3>1. /\ journal \in Seq(Event) /\ journal # <<>> /\ journal' = journal
          /\ known' = known /\ lock' = p /\ p \in known /\ p \in Procs
          /\ pc' = [pc EXCEPT ![p] = "loaded"] /\ seen' = [seen EXCEPT ![p] = Len(journal)]
          /\ \A q \in Procs : pc[q] = "idle"
      BY <1>2, ProcsAssumption DEF Acquire, LockInv, TypeOK
    <3>2. Len(journal) \in DOMAIN journal /\ journal[Len(journal)].seq = Len(journal) - 1
          /\ DOMAIN journal = 1 .. Len(journal) /\ Len(journal) \in Nat
      BY <1>2, <3>1 DEF Acquire, Unreadable
    <3>3. seen'[p] = Len(journal) /\ pc'[p] = "loaded"
          /\ \A q \in Procs \ {p} : seen'[q] = seen[q] /\ pc'[q] = "idle"
      BY <3>1 DEF TypeOK
    <3>4. Numbers(p)'
      BY <3>1, <3>2, <3>3 DEF Numbers
    <3> QED BY <3>1, <3>2, <3>3, <3>4 DEF LockInv
  <2>4. SequenceContiguous'
    BY <1>2 DEF Acquire, SequenceContiguous
  <2> QED BY <2>2, <2>3, <2>4
<1>3. ASSUME NEW o \in queue[p], AcquireRaises(p, o) PROVE IInv'
  <2>1. Simple("fail") \in Ops
    BY DEF Simple, Op, Ops
  <2>2. queue' \in [Procs -> SUBSET Ops]
    BY <1>3, <2>1 DEF AcquireRaises, TypeOK
  <2>3. TypeOK'
    BY <1>3, <2>2 DEF AcquireRaises, TypeOK, bounds, shared
  <2>4. LockInv' /\ SequenceContiguous'
    BY <1>3 DEF AcquireRaises, LockInv, Numbers, SequenceContiguous, shared
  <2> QED BY <2>3, <2>4
<1> QED BY <1>1, <1>2, <1>3

\* Starting the run, processes coming and going, requests.
LEMMA EnvironmentPreserves ==
    ASSUME IInv, NEW p \in Procs, Environment(p)
    PROVE  IInv'
<1> USE DEF IInv
<1>0. /\ NoOp \in Ops /\ NoTask \in Task /\ FreshState \in RunState
      /\ Simple("advance") \in Ops
  BY FreshType DEF NoOp, NoTask, Task, Simple, Op, Ops
<1>1. CASE Start(p)
  <2> DEFINE e == Ev(p, "run.started", NoStep)
  <2>1. "run.started" \in Kinds /\ NoOut \in Outputs \cup Decisions \cup {NoOut} /\ 0 \in Nat
    BY DEF Kinds
  <2>2. e \in Event /\ e.seq = seen[p]
    BY <2>1, RecType DEF Ev
  <2>3. journal' = <<e>> /\ Len(journal') = 1 /\ journal'[1] = e /\ DOMAIN journal' = {1}
    BY <1>1 DEF Start
  <2>4. seen[p] = 0 /\ Len(journal) = 0
    BY <1>1 DEF Start, LockInv, TypeOK
  <2>5. journal' \in Seq(Event)
    BY <2>2, <2>3
  <2>6. TypeOK'
    BY <1>1, <1>0, <2>5 DEF Start, TypeOK, bounds
  <2>7. LockInv'
    BY <1>1, <2>3, <2>4, ProcsAssumption DEF Start, LockInv, TypeOK
  <2>8. SequenceContiguous'
    BY <2>2, <2>3, <2>4 DEF SequenceContiguous
  <2> HIDE DEF e
  <2> QED BY <2>6, <2>7, <2>8
<1>1r. CASE StartRaises(p)
  <2> DEFINE e == Ev(p, "run.started", NoStep)
  <2>1. "run.started" \in Kinds /\ NoOut \in Outputs \cup Decisions \cup {NoOut} /\ 0 \in Nat
    BY DEF Kinds
  <2>2. e \in Event /\ e.seq = seen[p]
    BY <2>1, RecType DEF Ev
  <2>3. Kept(e) \in Event /\ Kept(e).seq = seen[p]
    BY <2>2, KeptType
  <2>4. journal' = <<Kept(e)>> /\ Len(journal') = 1 /\ journal'[1] = Kept(e)
        /\ DOMAIN journal' = {1} /\ journal' # <<>>
    BY <1>1r DEF StartRaises
  <2>5. seen[p] = 0 /\ Len(journal) = 0 /\ lock = NoProc
    BY <1>1r DEF StartRaises, LockInv, TypeOK
  <2> HIDE DEF e
  <2>6. journal' \in Seq(Event)
    BY <2>3, <2>4
  <2>7. TypeOK'
    BY <1>1r, <2>6, BoundsAssumption DEF StartRaises, TypeOK, local
  <2>8. \A q \in Procs : pc'[q] = "idle" /\ seen'[q] = seen[q] /\ lock' = lock
    BY <1>1r, <2>5, ProcsAssumption DEF StartRaises, local, LockInv
  <2>9. LockInv'
    BY <2>4, <2>5, <2>8, ProcsAssumption DEF LockInv, TypeOK
  <2>10. SequenceContiguous'
    BY <2>3, <2>4, <2>5 DEF SequenceContiguous
  <2> QED BY <2>7, <2>9, <2>10
<1>2. CASE Boot(p)
  <2>1. Replay(journal) \in RunState
    BY ReplayType DEF TypeOK
  <2>2. pc[p] = "idle"
    BY <1>2, ProcsAssumption DEF Boot, LockInv
  <2>1a. ASSUME journal = <<>> \/ Unreadable PROVE TypeOK'
    BY <1>2, <2>1a DEF Boot, TypeOK, shared, bounds
  <2>1b. ASSUME ~(journal = <<>> \/ Unreadable) PROVE TypeOK'
    <3>1. Len(journal) \in Nat
      BY DEF TypeOK
    <3>2. seen' = [seen EXCEPT ![p] = Len(journal)] /\ known' = known \cup {p}
          /\ mem' = [mem EXCEPT ![p] = Replay(journal)] /\ up' = up \cup {p}
      BY <1>2, <2>1b DEF Boot
    <3>3. PICK Q \in SUBSET Ops : queue' = [queue EXCEPT ![p] = Q]
      <4>1. (IF p \in Services /\ ReplayStatus(journal) = "running"
             THEN {Simple("advance")} ELSE {}) \in SUBSET Ops
        BY <1>0
      <4> QED BY <1>2, <4>1, <2>1b DEF Boot
    <3>4. queue' \in [Procs -> SUBSET Ops]
      BY <3>3 DEF TypeOK
    <3>5. mem' \in [Procs -> RunState] /\ seen' \in [Procs -> Nat]
      BY <2>1, <3>1, <3>2 DEF TypeOK
    <3>6. UNCHANGED <<flow, journal, torn, archived, lock, pc, op, task, bounds>>
      BY <1>2 DEF Boot, shared
    <3> QED BY <3>2, <3>4, <3>5, <3>6 DEF TypeOK, bounds
  <2>3. TypeOK'
    BY <2>1a, <2>1b
  <2>4. LockInv'
    BY <1>2, <2>2 DEF Boot, LockInv, Numbers, TypeOK, shared
  <2>5. SequenceContiguous'
    BY <1>2 DEF Boot, SequenceContiguous, shared
  <2> QED BY <2>3, <2>4, <2>5
<1>3. CASE Crash(p)
  <2>1. TypeOK'
    BY <1>3, <1>0, BoundsAssumption DEF Crash, Down, TypeOK
  <2>2. LockInv'
    BY <1>3, ProcsAssumption DEF Crash, Down, LockInv, Numbers, TypeOK
  <2>3. SequenceContiguous'
    BY <1>3 DEF Crash, SequenceContiguous
  <2> QED BY <2>1, <2>2, <2>3
<1>4. CASE Exit(p)
  <2>1. TypeOK'
    BY <1>4, <1>0 DEF Exit, Down, TypeOK, shared, bounds
  <2>2. LockInv'
    BY <1>4 DEF Exit, Down, LockInv, Numbers, TypeOK, shared
  <2>3. SequenceContiguous'
    BY <1>4 DEF Exit, SequenceContiguous, shared
  <2> QED BY <2>1, <2>2, <2>3
<1>5. ASSUME NEW o \in ClientOps, Request(p, o) PROVE IInv'
  <2>1. o \in Ops
    BY DEF ClientOps, Simple, Op, Ops
  <2>2. TypeOK'
    BY <1>5, <2>1 DEF Request, TypeOK, shared
  <2>3. LockInv' /\ SequenceContiguous'
    BY <1>5 DEF Request, LockInv, Numbers, SequenceContiguous, shared
  <2> QED BY <2>2, <2>3
<1> QED BY <1>1, <1>1r, <1>2, <1>3, <1>4, <1>5 DEF Environment

-----------------------------------------------------------------------------
LEMMA InitIInv == Init => IInv
<1> SUFFICES ASSUME Init PROVE IInv
  OBVIOUS
<1>1. /\ NoOp \in Ops /\ NoTask \in Task /\ FreshState \in RunState
      /\ <<>> \in Seq(Event) /\ Len(<<>>) = 0 /\ DOMAIN <<>> = {}
  BY FreshType DEF NoOp, NoTask, Task, Simple, Op, Ops
<1>2. TypeOK
  BY <1>1 DEF Init, TypeOK
<1>3. LockInv
  BY <1>1, ProcsAssumption DEF Init, LockInv
<1>4. SequenceContiguous
  BY <1>1 DEF Init, SequenceContiguous
<1> QED BY <1>2, <1>3, <1>4 DEF IInv

LEMMA Invariance == Spec => []IInv
<1>1. Init => IInv
  BY InitIInv
<1>2. IInv /\ [Next]_vars => IInv'
  <2> SUFFICES ASSUME IInv, [Next]_vars PROVE IInv'
    OBVIOUS
  <2>1. ASSUME NEW p \in Procs, Work(p) PROVE IInv'
    BY <2>1, AdvancePreserves, OtherPreserves, AcquirePreserves DEF Work
  <2>2. ASSUME NEW p \in Procs, Environment(p) PROVE IInv'
    BY <2>2, EnvironmentPreserves
  <2>3. CASE UNCHANGED vars
    BY <2>3 DEF vars, shared, local, bounds, IInv, TypeOK, LockInv, Numbers,
                SequenceContiguous
  <2> QED BY <2>1, <2>2, <2>3 DEF Next
<1> QED BY <1>1, <1>2, PTL DEF Spec

\* Every reachable state is well typed.
THEOREM TypeCorrect == Spec => []TypeOK
<1>1. IInv => TypeOK
  BY DEF IInv
<1> QED BY <1>1, Invariance, PTL

\* For any processes, workflows, crashes and failed writes, the file has no gap,
\* and a number twice only where an append of the executor's event sink raised
\* behind a record that is whole, so that any other journal without a torn record loads.
THEOREM JournalIsContiguous == Spec => []SequenceContiguous
<1>1. IInv => SequenceContiguous
  BY DEF IInv
<1> QED BY <1>1, Invariance, PTL

(***************************************************************************)
(* What the records of a run stand for.  A process that holds the lock     *)
(* works on the state a replay of the file gives, so each record it writes *)
(* is one the replayed state allows (MayAppend); what a journal made of    *)
(* such records is worth follows without looking at the engine again.      *)
(***************************************************************************)

\* One record applied to a state: an iteration of _state_from_entries, for a
\* record that is in its place.
Applied(m, e) ==
    [status    |-> IF e.kind \in StatusKinds THEN StatusAfter(e.kind) ELSE m.status,
     completed |-> IF e.kind = "step.completed" THEN m.completed \cup {e.step} ELSE m.completed,
     output    |-> IF e.kind = "step.completed" THEN [m.output EXCEPT ![e.step] = e.out] ELSE m.output,
     awaiting  |-> IF e.kind = "approval.required" THEN e.step
                   ELSE IF e.kind = "approval.resolved" THEN NoStep ELSE m.awaiting,
     approved  |-> IF e.kind = "approval.resolved" /\ e.out = "approved"
                   THEN m.approved \cup {e.step} ELSE m.approved,
     rejected  |-> IF e.kind = "approval.resolved" /\ e.out = "rejected"
                   THEN m.rejected \cup {e.step} ELSE m.rejected,
     skipped   |-> IF e.kind = "step.skipped" THEN m.skipped \cup {e.step} ELSE m.skipped]

\* No step settles twice.
SettlesOnce(j) ==
    \A i, k \in DOMAIN j :
        /\ j[i].kind \in StepTerminals /\ j[k].kind \in StepTerminals
        /\ j[i].step = j[k].step
        => i = k

\* A record that names a step where replay needs one.
Placed(e) == e.kind \in {"approval.required", "step.skipped"} => e.step \in Steps

-----------------------------------------------------------------------------
\* Replay, one record at a time.

LEMMA LastIsChosen ==
    ASSUME NEW S, NEW j \in Seq(S), NEW K, NEW i, IsLast(j, K, i)
    PROVE  (CHOOSE k \in DOMAIN j : IsLast(j, K, k)) = i
<1>1. i \in DOMAIN j /\ DOMAIN j \subseteq Nat
  BY DEF IsLast
<1>2. \A k \in DOMAIN j : IsLast(j, K, k) => k = i
  BY <1>1 DEF IsLast
<1> QED BY <1>1, <1>2

LEMMA AppendFacts ==
    ASSUME NEW S, NEW j \in Seq(S), NEW e \in S
    PROVE  /\ Append(j, e) \in Seq(S) /\ Len(j) \in Nat
           /\ DOMAIN j = 1 .. Len(j) /\ DOMAIN Append(j, e) = 1 .. (Len(j) + 1)
           /\ Append(j, e)[Len(j) + 1] = e
           /\ \A i \in DOMAIN j : Append(j, e)[i] = j[i]
OBVIOUS

LEMMA LastOfAppend ==
    ASSUME NEW S, NEW j \in Seq(S), NEW e \in S, NEW K
    PROVE  /\ e.kind \in K => IsLast(Append(j, e), K, Len(j) + 1)
           /\ e.kind \notin K => \A i : IsLast(Append(j, e), K, i) <=> IsLast(j, K, i)
<1> DEFINE a == Append(j, e)
<1>1. /\ Len(j) \in Nat /\ DOMAIN j = 1 .. Len(j) /\ DOMAIN a = 1 .. (Len(j) + 1)
      /\ a[Len(j) + 1] = e /\ \A i \in DOMAIN j : a[i] = j[i]
  BY AppendFacts
<1> HIDE DEF a
<1>2. e.kind \in K => IsLast(a, K, Len(j) + 1)
  BY <1>1 DEF IsLast
<1>3. ASSUME e.kind \notin K, NEW i PROVE IsLast(a, K, i) <=> IsLast(j, K, i)
  BY <1>1, <1>3 DEF IsLast
<1> QED BY <1>2, <1>3 DEF a

LEMMA NamedAppend ==
    ASSUME NEW j \in Seq(Event), NEW e \in Event
    PROVE  /\ \A kind : Named(Append(j, e), kind) =
                 IF e.kind = kind THEN Named(j, kind) \cup ({e.step} \cap Steps) ELSE Named(j, kind)
           /\ \A d : Decided(Append(j, e), d) =
                 IF e.kind = "approval.resolved" /\ e.out = d
                 THEN Decided(j, d) \cup ({e.step} \cap Steps) ELSE Decided(j, d)
<1> DEFINE a == Append(j, e)
<1>1. /\ Len(j) \in Nat /\ DOMAIN j = 1 .. Len(j) /\ DOMAIN a = 1 .. (Len(j) + 1)
      /\ a[Len(j) + 1] = e /\ \A i \in DOMAIN j : a[i] = j[i]
  BY AppendFacts
<1>2. DOMAIN a = DOMAIN j \cup {Len(j) + 1}
  BY <1>1
<1> HIDE DEF a
<1>3. ASSUME NEW kind
      PROVE  Named(a, kind) =
               IF e.kind = kind THEN Named(j, kind) \cup ({e.step} \cap Steps) ELSE Named(j, kind)
  BY <1>1, <1>2 DEF Named
<1>4. ASSUME NEW d
      PROVE  Decided(a, d) = IF e.kind = "approval.resolved" /\ e.out = d
                             THEN Decided(j, d) \cup ({e.step} \cap Steps) ELSE Decided(j, d)
  BY <1>1, <1>2 DEF Decided
<1> QED BY <1>3, <1>4 DEF a

LEMMA StatusAppend ==
    ASSUME NEW j \in Seq(Event), NEW e \in Event
    PROVE  ReplayStatus(Append(j, e)) =
             IF e.kind \in StatusKinds THEN StatusAfter(e.kind) ELSE ReplayStatus(j)
<1> DEFINE a == Append(j, e)
<1>1. a \in Seq(Event) /\ a[Len(j) + 1] = e /\ Len(j) + 1 \in DOMAIN a /\ \A i \in DOMAIN j : a[i] = j[i]
  BY AppendFacts
<1>2. CASE e.kind \in StatusKinds
  <2>1. IsLast(a, StatusKinds, Len(j) + 1)
    BY <1>2, LastOfAppend
  <2>2. (CHOOSE i \in DOMAIN a : IsLast(a, StatusKinds, i)) = Len(j) + 1
    BY <1>1, <2>1, LastIsChosen
  <2> HIDE DEF a
  <2> QED BY <1>1, <1>2, <2>1, <2>2 DEF ReplayStatus, a
<1>3. CASE e.kind \notin StatusKinds
  <2>1. \A i : IsLast(a, StatusKinds, i) <=> IsLast(j, StatusKinds, i)
    BY <1>3, LastOfAppend
  <2>2. CASE \E i \in DOMAIN j : IsLast(j, StatusKinds, i)
    <3>1. PICK i \in DOMAIN j : IsLast(j, StatusKinds, i)
      BY <2>2
    <3>2. IsLast(a, StatusKinds, i) /\ i \in DOMAIN a
      BY <2>1, <3>1 DEF IsLast
    <3>3. (CHOOSE k \in DOMAIN a : IsLast(a, StatusKinds, k)) = i
      BY <1>1, <3>2, LastIsChosen
    <3>4. (CHOOSE k \in DOMAIN j : IsLast(j, StatusKinds, k)) = i
      BY <3>1, LastIsChosen
    <3>5. ReplayStatus(a) = StatusAfter(a[i].kind) /\ ReplayStatus(j) = StatusAfter(j[i].kind)
      BY <3>1, <3>2, <3>3, <3>4 DEF ReplayStatus
    <3> QED BY <1>1, <1>3, <3>1, <3>5
  <2>3. CASE ~\E i \in DOMAIN j : IsLast(j, StatusKinds, i)
    <3>1. ~\E i \in DOMAIN a : IsLast(a, StatusKinds, i)
      BY <2>1, <2>3 DEF IsLast
    <3> QED BY <1>3, <2>3, <3>1 DEF ReplayStatus
  <2> QED BY <2>2, <2>3
<1> QED BY <1>2, <1>3

LEMMA AwaitingAppend ==
    ASSUME NEW j \in Seq(Event), NEW e \in Event
    PROVE  ReplayAwaiting(Append(j, e)) =
             IF e.kind = "approval.required" THEN e.step
             ELSE IF e.kind = "approval.resolved" THEN NoStep ELSE ReplayAwaiting(j)
<1> DEFINE a == Append(j, e)
<1>1. a \in Seq(Event) /\ a[Len(j) + 1] = e /\ Len(j) + 1 \in DOMAIN a /\ \A i \in DOMAIN j : a[i] = j[i]
  BY AppendFacts
<1>2. CASE e.kind \in GateKinds
  <2>1. IsLast(a, GateKinds, Len(j) + 1)
    BY <1>2, LastOfAppend
  <2>2. (CHOOSE i \in DOMAIN a : IsLast(a, GateKinds, i)) = Len(j) + 1
    BY <1>1, <2>1, LastIsChosen
  <2>3. \A i \in DOMAIN a : IsLast(a, GateKinds, i) => i = Len(j) + 1
    BY <1>1, <2>2, LastIsChosen
  <2> HIDE DEF a
  <2> QED BY <1>1, <1>2, <2>1, <2>2, <2>3 DEF ReplayAwaiting, GateKinds, a
<1>3. CASE e.kind \notin GateKinds
  <2>1. \A i : IsLast(a, GateKinds, i) <=> IsLast(j, GateKinds, i)
    BY <1>3, LastOfAppend
  <2>2. CASE \E i \in DOMAIN j : IsLast(j, GateKinds, i) /\ j[i].kind = "approval.required"
    <3>1. PICK i \in DOMAIN j : IsLast(j, GateKinds, i) /\ j[i].kind = "approval.required"
      BY <2>2
    <3>2. IsLast(a, GateKinds, i) /\ i \in DOMAIN a /\ a[i].kind = "approval.required"
      BY <1>1, <2>1, <3>1 DEF IsLast
    <3>3. (CHOOSE k \in DOMAIN a : IsLast(a, GateKinds, k)) = i
      BY <1>1, <3>2, LastIsChosen
    <3>4. (CHOOSE k \in DOMAIN j : IsLast(j, GateKinds, k)) = i
      BY <3>1, LastIsChosen
    <3>5. ReplayAwaiting(a) = a[i].step /\ ReplayAwaiting(j) = j[i].step
      BY <3>1, <3>2, <3>3, <3>4 DEF ReplayAwaiting
    <3> QED BY <1>1, <1>3, <3>1, <3>5 DEF GateKinds
  <2>3. CASE ~\E i \in DOMAIN j : IsLast(j, GateKinds, i) /\ j[i].kind = "approval.required"
    <3>1. ~\E i \in DOMAIN a : IsLast(a, GateKinds, i) /\ a[i].kind = "approval.required"
      BY <1>1, <2>1, <2>3 DEF IsLast
    <3> QED BY <1>3, <2>3, <3>1 DEF ReplayAwaiting, GateKinds
  <2> QED BY <2>2, <2>3
<1> QED BY <1>2, <1>3 DEF GateKinds

LEMMA OutputAppend ==
    ASSUME NEW j \in Seq(Event), NEW e \in Event, NEW s \in Steps, SettlesOnce(j),
           e.kind = "step.completed" => e.step \notin Named(j, "step.completed")
    PROVE  ReplayOutput(Append(j, e), s) =
             IF e.kind = "step.completed" /\ e.step = s THEN e.out ELSE ReplayOutput(j, s)
<1> DEFINE a == Append(j, e)
           P(k, i) == k[i].kind = "step.completed" /\ k[i].step = s
<1>1. /\ Len(j) \in Nat /\ DOMAIN j = 1 .. Len(j) /\ DOMAIN a = 1 .. (Len(j) + 1)
      /\ a[Len(j) + 1] = e /\ \A i \in DOMAIN j : a[i] = j[i]
  BY AppendFacts
<1>2. "step.completed" \in StepTerminals
  BY DEF StepTerminals
<1>n. s \in Named(a, "step.completed") <=>
        s \in Named(j, "step.completed") \/ (e.kind = "step.completed" /\ e.step = s)
  BY NamedAppend
<1> HIDE DEF a
<1>3. CASE e.kind = "step.completed" /\ e.step = s
  <2>1. \A i \in DOMAIN a : P(a, i) <=> i = Len(j) + 1
    BY <1>1, <1>3 DEF Named
  <2>2. (CHOOSE i \in DOMAIN a : P(a, i)) = Len(j) + 1
    BY <1>1, <2>1
  <2>3. ReplayOutput(a, s) = a[Len(j) + 1].out
    BY <1>3, <1>n, <2>2 DEF ReplayOutput
  <2> QED BY <1>1, <1>3, <2>3 DEF a
<1>4. CASE ~(e.kind = "step.completed" /\ e.step = s) /\ s \in Named(j, "step.completed")
  <2>1. PICK i \in DOMAIN j : P(j, i)
    BY <1>4 DEF Named
  <2>2. \A k \in DOMAIN j : P(j, k) <=> k = i
    BY <1>2, <2>1 DEF SettlesOnce
  <2>3. \A k \in DOMAIN a : P(a, k) <=> k = i
    BY <1>1, <1>4, <2>1, <2>2
  <2>4. (CHOOSE k \in DOMAIN j : P(j, k)) = i /\ (CHOOSE k \in DOMAIN a : P(a, k)) = i
    BY <1>1, <2>1, <2>2, <2>3
  <2>5. ReplayOutput(a, s) = a[i].out /\ ReplayOutput(j, s) = j[i].out
    BY <1>4, <1>n, <2>4 DEF ReplayOutput
  <2> QED BY <1>1, <1>4, <2>1, <2>5 DEF a
<1>5. CASE ~(e.kind = "step.completed" /\ e.step = s) /\ s \notin Named(j, "step.completed")
  BY <1>5, <1>n DEF ReplayOutput, a
<1> QED BY <1>3, <1>4, <1>5

\* The induction step of replay: the closed form of a journal with one more
\* record is that record applied to what was there.
LEMMA ReplayAppend ==
    ASSUME NEW j \in Seq(Event), NEW e \in Event, SettlesOnce(j), Placed(e),
           e.kind = "step.completed" => e.step \notin Named(j, "step.completed")
    PROVE  Replay(Append(j, e)) = Applied(Replay(j), e)
<1> DEFINE a == Append(j, e)
<1>1. e.kind \in {"step.completed", "approval.resolved", "step.skipped"} => e.step \in Steps
  BY DEF Event, Placed
<1>2. Named(a, "step.completed") =
        IF e.kind = "step.completed" THEN Named(j, "step.completed") \cup {e.step}
                                     ELSE Named(j, "step.completed")
  BY <1>1, NamedAppend
<1>3. Named(a, "step.skipped") =
        IF e.kind = "step.skipped" THEN Named(j, "step.skipped") \cup {e.step}
                                   ELSE Named(j, "step.skipped")
  BY <1>1, NamedAppend
<1>4. \A d : Decided(a, d) = IF e.kind = "approval.resolved" /\ e.out = d
                             THEN Decided(j, d) \cup {e.step} ELSE Decided(j, d)
  BY <1>1, NamedAppend
<1>5. [s \in Steps |-> ReplayOutput(a, s)] =
        IF e.kind = "step.completed"
        THEN [[s \in Steps |-> ReplayOutput(j, s)] EXCEPT ![e.step] = e.out]
        ELSE [s \in Steps |-> ReplayOutput(j, s)]
  <2>1. \A s \in Steps : ReplayOutput(a, s) =
           IF e.kind = "step.completed" /\ e.step = s THEN e.out ELSE ReplayOutput(j, s)
    BY OutputAppend
  <2> HIDE DEF a
  <2> QED BY <1>1, <2>1
<1>6. ReplayStatus(a) = IF e.kind \in StatusKinds THEN StatusAfter(e.kind) ELSE ReplayStatus(j)
  BY StatusAppend
<1>7. ReplayAwaiting(a) = IF e.kind = "approval.required" THEN e.step
                          ELSE IF e.kind = "approval.resolved" THEN NoStep ELSE ReplayAwaiting(j)
  BY AwaitingAppend
<1> HIDE DEF a
<1> QED BY <1>2, <1>3, <1>4, <1>5, <1>6, <1>7 DEF Replay, Applied, a

-----------------------------------------------------------------------------
\* What the engine may write behind a journal that replays to m.

Settled(m) == m.completed \cup m.skipped

\* The run is at s: neither settled nor refused.
Current(m, s) == m.status = "running" /\ s \in Steps \ (Settled(m) \cup m.rejected)

Due(m, s) == Current(m, s) /\ flow.step[s].deps \subseteq m.completed

MayStart(m, s) == Due(m, s) /\ (NeedsApproval(s) => s \in m.approved)

MayAppend(j, e) ==
    LET m == Replay(j)  s == e.step IN
    CASE e.kind = "run.started" -> j = <<>>
      [] e.kind = "step.failed" -> Current(m, s)
      [] e.kind = "step.ready" -> Due(m, s)
      [] e.kind \in {"step.started", "attempt.assigned", "context.manifest",
                     "step.completed"} -> MayStart(m, s)
      [] e.kind = "step.skipped" -> Current(m, s) /\ flow.step[s].deps \subseteq Settled(m)
      [] e.kind = "approval.required" ->
            /\ m.status = "running" /\ s \in Steps \ (m.approved \cup m.rejected)
            /\ IF s \in m.completed THEN flow.step[s].gate = "after"
               ELSE NeedsApproval(s) /\ s \notin m.skipped
      [] e.kind = "approval.resolved" ->
            /\ m.status = "awaiting_approval" /\ m.awaiting = s
            /\ s \notin m.approved \cup m.rejected
      [] e.kind = "run.completed" -> m.status = "running" /\ \A t \in Steps : Passed(m, t)
      [] e.kind = "run.failed" -> m.status # "completed" /\ ~Terminal(j)
      [] OTHER -> FALSE

\* The journal has begun where anything else was written.
Begun(j, e) == e.kind # "run.started" => j # <<>>

Ended(j) == \E i \in DOMAIN j : j[i].kind \in {"step.failed"} \cup RunTerminals

\* What holds of every journal whose records were allowed one by one.
History ==
    /\ Ended(journal) => ReplayStatus(journal) \in {"completed", "failed"}
    /\ CanonicalHistory
    /\ SettledStepsStaySettled
    /\ GateBeforeWork
    /\ OneDecisionPerGate

LEMMA AppliedIsReplay ==
    ASSUME NEW e \in Event, journal \in Seq(Event), History, MayAppend(journal, e)
    PROVE  Replay(Append(journal, e)) = Applied(Replay(journal), e)
<1>1. SettlesOnce(journal)
  BY DEF History, CanonicalHistory, SettlesOnce
<1>2. Placed(e) /\ (e.kind = "step.completed" => e.step \notin Named(journal, "step.completed"))
  BY DEF MayAppend, MayStart, Due, Current, Settled, Placed, Replay
<1> QED BY <1>1, <1>2, ReplayAppend

\* A record on a step is allowed only while the run has not ended, and never
\* on a step that has its terminal.
LEMMA NothingAfterTheEnd ==
    ASSUME NEW e \in Event, journal \in Seq(Event), History, MayAppend(journal, e)
    PROVE  /\ e.kind # "run.failed" => ~Ended(journal)
           /\ ~Terminal(journal)
           /\ e.kind \in StepTerminals \cup {"step.ready", "step.started",
                                          "attempt.assigned", "context.manifest"}
              => \A i \in DOMAIN journal :
                    journal[i].kind \in StepTerminals => journal[i].step # e.step
<1>1. ASSUME e.kind # "run.failed", e.kind # "run.started"
      PROVE ReplayStatus(journal) \in {"running", "awaiting_approval"}
  BY <1>1 DEF MayAppend, MayStart, Due, Current, Replay
<1>2. e.kind = "run.started" => journal = <<>>
  BY DEF MayAppend
<1>3. e.kind # "run.failed" => ~Ended(journal)
  BY <1>1, <1>2 DEF History, Ended
<1>4. ~Terminal(journal)
  <2>1. CASE e.kind = "run.failed"
    BY <2>1 DEF MayAppend
  <2>2. CASE e.kind # "run.failed"
    BY <2>2, <1>3 DEF Ended, Terminal
  <2> QED BY <2>1, <2>2
<1>5. ASSUME e.kind \in StepTerminals \cup {"step.ready", "step.started",
                                         "attempt.assigned", "context.manifest"},
             NEW i \in DOMAIN journal, journal[i].kind \in StepTerminals
      PROVE  journal[i].step # e.step
  <2>1. Current(Replay(journal), e.step)
    BY <1>5 DEF MayAppend, MayStart, Due, StepTerminals
  <2>2. e.step \in Steps /\ e.step \notin Named(journal, "step.completed")
        /\ e.step \notin Named(journal, "step.skipped")
    BY <2>1 DEF Current, Settled, Replay
  <2>3. journal[i].kind # "step.failed"
    BY <1>3, <1>5 DEF Ended, StepTerminals
  <2> QED BY <1>5, <2>2, <2>3 DEF StepTerminals, Named
<1> QED BY <1>3, <1>4, <1>5

\* A journal grown by an allowed record is still sound.
LEMMA HistoryAppend ==
    ASSUME NEW e \in Event, journal \in Seq(Event), History,
           MayAppend(journal, e), Begun(journal, e),
           journal' = Append(journal, e), flow' = flow
    PROVE  History'
<1> DEFINE n == Len(journal) + 1
<1>1. /\ Len(journal) \in Nat /\ DOMAIN journal = 1 .. Len(journal)
      /\ DOMAIN journal' = 1 .. n /\ Len(journal') = n
      /\ journal'[n] = e /\ \A i \in DOMAIN journal : journal'[i] = journal[i]
  BY AppendFacts
<1>2. \A i \in DOMAIN journal' : i = n \/ (i \in DOMAIN journal /\ i < n)
  BY <1>1
<1> HIDE DEF n
<1>3. (Ended(journal) => ReplayStatus(journal) \in {"completed", "failed"})'
  <2>1. ReplayStatus(journal') =
          IF e.kind \in StatusKinds THEN StatusAfter(e.kind) ELSE ReplayStatus(journal)
    BY StatusAppend
  <2>2. CASE e.kind \in {"step.failed"} \cup RunTerminals
    BY <2>1, <2>2 DEF StatusKinds, StatusAfter, RunTerminals
  <2>3. CASE e.kind \notin {"step.failed"} \cup RunTerminals
    <3>1. ~Ended(journal)
      BY <2>3, NothingAfterTheEnd DEF RunTerminals
    <3>2. ~Ended(journal')
      BY <1>1, <1>2, <2>3, <3>1 DEF Ended
    <3> QED BY <3>2
  <2> QED BY <2>2, <2>3
<1>4. CanonicalHistory'
  <2>1. ASSUME NEW i \in DOMAIN journal'
        PROVE  journal'[i].kind = "run.started" <=> i = 1
    <3>1. e.kind = "run.started" <=> n = 1
      <4>1. e.kind = "run.started" => Len(journal) = 0
        BY DEF MayAppend
      <4>2. e.kind # "run.started" => Len(journal) # 0
        BY DEF Begun
      <4> QED BY <1>1, <4>1, <4>2 DEF n
    <3> QED BY <1>1, <1>2, <3>1 DEF History, CanonicalHistory
  <2>2. ASSUME NEW i \in DOMAIN journal', journal'[i].kind \in RunTerminals
        PROVE  i = Len(journal')
    BY <1>1, <1>2, <2>2, NothingAfterTheEnd DEF Terminal
  <2>3. ASSUME NEW i \in DOMAIN journal', NEW k \in DOMAIN journal',
               journal'[i].kind \in StepTerminals, journal'[k].kind \in StepTerminals,
               journal'[i].step = journal'[k].step
        PROVE  i = k
    BY <1>1, <1>2, <2>3, NothingAfterTheEnd DEF History, CanonicalHistory
  <2> QED BY <2>1, <2>2, <2>3 DEF CanonicalHistory
<1>5. SettledStepsStaySettled'
  BY <1>1, <1>2, NothingAfterTheEnd DEF History, SettledStepsStaySettled
<1>6. GateBeforeWork'
  <2> SUFFICES ASSUME NEW i \in DOMAIN journal', journal'[i].kind = "step.started",
                      NeedsApproval(journal'[i].step)
               PROVE  \E k \in 1 .. i - 1 :
                        /\ journal'[k].kind = "approval.resolved"
                        /\ journal'[k].step = journal'[i].step /\ journal'[k].out = "approved"
    BY DEF GateBeforeWork, NeedsApproval
  <2>1. CASE i \in DOMAIN journal
    <3>1. PICK k \in 1 .. i - 1 :
             /\ journal[k].kind = "approval.resolved"
             /\ journal[k].step = journal[i].step /\ journal[k].out = "approved"
      BY <1>1, <2>1 DEF History, GateBeforeWork, NeedsApproval
    <3>2. k \in DOMAIN journal
      BY <1>1, <2>1
    <3> QED BY <1>1, <2>1, <3>1, <3>2
  <2>2. CASE i = n
    <3>1. e.step \in Decided(journal, "approved")
      BY <1>1, <2>2 DEF MayAppend, MayStart, Replay
    <3>2. PICK k \in DOMAIN journal :
             journal[k].kind = "approval.resolved" /\ journal[k].step = e.step
             /\ journal[k].out = "approved"
      BY <3>1 DEF Decided
    <3>3. k \in 1 .. i - 1
      BY <1>1, <2>2, <3>2 DEF n
    <3> QED BY <1>1, <2>2, <3>2, <3>3
  <2> QED BY <1>2, <2>1, <2>2
<1>7. OneDecisionPerGate'
  <2> SUFFICES ASSUME NEW k \in DOMAIN journal', journal'[k].kind = "approval.resolved"
               PROVE  /\ Precedes(k, "approval.required", journal[k].step)'
                      /\ ~Precedes(k, "approval.resolved", journal[k].step)'
    BY DEF OneDecisionPerGate
  <2>1. CASE k \in DOMAIN journal
    <3>1. Precedes(k, "approval.required", journal[k].step)
          /\ ~Precedes(k, "approval.resolved", journal[k].step)
      BY <1>1, <2>1 DEF History, OneDecisionPerGate
    <3>2. \A i \in DOMAIN journal' : i < k => i \in DOMAIN journal
      BY <1>1, <1>2, <2>1
    <3> QED BY <1>1, <2>1, <3>1, <3>2 DEF Precedes
  <2>2. CASE k = n
    <3>1. /\ ReplayAwaiting(journal) = e.step /\ e.step \in Steps /\ e.out \in Decisions
          /\ e.step \notin Decided(journal, "approved") \cup Decided(journal, "rejected")
      BY <1>1, <2>2 DEF MayAppend, Replay, Event
    <3>2. PICK i \in DOMAIN journal : journal[i].kind = "approval.required"
                                      /\ journal[i].step = e.step
      <4>1. ReplayAwaiting(journal) # NoStep
        BY <3>1, StepsAssumption
      <4>2. PICK i \in DOMAIN journal :
               IsLast(journal, GateKinds, i) /\ journal[i].kind = "approval.required"
        BY <4>1 DEF ReplayAwaiting
      <4>3. (CHOOSE x \in DOMAIN journal : IsLast(journal, GateKinds, x)) = i
        BY <4>2, LastIsChosen
      <4>4. ReplayAwaiting(journal) = journal[i].step
        BY <4>2, <4>3 DEF ReplayAwaiting
      <4> QED BY <3>1, <4>2, <4>4
    <3>3. \A x \in DOMAIN journal :
             ~(journal[x].kind = "approval.resolved" /\ journal[x].step = e.step)
      <4>1. \A x \in DOMAIN journal : journal[x].kind = "approval.resolved"
                                      => journal[x].out \in Decisions
        BY DEF Event
      <4> QED BY <3>1, <4>1 DEF Decided, Decisions
    <3>4. i < k /\ i \in DOMAIN journal'
      BY <1>1, <2>2, <3>2 DEF n
    <3>5. \A x \in DOMAIN journal' : x < k => x \in DOMAIN journal
      BY <1>2, <2>2
    <3> QED BY <1>1, <2>2, <3>2, <3>3, <3>4, <3>5 DEF Precedes
  <2> QED BY <1>2, <2>1, <2>2
<1> QED BY <1>3, <1>4, <1>5, <1>6, <1>7 DEF History

-----------------------------------------------------------------------------
\* The operations: what each leaves in memory and writes behind the journal.

\* The state in memory is the replayed one, and a step between its first
\* record and its terminal is still the one the run is at.
Mirrors(p) ==
    /\ pc[p] \in {"body", "gate", "executing"} => mem[p] = Replay(journal)
    /\ pc[p] = "gate" => Due(mem[p], task[p].step)
    /\ pc[p] = "executing" => MayStart(mem[p], task[p].step)

HInv ==
    /\ IInv
    /\ History
    /\ known # {} => journal # <<>>
    /\ \A p \in Procs : Mirrors(p)

\* An operation ends without a record, or writes one the journal allows and,
\* when it goes on, has applied it to its memory.
Outcome(p) ==
    \/ journal' = journal /\ pc'[p] = "idle"
    \/ journal' = journal /\ pc'[p] = pc[p] /\ mem'[p] = mem[p] /\ task'[p] = task[p]
    \/ \E e \in Event :
          /\ journal' = Append(journal, e) /\ MayAppend(journal, e) /\ Begun(journal, e)
          /\ \/ pc'[p] = "idle"
             \/ /\ mem'[p] = Applied(mem[p], e)
                /\ \/ pc'[p] = "body"
                   \/ pc'[p] = "gate" /\ e.kind = "step.ready" /\ task'[p].step = e.step
                   \/ /\ pc'[p] = "executing" /\ task'[p].step = e.step
                      /\ e.kind \in {"step.started", "attempt.assigned", "context.manifest"}

\* What every operation leaves to the other processes.
Alone(p) ==
    /\ \A q \in Procs \ {p} : pc'[q] = pc[q] /\ task'[q] = task[q] /\ mem'[q] = mem[q]
    /\ flow' = flow /\ known' = known

LEMMA OutcomePreserves ==
    ASSUME HInv, IInv', NEW p \in Procs, pc[p] \in {"body", "gate", "executing"},
           Outcome(p), Alone(p)
    PROVE  HInv'
<1> USE DEF HInv
<1>0. journal \in Seq(Event) /\ mem[p] = Replay(journal) /\ p \in known
      /\ \A q \in Procs \ {p} : pc'[q] = "idle"
  BY ProcsAssumption DEF IInv, TypeOK, LockInv, Mirrors, Alone
<1>1. CASE journal' = journal /\ pc'[p] = "idle"
  <2>1. History'
    BY <1>1 DEF Alone, History, Ended, CanonicalHistory, SettledStepsStaySettled,
               GateBeforeWork, OneDecisionPerGate, Precedes
  <2>2. \A q \in Procs : Mirrors(q)'
    BY <1>0, <1>1 DEF Mirrors
  <2> QED BY <1>1, <2>1, <2>2 DEF Alone
<1>1s. CASE journal' = journal /\ pc'[p] = pc[p] /\ mem'[p] = mem[p] /\ task'[p] = task[p]
  <2>1. History'
    BY <1>1s DEF Alone, History, Ended, CanonicalHistory, SettledStepsStaySettled,
                GateBeforeWork, OneDecisionPerGate, Precedes
  <2>2. \A q \in Procs : Mirrors(q)'
    BY <1>0, <1>1s DEF Mirrors, MayStart, Due, Current, Settled, NeedsApproval, Alone
  <2> QED BY <1>1s, <2>1, <2>2 DEF Alone
<1>2. ASSUME NEW e \in Event,
             journal' = Append(journal, e), MayAppend(journal, e), Begun(journal, e),
             \/ pc'[p] = "idle"
             \/ /\ mem'[p] = Applied(mem[p], e)
                /\ \/ pc'[p] = "body"
                   \/ pc'[p] = "gate" /\ e.kind = "step.ready" /\ task'[p].step = e.step
                   \/ /\ pc'[p] = "executing" /\ task'[p].step = e.step
                      /\ e.kind \in {"step.started", "attempt.assigned", "context.manifest"}
      PROVE  HInv'
  <2>1. History'
    BY <1>0, <1>2, HistoryAppend DEF Alone
  <2>2. journal' # <<>>
    BY <1>0, <1>2
  <2>3. Replay(journal') = Applied(Replay(journal), e)
    BY <1>0, <1>2, AppliedIsReplay
  <2>4. Mirrors(p)'
    <3>1. CASE pc'[p] = "idle"
      BY <3>1 DEF Mirrors
    <3>2. CASE pc'[p] = "body" /\ mem'[p] = Applied(mem[p], e)
      BY <1>0, <2>3, <3>2 DEF Mirrors
    <3>3. ASSUME pc'[p] \in {"gate", "executing"}, mem'[p] = Applied(mem[p], e),
                 task'[p].step = e.step,
                 e.kind \in {"step.ready", "step.started", "attempt.assigned", "context.manifest"},
                 pc'[p] = "gate" => e.kind = "step.ready",
                 pc'[p] = "executing" => e.kind # "step.ready"
          PROVE  Mirrors(p)'
      <4>1. LET m == mem[p]  w == mem'[p] IN
            /\ w.status = m.status /\ w.completed = m.completed /\ w.skipped = m.skipped
            /\ w.approved = m.approved /\ w.rejected = m.rejected
        BY <3>3 DEF Applied, StatusKinds, RunTerminals
      <4>2. e.kind = "step.ready" => Due(mem[p], e.step)
        BY <1>0, <1>2 DEF MayAppend
      <4>3. e.kind # "step.ready" => MayStart(mem[p], e.step)
        BY <1>0, <1>2, <3>3 DEF MayAppend
      <4>4. mem'[p] = Replay(journal)'
        BY <1>0, <2>3, <3>3
      <4> QED BY <3>3, <4>1, <4>2, <4>3, <4>4
              DEF Mirrors, MayStart, Due, Current, Settled, NeedsApproval, Alone
    <3> QED BY <1>2, <3>1, <3>2, <3>3
  <2>5. \A q \in Procs \ {p} : Mirrors(q)'
    BY <1>0 DEF Mirrors
  <2> QED BY <2>1, <2>2, <2>4, <2>5
<1> QED BY <1>1, <1>1s, <1>2 DEF Outcome

\* The frame of the two ways an append goes on.
LEMMA ProceedIsAlone ==
    ASSUME TypeOK, NEW p \in Procs, NEW at, NEW t, NEW m, Frame, Proceed(p, at, t),
           mem' = [mem EXCEPT ![p] = m]
    PROVE  Alone(p) /\ pc'[p] = at /\ task'[p] = t /\ mem'[p] = m
BY DEF TypeOK, Frame, Proceed, Alone

LEMMA ReturnIsAlone ==
    ASSUME TypeOK, NEW p \in Procs, NEW next, NEW m, Return(p, next),
           mem' = [mem EXCEPT ![p] = m], UNCHANGED <<flow, known>>
    PROVE  Alone(p) /\ pc'[p] = "idle"
BY DEF TypeOK, Return, Alone

\* A record in the file that its writer does not have says what it would have
\* said.
LEMMA KeptIsAllowed ==
    ASSUME NEW e \in Event, MayAppend(journal, e), Begun(journal, e)
    PROVE  Kept(e) \in Event /\ MayAppend(journal, Kept(e)) /\ Begun(journal, Kept(e))
<1> DEFINE k == Kept(e)
<1>1. k \in Event /\ k.kind = e.kind /\ k.step = e.step
  BY KeptType
<1> HIDE DEF k
<1>2. MayAppend(journal, k) /\ Begun(journal, k)
  BY <1>1 DEF MayAppend, Begun
<1> QED BY <1>1, <1>2 DEF k

LEMMA RaiseAndReturn ==
    ASSUME TypeOK, NEW p \in Procs, NEW e \in Event, NEW mErr, Raises(p, e),
           mem' = [mem EXCEPT ![p] = mErr], Return(p, OnError(p)), Frame,
           MayAppend(journal, e), Begun(journal, e)
    PROVE  Outcome(p) /\ Alone(p)
<1>1. Alone(p) /\ pc'[p] = "idle"
  BY ReturnIsAlone DEF Frame
<1>2. CASE journal' = journal
  BY <1>1, <1>2 DEF Outcome
<1>3. CASE journal' = Append(journal, Kept(e))
  BY <1>1, <1>3, KeptIsAllowed DEF Outcome
<1> QED BY <1>2, <1>3 DEF Raises

\* A write followed by a return: only the record has to be justified.
LEMMA WriteAndReturn ==
    ASSUME TypeOK, NEW p \in Procs, NEW e \in Event, NEW m, NEW mErr, NEW next,
           Write(p, e, m, mErr, Return(p, next)), Frame,
           MayAppend(journal, e), Begun(journal, e)
    PROVE  Outcome(p) /\ Alone(p)
<1>1. CASE /\ journal' = Append(journal, e) /\ mem' = [mem EXCEPT ![p] = m] /\ Return(p, next)
  <2>1. Alone(p) /\ pc'[p] = "idle"
    BY <1>1, ReturnIsAlone DEF Frame
  <2> QED BY <1>1, <2>1 DEF Outcome
<1>2. CASE Raises(p, e) /\ mem' = [mem EXCEPT ![p] = mErr] /\ Return(p, OnError(p))
  BY <1>2, RaiseAndReturn
<1> QED BY <1>1, <1>2 DEF Write

\* A write the operation goes on after: the memory it leaves is the record
\* applied to the memory it had.
LEMMA WriteAndProceed ==
    ASSUME TypeOK, NEW p \in Procs, NEW e \in Event, NEW m, NEW mErr, NEW at, NEW t,
           Write(p, e, m, mErr, Proceed(p, at, t)), Frame,
           MayAppend(journal, e), Begun(journal, e), m = Applied(mem[p], e),
           \/ at = "body"
           \/ at = "gate" /\ e.kind = "step.ready" /\ t.step = e.step
           \/ /\ at = "executing" /\ t.step = e.step
              /\ e.kind \in {"step.started", "attempt.assigned", "context.manifest"}
    PROVE  Outcome(p) /\ Alone(p)
<1>1. CASE /\ journal' = Append(journal, e) /\ mem' = [mem EXCEPT ![p] = m]
           /\ Proceed(p, at, t)
  <2>1. Alone(p) /\ pc'[p] = at /\ task'[p] = t /\ mem'[p] = m
    BY <1>1, ProceedIsAlone
  <2> QED BY <1>1, <2>1 DEF Outcome
<1>2. CASE Raises(p, e) /\ mem' = [mem EXCEPT ![p] = mErr] /\ Return(p, OnError(p))
  BY <1>2, RaiseAndReturn
<1> QED BY <1>1, <1>2 DEF Write

\* A process in an operation works on what the file says.
LEMMA Facts ==
    ASSUME HInv, NEW p \in Procs, pc[p] \in {"body", "gate", "executing"}
    PROVE  /\ TypeOK /\ journal \in Seq(Event) /\ journal # <<>>
           /\ mem[p] = Replay(journal) /\ mem[p] \in RunState
           /\ Terminal(InMemory(p)) <=> Terminal(journal)
           /\ Terminal(journal) => mem[p].status \in {"completed", "failed"}
           /\ WellFormed(flow)
<1>1. TypeOK /\ journal \in Seq(Event) /\ journal # <<>> /\ mem[p] = Replay(journal)
  BY DEF HInv, IInv, TypeOK, LockInv, Mirrors
<1>2. Terminal(InMemory(p)) <=> Terminal(journal)
  <2>1. /\ seen[p] \in Nat /\ seen[p] <= Len(journal) /\ Len(journal) \in Nat
        /\ \A i \in DOMAIN journal : i > seen[p] => journal[i].kind \notin RunTerminals
    <3>1. pc[p] # "idle" /\ LockInv /\ seen \in [Procs -> Nat]
      BY <1>1 DEF HInv, IInv, TypeOK
    <3> QED BY <1>1, <3>1 DEF LockInv
  <2>2. DOMAIN InMemory(p) = 1 .. seen[p] /\ DOMAIN journal = 1 .. Len(journal)
        /\ \A i \in 1 .. seen[p] : InMemory(p)[i] = journal[i]
    BY <1>1, <2>1 DEF InMemory
  <2>3. \A i \in DOMAIN journal : i \in 1 .. seen[p] \/ i > seen[p]
    BY <2>1, <2>2
  <2>4. 1 .. seen[p] \subseteq DOMAIN journal
    BY <2>1, <2>2
  <2> QED BY <2>1, <2>2, <2>3, <2>4 DEF Terminal
<1>3. Terminal(journal) => Ended(journal)
  BY DEF Terminal, Ended
<1>4. Terminal(journal) => mem[p].status \in {"completed", "failed"}
  BY <1>1, <1>3 DEF HInv, History, Replay
<1> QED BY <1>1, <1>2, <1>4, FlowsAssumption DEF TypeOK

LEMMA EvFacts ==
    ASSUME TypeOK, NEW p \in Procs, NEW s \in Steps \cup {NoStep},
           NEW kind \in Kinds \ {"step.completed", "approval.resolved"}
    PROVE  /\ Ev(p, kind, s) \in Event
           /\ Ev(p, kind, s).kind = kind /\ Ev(p, kind, s).step = s
<1>1. Ev(p, kind, s) \in Event
  BY RecType DEF Ev
<1> QED BY <1>1 DEF Ev, Rec

\* A record that leaves the replayed state alone, and those that change one
\* field of it.
LEMMA AppliedState ==
    ASSUME NEW m \in RunState, NEW e \in Event
    PROVE  /\ e.kind \in {"step.ready", "step.started", "attempt.assigned",
                          "context.manifest"} => Applied(m, e) = m
           /\ e.kind = "step.failed" => Applied(m, e) = [m EXCEPT !.status = "failed"]
           /\ e.kind = "step.skipped" => Applied(m, e) = [m EXCEPT !.skipped = @ \cup {e.step}]
           /\ e.kind = "step.completed" =>
                Applied(m, e) = [m EXCEPT !.completed = @ \cup {e.step},
                                          !.output = [@ EXCEPT ![e.step] = e.out]]
<1>1. m = [status |-> m.status, completed |-> m.completed, output |-> m.output,
           awaiting |-> m.awaiting, approved |-> m.approved, rejected |-> m.rejected,
           skipped |-> m.skipped]
  BY DEF RunState
<1>2. e.kind \in {"step.ready", "step.started", "attempt.assigned", "context.manifest"}
      => Applied(m, e) = m
  BY <1>1 DEF Applied, StatusKinds, RunTerminals
<1>3. e.kind = "step.failed" => Applied(m, e) = [m EXCEPT !.status = "failed"]
  BY <1>1 DEF Applied, StatusKinds, StatusAfter
<1>4. e.kind = "step.skipped" => Applied(m, e) = [m EXCEPT !.skipped = @ \cup {e.step}]
  BY <1>1 DEF Applied, StatusKinds, RunTerminals
<1>5. e.kind = "step.completed" =>
        Applied(m, e) = [m EXCEPT !.completed = @ \cup {e.step},
                                  !.output = [@ EXCEPT ![e.step] = e.out]]
  <2> SUFFICES ASSUME e.kind = "step.completed"
               PROVE  Applied(m, e) = [m EXCEPT !.completed = @ \cup {e.step},
                                                !.output = [@ EXCEPT ![e.step] = e.out]]
    OBVIOUS
  <2> DEFINE c == m.completed \cup {e.step}
             o == [m.output EXCEPT ![e.step] = e.out]
             a == [m EXCEPT !.completed = c, !.output = o]
  <2>1. Applied(m, e) =
          [status |-> m.status, completed |-> c, output |-> o, awaiting |-> m.awaiting,
           approved |-> m.approved, rejected |-> m.rejected, skipped |-> m.skipped]
    BY DEF Applied, StatusKinds, RunTerminals
  <2>2. c \in SUBSET Steps /\ o \in [Steps -> Outputs \cup {NoOut}]
    BY DEF RunState, Event
  <2> HIDE DEF c, o
  <2>3. a \in RunState
    BY <2>2 DEF RunState
  <2>4. /\ a.status = m.status /\ a.completed = c /\ a.output = o /\ a.awaiting = m.awaiting
        /\ a.approved = m.approved /\ a.rejected = m.rejected /\ a.skipped = m.skipped
    BY <2>2 DEF RunState
  <2> HIDE DEF a
  <2>5. a = [status |-> a.status, completed |-> a.completed, output |-> a.output,
             awaiting |-> a.awaiting, approved |-> a.approved, rejected |-> a.rejected,
             skipped |-> a.skipped]
    BY <2>3 DEF RunState
  <2>6. a = Applied(m, e)
    BY <2>1, <2>4, <2>5
  <2> QED BY <2>6 DEF a, c, o
<1> QED BY <1>2, <1>3, <1>4, <1>5

LEMMA AdvanceOutcome ==
    ASSUME HInv, NEW p \in Procs, AdvanceStep(p)
    PROVE  Outcome(p) /\ Alone(p)
<1> DEFINE j == journal
           m == mem[p]
<1>pc. pc[p] \in {"body", "gate", "executing"}
  BY DEF AdvanceStep, NothingToAdvance, CloseFailed, CompleteRun, StopRejected, ParkAfter,
         SkipDependent, SkipUnmet, Ready, Runnable, Pending, Stepping, InBody, ParkBefore,
         CannotStart, StartStep, Admitted, Attempt, StepFails, SinkRaises, StepCompletes
<1>0. /\ TypeOK /\ j \in Seq(Event) /\ j # <<>> /\ m = Replay(j) /\ m \in RunState
      /\ (Terminal(InMemory(p)) <=> Terminal(j)) /\ (Terminal(j) => m.status \in {"completed", "failed"})
      /\ WellFormed(flow)
  BY <1>pc, Facts
<1>k. {"run.failed", "run.completed", "approval.required", "step.skipped", "step.ready",
       "step.failed", "step.started", "attempt.assigned", "context.manifest"} \subseteq
         Kinds \ {"step.completed", "approval.resolved"}
  BY DEF Kinds, StepTerminals, RunTerminals
<1>n. ASSUME NEW kind \in {"run.failed", "run.completed"}
      PROVE  Ev(p, kind, NoStep) \in Event /\ Ev(p, kind, NoStep).kind = kind
  <2>1. kind \in Kinds \ {"step.completed", "approval.resolved"}
    BY <1>k
  <2>2. NoStep \in Steps \cup {NoStep}
    OBVIOUS
  <2>3. TypeOK
    BY <1>0
  <2> QED BY <2>1, <2>2, <2>3, EvFacts
<1>b. \A e : Begun(j, e)
  BY <1>0 DEF Begun
<1> HIDE DEF j, m
<1>1. CASE NothingToAdvance(p)
  <2>1. Return(p, {}) /\ journal' = journal /\ mem' = mem /\ UNCHANGED <<flow, known>>
    BY <1>1 DEF NothingToAdvance, Quiet, Frame
  <2>2. Alone(p) /\ pc'[p] = "idle"
    BY <1>0, <2>1 DEF Alone, Return, TypeOK
  <2> QED BY <2>1, <2>2 DEF Outcome
<1>2. CASE CloseFailed(p)
  <2> DEFINE e == Ev(p, "run.failed", NoStep)
  <2>1. e \in Event /\ e.kind = "run.failed"
    BY <1>n
  <2>2. Write(p, e, m, m, Return(p, {})) /\ Frame /\ m.status = "failed" /\ ~Terminal(j)
    BY <1>0, <1>2 DEF CloseFailed, m
  <2> HIDE DEF e
  <2>3. MayAppend(j, e)
    BY <1>0, <2>1, <2>2 DEF MayAppend
  <2> QED BY <1>0, <1>b, <2>1, <2>2, <2>3, WriteAndReturn DEF j
<1>3. CASE CompleteRun(p)
  <2> DEFINE e == Ev(p, "run.completed", NoStep)
             w == [m EXCEPT !.status = "completed"]
  <2>1. e \in Event /\ e.kind = "run.completed"
    BY <1>n
  <2>2. /\ Write(p, e, w, w, Return(p, {})) /\ Frame
        /\ m.status = "running" /\ \A s \in Steps : Passed(m, s)
    BY <1>3 DEF CompleteRun, m
  <2> HIDE DEF e, w
  <2>3. MayAppend(j, e)
    BY <1>0, <2>1, <2>2 DEF MayAppend
  <2> QED BY <1>0, <1>b, <2>1, <2>2, <2>3, WriteAndReturn DEF j
<1>4. ASSUME NEW s \in Steps, StopRejected(p, s) PROVE Outcome(p) /\ Alone(p)
  <2> DEFINE e == Ev(p, "run.failed", s)
  <2>1. e \in Event /\ e.kind = "run.failed"
    BY <1>0, <1>k, EvFacts
  <2>2. Write(p, e, Failed(p), Failed(p), Return(p, {})) /\ Frame /\ m.status = "running"
    BY <1>4 DEF StopRejected, Stepping, m
  <2> HIDE DEF e
  <2>3. MayAppend(j, e)
    BY <1>0, <2>1, <2>2 DEF MayAppend
  <2> QED BY <1>0, <1>b, <2>1, <2>2, <2>3, WriteAndReturn DEF j
<1>5. ASSUME NEW s \in Steps, ParkAfter(p, s) PROVE Outcome(p) /\ Alone(p)
  <2> DEFINE e == Ev(p, "approval.required", s)
  <2>1. e \in Event /\ e.kind = "approval.required" /\ e.step = s
    BY <1>0, <1>k, EvFacts
  <2>2. /\ Write(p, e, Parked(p, s), Parked(p, s), Return(p, {})) /\ Frame
        /\ m.status = "running" /\ s \notin m.rejected /\ s \in m.completed /\ ~Passed(m, s)
    BY <1>5 DEF ParkAfter, Stepping, At, m
  <2> HIDE DEF e
  <2>3. MayAppend(j, e)
    BY <1>0, <2>1, <2>2 DEF MayAppend, Passed
  <2> QED BY <1>0, <1>b, <2>1, <2>2, <2>3, WriteAndReturn DEF j
<1>6. ASSUME NEW s \in Steps, SkipDependent(p, s) \/ SkipUnmet(p, s)
      PROVE  Outcome(p) /\ Alone(p)
  <2> DEFINE e == Ev(p, "step.skipped", s)
  <2>1. e \in Event /\ e.kind = "step.skipped" /\ e.step = s
    BY <1>0, <1>k, EvFacts
  <2>2. /\ Write(p, e, Skipped(p, s), Skipped(p, s), Proceed(p, "body", NoTask)) /\ Frame
        /\ m.status = "running" /\ s \notin m.rejected \cup m.completed /\ At(m, s)
    BY <1>6 DEF SkipDependent, SkipUnmet, Runnable, Pending, Stepping, m
  <2> HIDE DEF e
  <2>3. Skipped(p, s) = Applied(m, e)
    BY <1>0, <2>1, AppliedState DEF Skipped, m
  <2>4. flow.step[s].deps \subseteq Settled(m)
    BY <1>0, <2>2 DEF At, Passed, Settled, WellFormed, StepSpec
  <2>5. s \notin m.skipped
    BY <2>2 DEF At, Passed
  <2>6. MayAppend(j, e)
    BY <1>0, <2>1, <2>2, <2>4, <2>5 DEF MayAppend, Current, Settled
  <2> QED BY <1>0, <1>b, <2>1, <2>2, <2>3, <2>6, WriteAndProceed DEF j, m
<1>7. ASSUME NEW s \in Steps, Ready(p, s) PROVE Outcome(p) /\ Alone(p)
  <2> DEFINE e == Ev(p, "step.ready", s)
             t == [NoTask EXCEPT !.step = s]
  <2>1. e \in Event /\ e.kind = "step.ready" /\ e.step = s
    BY <1>0, <1>k, EvFacts
  <2>2. /\ Write(p, e, m, m, Proceed(p, "gate", t)) /\ Frame
        /\ m.status = "running" /\ s \notin m.rejected \cup m.completed /\ At(m, s)
        /\ flow.step[s].deps \subseteq m.completed
    BY <1>7 DEF Ready, Runnable, Pending, Stepping, m
  <2>3. t.step = s
    BY DEF NoTask
  <2>4. m = Applied(m, e)
    BY <1>0, <2>1, AppliedState
  <2> HIDE DEF e, t
  <2>5. MayAppend(j, e)
    BY <1>0, <2>1, <2>2 DEF MayAppend, Due, Current, Settled, At, Passed
  <2> QED BY <1>0, <1>b, <2>1, <2>2, <2>3, <2>4, <2>5, WriteAndProceed DEF j, m
<1>8. CASE ParkBefore(p)
  <2> DEFINE s == task[p].step
             e == Ev(p, "approval.required", s)
  <2>0. s \in Steps /\ Due(m, s)
    BY <1>8 DEF ParkBefore, HInv, IInv, TypeOK, Mirrors, m
  <2>1. e \in Event /\ e.kind = "approval.required" /\ e.step = s
    BY <1>0, <1>k, <2>0, EvFacts
  <2>2. /\ Write(p, e, Parked(p, s), Parked(p, s), Return(p, {})) /\ Frame
        /\ NeedsApproval(s) /\ s \notin m.approved
    BY <1>8 DEF ParkBefore, m
  <2> HIDE DEF e, s
  <2>3. MayAppend(j, e)
    BY <1>0, <2>0, <2>1, <2>2 DEF MayAppend, Due, Current, Settled
  <2> QED BY <1>0, <1>b, <2>1, <2>2, <2>3, WriteAndReturn DEF j
<1>t. ASSUME NEW s, s = task[p].step, pc[p] = "executing" \/ Admitted(p)
      PROVE  s \in Steps /\ MayStart(m, s)
  BY <1>t, <1>0 DEF Admitted, HInv, IInv, TypeOK, Mirrors, MayStart, m
<1>9. CASE CannotStart(p)
  <2> DEFINE s == task[p].step
             e == Ev(p, "step.failed", s)
  <2>0. s \in Steps /\ MayStart(m, s)
    BY <1>9, <1>t DEF CannotStart
  <2>1. e \in Event /\ e.kind = "step.failed" /\ e.step = s
    BY <1>0, <1>k, <2>0, EvFacts
  <2>2. Write(p, e, Failed(p), Failed(p), Proceed(p, "body", NoTask)) /\ Frame
    BY <1>9 DEF CannotStart
  <2>3. Failed(p) = Applied(m, e)
    BY <1>0, <2>1, AppliedState DEF Failed, m
  <2> HIDE DEF e, s
  <2>4. MayAppend(j, e)
    BY <1>0, <2>0, <2>1 DEF MayAppend, MayStart, Due
  <2> QED BY <1>0, <1>b, <2>1, <2>2, <2>3, <2>4, WriteAndProceed DEF j, m
<1>10. CASE StartStep(p)
  <2> DEFINE s == task[p].step
             e == Ev(p, "step.started", s)
             t == [step |-> s, prior |-> PriorAttempts(p, s), n |-> 0]
  <2>0. s \in Steps /\ MayStart(m, s)
    BY <1>10, <1>t DEF StartStep
  <2>1. e \in Event /\ e.kind = "step.started" /\ e.step = s
    BY <1>0, <1>k, <2>0, EvFacts
  <2>2. Write(p, e, m, m, Proceed(p, "executing", t)) /\ Frame /\ t.step = s
    BY <1>10 DEF StartStep, m
  <2>3. m = Applied(m, e)
    BY <1>0, <2>1, AppliedState
  <2> HIDE DEF e, s, t
  <2>4. MayAppend(j, e)
    BY <1>0, <2>0, <2>1 DEF MayAppend
  <2> QED BY <1>0, <1>b, <2>1, <2>2, <2>3, <2>4, WriteAndProceed DEF j, m
<1>11. CASE Attempt(p)
  <2> DEFINE s == task[p].step
             n == task[p].prior + task[p].n + 1
             e == Rec(p, "attempt.assigned", s, NoOut, n)
             t == [task[p] EXCEPT !.n = @ + 1]
  <2>0. s \in Steps /\ MayStart(m, s)
    BY <1>11, <1>t DEF Attempt
  <2>n. task[p] \in Task /\ n \in Nat
    BY <1>0 DEF TypeOK, Task
  <2>1. e \in Event /\ e.kind = "attempt.assigned" /\ e.step = s
    <3> HIDE DEF n, s
    <3>1. e \in Event
      BY <1>0, <1>k, <2>0, <2>n, RecType
    <3> QED BY <3>1 DEF Rec
  <2>2. journal' = Append(journal, e) /\ Proceed(p, "executing", t) /\ Frame /\ mem' = mem
    BY <1>11 DEF Attempt
  <2>3. t.step = s
    BY <2>n DEF Task
  <2>4. m = Applied(m, e)
    BY <1>0, <2>1, AppliedState
  <2> HIDE DEF e, s, t, n
  <2>5. MayAppend(j, e)
    BY <1>0, <2>0, <2>1 DEF MayAppend
  <2>6. Alone(p) /\ pc'[p] = "executing" /\ task'[p] = t /\ mem'[p] = m
    BY <1>0, <2>2 DEF Alone, Proceed, Frame, TypeOK, m
  <2> QED BY <1>b, <2>1, <2>2, <2>3, <2>4, <2>5, <2>6 DEF Outcome, j, m
<1>12. CASE StepFails(p)
  <2> DEFINE s == task[p].step
             e == Ev(p, "step.failed", s)
  <2>0. s \in Steps /\ MayStart(m, s)
    BY <1>12, <1>t DEF StepFails
  <2>1. e \in Event /\ e.kind = "step.failed" /\ e.step = s
    BY <1>0, <1>k, <2>0, EvFacts
  <2>2. PICK mErr \in {mem[p], Failed(p)} :
          Write(p, e, Failed(p), mErr, Proceed(p, "body", NoTask)) /\ Frame
    BY <1>12 DEF StepFails
  <2>3. Failed(p) = Applied(m, e)
    BY <1>0, <2>1, AppliedState DEF Failed, m
  <2> HIDE DEF e, s
  <2>4. MayAppend(j, e)
    BY <1>0, <2>0, <2>1 DEF MayAppend, MayStart, Due
  <2> QED BY <1>0, <1>b, <2>1, <2>2, <2>3, <2>4, WriteAndProceed DEF j, m
<1>13. CASE SinkRaises(p)
  <2> DEFINE s == task[p].step
             e == Ev(p, "context.manifest", s)
  <2>0. s \in Steps /\ MayStart(m, s)
    BY <1>13, <1>t DEF SinkRaises
  <2>1. e \in Event /\ e.kind = "context.manifest" /\ e.step = s
    BY <1>0, <1>k, <2>0, EvFacts
  <2>2. Raises(p, e) /\ Frame /\ UNCHANGED <<pc, mem, task>> /\ pc[p] = "executing"
    BY <1>13 DEF SinkRaises
  <2>3. Alone(p) /\ pc'[p] = "executing" /\ mem'[p] = m /\ task'[p] = task[p]
    BY <1>0, <2>2 DEF Alone, Frame, TypeOK, m
  <2>e. task'[p].step = s
    BY <2>3
  <2> HIDE DEF e, s
  <2>4. CASE journal' = journal
    BY <2>2, <2>3, <2>4 DEF Outcome, m
  <2>5. CASE journal' = Append(journal, Kept(e))
    <3> DEFINE k == Kept(e)
    <3>1. k \in Event /\ k.kind = "context.manifest" /\ k.step = s
      BY <2>1, KeptType
    <3> HIDE DEF k
    <3>2. m = Applied(m, k)
      BY <1>0, <3>1, AppliedState
    <3>3. MayAppend(j, k)
      BY <1>0, <2>0, <3>1 DEF MayAppend
    <3>4. journal' = Append(journal, k)
      BY <2>5 DEF k
    <3> QED BY <1>b, <2>3, <2>e, <3>1, <3>2, <3>3, <3>4 DEF Outcome, j, m
  <2> QED BY <2>2, <2>4, <2>5 DEF Raises
<1>14. ASSUME NEW o \in Outputs, StepCompletes(p, o) PROVE Outcome(p) /\ Alone(p)
  <2> DEFINE s == task[p].step
             n == task[p].n
             e == Rec(p, "step.completed", s, o, n)
  <2>0. s \in Steps /\ MayStart(m, s)
    BY <1>14, <1>t DEF StepCompletes
  <2>n. n \in Nat /\ "step.completed" \in Kinds
    BY <1>0 DEF TypeOK, Task, Kinds, StepTerminals
  <2>1. e \in Event /\ e.kind = "step.completed" /\ e.step = s /\ e.out = o
    <3> HIDE DEF n, s
    <3>1. e \in Event
      BY <1>0, <2>0, <2>n, RecType
    <3> QED BY <3>1 DEF Rec
  <2>2. Write(p, e, Completed(p, s, o), Completed(p, s, o), Proceed(p, "body", NoTask)) /\ Frame
    BY <1>14 DEF StepCompletes
  <2> HIDE DEF e, s, n
  <2>3. Completed(p, s, o) = Applied(m, e)
    <3>1. Applied(m, e) = [m EXCEPT !.completed = @ \cup {s}, !.output = [@ EXCEPT ![s] = o]]
      BY <1>0, <2>1, AppliedState
    <3> QED BY <3>1 DEF Completed, m
  <2>4. MayAppend(j, e)
    BY <1>0, <2>0, <2>1 DEF MayAppend
  <2> QED BY <1>0, <1>b, <2>1, <2>2, <2>3, <2>4, WriteAndProceed DEF j, m
<1> QED BY <1>1, <1>2, <1>3, <1>4, <1>5, <1>6, <1>7, <1>8, <1>9, <1>10, <1>11,
           <1>12, <1>13, <1>14 DEF AdvanceStep

LEMMA OtherOutcome ==
    ASSUME HInv, NEW p \in Procs, OtherStep(p)
    PROVE  Outcome(p) /\ Alone(p)
<1> DEFINE j == journal
           m == mem[p]
<1>pc. pc[p] \in {"body", "gate", "executing"}
  BY DEF OtherStep, ResolveAgain, ResolveRefused, Resolve, FailRun, FailIsLate, Archive,
         Restore, ArchiveConflict, InBody
<1>0. /\ TypeOK /\ j \in Seq(Event) /\ j # <<>> /\ m = Replay(j)
      /\ (Terminal(InMemory(p)) <=> Terminal(j))
  BY <1>pc, Facts
<1>b. \A e : Begun(j, e)
  BY <1>0 DEF Begun
<1> HIDE DEF j, m
<1>1. ASSUME NEW next, Return(p, next), journal' = journal, mem' = mem,
             UNCHANGED <<flow, known>>
      PROVE  Outcome(p) /\ Alone(p)
  <2>1. Alone(p) /\ pc'[p] = "idle"
    BY <1>0, <1>1 DEF Alone, Return, TypeOK
  <2> QED BY <1>1, <2>1 DEF Outcome
<1>2. CASE ResolveAgain(p) \/ ResolveRefused(p) \/ FailIsLate(p) \/ ArchiveConflict(p)
           \/ Archive(p) \/ Restore(p)
  BY <1>1, <1>2 DEF ResolveAgain, ResolveRefused, FailIsLate, ArchiveConflict, Archive,
                    Restore, Quiet, Frame
<1>3. CASE Resolve(p)
  <2> DEFINE s == op[p].step
             d == op[p].decision
             e == Rec(p, "approval.resolved", s, d, 0)
  <2>1. s \in Steps /\ d \in Decisions
    BY <1>0, <1>3 DEF Resolve, InBody, TypeOK, Ops
  <2>2. e \in Event /\ e.kind = "approval.resolved" /\ e.step = s
    <3>1. "approval.resolved" \in Kinds /\ 0 \in Nat
      BY DEF Kinds
    <3> HIDE DEF s, d
    <3>2. e \in Event
      BY <1>0, <2>1, <3>1, RecType
    <3> QED BY <3>2 DEF Rec
  <2>3. PICK w : Write(p, e, w, m, Return(p, Followup(p)))
    BY <1>3 DEF Resolve, m
  <2>4. /\ Frame /\ s \notin m.approved \cup m.rejected
        /\ m.status = "awaiting_approval" /\ m.awaiting = s
    BY <1>3 DEF Resolve, m
  <2> HIDE DEF e, s, d
  <2>5. MayAppend(j, e)
    BY <1>0, <2>2, <2>4 DEF MayAppend
  <2> QED BY <1>0, <1>b, <2>2, <2>3, <2>4, <2>5, WriteAndReturn DEF j
<1>4. CASE FailRun(p)
  <2> DEFINE e == Ev(p, "run.failed", NoStep)
  <2>1. e \in Event /\ e.kind = "run.failed"
    <3>1. "run.failed" \in Kinds \ {"step.completed", "approval.resolved"}
      BY DEF Kinds, RunTerminals
    <3>2. NoStep \in Steps \cup {NoStep}
      OBVIOUS
    <3>3. TypeOK
      BY <1>0
    <3> QED BY <3>1, <3>2, <3>3, EvFacts
  <2>2. /\ Write(p, e, Failed(p), m, Return(p, {})) /\ Frame
        /\ m.status # "completed" /\ ~Terminal(j)
    BY <1>0, <1>4 DEF FailRun, m
  <2> HIDE DEF e
  <2>3. MayAppend(j, e)
    BY <1>0, <2>1, <2>2 DEF MayAppend
  <2> QED BY <1>0, <1>b, <2>1, <2>2, <2>3, WriteAndReturn DEF j
<1> QED BY <1>2, <1>3, <1>4 DEF OtherStep

-----------------------------------------------------------------------------
\* What a step of the system may do to the file: nothing, or one record that
\* the state it replays to allows.
Grows ==
    /\ flow' = flow
    /\ \/ journal' = journal
       \/ \E e \in Event :
             journal' = Append(journal, e) /\ MayAppend(journal, e) /\ Begun(journal, e)

\* A step that leaves the file alone keeps what is known of it.
LEMMA FileUntouched ==
    ASSUME HInv, IInv', flow' = flow, journal' = journal,
           known' # {} => journal # <<>>, \A q \in Procs : Mirrors(q)'
    PROVE  HInv' /\ Grows
<1>1. History'
  BY DEF HInv, History, Ended, CanonicalHistory, SettledStepsStaySettled,
         GateBeforeWork, OneDecisionPerGate, Precedes
<1> QED BY <1>1 DEF HInv, Grows

LEMMA NextGrows ==
    ASSUME HInv, IInv', [Next]_vars
    PROVE  HInv' /\ Grows
<1> USE DEF HInv
<1>0. /\ pc \in [Procs -> {"idle", "loaded", "body", "gate", "executing"}]
      /\ mem \in [Procs -> RunState] /\ task \in [Procs -> Task] /\ journal \in Seq(Event)
      /\ queue \in [Procs -> SUBSET Ops] /\ known \subseteq Procs
  BY DEF IInv, TypeOK
<1>1. ASSUME NEW p \in Procs, AdvanceStep(p) \/ OtherStep(p) PROVE HInv' /\ Grows
  <2>1. Outcome(p) /\ Alone(p)
    BY <1>1, AdvanceOutcome, OtherOutcome
  <2>2. pc[p] \in {"body", "gate", "executing"}
    BY <1>1 DEF AdvanceStep, NothingToAdvance, CloseFailed, CompleteRun, StopRejected,
         ParkAfter, SkipDependent, SkipUnmet, Ready, Runnable, Pending, Stepping, InBody,
         ParkBefore, CannotStart, StartStep, Admitted, Attempt, StepFails, SinkRaises,
         StepCompletes, OtherStep, ResolveAgain, ResolveRefused, Resolve, FailRun,
         FailIsLate, Archive, Restore, ArchiveConflict
  <2> QED BY <2>1, <2>2, OutcomePreserves DEF Outcome, Alone, Grows
<1>2. ASSUME NEW p \in Procs, Refresh(p) PROVE HInv' /\ Grows
  <2>1. InMemory(p) = journal
    BY <1>0, <1>2 DEF Refresh, IInv, LockInv, TypeOK, InMemory
  <2>2. \A q \in Procs : Mirrors(q)'
    BY <1>0, <1>2, <2>1 DEF Refresh, Proceed, Mirrors, MayStart, Due, Current, Settled,
                            NeedsApproval
  <2> QED BY <1>2, <2>2, FileUntouched DEF Refresh
<1>3. ASSUME NEW p \in Procs, NEW o \in queue[p], Acquire(p, o) \/ AcquireRaises(p, o)
      PROVE  HInv' /\ Grows
  <2>1. \A q \in Procs : Mirrors(q)'
    BY <1>0, <1>3 DEF Acquire, AcquireRaises, shared, Mirrors, MayStart, Due, Current,
                      Settled, NeedsApproval
  <2> QED BY <1>3, <2>1, FileUntouched DEF Acquire, AcquireRaises, shared
<1>4. ASSUME NEW p \in Procs, Start(p) PROVE HInv' /\ Grows
  <2> DEFINE e == Ev(p, "run.started", NoStep)
  <2>1. e \in Event /\ e.kind = "run.started"
    <3>1. "run.started" \in Kinds \ {"step.completed", "approval.resolved"}
      BY DEF Kinds, StepTerminals, RunTerminals
    <3>2. NoStep \in Steps \cup {NoStep}
      OBVIOUS
    <3> QED BY <3>1, <3>2, EvFacts DEF IInv
  <2>2. journal' = <<e>> /\ journal = <<>> /\ flow' = flow /\ pc' = pc /\ lock = NoProc
    BY <1>4 DEF Start
  <2> HIDE DEF e
  <2>3. journal' = Append(journal, e) /\ journal' # <<>>
    BY <2>2
  <2>4. MayAppend(journal, e) /\ Begun(journal, e)
    BY <2>1, <2>2 DEF MayAppend, Begun
  <2>5. History'
    BY <1>0, <2>1, <2>2, <2>3, <2>4, HistoryAppend
  <2>6. \A q \in Procs : Mirrors(q)'
    BY <2>2, ProcsAssumption DEF IInv, LockInv, Mirrors
  <2> QED BY <2>1, <2>2, <2>3, <2>4, <2>5, <2>6 DEF Grows
<1>4r. ASSUME NEW p \in Procs, StartRaises(p) PROVE HInv' /\ Grows
  <2> DEFINE e == Kept(Ev(p, "run.started", NoStep))
  <2>1. e \in Event /\ e.kind = "run.started"
    <3>1. "run.started" \in Kinds \ {"step.completed", "approval.resolved"}
      BY DEF Kinds, StepTerminals, RunTerminals
    <3>2. NoStep \in Steps \cup {NoStep}
      OBVIOUS
    <3>3. Ev(p, "run.started", NoStep) \in Event /\ Ev(p, "run.started", NoStep).kind = "run.started"
      BY <3>1, <3>2, EvFacts DEF IInv
    <3> QED BY <3>3, KeptType
  <2>2. journal' = <<e>> /\ journal = <<>> /\ flow' = flow /\ pc' = pc /\ lock = NoProc
        /\ known' = known
    BY <1>4r DEF StartRaises, local
  <2> HIDE DEF e
  <2>3. journal' = Append(journal, e) /\ journal' # <<>>
    BY <2>2
  <2>4. MayAppend(journal, e) /\ Begun(journal, e)
    BY <2>1, <2>2 DEF MayAppend, Begun
  <2>5. History'
    BY <1>0, <2>1, <2>2, <2>3, <2>4, HistoryAppend
  <2>6. \A q \in Procs : Mirrors(q)'
    BY <2>2, ProcsAssumption DEF IInv, LockInv, Mirrors
  <2> QED BY <2>1, <2>2, <2>3, <2>4, <2>5, <2>6 DEF Grows
<1>5. ASSUME NEW p \in Procs, Boot(p) PROVE HInv' /\ Grows
  <2>1. pc[p] = "idle" /\ flow' = flow /\ journal' = journal /\ pc' = pc /\ task' = task
    BY <1>5, ProcsAssumption DEF Boot, IInv, LockInv, shared
  <2>2. \A q \in Procs \ {p} : mem'[q] = mem[q]
    BY <1>0, <1>5 DEF Boot
  <2>3. known' # {} => journal # <<>>
    BY <1>5 DEF Boot
  <2>4. \A q \in Procs : Mirrors(q)'
    BY <1>0, <2>1, <2>2 DEF Mirrors, MayStart, Due, Current, Settled, NeedsApproval
  <2> QED BY <2>1, <2>3, <2>4, FileUntouched
<1>6. ASSUME NEW p \in Procs, Crash(p) \/ Exit(p) PROVE HInv' /\ Grows
  <2>1. Down(p) /\ flow' = flow /\ journal' = journal
    BY <1>6 DEF Crash, Exit, shared
  <2>2. known' # {} => journal # <<>>
    BY <2>1 DEF Down
  <2>3. \A q \in Procs : Mirrors(q)'
    BY <1>0, <2>1 DEF Down, Mirrors, MayStart, Due, Current, Settled, NeedsApproval
  <2> QED BY <2>1, <2>2, <2>3, FileUntouched
<1>7. ASSUME NEW p \in Procs, NEW o \in ClientOps, Request(p, o) PROVE HInv' /\ Grows
  <2>1. \A q \in Procs : Mirrors(q)'
    BY <1>7 DEF Request, shared, Mirrors, MayStart, Due, Current, Settled, NeedsApproval
  <2> QED BY <1>7, <2>1, FileUntouched DEF Request, shared
<1>8. CASE UNCHANGED vars
  <2>1. \A q \in Procs : Mirrors(q)'
    BY <1>8 DEF vars, shared, local, Mirrors, MayStart, Due, Current, Settled, NeedsApproval
  <2> QED BY <1>8, <2>1, FileUntouched DEF vars, shared, local
<1> QED BY <1>1, <1>2, <1>3, <1>4, <1>4r, <1>5, <1>6, <1>7, <1>8
        DEF Next, Work, Environment


LEMMA HistoryInvariance == Spec => []HInv
<1>1. Init => HInv
  <2> SUFFICES ASSUME Init, IInv PROVE HInv
    BY InitIInv
  <2>1. DOMAIN journal = {} /\ known = {} /\ \A p \in Procs : pc[p] = "idle"
    BY DEF Init
  <2> QED BY <2>1 DEF HInv, History, Ended, CanonicalHistory, SettledStepsStaySettled,
                      GateBeforeWork, OneDecisionPerGate, Mirrors
<1>2. HInv /\ IInv' /\ [Next]_vars => HInv'
  BY NextGrows
<1> QED BY <1>1, <1>2, Invariance, PTL DEF Spec

\* While a process is inside an operation, the state it mutates in place is
\* the one any fresh process would rebuild from the file: whatever interleaves,
\* crashes or fails to write, nothing is decided on a state the journal does
\* not back.
THEOREM LiveStateIsReplayHolds == Spec => []LiveStateIsReplay
<1>1. HInv => LiveStateIsReplay
  BY DEF HInv, Mirrors, LiveStateIsReplay
<1> QED BY <1>1, HistoryInvariance, PTL

\* No gated step starts before a recorded approval of it, and no gate is
\* decided twice, for any workflow and number of processes.
THEOREM GatesDecideHolds == Spec => []GatesDecide
<1>1. HInv => GatesDecide
  BY DEF HInv, History, GatesDecide
<1> QED BY <1>1, HistoryInvariance, PTL

-----------------------------------------------------------------------------
\* The run implements its contract.

\* What the contract calls the decision of each step.
Decision(m) ==
    [s \in Steps |-> IF s \in m.approved THEN "approved"
                     ELSE IF s \in m.rejected THEN "rejected" ELSE "none"]

LEMMA GrowthImplements ==
    ASSUME HInv, Grows
    PROVE  [Contract!Next]_(Contract!cvars)
<1>0. journal \in Seq(Event)
  BY DEF HInv, IInv, TypeOK
<1>1. CASE journal' = journal
  BY <1>1 DEF Grows, Contract!cvars
<1>2. ASSUME NEW e \in Event, journal' = Append(journal, e), MayAppend(journal, e),
             Begun(journal, e)
      PROVE  Contract!Next \/ UNCHANGED Contract!cvars
  <2> DEFINE m == Replay(journal)
             w == Replay(journal')
             s == e.step
  <2>1. w = Applied(m, e)
    BY <1>0, <1>2, AppliedIsReplay DEF HInv
  <2>2. /\ m.status = ReplayStatus(journal) /\ w.status = ReplayStatus(journal')
        /\ m.completed = Named(journal, "step.completed")
        /\ w.completed = Named(journal', "step.completed")
        /\ m.skipped = Named(journal, "step.skipped")
        /\ w.skipped = Named(journal', "step.skipped")
        /\ m.awaiting = ReplayAwaiting(journal) /\ w.awaiting = ReplayAwaiting(journal')
        /\ m.approved = Decided(journal, "approved") /\ w.approved = Decided(journal', "approved")
        /\ m.rejected = Decided(journal, "rejected") /\ w.rejected = Decided(journal', "rejected")
        /\ m \in RunState /\ w \in RunState
    <3>1. journal' \in Seq(Event)
      BY <1>0, <1>2
    <3> QED BY <1>0, <3>1, ReplayType DEF Replay
  <2>3. journal' # <<>> /\ flow' = flow
    BY <1>0, <1>2 DEF Grows
  <2>4. e.kind # "run.started" => (IF journal = <<>> THEN "unborn" ELSE ReplayStatus(journal))
                                  = m.status
    BY <1>2, <2>2 DEF Begun
  <2>6. (IF journal = <<>> THEN "unborn" ELSE ReplayStatus(journal))' = w.status
    BY <2>2, <2>3
  <2>7. ([t \in Steps |-> IF t \in Decided(journal, "approved") THEN "approved"
                         ELSE IF t \in Decided(journal, "rejected") THEN "rejected"
                         ELSE "none"])' = Decision(w)
    BY <2>2 DEF Decision
  <2>8. [t \in Steps |-> IF t \in Decided(journal, "approved") THEN "approved"
                         ELSE IF t \in Decided(journal, "rejected") THEN "rejected"
                         ELSE "none"] = Decision(m)
    BY <2>2 DEF Decision
  <2>c. SettlesOnce(journal)
    BY DEF HInv, History, CanonicalHistory, SettlesOnce
  <2> HIDE DEF m, w, s
  <2>10. CASE e.kind = "run.started"
    <3>1. journal = <<>>
      BY <1>2, <2>10 DEF MayAppend
    <3>2. /\ w.status = "running" /\ w.completed = m.completed /\ w.skipped = m.skipped
          /\ w.awaiting = m.awaiting /\ Decision(w) = Decision(m)
      <4>1. m.status = "running"
        BY <2>2, <3>1 DEF ReplayStatus
      <4> QED BY <2>1, <2>10, <4>1 DEF Applied, StatusKinds, RunTerminals, Decision
    <3>3. Contract!Begin
      BY <2>2, <2>3, <2>6, <2>7, <2>8, <3>1, <3>2 DEF Contract!Begin
    <3> QED BY <3>3 DEF Contract!Next
  <2>11. CASE e.kind \in {"step.ready", "step.started", "attempt.assigned", "context.manifest"}
    <3>1. /\ w.status = m.status /\ w.completed = m.completed /\ w.skipped = m.skipped
          /\ w.awaiting = m.awaiting /\ Decision(w) = Decision(m)
      BY <2>1, <2>11 DEF Applied, StatusKinds, RunTerminals, Decision
    <3> QED BY <2>2, <2>3, <2>4, <2>6, <2>7, <2>8, <2>11, <3>1 DEF Contract!cvars
  <2>12. CASE e.kind = "step.completed"
    <3>0. /\ m.status = "running" /\ s \in Steps \ (m.completed \cup m.skipped)
          /\ flow.step[s].deps \subseteq m.completed
          /\ NeedsApproval(s) => s \in m.approved
      BY <1>2, <2>12 DEF MayAppend, MayStart, Due, Current, Settled, m, s
    <3>1. /\ w.status = m.status /\ w.completed = m.completed \cup {s}
          /\ w.skipped = m.skipped
          /\ w.awaiting = m.awaiting /\ Decision(w) = Decision(m)
      BY <2>1, <2>12 DEF Applied, StatusKinds, RunTerminals, Decision, s
    <3>3. NeedsApproval(s) => Decision(m)[s] = "approved"
      BY <3>0 DEF Decision
    <3>4. Contract!Complete(s)
      BY <2>2, <2>3, <2>4, <2>6, <2>7, <2>8, <2>12, <3>0, <3>1, <3>3
         DEF Contract!Complete, Contract!Open, Contract!Guarded, NeedsApproval
    <3> QED BY <3>0, <3>4 DEF Contract!Next
  <2>13. CASE e.kind = "step.skipped"
    <3>1. /\ m.status = "running" /\ s \in Steps \ (m.completed \cup m.skipped)
          /\ flow.step[s].deps \subseteq m.completed \cup m.skipped
      BY <1>2, <2>13 DEF MayAppend, Current, Settled, m, s
    <3>2. /\ w.status = m.status /\ w.completed = m.completed
          /\ w.skipped = m.skipped \cup {s}
          /\ w.awaiting = m.awaiting /\ Decision(w) = Decision(m)
      BY <2>1, <2>13 DEF Applied, StatusKinds, RunTerminals, Decision, s
    <3>3. Contract!Skip(s)
      BY <2>2, <2>3, <2>4, <2>6, <2>7, <2>8, <2>13, <3>1, <3>2 DEF Contract!Skip, Contract!Open
    <3> QED BY <3>1, <3>3 DEF Contract!Next
  <2>14. CASE e.kind = "approval.required"
    <3>1. /\ m.status = "running" /\ s \in Steps \ (m.approved \cup m.rejected)
          /\ IF s \in m.completed THEN flow.step[s].gate = "after"
             ELSE NeedsApproval(s) /\ s \notin m.skipped
      BY <1>2, <2>14 DEF MayAppend, m, s
    <3>2. /\ w.status = "awaiting_approval" /\ w.completed = m.completed
          /\ w.skipped = m.skipped /\ w.awaiting = s /\ Decision(w) = Decision(m)
      BY <2>1, <2>14 DEF Applied, StatusKinds, StatusAfter, Decision, s
    <3>3. Decision(m)[s] = "none"
      BY <3>1 DEF Decision
    <3>4. Contract!Ask(s)
      BY <2>2, <2>3, <2>4, <2>6, <2>7, <2>8, <2>14, <3>1, <3>2, <3>3
         DEF Contract!Ask, Contract!Open, Contract!Guarded, NeedsApproval
    <3> QED BY <3>1, <3>4 DEF Contract!Next
  <2>15. CASE e.kind = "approval.resolved"
    <3> DEFINE d == e.out
    <3>1. /\ m.status = "awaiting_approval" /\ m.awaiting = s /\ s \in Steps
          /\ s \notin m.approved \cup m.rejected /\ d \in Decisions
      BY <1>2, <2>15 DEF MayAppend, m, s, Event
    <3>2. /\ w.status = "running" /\ w.completed = m.completed
          /\ w.skipped = m.skipped /\ w.awaiting = NoStep
      BY <2>1, <2>15 DEF Applied, StatusKinds, StatusAfter
    <3>3. /\ w.approved = IF d = "approved" THEN m.approved \cup {s} ELSE m.approved
          /\ w.rejected = IF d = "rejected" THEN m.rejected \cup {s} ELSE m.rejected
      BY <2>1, <2>15 DEF Applied, s
    <3> HIDE DEF d
    <3>4. Decision(w) = [Decision(m) EXCEPT ![s] = d]
      BY <3>1, <3>3 DEF Decision, Decisions
    <3>5. Contract!Decide(d)
      BY <2>2, <2>3, <2>4, <2>6, <2>7, <2>8, <2>15, <3>1, <3>2, <3>4 DEF Contract!Decide
    <3> QED BY <3>1, <3>5 DEF Contract!Next, Decisions
  <2>16. CASE e.kind = "run.completed"
    <3>1. m.status = "running" /\ \A t \in Steps : Passed(m, t)
      BY <1>2, <2>16 DEF MayAppend, m
    <3>2. /\ w.status = "completed" /\ w.completed = m.completed /\ w.skipped = m.skipped
          /\ w.awaiting = m.awaiting /\ Decision(w) = Decision(m)
      BY <2>1, <2>16 DEF Applied, StatusKinds, StatusAfter, RunTerminals, Decision
    <3>3. m.completed \cap m.skipped = {}
      BY <2>2, <2>c DEF SettlesOnce, Named, StepTerminals
    <3>4. m.completed \cup m.skipped = Steps
      BY <2>2, <3>1 DEF Passed, RunState
    <3>5. \A t \in m.completed : flow.step[t].gate = "after" => Decision(m)[t] = "approved"
      BY <3>1, <3>3, <3>4 DEF Passed, Decision
    <3>6. \A t \in Steps : Decision(m)[t] # "rejected"
      BY <3>1 DEF Passed, Decision
    <3>7. Contract!Finish
      BY <2>2, <2>3, <2>4, <2>6, <2>7, <2>8, <2>16, <3>1, <3>2, <3>4, <3>5, <3>6
         DEF Contract!Finish
    <3> QED BY <3>7 DEF Contract!Next
  <2>17. CASE e.kind \in {"step.failed", "run.failed"}
    <3>1. m.status # "completed"
      BY <1>2, <2>17 DEF MayAppend, Current, m
    <3>2. /\ w.status = "failed" /\ w.completed = m.completed /\ w.skipped = m.skipped
          /\ w.awaiting = m.awaiting /\ Decision(w) = Decision(m)
      BY <2>1, <2>17 DEF Applied, StatusKinds, StatusAfter, RunTerminals, Decision
    <3>3. CASE m.status \in {"running", "awaiting_approval"}
      <4>1. Contract!Fail
        BY <2>2, <2>3, <2>4, <2>6, <2>7, <2>8, <2>17, <3>2, <3>3 DEF Contract!Fail
      <4> QED BY <4>1 DEF Contract!Next
    <3>4. CASE m.status = "failed"
      BY <2>2, <2>3, <2>4, <2>6, <2>7, <2>8, <2>17, <3>2, <3>4 DEF Contract!cvars
    <3> QED BY <2>2, <3>1, <3>3, <3>4 DEF RunState, Statuses
  <2> QED BY <2>10, <2>11, <2>12, <2>13, <2>14, <2>15, <2>16, <2>17
          DEF Event, Kinds, StepTerminals, RunTerminals
<1> QED BY <1>1, <1>2 DEF Grows

\* Every behaviour of the engine, with any number of processes, crashes and
\* failed writes, is one its readers' contract allows.
THEOREM ContractHolds == Spec => ImplementsContract
<1>1. Init => Contract!Init
  <2> SUFFICES ASSUME Init PROVE Contract!Init
    OBVIOUS
  <2>1. journal = <<>> /\ DOMAIN journal = {}
    BY DEF Init
  <2>2. /\ Named(journal, "step.completed") = {} /\ Named(journal, "step.skipped") = {}
        /\ Decided(journal, "approved") = {} /\ Decided(journal, "rejected") = {}
        /\ ReplayAwaiting(journal) = NoStep
    BY <2>1 DEF Named, Decided, ReplayAwaiting
  <2> QED BY <2>1, <2>2 DEF Contract!Init
<1>2. HInv /\ IInv' /\ [Next]_vars => [Contract!Next]_(Contract!cvars)
  BY NextGrows, GrowthImplements
<1> QED BY <1>1, <1>2, Invariance, HistoryInvariance, PTL
        DEF Spec, ImplementsContract, Contract!Spec

-----------------------------------------------------------------------------
\* The closed form is the loop.  The states of the loop behind each entry are
\* a function every journal extends by one value, so the induction over the
\* entries is the induction over the steps of the run.

LoopStates(j, g) ==
    g = [n \in 0 .. Len(j) |-> IF n = 0 THEN Blank ELSE Fold(g[n - 1], j[n])]

FoldInv ==
    /\ \E g : LoopStates(journal, g)
    /\ \A g : LoopStates(journal, g) => g[Len(journal)] = Replay(journal)

\* Two states with the same fields are the same.
LEMMA SameState ==
    ASSUME NEW a \in RunState, NEW b \in RunState,
           a.status = b.status, a.completed = b.completed, a.output = b.output,
           a.awaiting = b.awaiting, a.approved = b.approved, a.rejected = b.rejected,
           a.skipped = b.skipped
    PROVE  a = b
BY DEF RunState

LEMMA FoldIsApplied ==
    ASSUME NEW m \in RunState, NEW e \in Event,
           e.kind = "approval.required" => e.step \in Steps,
           e.kind = "approval.resolved" => m.awaiting = e.step
    PROVE  Fold(m, e) = Applied(m, e)
<1>1. CASE e.kind \in {"step.completed", "step.skipped", "step.failed"}
  BY <1>1, AppliedState DEF Fold
<1>2. CASE e.kind \in {"step.ready", "step.started", "attempt.assigned", "context.manifest",
                       "run.started"}
  <2>1. m = [status |-> m.status, completed |-> m.completed, output |-> m.output,
             awaiting |-> m.awaiting, approved |-> m.approved, rejected |-> m.rejected,
             skipped |-> m.skipped]
    BY DEF RunState
  <2> QED BY <1>2, <2>1 DEF Fold, Applied, StatusKinds, RunTerminals
<1>3. CASE e.kind \in RunTerminals
  <2>1. Fold(m, e) = [m EXCEPT !.status = StatusAfter(e.kind)]
    BY <1>3 DEF Fold, RunTerminals, StatusAfter
  <2>2. StatusAfter(e.kind) \in Statuses
    BY <1>3 DEF RunTerminals, StatusAfter, Statuses
  <2>3. Applied(m, e) = [status |-> StatusAfter(e.kind), completed |-> m.completed,
             output |-> m.output, awaiting |-> m.awaiting, approved |-> m.approved,
             rejected |-> m.rejected, skipped |-> m.skipped]
    BY <1>3 DEF Applied, StatusKinds, RunTerminals
  <2> QED BY <2>1, <2>2, <2>3 DEF RunState
<1>4. CASE e.kind = "approval.required"
  <2> DEFINE a == [m EXCEPT !.status = "awaiting_approval", !.awaiting = e.step]
             b == Applied(m, e)
  <2>1. Fold(m, e) = a
    BY <1>4 DEF Fold
  <2>2. b = [status |-> "awaiting_approval", completed |-> m.completed,
             output |-> m.output, awaiting |-> e.step, approved |-> m.approved,
             rejected |-> m.rejected, skipped |-> m.skipped]
    BY <1>4 DEF Applied, StatusKinds, StatusAfter
  <2>3. e.step \in Steps
    BY <1>4
  <2>4. a \in RunState /\ a.status = "awaiting_approval" /\ a.completed = m.completed
        /\ a.output = m.output /\ a.awaiting = e.step /\ a.approved = m.approved
        /\ a.rejected = m.rejected /\ a.skipped = m.skipped
    BY <2>3 DEF RunState, Statuses
  <2>5. b \in RunState
    BY <2>2, <2>3 DEF RunState, Statuses
  <2> HIDE DEF a, b
  <2>6. a = b
    BY <2>2, <2>4, <2>5, SameState
  <2> QED BY <2>1, <2>6 DEF b
<1>5. CASE e.kind = "approval.resolved"
  <2> DEFINE d == IF e.out = "approved" THEN [m EXCEPT !.approved = @ \cup {e.step}]
                                        ELSE [m EXCEPT !.rejected = @ \cup {e.step}]
             a == [d EXCEPT !.awaiting = NoStep, !.status = "running"]
             b == Applied(m, e)
  <2>1. Fold(m, e) = a
    BY <1>5 DEF Fold
  <2>2. e.step \in Steps /\ e.out \in Decisions
    BY <1>5 DEF Event
  <2>3. b = [status |-> "running", completed |-> m.completed,
             output |-> m.output, awaiting |-> NoStep,
             approved |-> IF e.out = "approved" THEN m.approved \cup {e.step} ELSE m.approved,
             rejected |-> IF e.out = "rejected" THEN m.rejected \cup {e.step} ELSE m.rejected,
             skipped |-> m.skipped]
    BY <1>5 DEF Applied, StatusKinds, StatusAfter
  <2>4. /\ d \in RunState /\ d.completed = m.completed
        /\ d.output = m.output /\ d.skipped = m.skipped
        /\ d.approved = IF e.out = "approved" THEN m.approved \cup {e.step} ELSE m.approved
        /\ d.rejected = IF e.out = "rejected" THEN m.rejected \cup {e.step} ELSE m.rejected
    BY <2>2 DEF RunState, Decisions
  <2> HIDE DEF d
  <2>5. /\ a \in RunState /\ a.status = "running" /\ a.completed = d.completed
        /\ a.output = d.output /\ a.awaiting = NoStep /\ a.approved = d.approved
        /\ a.rejected = d.rejected /\ a.skipped = d.skipped
    BY <2>4 DEF RunState, Statuses
  <2>6. b \in RunState
    BY <2>2, <2>3 DEF RunState, Statuses
  <2> HIDE DEF a, b
  <2>7. a = b
    BY <2>3, <2>4, <2>5, <2>6, SameState
  <2> QED BY <2>1, <2>7 DEF b
<1> QED BY <1>1, <1>2, <1>3, <1>4, <1>5 DEF Event, Kinds, StepTerminals

LEMMA FoldStep ==
    ASSUME HInv, Grows, FoldInv
    PROVE  FoldInv'
<1>0. journal \in Seq(Event)
  BY DEF HInv, IInv, TypeOK
<1>1. CASE journal' = journal
  BY <1>1 DEF FoldInv
<1>2. ASSUME NEW e \in Event, journal' = Append(journal, e), MayAppend(journal, e)
      PROVE  FoldInv'
  <2> DEFINE n == Len(journal)
  <2>1. /\ n \in Nat /\ Len(journal') = n + 1 /\ journal'[n + 1] = e
        /\ \A k \in 1 .. n : journal'[k] = journal[k]
    BY <1>0, <1>2, AppendFacts
  <2>2. Replay(journal') = Applied(Replay(journal), e)
    BY <1>0, <1>2, AppliedIsReplay DEF HInv
  <2>3. Fold(Replay(journal), e) = Replay(journal')
    <3>1. Replay(journal) \in RunState
      BY <1>0, ReplayType
    <3>2. /\ e.kind = "approval.required" => e.step \in Steps
          /\ e.kind = "approval.resolved" => Replay(journal).awaiting = e.step
      BY <1>2 DEF MayAppend
    <3> QED BY <2>2, <3>1, <3>2, FoldIsApplied
  <2> HIDE DEF n
  <2>4. PICK g : LoopStates(journal, g)
    BY DEF FoldInv
  <2>5. g[n] = Replay(journal)
    BY <2>4 DEF FoldInv, n
  <2>6. LoopStates(journal', [k \in 0 .. n + 1 |-> IF k = n + 1 THEN Replay(journal') ELSE g[k]])
    <3> DEFINE h == [k \in 0 .. n + 1 |-> IF k = n + 1 THEN Replay(journal') ELSE g[k]]
    <3>1. g = [k \in 0 .. n |-> IF k = 0 THEN Blank ELSE Fold(g[k - 1], journal[k])]
      BY <2>4 DEF LoopStates, n
    <3>2. ASSUME NEW k \in 0 .. n + 1
          PROVE  h[k] = IF k = 0 THEN Blank ELSE Fold(h[k - 1], journal'[k])
      <4>1. CASE k = n + 1
        <5>1. h[k - 1] = g[n] /\ h[k] = Replay(journal') /\ k # 0
          BY <2>1, <4>1
        <5> QED BY <2>1, <2>3, <2>5, <4>1, <5>1
      <4>2. CASE k # n + 1
        <5>1. k \in 0 .. n /\ h[k] = g[k] /\ (k # 0 => h[k - 1] = g[k - 1] /\ journal'[k] = journal[k])
          BY <2>1, <4>2
        <5>2. g[k] = IF k = 0 THEN Blank ELSE Fold(g[k - 1], journal[k])
          BY <3>1, <5>1
        <5> QED BY <5>1, <5>2
      <4> QED BY <4>1, <4>2
    <3> QED BY <2>1, <3>2 DEF LoopStates
  <2>7. ASSUME NEW h, LoopStates(journal', h) PROVE h[Len(journal')] = Replay(journal')
    <3> DEFINE f == [k \in 0 .. n |-> h[k]]
    <3>1. \A k \in 0 .. n + 1 : h[k] = IF k = 0 THEN Blank ELSE Fold(h[k - 1], journal'[k])
      BY <2>1, <2>7 DEF LoopStates
    <3>2. ASSUME NEW k \in 0 .. n
          PROVE  f[k] = IF k = 0 THEN Blank ELSE Fold(f[k - 1], journal[k])
      <4>1. k \in 0 .. n + 1 /\ f[k] = h[k]
            /\ (k # 0 => f[k - 1] = h[k - 1] /\ journal'[k] = journal[k])
        BY <2>1
      <4> QED BY <3>1, <4>1
    <3>3. f = [k \in 0 .. n |-> IF k = 0 THEN Blank ELSE Fold(f[k - 1], journal[k])]
      BY <3>2
    <3>4. f[n] = Replay(journal)
      BY <3>3 DEF FoldInv, LoopStates, n
    <3>5. h[n] = Replay(journal)
      BY <2>1, <3>4
    <3>6. h[n + 1] = Fold(h[n], journal'[n + 1])
      <4>1. n + 1 \in 0 .. n + 1 /\ n + 1 # 0 /\ (n + 1) - 1 = n
        BY <2>1
      <4> QED BY <3>1, <4>1
    <3> QED BY <2>1, <2>3, <3>5, <3>6
  <2> QED BY <2>6, <2>7 DEF FoldInv
<1> QED BY <1>1, <1>2 DEF Grows

LEMMA FoldInvariance == Spec => []FoldInv
<1>1. Init => FoldInv
  <2> SUFFICES ASSUME Init PROVE FoldInv
    OBVIOUS
  <2>1. journal = <<>> /\ Len(journal) = 0 /\ 0 .. 0 = {0}
    BY DEF Init
  <2>2. Replay(<<>>) = Blank
    BY DEF Replay, ReplayStatus, ReplayOutput, ReplayAwaiting, Named, Decided, Blank
  <2>3. LoopStates(journal, [n \in {0} |-> Blank])
    BY <2>1 DEF LoopStates
  <2>4. ASSUME NEW g, LoopStates(journal, g) PROVE g[0] = Blank
    BY <2>1, <2>4 DEF LoopStates
  <2> QED BY <2>1, <2>2, <2>3, <2>4 DEF FoldInv
<1>2. HInv /\ IInv' /\ [Next]_vars /\ FoldInv => FoldInv'
  BY NextGrows, FoldStep
<1> QED BY <1>1, <1>2, Invariance, HistoryInvariance, PTL DEF Spec

\* The numbers of the file are in order but for what the event sink leaves, no
\* load refuses the history it tells, a settled step is never readied, started or
\* attempted again, and the closed form the operations work with is what the loop
\* over the entries computes.
THEOREM HistoryIsSoundHolds == Spec => []HistoryIsSound
<1>1. ASSUME SequenceContiguous, HInv, FoldInv PROVE HistoryIsSound
  <2> DEFINE f == CHOOSE g : LoopStates(journal, g)
  <2>1. f[Len(journal)] = Replay(journal)
    BY <1>1 DEF FoldInv
  <2>2. Folded(journal) = f[Len(journal)]
    BY DEF Folded, LoopStates
  <2> QED BY <1>1, <2>1, <2>2 DEF HInv, History, HistoryIsSound, ReplayIsTheFold
<1> QED BY <1>1, JournalIsContiguous, HistoryInvariance, FoldInvariance, PTL
=============================================================================
