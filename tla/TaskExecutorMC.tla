--------------------------- MODULE TaskExecutorMC ---------------------------
(* Those who call a service that may fail them, each by itself: the        *)
(* executor in two instances, "solo", one task and whatever can happen to  *)
(* it, and "shared", two tasks that share a pool with an explored member,  *)
(* the evidence and the budget; "talk", a worker and its model; and the    *)
(* outbox to Linear in two, "outbox", two dispatchers and an item that can *)
(* never be sent, and "drift", one dispatcher, a reconciler and somebody   *)
(* who edits the issue.                                                    *)
EXTENDS TaskExecutor, LocalWorkerMC

CONSTANTS
    t1, t2, small, mid, benched, big,
    None, Outgoing, Dispatchers, Limit, MaxRevision, MaxTroubles   \* Outgoing: the dispatchers of "outbox"

VARIABLES
    part,
    desired, outbox, shown, comments, at, batch, seen, troubles

issue == <<desired, outbox, shown, comments, at, batch, seen, troubles>>

\* One runner per tier.
Ladder == [i \in 1..3 |-> <<<<small>>, <<mid>>, <<big>>>>[i]]

\* A pool of two in the middle: its second member is explored.
Benched == [i \in 1..3 |-> <<<<small>>, <<mid, benched>>, <<big>>>>[i]]

AllFit == [t \in Tasks |-> Workers]
Unpinned == [t \in Tasks |-> NoWorker]
NoFloor == [t \in Tasks |-> 1]

\* Cold start for summarizing: every tier clears a threshold of 70.
Easy == [i \in 1..3 |-> <<75, 90, 97>>[i]]

\* Cold start for code edits: the small tier does not clear it.
Hard == [i \in 1..3 |-> <<45, 78, 93>>[i]]

Prices == [i \in 1..3 |-> <<1, 2, 4>>[i]]

Both == {t1, t2}
Four == {small, mid, benched, big}
FourFit == [t \in Both |-> Four]
SecondPinned == [t \in Both |-> IF t = t2 THEN mid ELSE NoWorker]
FloorOfBoth == [t \in Both |-> 1]
First == {t1}
Neither == {}

Shared == INSTANCE TaskExecutor WITH
    Tasks <- Both, Workers <- Four, Pools <- Benched, Fit <- FourFit, Pin <- SecondPinned,
    Floor <- FloorOfBoth, Checkable <- First, CodeEdits <- Neither, Prior <- Hard, CostCap <- 5,
    Charges <- {1, 3}, Causes <- {"pass", "fail", "timeout"}, Denying <- FALSE, MaxAttempts <- 3

Drift == INSTANCE Projection
Outbox == INSTANCE Projection WITH Dispatchers <- Outgoing, Limit <- 2, MaxTroubles <- 2

ExecutorInit ==
    /\ part \in {"solo", "shared", "talk", "outbox", "drift"}
    /\ IF part = "shared" THEN Shared!Init ELSE Init
    /\ IF part = "outbox" THEN Outbox!Init ELSE Drift!Init
    /\ WorkerInit /\ (part = "talk" \/ contract = CHOOSE c \in Contracts : TRUE)

ExecutorNext ==
    /\ UNCHANGED part
    /\ \/ part = "solo" /\ Next /\ UNCHANGED <<worker, issue>>
       \/ part = "shared" /\ Shared!Next /\ UNCHANGED <<worker, issue>>
       \/ part = "talk" /\ WorkerNext /\ UNCHANGED <<vars, issue>>
       \/ part = "outbox" /\ (Outbox!Sends \/ Outbox!EpochReceipt) /\ UNCHANGED <<vars, worker>>
       \/ part = "drift" /\ (Drift!Sends \/ Drift!Repairs) /\ UNCHANGED <<vars, worker>>

ExecutorSpec ==
    /\ ExecutorInit /\ [][ExecutorNext]_<<part, vars, worker, issue>>
    /\ \A t \in Tasks : WF_vars(part = "solo" /\ Step(t))
    /\ \A d \in Outgoing : WF_issue(part = "outbox" /\ Outbox!Dispatch(d))
    /\ \A d \in Dispatchers : WF_issue(part = "drift" /\ Drift!Dispatch(d))
    /\ WF_issue(part = "outbox" /\ Outbox!LeaseEnds) /\ WF_issue(part = "drift" /\ Drift!LeaseEnds)
    /\ WF_issue(part = "drift" /\ Drift!Observe) /\ WF_issue(part = "drift" /\ Drift!Reconcile)

\* The property of the lone task.
LoneTaskSettles == part = "solo" => EveryTaskSettles

\* What Linear shows follows the card: every receipt comes to be shown, whatever
\* was lost on the way, and an issue that drifted is put back for good.
IssueFollowsCard ==
    /\ Drift!EveryReceiptIsShown
    /\ part = "drift" => Drift!DriftIsRepaired
=============================================================================
