----------------------------- MODULE Projection -----------------------------
(***************************************************************************)
(* What Linear is told about one card (development/remote_workplan/        *)
(* linear.py and the outbox of gateway.py).  Every receipt of the gateway  *)
(* puts an item into the outbox in its own transaction; dispatchers claim  *)
(* items under a lease, show them as comments and mark them; a reconciler  *)
(* compares the issue with the card and puts repairs into the outbox.      *)
(*                                                                         *)
(* An item counts its attempts, and a mark names the attempt it is about;  *)
(* as a dispatcher works off one batch before it claims another, that is   *)
(* here who claimed the item last.                                         *)
(***************************************************************************)
EXTENDS Naturals, Sequences, SequencesExt

CONSTANTS
    Dispatchers, None, Limit, \* Limit: of the items claimed at once
    MaxRevision,              \* bound: changes of the card
    MaxTroubles               \* bound: edits by hand, calls that fail, leases that
                              \* end too early and dispatchers that die, together

VARIABLES
    desired,   \* revision of the card, which stands for its title and state
    outbox,    \* sequence of [key, rev, status, by, late]
    shown,     \* the issue: [rev, version]
    comments,  \* keys and revisions in the comments of the issue
    at, batch, \* of a dispatcher: its step, and the items it still has to do
    seen,      \* by the reconciler: [want, rev, version]
    troubles

vars == <<desired, outbox, shown, comments, at, batch, seen, troubles>>

\* The kind of an item is the first part of its key.
Item(kind, rev, version) ==
    [key |-> <<kind, rev, version>>, rev |-> rev, status |-> "pending", by |-> None, late |-> FALSE]

Kind(item) == item.key[1]

Init ==
    /\ desired = 0 /\ shown = [rev |-> 0, version |-> 0] /\ comments = {} /\ seen = None
    /\ outbox = <<>>
    /\ at = [d \in Dispatchers |-> "idle"] /\ batch = [d \in Dispatchers |-> <<>>]
    /\ troubles = 0

Trouble == troubles < MaxTroubles /\ troubles' = troubles + 1

-----------------------------------------------------------------------------
(* What goes into the outbox.                                              *)

\* INSERT OR IGNORE.
Enqueue(item) ==
    outbox' = IF \E i \in DOMAIN outbox : outbox[i].key = item.key THEN outbox ELSE Append(outbox, item)

Receipt ==
    /\ desired < MaxRevision /\ desired' = desired + 1
    /\ Enqueue(Item("activity", desired + 1, 0))
    /\ UNCHANGED <<shown, comments, at, batch, seen, troubles>>

\* The receipt of a switch of the backend names no card: every dispatch of it fails.
EpochReceipt ==
    /\ Enqueue(Item("epoch", 0, 0)) /\ outbox' # outbox
    /\ UNCHANGED <<desired, shown, comments, at, batch, seen, troubles>>

-----------------------------------------------------------------------------
(* Dispatchers.                                                            *)

\* Mutant: what a dispatcher took with it is lost.
ReclaimedNever(item) == item

Reclaimed(item) == IF item.status = "dispatching" /\ item.late THEN [item EXCEPT !.status = "pending"] ELSE item

Claim(d) ==
    LET free == [i \in DOMAIN outbox |-> Reclaimed(outbox[i])]
        due  == SelectSeq([i \in DOMAIN free |-> i], LAMBDA i : free[i].status = "pending")
        take == SubSeq(due, 1, IF Len(due) < Limit THEN Len(due) ELSE Limit)
    IN /\ at[d] = "idle" /\ take # <<>>
       /\ outbox' = [i \in DOMAIN free |->
            IF Contains(take, i) THEN [free[i] EXCEPT !.status = "dispatching", !.by = d, !.late = FALSE]
                                 ELSE free[i]]
       /\ batch' = [batch EXCEPT ![d] = take] /\ at' = [at EXCEPT ![d] = "try"]
       /\ UNCHANGED <<desired, shown, comments, seen, troubles>>

Current(d) == outbox[Head(batch[d])]
Goes(d, from, to) == at[d] = from /\ at' = [at EXCEPT ![d] = to]

Overwrite(d) == shown' = [rev |-> Current(d).rev, version |-> shown.version + 1]

IssueUpdate(d) ==
    /\ Goes(d, "try", "look") /\ Kind(Current(d)) = "repair"
    /\ Overwrite(d)
    /\ UNCHANGED <<desired, outbox, comments, batch, seen, troubles>>

Comment(d) == <<Current(d).key, Current(d).rev>>

HasMarker(d) ==
    /\ at[d] = "look" \/ (at[d] = "try" /\ Kind(Current(d)) = "activity")
    /\ at' = [at EXCEPT ![d] = IF Comment(d) \in comments THEN "shown" ELSE "post"]
    /\ UNCHANGED <<desired, outbox, shown, comments, batch, seen, troubles>>

Post(d) ==
    /\ Goes(d, "post", "shown") /\ comments' = comments \cup {Comment(d)}
    /\ UNCHANGED <<desired, outbox, shown, batch, seen, troubles>>

\* A call may have been carried out although it seems to have failed.
CallFails(d) ==
    /\ at[d] \in {"try", "look", "post"} /\ Kind(Current(d)) # "epoch"
    /\ Trouble
    /\ Goes(d, at[d], "failed")
    /\ \/ UNCHANGED <<shown, comments>>
       \/ at[d] = "try" /\ Kind(Current(d)) = "repair" /\ Overwrite(d) /\ UNCHANGED comments
       \/ at[d] = "post" /\ comments' = comments \cup {Comment(d)} /\ UNCHANGED shown
    /\ UNCHANGED <<desired, outbox, batch, seen>>

\* Only the last to claim an item may say what became of it.
Mark(d) ==
    LET i == Head(batch[d])
    IN /\ at[d] \in {"shown", "failed"} \/ (at[d] = "try" /\ Kind(Current(d)) = "epoch")
       /\ outbox' = IF outbox[i].status = "dispatching" /\ outbox[i].by = d
                      THEN [outbox EXCEPT ![i].status = IF at[d] = "shown" THEN "sent" ELSE "pending"]
                      ELSE outbox
       /\ batch' = [batch EXCEPT ![d] = Tail(@)]
       /\ at' = [at EXCEPT ![d] = IF Len(batch[d]) = 1 THEN "idle" ELSE "try"]
       /\ UNCHANGED <<desired, shown, comments, seen, troubles>>

Dispatch(d) ==
    Claim(d) \/ IssueUpdate(d) \/ HasMarker(d) \/ Post(d) \/ Mark(d)

Die(d) ==
    /\ at[d] # "idle" /\ Trouble
    /\ at' = [at EXCEPT ![d] = "idle"] /\ batch' = [batch EXCEPT ![d] = <<>>]
    /\ UNCHANGED <<desired, outbox, shown, comments, seen>>

Held(i) == \E d \in Dispatchers : outbox[i].by = d /\ Contains(batch[d], i)

\* The lease of an item ends: while its dispatcher is still busy, or after it died.
Lapse(i) ==
    /\ i \in DOMAIN outbox /\ outbox[i].status = "dispatching" /\ ~outbox[i].late
    /\ IF Held(i) THEN Trouble ELSE UNCHANGED troubles
    /\ outbox' = [outbox EXCEPT ![i].late = TRUE]
    /\ UNCHANGED <<desired, shown, comments, at, batch, seen>>

LeaseEnds == \E i \in DOMAIN outbox : ~Held(i) /\ Lapse(i)

-----------------------------------------------------------------------------
(* The reconciler.                                                         *)

Observe ==
    /\ seen = None
    /\ seen' = [want |-> desired, rev |-> shown.rev, version |-> shown.version]
    /\ UNCHANGED <<desired, outbox, shown, comments, at, batch, troubles>>

LatestRevision == Max({0} \cup {comment[2] : comment \in comments})

Drifted == seen.rev # seen.want \/ LatestRevision # seen.want

Repair == Item("repair", seen.want, seen.version)

Reconcile ==
    /\ seen # None /\ seen' = None
    /\ IF Drifted THEN Enqueue(Repair) ELSE UNCHANGED outbox
    /\ UNCHANGED <<desired, shown, comments, at, batch, troubles>>

EditByHand ==
    /\ Trouble
    /\ shown' = [rev |-> 0, version |-> shown.version + 1]
    /\ UNCHANGED <<desired, outbox, comments, at, batch, seen>>

-----------------------------------------------------------------------------
Sends ==
    \/ Receipt
    \/ \E d \in Dispatchers : Dispatch(d) \/ CallFails(d) \/ Die(d)
    \/ \E i \in DOMAIN outbox : Lapse(i)

Repairs == Observe \/ Reconcile \/ EditByHand

Next == Sends \/ EpochReceipt \/ Repairs

Sending == WF_vars(LeaseEnds) /\ \A d \in Dispatchers : WF_vars(Dispatch(d))
Repairing == WF_vars(Observe) /\ WF_vars(Reconcile)

Spec == Init /\ [][Next]_vars /\ Sending /\ Repairing

-----------------------------------------------------------------------------
(* Properties.                                                             *)

\* Every receipt of a card comes to be shown and is marked as sent, whichever
\* dispatcher died with it, and one that can never be sent notwithstanding.
EveryReceiptIsShown ==
    \A rev \in 1..MaxRevision :
        (desired >= rev) ~> \E i \in DOMAIN outbox :
            /\ outbox[i].key = <<"activity", rev, 0>> /\ outbox[i].status = "sent"
            /\ <<outbox[i].key, rev>> \in comments

\* The issue comes to show the card and stays so: repairs that are late, repeated
\* or about an older revision are themselves repaired.
DriftIsRepaired == <>[](shown.rev = desired)
=============================================================================
