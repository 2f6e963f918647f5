---------------------------- MODULE LocalWorkplan ----------------------------
(***************************************************************************)
(* The board of one machine (scripts/workplan.mjs).  A command takes the   *)
(* lock file, reads state.json, changes it and renames a new one over it.  *)
(* A command that dies leaves its lock behind; the next ones recover it    *)
(* under a second file, the recovery guard.                                *)
(*                                                                         *)
(* WORKPLAN.md, written before state.json and never read, and the revision *)
(* a caller must name, which only refuses commands, are left out.          *)
(***************************************************************************)
EXTENDS Naturals, FiniteSets

CONSTANTS
    Procs,               \* runs of commands; a run that died does not come back
    Cards, Owners, None,
    Overlapping,         \* pairs of cards with overlapping paths
    Deps, Allowed, Tree, Rank, \* of a card: dependencies, owners, worktree, priority
    Heads                \* commits that may be submitted

VARIABLES
    board,    \* state.json: per card [status, owner, from, keeps, freeze, merged]
    lock,     \* the run whose lock file is there
    guard,    \* the run whose recovery guard is there
    pc, plan  \* of a run: where it is, and the board it is about to write

vars == <<board, lock, guard, pc, plan>>

NoCard == [status |-> "none", owner |-> None, from |-> None, keeps |-> FALSE,
           freeze |-> None, merged |-> None]

Init ==
    /\ board = [c \in Cards |-> NoCard]
    /\ lock = None /\ guard = None
    /\ pc = [p \in Procs |-> "idle"] /\ plan = [p \in Procs |-> None]

-----------------------------------------------------------------------------
(* The board.  An operator of a card returns the rows a command may give it, *)
(* none when it refuses.                                                   *)

InProgress == {"claimed", "in_progress", "review", "verifying"}

Reserves(row) == row.status \in InProgress \cup {"ready"} \/ (row.status = "blocked" /\ row.keeps)

FreeOn(b, c) == \A d \in Cards \ {c} : Reserves(b[d]) => {c, d} \notin Overlapping
DepsDone(b, c) == \A d \in Deps[c] : b[d].status = "done"
HasNoOther(b, c, w) == \A d \in Cards \ {c} : b[d].status \in InProgress => b[d].owner # w

When(guarded, row) == IF guarded THEN {row} ELSE {}

Added(b, c) == When(b[c].status = "none" /\ FreeOn(b, c), [NoCard EXCEPT !.status = "backlog"])

Readied(b, c) ==
    When(b[c].status = "backlog" /\ DepsDone(b, c) /\ FreeOn(b, c), [b[c] EXCEPT !.status = "ready"])

Eligible(b, c, w) == w \in Allowed[c] /\ DepsDone(b, c) /\ FreeOn(b, c) /\ HasNoOther(b, c, w)

ClaimedBy(b, c, w) ==
    When(b[c].status = "ready" /\ Eligible(b, c, w), [b[c] EXCEPT !.status = "claimed", !.owner = w])

\* One ready card of another worktree refuses the command to everybody.
NextClaimedBy(b, c, w) ==
    LET ready == {d \in Cards : b[d].status = "ready"}
    IN IF /\ c \in ready /\ \A d \in ready : Tree[d] = Tree[c]
          /\ \A d \in ready : Rank[d] < Rank[c] => ~Eligible(b, d, w)
         THEN ClaimedBy(b, c, w) ELSE {}

Started(b, c) == When(b[c].status = "claimed", [b[c] EXCEPT !.status = "in_progress"])

Submitted(b, c) ==
    UNION {When(b[c].status = "in_progress", [b[c] EXCEPT !.status = "review", !.freeze = h]) : h \in Heads}

Integrated(b, c) ==
    When(b[c].status = "review", [b[c] EXCEPT !.status = "verifying", !.merged = b[c].freeze])

Agrees(row) == row.merged # None /\ row.merged = row.freeze

Accepted(b, c) == When(b[c].status = "verifying" /\ Agrees(b[c]), [b[c] EXCEPT !.status = "done"])

Blocked(b, c) ==
    UNION {When(b[c].status \in InProgress /\ (b[c].status = "verifying" => Agrees(b[c])),
                [b[c] EXCEPT !.status = "blocked", !.from = b[c].status, !.keeps = k]) : k \in BOOLEAN}

\* Mutant: a card that is resumed takes its paths back without asking.
UnblockedAnyway(b, c) == HasNoOther(b, c, b[c].owner)

Unblocked(b, c) == HasNoOther(b, c, b[c].owner) /\ FreeOn(b, c)

Resumed(b, c) ==
    When(/\ b[c].status = "blocked" /\ Unblocked(b, c)
         /\ b[c].from = "verifying" => Agrees(b[c]),
         [b[c] EXCEPT !.status = "in_progress", !.from = None, !.keeps = FALSE])

\* Every command refuses a board on which two reservations overlap.
Valid(b) == \A c \in Cards : Reserves(b[c]) => FreeOn(b, c)

Rows(b, c) ==
    Added(b, c) \cup Readied(b, c) \cup Started(b, c) \cup Submitted(b, c) \cup Integrated(b, c)
    \cup Accepted(b, c) \cup Blocked(b, c) \cup Resumed(b, c)
    \cup UNION {ClaimedBy(b, c, w) \cup NextClaimedBy(b, c, w) : w \in Owners}

Outcomes(b) ==
    IF Valid(b) THEN UNION {{[b EXCEPT ![c] = row] : row \in Rows(b, c)} : c \in Cards} ELSE {}

-----------------------------------------------------------------------------
(* Taking the lock.                                                        *)

Goes(p, from, to) == pc[p] = from /\ pc' = [pc EXCEPT ![p] = to]

Stale == lock # None /\ pc[lock] = "dead"

Begin(p) == Goes(p, "idle", "stat") /\ UNCHANGED <<board, lock, guard, plan>>

\* The command fails while a recovery is under way.
StatGuard(p) ==
    /\ Goes(p, "stat", IF guard = None THEN "link" ELSE "idle")
    /\ UNCHANGED <<board, lock, guard, plan>>

LinkLock(p) ==
    /\ Goes(p, "link", IF lock = None THEN "work" ELSE "classify")
    /\ lock' = IF lock = None THEN p ELSE lock
    /\ UNCHANGED <<board, guard, plan>>

Classify(p) ==
    /\ Goes(p, "classify", CASE lock = None -> "stat" [] Stale -> "guard" [] OTHER -> "idle")
    /\ UNCHANGED <<board, lock, guard, plan>>

-----------------------------------------------------------------------------
(* Recovering the lock of a run that died.                                 *)

SeekGuard(p) ==
    /\ Goes(p, "guard", IF guard = None THEN "linkguard" ELSE "idle")
    /\ UNCHANGED <<board, lock, guard, plan>>

LinkGuard(p) ==
    /\ Goes(p, "linkguard", IF guard = None THEN "again" ELSE "idle")
    /\ guard' = IF guard = None THEN p ELSE guard
    /\ UNCHANGED <<board, lock, plan>>

Reclassify(p) ==
    /\ Goes(p, "again", IF Stale THEN "rename" ELSE "unguard")
    /\ UNCHANGED <<board, lock, guard, plan>>

\* Whatever lock is there by now is moved away.
Quarantine(p) ==
    /\ Goes(p, "rename", "relink") /\ lock' = None
    /\ UNCHANGED <<board, guard, plan>>

Relink(p) ==
    /\ Goes(p, "relink", "unguard")
    /\ lock' = IF lock = None THEN p ELSE lock
    /\ UNCHANGED <<board, guard, plan>>

Unguard(p) ==
    /\ Goes(p, "unguard", IF lock = p THEN "work" ELSE "idle")
    /\ guard' = None
    /\ UNCHANGED <<board, lock, plan>>

-----------------------------------------------------------------------------
(* Under the lock.                                                         *)

Read(p) ==
    /\ \E b \in Outcomes(board) : plan' = [plan EXCEPT ![p] = b]
    /\ Goes(p, "work", "save")
    /\ UNCHANGED <<board, lock, guard>>

Refuse(p) == Goes(p, "work", "release") /\ UNCHANGED <<board, lock, guard, plan>>

Save(p) ==
    /\ Goes(p, "save", "release")
    /\ board' = plan[p] /\ plan' = [plan EXCEPT ![p] = None]
    /\ UNCHANGED <<lock, guard>>

\* Only a lock file that is still its own.
Release(p) ==
    /\ Goes(p, "release", "idle") /\ lock' = IF lock = p THEN None ELSE lock
    /\ UNCHANGED <<board, guard, plan>>

\* One run is left.
Die(p) ==
    /\ pc[p] \notin {"idle", "dead"} /\ \E q \in Procs \ {p} : pc[q] # "dead"
    /\ pc' = [pc EXCEPT ![p] = "dead"] /\ plan' = [plan EXCEPT ![p] = None]
    /\ UNCHANGED <<board, lock, guard>>

Next ==
    \E p \in Procs :
        \/ Begin(p) \/ StatGuard(p) \/ LinkLock(p) \/ Classify(p)
        \/ SeekGuard(p) \/ LinkGuard(p) \/ Reclassify(p) \/ Quarantine(p) \/ Relink(p) \/ Unguard(p)
        \/ Read(p) \/ Refuse(p) \/ Save(p) \/ Release(p) \/ Die(p)

Spec == Init /\ [][Next]_vars

-----------------------------------------------------------------------------
(* Properties.                                                             *)

\* No command is lost or half seen: a board that replaces another one is what
\* one command makes of that one, whoever died holding the lock or recovering it.
BoardStepsAreAtomic == [][board' \in Outcomes(board)]_board

\* A board every command can read: no two live reservations overlap, and an
\* owner has one card under way.
OwnersAreApart ==
    \A c, d \in Cards : c # d =>
        /\ Reserves(board[c]) /\ Reserves(board[d]) => {c, d} \notin Overlapping
        /\ board[c].status \in InProgress /\ board[d].status \in InProgress => board[c].owner # board[d].owner

\* What is verified or done is the head that was frozen for review.
VerifiedIsFrozen == \A c \in Cards : board[c].status \in {"verifying", "done"} => Agrees(board[c])
=============================================================================
