-------------------------- MODULE LineageWorkspace --------------------------
(***************************************************************************)
(* The LineageWorkspaceManager of a discovery campaign (discovery/         *)
(* lineage.py): one git branch and worktree per lineage, a receipt for     *)
(* every change, and recovery from the receipts its caller persisted.      *)
(*                                                                         *)
(* Beside it, the worker of a lineage edits and may commit in its own      *)
(* worktree, an operator cleans one up or takes it away, git may fail, and *)
(* the process may die between a change of the repository and its receipt. *)
(***************************************************************************)
EXTENDS Integers, Sequences, FiniteSets, SequencesExt

CONSTANTS Lineages, None, MaxCommits, MaxReceipts, MaxRestarts

VARIABLES
    git,       \* the commits: git[c] is the parent of commit c; 0 is the baseline
    branch,    \* per lineage: its branch, or None
    tree,      \* per lineage: its worktree
    mem,       \* per lineage: the manager's record of it, or None
    mgr,       \* "up", "down", "poisoned"
    seq,       \* the next sequence number
    op,        \* the operation under way, or None
    out,       \* receipts returned that the caller has not persisted
    journal,   \* the durable receipts
    restarts

repo == <<git, branch, tree>>
vars == <<repo, mem, mgr, seq, op, out, journal, restarts>>

NoTree == [at |-> None, dirt |-> {}, attached |-> FALSE]
HeadOf(l) == IF tree[l].attached THEN branch[l] ELSE tree[l].at

Init ==
    /\ git = <<>> /\ branch = [l \in Lineages |-> None] /\ tree = [l \in Lineages |-> NoTree]
    /\ mem = [l \in Lineages |-> None] /\ mgr = "up"
    /\ seq = 0 /\ op = None /\ out = <<>> /\ journal = <<>> /\ restarts = 0

Known(l) == mem[l] # None
Usable(l) == Known(l) /\ ~mem[l].quarantined
Ready == mgr = "up" /\ op = None /\ out = <<>>

\* A receipt.  Its tree_hash is told by the commit whose tree it is; via is not
\* in it: the commit whose parent was looked at.
ReceiptOf(n, type, l, parent, bounded, commit, via, treeOf) ==
    [seq |-> n, type |-> type, lineage |-> l, parent |-> parent, bounded |-> bounded,
     commit |-> commit, via |-> via, tree |-> treeOf]
Receipt(n, type, l, parent, commit, bounded) == ReceiptOf(n, type, l, parent, bounded, commit, commit, commit)

NewLineage(parent, base, bounded) ==
    [parent |-> parent, head |-> base, bounded |-> bounded, quarantined |-> FALSE]

-----------------------------------------------------------------------------
(* create_lineage: everything is checked and the number taken, then git.   *)

\* A child starts at its parent's recorded head and never has a wider boundary.
MayCreate(l, parent, bounded) ==
    /\ ~Known(l) /\ parent # l
    /\ parent # None => Usable(parent) /\ (mem[parent].bounded => bounded)

CreateBegin(l, parent, bounded) ==
    /\ Ready /\ seq < MaxReceipts /\ MayCreate(l, parent, bounded)
    /\ seq' = seq + 1
    /\ op' = [kind |-> "create", lineage |-> l, parent |-> parent, bounded |-> bounded, seq |-> seq,
              base |-> IF parent = None THEN 0 ELSE mem[parent].head]
    /\ UNCHANGED <<repo, mem, mgr, out, journal, restarts>>

\* git worktree add -b: it refuses a branch or a directory that exists.
WorktreeAdd ==
    /\ op # None /\ op.kind = "create"
    /\ branch[op.lineage] = None /\ tree[op.lineage] = NoTree
    /\ branch' = [branch EXCEPT ![op.lineage] = op.base]
    /\ tree' = [tree EXCEPT ![op.lineage] = [at |-> op.base, dirt |-> {}, attached |-> TRUE]]
    /\ mem' = [mem EXCEPT ![op.lineage] = NewLineage(op.parent, op.base, op.bounded)]
    /\ out' = <<Receipt(op.seq, "created", op.lineage, op.parent, op.base, op.bounded)>>
    /\ op' = None
    /\ UNCHANGED <<git, mgr, seq, journal, restarts>>

\* Any git command of an operation raises.
GitFails ==
    /\ op # None /\ op' = None
    /\ UNCHANGED <<repo, mem, mgr, seq, out, journal, restarts>>

-----------------------------------------------------------------------------
(* checkpoint and commit_child.                                            *)

CommitBegin(l) ==
    /\ Ready /\ seq < MaxReceipts /\ Usable(l) /\ tree[l] # NoTree
    /\ HeadOf(l) = mem[l].head
    /\ mem[l].bounded => "outside" \notin tree[l].dirt
    /\ op' = [kind |-> "commit", lineage |-> l, commit |-> 0, via |-> 0]
    /\ UNCHANGED <<repo, mem, mgr, seq, out, journal, restarts>>

Staged(l) == IF mem[l].bounded THEN tree[l].dirt \cap {"inside"} ELSE tree[l].dirt

\* A commit on whatever the worktree has checked out by now.
GitCommit(l, staged) ==
    /\ Len(git) < MaxCommits
    /\ git' = Append(git, HeadOf(l))
    /\ branch' = [branch EXCEPT ![l] = IF tree[l].attached THEN Len(git) + 1 ELSE @]
    /\ tree' = [tree EXCEPT ![l].dirt = @ \ staged, ![l].at = Len(git) + 1]

Commit ==
    /\ op # None /\ op.kind = "commit" /\ tree[op.lineage] # NoTree
    /\ GitCommit(op.lineage, Staged(op.lineage))
    /\ op' = [op EXCEPT !.kind = "status"]
    /\ UNCHANGED <<mem, mgr, seq, out, journal, restarts>>

\* The reads behind the commit: processes of git of their own, each of which
\* sees what the worktree has checked out when it runs.
Reads(kind) == op # None /\ op.kind = kind /\ tree[op.lineage] # NoTree
ReadsOnly == UNCHANGED <<repo, mem, mgr, seq, out, journal, restarts>>

ReadStatus ==
    /\ Reads("status") /\ tree[op.lineage].dirt = {}
    /\ op' = [op EXCEPT !.kind = "head"] /\ ReadsOnly

ReadHead ==
    /\ Reads("head")
    /\ op' = [op EXCEPT !.kind = "parent", !.commit = HeadOf(op.lineage)] /\ ReadsOnly

\* Mutant: the parent of the new head is not compared with the recorded head.
DescendsAnyway(l) == HeadOf(l) # 0

\* What is checked out is a child of the recorded head.
Descends(l) == HeadOf(l) # 0 /\ git[HeadOf(l)] = mem[l].head

ReadParent ==
    /\ Reads("parent") /\ Descends(op.lineage)
    /\ op' = [op EXCEPT !.kind = "tree", !.via = HeadOf(op.lineage)] /\ ReadsOnly

\* The last read; what was read is recorded and returned.
Verify ==
    /\ Reads("tree")
    /\ LET l == op.lineage IN
          /\ mem' = [mem EXCEPT ![l].head = op.commit]
          /\ out' = <<ReceiptOf(seq, "committed", l, mem[l].parent, mem[l].bounded, op.commit, op.via, HeadOf(l))>>
    /\ seq' = seq + 1 /\ op' = None
    /\ UNCHANGED <<repo, mgr, journal, restarts>>

-----------------------------------------------------------------------------
(* The caller's journal and the process.                                   *)

Persist ==
    /\ out # <<>>
    /\ journal' = Append(journal, out[1]) /\ out' = Tail(out)
    /\ UNCHANGED <<repo, mem, mgr, seq, op, restarts>>

Crash ==
    /\ restarts < MaxRestarts /\ restarts' = restarts + 1
    /\ mgr' = "down" /\ mem' = [l \in Lineages |-> None] /\ op' = None /\ out' = <<>>
    /\ UNCHANGED <<repo, seq, journal>>

Contiguous(log) == \A i \in 1 .. Len(log) : log[i].seq = i - 1

\* _apply_receipt: what one receipt does to the lineages, or None if it is
\* refused.  A receipt of an existing lineage restates its parent and boundary.
CreatedFits(state, r) ==
    /\ state[r.lineage] = None /\ r.tree = r.commit
    /\ r.parent # None =>
          /\ state[r.parent] # None /\ ~state[r.parent].quarantined
          /\ state[r.parent].head = r.commit
          /\ state[r.parent].bounded => r.bounded
CommitFits(state, r) ==
    /\ state[r.lineage] # None
    /\ r.parent = state[r.lineage].parent /\ r.bounded = state[r.lineage].bounded
    /\ r.commit # 0 /\ git[r.commit] = state[r.lineage].head
    /\ r.tree = r.commit

Applied(state, r) ==
    IF state = None THEN None
    ELSE IF r.type = "created" THEN
            IF CreatedFits(state, r)
            THEN [state EXCEPT ![r.lineage] = NewLineage(r.parent, r.commit, r.bounded)] ELSE None
    ELSE IF r.type = "committed" THEN
            IF CommitFits(state, r) THEN [state EXCEPT ![r.lineage].head = r.commit] ELSE None
    ELSE [state EXCEPT ![r.lineage].quarantined = TRUE]

Replay(log) == FoldLeft(Applied, [l \in Lineages |-> None], log)

\* _detect_worktree_anomaly.
Anomalous(state, l) ==
    \/ tree[l] = NoTree \/ tree[l].dirt # {}
    \/ HeadOf(l) # state[l].head \/ ~tree[l].attached

ToQuarantine(state) == {l \in Lineages : state[l] # None /\ ~state[l].quarantined /\ Anomalous(state, l)}

\* A quarantine receipt for each, in the order of their names.
Quarantines(state, found) ==
    LET names == SetToSeq(found) IN
    [i \in 1 .. Len(names) |->
        Receipt(Len(journal) + i - 1, "quarantined", names[i], state[names[i]].parent,
                state[names[i]].head, state[names[i]].bounded)]

\* A gap is refused before anything is replayed: the manager stays down.
Recover ==
    /\ mgr = "down" /\ Contiguous(journal)
    /\ LET state == Replay(journal)
           found == IF state = None THEN {} ELSE ToQuarantine(state)
       IN IF state = None
          THEN mgr' = "poisoned" /\ UNCHANGED <<mem, seq, out>>
          ELSE /\ mgr' = "up"
               /\ mem' = [l \in Lineages |-> IF l \in found THEN [state[l] EXCEPT !.quarantined = TRUE]
                                                            ELSE state[l]]
               /\ out' = Quarantines(state, found)
               /\ seq' = Len(journal) + Cardinality(found)
    /\ UNCHANGED <<repo, op, journal, restarts>>

-----------------------------------------------------------------------------
(* Everybody else in the worktrees.                                        *)

Others == UNCHANGED <<mem, mgr, seq, op, out, journal, restarts>>

\* Without a boundary nothing is outside of it.
Bounded(l) == LET log == journal \o out IN \E i \in DOMAIN log : log[i].lineage = l /\ log[i].bounded

\* One kind of change at a time: inside the boundary or out of it.
Edit(l, where) ==
    /\ tree[l] # NoTree /\ tree[l].dirt = {} /\ (where = "outside" => Bounded(l))
    /\ tree' = [tree EXCEPT ![l].dirt = {where}]
    /\ Others /\ UNCHANGED <<git, branch>>

WorkerCommits(l) ==
    /\ tree[l] # NoTree /\ tree[l].dirt # {} /\ GitCommit(l, tree[l].dirt) /\ Others

CleanUp(l) ==
    /\ tree[l] # NoTree /\ tree[l].dirt # {}
    /\ tree' = [tree EXCEPT ![l].dirt = {}]
    /\ Others /\ UNCHANGED <<git, branch>>

\* git checkout of a commit; git switch back to the branch.
Detach(l) ==
    /\ tree[l] # NoTree /\ tree[l].dirt = {}
    /\ tree' = [tree EXCEPT ![l].attached = ~@, ![l].at = branch[l]]
    /\ Others /\ UNCHANGED <<git, branch>>

TakeAway(l) ==
    /\ tree[l] # NoTree
    /\ tree' = [tree EXCEPT ![l] = NoTree]
    /\ Others /\ UNCHANGED <<git, branch>>

Next ==
    \/ \E l \in Lineages, p \in Lineages \cup {None}, b \in BOOLEAN : CreateBegin(l, p, b)
    \/ WorktreeAdd \/ GitFails \/ Commit \/ ReadStatus \/ ReadHead \/ ReadParent \/ Verify
    \/ Persist \/ Crash \/ Recover
    \/ \E l \in Lineages :
          \/ CommitBegin(l)
          \/ \E where \in {"inside", "outside"} : Edit(l, where)
          \/ WorkerCommits(l) \/ CleanUp(l) \/ Detach(l) \/ TakeAway(l)

Spec == Init /\ [][Next]_vars

-----------------------------------------------------------------------------
(* Properties.                                                             *)

\* What is checked out was moved, by a commit of the worker, between the reads
\* that a receipt was made of.
Straddles(r) == r.via # r.commit \/ r.tree # r.commit

\* Whatever happens to the worktrees and whenever the process dies, recover()
\* refuses a journal without a gap, and poisons the manager, for one reason
\* only: it holds a receipt that straddles a commit of the worker, which the
\* manager itself returned.
JournalsReplay == mgr = "poisoned" => \E i \in DOMAIN journal : Straddles(journal[i])

\* A quarantine holds for good, also after the worktree is put in order and
\* the process restarted: no lineage grows from it, by a commit or a child.
QuarantineHolds ==
    LET log == journal \o out IN
    \A i, j \in 1 .. Len(log) : i < j /\ log[i].type = "quarantined" =>
        log[j].lineage # log[i].lineage /\ (log[j].type = "created" => log[j].parent # log[i].lineage)

\* What recover() says it rejects, a sequence with a gap, is never written:
\* a number is consumed only for a receipt that is published under it.
JournalHasNoGaps == Contiguous(journal)
=============================================================================
