---------------------------- MODULE CodingWorker ----------------------------
(***************************************************************************)
(* CodingAgentWorker._execute (harness/coding.py) under claim_workspace    *)
(* (harness/isolation.py): calls of several harness processes, threads or  *)
(* event loops that all want the same resolved workspace, and the process  *)
(* trees of the command lines they launch there.                           *)
(*                                                                         *)
(* A call's tree is its leader (the CLI) and one descendant, which may     *)
(* share the CLI's process group and its output pipes or not.  SIGTERM     *)
(* obliges nobody: a process may exit at any time, or never.               *)
(***************************************************************************)
EXTENDS Naturals

CONSTANTS
    Procs,        \* harness processes
    Calls,        \* calls of _execute on the workspace
    ProcOf,       \* the process each call runs in
    NoCall,
    Forking,      \* calls whose CLI may spawn a descendant
    SeesTree,     \* _linux_descendant_pids works: /proc lists the tree
    MaxCancels,   \* bound: cancellations of a call
    MaxCrashes    \* bound: deaths of a harness process

ASSUME CodingWorkerAssumption ==
    /\ ProcOf \in [Calls -> Procs] /\ NoCall \notin Calls /\ Forking \subseteq Calls
    /\ SeesTree \in BOOLEAN /\ {MaxCancels, MaxCrashes} \subseteq Nat

VARIABLES
    holder,   \* _LOCAL_HOLDERS[key], per process
    flock,    \* the call whose descriptor holds the lock file
    call,
    cancels, crashes

vars == <<holder, flock, call, cancels, crashes>>

Whys == {"none", "denied", "unopened", "unlaunched", "answered", "timeout", "cancelled", "crashed"}

\* reserved: step 1 of the claim done; opened: step 2; held: inside the with
\* block; stopping: in _terminate_process_group, SIGTERM sent; unlocking: the
\* block left; leaving: in the outermost finally.
Call == [pc : {"idle", "reserved", "opened", "held", "running", "stopping",
               "unlocking", "leaving", "done"},
         why : Whys,             \* why the call ends
         leader : {"none", "alive", "exited"},
         child : {"none", "alive", "exited"},
         grouped : BOOLEAN,      \* the descendant stayed in the CLI's group
         piped : BOOLEAN,        \* it inherited stdout or stderr
         tracked : BOOLEAN,      \* a scan of /proc found it
         late : BOOLEAN,         \* the leader was gone when the stop began
         cutShort : BOOLEAN]     \* the stop itself was cancelled

Fresh == [pc |-> "idle", why |-> "none", leader |-> "none", child |-> "none",
          grouped |-> TRUE, piped |-> TRUE, tracked |-> FALSE, late |-> FALSE,
          cutShort |-> FALSE]

Init ==
    /\ holder = [p \in Procs |-> NoCall]
    /\ flock = NoCall
    /\ call = [c \in Calls |-> Fresh]
    /\ cancels = 0 /\ crashes = 0

\* Call c goes from pc to another one, for a reason when it ends.
Moves(c, from, to, why) ==
    /\ call[c].pc = from
    /\ call' = [call EXCEPT ![c].pc = to, ![c].why = IF why = "none" THEN @ ELSE why]

Bounds == UNCHANGED <<cancels, crashes>>

-----------------------------------------------------------------------------
(* claim_workspace.                                                        *)

Reserve(c) ==
    /\ holder[ProcOf[c]] = NoCall
    /\ Moves(c, "idle", "reserved", "none")
    /\ holder' = [holder EXCEPT ![ProcOf[c]] = c]
    /\ UNCHANGED flock /\ Bounds

\* Another call of this process has it; nothing of this one to undo.
ReserveDenied(c) ==
    /\ holder[ProcOf[c]] # NoCall
    /\ Moves(c, "idle", "done", "denied")
    /\ UNCHANGED <<holder, flock>> /\ Bounds

Open(c) ==
    /\ Moves(c, "reserved", "opened", "none")
    /\ UNCHANGED <<holder, flock>> /\ Bounds

\* Mutant: the reservation is only undone when the lock file was opened.
OpenFailsUnclean(c) ==
    /\ Moves(c, "reserved", "done", "unopened")
    /\ UNCHANGED <<holder, flock>> /\ Bounds

OpenFails(c) ==
    /\ Moves(c, "reserved", "leaving", "unopened")
    /\ UNCHANGED <<holder, flock>> /\ Bounds

\* Mutant: a lock that cannot be had is waived.
LockWaived(c) ==
    /\ Moves(c, "opened", "held", "none")
    /\ flock' = c
    /\ UNCHANGED holder /\ Bounds

Lock(c) ==
    /\ flock = NoCall
    /\ Moves(c, "opened", "held", "none")
    /\ flock' = c
    /\ UNCHANGED holder /\ Bounds

LockDenied(c) ==
    /\ flock # NoCall
    /\ Moves(c, "opened", "leaving", "denied")
    /\ UNCHANGED <<holder, flock>> /\ Bounds

Unlock(c) ==
    /\ Moves(c, "unlocking", "leaving", "none")
    /\ flock' = NoCall
    /\ UNCHANGED holder /\ Bounds

\* The outermost finally: the reservation goes if it is this call's.
Leave(c) ==
    /\ Moves(c, "leaving", "done", "none")
    /\ holder' = [holder EXCEPT ![ProcOf[c]] = IF @ = c THEN NoCall ELSE @]
    /\ UNCHANGED flock /\ Bounds

-----------------------------------------------------------------------------
(* The command line and what it leaves behind.                             *)

Launch(c) ==
    /\ call[c].pc = "held"
    /\ call' = [call EXCEPT ![c].pc = "running", ![c].leader = "alive"]
    /\ UNCHANGED <<holder, flock>> /\ Bounds

LaunchFails(c) ==
    /\ Moves(c, "held", "unlocking", "unlaunched")
    /\ UNCHANGED <<holder, flock>> /\ Bounds

\* CLIs spawn shells, tests and helper agents.
Fork(c) ==
    /\ c \in Forking /\ call[c].leader = "alive" /\ call[c].child = "none"
    /\ \E g, d \in BOOLEAN :
        call' = [call EXCEPT ![c].child = "alive", ![c].grouped = g, ![c].piped = d]
    /\ UNCHANGED <<holder, flock>> /\ Bounds

LeaderExits(c) ==
    /\ call[c].leader = "alive"
    /\ call' = [call EXCEPT ![c].leader = "exited"]
    /\ UNCHANGED <<holder, flock>> /\ Bounds

\* What a descendant was no longer matters once it exited.
Gone(r) == [r EXCEPT !.child = "exited", !.grouped = TRUE, !.piped = TRUE, !.tracked = FALSE]

ChildExits(c) ==
    /\ call[c].child = "alive"
    /\ call' = [call EXCEPT ![c] = Gone(@)]
    /\ UNCHANGED <<holder, flock>> /\ Bounds

\* communicate() returns: the leader was reaped and both pipes are closed.
Answered(c) ==
    /\ call[c].leader = "exited" /\ ~(call[c].child = "alive" /\ call[c].piped)
    /\ Moves(c, "running", "unlocking", "answered")
    /\ UNCHANGED <<holder, flock>> /\ Bounds

\* Descendants a scan of /proc can still trace to the leader.
Traced(r) == SeesTree /\ r.leader = "alive" /\ r.child = "alive"

\* _terminate_process_group up to its first await: nothing at all when the
\* leader has been reaped, else a scan and SIGTERM.
Stopped(r, why) ==
    IF r.leader = "exited"
    THEN [r EXCEPT !.pc = "unlocking", !.why = why, !.late = TRUE]
    ELSE [r EXCEPT !.pc = "stopping", !.why = why, !.tracked = Traced(r)]

\* Mutant: the deadline is not enforced.
TimeOutNever(c) == FALSE /\ UNCHANGED vars

TimeOut(c) ==
    /\ call[c].pc = "running"
    /\ call' = [call EXCEPT ![c] = Stopped(@, "timeout")]
    /\ UNCHANGED <<holder, flock>> /\ Bounds

\* Its end: everything is seen dead, or SIGKILL goes to the leader, to the
\* group and to what the two scans traced.
Killed(r) ==
    [IF r.child = "alive" /\ (r.grouped \/ r.tracked \/ Traced(r)) THEN Gone(r) ELSE r EXCEPT
        !.pc = "unlocking", !.leader = "exited"]

Kill(c) ==
    /\ call[c].pc = "stopping"
    /\ call' = [call EXCEPT ![c] = Killed(@)]
    /\ UNCHANGED <<holder, flock>> /\ Bounds

\* A cancelled call stops its tree behind a shield; a cancellation that comes
\* while a timeout stops it is not shielded from.
Cancel(c) ==
    /\ cancels < MaxCancels
    /\ \/ /\ call[c].pc = "running"
          /\ call' = [call EXCEPT ![c] = Stopped(@, "cancelled")]
       \/ /\ call[c].pc = "stopping" /\ call[c].why = "timeout"
          /\ call' = [call EXCEPT ![c].pc = "unlocking", ![c].cutShort = TRUE]
    /\ cancels' = cancels + 1
    /\ UNCHANGED <<holder, flock, crashes>>

\* The harness process dies: the kernel closes its descriptors, its memory is
\* gone, the command lines live on in their own sessions.
Crash(p) ==
    LET lost == {c \in Calls : ProcOf[c] = p /\ call[c].pc \notin {"idle", "done"}} IN
    /\ crashes < MaxCrashes /\ lost # {}
    /\ call' = [c \in Calls |->
            IF c \in lost THEN [call[c] EXCEPT !.pc = "done", !.why = "crashed"] ELSE call[c]]
    /\ holder' = [holder EXCEPT ![p] = NoCall]
    /\ flock' = IF flock \in lost THEN NoCall ELSE flock
    /\ crashes' = crashes + 1
    /\ UNCHANGED cancels

-----------------------------------------------------------------------------
\* What the harness does for a call once it began.
Step(c) ==
    \/ Open(c) \/ OpenFails(c) \/ Lock(c) \/ LockDenied(c) \/ Launch(c) \/ LaunchFails(c)
    \/ Answered(c) \/ TimeOut(c) \/ Kill(c) \/ Unlock(c) \/ Leave(c)

Next ==
    \/ \E c \in Calls : \/ Reserve(c) \/ ReserveDenied(c) \/ Step(c) \/ Cancel(c)
                        \/ Fork(c) \/ LeaderExits(c) \/ ChildExits(c)
    \/ \E p \in Procs : Crash(p)

Spec == Init /\ [][Next]_vars

\* The event loop runs ready coroutines and its timers fire; the command line
\* is under no obligation.
FairSpec == Spec /\ \A c \in Calls : WF_vars(Step(c))

-----------------------------------------------------------------------------
TypeOK ==
    /\ holder \in [Procs -> Calls \cup {NoCall}]
    /\ flock \in Calls \cup {NoCall}
    /\ call \in [Calls -> Call]
    /\ cancels \in 0..MaxCancels /\ crashes \in 0..MaxCrashes

Inside(c) == call[c].pc \in {"held", "running", "stopping"}

\* Concurrent coding workers cannot share one active checkout: one call is
\* inside its with block, whatever processes, threads and event loops try.
OneAttemptPerWorkspace ==
    \A c, d \in Calls : Inside(c) /\ Inside(d) => c = d

\* The two locks of the claim are exactly those of the calls between taking
\* and releasing them: no failure path, denial or crash leaves one behind,
\* and no call ever drops another's.
NothingLeaks ==
    \A c \in Calls :
        /\ holder[ProcOf[c]] = c <=> call[c].pc \notin {"idle", "done"}
        /\ flock = c <=> Inside(c) \/ call[c].pc = "unlocking"

\* Whatever the command line does, and even when it hangs, its lease ends.
EveryLeaseEnds == \A c \in Calls : call[c].pc # "idle" ~> call[c].pc = "done"

\* "Give the attempt its own group so timeout/cancellation cannot leave
\* descendants mutating the workspace": no call is given the workspace while
\* the group of one that timed out or was cancelled has a live process.
NoDescendantAfterStop ==
    \A c, d \in Calls :
        /\ call[c].why \in {"timeout", "cancelled"} /\ call[c].pc = "done" /\ Inside(d)
        => ~(call[c].child = "alive" /\ call[c].grouped)
=============================================================================
