--------------------------- MODULE WorkplanProofs ---------------------------
(***************************************************************************)
(* The workplan, of one machine and behind the gateway, and the other      *)
(* programs that lock with files.  For any number of processes, calls,     *)
(* writers, commands, cards, workers, paths, definitions and dependencies, *)
(* with denials, failures, cancellations and deaths.                       *)
(*                                                                         *)
(* The lease excludes, and is returned: TypeOK and NothingLeaks are        *)
(* inductive together; exclusion follows from the second, since one        *)
(* descriptor holds the lock file.                                         *)
(*                                                                         *)
(* The suite: one writer at a time has read what the file holds, so that   *)
(* the file only grows, and no question changes sides.                     *)
(*                                                                         *)
(* The board: one command at a time works on it, also after a lock was     *)
(* recovered, so that a board is what whole commands made of it.           *)
(*                                                                         *)
(* The gateway: reservations stay apart, a worker has one card and knows   *)
(* its task, and what is done is what was submitted.                       *)
(***************************************************************************)
EXTENDS Locks, RemoteWorkplan, Sequences, TLAPS

(***************************************************************************)
(* The lease.                                                              *)
(***************************************************************************)

USE DEF Bounds

IInv == TypeOK /\ NothingLeaks

\* Nothing is held before the first call.
LEMMA InitIInv == Init => IInv
<1> SUFFICES ASSUME Init PROVE IInv
  OBVIOUS
<1>1. Fresh \in Call
  BY DEF Fresh, Call, Whys
<1>2. TypeOK
  BY <1>1, CodingWorkerAssumption DEF Init, TypeOK
<1>3. NothingLeaks
  BY CodingWorkerAssumption DEF Init, NothingLeaks, Inside, Fresh
<1> QED
  BY <1>2, <1>3 DEF IInv

\* The record of a call stays one when it moves.
LEMMA MovesTypes ==
    ASSUME TypeOK, NEW c \in Calls, NEW from, NEW to, NEW why \in Whys, Moves(c, from, to, why),
           to \in {"idle", "reserved", "opened", "held", "running", "stopping",
                   "unlocking", "leaving", "done"}
    PROVE  call' \in [Calls -> Call]
<1>1. call[c] \in Call
  BY DEF TypeOK
<1>2. [call[c] EXCEPT !.pc = to, !.why = IF why = "none" THEN @ ELSE why] \in Call
  BY <1>1 DEF Call
<1>3. call' = [call EXCEPT ![c] = [call[c] EXCEPT !.pc = to, !.why = IF why = "none" THEN @ ELSE why]]
  BY <1>1 DEF Moves, TypeOK, Call
<1> QED
  BY <1>2, <1>3 DEF TypeOK

\* The record of a call stays one whatever a process does to it.
LEMMA StoppedIsCall ==
    ASSUME NEW r \in Call, NEW why \in Whys PROVE Stopped(r, why) \in Call
<1>1. Traced(r) \in BOOLEAN
  BY DEF Traced
<1>2. CASE r.leader = "exited"
  BY <1>2 DEF Stopped, Call
<1>3. CASE r.leader # "exited"
  BY <1>1, <1>3 DEF Stopped, Call
<1> QED
  BY <1>2, <1>3

LEMMA GoneIsCall == ASSUME NEW r \in Call PROVE Gone(r) \in Call
BY DEF Gone, Call

LEMMA KilledIsCall == ASSUME NEW r \in Call PROVE Killed(r) \in Call
<1> DEFINE k == IF r.child = "alive" /\ (r.grouped \/ r.tracked \/ Traced(r)) THEN Gone(r) ELSE r
<1>1. k \in Call
  BY GoneIsCall
<1> HIDE DEF k
<1>2. [k EXCEPT !.pc = "unlocking", !.leader = "exited"] \in Call
  BY <1>1 DEF Call
<1> QED
  BY <1>2 DEF Killed, k

LEMMA CutShortIsCall ==
    ASSUME NEW r \in Call PROVE [r EXCEPT !.pc = "unlocking", !.cutShort = TRUE] \in Call
BY DEF Call

LEMMA CrashedIsCall ==
    ASSUME NEW r \in Call PROVE [r EXCEPT !.pc = "done", !.why = "crashed"] \in Call
<1>1. "crashed" \in Whys
  BY DEF Whys
<1> QED
  BY <1>1 DEF Call

\* A step of the model preserves the types.
LEMMA StepTypes == TypeOK /\ [Next]_vars => TypeOK'
<1> SUFFICES ASSUME TypeOK, [Next]_vars PROVE TypeOK'
  OBVIOUS
<1> USE CodingWorkerAssumption DEF TypeOK
<1>1. ASSUME NEW c \in Calls, Reserve(c) \/ ReserveDenied(c) PROVE TypeOK'
  <2>1. call' \in [Calls -> Call]
    BY <1>1, MovesTypes DEF Reserve, ReserveDenied, Whys
  <2> QED
    BY <1>1, <2>1 DEF Reserve, ReserveDenied
<1>2. ASSUME NEW c \in Calls, Open(c) \/ OpenFails(c) \/ Lock(c) \/ LockDenied(c) PROVE TypeOK'
  <2>1. call' \in [Calls -> Call]
    BY <1>2, MovesTypes DEF Open, OpenFails, Lock, LockDenied, Whys
  <2> QED
    BY <1>2, <2>1 DEF Open, OpenFails, Lock, LockDenied
<1>3. ASSUME NEW c \in Calls, LaunchFails(c) \/ Answered(c) PROVE TypeOK'
  <2>1. call' \in [Calls -> Call]
    BY <1>3, MovesTypes DEF LaunchFails, Answered, Whys
  <2> QED
    BY <1>3, <2>1 DEF LaunchFails, Answered
<1>4. ASSUME NEW c \in Calls, Unlock(c) \/ Leave(c) PROVE TypeOK'
  <2>1. call' \in [Calls -> Call]
    BY <1>4, MovesTypes DEF Unlock, Leave, Whys
  <2> QED
    BY <1>4, <2>1 DEF Unlock, Leave
<1>11. ASSUME NEW c \in Calls, Launch(c) PROVE TypeOK'
  <2>1. call[c] \in Call
    OBVIOUS
  <2>2. [call[c] EXCEPT !.pc = "running", !.leader = "alive"] \in Call
    BY <2>1 DEF Call
  <2>3. call' \in [Calls -> Call]
    BY <1>11, <2>2 DEF Launch
  <2> QED
    BY <1>11, <2>3 DEF Launch
<1>5. ASSUME NEW c \in Calls, Fork(c) \/ LeaderExits(c) \/ ChildExits(c) PROVE TypeOK'
  <2> call[c] \in Call
    OBVIOUS
  <2>1. CASE Fork(c)
    <3>1. PICK g \in BOOLEAN, d \in BOOLEAN :
            call' = [call EXCEPT ![c].child = "alive", ![c].grouped = g, ![c].piped = d]
      BY <2>1 DEF Fork
    <3>2. [call[c] EXCEPT !.child = "alive", !.grouped = g, !.piped = d] \in Call
      BY DEF Call
    <3> QED
      BY <2>1, <3>1, <3>2 DEF Fork
  <2>2. CASE LeaderExits(c)
    <3>1. [call[c] EXCEPT !.leader = "exited"] \in Call
      BY DEF Call
    <3> QED
      BY <2>2, <3>1 DEF LeaderExits
  <2>3. CASE ChildExits(c)
    <3>1. Gone(call[c]) \in Call
      BY GoneIsCall
    <3> QED
      BY <2>3, <3>1 DEF ChildExits
  <2> QED
    BY <1>5, <2>1, <2>2, <2>3
<1>6. ASSUME NEW c \in Calls, TimeOut(c) PROVE TypeOK'
  <2>1. Stopped(call[c], "timeout") \in Call
    BY StoppedIsCall DEF Whys
  <2> QED
    BY <1>6, <2>1 DEF TimeOut
<1>7. ASSUME NEW c \in Calls, Kill(c) PROVE TypeOK'
  <2>1. Killed(call[c]) \in Call
    BY KilledIsCall
  <2> QED
    BY <1>7, <2>1 DEF Kill
<1>8. ASSUME NEW c \in Calls, Cancel(c) PROVE TypeOK'
  <2>1. Stopped(call[c], "cancelled") \in Call
    BY StoppedIsCall DEF Whys
  <2>2. [call[c] EXCEPT !.pc = "unlocking", !.cutShort = TRUE] \in Call
    BY CutShortIsCall
  <2>3. call' \in [Calls -> Call]
    BY <1>8, <2>1, <2>2 DEF Cancel
  <2> QED
    BY <1>8, <2>3 DEF Cancel
<1>9. ASSUME NEW p \in Procs, Crash(p) PROVE TypeOK'
  <2> DEFINE lost == {c \in Calls : ProcOf[c] = p /\ call[c].pc \notin {"idle", "done"}}
  <2>1. ASSUME NEW c \in Calls
        PROVE  [call[c] EXCEPT !.pc = "done", !.why = "crashed"] \in Call
    BY CrashedIsCall
  <2>2. call' = [c \in Calls |-> IF c \in lost
                    THEN [call[c] EXCEPT !.pc = "done", !.why = "crashed"] ELSE call[c]]
    BY <1>9 DEF Crash
  <2>3. call' \in [Calls -> Call]
    BY <2>1, <2>2
  <2>4. /\ holder' = [holder EXCEPT ![p] = NoCall]
        /\ flock' = IF flock \in lost THEN NoCall ELSE flock
        /\ crashes' = crashes + 1 /\ crashes < MaxCrashes /\ UNCHANGED cancels
    BY <1>9 DEF Crash
  <2> HIDE DEF lost
  <2> QED
    BY <2>3, <2>4
<1>10. CASE UNCHANGED vars
  BY <1>10 DEF vars
<1> QED
  BY <1>1, <1>2, <1>3, <1>4, <1>5, <1>6, <1>7, <1>8, <1>9, <1>10, <1>11 DEF Next, Step

\* A step leaves no lock behind and takes none from another call.
LEMMA StepLeaks == IInv /\ [Next]_vars => NothingLeaks'
<1> SUFFICES ASSUME IInv, [Next]_vars PROVE NothingLeaks'
  OBVIOUS
<1> USE CodingWorkerAssumption DEF IInv, TypeOK, NothingLeaks, Inside, Moves, Call
<1>1. ASSUME NEW c \in Calls, Reserve(c) \/ ReserveDenied(c) PROVE NothingLeaks'
  BY <1>1 DEF Reserve, ReserveDenied
<1>2. ASSUME NEW c \in Calls, Open(c) \/ OpenFails(c) \/ Lock(c) \/ LockDenied(c)
      PROVE NothingLeaks'
  BY <1>2 DEF Open, OpenFails, Lock, LockDenied
<1>3. ASSUME NEW c \in Calls, Launch(c) \/ LaunchFails(c) \/ Answered(c) PROVE NothingLeaks'
  BY <1>3 DEF Launch, LaunchFails, Answered
<1>4. ASSUME NEW c \in Calls, Unlock(c) \/ Leave(c) PROVE NothingLeaks'
  BY <1>4 DEF Unlock, Leave
<1>5. ASSUME NEW c \in Calls, Fork(c) \/ LeaderExits(c) \/ ChildExits(c) PROVE NothingLeaks'
  <2>1. \A d \in Calls : call'[d].pc = call[d].pc
    <3>1. CASE Fork(c)
      BY <3>1 DEF Fork
    <3>2. CASE LeaderExits(c)
      BY <3>2 DEF LeaderExits
    <3>3. CASE ChildExits(c)
      BY <3>3 DEF ChildExits, Gone
    <3> QED
      BY <1>5, <3>1, <3>2, <3>3
  <2>2. UNCHANGED <<holder, flock>>
    BY <1>5 DEF Fork, LeaderExits, ChildExits
  <2> QED
    BY <2>1, <2>2
<1>6. ASSUME NEW c \in Calls, TimeOut(c) PROVE NothingLeaks'
  BY <1>6 DEF TimeOut, Stopped, Traced
<1>7. ASSUME NEW c \in Calls, Kill(c) PROVE NothingLeaks'
  BY <1>7 DEF Kill, Killed, Gone
<1>8. ASSUME NEW c \in Calls, Cancel(c) PROVE NothingLeaks'
  <2>1. CASE call[c].pc = "running" /\ call' = [call EXCEPT ![c] = Stopped(@, "cancelled")]
    BY <1>8, <2>1 DEF Cancel, Stopped, Traced
  <2>2. CASE /\ call[c].pc = "stopping"
             /\ call' = [call EXCEPT ![c].pc = "unlocking", ![c].cutShort = TRUE]
    BY <1>8, <2>2 DEF Cancel
  <2> QED
    BY <1>8, <2>1, <2>2 DEF Cancel
<1>9. ASSUME NEW p \in Procs, Crash(p) PROVE NothingLeaks'
  <2> DEFINE lost == {c \in Calls : ProcOf[c] = p /\ call[c].pc \notin {"idle", "done"}}
  <2>1. \A c \in Calls : call'[c].pc = IF c \in lost THEN "done" ELSE call[c].pc
    <3>1. call' = [c \in Calls |-> IF c \in lost
                    THEN [call[c] EXCEPT !.pc = "done", !.why = "crashed"] ELSE call[c]]
      BY <1>9 DEF Crash
    <3> HIDE DEF lost
    <3>2. ASSUME NEW c \in Calls
          PROVE  [call[c] EXCEPT !.pc = "done", !.why = "crashed"].pc = "done"
      OBVIOUS
    <3> QED
      BY <3>1, <3>2
  <2>2. /\ holder' = [holder EXCEPT ![p] = NoCall]
        /\ flock' = IF flock \in lost THEN NoCall ELSE flock
    BY <1>9 DEF Crash
  <2>3. ASSUME NEW c \in Calls, c \notin lost
        PROVE  /\ holder'[ProcOf[c]] = c <=> holder[ProcOf[c]] = c
               /\ flock' = c <=> flock = c
    <3>1. ProcOf[c] = p => holder[p] # c
      BY <2>3
    <3>2. holder'[ProcOf[c]] = c <=> holder[ProcOf[c]] = c
      BY <2>2, <3>1
    <3>3. flock' = c <=> flock = c
      BY <2>2, <2>3
    <3> QED
      BY <3>2, <3>3
  <2>4. ASSUME NEW c \in lost
        PROVE  holder'[ProcOf[c]] # c /\ flock' # c
    BY <2>2
  <2> QED
    BY <2>1, <2>3, <2>4
<1>10. CASE UNCHANGED vars
  BY <1>10 DEF vars
<1> QED
  BY <1>1, <1>2, <1>3, <1>4, <1>5, <1>6, <1>7, <1>8, <1>9, <1>10 DEF Next, Step

\* Every reachable state satisfies the inductive invariant.
LEMMA Invariance == Spec => []IInv
<1>1. IInv /\ [Next]_vars => IInv'
  BY StepTypes, StepLeaks DEF IInv
<1> QED
  BY InitIInv, <1>1, PTL DEF Spec

\* No failure path, denial, cancellation or crash leaves a reservation or the
\* lock file's lock behind, and no call ever drops another's.
THEOREM LeaseIsReturned == Spec => []NothingLeaks
<1>1. IInv => NothingLeaks
  BY DEF IInv
<1> QED
  BY Invariance, <1>1, PTL

\* One call at a time is inside the workspace.
THEOREM LeaseExcludes == Spec => []OneAttemptPerWorkspace
<1>1. IInv => OneAttemptPerWorkspace
  BY DEF IInv, NothingLeaks, OneAttemptPerWorkspace
<1> QED
  BY Invariance, <1>1, PTL

(***************************************************************************)
(* The suite.                                                              *)
(***************************************************************************)

Writing(w) == at[w] \in {"locked", "read", "saved"}

Given(s) == {s[i] : i \in DOMAIN s}
Distinct(s) == \A i, j \in DOMAIN s : s[i] = s[j] => i = j
SideOf(side) == {file[i] : i \in {j \in DOMAIN file : j % 2 = side}}

\* One writer is in the critical section, and reads there what the file holds;
\* a batch has none of the search's questions and none twice, like the file; and
\* each side was given what is on it.
SuiteInv ==
    /\ at \in [Suite!Writers -> {"idle", "asking", "scanning", "queued", "locked", "read", "saved"}]
    /\ batch \in [Suite!Writers -> Seq(Questions)] /\ fresh \in [Suite!Writers -> Seq(Questions)]
    /\ file \in Seq(Questions) /\ Distinct(file) /\ Given(file) \cap Search = {}
    /\ \A w \in Suite!Writers :
          /\ Writing(w) => hold = w
          /\ at[w] = "read" => fresh[w] = file
          /\ Distinct(batch[w]) /\ Given(batch[w]) \cap Search = {}
    /\ searched \subseteq Search \cup SideOf(1) /\ gated \subseteq HeldOut \cup SideOf(0)

LEMMA SuiteInvInit == Suite!Init => SuiteInv
<1> SUFFICES ASSUME Suite!Init PROVE SuiteInv
  OBVIOUS
<1>1. /\ file = <<>> /\ searched = {} /\ gated = {}
      /\ at = [w \in Suite!Writers |-> "idle"]
      /\ batch = [w \in Suite!Writers |-> <<>>] /\ fresh = [w \in Suite!Writers |-> <<>>]
  BY DEF Suite!Init
<1>2. <<>> \in Seq(Questions) /\ Distinct(<<>>) /\ Given(<<>>) = {}
  BY DEF Distinct, Given
<1> QED BY <1>1, <1>2 DEF SuiteInv, Writing

\* What a writer proposes.
LEMMA FilteredIs ==
    ASSUME NEW known, Search \subseteq known, NEW items \in Suite!Filtered(known)
    PROVE  items \in Seq(Questions) /\ Distinct(items) /\ Given(items) \cap Search = {}
<1>1. /\ items \in UNION {[1 .. m -> Questions] : m \in 0 .. MaxBatch}
      /\ Suite!IsInjective(items) /\ Suite!ToSet(items) \cap known = {}
  BY DEF Suite!Filtered, Suite!SeqOf
<1>2. PICK m \in 0 .. MaxBatch : items \in [1 .. m -> Questions]
  BY <1>1
<1>3. items \in Seq(Questions)
  BY <1>2, LocksAssumption
<1> QED BY <1>1, <1>3 DEF Suite!IsInjective, Suite!ToSet, Distinct, Given

\* A step outside the file: one writer moves, with its lock and what it holds.
LEMMA WriterKeeps ==
    ASSUME SuiteInv, NEW w \in Suite!Writers, UNCHANGED <<file, searched, gated>>,
           \E to \in {"idle", "asking", "scanning", "queued", "locked", "read", "saved"} :
              at' = [at EXCEPT ![w] = to],
           batch' \in [Suite!Writers -> Seq(Questions)], fresh' \in [Suite!Writers -> Seq(Questions)],
           \A v \in Suite!Writers \ {w} : batch'[v] = batch[v] /\ fresh'[v] = fresh[v],
           Writing(w)' => hold' = w, at'[w] = "read" => fresh'[w] = file,
           Distinct(batch'[w]) /\ Given(batch'[w]) \cap Search = {},
           \A v \in Suite!Writers \ {w} : Writing(v) => hold' = v
    PROVE  SuiteInv'
<1>1. PICK to \in {"idle", "asking", "scanning", "queued", "locked", "read", "saved"} :
         at' = [at EXCEPT ![w] = to]
  OBVIOUS
<1>2. at' \in [Suite!Writers -> {"idle", "asking", "scanning", "queued", "locked", "read", "saved"}]
      /\ \A v \in Suite!Writers \ {w} : at'[v] = at[v]
  BY <1>1 DEF SuiteInv
<1>3. ASSUME NEW v \in Suite!Writers
      PROVE  /\ Writing(v)' => hold' = v
             /\ at'[v] = "read" => fresh'[v] = file'
             /\ Distinct(batch'[v]) /\ Given(batch'[v]) \cap Search = {}
  BY <1>2 DEF SuiteInv, Writing
<1> QED BY <1>2, <1>3 DEF SuiteInv, SideOf, Distinct, Given

\* What a writer was doing, and where it goes.
LEMMA GoingIs ==
    ASSUME NEW w, NEW from, NEW to, Suite!Goes(w, from, to)
    PROVE  at[w] = from /\ at' = [at EXCEPT ![w] = to]
BY DEF Suite!Goes

LEMMA ProposalKeeps ==
    ASSUME SuiteInv, NEW w \in Suite!Writers, NEW from, NEW known, Search \subseteq known,
           NEW items \in Suite!Filtered(known), Suite!Proposes(w, from, items),
           from \in {"asking", "scanning"}, UNCHANGED <<file, hold, fresh, searched, gated>>
    PROVE  SuiteInv'
<1>1. items \in Seq(Questions) /\ Distinct(items) /\ Given(items) \cap Search = {}
  BY FilteredIs
<1>2. PICK to \in {"idle", "queued"} : at[w] = from /\ at' = [at EXCEPT ![w] = to]
  BY DEF Suite!Proposes, Suite!Goes
<1>3. batch' = [batch EXCEPT ![w] = items]
  BY DEF Suite!Proposes
<1>4. /\ batch' \in [Suite!Writers -> Seq(Questions)] /\ batch'[w] = items
      /\ \A v \in Suite!Writers \ {w} : batch'[v] = batch[v]
  BY <1>1, <1>3 DEF SuiteInv
<1>5. at'[w] \in {"idle", "queued"}
  BY <1>2 DEF SuiteInv
<1>6. /\ ~Writing(w)' /\ at'[w] # "read" /\ fresh' \in [Suite!Writers -> Seq(Questions)]
      /\ \A v \in Suite!Writers \ {w} : Writing(v) => hold' = v
  BY <1>5 DEF SuiteInv, Writing
<1> QED BY <1>1, <1>2, <1>4, <1>6, WriterKeeps

LEMMA AskKeeps ==
    ASSUME SuiteInv, NEW w \in Suite!Writers, Suite!Ask(w) \/ Suite!OpenJournals(w) PROVE SuiteInv'
<1>1. PICK to \in {"asking", "scanning"} : at[w] = "idle" /\ at' = [at EXCEPT ![w] = to]
  BY DEF Suite!Ask, Suite!OpenJournals, Suite!Goes
<1>2. /\ UNCHANGED <<file, hold, batch, searched, gated>>
      /\ fresh' = fresh \/ fresh' = [fresh EXCEPT ![w] = file]
  BY DEF Suite!Ask, Suite!OpenJournals
<1>3. fresh' \in [Suite!Writers -> Seq(Questions)] /\ \A v \in Suite!Writers \ {w} : fresh'[v] = fresh[v]
  BY <1>2 DEF SuiteInv
<1>4. at'[w] \in {"asking", "scanning"}
  BY <1>1 DEF SuiteInv
<1>5. /\ ~Writing(w)' /\ at'[w] # "read" /\ batch' \in [Suite!Writers -> Seq(Questions)]
      /\ Distinct(batch'[w]) /\ Given(batch'[w]) \cap Search = {}
      /\ \A v \in Suite!Writers \ {w} : batch'[v] = batch[v] /\ (Writing(v) => hold' = v)
  BY <1>2, <1>4 DEF SuiteInv, Writing
<1> QED BY <1>1, <1>2, <1>3, <1>5, WriterKeeps

LEMMA LockKeeps ==
    ASSUME SuiteInv, NEW w \in Suite!Writers, Suite!Lock(w) PROVE SuiteInv'
<1>1. /\ at[w] = "queued" /\ at' = [at EXCEPT ![w] = "locked"] /\ hold = Nil /\ hold' = w
      /\ UNCHANGED <<file, batch, fresh, searched, gated>>
  BY DEF Suite!Lock, Suite!Goes
<1>2. \A v \in Suite!Writers : ~Writing(v)
  BY <1>1, LocksAssumption DEF SuiteInv, Suite!Writers
<1>3. at'[w] = "locked"
  BY <1>1 DEF SuiteInv
<1>4. /\ batch' \in [Suite!Writers -> Seq(Questions)] /\ fresh' \in [Suite!Writers -> Seq(Questions)]
      /\ Distinct(batch'[w]) /\ Given(batch'[w]) \cap Search = {}
  BY <1>1 DEF SuiteInv
<1> QED BY <1>1, <1>2, <1>3, <1>4, WriterKeeps

LEMMA ReadKeeps ==
    ASSUME SuiteInv, NEW w \in Suite!Writers, Suite!Read(w) PROVE SuiteInv'
<1>1. /\ at[w] = "locked" /\ at' = [at EXCEPT ![w] = "read"] /\ fresh' = [fresh EXCEPT ![w] = file]
      /\ UNCHANGED <<file, hold, batch, searched, gated>>
  BY DEF Suite!Read, Suite!Goes, Suite!UnderTheLock
<1>2. /\ fresh' \in [Suite!Writers -> Seq(Questions)] /\ fresh'[w] = file
      /\ \A v \in Suite!Writers \ {w} : fresh'[v] = fresh[v]
  BY <1>1 DEF SuiteInv
<1>3. /\ batch' \in [Suite!Writers -> Seq(Questions)]
      /\ Distinct(batch'[w]) /\ Given(batch'[w]) \cap Search = {}
      /\ hold' = w /\ \A v \in Suite!Writers \ {w} : Writing(v) => hold' = v
  BY <1>1 DEF SuiteInv, Writing
<1> QED BY <1>1, <1>2, <1>3, WriterKeeps

LEMMA SavedKeeps ==
    ASSUME SuiteInv, NEW w \in Suite!Writers, Suite!SaveFails(w) \/ Suite!Unlock(w) PROVE SuiteInv'
<1>1. CASE Suite!SaveFails(w)
  <2>1. /\ at[w] = "read" /\ at' = [at EXCEPT ![w] = "saved"]
        /\ UNCHANGED <<file, hold, batch, fresh, searched, gated>>
    BY <1>1 DEF Suite!SaveFails, Suite!Goes
  <2>2. /\ at'[w] = "saved" /\ hold' = w
        /\ batch' \in [Suite!Writers -> Seq(Questions)] /\ fresh' \in [Suite!Writers -> Seq(Questions)]
        /\ Distinct(batch'[w]) /\ Given(batch'[w]) \cap Search = {}
        /\ \A v \in Suite!Writers \ {w} : Writing(v) => hold' = v
    BY <2>1 DEF SuiteInv, Writing
  <2> QED BY <2>1, <2>2, WriterKeeps
<1>2. CASE Suite!Unlock(w)
  <2>1. /\ at[w] = "saved" /\ at' = [at EXCEPT ![w] = "idle"] /\ UNCHANGED <<file, searched, gated>>
        /\ batch' = [batch EXCEPT ![w] = <<>>] /\ fresh' = [fresh EXCEPT ![w] = <<>>]
    BY <1>2 DEF Suite!Unlock, Suite!Left, Suite!Goes
  <2>2. \A v \in Suite!Writers \ {w} : ~Writing(v)
    BY <2>1 DEF SuiteInv, Writing
  <2>3. /\ at'[w] = "idle" /\ ~Writing(w)'
        /\ batch' \in [Suite!Writers -> Seq(Questions)] /\ fresh' \in [Suite!Writers -> Seq(Questions)]
        /\ batch'[w] = <<>> /\ \A v \in Suite!Writers \ {w} : batch'[v] = batch[v] /\ fresh'[v] = fresh[v]
    BY <2>1 DEF SuiteInv, Writing
  <2>4. Distinct(<<>>) /\ Given(<<>>) \cap Search = {}
    BY DEF Distinct, Given
  <2> QED BY <2>1, <2>2, <2>3, <2>4, WriterKeeps
<1> QED BY <1>1, <1>2

\* The file after a save: what it was, and then what of the batch was not in it.
LEMMA SavingIs ==
    ASSUME SuiteInv, NEW w \in Suite!Writers, Suite!Save(w)
    PROVE  \E new \in Seq(Questions) :
              /\ file' = file \o new /\ Distinct(new)
              /\ Given(new) \cap Given(file) = {} /\ Given(new) \cap Search = {}
<1>1. at[w] = "read" /\ fresh[w] = file
  BY DEF Suite!Save, Suite!Goes, SuiteInv
<1>2. PICK new \in Suite!SeqOf(Questions, MaxBatch) : Suite!Survivors(w, new) /\ file' = fresh[w] \o new
  BY DEF Suite!Save
<1>3. new \in Seq(Questions)
  <2>1. PICK m \in 0 .. MaxBatch : new \in [1 .. m -> Questions]
    BY <1>2 DEF Suite!SeqOf
  <2> QED BY <2>1, LocksAssumption
<1>4. Given(new) = Given(batch[w]) \ Given(file) /\ Distinct(new)
  <2>1. Suite!ToSet(new) = Suite!ToSet(batch[w]) \ Suite!ToSet(file) /\ Suite!IsInjective(new)
    BY <1>1, <1>2 DEF Suite!Survivors
  <2>2. \A s : Suite!ToSet(s) = Given(s) /\ (Suite!IsInjective(s) => Distinct(s))
    BY DEF Suite!ToSet, Given, Suite!IsInjective, Distinct
  <2> QED BY <2>1, <2>2
<1> QED BY <1>1, <1>2, <1>3, <1>4 DEF SuiteInv

\* Adding to the end of a file.
LEMMA Longer ==
    ASSUME NEW s \in Seq(Questions), NEW new \in Seq(Questions)
    PROVE  /\ s \o new \in Seq(Questions) /\ DOMAIN s \subseteq DOMAIN (s \o new)
           /\ \A i \in DOMAIN s : (s \o new)[i] = s[i]
           /\ \A i \in DOMAIN (s \o new) :
                 i \notin DOMAIN s => i - Len(s) \in DOMAIN new /\ (s \o new)[i] = new[i - Len(s)]
OBVIOUS

LEMMA SaveKeeps ==
    ASSUME SuiteInv, NEW w \in Suite!Writers, Suite!Save(w) PROVE SuiteInv'
<1>1. PICK new \in Seq(Questions) :
         /\ file' = file \o new /\ Distinct(new)
         /\ Given(new) \cap Given(file) = {} /\ Given(new) \cap Search = {}
  BY SavingIs
<1>2. /\ at[w] = "read" /\ at' = [at EXCEPT ![w] = "saved"]
      /\ UNCHANGED <<hold, batch, fresh, searched, gated>>
  BY DEF Suite!Save, Suite!Goes
<1>3. /\ file \in Seq(Questions) /\ file' \in Seq(Questions) /\ DOMAIN file \subseteq DOMAIN file'
      /\ \A i \in DOMAIN file : file'[i] = file[i]
      /\ \A i \in DOMAIN file' : i \notin DOMAIN file => i - Len(file) \in DOMAIN new /\ file'[i] = new[i - Len(file)]
  BY <1>1, Longer DEF SuiteInv
<1>4. \A i \in DOMAIN file' : i \in Nat /\ (i \notin DOMAIN file => file'[i] \in Given(new))
  BY <1>3 DEF Given
<1>5. Distinct(file') /\ Given(file') \cap Search = {}
  <2>1. ASSUME NEW i \in DOMAIN file', NEW j \in DOMAIN file', file'[i] = file'[j] PROVE i = j
    <3>1. CASE i \in DOMAIN file /\ j \in DOMAIN file
      BY <1>3, <2>1, <3>1 DEF SuiteInv, Distinct
    <3>2. CASE i \notin DOMAIN file /\ j \notin DOMAIN file
      <4>1. i - Len(file) = j - Len(file)
        BY <1>1, <1>3, <2>1, <3>2 DEF Distinct
      <4>2. i \in Int /\ j \in Int /\ Len(file) \in Int
        BY <1>3
      <4> QED BY <4>1, <4>2
    <3>3. CASE ~(i \in DOMAIN file <=> j \in DOMAIN file)
      BY <1>1, <1>3, <1>4, <2>1, <3>3 DEF Given
    <3> QED BY <3>1, <3>2, <3>3
  <2>2. \A i \in DOMAIN file' : file'[i] \notin Search
    BY <1>1, <1>3, <1>4 DEF SuiteInv, Given
  <2>3. Given(file') \cap Search = {}
    BY <2>2 DEF Given
  <2>4. Distinct(file')
    BY <2>1 DEF Distinct
  <2> QED BY <2>3, <2>4
<1>6. SideOf(0) \subseteq SideOf(0)' /\ SideOf(1) \subseteq SideOf(1)'
  BY <1>3 DEF SideOf
<1>7. \A v \in Suite!Writers \ {w} : ~Writing(v)
  BY <1>2 DEF SuiteInv, Writing
<1>8. /\ at' \in [Suite!Writers -> {"idle", "asking", "scanning", "queued", "locked", "read", "saved"}]
      /\ \A v \in Suite!Writers : /\ Writing(v)' => hold' = v /\ at'[v] # "read"
  BY <1>2, <1>7 DEF SuiteInv, Writing
<1>9. searched' \subseteq Search \cup SideOf(1)' /\ gated' \subseteq HeldOut \cup SideOf(0)'
  BY <1>2, <1>6 DEF SuiteInv
<1>10. ASSUME NEW v \in Suite!Writers
       PROVE  /\ Writing(v)' => hold' = v
              /\ at'[v] = "read" => fresh'[v] = file'
              /\ Distinct(batch'[v]) /\ Given(batch'[v]) \cap Search = {}
  BY <1>2, <1>7, <1>8 DEF SuiteInv, Writing, Distinct, Given
<1> QED BY <1>2, <1>3, <1>5, <1>8, <1>9, <1>10 DEF SuiteInv

LEMMA DiesKeeps ==
    ASSUME SuiteInv, NEW ws, Suite!Dies(ws) PROVE SuiteInv'
<1>1. /\ at' = [w \in Suite!Writers |-> IF w \in ws THEN "idle" ELSE at[w]]
      /\ batch' = [w \in Suite!Writers |-> IF w \in ws THEN <<>> ELSE batch[w]]
      /\ fresh' = [w \in Suite!Writers |-> IF w \in ws THEN <<>> ELSE fresh[w]]
      /\ hold' = IF hold \in ws THEN Nil ELSE hold
      /\ UNCHANGED <<file, searched, gated>>
  BY DEF Suite!Dies
<1>2. <<>> \in Seq(Questions) /\ Distinct(<<>>) /\ Given(<<>>) = {}
  BY DEF Distinct, Given
<1>3. /\ at' \in [Suite!Writers -> {"idle", "asking", "scanning", "queued", "locked", "read", "saved"}]
      /\ batch' \in [Suite!Writers -> Seq(Questions)] /\ fresh' \in [Suite!Writers -> Seq(Questions)]
  BY <1>1, <1>2 DEF SuiteInv
<1>4. ASSUME NEW v \in Suite!Writers
      PROVE  /\ Writing(v)' => hold' = v
             /\ at'[v] = "read" => fresh'[v] = file'
             /\ Distinct(batch'[v]) /\ Given(batch'[v]) \cap Search = {}
  BY <1>1, <1>2 DEF SuiteInv, Writing
<1> QED BY <1>1, <1>3, <1>4 DEF SuiteInv, SideOf, Distinct, Given

LEMMA TuneKeeps == ASSUME SuiteInv, Suite!Tune PROVE SuiteInv'
<1>1. /\ searched' = searched \cup Search \cup SideOf(1) /\ gated' = gated \cup HeldOut \cup SideOf(0)
      /\ UNCHANGED <<file, hold, at, batch, fresh>>
  BY DEF Suite!Tune, Suite!Alternate, SideOf
<1>2. SideOf(0)' = SideOf(0) /\ SideOf(1)' = SideOf(1)
  BY <1>1 DEF SideOf
<1>3. searched' \subseteq Search \cup SideOf(1)' /\ gated' \subseteq HeldOut \cup SideOf(0)'
  BY <1>1, <1>2 DEF SuiteInv
<1> QED BY <1>1, <1>3 DEF SuiteInv, Writing

LEMMA SuiteInvNext == SuiteInv /\ [Suite!Next]_(Suite!vars) => SuiteInv'
<1> SUFFICES ASSUME SuiteInv, [Suite!Next]_(Suite!vars) PROVE SuiteInv'
  OBVIOUS
<1>1. ASSUME NEW w \in Suite!Writers, Suite!Write(w) PROVE SuiteInv'
  <2>1. CASE Suite!Answer(w)
    <3>1. PICK items \in Suite!Filtered(Search) : Suite!Proposes(w, "asking", items)
      BY <2>1 DEF Suite!Answer
    <3> QED BY <2>1, <3>1, ProposalKeeps DEF Suite!Answer
  <2>2. CASE Suite!Scan(w)
    <3> DEFINE known == Search \cup HeldOut \cup Suite!ToSet(fresh[w])
    <3>1. PICK items \in Suite!Filtered(known) : Suite!Proposes(w, "scanning", items)
      BY <2>2 DEF Suite!Scan
    <3>2. Search \subseteq known
      OBVIOUS
    <3> HIDE DEF known
    <3> QED BY <2>2, <3>1, <3>2, ProposalKeeps DEF Suite!Scan
  <2> QED BY <1>1, <2>1, <2>2, AskKeeps, LockKeeps, ReadKeeps, SaveKeeps, SavedKeeps DEF Suite!Write
<1>2. CASE Suite!Dies(Requests) \/ \E w \in Harvests : Suite!Dies({w})
  BY <1>2, DiesKeeps
<1>3. CASE UNCHANGED Suite!vars
  BY <1>3 DEF SuiteInv, SideOf, Writing, Distinct, Given, Suite!vars
<1> QED BY <1>1, <1>2, <1>3, TuneKeeps DEF Suite!Next

\* A held-out question that is on its way to the file, or in it, comes from a
\* generator.
RepeatedInv ==
    /\ \A w \in Suite!Writers : Given(batch[w]) \cap HeldOut \subseteq repeated
    /\ Given(file) \cap HeldOut \subseteq repeated

LEMMA RepeatedInvInit == Suite!Init => RepeatedInv
BY DEF Suite!Init, RepeatedInv, Given

\* A step in which one writer proposes something else, or nothing.
LEMMA RepeatedKeeps ==
    ASSUME RepeatedInv, NEW w, NEW items, repeated \subseteq repeated', file' = file,
           \A v \in Suite!Writers \ {w} : batch'[v] = batch[v],
           w \in Suite!Writers => batch'[w] = items, Given(items) \cap HeldOut \subseteq repeated'
    PROVE  RepeatedInv'
<1>1. ASSUME NEW v \in Suite!Writers PROVE Given(batch'[v]) \cap HeldOut \subseteq repeated'
  <2>1. CASE v = w
    BY <2>1
  <2>2. CASE v # w
    BY <2>2 DEF RepeatedInv
  <2> QED BY <2>1, <2>2
<1> QED BY <1>1 DEF RepeatedInv, Given

LEMMA RepeatedInvNext == SuiteInv /\ RepeatedInv /\ [Suite!Next]_(Suite!vars) => RepeatedInv'
<1> SUFFICES ASSUME SuiteInv, RepeatedInv, [Suite!Next]_(Suite!vars) PROVE RepeatedInv'
  OBVIOUS
<1>1. ASSUME NEW w \in Suite!Writers, Suite!Write(w) PROVE RepeatedInv'
  <2>1. CASE Suite!Answer(w)
    <3>1. PICK items \in Suite!Filtered(Search) :
             /\ batch' = [batch EXCEPT ![w] = items] /\ file' = file
             /\ repeated' = repeated \cup (Suite!ToSet(items) \cap HeldOut)
      BY <2>1 DEF Suite!Answer, Suite!Proposes
    <3>2. batch'[w] = items /\ \A v \in Suite!Writers \ {w} : batch'[v] = batch[v]
      BY <3>1 DEF SuiteInv
    <3> QED BY <3>1, <3>2, RepeatedKeeps DEF Suite!ToSet, Given
  <2>2. CASE Suite!Scan(w)
    <3>1. PICK items \in Suite!Filtered(Search \cup HeldOut \cup Suite!ToSet(fresh[w])) :
             batch' = [batch EXCEPT ![w] = items] /\ UNCHANGED <<file, repeated>>
      BY <2>2 DEF Suite!Scan, Suite!Proposes
    <3>2. batch'[w] = items /\ \A v \in Suite!Writers \ {w} : batch'[v] = batch[v]
      BY <3>1 DEF SuiteInv
    <3>3. Given(items) \cap HeldOut = {}
      BY <3>1 DEF Suite!Filtered, Suite!ToSet, Given
    <3> QED BY <3>1, <3>2, <3>3, RepeatedKeeps
  <2>3. CASE Suite!Unlock(w)
    <3>1. batch' = [batch EXCEPT ![w] = <<>>] /\ UNCHANGED <<file, repeated>>
      BY <2>3 DEF Suite!Unlock, Suite!Left
    <3>2. batch'[w] = <<>> /\ \A v \in Suite!Writers \ {w} : batch'[v] = batch[v]
      BY <3>1 DEF SuiteInv
    <3>3. Given(<<>>) = {}
      BY DEF Given
    <3> QED BY <3>1, <3>2, <3>3, RepeatedKeeps
  <2>4. CASE Suite!Save(w)
    <3>1. PICK new \in Suite!SeqOf(Questions, MaxBatch) :
             Suite!Survivors(w, new) /\ file' = fresh[w] \o new /\ UNCHANGED <<batch, repeated>>
      BY <2>4 DEF Suite!Save
    <3>2. fresh[w] = file /\ file \in Seq(Questions)
      BY <2>4 DEF Suite!Save, Suite!Goes, SuiteInv
    <3>3. Given(new) \subseteq Given(batch[w])
      BY <3>1 DEF Suite!Survivors, Suite!ToSet, Given
    <3>4. new \in Seq(Questions)
      <4>1. PICK m \in 0 .. MaxBatch : new \in [1 .. m -> Questions]
        BY <3>1 DEF Suite!SeqOf
      <4> QED BY <4>1, LocksAssumption
    <3>5. \A i \in DOMAIN (file \o new) : (file \o new)[i] \in Given(file) \cup Given(new)
      BY <3>2, <3>4, Longer DEF Given
    <3>6. Given(file') \subseteq Given(file) \cup Given(batch[w])
      BY <3>1, <3>2, <3>3, <3>5 DEF Given
    <3> QED BY <3>1, <3>6 DEF RepeatedInv, Given
  <2>5. CASE UNCHANGED <<file, batch, repeated>>
    BY <2>5 DEF RepeatedInv, Given
  <2> QED BY <1>1, <2>1, <2>2, <2>3, <2>4, <2>5 DEF Suite!Write, Suite!Ask, Suite!OpenJournals, Suite!Lock,
             Suite!Read, Suite!SaveFails
<1>2. ASSUME NEW ws, Suite!Dies(ws) PROVE RepeatedInv'
  <2>1. batch' = [w \in Suite!Writers |-> IF w \in ws THEN <<>> ELSE batch[w]] /\ UNCHANGED <<file, repeated>>
    BY <1>2 DEF Suite!Dies
  <2>2. Given(<<>>) = {}
    BY DEF Given
  <2> QED BY <2>1, <2>2 DEF RepeatedInv, Given
<1>3. CASE Suite!Tune \/ UNCHANGED Suite!vars
  BY <1>3 DEF Suite!Tune, Suite!vars, RepeatedInv, Given
<1> QED BY <1>1, <1>2, <1>3 DEF Suite!Next

LEMMA SuiteInvSound == SuiteInv /\ RepeatedInv => Suite!SidesStayApart /\ Suite!FileIsSound
<1> SUFFICES ASSUME SuiteInv, RepeatedInv PROVE Suite!SidesStayApart /\ Suite!FileIsSound
  OBVIOUS
<1>1. ASSUME NEW q, q \in searched, q \in gated PROVE q \in HeldOut /\ q \in repeated
  <2>1. SideOf(0) \cap SideOf(1) = {}
    <3> SUFFICES ASSUME NEW i \in DOMAIN file, NEW j \in DOMAIN file, file[i] = file[j], i % 2 = 0, j % 2 = 1
                 PROVE  FALSE
      BY DEF SideOf
    <3>1. i = j
      BY DEF SuiteInv, Distinct
    <3>2. i % 2 = 1
      BY <3>1
    <3> QED BY <3>2
  <2>2. SideOf(0) \cap Search = {}
    BY DEF SideOf, SuiteInv, Given
  <2>3. q \in HeldOut
    BY <1>1, <2>1, <2>2, LocksAssumption DEF SuiteInv
  <2>4. q \in Given(file)
    BY <1>1, <2>3, LocksAssumption DEF SuiteInv, SideOf, Given
  <2> QED BY <2>3, <2>4 DEF RepeatedInv
<1>2. Suite!FileIsSound
  BY DEF SuiteInv, Distinct, Given, Suite!FileIsSound, Suite!IsInjective, Suite!ToSet
<1> QED BY <1>1, <1>2 DEF Suite!SidesStayApart

LEMMA FileGrows == SuiteInv /\ [Suite!Next]_(Suite!vars) => [Suite!IsPrefix(file, file')]_file
<1> SUFFICES ASSUME SuiteInv, [Suite!Next]_(Suite!vars), file' # file PROVE Suite!IsPrefix(file, file')
  OBVIOUS
<1>1. PICK w \in Suite!Writers : Suite!Save(w)
  BY DEF Suite!Next, Suite!vars, Suite!Write, Suite!Ask, Suite!Answer, Suite!OpenJournals, Suite!Scan, Suite!Lock,
         Suite!Read, Suite!SaveFails, Suite!Unlock, Suite!Dies, Suite!Tune
<1>2. PICK new \in Seq(Questions) : file' = file \o new
  BY <1>1, SavingIs
<1>3. file \in Seq(Questions)
  BY DEF SuiteInv
<1>4. Len(file) <= Len(file \o new)
  BY <1>3
<1>5. SubSeq(file, 1, Len(file)) = SubSeq(file \o new, 1, Len(file))
  BY <1>3
<1> QED BY <1>2, <1>4, <1>5 DEF Suite!IsPrefix

\* However the questions of requests and harvests come together, and whoever
\* fails or dies under the lock: nothing but a built-in held-out question that a
\* generator wrote again is ever given to a search and to a gate, no question is in
\* the file twice, and the file only grows at its end.
THEOREM SuiteIsSoundHolds == Suite!Spec => SuiteIsSound
<1> HIDE DEF Suite!Next, Suite!Init, Suite!vars, SuiteInv, RepeatedInv
<1>1. Suite!Spec => [](SuiteInv /\ RepeatedInv)
  BY SuiteInvInit, SuiteInvNext, RepeatedInvInit, RepeatedInvNext, PTL DEF Suite!Spec
<1>2. Suite!Spec => [](Suite!SidesStayApart /\ Suite!FileIsSound)
  BY <1>1, SuiteInvSound, PTL
<1>3. Suite!Spec => Suite!FileOnlyGrows
  BY <1>1, FileGrows, PTL DEF Suite!FileOnlyGrows, Suite!Spec
<1> QED BY <1>2, <1>3 DEF SuiteIsSound

(***************************************************************************)
(* The board.                                                              *)
(***************************************************************************)

Statuses == {"none", "backlog", "ready", "claimed", "in_progress", "review", "verifying", "blocked", "done"}
CardRows == [status : Statuses, owner : Owners \cup {Nil}, from : Statuses \cup {Nil}, keeps : BOOLEAN,
             freeze : Heads \cup {Nil}, merged : Heads \cup {Nil}]

Frozen(row) ==
    /\ row.status \in {"verifying", "done"} => Board!Agrees(row)
    /\ row.status = "review" => row.freeze # Nil

Sound(b) ==
    /\ b \in [LocalCards -> CardRows]
    /\ \A c, d \in LocalCards : c # d /\ Board!Reserves(b[c]) /\ Board!Reserves(b[d]) => {c, d} \notin Overlapping
    /\ \A c, d \in LocalCards : c # d /\ b[c].status \in Board!InProgress /\ b[d].status \in Board!InProgress
                              => b[c].owner # b[d].owner
    /\ \A c \in LocalCards : Frozen(b[c])

\* A row that takes no path and no owner which another card has.
Fits(b, c, row) ==
    /\ row \in CardRows /\ Frozen(row)
    /\ Board!Reserves(row) => Board!Reserves(b[c]) \/ Board!FreeOn(b, c)
    /\ row.status \in Board!InProgress =>
          \/ b[c].status \in Board!InProgress /\ row.owner = b[c].owner
          \/ Board!HasNoOther(b, c, row.owner)

LEMMA FittingKeeps ==
    ASSUME NEW b, Sound(b), NEW c \in LocalCards, NEW row, Fits(b, c, row)
    PROVE  Sound([b EXCEPT ![c] = row])
<1> DEFINE new == [b EXCEPT ![c] = row]
<1>1. new \in [LocalCards -> CardRows] /\ new[c] = row /\ \A d \in LocalCards : d # c => new[d] = b[d]
  BY DEF Sound, Fits
<1> HIDE DEF new
<1>2. ASSUME NEW d \in LocalCards, d # c, Board!Reserves(row), Board!Reserves(b[d]) PROVE {c, d} \notin Overlapping
  BY <1>2 DEF Sound, Fits, Board!FreeOn
<1>3. ASSUME NEW d \in LocalCards, d # c, row.status \in Board!InProgress, b[d].status \in Board!InProgress
      PROVE  row.owner # b[d].owner
  BY <1>3 DEF Sound, Fits, Board!HasNoOther
<1>4. ASSUME NEW d \in LocalCards, NEW e \in LocalCards, d # e, Board!Reserves(new[d]), Board!Reserves(new[e])
      PROVE  {d, e} \notin Overlapping
  <2>1. CASE d = c
    BY <1>1, <1>2, <1>4, <2>1
  <2>2. CASE e = c
    <3>1. {d, e} = {e, d}
      OBVIOUS
    <3> QED BY <1>1, <1>2, <1>4, <2>2, <3>1
  <2>3. CASE d # c /\ e # c
    BY <1>1, <1>4, <2>3 DEF Sound
  <2> QED BY <2>1, <2>2, <2>3
<1>5. ASSUME NEW d \in LocalCards, NEW e \in LocalCards, d # e,
             new[d].status \in Board!InProgress, new[e].status \in Board!InProgress
      PROVE  new[d].owner # new[e].owner
  BY <1>1, <1>3, <1>5 DEF Sound
<1>6. \A d \in LocalCards : Frozen(new[d])
  BY <1>1 DEF Sound, Fits
<1> QED BY <1>1, <1>4, <1>5, <1>6 DEF Sound, new

\* Every row a command may give a card is such a one.
LEMMA RowsFit ==
    ASSUME NEW b, Sound(b), NEW c \in LocalCards, NEW row \in Board!Rows(b, c)
    PROVE  Fits(b, c, row)
<1> USE DEF Board!When, Board!InProgress, Board!Reserves
<1>1. b[c] \in CardRows /\ Frozen(b[c])
  BY DEF Sound
<1>2. CASE row \in Board!Added(b, c)
  BY <1>1, <1>2 DEF Board!Added, Board!NoCard, Fits, Frozen, CardRows, Statuses
<1>3. CASE row \in Board!Readied(b, c)
  BY <1>1, <1>3 DEF Board!Readied, Fits, Frozen, CardRows, Statuses
<1>4. CASE row \in Board!Started(b, c)
  BY <1>1, <1>4 DEF Board!Started, Fits, Frozen, CardRows, Statuses
<1>5. CASE row \in Board!Submitted(b, c)
  <2>1. PICK h \in Heads : b[c].status = "in_progress" /\ row = [b[c] EXCEPT !.status = "review", !.freeze = h]
    BY <1>5 DEF Board!Submitted
  <2> QED BY <1>1, <2>1, LocksAssumption DEF Fits, Frozen, CardRows, Statuses
<1>6. CASE row \in Board!Integrated(b, c)
  <2>1. b[c].status = "review" /\ row = [b[c] EXCEPT !.status = "verifying", !.merged = b[c].freeze]
    BY <1>6 DEF Board!Integrated
  <2>2. row \in CardRows /\ row.status = "verifying" /\ row.owner = b[c].owner
    BY <1>1, <2>1 DEF CardRows, Statuses
  <2>3. Board!Agrees(row)
    BY <1>1, <2>1 DEF Board!Agrees, Frozen, CardRows
  <2> QED BY <2>1, <2>2, <2>3 DEF Fits, Frozen
<1>7. CASE row \in Board!Accepted(b, c)
  BY <1>1, <1>7 DEF Board!Accepted, Board!Agrees, Fits, Frozen, CardRows, Statuses
<1>8. CASE row \in Board!Blocked(b, c)
  <2>1. PICK k \in BOOLEAN :
           /\ b[c].status \in Board!InProgress
           /\ row = [b[c] EXCEPT !.status = "blocked", !.from = b[c].status, !.keeps = k]
    BY <1>8 DEF Board!Blocked
  <2>2. row \in CardRows /\ row.status = "blocked"
    BY <1>1, <2>1 DEF CardRows, Statuses
  <2> QED BY <2>1, <2>2 DEF Fits, Frozen
<1>9. CASE row \in Board!Resumed(b, c)
  <2>1. /\ Board!HasNoOther(b, c, b[c].owner) /\ Board!FreeOn(b, c)
        /\ row = [b[c] EXCEPT !.status = "in_progress", !.from = Nil, !.keeps = FALSE]
    BY <1>9 DEF Board!Resumed, Board!Unblocked
  <2>2. row \in CardRows /\ row.status = "in_progress" /\ row.owner = b[c].owner
    BY <1>1, <2>1 DEF CardRows, Statuses
  <2> QED BY <2>1, <2>2 DEF Fits, Frozen
<1>10. ASSUME NEW w \in Owners, row \in Board!ClaimedBy(b, c, w) PROVE Fits(b, c, row)
  <2>1. /\ b[c].status = "ready" /\ Board!HasNoOther(b, c, w) /\ Board!FreeOn(b, c)
        /\ row = [b[c] EXCEPT !.status = "claimed", !.owner = w]
    BY <1>10 DEF Board!ClaimedBy, Board!Eligible
  <2>2. row \in CardRows /\ row.status = "claimed" /\ row.owner = w
    BY <1>1, <2>1 DEF CardRows, Statuses
  <2> QED BY <2>1, <2>2 DEF Fits, Frozen
<1>11. \A w \in Owners : Board!NextClaimedBy(b, c, w) \subseteq Board!ClaimedBy(b, c, w)
  BY DEF Board!NextClaimedBy
<1> QED BY <1>2, <1>3, <1>4, <1>5, <1>6, <1>7, <1>8, <1>9, <1>10, <1>11 DEF Board!Rows

LEMMA OutcomesSound ==
    ASSUME NEW b, Sound(b), NEW new \in Board!Outcomes(b) PROVE Sound(new)
<1>1. PICK c \in LocalCards : \E row \in Board!Rows(b, c) : new = [b EXCEPT ![c] = row]
  BY DEF Board!Outcomes
<1>2. PICK row \in Board!Rows(b, c) : new = [b EXCEPT ![c] = row]
  BY <1>1
<1>3. Fits(b, c, row)
  BY RowsFit
<1> QED BY <1>2, <1>3, FittingKeeps

\* One command works on the board, under the lock file; one recovers a lock, under
\* the guard, and the lock it is about to move away is still the dead one's; and
\* what a command is about to write is made of the board as it is.
LocksHeld ==
    /\ pc = [p \in Commanders |-> pc[p]] /\ plan = [p \in Commanders |-> plan[p]]
    /\ \A p \in Commanders :
          /\ pc[p] \in {"work", "save", "release"} => lock = p
          /\ pc[p] \in {"again", "rename", "relink", "unguard"} => guard = p
          /\ pc[p] = "rename" => lock \in Commanders /\ pc[lock] = "dead"
          /\ pc[p] = "save" => plan[p] \in Board!Outcomes(board)
    /\ lock \in Commanders \cup {Nil}

BoardInv == LocksHeld /\ Sound(board)

LEMMA BoardInvInit == Board!Init => BoardInv
<1> SUFFICES ASSUME Board!Init PROVE BoardInv
  OBVIOUS
<1>1. LocksHeld
  BY DEF Board!Init, LocksHeld
<1>2. board = [c \in LocalCards |-> Board!NoCard]
  BY DEF Board!Init
<1>3. Board!NoCard \in CardRows /\ Frozen(Board!NoCard) /\ ~Board!Reserves(Board!NoCard)
      /\ Board!NoCard.status \notin Board!InProgress
  BY DEF Board!NoCard, CardRows, Statuses, Frozen, Board!Reserves, Board!InProgress
<1>4. Sound(board)
  BY <1>2, <1>3 DEF Sound
<1> QED BY <1>1, <1>4 DEF BoardInv

LEMMA LockTaken ==
    ASSUME LocksHeld, NEW p \in Commanders,
           Board!Begin(p) \/ Board!StatGuard(p) \/ Board!LinkLock(p) \/ Board!Classify(p)
    PROVE  LocksHeld'
BY LocksAssumption
   DEF LocksHeld, Board!Begin, Board!StatGuard, Board!LinkLock, Board!Classify, Board!Goes, Board!Stale

LEMMA LockRecovered ==
    ASSUME LocksHeld, NEW p \in Commanders,
           \/ Board!SeekGuard(p) \/ Board!LinkGuard(p) \/ Board!Reclassify(p)
           \/ Board!Quarantine(p) \/ Board!Relink(p) \/ Board!Unguard(p)
    PROVE  LocksHeld'
<1> USE LocksAssumption DEF LocksHeld, Board!Goes
<1>1. CASE Board!SeekGuard(p)
  BY <1>1 DEF Board!SeekGuard
<1>2. CASE Board!LinkGuard(p)
  BY <1>2 DEF Board!LinkGuard
<1>3. CASE Board!Reclassify(p)
  BY <1>3 DEF Board!Reclassify, Board!Stale
<1>4. CASE Board!Quarantine(p)
  BY <1>4 DEF Board!Quarantine
<1>5. CASE Board!Relink(p)
  BY <1>5 DEF Board!Relink
<1>6. CASE Board!Unguard(p)
  BY <1>6 DEF Board!Unguard
<1> QED BY <1>1, <1>2, <1>3, <1>4, <1>5, <1>6

LEMMA LockUsed ==
    ASSUME LocksHeld, NEW p \in Commanders,
           Board!Read(p) \/ Board!Refuse(p) \/ Board!Save(p) \/ Board!Release(p) \/ Board!Die(p)
    PROVE  LocksHeld'
<1> USE LocksAssumption DEF LocksHeld, Board!Goes
<1>1. CASE Board!Read(p)
  <2>1. PICK b \in Board!Outcomes(board) : plan' = [plan EXCEPT ![p] = b]
    BY <1>1 DEF Board!Read
  <2> QED BY <1>1, <2>1 DEF Board!Read
<1>2. CASE Board!Refuse(p)
  BY <1>2 DEF Board!Refuse
<1>3. CASE Board!Save(p)
  <2>1. \A q \in Commanders \ {p} : pc'[q] # "save"
    BY <1>3 DEF Board!Save
  <2>2. pc'[p] = "release"
    BY <1>3 DEF Board!Save
  <2> QED BY <1>3, <2>1, <2>2 DEF Board!Save
<1>4. CASE Board!Release(p)
  BY <1>4 DEF Board!Release
<1>5. CASE Board!Die(p)
  BY <1>5 DEF Board!Die
<1> QED BY <1>1, <1>2, <1>3, <1>4, <1>5

\* The board changes by saves only, and a save writes what one command makes of it.
LEMMA BoardSteps == LocksHeld /\ [Board!Next]_(Board!vars) => [board' \in Board!Outcomes(board)]_board
<1> SUFFICES ASSUME LocksHeld, [Board!Next]_(Board!vars), board' # board PROVE board' \in Board!Outcomes(board)
  OBVIOUS
<1>1. PICK p \in Commanders : Board!Save(p)
  BY DEF Board!Next, Board!vars, Board!Begin, Board!StatGuard, Board!LinkLock, Board!Classify, Board!SeekGuard,
         Board!LinkGuard, Board!Reclassify, Board!Quarantine, Board!Relink, Board!Unguard, Board!Read, Board!Refuse,
         Board!Release, Board!Die
<1> QED BY <1>1 DEF Board!Save, Board!Goes, LocksHeld

LEMMA BoardInvNext == BoardInv /\ [Board!Next]_(Board!vars) => BoardInv'
<1> SUFFICES ASSUME BoardInv, [Board!Next]_(Board!vars) PROVE BoardInv'
  OBVIOUS
<1>1. LocksHeld'
  <2>1. CASE UNCHANGED Board!vars
    BY <2>1 DEF BoardInv, LocksHeld, Board!vars
  <2>2. CASE Board!Next
    BY <2>2, LockTaken, LockRecovered, LockUsed DEF BoardInv, Board!Next
  <2> QED BY <2>1, <2>2
<1>2. Sound(board)'
  BY BoardSteps, OutcomesSound DEF BoardInv
<1> QED BY <1>1, <1>2 DEF BoardInv

LEMMA BoardInvSound == BoardInv => Board!OwnersAreApart /\ Board!VerifiedIsFrozen
BY DEF BoardInv, Sound, Frozen, Board!OwnersAreApart, Board!VerifiedIsFrozen

\* Whoever dies with the lock or in the middle of recovering it: a board that
\* replaces another one is what one command makes of that one, and on every board
\* reservations are apart, owners have one card under way, and what is verified is
\* what was frozen.
THEOREM BoardIsSoundHolds == Board!Spec => BoardIsSound
<1>1. BoardInv => LocksHeld
  BY DEF BoardInv
<1> HIDE DEF Board!Next, Board!Init, Board!vars, BoardInv, LocksHeld
<1>2. Board!Spec => []BoardInv
  BY BoardInvInit, BoardInvNext, PTL DEF Board!Spec
<1>3. Board!Spec => [](Board!OwnersAreApart /\ Board!VerifiedIsFrozen)
  BY <1>2, BoardInvSound, PTL
<1>4. Board!Spec => Board!BoardStepsAreAtomic
  BY <1>1, <1>2, BoardSteps, PTL DEF Board!BoardStepsAreAtomic, Board!Spec
<1> QED BY <1>3, <1>4 DEF BoardIsSound

-----------------------------------------------------------------------------
\* The three in one specification, of which the run checks a bounded one.
THEOREM LocksKeep ==
    LocksInit /\ [][LocksNext]_locks => [](OneAttemptPerWorkspace /\ NothingLeaks) /\ SuiteIsSound /\ BoardIsSound
<1>1. LocksInit => Init /\ Suite!Init /\ Board!Init
  BY DEF LocksInit
<1>2. [LocksNext]_locks => [Next]_vars /\ [Suite!Next]_(Suite!vars) /\ [Board!Next]_(Board!vars)
  BY DEF LocksNext, locks, local, suite, Suite!vars, Board!vars
<1>3. Spec => [](OneAttemptPerWorkspace /\ NothingLeaks)
  <2> HIDE DEF Spec, OneAttemptPerWorkspace, NothingLeaks
  <2> QED BY LeaseIsReturned, LeaseExcludes, PTL
<1> HIDE DEF LocksInit, LocksNext, locks, Init, Next, vars, Suite!Init, Suite!Next, Suite!vars,
             Board!Init, Board!Next, Board!vars, OneAttemptPerWorkspace, NothingLeaks, SuiteIsSound, BoardIsSound
<1>4. LocksInit /\ [][LocksNext]_locks => Spec /\ Suite!Spec /\ Board!Spec
  BY <1>1, <1>2, PTL DEF Spec, Suite!Spec, Board!Spec
<1> QED BY <1>3, <1>4, SuiteIsSoundHolds, BoardIsSoundHolds

(***************************************************************************)
(* The gateway.                                                            *)
(***************************************************************************)

CardStatuses == Active \cup {"none", "backlog", "ready", "done", "cancelled"}
Rows == [status : CardStatuses, owner : Workers \cup {None}, def : Defs \cup {None}, paths : SUBSET Paths,
         deps : SUBSET Cards, fence : Nat, attention : BOOLEAN, frozen : BOOLEAN]

\* Rows hold what their columns allow, and a card that was qualified has a definition.
WorkplanTypeOK ==
    /\ card \in [Cards -> Rows] /\ claim \in [Cards -> Claims \cup {None}]
    /\ reserved \in [Cards -> SUBSET Paths]
    /\ \A c \in Cards : card[c].status # "none" => card[c].def \in Defs
    /\ DOMAIN submitted = Cards /\ submitted = [c \in Cards |-> submitted[c]]
    /\ DOMAIN integrated = Cards /\ integrated = [c \in Cards |-> integrated[c]]

\* A row of the claims is open exactly while its card is worked on.
OpenIsActive == \A c \in Cards : Claimed(c) <=> card[c].status \in Active

LEMMA ClashIsSymmetric == ASSUME NEW ps, NEW qs, Clash(ps, qs) PROVE Clash(qs, ps)
BY DEF Clash, Overlap

LEMMA RowIsOpen == ASSUME NEW r \in Claims PROVE r # None
BY WorkplanAssumption

\* A table of claims in which everybody has what he has, but for lease and worktree.
SameClaims(table) ==
    /\ table \in [Cards -> Claims \cup {None}]
    /\ \A d \in Cards :
         /\ table[d] = None <=> claim[d] = None
         /\ claim[d] # None => /\ table[d].owner = claim[d].owner /\ table[d].fence = claim[d].fence
                               /\ table[d].bundle = claim[d].bundle

LEMMA TouchedIsSame == ASSUME WorkplanTypeOK, NEW c \in Cards PROVE SameClaims(Touched(c))
<1>1. CASE Claimed(c) /\ claim[c].lease = "late"
  <2>1. Touched(c) = [claim EXCEPT ![c].lease = "over"]
    BY <1>1 DEF Touched
  <2>2. claim[c] \in Claims /\ [claim[c] EXCEPT !.lease = "over"] \in Claims
    BY <1>1 DEF WorkplanTypeOK, Claimed, Claims
  <2> QED BY <2>1, <2>2, RowIsOpen DEF WorkplanTypeOK, Claims, SameClaims
<1>2. CASE ~(Claimed(c) /\ claim[c].lease = "late")
  BY <1>2 DEF Touched, WorkplanTypeOK, SameClaims
<1> QED BY <1>1, <1>2

\* What a call of a worker, or an integration, does to the card and its claim.
Advances(c) == Claimed(c) /\ (\E status \in Active : SetStatus(c, status)) /\ SameClaims(claim')

LEMMA BindMoves == ASSUME WorkplanTypeOK, OpenIsActive, NEW c \in Cards, Bind(c) PROVE Advances(c)
<1>1. Claimed(c) /\ SetStatus(c, "in_progress") /\ SameClaims(Touched(c))
  BY TouchedIsSame DEF Bind, WorkerMay, CoordinatorMay, Fenced
<1>2. Lineage[card[c].def] \in Trees
  BY <1>1, WorkplanAssumption DEF OpenIsActive, WorkplanTypeOK, Active
<1>3. Touched(c)[c] \in Claims
  BY <1>1 DEF SameClaims, Claimed
<1>4. [Touched(c)[c] EXCEPT !.bound = Lineage[card[c].def]] \in Claims
  BY <1>2, <1>3 DEF Claims
<1>5. claim' = [Touched(c) EXCEPT ![c] = [Touched(c)[c] EXCEPT !.bound = Lineage[card[c].def]]]
  BY DEF Bind
<1>6. SameClaims(claim')
  BY <1>1, <1>3, <1>4, <1>5, RowIsOpen DEF SameClaims, Claims
<1> QED BY <1>1, <1>6 DEF Advances, Active

LEMMA CallMoves ==
    ASSUME WorkplanTypeOK, OpenIsActive, NEW c \in Cards,
           \/ Bind(c) \/ Checkpoint(c) \/ (\E h \in HeadsOf[c] : Submit(c, h))
           \/ (\E retain \in BOOLEAN : Block(c, retain)) \/ Resume(c) \/ Integrate(c)
    PROVE  Advances(c)
<1>1. CASE Bind(c)
  BY <1>1, BindMoves
<1>2. CASE ~Bind(c)
  BY <1>2, TouchedIsSame DEF Checkpoint, Submit, Block, Resume, Integrate, Moved, Advances, WorkerMay,
     CoordinatorMay, Fenced, Active
<1> QED BY <1>1, <1>2

\* A change of some columns of one row.
LEMMA RowChanges ==
    ASSUME WorkplanTypeOK, NEW c \in Cards, NEW row \in Rows, card' = [card EXCEPT ![c] = row]
    PROVE  card' \in [Cards -> Rows] /\ card'[c] = row /\ \A d \in Cards \ {c} : card'[d] = card[d]
BY DEF WorkplanTypeOK

\* Nothing of the card changes but its flags, nothing of its claim but the lease.
Marks(c) ==
    /\ card' \in [Cards -> Rows] /\ \A d \in Cards \ {c} : card'[d] = card[d]
    /\ card'[c].status = card[c].status /\ card'[c].owner = card[c].owner /\ card'[c].def = card[c].def
    /\ card'[c].paths = card[c].paths /\ card'[c].deps = card[c].deps /\ card'[c].fence = card[c].fence
    /\ SameClaims(claim') /\ UNCHANGED <<reserved, receipts>>

LEMMA NoticeMarks ==
    ASSUME WorkplanTypeOK, NEW c \in Cards,
           Heartbeat(c) \/ Expire(c) \/ NoteExpiry(c) \/ \E d \in Deliveries : Webhook(c, d)
    PROVE  Marks(c)
<1> USE DEF Marks
<1>1. CASE Heartbeat(c) \/ Expire(c)
  <2>1. PICK lease \in {"live", "late"} : claim' = [claim EXCEPT ![c].lease = lease]
    BY <1>1 DEF Heartbeat, Expire
  <2>2. claim[c] \in Claims /\ [claim[c] EXCEPT !.lease = lease] \in Claims
    BY <1>1 DEF WorkplanTypeOK, Heartbeat, Expire, Fenced, Claimed, Claims
  <2>3. SameClaims(claim')
    BY <2>1, <2>2, RowIsOpen DEF WorkplanTypeOK, SameClaims, Claims
  <2> QED BY <1>1, <2>3 DEF Heartbeat, Expire, WorkplanTypeOK
<1>2. CASE NoteExpiry(c)
  <2> DEFINE row == [card[c] EXCEPT !.attention = TRUE]
  <2>1. card[c] \in Rows
    BY DEF WorkplanTypeOK
  <2>2. row \in Rows
    BY <2>1 DEF Rows
  <2>3. card' = [card EXCEPT ![c] = row]
    BY <1>2 DEF NoteExpiry
  <2>4. row.status = card[c].status /\ row.owner = card[c].owner /\ row.def = card[c].def
        /\ row.paths = card[c].paths /\ row.deps = card[c].deps /\ row.fence = card[c].fence
    BY <2>1 DEF Rows
  <2> HIDE DEF row
  <2> QED BY <1>2, <2>2, <2>3, <2>4, RowChanges, TouchedIsSame DEF NoteExpiry, receipts
<1>3. CASE \E d \in Deliveries : Webhook(c, d)
  <2>1. SameClaims(claim)
    BY DEF SameClaims, WorkplanTypeOK
  <2>2. CASE UNCHANGED <<card, claim>>
    BY <1>3, <2>1, <2>2 DEF Webhook, WorkplanTypeOK, receipts
  <2>3. CASE Claimed(c) /\ ~card[c].frozen
    <3> DEFINE row == [card[c] EXCEPT !.frozen = TRUE, !.attention = TRUE]
    <3>1. card[c] \in Rows
      BY DEF WorkplanTypeOK
    <3>2. row \in Rows
      BY <3>1 DEF Rows
    <3>3. card' = [card EXCEPT ![c] = row]
      BY <1>3, <2>3 DEF Webhook
    <3>4. row.status = card[c].status /\ row.owner = card[c].owner /\ row.def = card[c].def
          /\ row.paths = card[c].paths /\ row.deps = card[c].deps /\ row.fence = card[c].fence
      BY <3>1 DEF Rows
    <3> HIDE DEF row
    <3> QED BY <1>3, <2>3, <3>2, <3>3, <3>4, RowChanges, TouchedIsSame DEF Webhook, receipts
  <2> QED BY <1>3, <2>2, <2>3 DEF Webhook
<1> QED BY <1>1, <1>2, <1>3

\* Every step is one of a few kinds.
LEMMA Kinds ==
    ASSUME WorkplanTypeOK, OpenIsActive, [WorkplanNext]_workplan
    PROVE  \/ UNCHANGED <<card, claim, reserved, receipts>>
           \/ \E c \in Cards :
                \/ \E def \in DefsOf[c], ps \in PathsOf[c], deps \in DepsOf[c], ready \in BOOLEAN :
                       Qualify(c, def, ps, deps, ready)
                \/ \E w \in Workers : Claim(c, w) \/ Reassign(c, w)
                \/ (\E def \in DefsOf[c] : Revalidate(c, def))
                \/ Accept(c) \/ CancelCard(c) \/ Requeue(c)
                \/ /\ Advances(c)
                   /\ \/ Bind(c) \/ Checkpoint(c) \/ (\E h \in HeadsOf[c] : Submit(c, h))
                      \/ (\E retain \in BOOLEAN : Block(c, retain)) \/ Resume(c) \/ Integrate(c)
                \/ Marks(c)
BY CallMoves, NoticeMarks DEF WorkplanNext, workplan, BackendEpoch

-----------------------------------------------------------------------------
(* What each kind of step does to the row of its card.                     *)

\* The other cards, and what they hold, stay as they are.
Alone(c) ==
    /\ card' \in [Cards -> Rows] /\ claim' \in [Cards -> Claims \cup {None}]
    /\ reserved' \in [Cards -> SUBSET Paths]
    /\ \A d \in Cards \ {c} : card'[d] = card[d] /\ claim'[d] = claim[d] /\ reserved'[d] = reserved[d]

LEMMA QualifyRow ==
    ASSUME WorkplanTypeOK, OpenIsActive, NEW c \in Cards, NEW def \in DefsOf[c], NEW ps \in PathsOf[c],
           NEW deps \in DepsOf[c], NEW ready \in BOOLEAN, Qualify(c, def, ps, deps, ready)
    PROVE  /\ Alone(c) /\ card[c].status \notin Active /\ ~Claimed(c) /\ ~Claimed(c)' /\ card'[c].def \in Defs
           /\ card'[c].status = (IF ready THEN "ready" ELSE "backlog")
           /\ card'[c].paths = ps /\ reserved'[c] = (IF ready THEN ps ELSE {})
<1> DEFINE row == [card[c] EXCEPT !.status = IF ready THEN "ready" ELSE "backlog", !.def = def,
                                  !.paths = ps, !.deps = deps]
<1>1. card[c] \in Rows /\ def \in Defs /\ ps \in SUBSET Paths /\ deps \in SUBSET Cards
  BY WorkplanAssumption DEF WorkplanTypeOK
<1>2. row \in Rows /\ row.status = (IF ready THEN "ready" ELSE "backlog") /\ row.def = def /\ row.paths = ps
  <2>1. (IF ready THEN "ready" ELSE "backlog") \in CardStatuses
    BY DEF CardStatuses
  <2> QED BY <1>1, <2>1 DEF Rows
<1>3. card' = [card EXCEPT ![c] = row]
  BY DEF Qualify
<1> HIDE DEF row
<1>4. card[c].status \notin Active /\ ~Claimed(c) /\ claim' = claim
  BY DEF Qualify, Active, OpenIsActive
<1>5. reserved' = [reserved EXCEPT ![c] = IF ready THEN ps ELSE {}]
  BY DEF Qualify, ReservePaths
<1> QED BY <1>1, <1>2, <1>3, <1>4, <1>5, RowChanges DEF Alone, WorkplanTypeOK, Claimed

LEMMA HandToRow ==
    ASSUME WorkplanTypeOK, OpenIsActive, NEW c \in Cards, NEW w \in Workers, Claim(c, w) \/ Reassign(c, w)
    PROVE  /\ Alone(c) /\ card[c].status \in Active \cup {"ready"} /\ card'[c].status = "claimed"
           /\ card'[c].owner = w /\ card'[c].fence = card[c].fence + 1
           /\ card'[c].def = card[c].def /\ card'[c].paths = card[c].paths /\ card'[c].deps = card[c].deps
           /\ claim'[c] = NewClaim(c, w, card[c].fence + 1) /\ claim'[c] \in Claims /\ HoldsNothing(w)
           /\ reserved'[c] = card[c].paths /\ FreeFor(c, card[c].paths) /\ UNCHANGED receipts
<1> DEFINE row == [card[c] EXCEPT !.status = "claimed", !.owner = w, !.fence = card[c].fence + 1,
                                  !.attention = FALSE]
<1>1. card[c] \in Rows /\ HandTo(c, w) /\ card[c].status \in Active \cup {"ready"} /\ card[c].def \in Defs
  BY DEF Claim, Reassign, WorkplanTypeOK, Active
<1>2. row \in Rows /\ row.status = "claimed" /\ row.owner = w /\ row.fence = card[c].fence + 1
      /\ row.def = card[c].def /\ row.paths = card[c].paths /\ row.deps = card[c].deps
  <2>1. "claimed" \in CardStatuses /\ card[c].fence + 1 \in Nat
    BY <1>1 DEF CardStatuses, Active, Rows
  <2> QED BY <1>1, <2>1 DEF Rows
<1>3. card' = [card EXCEPT ![c] = row]
  BY <1>1 DEF HandTo
<1>4. claim' = [claim EXCEPT ![c] = NewClaim(c, w, card[c].fence + 1)]
  BY <1>1 DEF HandTo
<1> HIDE DEF row
<1>5. NewClaim(c, w, card[c].fence + 1) \in Claims
  BY <1>1 DEF NewClaim, Claims, Bundle, Rows
<1>6. reserved' = [reserved EXCEPT ![c] = card[c].paths] /\ UNCHANGED receipts
  BY DEF Claim, Reassign, ReservePaths, WorkplanTypeOK
<1>7. HoldsNothing(w) /\ FreeFor(c, card[c].paths)
  BY DEF Claim, Reassign, Startable
<1>8. card[c].paths \in SUBSET Paths
  BY <1>1 DEF Rows
<1> QED BY <1>1, <1>2, <1>3, <1>4, <1>5, <1>6, <1>7, <1>8, RowChanges DEF Alone, WorkplanTypeOK

LEMMA RevalidateRow ==
    ASSUME WorkplanTypeOK, OpenIsActive, NEW c \in Cards, NEW def \in DefsOf[c], Revalidate(c, def)
    PROVE  /\ Alone(c) /\ card'[c].status = card[c].status /\ card'[c].owner = card[c].owner
           /\ card'[c].def = def /\ card'[c].paths = card[c].paths /\ card'[c].deps = card[c].deps
           /\ UNCHANGED <<reserved, receipts>> /\ def \in Defs /\ (Claimed(c)' <=> Claimed(c))
           /\ Claimed(c) => /\ card'[c].fence = card[c].fence + 1
                         /\ claim'[c] = Retold(c, def, card[c].fence + 1) /\ claim[c] \in Claims
<1> DEFINE fence == card[c].fence + IF Claimed(c) THEN 1 ELSE 0
           row == [card[c] EXCEPT !.def = def, !.fence = fence, !.frozen = FALSE]
<1>1. card[c] \in Rows /\ fence \in Nat /\ def \in Defs
  BY WorkplanAssumption DEF WorkplanTypeOK, Rows
<1>2. row \in Rows /\ row.def = def /\ row.status = card[c].status /\ row.owner = card[c].owner
      /\ row.paths = card[c].paths /\ row.deps = card[c].deps /\ row.fence = fence
  BY <1>1 DEF Rows
<1>3. card' = [card EXCEPT ![c] = row] /\ UNCHANGED <<reserved, receipts>>
  BY DEF Revalidate
<1> HIDE DEF row
<1>4. CASE Claimed(c)
  <2>1. claim[c] \in Claims /\ card[c].fence + 1 \in Nat
    BY <1>1, <1>4 DEF WorkplanTypeOK, Claimed, Rows
  <2>2. Bundle(c, def, claim[c].owner, card[c].fence + 1) \in
          [def : Defs, paths : SUBSET Paths, deps : SUBSET Cards, owner : Workers, fence : Nat]
    BY <1>1, <2>1 DEF Bundle, Claims, Rows
  <2>3. Lapsed(c) \in {"live", "late", "over", "void"}
    BY DEF Lapsed
  <2>4. Retold(c, def, card[c].fence + 1) \in Claims
    BY <2>1, <2>2, <2>3 DEF Retold, Claims
  <2>5. claim' = [claim EXCEPT ![c] = Retold(c, def, card[c].fence + 1)] /\ fence = card[c].fence + 1
    BY <1>4 DEF Revalidate
  <2> HIDE DEF fence
  <2> QED BY <1>1, <1>2, <1>3, <1>4, <2>1, <2>4, <2>5, RowChanges, RowIsOpen DEF Alone, WorkplanTypeOK, Claimed
<1>5. CASE ~Claimed(c)
  <2>1. claim' = claim
    BY <1>5 DEF Revalidate
  <2> HIDE DEF fence
  <2> QED BY <1>1, <1>2, <1>3, <1>5, <2>1, RowChanges DEF Alone, WorkplanTypeOK, Claimed
<1> QED BY <1>4, <1>5

LEMMA CloseRow ==
    ASSUME WorkplanTypeOK, OpenIsActive, NEW c \in Cards, Accept(c) \/ CancelCard(c) \/ Requeue(c)
    PROVE  /\ Alone(c) /\ claim'[c] = None /\ UNCHANGED receipts /\ card[c].status # "none"
           /\ card'[c].def = card[c].def /\ card'[c].paths = card[c].paths
           /\ \/ card'[c].status = "done" /\ card[c].status = "verifying" /\ reserved'[c] = {}
              \/ card'[c].status = "cancelled" /\ reserved'[c] = {}
              \/ /\ card'[c].status = "ready" /\ reserved'[c] = card[c].paths
                 /\ FreeFor(c, card[c].paths)
<1>1. PICK status \in {"done", "cancelled", "ready"} :
        /\ Closed(c, status) /\ UNCHANGED receipts /\ card[c].status # "none"
        /\ \/ status = "done" /\ card[c].status = "verifying" /\ ReservePaths(c, {})
           \/ status = "cancelled" /\ ReservePaths(c, {})
           \/ status = "ready" /\ ReservePaths(c, card[c].paths) /\ FreeFor(c, card[c].paths)
  BY DEF Accept, Acceptable, CancelCard, Requeue, Active
<1> DEFINE row == [card[c] EXCEPT !.status = status, !.owner = None]
<1>2. row \in Rows /\ row.def = card[c].def /\ row.status = status /\ row.paths = card[c].paths
  <2>1. card[c] \in Rows /\ status \in CardStatuses
    BY DEF WorkplanTypeOK, CardStatuses
  <2> QED BY <2>1 DEF Rows
<1>3. card' = [card EXCEPT ![c] = row] /\ claim' = [claim EXCEPT ![c] = None]
  BY <1>1 DEF Closed
<1> HIDE DEF row
<1>4. card[c].paths \in SUBSET Paths
  BY DEF WorkplanTypeOK, Rows
<1> QED BY <1>1, <1>2, <1>3, <1>4, RowChanges DEF Alone, WorkplanTypeOK, ReservePaths

LEMMA MoveRow ==
    ASSUME WorkplanTypeOK, OpenIsActive, NEW c \in Cards, Advances(c)
    PROVE  /\ card' \in [Cards -> Rows] /\ \A d \in Cards \ {c} : card'[d] = card[d]
           /\ card'[c].status \in Active /\ card[c].status \in Active
           /\ card'[c].owner = card[c].owner /\ card'[c].fence = card[c].fence
           /\ card'[c].def = card[c].def /\ card'[c].paths = card[c].paths /\ card'[c].deps = card[c].deps
<1>1. PICK status \in Active : SetStatus(c, status)
  BY DEF Advances
<1> DEFINE row == [card[c] EXCEPT !.status = status]
<1>2. row \in Rows /\ row.status = status /\ row.owner = card[c].owner /\ row.fence = card[c].fence
      /\ row.def = card[c].def /\ row.paths = card[c].paths /\ row.deps = card[c].deps
  <2>1. card[c] \in Rows /\ status \in CardStatuses
    BY DEF WorkplanTypeOK, CardStatuses
  <2> QED BY <2>1 DEF Rows
<1>3. card' = [card EXCEPT ![c] = row]
  BY <1>1 DEF SetStatus
<1> HIDE DEF row
<1> QED BY <1>1, <1>2, <1>3, RowChanges DEF OpenIsActive, Advances

-----------------------------------------------------------------------------
CardCalls(c) ==
    \/ Bind(c) \/ Checkpoint(c) \/ (\E h \in HeadsOf[c] : Submit(c, h))
    \/ (\E retain \in BOOLEAN : Block(c, retain)) \/ Resume(c) \/ Integrate(c)

\* Rows hold what they may, and a card is worked on while its claim is open.
LEMMA RowsHold == WorkplanSpec => [](WorkplanTypeOK /\ OpenIsActive)
<1>1. WorkplanInit => WorkplanTypeOK /\ OpenIsActive
  BY DEF WorkplanInit, WorkplanTypeOK, OpenIsActive, Claimed, Active, NoCard, Rows, CardStatuses
<1>2. WorkplanTypeOK /\ OpenIsActive /\ [WorkplanNext]_workplan => (WorkplanTypeOK /\ OpenIsActive)'
  <2> SUFFICES ASSUME WorkplanTypeOK, OpenIsActive, [WorkplanNext]_workplan PROVE WorkplanTypeOK' /\ OpenIsActive'
    OBVIOUS
  <2>1. ASSUME UNCHANGED <<card, claim, reserved, receipts>> PROVE WorkplanTypeOK' /\ OpenIsActive'
    BY <2>1 DEF WorkplanTypeOK, OpenIsActive, Claimed, receipts
  <2>2. ASSUME NEW c \in Cards, NEW def \in DefsOf[c], NEW ps \in PathsOf[c], NEW deps \in DepsOf[c],
               NEW ready \in BOOLEAN, Qualify(c, def, ps, deps, ready)
        PROVE  WorkplanTypeOK' /\ OpenIsActive'
    <3>1. UNCHANGED receipts
      BY <2>2 DEF Qualify
    <3> QED BY <2>2, <3>1, QualifyRow DEF Alone, WorkplanTypeOK, OpenIsActive, Claimed, Active, receipts
  <2>3. ASSUME NEW c \in Cards, NEW w \in Workers, Claim(c, w) \/ Reassign(c, w) PROVE WorkplanTypeOK' /\ OpenIsActive'
    <3> USE <2>3, HandToRow
    <3>1. WorkplanTypeOK'
      BY DEF Alone, WorkplanTypeOK, Active, receipts
    <3>2. OpenIsActive'
      BY RowIsOpen DEF Alone, OpenIsActive, Claimed, Active
    <3> QED BY <3>1, <3>2
  <2>4. ASSUME NEW c \in Cards, NEW def \in DefsOf[c], Revalidate(c, def) PROVE WorkplanTypeOK' /\ OpenIsActive'
    BY <2>4, RevalidateRow DEF Alone, WorkplanTypeOK, OpenIsActive, Claimed, receipts
  <2>5. ASSUME NEW c \in Cards, Accept(c) \/ CancelCard(c) \/ Requeue(c) PROVE WorkplanTypeOK' /\ OpenIsActive'
    BY <2>5, CloseRow DEF Alone, WorkplanTypeOK, OpenIsActive, Claimed, Active, receipts
  <2>6. ASSUME NEW c \in Cards, Advances(c), CardCalls(c) PROVE WorkplanTypeOK' /\ OpenIsActive'
    <3>1. reserved' \in [Cards -> SUBSET Paths]
      BY <2>6 DEF CardCalls, WorkplanTypeOK, Bind, Checkpoint, Submit, Block, Resume, Integrate, ReservePaths, Rows
    <3>2. /\ DOMAIN submitted' = Cards /\ submitted' = [d \in Cards |-> submitted'[d]]
          /\ DOMAIN integrated' = Cards /\ integrated' = [d \in Cards |-> integrated'[d]]
      BY <2>6 DEF CardCalls, WorkplanTypeOK, Bind, Checkpoint, Submit, Block, Resume, Integrate, receipts
    <3> QED BY <2>6, <3>1, <3>2, MoveRow DEF WorkplanTypeOK, OpenIsActive, Claimed, Advances, SameClaims, Active
  <2>7. ASSUME NEW c \in Cards, Marks(c) PROVE WorkplanTypeOK' /\ OpenIsActive'
    BY <2>7 DEF Marks, SameClaims, WorkplanTypeOK, OpenIsActive, Claimed, receipts
  <2> QED BY <2>1, <2>2, <2>3, <2>4, <2>5, <2>6, <2>7, Kinds DEF CardCalls
<1> QED BY <1>1, <1>2, PTL DEF WorkplanSpec

\* Reservations of two cards never overlap, whatever is blocked, requeued or
\* handed on; a card that is ready or finished holds exactly what it should.
THEOREM ReservationsApartHolds == WorkplanSpec => []ReservationsApart
<1>1. WorkplanInit => ReservationsApart
  BY DEF WorkplanInit, ReservationsApart, NoCard, Clash
<1>2. WorkplanTypeOK /\ OpenIsActive /\ ReservationsApart /\ [WorkplanNext]_workplan => ReservationsApart'
  <2> SUFFICES ASSUME WorkplanTypeOK, OpenIsActive, ReservationsApart, [WorkplanNext]_workplan PROVE ReservationsApart'
    OBVIOUS
  \* Reserving what is free of the others keeps all of them apart.
  <2>0. ASSUME NEW c \in Cards, NEW ps, ps = {} \/ ps = reserved[c] \/ FreeFor(c, ps),
               reserved'[c] = ps, \A d \in Cards \ {c} : reserved'[d] = reserved[d]
        PROVE  \A d, e \in Cards : d # e => ~Clash(reserved'[d], reserved'[e])
    <3> SUFFICES ASSUME NEW d \in Cards, NEW e \in Cards, d # e PROVE ~Clash(reserved'[d], reserved'[e])
      OBVIOUS
    <3>1. \A x \in Cards \ {c} : ~Clash(ps, reserved[x])
      BY <2>0 DEF ReservationsApart, FreeFor, Clash
    <3>2. \A x \in Cards \ {c} : ~Clash(reserved[x], ps)
      BY <3>1, ClashIsSymmetric
    <3>3. CASE d = c
      BY <2>0, <3>1, <3>3
    <3>4. CASE e = c
      BY <2>0, <3>2, <3>4
    <3>5. CASE d # c /\ e # c
      BY <2>0, <3>5 DEF ReservationsApart
    <3> QED BY <3>3, <3>4, <3>5
  <2>1. ASSUME UNCHANGED <<card, claim, reserved, receipts>> PROVE ReservationsApart'
    BY <2>1 DEF ReservationsApart
  <2>2. ASSUME NEW c \in Cards, NEW def \in DefsOf[c], NEW ps \in PathsOf[c], NEW deps \in DepsOf[c],
               NEW ready \in BOOLEAN, Qualify(c, def, ps, deps, ready)
        PROVE  ReservationsApart'
    <3>1. ready => FreeFor(c, ps)
      BY <2>2 DEF Qualify, Startable
    <3>2. \A d, e \in Cards : d # e => ~Clash(reserved'[d], reserved'[e])
      BY <2>0, <2>2, <3>1, QualifyRow DEF Alone
    <3> QED BY <2>2, <3>2, QualifyRow DEF Alone, ReservationsApart
  <2>3. ASSUME NEW c \in Cards, NEW w \in Workers, Claim(c, w) \/ Reassign(c, w) PROVE ReservationsApart'
    <3>1. \A d, e \in Cards : d # e => ~Clash(reserved'[d], reserved'[e])
      BY <2>0, <2>3, HandToRow DEF Alone
    <3> QED BY <2>3, <3>1, HandToRow DEF Alone, ReservationsApart
  <2>4. ASSUME NEW c \in Cards, NEW def \in DefsOf[c], Revalidate(c, def) PROVE ReservationsApart'
    BY <2>4, RevalidateRow DEF Alone, ReservationsApart
  <2>5. ASSUME NEW c \in Cards, Accept(c) \/ CancelCard(c) \/ Requeue(c) PROVE ReservationsApart'
    <3>1. \A d, e \in Cards : d # e => ~Clash(reserved'[d], reserved'[e])
      BY <2>0, <2>5, CloseRow DEF Alone
    <3> QED BY <2>5, <3>1, CloseRow DEF Alone, ReservationsApart
  <2>6. ASSUME NEW c \in Cards, Advances(c), CardCalls(c) PROVE ReservationsApart'
    <3>1. PICK ps : /\ reserved' = [reserved EXCEPT ![c] = ps]
                    /\ ps = {} \/ ps = reserved[c] \/ FreeFor(c, ps)
      <4>1. CASE UNCHANGED reserved
        BY <4>1 DEF WorkplanTypeOK
      <4>2. CASE reserved' # reserved
        BY <2>6, <4>2 DEF CardCalls, Bind, Checkpoint, Submit, Block, Resume, Integrate, ReservePaths, WorkplanTypeOK
      <4> QED BY <4>1, <4>2
    <3>2. reserved'[c] = ps /\ \A d \in Cards \ {c} : reserved'[d] = reserved[d]
      BY <3>1 DEF WorkplanTypeOK
    <3>3. \A d, e \in Cards : d # e => ~Clash(reserved'[d], reserved'[e])
      BY <2>0, <3>1, <3>2
    <3> QED BY <2>6, <3>2, <3>3, MoveRow DEF ReservationsApart, Active
  <2>7. ASSUME NEW c \in Cards, Marks(c) PROVE ReservationsApart'
    BY <2>7 DEF Marks, ReservationsApart
  <2> QED BY <2>1, <2>2, <2>3, <2>4, <2>5, <2>6, <2>7, Kinds DEF CardCalls
<1> QED BY <1>1, <1>2, RowsHold, PTL DEF WorkplanSpec

\* Nobody holds two cards, and whoever holds one was told the task as it stands.
THEOREM SeatsHold == WorkplanSpec => []SeatsAreSound
<1>1. WorkplanInit => OneCardPerSeat /\ SeatKnowsItsTask
  BY DEF WorkplanInit, OneCardPerSeat, SeatKnowsItsTask, Claimed, NoCard, Active
<1>2. WorkplanTypeOK /\ OpenIsActive /\ OneCardPerSeat /\ SeatKnowsItsTask /\ [WorkplanNext]_workplan /\ (OpenIsActive)'
        => (OneCardPerSeat /\ SeatKnowsItsTask)'
  <2> SUFFICES ASSUME WorkplanTypeOK, OpenIsActive, OneCardPerSeat, SeatKnowsItsTask, [WorkplanNext]_workplan, OpenIsActive'
               PROVE  OneCardPerSeat' /\ SeatKnowsItsTask'
    OBVIOUS
  \* A step leaves the others alone, and gives its card a claim that nobody has.
  <2>0. ASSUME NEW c \in Cards, Alone(c),
               Claimed(c)' => /\ claim'[c].owner = card'[c].owner /\ Fenced(c)'
                           /\ \A d \in Cards \ {c} : Claimed(d) => claim[d].owner # claim'[c].owner
        PROVE  OneCardPerSeat' /\ SeatKnowsItsTask'
    <3>1. \A d \in Cards \ {c} : (Claimed(d)' <=> Claimed(d)) /\ (Fenced(d) => Fenced(d)')
      BY <2>0 DEF Alone, Claimed, Fenced, Bundle
    <3>2. SeatKnowsItsTask'
      BY <2>0, <3>1 DEF SeatKnowsItsTask
    <3>3. OneCardPerSeat'
      BY <2>0, <3>1 DEF OneCardPerSeat, OpenIsActive, Alone
    <3> QED BY <3>2, <3>3
  \* Or it touches leases and flags, and everybody has what he had.
  <2>9. ASSUME SameClaims(claim'), \A d \in Cards : /\ card'[d].owner = card[d].owner /\ card'[d].fence = card[d].fence
                                                    /\ card'[d].def = card[d].def /\ card'[d].paths = card[d].paths
                                                    /\ card'[d].deps = card[d].deps
        PROVE  OneCardPerSeat' /\ SeatKnowsItsTask'
    <3>1. \A d \in Cards : (Claimed(d)' <=> Claimed(d)) /\ (Claimed(d) => claim'[d].owner = claim[d].owner)
      BY <2>9 DEF SameClaims, Claimed
    <3>2. OneCardPerSeat'
      BY <2>9, <3>1 DEF OneCardPerSeat, OpenIsActive
    <3>3. ASSUME NEW d \in Cards, Claimed(d)' PROVE Fenced(d)'
      <4>1. Fenced(d) /\ claim[d] # None
        BY <3>1, <3>3 DEF SeatKnowsItsTask, Claimed
      <4>2. claim'[d].owner = claim[d].owner /\ claim'[d].fence = claim[d].fence /\ claim'[d].bundle = claim[d].bundle
        BY <2>9, <4>1 DEF SameClaims
      <4> QED BY <2>9, <3>3, <4>1, <4>2 DEF Fenced, Bundle
    <3> QED BY <3>2, <3>3 DEF SeatKnowsItsTask
  <2>1. ASSUME UNCHANGED <<card, claim, reserved, receipts>> PROVE OneCardPerSeat' /\ SeatKnowsItsTask'
    BY <2>1 DEF OneCardPerSeat, SeatKnowsItsTask, Claimed, Fenced, Bundle
  <2>2. ASSUME NEW c \in Cards, NEW def \in DefsOf[c], NEW ps \in PathsOf[c], NEW deps \in DepsOf[c],
               NEW ready \in BOOLEAN, Qualify(c, def, ps, deps, ready)
        PROVE  OneCardPerSeat' /\ SeatKnowsItsTask'
    BY <2>0, <2>2, QualifyRow
  <2>3. ASSUME NEW c \in Cards, NEW w \in Workers, Claim(c, w) \/ Reassign(c, w)
        PROVE  OneCardPerSeat' /\ SeatKnowsItsTask'
    <3>a. claim'[c] = NewClaim(c, w, card[c].fence + 1) /\ claim'[c] \in Claims
          /\ card'[c].fence = card[c].fence + 1 /\ card'[c].def = card[c].def
          /\ card'[c].paths = card[c].paths /\ card'[c].deps = card[c].deps
      BY <2>3, HandToRow
    <3>1. claim'[c].owner = w /\ claim'[c].fence = card'[c].fence /\ claim'[c] # None
          /\ claim'[c].bundle = Bundle(c, card[c].def, w, card[c].fence + 1)
      <4>1. claim'[c] # None
        BY <3>a, RowIsOpen
      <4> QED BY <3>a, <4>1 DEF NewClaim
    <3>2. Fenced(c)'
      BY <3>a, <3>1 DEF Fenced, Claimed, Bundle
    <3>3. \A d \in Cards \ {c} : Claimed(d) => claim[d].owner # w
      BY <2>3, HandToRow DEF HoldsNothing
    <3> QED BY <2>0, <2>3, <3>1, <3>2, <3>3, HandToRow
  <2>4. ASSUME NEW c \in Cards, NEW def \in DefsOf[c], Revalidate(c, def)
        PROVE  OneCardPerSeat' /\ SeatKnowsItsTask'
    <3>1. CASE Claimed(c)
      <4>1. claim'[c].owner = claim[c].owner /\ claim'[c].fence = card'[c].fence /\ Claimed(c)'
            /\ claim'[c].bundle = Bundle(c, def, claim[c].owner, card[c].fence + 1)
        <5>1. claim'[c] = Retold(c, def, card[c].fence + 1) /\ claim[c] \in Claims
              /\ card'[c].fence = card[c].fence + 1 /\ Claimed(c)'
          BY <2>4, <3>1, RevalidateRow
        <5> QED BY <5>1 DEF Retold, Claims
      <4>2. Fenced(c)'
        BY <2>4, <3>1, <4>1, RevalidateRow DEF Fenced, Bundle
      <4> QED BY <2>0, <2>4, <3>1, <4>1, <4>2, RevalidateRow DEF OneCardPerSeat
    <3>2. CASE ~Claimed(c)
      BY <2>0, <2>4, <3>2, RevalidateRow
    <3> QED BY <3>1, <3>2
  <2>5. ASSUME NEW c \in Cards, Accept(c) \/ CancelCard(c) \/ Requeue(c) PROVE OneCardPerSeat' /\ SeatKnowsItsTask'
    BY <2>0, <2>5, CloseRow DEF Claimed
  <2>6. ASSUME NEW c \in Cards, Advances(c), CardCalls(c) PROVE OneCardPerSeat' /\ SeatKnowsItsTask'
    BY <2>6, <2>9, MoveRow DEF Advances
  <2>7. ASSUME NEW c \in Cards, Marks(c) PROVE OneCardPerSeat' /\ SeatKnowsItsTask'
    BY <2>7, <2>9 DEF Marks
  <2> QED BY <2>1, <2>2, <2>3, <2>4, <2>5, <2>6, <2>7, Kinds DEF CardCalls
<1>3. OneCardPerSeat /\ SeatKnowsItsTask => SeatsAreSound
  BY DEF SeatsAreSound
<1> QED BY <1>1, <1>2, <1>3, RowsHold, PTL DEF WorkplanSpec

\* What is verified or done is the head that was submitted last.
THEOREM DoneIsIntegratedHolds == WorkplanSpec => []DoneIsIntegrated
<1>1. WorkplanInit => DoneIsIntegrated
  BY DEF WorkplanInit, DoneIsIntegrated, NoCard
<1>2. WorkplanTypeOK /\ OpenIsActive /\ DoneIsIntegrated /\ [WorkplanNext]_workplan => DoneIsIntegrated'
  <2> SUFFICES ASSUME WorkplanTypeOK, OpenIsActive, DoneIsIntegrated, [WorkplanNext]_workplan PROVE DoneIsIntegrated'
    OBVIOUS
  <2>1. ASSUME UNCHANGED <<card, claim, reserved, receipts>> PROVE DoneIsIntegrated'
    BY <2>1 DEF DoneIsIntegrated, receipts
  <2>2. ASSUME NEW c \in Cards, NEW def \in DefsOf[c], NEW ps \in PathsOf[c], NEW deps \in DepsOf[c],
               NEW ready \in BOOLEAN, Qualify(c, def, ps, deps, ready)
        PROVE  DoneIsIntegrated'
    <3>1. UNCHANGED receipts /\ card'[c].status \in {"ready", "backlog"}
          /\ \A d \in Cards \ {c} : card'[d] = card[d]
      <4>1. UNCHANGED receipts
        BY <2>2 DEF Qualify
      <4> QED BY <2>2, <4>1, QualifyRow DEF Alone
    <3> QED BY <3>1 DEF DoneIsIntegrated, receipts
  <2>3. ASSUME NEW c \in Cards, NEW w \in Workers, Claim(c, w) \/ Reassign(c, w) PROVE DoneIsIntegrated'
    BY <2>3, HandToRow DEF Alone, DoneIsIntegrated, receipts
  <2>4. ASSUME NEW c \in Cards, NEW def \in DefsOf[c], Revalidate(c, def) PROVE DoneIsIntegrated'
    BY <2>4, RevalidateRow DEF Alone, DoneIsIntegrated, receipts
  <2>5. ASSUME NEW c \in Cards, Accept(c) \/ CancelCard(c) \/ Requeue(c) PROVE DoneIsIntegrated'
    BY <2>5, CloseRow DEF Alone, DoneIsIntegrated, receipts
  <2>6. ASSUME NEW c \in Cards, Advances(c), CardCalls(c) PROVE DoneIsIntegrated'
    <3>1. CASE Integrate(c)
      BY <2>6, <3>1, MoveRow DEF Integrate, DoneIsIntegrated, WorkplanTypeOK
    <3>2. CASE \E h \in HeadsOf[c] : Submit(c, h)
      <4>1. card'[c].status = "review"
        BY <3>2 DEF Submit, Moved, SetStatus, WorkplanTypeOK, Rows
      <4> QED BY <2>6, <3>2, <4>1, MoveRow DEF Submit, DoneIsIntegrated, WorkplanTypeOK
    <3>3. CASE Bind(c) \/ Checkpoint(c) \/ (\E retain \in BOOLEAN : Block(c, retain)) \/ Resume(c)
      <4>1. card'[c].status \in {"in_progress", "blocked"} /\ UNCHANGED receipts
        BY <3>3 DEF Bind, Checkpoint, Block, Resume, Moved, SetStatus, WorkplanTypeOK, Rows
      <4> QED BY <2>6, <4>1, MoveRow DEF DoneIsIntegrated, receipts
    <3> QED BY <2>6, <3>1, <3>2, <3>3 DEF CardCalls
  <2>7. ASSUME NEW c \in Cards, Marks(c) PROVE DoneIsIntegrated'
    BY <2>7 DEF Marks, DoneIsIntegrated, receipts
  <2> QED BY <2>1, <2>2, <2>3, <2>4, <2>5, <2>6, <2>7, Kinds DEF CardCalls
<1> QED BY <1>1, <1>2, RowsHold, PTL DEF WorkplanSpec
=============================================================================
