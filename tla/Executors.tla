------------------------------ MODULE Executors ------------------------------
(* The compiled executors of one workflow entry (selflearn compilation/): the *)
(* registry of their records, the gate that tests and activates them, and    *)
(* the runtime that runs the active one.  Gates are processes without a lock *)
(* between them: each reads the whole registry, and later replaces it.  They *)
(* die at any point, the procedure of the entry is amended, and files change *)
(* under them.                                                               *)
(*                                                                           *)
(* A source stands for its hash; the file of a source is named after the     *)
(* procedure it was compiled from.  A receipt is the hash of what was decided *)
(* and of the time of it, which the caller gives: two evaluations of a source *)
(* with one suite, one outcome and one time have one receipt.                 *)
EXTENDS Integers, Sequences

CONSTANTS Sources, Procedures,
          CompiledFrom,    \* [Sources -> Procedures]
          Gates, None,
          MaxCalls, MaxCrashes, MaxChanges

VARIABLES
    registry,    \* [state, records]
    source,      \* [Procedures -> a source, "other" text or None]
    procedure,   \* the procedure of the entry, on the disk
    known,       \* the procedure the runtime has loaded
    baseline,    \* evals/baseline.json exists
    call,        \* the evaluation each gate is in
    earned,      \* the sources that passed the sandbox with a human's approval
    served,      \* the source that was activated last
    ran,         \* the sources that ran
    lone,        \* no two evaluations overlapped, none repeated the active one's
    calls, crashes, changes

vars == <<registry, source, procedure, known, baseline, call, earned, served, ran, lone, calls, crashes, changes>>

Approvals == {"none", "human", "compiler"}
Times == 1 .. MaxCalls
Idle == [pc |-> "idle", src |-> None, approval |-> "none", active |-> None, record |-> None,
         data |-> <<>>, receipt |-> 0]
Record(s, status, receipt) == [src |-> s, status |-> status, receipt |-> receipt]

Init ==
    /\ registry = [state |-> "missing", records |-> <<>>]
    /\ source = [p \in Procedures |-> None]
    /\ procedure \in Procedures
    /\ known = procedure
    /\ baseline \in BOOLEAN /\ call = [g \in Gates |-> Idle]
    /\ earned = {} /\ served = None /\ ran = {} /\ lone = TRUE
    /\ calls = 0 /\ crashes = 0 /\ changes = 0

(***************************************************************************)
(* The registry.                                                           *)

With(status) == {i \in DOMAIN registry.records : registry.records[i].status = status}
Quarantined(s) == {i \in With("quarantined") : registry.records[i].src = s}
Earliest(places) == registry.records[CHOOSE i \in places : \A j \in places : i <= j]

\* The first of the active records; there may be two after a crash.
ActiveFor == IF With("active") = {} THEN None ELSE Earliest(With("active"))

\* The record by its identity, which is all it says: of two that say the same,
\* both.
Transitioned(records, record, status, receipt) ==
    [i \in DOMAIN records |-> IF records[i] = record THEN Record(record.src, status, receipt) ELSE records[i]]

Written(records) == registry' = [state |-> "fine", records |-> records]

(***************************************************************************)
(* The gate: one evaluation of a candidate, step by step.                  *)

Set(g, c) == call' = [call EXCEPT ![g] = c]
Rest == UNCHANGED <<procedure, known, baseline, lone, calls, crashes, changes>>
Ghosts == UNCHANGED <<earned, served, ran>>

\* A candidate of the procedure as it is when the gate loads the pack; suites of the compiler's
\* own or of another procedure, stale candidates and those of another pack are
\* turned away before anything is written.
Evaluate(g, s, approval, at) ==
    /\ call[g].pc = "idle" /\ calls < MaxCalls /\ registry.state # "torn"
    /\ CompiledFrom[s] = procedure
    /\ calls' = calls + 1
    /\ Set(g, [Idle EXCEPT !.pc = "source", !.src = s, !.approval = approval,
                           !.active = ActiveFor, !.receipt = at])
    /\ lone' = (lone /\ (\A h \in Gates : call[h].pc = "idle") /\ ActiveFor # Record(s, "active", at))
    /\ UNCHANGED <<registry, source, procedure, known, baseline, crashes, changes>> /\ Ghosts

\* The file of the procedure, unless it holds something else.
WriteSource(g) ==
    /\ call[g].pc = "source"
    /\ LET p == CompiledFrom[call[g].src]
       IN  IF source[p] \in {None, call[g].src}
           THEN /\ source' = [source EXCEPT ![p] = call[g].src]
                /\ Set(g, [call[g] EXCEPT !.pc = "record"])
           ELSE UNCHANGED source /\ Set(g, Idle)
    /\ UNCHANGED registry /\ Rest /\ Ghosts

\* A record in quarantine, unless there is one.
FindRecord(g) ==
    /\ call[g].pc = "record"
    /\ Set(g, IF registry.state = "torn" THEN Idle
              ELSE IF Quarantined(call[g].src) # {}
              THEN [call[g] EXCEPT !.pc = "bind"]
              ELSE [call[g] EXCEPT !.pc = "append", !.data = registry.records])
    /\ UNCHANGED <<registry, source>> /\ Rest /\ Ghosts

AppendRecord(g) ==
    /\ call[g].pc = "append"
    /\ Written(Append(call[g].data, Record(call[g].src, "quarantined", 0)))
    /\ Set(g, [call[g] EXCEPT !.pc = "bind", !.data = <<>>])
    /\ UNCHANGED source /\ Rest /\ Ghosts

\* The record the evaluation is about, if it is still there.
Bind(g) ==
    /\ call[g].pc = "bind"
    /\ Set(g, IF Quarantined(call[g].src) = {} THEN Idle
              ELSE [call[g] EXCEPT !.pc = "sandbox", !.record = Earliest(Quarantined(call[g].src))])
    /\ UNCHANGED <<registry, source>> /\ Rest /\ Ghosts

\* Mutant: any approval will do.
ApprovedByAnybody(c) == c.approval # "none"

\* The compiler never approves its own output.
Approved(c) == c.approval = "human"

\* The sandbox fails: rejected.  It passes: a human's approval activates, with
\* a baseline if that is a swap; without one, or with the compiler's own, the
\* candidate stays in quarantine.
Sandbox(g) ==
    /\ call[g].pc = "sandbox"
    /\ LET c == call[g]
       IN  \/ Set(g, [c EXCEPT !.pc = "reject"]) /\ UNCHANGED earned
           \/ /\ Approved(c) /\ (c.active = None \/ baseline)
              /\ Set(g, [c EXCEPT !.pc = "activate"])
              /\ earned' = IF c.approval = "human" THEN earned \cup {c.src} ELSE earned
           \/ /\ ~Approved(c) \/ (c.active # None /\ ~baseline)
              /\ Set(g, Idle) /\ UNCHANGED earned
    /\ UNCHANGED <<registry, source, served, ran>> /\ Rest

\* A transition reads the registry, finds the record in it, and replaces the
\* registry: the new executor becomes active first, then the old one goes.
Transitions == {"reject", "activate", "supersede"}
Moved(c) == IF c.pc = "supersede" THEN c.active ELSE c.record
ReadRegistry(g) ==
    /\ call[g].pc \in Transitions /\ call[g].data = <<>>
    /\ Set(g, IF \E i \in DOMAIN registry.records : registry.records[i] = Moved(call[g])
              THEN [call[g] EXCEPT !.data = registry.records] ELSE Idle)
    /\ UNCHANGED <<registry, source>> /\ Rest /\ Ghosts

Status(pc) == CASE pc = "reject" -> "rejected" [] pc = "activate" -> "active" [] pc = "supersede" -> "superseded"
After(c) == IF c.pc = "activate" /\ c.active # None THEN [c EXCEPT !.pc = "supersede", !.data = <<>>] ELSE Idle
WriteRegistry(g) ==
    /\ call[g].pc \in Transitions /\ call[g].data # <<>>
    /\ Written(Transitioned(call[g].data, Moved(call[g]), Status(call[g].pc), call[g].receipt))
    /\ Set(g, After(call[g]))
    /\ served' = IF call[g].pc = "activate" THEN call[g].src ELSE served
    /\ UNCHANGED <<source, earned, ran>> /\ Rest

\* A gate dies; the registry is replaced whole but for its first, empty form.
Crash(g) ==
    /\ call[g].pc # "idle" /\ crashes < MaxCrashes /\ crashes' = crashes + 1
    /\ Set(g, Idle)
    /\ \/ UNCHANGED registry
       \/ call[g].pc = "append" /\ registry.state = "missing" /\ registry' = [registry EXCEPT !.state = "torn"]
    /\ UNCHANGED <<source, procedure, known, baseline, lone, calls, changes>> /\ Ghosts

(***************************************************************************)
(* The runtime, and the world around.                                      *)

\* The active executor runs if it was compiled from the procedure the runtime
\* has loaded and its file is as it was recorded; else the run is refused.
Runnable(r) == known = CompiledFrom[r.src] /\ source[CompiledFrom[r.src]] = r.src
Run ==
    /\ registry.state # "torn" /\ ActiveFor # None /\ Runnable(ActiveFor)
    /\ ran' = ran \cup {ActiveFor.src}
    /\ UNCHANGED <<registry, source, call, earned, served>> /\ Rest

\* What the doctor finds (doctor.py); it repairs none of it, and does not compare
\* the text of a source with its record.
Unreadable == registry.state = "torn"
Doubled == \E i, j \in With("active") : i # j
SourceMissing == \E i \in With("active") : source[CompiledFrom[registry.records[i].src]] = None
SpecStale == \E i \in With("active") : CompiledFrom[registry.records[i].src] # procedure

Reload ==
    /\ known # procedure /\ known' = procedure
    /\ UNCHANGED <<registry, source, procedure, baseline, call, lone, calls, crashes, changes>> /\ Ghosts

Change ==
    /\ changes < MaxChanges /\ changes' = changes + 1
    /\ \/ procedure' \in Procedures \ {procedure} /\ UNCHANGED <<source, baseline>>
       \/ ~baseline /\ baseline' = TRUE /\ UNCHANGED <<source, procedure>>
       \/ /\ \E p \in Procedures : source[p] # None /\ source' \in {[source EXCEPT ![p] = t] : t \in {None, "other"}}
          /\ UNCHANGED <<procedure, baseline>>
    /\ UNCHANGED <<registry, known, call, lone, calls, crashes>> /\ Ghosts

Next ==
    \/ \E g \in Gates : \/ \E s \in Sources, a \in Approvals, at \in Times : Evaluate(g, s, a, at)
                        \/ WriteSource(g) \/ FindRecord(g) \/ AppendRecord(g) \/ Bind(g) \/ Sandbox(g)
                        \/ ReadRegistry(g) \/ WriteRegistry(g) \/ Crash(g)
    \/ Run \/ Reload \/ Change

Spec == Init /\ [][Next]_vars

(***************************************************************************)
(* Properties.                                                             *)

\* Whatever gates overlap, overwrite each other's registry and die: only what
\* passed the sandbox with a human's approval is ever active or run.
OnlyEarnedRun ==
    /\ ran \subseteq earned
    /\ \A i \in DOMAIN registry.records : registry.records[i].status = "active" => registry.records[i].src \in earned

\* While evaluations do not overlap, and none repeats that of the active
\* executor to the time it is decided at, an entry that had an executor keeps
\* one, through every crash in the middle of a swap.
SwapsLeaveOne == lone /\ served # None => With("active") # {}

\* Once such evaluations are over or dead, the runtime runs the executor that
\* was activated last, or the doctor tells why not; but for a source whose text
\* was changed, which only the runtime sees.
DoctorTells ==
    lone /\ (\A g \in Gates : call[g].pc = "idle") =>
        \/ Unreadable \/ Doubled \/ SourceMissing \/ SpecStale \/ ActiveFor = None
        \/ source[procedure] = "other"
        \/ ActiveFor.src = served /\ ActiveFor.src = source[procedure]
=============================================================================
