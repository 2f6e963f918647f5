--------------------------- MODULE ScaffoldCampaign ---------------------------
(***************************************************************************)
(* The scaffold-H campaign (evals/h_campaign.py): a frozen specification   *)
(* runs its development, validation and holdout cases in that order, each  *)
(* split gated on the one before.  The holdout may be opened once ever:    *)
(* its slot is claimed in a create-only ledger before the file is read.    *)
(* What a run leaves on disk is create-only too, and verify_campaign       *)
(* rederives its verdict from there without calling a model.               *)
(*                                                                         *)
(* Several runs of one specification share the ledger and may share an     *)
(* evidence root; a process may die between any two writes, and any        *)
(* exception ends in the one handler that accounts for a burned slot.      *)
(***************************************************************************)
EXTENDS Integers, FiniteSets, SequencesExt

CONSTANTS
    Runs, NoRun,
    Roots,        \* evidence roots a run may be given
    Cases,        \* of the frozen specification
    Selected,     \* its preregistered development cases, in the order of their rows
    Reps,         \* repetitions of a case
    Trials,       \* what executing the cases of one split may yield
    TokenLimit,
    MaxCrashes    \* bound: processes that die

Cells == <<"no_external_memory", "base_scaffold", "optimized_scaffold">>
Views == {c.view : c \in Cases}
Of(s) == {c \in Cases : c.split = s}
Upto(s) == {"development"} \cup (IF s = "development" THEN {} ELSE {"validation"})
                           \cup (IF s = "holdout" THEN {"holdout"} ELSE {})

\* What CampaignSpec's validator lets through, of the axes kept here.
WellFormedSpec ==
    /\ \A c \in Cases : c.split \in Upto("holdout")
    /\ \A c \in Cases : c.target => c.split = "validation"
    /\ \E c \in Cases : c.target
    /\ \A v \in Views, s \in Upto("holdout") :
          \E c \in Of(s) : c.view = v /\ c.mandatory
    /\ Reps # {}
    /\ Selected # <<>> /\ ToSet(Selected) \subseteq Of("development")

\* A trial: the output of every case, cell and repetition of a split, whether
\* the optimized advice differs from the base advice, and tokens per cell.
\* The cell without memory enters no gate: its outputs are left out.
IsTrial(t) ==
    /\ t.split \in Upto("holdout") /\ t.bearing \in BOOLEAN /\ t.tokens \in Nat
    /\ \A cell \in {"base_scaffold", "optimized_scaffold"}, c \in Of(t.split), i \in Reps :
          t.out[cell][c.id][i] \in {"expected", "other", "forbidden"}

Nothing == [tokens |-> 0]   \* a record, artifact or trial that is not there

ASSUME ScaffoldCampaignAssumption ==
    /\ WellFormedSpec /\ NoRun \notin Runs
    /\ Nothing \notin Trials /\ \A t \in Trials : IsTrial(t)
    /\ TokenLimit \in Nat /\ MaxCrashes \in Nat

VARIABLES
    ledger,   \* the run that claimed the holdout slot
    opened,   \* history: the runs that read the holdout file
    disk,     \* the evidence roots
    pc,       \* where each run is, one of Pcs
    run,      \* its local state
    crashes

vars == <<ledger, opened, disk, pc, run, crashes>>

Pcs == {"idle", "execute", "report", "gate", "claim", "open", "protect", "evidence",
        "result", "manifest", "done", "raised", "crashed"}

NewRun == [split |-> "development", root |-> NoRun, before |-> FALSE,
           rows |-> [s \in Upto("holdout") |-> Nothing], done |-> 0, result |-> Nothing]
NewRoot == [reports |-> {}, protected |-> "none", evidence |-> Nothing,
            result |-> Nothing, manifest |-> Nothing, aborted |-> NoRun]

-----------------------------------------------------------------------------
\* The gates, as functions of the rows.

\* The deterministic verifier: equals, contains, one_of, minus forbidden parts.
Verify(output) == IF output = "expected" THEN "pass" ELSE "fail"
Verdict(t, cell, c, i) == Verify(t.out[cell][c.id][i])
All(t, cell, c, v) == \A i \in Reps : Verdict(t, cell, c, i) = v

Spent(rows) == rows["development"].tokens + rows["validation"].tokens + rows["holdout"].tokens

Improved(t, c) == All(t, "base_scaffold", c, "fail") /\ All(t, "optimized_scaffold", c, "pass")

MandatoryRegression(t) ==
    \E c \in Of(t.split) : c.mandatory /\ ~All(t, "optimized_scaffold", c, "pass")

\* The selection rule, case by case; it raises at the first improvement that
\* is not load-bearing.
SelectionHolds(t) == \A c \in ToSet(Selected) : Improved(t, c)
NotLoadBearing(t) == Improved(t, Selected[1]) /\ ~t.bearing
DevelopmentEligible(t) == SelectionHolds(t) /\ t.bearing /\ ~MandatoryRegression(t)

\* A regression against base on a mandatory case is a failure of it as well.
ApprovedPairs(t) == {c \in Of("validation") : c.target /\ Improved(t, c) /\ t.bearing}
ValidationFails(t) == MandatoryRegression(t) \/ ApprovedPairs(t) = {}

\* The protected result, from the reports: a case fails if any attempt failed.
CaseVerdict(t, cell, c) == IF All(t, cell, c, "pass") THEN "pass" ELSE "fail"
DerivedStatus(t) ==
    LET Moves(c, from, to) == /\ CaseVerdict(t, "base_scaffold", c) = from
                              /\ CaseVerdict(t, "optimized_scaffold", c) = to
        improved == {c \in Of("validation") : c.view = "approved_target" /\ Moves(c, "fail", "pass")}
        regressed == {c \in Of("validation") : c.mandatory /\ Moves(c, "pass", "fail")}
    IN IF improved # {} /\ regressed = {} THEN "eligible" ELSE "ineligible"

Early(phase) == [phase |-> phase, status |-> "ineligible", protected |-> FALSE]
Derived(rows) == [phase |-> "holdout", status |-> DerivedStatus(rows["validation"]), protected |-> TRUE]

-----------------------------------------------------------------------------
\* A run.

Running(r) == pc[r] \notin {"idle", "done", "raised", "crashed"}
Root(r) == run[r].root
On(r, f) == disk' = [disk EXCEPT ![Root(r)] = f]
At(r, to) == pc' = [pc EXCEPT ![r] = to]
Go(r, to) == At(r, to) /\ run' = run

\* The handler of every exception: a slot burned since the run began gets an
\* aborted receipt, once, in the run's own root.
Raise(r) ==
    /\ Go(r, "raised")
    /\ IF ~run[r].before /\ ledger # NoRun /\ disk[Root(r)].aborted = NoRun
       THEN On(r, [disk[Root(r)] EXCEPT !.aborted = r])
       ELSE UNCHANGED disk
    /\ UNCHANGED <<ledger, opened, crashes>>

Init ==
    /\ ledger = NoRun /\ opened = {} /\ crashes = 0
    /\ disk = [x \in Roots |-> NewRoot]
    /\ pc = [r \in Runs |-> "idle"] /\ run = [r \in Runs |-> NewRun]

Start(r, root) ==
    /\ pc[r] = "idle"
    /\ At(r, "execute")
    /\ run' = [run EXCEPT ![r].root = root, ![r].before = ledger # NoRun]
    /\ UNCHANGED <<ledger, opened, disk, crashes>>

\* The cells of one split, attempt by attempt; nothing is persisted yet.
Execute(r) ==
    /\ pc[r] = "execute"
    /\ \E t \in {u \in Trials : u.split = run[r].split} :
          LET rows == [run[r].rows EXCEPT ![t.split] = t] IN
          IF Spent(rows) > TokenLimit THEN Raise(r)
          ELSE /\ At(r, "report") /\ run' = [run EXCEPT ![r].rows = rows, ![r].done = 0]
               /\ UNCHANGED <<ledger, opened, disk, crashes>>

\* A package, a runner, a result or its secrets break the contract.
AttemptFails(r) == pc[r] \in {"execute", "open"} /\ Raise(r)

\* The runtime drifts from its attestation: the guard runs around every
\* attempt and before every durable write.
GuardFails(r) ==
    pc[r] \in {"execute", "report", "protect", "evidence", "result", "manifest"} /\ Raise(r)

\* The report of a split and a cell, with its cases as the trial has them.
Report(s, cell, t) == [split |-> s, cell |-> cell, trial |-> t]
Stored(d, s, cell) == \E p \in d.reports : p.split = s /\ p.cell = cell

\* Mutant: a report that is there already is replaced.
ReplaceReports(r) ==
    LET s == run[r].split  cell == Cells[run[r].done + 1]  d == disk[Root(r)] IN
    /\ pc[r] = "report"
    /\ On(r, [d EXCEPT !.reports = {p \in @ : p.split # s \/ p.cell # cell}
                                    \cup {Report(s, cell, run[r].rows[s])}])
    /\ At(r, IF run[r].done = 2 THEN "gate" ELSE "report")
    /\ run' = [run EXCEPT ![r].done = @ + 1]
    /\ UNCHANGED <<ledger, opened, crashes>>

\* The reports of the next cell, after all cells have run; never overwritten.
WriteReports(r) ==
    LET s == run[r].split  cell == Cells[run[r].done + 1]  d == disk[Root(r)] IN
    /\ pc[r] = "report"
    /\ IF Stored(d, s, cell) THEN Raise(r)
       ELSE /\ On(r, [d EXCEPT !.reports = @ \cup {Report(s, cell, run[r].rows[s])}])
            /\ At(r, IF run[r].done = 2 THEN "gate" ELSE "report")
            /\ run' = [run EXCEPT ![r].done = @ + 1]
            /\ UNCHANGED <<ledger, opened, crashes>>

Onward(r, to, s) == At(r, to) /\ run' = [run EXCEPT ![r].split = s]
Conclude(r, result) == At(r, "evidence") /\ run' = [run EXCEPT ![r].result = result]
Quiet == UNCHANGED <<ledger, opened, disk, crashes>>

DevelopmentGate(r) ==
    LET t == run[r].rows["development"] IN
    /\ pc[r] = "gate" /\ run[r].split = "development"
    /\ \/ NotLoadBearing(t) /\ Raise(r)
       \/ ~NotLoadBearing(t) /\ ~DevelopmentEligible(t) /\ Conclude(r, Early("development")) /\ Quiet
       \/ DevelopmentEligible(t) /\ Onward(r, "execute", "validation") /\ Quiet

ValidationGate(r) ==
    LET t == run[r].rows["validation"] IN
    /\ pc[r] = "gate" /\ run[r].split = "validation" /\ Quiet
    /\ \/ ValidationFails(t) /\ Conclude(r, Early("validation"))
       \/ ~ValidationFails(t) /\ Onward(r, "claim", "holdout")

\* Mutant: the slot is looked up but no receipt is written.
ClaimUnwritten(r) ==
    /\ pc[r] = "claim"
    /\ \/ ledger # NoRun /\ Raise(r)
       \/ ledger = NoRun /\ Go(r, "open") /\ UNCHANGED <<ledger, opened, disk, crashes>>

\* HoldoutConsumptionLedger.consume: O_EXCL on the key of the specification.
Claim(r) ==
    /\ pc[r] = "claim"
    /\ \/ ledger # NoRun /\ Raise(r)
       \/ /\ ledger = NoRun /\ ledger' = r
          /\ Go(r, "open") /\ UNCHANGED <<opened, disk, crashes>>

OpenHoldout(r) ==
    /\ pc[r] = "open" /\ opened' = opened \cup {r}
    /\ Go(r, "execute") /\ UNCHANGED <<ledger, disk, crashes>>

HoldoutGate(r) ==
    LET t == run[r].rows["holdout"] IN
    /\ pc[r] = "gate" /\ run[r].split = "holdout" /\ Quiet
    /\ \/ MandatoryRegression(t) /\ Conclude(r, Early("holdout"))
       \/ ~MandatoryRegression(t) /\ Go(r, "protect")

\* The protected result, rederived and created once, before the terminal files.
\* It is refused unless the stored reports are the ones the rows claim.
Resolved(d, t) == \A i \in 1 .. 3 : Report(t.split, Cells[i], t) \in d.reports
Rederived(d, t) == IF Resolved(d, t) THEN DerivedStatus(t) ELSE "refused"
Protect(r) ==
    LET d == disk[Root(r)]  status == Rederived(d, run[r].rows["validation"]) IN
    /\ pc[r] = "protect"
    /\ IF d.protected # "none" \/ status = "refused" THEN Raise(r)
       ELSE /\ On(r, [d EXCEPT !.protected = status])
            /\ Conclude(r, Derived(run[r].rows))
            /\ UNCHANGED <<ledger, opened, crashes>>

\* evidence.json, result.json, manifest.json: created in this order.
Evidence(r) == [rows |-> run[r].rows, key |-> run[r].result.phase = "holdout",
                protected |-> run[r].result.protected]
Manifest(r) ==
    [evidence |-> Evidence(r), result |-> run[r].result,
     reports |-> {Report(s, Cells[i], run[r].rows[s]) :
                     s \in Upto(run[r].result.phase), i \in 1 .. 3}]

WriteEvidence(r) ==
    /\ pc[r] = "evidence"
    /\ IF disk[Root(r)].evidence # Nothing THEN Raise(r)
       ELSE /\ On(r, [disk[Root(r)] EXCEPT !.evidence = Evidence(r)])
            /\ Go(r, "result") /\ UNCHANGED <<ledger, opened, crashes>>
WriteResult(r) ==
    /\ pc[r] = "result"
    /\ IF disk[Root(r)].result # Nothing THEN Raise(r)
       ELSE /\ On(r, [disk[Root(r)] EXCEPT !.result = run[r].result])
            /\ Go(r, "manifest") /\ UNCHANGED <<ledger, opened, crashes>>
WriteManifest(r) ==
    /\ pc[r] = "manifest"
    /\ IF disk[Root(r)].manifest # Nothing THEN Raise(r)
       ELSE /\ On(r, [disk[Root(r)] EXCEPT !.manifest = Manifest(r)])
            /\ Go(r, "done") /\ UNCHANGED <<ledger, opened, crashes>>

\* The process dies: no handler runs, what is on disk stays.
Crash(r) ==
    /\ Running(r) /\ crashes < MaxCrashes /\ crashes' = crashes + 1
    /\ Go(r, "crashed") /\ UNCHANGED <<ledger, opened, disk>>

Step(r) ==
    \/ Execute(r) \/ WriteReports(r) \/ DevelopmentGate(r) \/ ValidationGate(r) \/ Claim(r)
    \/ OpenHoldout(r) \/ HoldoutGate(r) \/ Protect(r)
    \/ WriteEvidence(r) \/ WriteResult(r) \/ WriteManifest(r)

Next ==
    \E r \in Runs : \/ \E root \in Roots : Start(r, root)
                    \/ Step(r) \/ AttemptFails(r) \/ GuardFails(r) \/ Crash(r)

Spec == Init /\ [][Next]_vars

-----------------------------------------------------------------------------
\* verify_campaign.

\* The artifacts present are the ones a terminal of this phase consists of,
\* bound to one another by digest.
PhaseExact(d) ==
    LET m == d.manifest  phase == d.result.phase
        eligible == phase = "holdout" /\ d.result.status = "eligible" IN
    /\ m.evidence = d.evidence /\ m.result = d.result
    /\ m.evidence.protected = eligible /\ m.result.protected = eligible
    /\ d.evidence.key = (phase = "holdout")

\* Every report is bound, none is left over.
ReportsBound(d) ==
    /\ d.manifest.reports = d.reports
    /\ {<<p.split, p.cell>> : p \in d.reports} = Upto(d.result.phase) \X ToSet(Cells)

\* The rows cover the frozen cases of the splits run, and no other.
RowsBound(d) ==
    \A s \in Upto("holdout") : (d.evidence.rows[s] # Nothing) <=> s \in Upto(d.result.phase)

\* Outputs, receipts and advice are those of the reports, within the budget
\* summed over all rows.
RowsAgree(d) ==
    /\ \A p \in d.reports : p.trial = d.evidence.rows[p.split]
    /\ Spent(d.evidence.rows) <= TokenLimit

\* The result is the one its gates give, each earlier gate having been passed.
Rederives(d) ==
    LET rows == d.evidence.rows  phase == d.result.phase  early == d.result = Early(phase) IN
    /\ ~NotLoadBearing(rows["development"])
    /\ IF phase = "development"
       THEN early /\ ~DevelopmentEligible(rows["development"])
       ELSE /\ DevelopmentEligible(rows["development"])
            /\ IF phase = "validation"
               THEN early /\ ValidationFails(rows["validation"])
               ELSE /\ ~ValidationFails(rows["validation"])
                    /\ IF MandatoryRegression(rows["holdout"])
                       THEN early /\ d.protected = "none"
                       ELSE /\ d.protected = Rederived(d, rows["validation"])
                            /\ d.result = Derived(rows)

Reloads(root) ==
    LET d == disk[root] IN
    /\ Nothing \notin {d.manifest, d.result, d.evidence}
    /\ PhaseExact(d) /\ ReportsBound(d) /\ RowsBound(d) /\ RowsAgree(d) /\ Rederives(d)

-----------------------------------------------------------------------------
\* The sealed holdout is opened by one run at most, whatever runs beside it,
\* dies or starts over, and by none before its slot is on the ledger
\* (HoldoutConsumptionLedger: "claimed before the sealed file is opened").
HoldoutReadOnce == opened \subseteq {ledger} \ {NoRun}

\* Whatever mix of finished, failed and dead runs a root holds, a reload that
\* accepts it as eligible accepts the rows of the one run that opened the
\* holdout, and those show what the campaign asks: the preregistered cases
\* went from fail to pass, so did an approved target, and the optimized
\* scaffold failed no mandatory case of any split.
AcceptedIsEarned ==
    \A root \in Roots :
       Reloads(root) /\ disk[root].result.status = "eligible" =>
          /\ opened = {ledger} /\ run[ledger].root = root
          /\ LET rows == run[ledger].rows
                 out(c, cell, i) == rows[c.split].out[cell][c.id][i]
                 rescued(c) == \A i \in Reps : /\ out(c, "base_scaffold", i) # "expected"
                                               /\ out(c, "optimized_scaffold", i) = "expected"
             IN /\ \A c \in ToSet(Selected) : rescued(c)
                /\ \E c \in Of("validation") : c.target /\ rescued(c)
                /\ \A c \in Cases, i \in Reps :
                      c.mandatory => out(c, "optimized_scaffold", i) = "expected"

\* A run that returns its terminal leaves a root that reloads to it, though a
\* failed neighbour may have written there first (the module's promise of "a
\* model-call-free reload path that reconstructs the protected verdict").
FinishedReloads ==
    \A r \in Runs : pc[r] = "done" =>
       Reloads(run[r].root) /\ disk[run[r].root].result = run[r].result

\* What a campaign shows is earned, and what it earned can be shown.
EvidenceIsEarned == AcceptedIsEarned /\ FinishedReloads

=============================================================================
