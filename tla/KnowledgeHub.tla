---------------------------- MODULE KnowledgeHub ----------------------------
(***************************************************************************)
(* The knowledge hub of a discovery campaign (discovery/knowledge.py) and  *)
(* the issuance of assignments it trusts (discovery/supervisor.py).  A     *)
(* worker writes beside its private notes only under an assignment that    *)
(* the supervisor has issued, and an assignment is issued when its         *)
(* acceptance is durable.  Anybody can mint an assignment with a good      *)
(* hash; a hub lives as long as the supervisor whose verifier it was given.*)
(***************************************************************************)
EXTENDS Integers, FiniteSets, Sequences

CONSTANTS
    Assignments,     \* [attempt, lineage]: what a worker may present
    Creators, Ids, None,
    MaxAttempts,     \* of the campaign
    MaxRecoveries    \* bound

VARIABLES
    journal,    \* durable rows: [event, assignment]
    submitted,  \* _assignments: accepted for validation
    issued,     \* _issued_assignments
    poisoned,   \* a write of the journal failed in this process
    hub,        \* _artifacts: [id, scope, creator, lineage, by, supersedes]
    seen,       \* use receipts of the last call: [artifact, by]
    recoveries

supervisor == <<journal, submitted, issued, poisoned>>
vars == <<supervisor, hub, seen, recoveries>>

Init ==
    /\ journal = <<>> /\ submitted = {} /\ issued = {} /\ poisoned = FALSE
    /\ hub = {} /\ seen = {} /\ recoveries = 0

-----------------------------------------------------------------------------
(* The supervisor.                                                         *)

Intent(a) == [event |-> "submit_intent", assignment |-> a]
Outcome(a) == [event |-> "accepted", assignment |-> a]

MaySubmit(a) ==
    /\ ~poisoned
    /\ \A s \in submitted : s.attempt # a.attempt
    /\ Cardinality(submitted) < MaxAttempts

Submit(a) ==
    /\ MaySubmit(a)
    /\ journal' = journal \o <<Intent(a), Outcome(a)>>
    /\ submitted' = submitted \cup {a} /\ issued' = issued \cup {a}
    /\ seen' = {} /\ UNCHANGED <<poisoned, hub, recoveries>>

\* A write that fails may have reached the disk; this process is of no more use.
SubmitFails(a) ==
    /\ MaySubmit(a) /\ poisoned' = TRUE
    /\ \/ journal' \in {journal, Append(journal, Intent(a))} /\ UNCHANGED submitted
       \/ /\ journal' \in {Append(journal, Intent(a)), journal \o <<Intent(a), Outcome(a)>>}
          /\ submitted' = submitted \cup {a}
    /\ seen' = {} /\ UNCHANGED <<issued, hub, recoveries>>

RowsOf(event) == {journal[i].assignment : i \in {j \in DOMAIN journal : journal[j].event = event}}

\* Mutant: an intent that lasted is taken for an acceptance.
ReplayIssuedAtIntent == RowsOf("submit_intent")

ReplayIssued == RowsOf("accepted")

\* A new process: the journal is replayed, and the hub is new.
Recover ==
    /\ recoveries < MaxRecoveries /\ recoveries' = recoveries + 1
    /\ submitted' = RowsOf("submit_intent") /\ issued' = ReplayIssued /\ poisoned' = FALSE
    /\ hub' = {} /\ seen' = {}
    /\ UNCHANGED journal

\* make_issuance_verifier: raises once the supervisor is poisoned.
Verified(by) == by # None /\ ~poisoned /\ by \in issued

-----------------------------------------------------------------------------
(* The hub.                                                                *)

\* Mutant: the lineage a requester says it has.
LineageClaimed(lineage, by) == TRUE

LineageProven(lineage, by) == by.lineage = lineage

\* _visible, to a requester of the campaign.  What is written for an island is
\* seen by nobody, and left out.
Visible(artifact, creator, lineage, by) ==
    \/ artifact.scope = "private" /\ artifact.creator = creator
    \/ artifact.scope = "campaign" /\ Verified(by)
    \/ /\ artifact.scope = "lineage" /\ Verified(by)
       /\ lineage # None /\ LineageProven(lineage, by) /\ artifact.lineage = lineage

\* Beyond private scope a write, and what it may supersede, rests on the
\* assignment it shows; a private write is judged as shown none.
Proof(scope, by) == IF scope = "private" THEN None ELSE by

MayAppend(id, scope, creator, lineage, by, supersedes) ==
    /\ \A artifact \in hub : artifact.id # id
    /\ by = Proof(scope, by)
    /\ scope # "private" => Verified(by)
    /\ scope = "lineage" => by.lineage = lineage
    /\ \A prior \in supersedes : Visible(prior, creator, lineage, by)

Artifact(id, scope, creator, lineage, by, supersedes) ==
    [id |-> id, scope |-> scope, creator |-> creator, lineage |-> lineage, by |-> by,
     supersedes |-> {prior.id : prior \in supersedes}]

\* Published when its receipt is made: a clock or a source of ids that raises
\* leaves nothing.
AppendArtifact(id, scope, creator, lineage, by, supersedes) ==
    /\ MayAppend(id, scope, creator, lineage, by, supersedes)
    /\ hub' = hub \cup {Artifact(id, scope, creator, lineage, by, supersedes)}
    /\ seen' = {} /\ UNCHANGED <<supervisor, recoveries>>

\* read, and query of what is visible.
Use(artifacts, creator, lineage, by) ==
    /\ \A artifact \in artifacts : Visible(artifact, creator, lineage, by)
    /\ seen' = {[artifact |-> a, by |-> by] : a \in artifacts}
    /\ UNCHANGED <<supervisor, hub, recoveries>>

Claimable == {a.lineage : a \in Assignments} \cup {None}
Scopes == {"private", "lineage", "campaign"}

Next ==
    \/ \E a \in Assignments : Submit(a) \/ SubmitFails(a)
    \/ Recover
    \/ \E creator \in Creators, lineage \in Claimable, by \in Assignments \cup {None} :
          \/ \E id \in Ids, scope \in Scopes, supersedes \in {{}} \cup {{prior} : prior \in hub} :
                AppendArtifact(id, scope, creator, lineage, by, supersedes)
          \/ \E artifact \in hub : Use({artifact}, creator, lineage, by)
          \/ Use({artifact \in hub : Visible(artifact, creator, lineage, by)}, creator, lineage, by)

Spec == Init /\ [][Next]_vars

-----------------------------------------------------------------------------
(* Properties.                                                             *)

\* What a hub shows beyond its writer was written under an assignment whose
\* acceptance is in the journal, also after a submission that died half way
\* was replayed.
WritesAreIssued ==
    \A artifact \in hub : artifact.scope \in {"lineage", "campaign"} =>
        \E i \in DOMAIN journal : journal[i] = Outcome(artifact.by)

\* An artifact of a lineage is read, and superseded, only under an assignment
\* issued to that lineage, whatever lineage the caller says it has.
LineagesAreKeptApart ==
    \A artifact \in {x \in hub : x.scope = "lineage"} :
        /\ \A use \in seen : use.artifact = artifact => use.by.lineage = artifact.lineage
        /\ \A next \in hub : artifact.id \in next.supersedes => next.by.lineage = artifact.lineage
=============================================================================
