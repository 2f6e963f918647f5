---------------------------- MODULE ArtifactStore ----------------------------
(***************************************************************************)
(* The two publishing stores, BlueprintStore (blueprints/store.py) and     *)
(* EvalSuiteStore (evals/store.py): one catalog entry, one draft under a   *)
(* revision, immutable numbered versions, and a publish intent that makes  *)
(* the four writes of a publication one transaction.                       *)
(*                                                                         *)
(* Every change of an artifact runs under its file lock, write by write; a *)
(* caller may die between two of them, which frees the lock and leaves the *)
(* files.  Reads take no lock, and what a caller has read it may use later.*)
(***************************************************************************)
EXTENDS Integers

CONSTANTS
    Ids, Clients, Contents, None,
    MaxVersion, MaxRevision, MaxDrafts, MaxDeaths   \* bounds

VARIABLES
    catalog,    \* per id: [latest, archived], or None
    draft,      \* per id: [revision, content, base, source, birth], or None
    intent,     \* per id: [revision, version, content, source, birth], or None
    versions,   \* per id and number: [content, source, birth], or None
    lock,       \* per id: the client in its critical section
    client,     \* what each caller is doing and the draft it has seen
    births,     \* history: drafts created; birth tells them apart
    deaths

files == <<catalog, draft, intent, versions>>
vars == <<files, lock, client, births, deaths>>

Idle(seen) == [pc |-> "idle", id |-> None, seen |-> seen, held |-> None]

Init ==
    /\ catalog = [x \in Ids |-> None] /\ draft = [x \in Ids |-> None]
    /\ intent = [x \in Ids |-> None]
    /\ versions = [x \in Ids |-> [v \in 1 .. MaxVersion |-> None]]
    /\ lock = [x \in Ids |-> None]
    /\ client = [c \in Clients |-> Idle(None)]
    /\ births = 0 /\ deaths = 0

Active(id) == catalog[id] # None /\ ~catalog[id].archived
IsVersion(ref) == ref.version \in 1 .. MaxVersion /\ versions[ref.id][ref.version] # None
Refs == [id : Ids, version : 1 .. MaxVersion]

\* What the files of an artifact hold, absent ones being None.
Sources == {None} \cup Refs
Births == 1 .. MaxDrafts
Entries == [latest : 0 .. MaxVersion, archived : BOOLEAN]
Drafts == [revision : Nat \ {0}, content : Contents, base : {None} \cup (1 .. MaxVersion),
           source : Sources, birth : Births]
Intents == [revision : Nat \ {0}, version : 1 .. MaxVersion, content : Contents,
            source : Sources, birth : Births]
Versions == [content : Contents, source : Sources, birth : Births]

\* c enters the critical section of id, and leaves it.
Enters(c, id) == client[c].pc = "idle" /\ lock[id] = None
Holds(c, id, pc, held) ==
    /\ lock' = [lock EXCEPT ![id] = c]
    /\ client' = [client EXCEPT ![c].pc = pc, ![c].id = id, ![c].held = held]
Leaves(c, id, seen) ==
    /\ lock' = [lock EXCEPT ![id] = None]
    /\ client' = [client EXCEPT ![c] = Idle(seen)]

-----------------------------------------------------------------------------
\* Reads: a draft, as an editor does, and an active version, as a fork does.
ReadDraft(c, id) ==
    /\ client[c].pc = "idle" /\ draft[id] # None
    /\ client' = [client EXCEPT ![c].seen = [id |-> id, draft |-> draft[id]]]
    /\ UNCHANGED <<files, lock, births, deaths>>

ReadActive(c, ref) ==
    /\ Enters(c, ref.id) /\ Active(ref.id) /\ IsVersion(ref)
    /\ client' = [client EXCEPT ![c].pc = "fork", ![c].held = ref]
    /\ UNCHANGED <<files, lock, births, deaths>>

-----------------------------------------------------------------------------
\* _create_draft: revision 1, over a version of its own or a fork's source.
NewDraft(content, base, source) ==
    [revision |-> 1, content |-> content, base |-> base, source |-> source, birth |-> births + 1]

MayCreate(id) == intent[id] = None /\ draft[id] = None /\ (catalog[id] # None => Active(id))

\* Catalog first when there is none; the draft is the next write.  A death
\* between the two leaves a catalog entry that a later call fills.
CreateDraft(c, id, d, next) ==
    /\ births < MaxDrafts /\ births' = births + 1 /\ MayCreate(id)
    /\ IF catalog[id] = None
       THEN /\ catalog' = [catalog EXCEPT ![id] = [latest |-> 0, archived |-> FALSE]]
            /\ Holds(c, id, "create", d) /\ UNCHANGED draft
       ELSE /\ draft' = [draft EXCEPT ![id] = d]
            /\ client' = [client EXCEPT ![c] = [next EXCEPT !.seen = [id |-> id, draft |-> d]]]
            /\ UNCHANGED <<catalog, lock>>
    /\ UNCHANGED <<intent, versions, deaths>>

Create(c, id, content) ==
    Enters(c, id) /\ CreateDraft(c, id, NewDraft(content, None, None), Idle(None))

CreateFromVersion(c, ref) ==
    LET from == versions[ref.id][ref.version] IN
    /\ Enters(c, ref.id) /\ IsVersion(ref) /\ catalog[ref.id] # None
    /\ CreateDraft(c, ref.id, NewDraft(from.content, ref.version, from.source), Idle(None))

\* fork_snapshot: the target must be new; lineage is the snapshot's reference.
Fork(c, id) ==
    LET ref == client[c].held IN
    /\ client[c].pc = "fork" /\ lock[id] = None /\ catalog[id] = None
    /\ CreateDraft(c, id, NewDraft(versions[ref.id][ref.version].content, None, ref), Idle(None))

FinishCreate(c) ==
    LET id == client[c].id IN
    /\ client[c].pc = "create"
    /\ draft' = [draft EXCEPT ![id] = client[c].held]
    /\ Leaves(c, id, [id |-> id, draft |-> client[c].held])
    /\ UNCHANGED <<catalog, intent, versions, births, deaths>>

-----------------------------------------------------------------------------
\* update_draft, by the revision its caller has read.  Lineage is kept.

\* Mutant: a draft may be edited while its publication is pending.
MaySaveAnytime(c, id) ==
    /\ lock[id] = None /\ Active(id)
    /\ draft[id] # None /\ draft[id].revision = client[c].seen.draft.revision

MaySave(c, id) ==
    /\ lock[id] = None /\ intent[id] = None /\ Active(id)
    /\ draft[id] # None /\ draft[id].revision = client[c].seen.draft.revision

Save(c, content) ==
    LET id == client[c].seen.id
        d == [draft[id] EXCEPT !.revision = @ + 1, !.content = content] IN
    /\ client[c].pc \in {"idle", "tune"} /\ client[c].seen # None
    /\ client[c].pc = "tune" => content = client[c].held
    /\ MaySave(c, id) /\ draft[id].revision < MaxRevision
    /\ draft' = [draft EXCEPT ![id] = d]
    /\ client' = [client EXCEPT ![c] = Idle([id |-> id, draft |-> d])]
    /\ UNCHANGED <<catalog, intent, versions, lock, births, deaths>>

\* A tuned content that meets another revision is given up.
TuneConflicts(c) ==
    /\ client[c].pc = "tune" /\ lock[client[c].seen.id] = None
    /\ ~MaySave(c, client[c].seen.id)
    /\ client' = [client EXCEPT ![c] = Idle(@.seen)]
    /\ UNCHANGED <<files, lock, births, deaths>>

\* apply_tuning_proposal_to_draft: the patched draft of the frozen version, or
\* a new one of it, is saved in a second critical section.
Tune(c, ref, content) ==
    LET id == ref.id  from == versions[id][ref.version]  seen == client[c].seen
        tuning == [Idle(None) EXCEPT !.pc = "tune", !.held = content] IN
    /\ client[c].pc = "idle" /\ IsVersion(ref)
    /\ \/ /\ draft[id] = None /\ lock[id] = None /\ catalog[id] # None
          /\ CreateDraft(c, id, NewDraft(from.content, ref.version, from.source), tuning)
       \/ /\ draft[id] # None /\ draft[id].base = ref.version
          /\ seen # None /\ seen.id = id /\ seen.draft.revision = draft[id].revision
          /\ client' = [client EXCEPT ![c] = [tuning EXCEPT !.seen = [id |-> id, draft |-> draft[id]]]]
          /\ UNCHANGED <<files, lock, births, deaths>>

\* delete_draft; an artifact without versions goes with its draft.  A second
\* call finishes what a dead one began.
Delete(c, id) ==
    /\ Enters(c, id) /\ Active(id) /\ intent[id] = None
    /\ draft[id] # None \/ catalog[id].latest = 0
    /\ IF draft[id] # None
       THEN draft' = [draft EXCEPT ![id] = None] /\ UNCHANGED catalog
            /\ IF catalog[id].latest = 0 THEN Holds(c, id, "delete", None)
                                         ELSE UNCHANGED <<lock, client>>
       ELSE catalog' = [catalog EXCEPT ![id] = None] /\ UNCHANGED <<draft, lock, client>>
    /\ UNCHANGED <<intent, versions, births, deaths>>

FinishDelete(c) ==
    LET id == client[c].id IN
    /\ client[c].pc = "delete"
    /\ catalog' = [catalog EXCEPT ![id] = None]
    /\ Leaves(c, id, client[c].seen)
    /\ UNCHANGED <<draft, intent, versions, births, deaths>>

Archive(c, id) ==
    /\ Enters(c, id) /\ catalog[id] # None /\ catalog[id].latest # 0 /\ ~catalog[id].archived
    /\ catalog' = [catalog EXCEPT ![id].archived = TRUE]
    /\ UNCHANGED <<draft, intent, versions, lock, client, births, deaths>>

Restore(c, id) ==
    /\ Enters(c, id) /\ catalog[id] # None /\ catalog[id].archived
    /\ catalog' = [catalog EXCEPT ![id].archived = FALSE]
    /\ UNCHANGED <<draft, intent, versions, lock, client, births, deaths>>

-----------------------------------------------------------------------------
\* publish: the intent is the first durable write.  A later call with the same
\* revision completes the one that is there.

NextVersion(id) == catalog[id].latest + 1

IntentOf(id) ==
    [revision |-> draft[id].revision, version |-> NextVersion(id),
     content |-> draft[id].content, source |-> draft[id].source, birth |-> draft[id].birth]

Publish(c) ==
    LET id == client[c].seen.id  revision == client[c].seen.draft.revision IN
    /\ client[c].seen # None /\ Enters(c, id) /\ Active(id)
    /\ \/ intent[id] # None /\ intent[id].revision = revision /\ UNCHANGED intent
       \/ /\ intent[id] = None /\ draft[id] # None /\ draft[id].revision = revision
          /\ NextVersion(id) <= MaxVersion
          /\ intent' = [intent EXCEPT ![id] = IntentOf(id)]
    /\ Holds(c, id, "version", None)
    /\ UNCHANGED <<catalog, draft, versions, births, deaths>>

Same(a, b) == a.content = b.content /\ a.source = b.source

\* The checks of _complete_publish_intent.
Completes(id) ==
    LET i == intent[id] IN
    /\ catalog[id] # None /\ catalog[id].latest \in {i.version - 1, i.version}
    /\ draft[id] # None => draft[id].revision = i.revision /\ Same(draft[id], i)
    /\ versions[id][i.version] # None => Same(versions[id][i.version], i)

WriteVersion(c) ==
    LET id == client[c].id  i == intent[id] IN
    /\ client[c].pc = "version" /\ Completes(id)
    /\ versions' = IF versions[id][i.version] # None THEN versions
                   ELSE [versions EXCEPT ![id][i.version] =
                            [content |-> i.content, source |-> i.source, birth |-> i.birth]]
    /\ client' = [client EXCEPT ![c].pc = "catalog"]
    /\ UNCHANGED <<catalog, draft, intent, lock, births, deaths>>

WriteCatalog(c) ==
    LET id == client[c].id IN
    /\ client[c].pc = "catalog"
    /\ catalog' = [catalog EXCEPT ![id].latest = intent[id].version]
    /\ client' = [client EXCEPT ![c].pc = "drop"]
    /\ UNCHANGED <<draft, intent, versions, lock, births, deaths>>

DropDraft(c) ==
    LET id == client[c].id IN
    /\ client[c].pc = "drop"
    /\ draft' = [draft EXCEPT ![id] = None]
    /\ client' = [client EXCEPT ![c].pc = "end"]
    /\ UNCHANGED <<catalog, intent, versions, lock, births, deaths>>

DropIntent(c) ==
    LET id == client[c].id IN
    /\ client[c].pc = "end"
    /\ intent' = [intent EXCEPT ![id] = None]
    /\ Leaves(c, id, client[c].seen)
    /\ UNCHANGED <<catalog, draft, versions, births, deaths>>

\* The caller dies; what its user has on screen stays.
Die(c) ==
    /\ client[c].pc # "idle" /\ deaths < MaxDeaths /\ deaths' = deaths + 1
    /\ lock' = [x \in Ids |-> IF lock[x] = c THEN None ELSE lock[x]]
    /\ client' = [client EXCEPT ![c] = Idle(@.seen)]
    /\ UNCHANGED <<files, births>>

Next ==
    \E c \in Clients :
       \/ \E id \in Ids :
             \/ ReadDraft(c, id) \/ Delete(c, id) \/ Archive(c, id) \/ Restore(c, id) \/ Fork(c, id)
             \/ \E content \in Contents : Create(c, id, content)
       \/ \E ref \in Refs :
             \/ ReadActive(c, ref) \/ CreateFromVersion(c, ref)
             \/ \E content \in Contents : Tune(c, ref, content)
       \/ \E content \in Contents : Save(c, content)
       \/ TuneConflicts(c) \/ FinishCreate(c) \/ FinishDelete(c)
       \/ Publish(c) \/ WriteVersion(c) \/ WriteCatalog(c) \/ DropDraft(c) \/ DropIntent(c)
       \/ Die(c)

Spec == Init /\ [][Next]_vars

-----------------------------------------------------------------------------
\* A pending publication can always be completed: nothing that others may do
\* before its retry (edit, delete, archive, fork, die) makes a check of
\* _complete_publish_intent fail, which would leave the artifact stuck.
PendingCanComplete == \A id \in Ids : intent[id] # None => Completes(id)

\* However often publications die and are retried, a draft becomes one
\* version at most and numbers have no gap: the versions on disk are those
\* the catalog counts, and the next one while its intent is pending.
PublishedOnce ==
    \A id \in Ids :
       LET on == {v \in 1 .. MaxVersion : versions[id][v] # None}
           latest == IF catalog[id] = None THEN 0 ELSE catalog[id].latest IN
       /\ \/ on = 1 .. latest
          \/ intent[id] # None /\ intent[id].version = latest + 1 /\ on = 1 .. latest + 1
       /\ \A v, w \in on : v # w => versions[id][v].birth # versions[id][w].birth

=============================================================================
