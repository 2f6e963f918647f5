---------------------------- MODULE MemoryBroker ----------------------------
(***************************************************************************)
(* A MemoryStore (memory/stores.py), the MemoryActionBroker in front of it *)
(* (memory/broker.py) and the runners that consult it for advice and log   *)
(* what they observed (harness/memory.py).                                 *)
(*                                                                         *)
(* One handle is open on the database.  A write is a transaction of two or *)
(* three statements; its ids come from one counter in memory, which a      *)
(* reopened store recovers from the rows.  Operators use the store itself, *)
(* beside the broker.  A text is a sequence of words, a scope a run of the *)
(* project or the whole project.                                           *)
(***************************************************************************)
EXTENDS Integers, Sequences, FiniteSetsExt

CONSTANTS
    Words, Texts,
    Scopes, Project,        \* Project: the scope without a run
    Policy,                 \* the snapshot: [scope, sensitivities, lifecycles, limit, budget, keep]
    Seeds,                  \* records an operator may commit
    Runs, None,            \* the callers of the broker
    MaxRows, MaxReopens     \* bounds

VARIABLES
    rows,       \* the records table
    indexed,    \* the FTS table: ids
    attested,   \* the mutations table: [id, target, new]
    counter,    \* _id_counter of the open handle
    txn,        \* the open transaction, or None
    run,        \* per caller of the broker: what it is doing, the ids it was given
    reopens

tables == <<rows, indexed, attested>>
vars == <<tables, counter, txn, run, reopens>>

Idle == [pc |-> "idle", advice |-> {}]

Init ==
    /\ rows = {} /\ indexed = {} /\ attested = {}
    /\ counter = 1      \* the savepoint of the migration took 0
    /\ txn = None /\ reopens = 0
    /\ run = [r \in Runs |-> Idle]

Ids == {r.id : r \in rows}
Record(id) == CHOOSE r \in rows : r.id = id

-----------------------------------------------------------------------------
(* Transactions.                                                           *)

\* commit and mutate number their record before they write it: an id, a
\* creation_seq, and the name of a savepoint or of the mutation receipt.
Numbered(fields, id) ==
    [f \in DOMAIN fields \cup {"id", "seq"} |->
        CASE f = "id" -> id [] f = "seq" -> id + 1 [] OTHER -> fields[f]]

Begin(fields, by) ==
    LET id == counter IN
    /\ txn = None /\ counter < 3 * MaxRows
    /\ counter' = counter + 3
    /\ txn' = [row |-> Numbered(fields, id), by |-> by, done |-> 0,
               receipts |-> {[id |-> id + 2, target |-> t, new |-> id] : t \in fields.supersedes}]
    /\ UNCHANGED <<tables, reopens>>

\* record, FTS row, and a supersede's mutation receipt.
Statements == 2 + Cardinality(txn.receipts)

\* Primary keys.
Collides ==
    \/ txn.row.id \in Ids
    \/ \E a \in attested, b \in txn.receipts : a.id = b.id

Statement ==
    /\ txn # None /\ txn.done < Statements /\ ~Collides
    /\ txn' = [txn EXCEPT !.done = @ + 1]
    /\ UNCHANGED <<tables, counter, run, reopens>>

\* The caller learns the outcome: a run that was logging ends.
Answered == run' = [r \in Runs |-> IF txn.by = r THEN Idle ELSE run[r]]

Commit ==
    /\ txn # None /\ txn.done = Statements
    /\ rows' = rows \cup {txn.row} /\ indexed' = indexed \cup {txn.row.id}
    /\ attested' = attested \cup txn.receipts
    /\ txn' = None /\ Answered
    /\ UNCHANGED <<counter, reopens>>

\* An error of the database rolls back; the numbers stay used.
Fails ==
    /\ txn # None /\ txn' = None /\ Answered
    /\ UNCHANGED <<tables, counter, reopens>>

\* Mutant: the counter starts at the number of records.
RecoveredByCount(n) == n = Cardinality(Ids) + 1

\* _recover_high_water_marks: past the largest id, the migration's savepoint
\* once more.
Recovered(n) == \E m \in {-1} \cup Ids : (\A id \in Ids : id <= m) /\ n = m + 2

\* The process ends, with or without an open transaction, and another opens
\* the database: receipts were in memory.
Reopen ==
    /\ reopens < MaxReopens /\ reopens' = reopens + 1
    /\ \E n \in 0 .. 3 * MaxRows + 2 : Recovered(n) /\ counter' = n
    /\ txn' = None /\ run' = [r \in Runs |-> Idle]
    /\ UNCHANGED <<tables>>

-----------------------------------------------------------------------------
(* The store's own interface, as an operator uses it.                      *)

StoreCommit(seed) == Begin(seed, None) /\ UNCHANGED run

\* Of the lifecycle states, those a write here gives a record.
Lifecycles == {"candidate", "active"}

\* mutate: everything but content and states comes from the record replaced;
\* its states are the ones given, or active.
Superseding(old, text, life, act) ==
    [scope |-> old.scope, text |-> text, sens |-> old.sens, life |-> life, act |-> act,
     sources |-> old.sources, supersedes |-> {old.id}]

StoreMutate(old, text, life, act) ==
    Begin(Superseding(old, text, life, act), None) /\ UNCHANGED run

-----------------------------------------------------------------------------
(* The broker: validation, then one operation.                             *)

\* _scope_within and _record_visible.
Covers(boundary, s) == boundary = Project \/ boundary = s
Visible(s, r) == Covers(s, r.scope)
Admitted(s) == Covers(Policy.scope, s)

\* Mutant: a source of any sensitivity may be cited.
ValidSourceAny(r, s) == Visible(s, r) /\ r.act # "tombstoned" /\ r.life \in Policy.lifecycles

ValidSource(r, s) ==
    /\ Visible(s, r) /\ r.act # "tombstoned" /\ r.life \in Policy.lifecycles
    /\ r.sens \in Policy.sensitivities

\* create_candidate, append, link, and an upsert without a target.
Create(s, text, sens, sources, by) ==
    /\ txn = None /\ Admitted(s) /\ sens \in Policy.sensitivities
    /\ \A id \in sources : ValidSource(Record(id), s)
    /\ Begin([scope |-> s, text |-> text, sens |-> sens, life |-> "candidate", act |-> "active",
              sources |-> sources, supersedes |-> {}], by)

\* revise_candidate and upsert: any visible candidate, whatever its activation.
Revise(s, old, text) ==
    /\ txn = None /\ Admitted(s) /\ Visible(s, old) /\ old.life = "candidate"
    /\ Begin(Superseding(old, text, "candidate", "active"), None)
    /\ UNCHANGED run

Compress(s, old) == Revise(s, old, SubSeq(old.text, 1, IF Len(old.text) < Policy.keep THEN Len(old.text) ELSE Policy.keep))

\* lives: the lifecycle filters of the request, in place of the snapshot's.
Matching(s, words, lives) ==
    {r \in rows :
        /\ Visible(s, r) /\ r.act = "active" /\ r.life \in lives
        /\ r.id \in indexed /\ \A w \in words : \E i \in DOMAIN r.text : r.text[i] = w
        /\ r.sens \in Policy.sensitivities}

\* Latest in a chain, among what the query found.
LatestOf(found) == {r \in found : \A o \in found : r.id \notin o.supersedes}

\* In commit order, each record that still fits, up to the limit.
Length(records) == MapThenSumSet(LAMBDA r : Len(r.text), records)
FilledFrom(found, kept) ==
    \A r \in found :
        LET before == {k \in kept : k.seq < r.seq}
        IN  r \in kept <=> /\ Cardinality(before) < Policy.limit
                          /\ Length(before) + Len(r.text) <= Policy.budget

Found(s, words, lives) == LatestOf(Matching(s, words, lives))

\* search and read for any caller of the broker; its answer is a receipt.
Returned(r, ids) ==
    /\ txn = None /\ run[r].pc = "idle"
    /\ run' = [run EXCEPT ![r].advice = ids]
    /\ UNCHANGED <<tables, counter, txn, reopens>>

\* A lifecycle request, which nobody compares with the scope of the snapshot,
\* changes no record: its receipt names a proposal that a human may review, one
\* more in a list that no operation reads (left out).
Propose(r, s, old) == Visible(s, old) /\ Returned(r, {})

Look(r, s, words, lives) ==
    LET found == Found(s, words, lives) IN
    /\ txn = None /\ Admitted(s) /\ run[r].pc = "idle"
    /\ \E kept \in SUBSET found : FilledFrom(found, kept) /\ Returned(r, {k.id : k \in kept})

\* With the filters of the request, a record of any lifecycle is read.
Read(r, s, rec) ==
    /\ Admitted(s) /\ Visible(s, rec) /\ rec.act = "active"
    /\ rec.sens \in Policy.sensitivities /\ Len(rec.text) <= Policy.budget
    /\ Returned(r, {rec.id})

-----------------------------------------------------------------------------
(* MemoryAwareRunner.run: consult, the inner run, and its observation.     *)

\* A selected record of another scope than the snapshot's, or longer than its
\* compression bound, fails the whole consultation.
Acceptable(kept) == \A k \in kept : k.scope = Policy.scope /\ Len(k.text) <= Policy.keep

Consult(r, words) ==
    LET found == Found(Policy.scope, words, Policy.lifecycles) IN
    /\ txn = None /\ run[r].pc = "idle"
    /\ \E kept \in SUBSET found :
          /\ FilledFrom(found, kept) /\ Acceptable(kept)
          /\ run' = [run EXCEPT ![r] = [pc |-> "running", advice |-> {k.id : k \in kept}]]
    /\ UNCHANGED <<tables, counter, txn, reopens>>

\* The inner runner returns; what it observed, if anything, is logged.
Unobserved(r) ==
    /\ run[r].pc = "running"
    /\ run' = [run EXCEPT ![r] = Idle]
    /\ UNCHANGED <<tables, counter, txn, reopens>>

Log(r, text) ==
    /\ run[r].pc = "running"
    /\ Create(Policy.scope, text, "internal", {}, r)
    /\ run' = [run EXCEPT ![r].pc = "logging"]

-----------------------------------------------------------------------------
Next ==
    \/ Statement \/ Commit \/ Fails \/ Reopen
    \/ \E seed \in Seeds : StoreCommit(seed)
    \/ \E old \in rows :
          \/ \E text \in Texts, life \in Lifecycles, act \in {"active", "tombstoned"} :
                StoreMutate(old, text, life, act)
          \/ \E s \in Scopes :
                \/ \E text \in Texts : Revise(s, old, text)
                \/ Compress(s, old)
                \/ \E r \in Runs : Read(r, s, old) \/ Propose(r, s, old)
    \/ \E s \in Scopes :
          \/ \E text \in Texts, sens \in Policy.sensitivities, sources \in SUBSET Ids :
                Create(s, text, sens, sources, None) /\ UNCHANGED run
          \/ \E r \in Runs, w \in Words, lives \in SUBSET Lifecycles \ {{}} : Look(r, s, {w}, lives)
    \/ \E r \in Runs :
          \/ \E w \in Words : Consult(r, {w})
          \/ Unobserved(r)
          \/ \E text \in Texts : Log(r, text)

Spec == Init /\ [][Next]_vars

-----------------------------------------------------------------------------
(* Properties.                                                             *)

\* However often the process dies, in a transaction or not, the next write
\* meets no earlier id, its creation_seq follows every other, and so does the
\* name of its mutation receipt: the store neither refuses it as a duplicate
\* nor lists it out of order (FIX-7).
NextWriteIsFresh ==
    /\ \A r \in rows : r.id < counter /\ r.seq < counter + 1
    /\ \A a \in attested : a.id < counter + 2

\* A superseding record is in the tables with its index row and exactly one
\* receipt, which names it and its target, or it is not there at all (FIX-1).
WritesAreWhole ==
    /\ Ids = indexed
    /\ \A r \in rows : r.supersedes = {a.target : a \in {x \in attested : x.new = r.id}}
    /\ \A a \in attested : {a.target, a.new} \subseteq Ids

\* Nothing that a search or a read hands out derives, over any chain of
\* sources and revisions, from a record whose sensitivity the snapshot does
\* not allow (FIX-6).
Parents(ids) == UNION {Record(id).sources \cup Record(id).supersedes : id \in ids}
NothingIsLaundered ==
    \A r \in Runs : \A id \in run[r].advice : \A up \in {id} \cup Parents({id}) \cup Parents(Parents({id})) :
        Record(up).sens \in Policy.sensitivities
=============================================================================
