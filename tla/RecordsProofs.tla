---------------------------- MODULE RecordsProofs ----------------------------
(***************************************************************************)
(* For every number of callers, entries, processes, packs, topics, sources *)
(* and gates, and however much of everything: what outlives a process is   *)
(* worth something to the next.  One inductive invariant per part:         *)
(*                                                                         *)
(* BrokerInv: every write is numbered before the counter, the open one     *)
(* after all others; DeriveInv: what a row derives from is allowed if the  *)
(* row is, and what a caller was given is.                                 *)
(*                                                                         *)
(* CountInv, BackoffInv: what the signals used up and what is left of the  *)
(* failures of a topic, in memory and in the file, was observed; the       *)
(* counters silence a topic as long as they should.                        *)
(*                                                                         *)
(* EarnedInv, LoneInv, SourceInv: what an evaluation has established at    *)
(* each of its places, and what of it is in the registry; with one         *)
(* evaluation at a time, that the executor activated last is active.       *)
(*                                                                         *)
(* PackInv: what a process has in memory against the files, but for the    *)
(* writes it still has to make; and what each phase of the doctor has put  *)
(* right.                                                                  *)
(*                                                                         *)
(* IInv, CInv: a campaign of scaffolds reads its holdout once, for a run   *)
(* between its claim and its read is the one the ledger names.  What a     *)
(* reload sees, long after the gates were passed and perhaps by runs that  *)
(* are gone, was earned: what each run must have seen to be where it is,   *)
(* who owns a root, and what the root holds while the owner lives.         *)
(***************************************************************************)
EXTENDS Records, FiniteSetTheorems, TLAPS

(***************************************************************************)
(* The memory.                                                             *)
(***************************************************************************)

\* What a caller may give for a record.
IsFields(fields) == fields = [f \in Fields |-> fields[f]]

LEMMA SeedsDeriveNothing ==
    \A seed \in Seeds : IsFields(seed) /\ seed.sources = {} /\ seed.supersedes = {}
BY RecordsAssumption DEF IsFields

\* The open transaction writes the record numbered with id, and a receipt for
\* each record it replaces.
NumberedBy(id, row, receipts) ==
    /\ row.id = id /\ row.seq = id + 1
    /\ receipts = {[id |-> id + 2, target |-> t, new |-> id] : t \in row.supersedes}

\* Every write is before the counter, and in all tables or in none.
TablesInv ==
    /\ counter \in Nat
    /\ \A r \in rows : /\ r.id \in Nat /\ r.id < counter /\ r.seq = r.id + 1
                       /\ r.supersedes = {a.target : a \in {x \in attested : x.new = r.id}}
    /\ Memory!Ids = indexed
    /\ \A a \in attested : a.id = a.new + 2 /\ {a.target, a.new} \subseteq Memory!Ids

\* The open transaction is numbered after every row, and names rows.
TxnInv ==
    txn # None => \E id \in Nat :
        /\ NumberedBy(id, txn.row, txn.receipts) /\ txn.row.supersedes \subseteq Memory!Ids
        /\ id + 3 <= counter /\ \A r \in rows : r.id < id

BrokerInv == TablesInv /\ TxnInv

LEMMA BrokerInvInit == Memory!Init => BrokerInv
BY DEF Memory!Init, BrokerInv, TablesInv, TxnInv, Memory!Ids

\* Numbering leaves the other fields alone.
LEMMA FieldsStay ==
    ASSUME NEW id, NEW fields, IsFields(fields)
    PROVE  /\ Memory!Numbered(fields, id).id = id /\ Memory!Numbered(fields, id).seq = id + 1
           /\ \A f \in Fields : Memory!Numbered(fields, id)[f] = fields[f]
<1>1. DOMAIN fields = Fields
  BY DEF IsFields
<1> QED BY <1>1 DEF Memory!Numbered, Fields

LEMMA BeginKeeps ==
    ASSUME BrokerInv, NEW fields, NEW by, Memory!Begin(fields, by),
           IsFields(fields), fields.supersedes \subseteq Memory!Ids
    PROVE  BrokerInv'
<1> DEFINE id == counter
           row == Memory!Numbered(fields, id)
<1>1. /\ row.id = id /\ row.seq = id + 1 /\ row.supersedes = fields.supersedes
  BY FieldsStay DEF Fields
<1> HIDE DEF row
<1>2. /\ counter' = counter + 3 /\ UNCHANGED <<rows, indexed, attested>>
      /\ txn'.row = row
      /\ txn'.receipts = {[id |-> id + 2, target |-> t, new |-> id] : t \in fields.supersedes}
  BY DEF Memory!Begin, row, Memory!tables
<1>3. id \in Nat /\ Memory!Ids' = Memory!Ids /\ \A r \in rows : r.id < id /\ r.id \in Nat
  BY <1>2 DEF BrokerInv, TablesInv, Memory!Ids
<1>4. TablesInv'
  BY <1>2, <1>3 DEF BrokerInv, TablesInv
<1>5. NumberedBy(id, txn'.row, txn'.receipts)
  BY <1>1, <1>2 DEF NumberedBy
<1>6. txn'.row.supersedes \subseteq Memory!Ids' /\ id + 3 <= counter' /\ \A r \in rows' : r.id < id
  BY <1>1, <1>2, <1>3
<1>7. TxnInv'
  BY <1>3, <1>5, <1>6 DEF TxnInv
<1> QED BY <1>4, <1>7 DEF BrokerInv

LEMMA StatementKeeps == ASSUME BrokerInv, Memory!Statement PROVE BrokerInv'
<1>1. /\ UNCHANGED <<Memory!tables, counter>> /\ txn # None
      /\ txn' = [txn EXCEPT !.done = txn.done + 1]
  BY DEF Memory!Statement
<1>2. TablesInv' /\ Memory!Ids' = Memory!Ids
  BY <1>1 DEF BrokerInv, TablesInv, Memory!Ids, Memory!tables
<1>3. PICK id \in Nat :
        /\ NumberedBy(id, txn.row, txn.receipts) /\ txn.row.supersedes \subseteq Memory!Ids
        /\ id + 3 <= counter /\ \A r \in rows : r.id < id
  BY <1>1 DEF BrokerInv, TxnInv
<1>4. txn'.row = txn.row /\ txn'.receipts = txn.receipts
  BY <1>1
<1> QED BY <1>1, <1>2, <1>3, <1>4 DEF BrokerInv, TxnInv, Memory!tables

LEMMA FailsKeeps == ASSUME BrokerInv, Memory!Fails PROVE BrokerInv'
<1>1. UNCHANGED <<Memory!tables, counter>> /\ txn' = None
  BY DEF Memory!Fails
<1>2. TablesInv'
  BY <1>1 DEF BrokerInv, TablesInv, Memory!Ids, Memory!tables
<1> QED BY <1>1, <1>2 DEF BrokerInv, TxnInv

LEMMA ReopenKeeps == ASSUME BrokerInv, Memory!Reopen PROVE BrokerInv'
<1>1. UNCHANGED Memory!tables /\ txn' = None
  BY DEF Memory!Reopen
<1>2. PICK n \in 0 .. 3 * MaxRows + 2 : Memory!Recovered(n) /\ counter' = n
  BY DEF Memory!Reopen
<1>3. PICK m \in {-1} \cup Memory!Ids : (\A id \in Memory!Ids : id <= m) /\ n = m + 2
  BY <1>2 DEF Memory!Recovered
<1>4. \A id \in Memory!Ids : id \in Nat
  BY DEF BrokerInv, TablesInv, Memory!Ids
<1>5. counter' \in Nat /\ \A id \in Memory!Ids : id < counter'
  BY <1>2, <1>3, <1>4
<1>6. TablesInv'
  BY <1>1, <1>5 DEF BrokerInv, TablesInv, Memory!Ids, Memory!tables
<1> QED BY <1>1, <1>6 DEF BrokerInv, TxnInv

LEMMA CommitKeeps == ASSUME BrokerInv, Memory!Commit PROVE BrokerInv'
<1> DEFINE row == txn.row
<1>1. /\ txn # None /\ txn' = None /\ UNCHANGED counter
      /\ rows' = rows \cup {row} /\ indexed' = indexed \cup {row.id}
      /\ attested' = attested \cup txn.receipts
  BY DEF Memory!Commit
<1>2. PICK id \in Nat :
        /\ NumberedBy(id, row, txn.receipts) /\ row.supersedes \subseteq Memory!Ids
        /\ id + 3 <= counter /\ \A r \in rows : r.id < id
  BY <1>1 DEF BrokerInv, TxnInv
<1>3. row.id = id /\ row.seq = id + 1 /\ id < counter
      /\ txn.receipts = {[id |-> id + 2, target |-> t, new |-> id] : t \in row.supersedes}
  BY <1>2 DEF NumberedBy, BrokerInv, TablesInv
<1> HIDE DEF row
<1>4. Memory!Ids' = Memory!Ids \cup {id}
  BY <1>1, <1>3 DEF Memory!Ids
<1>5. id \notin Memory!Ids
  BY <1>2 DEF Memory!Ids, BrokerInv, TablesInv
<1>6. \A a \in txn.receipts : a.id = a.new + 2 /\ a.new = id /\ a.target \in row.supersedes
  BY <1>3
<1>7. \A a \in attested' : a.id = a.new + 2 /\ {a.target, a.new} \subseteq Memory!Ids'
  BY <1>1, <1>2, <1>4, <1>6 DEF BrokerInv, TablesInv
<1>8. ASSUME NEW r \in rows'
      PROVE  r.supersedes = {a.target : a \in {x \in attested' : x.new = r.id}}
  <2>1. CASE r \in rows
    <3>1. r.id # id
      BY <1>2, <2>1 DEF BrokerInv, TablesInv
    <3>2. {x \in attested' : x.new = r.id} = {x \in attested : x.new = r.id}
      BY <1>1, <1>6, <3>1
    <3> QED BY <2>1, <3>2 DEF BrokerInv, TablesInv
  <2>2. CASE r = row
    <3>1. {x \in attested' : x.new = id} = txn.receipts
      BY <1>1, <1>5, <1>6 DEF BrokerInv, TablesInv
    <3>2. {a.target : a \in txn.receipts} \subseteq row.supersedes
      BY <1>6
    <3>3. ASSUME NEW t \in row.supersedes PROVE \E a \in txn.receipts : a.target = t
      <4> DEFINE a == [id |-> id + 2, target |-> t, new |-> id]
      <4>1. a \in txn.receipts /\ a.target = t
        BY <1>3
      <4> QED BY <4>1
    <3>4. row.supersedes \subseteq {a.target : a \in txn.receipts}
      BY <3>3
    <3> QED BY <1>3, <2>2, <3>1, <3>2, <3>4
  <2> QED BY <1>1, <2>1, <2>2
<1>9. TablesInv'
  BY <1>1, <1>3, <1>4, <1>7, <1>8 DEF BrokerInv, TablesInv
<1> QED BY <1>1, <1>9 DEF BrokerInv, TxnInv

\* Everything else leaves the tables alone.
LEMMA AsideKeeps ==
    ASSUME BrokerInv, UNCHANGED <<Memory!tables, counter, txn>> PROVE BrokerInv'
BY DEF BrokerInv, TablesInv, TxnInv, Memory!Ids, Memory!tables

LEMMA WritesBegin ==
    ASSUME BrokerInv,
           \/ \E seed \in Seeds : Memory!StoreCommit(seed)
           \/ \E old \in rows : \E text, life, act : Memory!StoreMutate(old, text, life, act)
           \/ \E old \in rows : \E text, s : Memory!Revise(s, old, text)
           \/ \E s, text, sens, sources, by : Memory!Create(s, text, sens, sources, by)
    PROVE  BrokerInv'
<1>1. ASSUME NEW seed \in Seeds, Memory!StoreCommit(seed) PROVE BrokerInv'
  BY <1>1, SeedsDeriveNothing, BeginKeeps DEF Memory!StoreCommit
<1>2. ASSUME NEW old \in rows, NEW text, NEW life, NEW act, NEW by,
             Memory!Begin(Memory!Superseding(old, text, life, act), by)
      PROVE  BrokerInv'
  <2> DEFINE fields == Memory!Superseding(old, text, life, act)
  <2>1. IsFields(fields) /\ fields.supersedes = {old.id} /\ old.id \in Memory!Ids
    BY DEF Memory!Superseding, Memory!Ids, IsFields, Fields
  <2> HIDE DEF fields
  <2> QED BY <1>2, <2>1, BeginKeeps DEF fields
<1>3. ASSUME NEW s, NEW text, NEW sens, NEW sources, NEW by, Memory!Create(s, text, sens, sources, by)
      PROVE  BrokerInv'
  <2> DEFINE fields == [scope |-> s, text |-> text, sens |-> sens, life |-> "candidate", act |-> "active",
                        sources |-> sources, supersedes |-> {}]
  <2>1. IsFields(fields) /\ fields.supersedes = {} /\ Memory!Begin(fields, by)
    BY <1>3 DEF Memory!Create, IsFields, Fields
  <2> HIDE DEF fields
  <2> QED BY <2>1, BeginKeeps
<1> QED BY <1>1, <1>2, <1>3 DEF Memory!StoreMutate, Memory!Revise

LEMMA BrokerInvNext == BrokerInv /\ [Memory!Next]_(Memory!vars) => BrokerInv'
<1> SUFFICES ASSUME BrokerInv, [Memory!Next]_(Memory!vars) PROVE BrokerInv'
  OBVIOUS
<1>1. CASE Memory!Statement \/ Memory!Commit \/ Memory!Fails \/ Memory!Reopen
  BY <1>1, StatementKeeps, CommitKeeps, FailsKeeps, ReopenKeeps
<1>2. CASE \E seed \in Seeds : Memory!StoreCommit(seed)
  BY <1>2, WritesBegin
<1>3. ASSUME NEW old \in rows,
             \/ \E text \in Texts, life \in Memory!Lifecycles, act \in {"active", "tombstoned"} :
                      Memory!StoreMutate(old, text, life, act)
             \/ \E s \in Scopes :
                   \/ \E text \in Texts : Memory!Revise(s, old, text)
                   \/ Memory!Compress(s, old)
                   \/ \E r \in Callers : Memory!Read(r, s, old) \/ Memory!Propose(r, s, old)
      PROVE  BrokerInv'
  <2>1. CASE \E text \in Texts, life \in Memory!Lifecycles, act \in {"active", "tombstoned"} :
                      Memory!StoreMutate(old, text, life, act)
    BY <2>1, WritesBegin
  <2>2. CASE \E s \in Scopes : Memory!Compress(s, old) \/ \E text \in Texts : Memory!Revise(s, old, text)
    BY <2>2, WritesBegin DEF Memory!Compress
  <2>3. CASE \E s \in Scopes, r \in Callers : Memory!Read(r, s, old) \/ Memory!Propose(r, s, old)
    BY <2>3, AsideKeeps DEF Memory!Propose, Memory!Read, Memory!Returned
  <2> QED BY <1>3, <2>1, <2>2, <2>3
<1>4. ASSUME NEW s \in Scopes,
             \/ \E text \in Texts, sens \in Policy.sensitivities, sources \in SUBSET Memory!Ids :
                   Memory!Create(s, text, sens, sources, None) /\ UNCHANGED caller
             \/ \E r \in Callers, w \in Words, lives \in SUBSET Memory!Lifecycles \ {{}} : Memory!Look(r, s, {w}, lives)
      PROVE  BrokerInv'
  BY <1>4, WritesBegin, AsideKeeps DEF Memory!Look, Memory!Returned
<1>5. ASSUME NEW r \in Callers,
             \/ \E w \in Words : Memory!Consult(r, {w})
             \/ Memory!Unobserved(r)
             \/ \E text \in Texts : Memory!Log(r, text)
      PROVE  BrokerInv'
  BY <1>5, WritesBegin, AsideKeeps DEF Memory!Consult, Memory!Unobserved, Memory!Log
<1>6. CASE UNCHANGED Memory!vars
  BY <1>6, AsideKeeps DEF Memory!vars
<1> QED BY <1>1, <1>2, <1>3, <1>4, <1>5, <1>6 DEF Memory!Next

LEMMA BrokerInvWrites == BrokerInv => Memory!NextWriteIsFresh /\ Memory!WritesAreWhole
<1> SUFFICES ASSUME BrokerInv PROVE Memory!NextWriteIsFresh /\ Memory!WritesAreWhole
  OBVIOUS
<1>1. \A id \in Memory!Ids : id \in Nat /\ id < counter
  BY DEF BrokerInv, TablesInv, Memory!Ids
<1>2. Memory!NextWriteIsFresh
  BY <1>1 DEF Memory!NextWriteIsFresh, BrokerInv, TablesInv
<1>3. Memory!WritesAreWhole
  BY DEF Memory!WritesAreWhole, BrokerInv, TablesInv
<1> QED BY <1>2, <1>3

-----------------------------------------------------------------------------
\* A record of that name may be shown.
Allowed(id) == \E o \in rows : o.id = id /\ o.sens \in Policy.sensitivities

\* What a record is made from: sources that may be shown, and it is no less
\* secret than what it replaces.
DerivesAllowed(r) ==
    /\ \A id \in r.sources : Allowed(id)
    /\ \A o \in rows : o.id \in r.supersedes => o.sens = r.sens

DeriveInv ==
    /\ \A a, b \in rows : a.id = b.id => a = b
    /\ \A r \in rows : DerivesAllowed(r)
    /\ txn # None => DerivesAllowed(txn.row)
    /\ DOMAIN caller = Callers
    /\ \A r \in Callers : \A id \in caller[r].advice : Allowed(id)

LEMMA DeriveInvInit == Memory!Init => DeriveInv
BY DEF Memory!Init, DeriveInv, Memory!Idle

\* What may be shown is in the table under its only name, and what it is made
\* from may be shown too.
LEMMA ParentsAllowed ==
    ASSUME BrokerInv, DeriveInv, NEW id, Allowed(id)
    PROVE  /\ Memory!Record(id).sens \in Policy.sensitivities
           /\ \A up \in Memory!Record(id).sources \cup Memory!Record(id).supersedes : Allowed(up)
<1>1. PICK o \in rows : o.id = id /\ o.sens \in Policy.sensitivities
  BY DEF Allowed
<1>2. Memory!Record(id) = o
  BY <1>1 DEF Memory!Record, DeriveInv
<1>3. \A up \in o.sources : Allowed(up)
  BY <1>1 DEF DeriveInv, DerivesAllowed
<1>4. ASSUME NEW up \in o.supersedes PROVE Allowed(up)
  <2>1. up \in Memory!Ids
    BY <1>1, <1>4 DEF BrokerInv, TablesInv
  <2>2. PICK q \in rows : q.id = up
    BY <2>1 DEF Memory!Ids
  <2>3. q.sens = o.sens
    BY <1>1, <1>4, <2>2 DEF DeriveInv, DerivesAllowed
  <2> QED BY <1>1, <2>2, <2>3 DEF Allowed
<1> QED BY <1>1, <1>2, <1>3, <1>4

LEMMA DeriveInvClean == BrokerInv /\ DeriveInv => Memory!NothingIsLaundered
<1> SUFFICES ASSUME BrokerInv, DeriveInv, NEW r \in Callers, NEW id \in caller[r].advice,
                    NEW up \in {id} \cup Memory!Parents({id}) \cup Memory!Parents(Memory!Parents({id}))
             PROVE  Memory!Record(up).sens \in Policy.sensitivities
  BY DEF Memory!NothingIsLaundered
<1>1. ASSUME NEW ids, \A x \in ids : Allowed(x) PROVE \A x \in Memory!Parents(ids) : Allowed(x)
  BY <1>1, ParentsAllowed DEF Memory!Parents
<1>2. \A x \in {id} : Allowed(x)
  BY DEF DeriveInv
<1>3. \A x \in Memory!Parents({id}) : Allowed(x)
  BY <1>1, <1>2
<1>4. \A x \in Memory!Parents(Memory!Parents({id})) : Allowed(x)
  BY <1>1, <1>3
<1>5. Allowed(up)
  BY <1>2, <1>3, <1>4
<1> QED BY <1>5, ParentsAllowed

\* A write begins: its record derives as it must.
LEMMA BeginDerives ==
    ASSUME DeriveInv, NEW fields, NEW by, Memory!Begin(fields, by), IsFields(fields), DerivesAllowed(fields),
           DOMAIN caller' = Callers, \A r \in Callers : caller'[r].advice \subseteq caller[r].advice
    PROVE  DeriveInv'
<1> DEFINE row == Memory!Numbered(fields, counter)
<1>1. row.sources = fields.sources /\ row.supersedes = fields.supersedes /\ row.sens = fields.sens
  BY FieldsStay DEF Fields
<1> HIDE DEF row
<1>2. UNCHANGED rows /\ txn'.row = row
  BY DEF Memory!Begin, row, Memory!tables
<1>3. \A x : Allowed(x) <=> Allowed(x)'
  BY <1>2 DEF Allowed
<1>4. DerivesAllowed(txn.row)'
  BY <1>1, <1>2, <1>3 DEF DerivesAllowed
<1>5. \A r \in rows' : DerivesAllowed(r)'
  BY <1>2, <1>3 DEF DerivesAllowed, DeriveInv
<1> QED BY <1>2, <1>3, <1>4, <1>5 DEF DeriveInv

\* A step that leaves the table alone, and advises nobody of more.
LEMMA AsideDerives ==
    ASSUME DeriveInv, UNCHANGED rows, txn' = None \/ txn' = txn \/ (txn # None /\ txn'.row = txn.row),
           DOMAIN caller' = Callers,
           \A r \in Callers : \A id \in caller'[r].advice : id \in caller[r].advice \/ Allowed(id)
    PROVE  DeriveInv'
<1>1. \A x : Allowed(x) <=> Allowed(x)'
  BY DEF Allowed
<1>2. \A r : DerivesAllowed(r) <=> DerivesAllowed(r)'
  BY <1>1 DEF DerivesAllowed
<1>3. \A r \in Callers : \A id \in caller'[r].advice : Allowed(id)
  BY DEF DeriveInv
<1> QED BY <1>1, <1>2, <1>3 DEF DeriveInv

LEMMA CommitDerives == ASSUME BrokerInv, DeriveInv, Memory!Commit PROVE DeriveInv'
<1> DEFINE row == txn.row
<1>1. /\ txn # None /\ txn' = None /\ rows' = rows \cup {row}
      /\ caller' = [r \in Callers |-> IF txn.by = r THEN Memory!Idle ELSE caller[r]]
  BY DEF Memory!Commit, Memory!Answered
<1>2. \A r \in rows : r.id # row.id
  <2>1. PICK id \in Nat :
          /\ NumberedBy(id, row, txn.receipts) /\ row.supersedes \subseteq Memory!Ids
          /\ id + 3 <= counter /\ \A r \in rows : r.id < id
    BY <1>1 DEF BrokerInv, TxnInv
  <2> QED BY <2>1 DEF NumberedBy, BrokerInv, TablesInv
<1>3. row.supersedes \subseteq Memory!Ids /\ \A r \in rows : r.supersedes \subseteq Memory!Ids
  <2>1. \A r \in rows : r.supersedes \subseteq Memory!Ids
    BY DEF BrokerInv, TablesInv
  <2> QED BY <1>1, <2>1 DEF BrokerInv, TxnInv
<1>4. row.id \notin Memory!Ids /\ DerivesAllowed(row) /\ \A r \in rows : DerivesAllowed(r)
  BY <1>1, <1>2 DEF Memory!Ids, DeriveInv
<1> HIDE DEF row
<1>5. \A x : Allowed(x) => Allowed(x)'
  BY <1>1 DEF Allowed
<1>6. \A r \in rows \cup {row} : DerivesAllowed(r)'
  BY <1>1, <1>3, <1>4, <1>5 DEF DerivesAllowed
<1>7. \A a, b \in rows' : a.id = b.id => a = b
  BY <1>1, <1>2 DEF DeriveInv
<1>8. \A r \in Callers : \A id \in caller'[r].advice : Allowed(id)'
  BY <1>1, <1>5 DEF DeriveInv, Memory!Idle
<1> QED BY <1>1, <1>6, <1>7, <1>8 DEF DeriveInv

\* A search hands out records that may be shown.
LEMMA FoundAllowed ==
    ASSUME NEW s, NEW words, NEW lives, NEW k \in Memory!Found(s, words, lives) PROVE Allowed(k.id)
BY DEF Memory!Found, Memory!LatestOf, Memory!Matching, Allowed

LEMMA AnswersDerive ==
    ASSUME DeriveInv,
           \/ \E r \in Callers : \E s, words, lives : Memory!Look(r, s, words, lives)
           \/ \E r \in Callers, rec \in rows : \E s : Memory!Read(r, s, rec) \/ Memory!Propose(r, s, rec)
           \/ \E r \in Callers : \E words : Memory!Consult(r, words)
    PROVE  DeriveInv'
<1>1. ASSUME NEW r \in Callers, NEW ids, \A id \in ids : Allowed(id),
             UNCHANGED <<rows, txn>>, DOMAIN caller' = DOMAIN caller,
             caller'[r].advice = ids, \A q \in Callers \ {r} : caller'[q] = caller[q]
      PROVE  DeriveInv'
  BY <1>1, AsideDerives DEF DeriveInv
<1>2. ASSUME NEW r \in Callers, NEW ids, \A id \in ids : Allowed(id), Memory!Returned(r, ids)
      PROVE  DeriveInv'
  BY <1>1, <1>2 DEF Memory!Returned, Memory!tables, DeriveInv
<1>3. ASSUME NEW r \in Callers, NEW s, NEW words, NEW lives, Memory!Look(r, s, words, lives)
      PROVE  DeriveInv'
  <2>1. PICK kept \in SUBSET Memory!Found(s, words, lives) : Memory!Returned(r, {k.id : k \in kept})
    BY <1>3 DEF Memory!Look
  <2>2. \A id \in {k.id : k \in kept} : Allowed(id)
    BY FoundAllowed
  <2> QED BY <1>2, <2>1, <2>2
<1>4. ASSUME NEW r \in Callers, NEW s, NEW rec \in rows, Memory!Read(r, s, rec) PROVE DeriveInv'
  <2>1. Memory!Returned(r, {rec.id}) /\ Allowed(rec.id)
    BY <1>4 DEF Memory!Read, Allowed
  <2> QED BY <1>2, <2>1
<1>6. ASSUME NEW r \in Callers, NEW s, NEW rec \in rows, Memory!Propose(r, s, rec) PROVE DeriveInv'
  BY <1>2, <1>6 DEF Memory!Propose
<1>5. ASSUME NEW r \in Callers, NEW words, Memory!Consult(r, words) PROVE DeriveInv'
  <2>1. PICK kept \in SUBSET Memory!Found(Policy.scope, words, Policy.lifecycles) :
          caller' = [caller EXCEPT ![r] = [pc |-> "running", advice |-> {k.id : k \in kept}]]
    BY <1>5 DEF Memory!Consult
  <2>2. \A id \in {k.id : k \in kept} : Allowed(id)
    BY FoundAllowed
  <2>3. UNCHANGED <<rows, txn>>
    BY <1>5 DEF Memory!Consult, Memory!tables
  <2> QED BY <1>1, <2>1, <2>2, <2>3 DEF DeriveInv
<1> QED BY <1>3, <1>4, <1>5, <1>6

LEMMA WritesDerive ==
    ASSUME BrokerInv, DeriveInv,
           \/ \E seed \in Seeds : Memory!StoreCommit(seed)
           \/ \E old \in rows : \E text, life, act : Memory!StoreMutate(old, text, life, act)
           \/ \E old \in rows : \E text, s : Memory!Revise(s, old, text)
           \/ \E s, text, sens, sources : sources \subseteq Memory!Ids /\ Memory!Create(s, text, sens, sources, None) /\ UNCHANGED caller
           \/ \E r \in Callers : \E text : Memory!Log(r, text)
    PROVE  DeriveInv'
<1>1. ASSUME NEW seed \in Seeds, Memory!StoreCommit(seed) PROVE DeriveInv'
  <2>1. DerivesAllowed(seed)
    BY SeedsDeriveNothing DEF DerivesAllowed
  <2> QED BY <1>1, <2>1, SeedsDeriveNothing, BeginDerives DEF Memory!StoreCommit, DeriveInv
<1>2. ASSUME NEW old \in rows, NEW text, NEW life, NEW act,
             Memory!Begin(Memory!Superseding(old, text, life, act), None), UNCHANGED caller
      PROVE  DeriveInv'
  <2> DEFINE fields == Memory!Superseding(old, text, life, act)
  <2>1. /\ IsFields(fields) /\ fields.supersedes = {old.id}
        /\ fields.sources = old.sources /\ fields.sens = old.sens
    BY DEF Memory!Superseding, IsFields, Fields
  <2> HIDE DEF fields
  <2>2. DerivesAllowed(fields)
    BY <2>1 DEF DerivesAllowed, DeriveInv
  <2> QED BY <1>2, <2>1, <2>2, BeginDerives DEF fields, DeriveInv
<1>3. ASSUME NEW s, NEW text, NEW sens, NEW sources, NEW by, sources \subseteq Memory!Ids,
             Memory!Create(s, text, sens, sources, by),
             DOMAIN caller' = Callers, \A r \in Callers : caller'[r].advice \subseteq caller[r].advice
      PROVE  DeriveInv'
  <2> DEFINE fields == [scope |-> s, text |-> text, sens |-> sens, life |-> "candidate", act |-> "active",
                        sources |-> sources, supersedes |-> {}]
  <2>1. /\ IsFields(fields) /\ fields.supersedes = {} /\ fields.sources = sources
        /\ Memory!Begin(fields, by)
    BY <1>3 DEF Memory!Create, IsFields, Fields
  <2> HIDE DEF fields
  <2>2. ASSUME NEW id \in sources PROVE Allowed(id)
    <3>1. PICK o \in rows : o.id = id
      BY <1>3, <2>2 DEF Memory!Ids
    <3>2. Memory!Record(id) = o
      BY <3>1 DEF Memory!Record, DeriveInv
    <3> QED BY <1>3, <2>2, <3>1, <3>2 DEF Memory!Create, Memory!ValidSource, Allowed
  <2>3. DerivesAllowed(fields)
    BY <2>1, <2>2 DEF DerivesAllowed
  <2> QED BY <1>3, <2>1, <2>3, BeginDerives
<1>4. ASSUME NEW r \in Callers, NEW text, Memory!Log(r, text) PROVE DeriveInv'
  <2>1. /\ Memory!Create(Policy.scope, text, "internal", {}, r)
        /\ caller' = [caller EXCEPT ![r].pc = "logging"]
    BY <1>4 DEF Memory!Log
  <2>2. DOMAIN caller' = Callers /\ \A q \in Callers : caller'[q].advice \subseteq caller[q].advice
    BY <2>1 DEF DeriveInv
  <2> QED BY <1>3, <2>1, <2>2
<1> QED BY <1>1, <1>2, <1>3, <1>4 DEF Memory!StoreMutate, Memory!Revise, DeriveInv

LEMMA DeriveInvNext == BrokerInv /\ DeriveInv /\ [Memory!Next]_(Memory!vars) => DeriveInv'
<1> SUFFICES ASSUME BrokerInv, DeriveInv, [Memory!Next]_(Memory!vars) PROVE DeriveInv'
  OBVIOUS
<1>1. ASSUME UNCHANGED rows, txn' = None \/ txn' = txn, UNCHANGED caller PROVE DeriveInv'
  BY <1>1, AsideDerives DEF DeriveInv
<1>2. CASE Memory!Statement
  <2>1. UNCHANGED <<rows, caller>> /\ txn # None /\ txn'.row = txn.row
    BY <1>2 DEF Memory!Statement, Memory!tables
  <2> QED BY <2>1, AsideDerives DEF DeriveInv
<1>3. CASE Memory!Fails
  BY <1>3, AsideDerives DEF Memory!Fails, Memory!Answered, Memory!tables, Memory!Idle, DeriveInv
<1>4. CASE Memory!Reopen
  BY <1>4, AsideDerives DEF Memory!Reopen, Memory!tables, Memory!Idle, DeriveInv
<1>5. CASE \E seed \in Seeds : Memory!StoreCommit(seed)
  BY <1>5, WritesDerive
<1>6. ASSUME NEW old \in rows,
             \/ \E text \in Texts, life \in Memory!Lifecycles, act \in {"active", "tombstoned"} :
                      Memory!StoreMutate(old, text, life, act)
             \/ \E s \in Scopes :
                   \/ \E text \in Texts : Memory!Revise(s, old, text)
                   \/ Memory!Compress(s, old)
                   \/ \E r \in Callers : Memory!Read(r, s, old) \/ Memory!Propose(r, s, old)
      PROVE  DeriveInv'
  <2>1. CASE \E text \in Texts, life \in Memory!Lifecycles, act \in {"active", "tombstoned"} :
                      Memory!StoreMutate(old, text, life, act)
    BY <2>1, WritesDerive
  <2>2. CASE \E s \in Scopes : Memory!Compress(s, old) \/ \E text \in Texts : Memory!Revise(s, old, text)
    BY <2>2, WritesDerive DEF Memory!Compress
  <2>3. ASSUME NEW s \in Scopes, NEW r \in Callers, Memory!Propose(r, s, old) PROVE DeriveInv'
    BY <2>3, AnswersDerive
  <2>4. ASSUME NEW s \in Scopes, NEW r \in Callers, Memory!Read(r, s, old) PROVE DeriveInv'
    BY <2>4, AnswersDerive
  <2> QED BY <1>6, <2>1, <2>2, <2>3, <2>4
<1>7. ASSUME NEW s \in Scopes,
             \/ \E text \in Texts, sens \in Policy.sensitivities, sources \in SUBSET Memory!Ids :
                   Memory!Create(s, text, sens, sources, None) /\ UNCHANGED caller
             \/ \E r \in Callers, w \in Words, lives \in SUBSET Memory!Lifecycles \ {{}} : Memory!Look(r, s, {w}, lives)
      PROVE  DeriveInv'
  <2>1. CASE \E text \in Texts, sens \in Policy.sensitivities, sources \in SUBSET Memory!Ids :
                Memory!Create(s, text, sens, sources, None) /\ UNCHANGED caller
    BY <2>1, WritesDerive
  <2>2. CASE \E r \in Callers, w \in Words, lives \in SUBSET Memory!Lifecycles \ {{}} : Memory!Look(r, s, {w}, lives)
    BY <2>2, AnswersDerive
  <2> QED BY <1>7, <2>1, <2>2
<1>8. ASSUME NEW r \in Callers,
             \/ \E w \in Words : Memory!Consult(r, {w})
             \/ Memory!Unobserved(r)
             \/ \E text \in Texts : Memory!Log(r, text)
      PROVE  DeriveInv'
  <2>1. CASE \E w \in Words : Memory!Consult(r, {w})
    BY <2>1, AnswersDerive
  <2>2. CASE Memory!Unobserved(r)
    BY <2>2, AsideDerives DEF Memory!Unobserved, Memory!tables, Memory!Idle, DeriveInv
  <2>3. CASE \E text \in Texts : Memory!Log(r, text)
    BY <2>3, WritesDerive
  <2> QED BY <1>8, <2>1, <2>2, <2>3
<1>9. CASE UNCHANGED Memory!vars
  BY <1>1, <1>9 DEF Memory!vars, Memory!tables
<1> QED BY <1>2, <1>3, <1>4, <1>5, <1>6, <1>7, <1>8, <1>9, CommitDerives DEF Memory!Next


(***************************************************************************)
(* The loop.                                                               *)
(***************************************************************************)

\* The learner counts as the theorems about finite sets do.
LEMMA SameCardinality == \A S : Loop!Cardinality(S) = Cardinality(S)
BY DEF Loop!Cardinality, Cardinality

LEMMA LearnerNumbers ==
    /\ MinFailures \in Nat \ {0} /\ BackoffRounds \in Nat
    /\ \A p \in Packs : DOMAIN Coverage[p] \subseteq Topics
BY RecordsAssumption

\* A list of failures, those of a topic in it, and how many they are.
IsList(s) == IsFiniteSet(s) /\ \A f \in s : DOMAIN f = {"at", "topic", "got"}
OfTopic(s, t) == {f \in s : f.topic = t}
Has(s, t) == Loop!Cardinality(OfTopic(s, t))

\* The failures that n signals have used up.
Used(n) == MinFailures * n

\* A signal of the topic is under way.
Under(t) == IF \E s \in signals : s.topic = t THEN 1 ELSE 0

\* Used up and still there, the failures of a topic are no more than observed,
\* in memory and in the file.
LiveCount(t) == Used(raised[t] + Under(t)) + Has(failures, t) <= observed[t]
FileCount(t) == Used(raised[t]) + Has(file.failures, t) <= observed[t]

CountInv ==
    /\ IsList(failures) /\ IsList(file.failures)
    /\ observed \in [Topics -> Nat] /\ raised \in [Topics -> Nat]
    /\ \A a, b \in signals : a.topic = b.topic => a = b
    /\ (step = "idle" => signals = {}) /\ (step # "idle" => running)
    /\ running => \A t \in Topics : LiveCount(t)
    /\ \A t \in Topics : FileCount(t)

\* The counters, in memory and in the file, silence a topic long enough.
BackoffInv ==
    /\ DOMAIN backoff = Loop!Keys /\ DOMAIN since = Loop!Keys
    /\ \A k \in Loop!Keys : since[k] \in Nat
    /\ running => \A k \in Loop!Keys : backoff[k] \in Nat /\ since[k] + backoff[k] >= BackoffRounds
    /\ file.state # "torn" =>
          /\ DOMAIN file.backoff = Loop!Keys
          /\ \A k \in Loop!Keys : file.backoff[k] \in Nat /\ since[k] + file.backoff[k] >= BackoffRounds
    /\ step = "idle" => signals = {}
    /\ step # "idle" => running
    /\ \A s \in signals :
          LET k == <<s.pack, s.topic>>
          IN  k \in Loop!Keys /\ since[k] > BackoffRounds /\ backoff[k] = BackoffRounds

LEMMA UsedGrows == /\ Used(0) = 0
                   /\ \A n \in Nat : Used(n) \in Nat /\ Used(n + 1) = Used(n) + MinFailures
BY LearnerNumbers DEF Used

LEMMA HasNothing == IsList({}) /\ \A t : Has({}, t) = 0
<1>1. \A t : OfTopic({}, t) = {}
  BY DEF OfTopic
<1> QED BY <1>1, FS_EmptySet, SameCardinality DEF IsList, Has

LEMMA Subsets ==
    ASSUME NEW s, IsList(s), NEW r, r \subseteq s, NEW t
    PROVE  IsList(r) /\ Has(r, t) \in Nat /\ Has(s, t) \in Nat /\ Has(r, t) <= Has(s, t)
<1>1. IsFiniteSet(s) /\ IsFiniteSet(r) /\ IsList(r)
  BY FS_Subset, SameCardinality DEF IsList
<1>2. OfTopic(r, t) \subseteq OfTopic(s, t) /\ OfTopic(s, t) \subseteq s
  BY DEF OfTopic
<1>3. IsFiniteSet(OfTopic(s, t))
  BY <1>1, <1>2, FS_Subset, SameCardinality
<1>4. IsFiniteSet(OfTopic(r, t)) /\ Loop!Cardinality(OfTopic(r, t)) <= Loop!Cardinality(OfTopic(s, t))
  BY <1>2, <1>3, FS_Subset, SameCardinality
<1> QED BY <1>1, <1>3, <1>4, FS_CardinalityType, SameCardinality DEF Has

\* Numbering a list anew makes it no longer.
LEMMA InOrderCounts ==
    ASSUME NEW s, IsList(s), NEW t
    PROVE  IsList(Loop!InOrder(s)) /\ Has(Loop!InOrder(s), t) <= Has(s, t)
<1> DEFINE Anew(f) == [f EXCEPT !.at = Loop!Cardinality({g \in s : g.at <= f.at})]
           everyFailure == [f \in s |-> Anew(f)]
           some == [f \in OfTopic(s, t) |-> Anew(f)]
<1>1. \A f \in s : DOMAIN Anew(f) = {"at", "topic", "got"} /\ Anew(f).topic = f.topic
  BY DEF IsList
<1>2. Loop!InOrder(s) = {Anew(f) : f \in s}
  BY DEF Loop!InOrder
<1> HIDE DEF Anew
<1>3. everyFailure \in Surjection(s, Loop!InOrder(s))
  BY <1>2 DEF Surjection
<1>4. IsFiniteSet(Loop!InOrder(s))
  BY <1>3, FS_Surjection, SameCardinality DEF IsList
<1>5. \A g \in Loop!InOrder(s) : DOMAIN g = {"at", "topic", "got"}
  BY <1>1, <1>2
<1>6. OfTopic(s, t) \subseteq s
  BY DEF OfTopic
<1>7. some \in Surjection(OfTopic(s, t), OfTopic(Loop!InOrder(s), t))
  <2>1. \A f \in OfTopic(s, t) : some[f] \in OfTopic(Loop!InOrder(s), t)
    BY <1>1, <1>2, <1>6 DEF OfTopic
  <2>2. ASSUME NEW g \in OfTopic(Loop!InOrder(s), t) PROVE \E f \in OfTopic(s, t) : some[f] = g
    <3>1. PICK f \in s : g = Anew(f)
      BY <1>2 DEF OfTopic
    <3>2. f \in OfTopic(s, t)
      BY <1>1, <3>1 DEF OfTopic
    <3> QED BY <3>1, <3>2
  <2> QED BY <2>1, <2>2 DEF Surjection
<1>8. IsFiniteSet(OfTopic(s, t))
  BY <1>6, FS_Subset, SameCardinality DEF IsList
<1>9. Loop!Cardinality(OfTopic(Loop!InOrder(s), t)) <= Loop!Cardinality(OfTopic(s, t))
  BY <1>7, <1>8, FS_Surjection, SameCardinality
<1> QED BY <1>4, <1>5, <1>9 DEF IsList, Has

\* One more failure of a topic, and perhaps the oldest gone.
LEMMA KeptCounts ==
    ASSUME NEW s, IsList(s), NEW f, DOMAIN f = {"at", "topic", "got"}, NEW t
    PROVE  /\ IsList(Loop!Kept(s \cup {f}))
           /\ Has(Loop!Kept(s \cup {f}), t) <= Has(s, t) + (IF f.topic = t THEN 1 ELSE 0)
<1> DEFINE more == s \cup {f}
           kept == {g \in more : Loop!Cardinality({h \in more : h.at > g.at}) < MaxFailures}
<1>1. IsList(more)
  BY FS_AddElement, SameCardinality DEF IsList
<1>2. Loop!Kept(more) = Loop!InOrder(kept) /\ kept \subseteq more
  BY DEF Loop!Kept
<1>3. Has(s, t) \in Nat
  BY Subsets
<1>4. Has(more, t) <= Has(s, t) + (IF f.topic = t THEN 1 ELSE 0)
  <2>1. CASE f.topic = t
    <3>1. OfTopic(more, t) = OfTopic(s, t) \cup {f} /\ OfTopic(s, t) \subseteq s
      BY <2>1 DEF OfTopic
    <3>2. IsFiniteSet(OfTopic(s, t))
      BY <3>1, FS_Subset, SameCardinality DEF IsList
    <3>3. Loop!Cardinality(OfTopic(s, t) \cup {f}) <= Loop!Cardinality(OfTopic(s, t)) + 1
      <4>1. Loop!Cardinality(OfTopic(s, t)) \in Nat
        BY <3>2, FS_CardinalityType, SameCardinality
      <4>2. Loop!Cardinality(OfTopic(s, t) \cup {f}) =
              IF f \in OfTopic(s, t) THEN Loop!Cardinality(OfTopic(s, t)) ELSE Loop!Cardinality(OfTopic(s, t)) + 1
        BY <3>2, FS_AddElement, SameCardinality
      <4> QED BY <4>1, <4>2
    <3> QED BY <2>1, <3>1, <3>3 DEF Has
  <2>2. CASE f.topic # t
    <3>1. OfTopic(more, t) = OfTopic(s, t)
      BY <2>2 DEF OfTopic
    <3> QED BY <1>3, <2>2, <3>1 DEF Has
  <2> QED BY <2>1, <2>2
<1> HIDE DEF kept, more
<1>5. IsList(kept) /\ Has(kept, t) <= Has(more, t) /\ Has(kept, t) \in Nat /\ Has(more, t) \in Nat
  BY <1>1, <1>2, Subsets
<1>6. IsList(Loop!Kept(more)) /\ Has(Loop!Kept(more), t) <= Has(kept, t)
  BY <1>2, <1>5, InOrderCounts
<1>7. Has(Loop!Kept(more), t) \in Nat
  BY <1>6, Subsets
<1> QED BY <1>3, <1>4, <1>5, <1>6, <1>7 DEF more

\* What the counts are made of.
LEMMA CountTypes ==
    ASSUME CountInv, NEW t \in Topics
    PROVE  /\ observed[t] \in Nat /\ raised[t] \in Nat /\ Under(t) \in {0, 1}
           /\ Has(failures, t) \in Nat /\ Has(file.failures, t) \in Nat
           /\ Used(raised[t]) \in Nat /\ Used(raised[t] + Under(t)) \in Nat
           /\ Under(t) = 0 => Used(raised[t] + Under(t)) = Used(raised[t])
           /\ Used(raised[t]) <= observed[t]
<1>1. observed[t] \in Nat /\ raised[t] \in Nat /\ Under(t) \in {0, 1}
  BY DEF CountInv, Under
<1>2. Has(failures, t) \in Nat /\ Has(file.failures, t) \in Nat
  BY Subsets DEF CountInv
<1>3. Used(raised[t]) \in Nat /\ Used(raised[t] + Under(t)) \in Nat
  BY <1>1, UsedGrows
<1>4. Used(raised[t]) + Has(file.failures, t) <= observed[t]
  BY DEF CountInv, FileCount
<1> QED BY <1>1, <1>2, <1>3, <1>4

LEMMA CountInvInit == Loop!Init => CountInv
<1> SUFFICES ASSUME Loop!Init PROVE CountInv
  OBVIOUS
<1>1. /\ failures = {} /\ file.failures = {} /\ signals = {} /\ running = FALSE /\ step = "idle"
      /\ observed = [t \in Topics |-> 0] /\ raised = [t \in Topics |-> 0]
  BY DEF Loop!Init, Loop!File
<1> QED BY <1>1, HasNothing, UsedGrows DEF CountInv, FileCount

LEMMA ObserveCounts == ASSUME CountInv, NEW t \in Topics, NEW got \in BOOLEAN, Loop!Observe(t, got) PROVE CountInv'
<1> DEFINE new == [at |-> Loop!Cardinality(failures) + 1, topic |-> t, got |-> got]
<1>1. DOMAIN new = {"at", "topic", "got"} /\ new.topic = t
  OBVIOUS
<1>2. /\ running /\ failures' = Loop!Kept(failures \cup {new}) /\ observed' = [observed EXCEPT ![t] = observed[t] + 1]
      /\ UNCHANGED <<file, signals, raised, running>> /\ signals = {} /\ step' = "observed"
  BY DEF Loop!Observe, CountInv
<1> HIDE DEF new
<1>3. IsList(failures')
  BY <1>1, <1>2, KeptCounts DEF CountInv
<1>4. ASSUME NEW u \in Topics PROVE LiveCount(u)' /\ FileCount(u)'
  <2>1. Has(failures', u) <= Has(failures, u) + (IF t = u THEN 1 ELSE 0) /\ Has(failures', u) \in Nat
    BY <1>1, <1>2, <1>3, KeptCounts, Subsets DEF CountInv
  <2>2. observed'[u] = observed[u] + (IF t = u THEN 1 ELSE 0)
    BY <1>2 DEF CountInv
  <2>3. Under(u)' = Under(u)
    BY <1>2 DEF Under
  <2>4. LiveCount(u) /\ FileCount(u)
    BY <1>2 DEF CountInv
  <2> QED BY <1>2, <2>1, <2>2, <2>3, <2>4, CountTypes DEF LiveCount, FileCount
<1>5. observed' \in [Topics -> Nat] /\ raised' \in [Topics -> Nat]
  BY <1>2 DEF CountInv
<1> QED BY <1>2, <1>3, <1>4, <1>5 DEF CountInv

\* One signal at most for a topic that had failures enough, and none of its
\* failures left.
LEMMA SweepCounts == ASSUME CountInv, NEW p \in Packs, Loop!Sweep(p) PROVE CountInv'
<1> DEFINE rest == {f \in failures : f.topic \notin Loop!Signalled(p)}
<1>1. /\ running /\ signals = {} /\ failures' = Loop!InOrder(rest)
      /\ signals' = {[pack |-> p, topic |-> t, kind |-> Loop!Kind(p, t)] : t \in Loop!Signalled(p)}
      /\ UNCHANGED <<running, file, observed, raised>>
  BY DEF Loop!Sweep, CountInv, Loop!Unused
<1>2. \A t \in Loop!Signalled(p) : Has(failures, t) >= MinFailures
  BY DEF Loop!Signalled, Loop!Of, OfTopic, Has
<1>3. step' = "idle" => Loop!Signalled(p) = {}
  BY DEF Loop!Sweep
<1>4. \A a, b \in signals' : a.topic = b.topic => a = b
  BY <1>1
<1>5. IsList(rest) /\ IsList(failures')
  BY <1>1, Subsets, InOrderCounts DEF CountInv
<1>6. ASSUME NEW u \in Topics PROVE LiveCount(u)' /\ FileCount(u)'
  <2>1. Under(u) = 0 /\ LiveCount(u) /\ FileCount(u)
    BY <1>1 DEF Under, CountInv
  <2>2. Has(failures', u) <= Has(rest, u) /\ Has(rest, u) <= Has(failures, u) /\ Has(failures', u) \in Nat
        /\ Has(rest, u) \in Nat
    BY <1>1, <1>5, InOrderCounts, Subsets DEF CountInv
  <2>3. CASE u \in Loop!Signalled(p)
    <3>1. Under(u)' = 1
      <4>1. [pack |-> p, topic |-> u, kind |-> Loop!Kind(p, u)] \in signals'
        BY <1>1, <2>3
      <4>2. [pack |-> p, topic |-> u, kind |-> Loop!Kind(p, u)].topic = u
        OBVIOUS
      <4>3. \E s \in signals' : s.topic = u
        BY <4>1, <4>2
      <4> QED BY <4>3 DEF Under
    <3>2. OfTopic(rest, u) = {}
      BY <2>3 DEF OfTopic
    <3>3. Has(rest, u) = 0
      BY <3>2, FS_EmptySet, SameCardinality DEF Has
    <3>4. Used(raised[u] + 1) = Used(raised[u]) + MinFailures
      BY CountTypes, UsedGrows
    <3> HIDE DEF rest
    <3> QED BY <1>1, <1>2, <2>1, <2>2, <2>3, <3>1, <3>3, <3>4, CountTypes, LearnerNumbers DEF LiveCount, FileCount
  <2>4. CASE u \notin Loop!Signalled(p)
    <3>1. Under(u)' = 0
      BY <1>1, <2>4 DEF Under
    <3> HIDE DEF rest
    <3> QED BY <1>1, <2>1, <2>2, <3>1, CountTypes DEF LiveCount, FileCount
  <2> QED BY <2>3, <2>4
<1>7. step' = "idle" => signals' = {}
  BY <1>1, <1>3
<1>8. (step' # "idle" => running') /\ IsList(file.failures)'
  BY <1>1 DEF CountInv
<1>9. observed' \in [Topics -> Nat] /\ raised' \in [Topics -> Nat]
  BY <1>1 DEF CountInv
<1> QED BY <1>4, <1>5, <1>6, <1>7, <1>8, <1>9 DEF CountInv

\* At most one signal of a topic is under way.
LEMMA OneUnder ==
    ASSUME CountInv, NEW t PROVE Loop!Cardinality({s \in signals : s.topic = t}) = Under(t)
<1>1. CASE {s \in signals : s.topic = t} = {}
  BY <1>1, FS_EmptySet, SameCardinality DEF Under
<1>2. ASSUME NEW s \in signals, s.topic = t PROVE Loop!Cardinality({a \in signals : a.topic = t}) = Under(t)
  <2>1. {a \in signals : a.topic = t} = {s} /\ Under(t) = 1
    BY <1>2 DEF CountInv, Under
  <2> QED BY <2>1, FS_Singleton, SameCardinality
<1> QED BY <1>1, <1>2

LEMMA SaveCounts == ASSUME CountInv, Loop!Save PROVE CountInv'
<1>1. /\ running /\ file'.failures = failures /\ signals' = {} /\ step' = "idle"
      /\ raised' = [t \in Topics |-> raised[t] + Loop!Cardinality({s \in signals : s.topic = t})]
      /\ UNCHANGED <<running, failures, observed>>
  BY DEF Loop!Save, CountInv, Loop!File
<1>2. ASSUME NEW t \in Topics PROVE raised'[t] \in Nat /\ LiveCount(t)' /\ FileCount(t)'
  <2>1. raised'[t] = raised[t] + Under(t) /\ Under(t)' = 0
    BY <1>1, OneUnder DEF Under
  <2>2. LiveCount(t)
    BY <1>1 DEF CountInv
  <2> QED BY <1>1, <2>1, <2>2, CountTypes DEF LiveCount, FileCount
<1>3. raised' \in [Topics -> Nat]
  BY <1>1, <1>2
<1> QED BY <1>1, <1>2, <1>3 DEF CountInv

\* A start and a death: what is in memory is what is in the file, or nothing.
LEMMA TurnCounts ==
    ASSUME CountInv, UNCHANGED <<observed, raised>>, step' = "idle", signals' = {},
           file'.failures \in {{}, file.failures}, failures' \in {{}, file'.failures}
    PROVE  CountInv'
<1>1. ASSUME NEW t \in Topics PROVE LiveCount(t)' /\ FileCount(t)'
  <2>1. Under(t)' = 0
    BY DEF Under
  <2>2. /\ Has(file'.failures, t) \in {0, Has(file.failures, t)}
        /\ Has(failures', t) \in {0, Has(file.failures, t)}
    BY HasNothing
  <2>3. FileCount(t)
    BY DEF CountInv
  <2> QED BY <2>1, <2>2, <2>3, CountTypes DEF LiveCount, FileCount
<1>2. IsList(failures') /\ IsList(file'.failures)
  BY HasNothing DEF CountInv
<1> QED BY <1>1, <1>2 DEF CountInv

LEMMA CountInvNext == CountInv /\ [Loop!Next]_(Loop!vars) => CountInv'
<1> SUFFICES ASSUME CountInv, [Loop!Next]_(Loop!vars) PROVE CountInv'
  OBVIOUS
<1>1. CASE Loop!Start
  <2>1. (signals = {} /\ step = "idle") \/ running
    BY DEF CountInv
  <2> QED BY <1>1, <2>1, TurnCounts DEF Loop!Start
<1>2. CASE Loop!Crash
  BY <1>2, TurnCounts DEF Loop!Crash, Loop!File
<1>3. CASE Loop!MoveAside
  <2>1. /\ UNCHANGED <<failures, running, signals, step, observed, raised>> /\ ~running /\ file'.failures = {}
    BY <1>3 DEF Loop!MoveAside, Loop!File
  <2>2. \A t \in Topics : FileCount(t)'
    BY <2>1, HasNothing, CountTypes DEF FileCount
  <2> QED BY <2>1, <2>2, HasNothing DEF CountInv
<1>4. CASE UNCHANGED Loop!vars
  <2>1. UNCHANGED <<failures, file, running, signals, step, observed, raised>>
    BY <1>4 DEF Loop!vars, Loop!state
  <2>2. \A t \in Topics : (LiveCount(t) <=> LiveCount(t)') /\ (FileCount(t) <=> FileCount(t)')
    BY <2>1 DEF LiveCount, FileCount, Under
  <2> QED BY <2>1, <2>2 DEF CountInv
<1> QED BY <1>1, <1>2, <1>3, <1>4, ObserveCounts, SweepCounts, SaveCounts DEF Loop!Next

LEMMA CountInvOnce == CountInv => Loop!FailuresCountOnce
<1> SUFFICES ASSUME CountInv, NEW t \in Topics
             PROVE  /\ Used(raised[t] + Under(t)) <= observed[t]
                    /\ Used(raised[t]) + (IF running THEN Has(failures, t) ELSE 0) <= observed[t]
  BY OneUnder DEF Loop!FailuresCountOnce, Used, Has, Loop!Of, OfTopic
<1>1. Used(raised[t]) <= Used(raised[t] + Under(t))
  BY CountTypes, UsedGrows, LearnerNumbers
<1>2. CASE running
  <2>1. LiveCount(t)
    BY <1>2 DEF CountInv
  <2> QED BY <1>1, <1>2, <2>1, CountTypes DEF LiveCount
<1>3. CASE ~running
  <2>1. Under(t) = 0
    BY <1>3 DEF CountInv, Under
  <2> QED BY <1>3, <2>1, CountTypes
<1> QED BY <1>2, <1>3

-----------------------------------------------------------------------------
LEMMA BackoffInvInit == Loop!Init => BackoffInv
BY LearnerNumbers DEF Loop!Init, BackoffInv, Loop!Fresh, Loop!File, Loop!Silent

LEMMA BackoffInvNext == BackoffInv /\ [Loop!Next]_(Loop!vars) => BackoffInv'
<1> SUFFICES ASSUME BackoffInv, [Loop!Next]_(Loop!vars) PROVE BackoffInv'
  OBVIOUS
<1>1. CASE Loop!Start
  BY <1>1 DEF Loop!Start, BackoffInv
<1>2. CASE Loop!Save
  BY <1>2, LearnerNumbers DEF Loop!Save, BackoffInv, Loop!File
<1>3. CASE Loop!Crash
  <2>1. /\ running' = FALSE /\ backoff' = Loop!Fresh /\ step' = "idle" /\ signals' = {} /\ since' = since
        /\ file' = file \/ file' = Loop!File("torn", {}, Loop!Fresh)
    BY <1>3 DEF Loop!Crash
  <2> QED BY <2>1 DEF BackoffInv, Loop!File, Loop!Fresh
<1>4. CASE Loop!MoveAside
  BY <1>4, LearnerNumbers DEF Loop!MoveAside, BackoffInv, Loop!File, Loop!Fresh, Loop!Silent
<1>5. ASSUME NEW t \in Topics, NEW got \in BOOLEAN, Loop!Observe(t, got) PROVE BackoffInv'
  BY <1>5 DEF Loop!Observe, BackoffInv
<1>6. ASSUME NEW p \in Packs, Loop!Sweep(p) PROVE BackoffInv'
  <2>1. /\ running /\ signals = {}
        /\ signals' = {[pack |-> p, topic |-> t, kind |-> Loop!Kind(p, t)] : t \in Loop!Signalled(p)}
        /\ backoff' = [k \in Loop!Keys |-> IF k[1] # p THEN backoff[k]
                                     ELSE IF k[2] \in Loop!Signalled(p) THEN BackoffRounds
                                     ELSE IF backoff[k] > 0 THEN backoff[k] - 1 ELSE 0]
        /\ since' = [k \in Loop!Keys |-> IF k[1] = p /\ since[k] < Loop!Silent THEN since[k] + 1 ELSE since[k]]
        /\ UNCHANGED <<running, file>>
    BY <1>6 DEF Loop!Sweep, BackoffInv
  <2>2. ASSUME NEW k \in Loop!Keys
        PROVE  /\ since'[k] \in Nat /\ since'[k] >= since[k]
               /\ backoff'[k] \in Nat /\ since'[k] + backoff'[k] >= BackoffRounds
    <3>1. since[k] \in Nat /\ backoff[k] \in Nat /\ since[k] + backoff[k] >= BackoffRounds
      BY <2>1 DEF BackoffInv
    <3>2. since'[k] = IF k[1] = p /\ since[k] < BackoffRounds + 1 THEN since[k] + 1 ELSE since[k]
      BY <2>1 DEF Loop!Silent
    <3>3. backoff'[k] = IF k[1] # p THEN backoff[k]
                        ELSE IF k[2] \in Loop!Signalled(p) THEN BackoffRounds
                        ELSE IF backoff[k] > 0 THEN backoff[k] - 1 ELSE 0
      BY <2>1
    <3> QED BY <3>1, <3>2, <3>3, LearnerNumbers
  <2>3. ASSUME NEW t \in Loop!Signalled(p)
        PROVE  <<p, t>> \in Loop!Keys /\ since'[<<p, t>>] > BackoffRounds /\ backoff'[<<p, t>>] = BackoffRounds
    <3>1. t \in Topics /\ <<p, t>> \in Loop!Keys /\ ~(backoff[<<p, t>>] > 0)
      BY <2>3, LearnerNumbers DEF Loop!Signalled, Loop!Owned, Loop!Suppressed, Loop!Keys
    <3>2. since[<<p, t>>] \in Nat /\ backoff[<<p, t>>] \in Nat
          /\ since[<<p, t>>] + backoff[<<p, t>>] >= BackoffRounds
      BY <2>1, <3>1 DEF BackoffInv
    <3>3. since'[<<p, t>>] = IF since[<<p, t>>] < BackoffRounds + 1 THEN since[<<p, t>>] + 1 ELSE since[<<p, t>>]
      BY <2>1, <3>1 DEF Loop!Silent
    <3>4. backoff'[<<p, t>>] = BackoffRounds
      BY <2>1, <2>3, <3>1
    <3> QED BY <3>1, <3>2, <3>3, <3>4, LearnerNumbers
  <2>4. \A s \in signals' : LET k == <<s.pack, s.topic>>
                           IN  k \in Loop!Keys /\ since'[k] > BackoffRounds /\ backoff'[k] = BackoffRounds
    BY <2>1, <2>3
  <2>5. (step' = "idle" => signals' = {}) /\ (step' # "idle" => running')
    BY <1>6, <2>1 DEF Loop!Sweep
  <2>6. DOMAIN backoff' = Loop!Keys /\ DOMAIN since' = Loop!Keys
    BY <2>1
  <2>7. file'.state # "torn" =>
          /\ DOMAIN file'.backoff = Loop!Keys
          /\ \A k \in Loop!Keys : file'.backoff[k] \in Nat /\ since'[k] + file'.backoff[k] >= BackoffRounds
    BY <2>1, <2>2, LearnerNumbers DEF BackoffInv
  <2> QED BY <2>2, <2>4, <2>5, <2>6, <2>7 DEF BackoffInv
<1>7. CASE UNCHANGED Loop!vars
  BY <1>7 DEF Loop!vars, Loop!state, BackoffInv
<1> QED BY <1>1, <1>2, <1>3, <1>4, <1>5, <1>6, <1>7 DEF Loop!Next

LEMMA BackoffInvDistance == BackoffInv => Loop!SignalsKeepTheirDistance
BY DEF BackoffInv, Loop!SignalsKeepTheirDistance

(***************************************************************************)
(* The executors.                                                          *)
(***************************************************************************)

LEMMA ExecutorsNames ==
    /\ CompiledFrom \in [Sources -> Procedures]
    /\ None \notin Sources /\ "other" \notin Sources
    /\ None \notin ExecutorRecords
BY RecordsAssumption

OneSourceEach == \A s, t \in Sources : CompiledFrom[s] = CompiledFrom[t] => s = t

Places == {"idle", "source", "record", "append", "bind", "sandbox", "reject", "activate", "supersede"}
Calls == [pc : Places, src : Sources \cup {None}, approval : Compiled!Approvals, active : ExecutorRecords \cup {None},
          record : ExecutorRecords \cup {None}, data : Seq(ExecutorRecords), receipt : Nat]

\* A list of records that names as active only what was earned.
Earned(records) ==
    /\ records \in Seq(ExecutorRecords)
    /\ \A i \in DOMAIN records : records[i].status = "active" => records[i].src \in earned

\* What an evaluation has established at each place.
Justified(c) ==
    /\ c \in Calls /\ Earned(c.data)
    /\ c.pc # "idle" => c.src \in Sources
    /\ c.pc \in {"sandbox", "reject", "activate", "supersede"} =>
          c.record \in ExecutorRecords /\ c.record.src = c.src /\ c.record.status = "quarantined"
    /\ c.pc = "activate" => c.src \in earned
    /\ c.pc = "supersede" => c.active # None

EarnedInv ==
    /\ DOMAIN call = Gates /\ DOMAIN registry = {"state", "records"}
    /\ Earned(registry.records) /\ \A g \in Gates : Justified(call[g])
    /\ ran \subseteq earned

LEMMA LeastNatural ==
    ASSUME NEW T, T \subseteq Nat, T # {}
    PROVE  \E m \in T : \A k \in T : m <= k
<1> DEFINE R == StrictSubsetOrdering(Nat)
           F == {0 .. k : k \in T}
<1>1. IsWellFoundedOn(R, FiniteSubsetsOf(Nat))
  BY FS_StrictSubsetOrderingWellFounded
<1>2. F \subseteq FiniteSubsetsOf(Nat) /\ F # {}
  <2>1. \A k \in T : IsFiniteSet(0 .. k) /\ 0 .. k \in SUBSET Nat
    BY FS_Interval
  <2>2. \A k \in T : 0 .. k \in FiniteSubsetsOf(Nat)
    BY <2>1 DEF FiniteSubsetsOf
  <2> QED BY <2>2
<1>3. PICK x \in F : \A y \in F : <<y, x>> \notin R
  <2> HIDE DEF R, F
  <2> QED BY <1>1, <1>2, WFMin
<1>4. PICK m \in T : x = 0 .. m
  OBVIOUS
<1>5. ASSUME NEW k \in T, k < m PROVE FALSE
  <2>1. 0 .. k \in F /\ 0 .. k \subseteq 0 .. m /\ 0 .. k # 0 .. m /\ 0 .. m \subseteq Nat
    BY <1>5
  <2> QED BY <1>3, <1>4, <2>1 DEF StrictSubsetOrdering
<1> QED BY <1>5

\* What a list of records holds.
LEMMA EachIsARecord ==
    ASSUME NEW records \in Seq(ExecutorRecords), NEW i \in DOMAIN records
    PROVE  records[i] \in ExecutorRecords /\ records[i].receipt \in Nat /\ records[i].src \in Sources
<1>1. records[i] \in ExecutorRecords
  OBVIOUS
<1> QED BY <1>1 DEF ExecutorRecords

\* The least of some places.
LEMMA EarliestIsThere ==
    ASSUME EarnedInv, NEW places, places \subseteq DOMAIN registry.records, places # {}
    PROVE  \E i \in places : /\ Compiled!Earliest(places) = registry.records[i]
                             /\ \A j \in places : i <= j
<1>1. places \subseteq Nat
  BY DEF EarnedInv, Earned
<1>2. \E i \in places : \A j \in places : i <= j
  BY <1>1, LeastNatural
<1> QED BY <1>2 DEF Compiled!Earliest

\* What is earned only grows.
LEMMA EarnedGrows ==
    ASSUME earned \subseteq earned'
    PROVE  /\ \A records : Earned(records) => Earned(records)'
           /\ \A c : Justified(c) => Justified(c)'
<1>1. ASSUME NEW records, Earned(records) PROVE Earned(records)'
  BY <1>1 DEF Earned
<1>2. ASSUME NEW c, Justified(c) PROVE Justified(c)'
  BY <1>1, <1>2 DEF Justified, Calls
<1> QED BY <1>1, <1>2

\* A step of one gate.
LEMMA SetKeeps ==
    ASSUME EarnedInv, NEW g \in Gates, NEW c, Compiled!Set(g, c), Justified(c)', Earned(registry.records)',
           DOMAIN registry' = {"state", "records"}, earned \subseteq earned', ran' \subseteq earned'
    PROVE  EarnedInv'
<1>1. DOMAIN call' = Gates /\ \A h \in Gates : call'[h] = IF h = g THEN c ELSE call[h]
  BY DEF Compiled!Set, EarnedInv
<1>2. \A h \in Gates : Justified(call[h])
  BY DEF EarnedInv
<1>3. \A d : Justified(d) => Justified(d)'
  BY EarnedGrows
<1>4. ASSUME NEW h \in Gates PROVE Justified(call[h])'
  <2>1. CASE h = g
    BY <1>1, <2>1
  <2>2. CASE h # g
    <3>1. call'[h] = call[h]
      BY <1>1, <2>2
    <3> QED BY <1>2, <1>3, <3>1
  <2> QED BY <2>1, <2>2
<1> QED BY <1>1, <1>4 DEF EarnedInv

LEMMA IdleJustified == Justified(Compiled!Idle)
BY DEF Justified, Compiled!Idle, Calls, Places, Compiled!Approvals, Earned, ExecutorRecords

\* What a step takes from the call of its gate.
LEMMA Called ==
    ASSUME EarnedInv, NEW g \in Gates
    PROVE  Justified(call[g]) /\ call[g] \in Calls /\ Earned(call[g].data)
BY DEF EarnedInv, Justified

\* A step that moves a call on, or ends it, and grants nothing.
LEMMA MoveKeeps ==
    ASSUME EarnedInv, NEW g \in Gates, NEW c, Compiled!Set(g, c), Justified(c), Earned(registry.records)',
           DOMAIN registry' = {"state", "records"},
           UNCHANGED <<earned, ran>>
    PROVE  EarnedInv'
<1>1. Justified(c)'
  BY EarnedGrows
<1> QED BY <1>1, SetKeeps DEF EarnedInv

\* A list of records that was earned still is.
LEMMA StillEarned ==
    ASSUME EarnedInv, NEW records, Earned(records), UNCHANGED earned, registry'.records = records
    PROVE  Earned(registry.records)'
BY EarnedGrows

\* The active executor an evaluation takes note of.
LEMMA ActiveForIs ==
    ASSUME EarnedInv
    PROVE  Compiled!ActiveFor \in ExecutorRecords \cup {None}
<1>1. CASE Compiled!With("active") = {}
  BY <1>1 DEF Compiled!ActiveFor
<1>2. CASE Compiled!With("active") # {}
  <2>1. Compiled!With("active") \subseteq DOMAIN registry.records
    BY DEF Compiled!With
  <2>2. PICK i \in Compiled!With("active") : Compiled!Earliest(Compiled!With("active")) = registry.records[i]
    BY <1>2, <2>1, EarliestIsThere
  <2>3. Compiled!ActiveFor = registry.records[i] /\ i \in DOMAIN registry.records
    BY <1>2, <2>1, <2>2 DEF Compiled!ActiveFor
  <2> QED BY <2>3 DEF EarnedInv, Earned
<1> QED BY <1>1, <1>2

LEMMA EvaluateKeeps ==
    ASSUME EarnedInv, NEW g \in Gates, NEW s \in Sources, NEW a \in Compiled!Approvals, NEW at \in Compiled!Times,
           Compiled!Evaluate(g, s, a, at)
    PROVE  EarnedInv'
<1>1. PICK active : active = Compiled!ActiveFor
  OBVIOUS
<1> DEFINE c == [Compiled!Idle EXCEPT !.pc = "source", !.src = s, !.approval = a, !.active = active, !.receipt = at]
<1>2. UNCHANGED <<registry, earned, ran>> /\ Compiled!Set(g, c)
  BY <1>1 DEF Compiled!Evaluate, Compiled!Ghosts
<1>3. active \in ExecutorRecords \cup {None} /\ at \in Nat
  BY <1>1, ActiveForIs DEF Compiled!Times
<1>4. Justified(c)
  <2>1. Compiled!Idle \in Calls
    BY DEF Compiled!Idle, Calls, Places, Compiled!Approvals
  <2>2. c \in Calls
    BY <1>3, <2>1 DEF Calls, Places
  <2>3. c.pc = "source" /\ c.src = s /\ c.data = Compiled!Idle.data
    BY <2>1 DEF Calls
  <2>4. Earned(Compiled!Idle.data)
    BY DEF Earned, Compiled!Idle
  <2> HIDE DEF c
  <2>5. Justified(c)
    BY <2>2, <2>3, <2>4 DEF Justified
  <2> QED BY <2>5 DEF c
<1> HIDE DEF c
<1> QED BY <1>2, <1>4, MoveKeeps, StillEarned DEF EarnedInv

LEMMA WriteSourceKeeps == ASSUME EarnedInv, NEW g \in Gates, Compiled!WriteSource(g) PROVE EarnedInv'
<1>1. UNCHANGED <<registry, earned, ran>>
  BY DEF Compiled!WriteSource, Compiled!Rest, Compiled!Ghosts
<1>2. PICK d : d = call[g] /\ Justified(d) /\ d \in Calls /\ d.pc = "source"
  BY Called DEF Compiled!WriteSource
<1>3. Compiled!Set(g, [d EXCEPT !.pc = "record"]) \/ Compiled!Set(g, Compiled!Idle)
  BY <1>2 DEF Compiled!WriteSource
<1>4. Justified([d EXCEPT !.pc = "record"])
  BY <1>2 DEF Justified, Calls, Places
<1> QED BY <1>1, <1>3, <1>4, MoveKeeps, IdleJustified, StillEarned DEF EarnedInv

LEMMA FindRecordKeeps == ASSUME EarnedInv, NEW g \in Gates, Compiled!FindRecord(g) PROVE EarnedInv'
<1>1. UNCHANGED <<registry, earned, ran>>
  BY DEF Compiled!FindRecord, Compiled!Rest, Compiled!Ghosts
<1>2. PICK d, records : d = call[g] /\ Justified(d) /\ d \in Calls /\ d.pc = "record" /\ records = registry.records
  BY Called DEF Compiled!FindRecord
<1>3. \/ Compiled!Set(g, Compiled!Idle) \/ Compiled!Set(g, [d EXCEPT !.pc = "bind"])
      \/ Compiled!Set(g, [d EXCEPT !.pc = "append", !.data = records])
  BY <1>2 DEF Compiled!FindRecord
<1>4. Justified([d EXCEPT !.pc = "bind"])
  BY <1>2 DEF Justified, Calls, Places
<1>5. Justified([d EXCEPT !.pc = "append", !.data = records])
  <2>1. Earned(records) /\ records \in Seq(ExecutorRecords)
    BY <1>2 DEF EarnedInv, Earned
  <2> QED BY <1>2, <2>1 DEF Justified, Calls, Places
<1> QED BY <1>1, <1>3, <1>4, <1>5, MoveKeeps, IdleJustified, StillEarned DEF EarnedInv

LEMMA AppendRecordKeeps == ASSUME EarnedInv, NEW g \in Gates, Compiled!AppendRecord(g) PROVE EarnedInv'
<1>1. UNCHANGED <<earned, ran>>
  BY DEF Compiled!AppendRecord, Compiled!Rest, Compiled!Ghosts
<1>2. PICK d : d = call[g] /\ Justified(d) /\ d \in Calls /\ d.pc = "append"
  BY Called DEF Compiled!AppendRecord
<1> DEFINE record == Compiled!Record(d.src, "quarantined", 0)
           records == Append(d.data, record)
<1>3. Compiled!Set(g, [d EXCEPT !.pc = "bind", !.data = <<>>]) /\ registry' = [state |-> "fine", records |-> records]
  BY <1>2 DEF Compiled!AppendRecord, Compiled!Written
<1>4. Justified([d EXCEPT !.pc = "bind", !.data = <<>>])
  <2> DEFINE c == [d EXCEPT !.pc = "bind", !.data = <<>>]
  <2>1. Earned(<<>>) /\ <<>> \in Seq(ExecutorRecords)
    BY DEF Earned
  <2>2. c \in Calls /\ c.pc = "bind" /\ c.data = <<>> /\ c.src = d.src
    BY <1>2, <2>1 DEF Calls, Places
  <2> HIDE DEF c
  <2>3. Justified(c)
    BY <1>2, <2>1, <2>2 DEF Justified
  <2> QED BY <2>3 DEF c
<1>5. Earned(records)
  <2>1. record \in ExecutorRecords /\ record.status = "quarantined"
    BY <1>2 DEF Justified, Compiled!Record, ExecutorRecords
  <2>2. d.data \in Seq(ExecutorRecords) /\ Earned(d.data)
    BY <1>2 DEF Justified, Earned
  <2> HIDE DEF record
  <2>3. records \in Seq(ExecutorRecords) /\ \A i \in DOMAIN records : records[i] = record \/ (i \in DOMAIN d.data /\ records[i] = d.data[i])
    BY <2>1, <2>2
  <2> QED BY <2>1, <2>2, <2>3 DEF Earned
<1>6. registry'.records = records /\ DOMAIN registry' = {"state", "records"}
  BY <1>3
<1> HIDE DEF records
<1> QED BY <1>1, <1>3, <1>4, <1>5, <1>6, MoveKeeps, StillEarned

LEMMA BindKeeps == ASSUME EarnedInv, NEW g \in Gates, Compiled!Bind(g) PROVE EarnedInv'
<1>1. UNCHANGED <<registry, earned, ran>>
  BY DEF Compiled!Bind, Compiled!Rest, Compiled!Ghosts
<1>2. PICK d : d = call[g] /\ Justified(d) /\ d \in Calls /\ d.pc = "bind"
  BY Called DEF Compiled!Bind
<1>3. CASE Compiled!Quarantined(d.src) = {}
  <2>1. Compiled!Set(g, Compiled!Idle)
    BY <1>2, <1>3 DEF Compiled!Bind
  <2> QED BY <1>1, <2>1, MoveKeeps, IdleJustified, StillEarned DEF EarnedInv
<1>4. CASE Compiled!Quarantined(d.src) # {}
  <2>1. Compiled!Quarantined(d.src) \subseteq DOMAIN registry.records
    BY DEF Compiled!Quarantined, Compiled!With
  <2>2. PICK i \in Compiled!Quarantined(d.src) : Compiled!Earliest(Compiled!Quarantined(d.src)) = registry.records[i]
    BY <1>4, <2>1, EarliestIsThere
  <2>3. PICK record : record = registry.records[i]
    OBVIOUS
  <2>4. record \in ExecutorRecords /\ record.src = d.src /\ record.status = "quarantined"
    BY <2>1, <2>2, <2>3 DEF EarnedInv, Earned, Compiled!Quarantined, Compiled!With
  <2>5. Compiled!Set(g, [d EXCEPT !.pc = "sandbox", !.record = record])
    BY <1>2, <1>4, <2>2, <2>3 DEF Compiled!Bind
  <2>6. Justified([d EXCEPT !.pc = "sandbox", !.record = record])
    BY <1>2, <2>4 DEF Justified, Calls, Places
  <2> QED BY <1>1, <2>5, <2>6, MoveKeeps, StillEarned DEF EarnedInv
<1> QED BY <1>3, <1>4

LEMMA SandboxKeeps == ASSUME EarnedInv, NEW g \in Gates, Compiled!Sandbox(g) PROVE EarnedInv'
<1>1. UNCHANGED <<registry, ran>>
  BY DEF Compiled!Sandbox, Compiled!Rest
<1>2. PICK d : d = call[g] /\ Justified(d) /\ d \in Calls /\ d.pc = "sandbox"
  BY Called DEF Compiled!Sandbox
<1>3. CASE (Compiled!Set(g, [d EXCEPT !.pc = "reject"]) \/ Compiled!Set(g, Compiled!Idle)) /\ UNCHANGED earned
  <2>1. Justified([d EXCEPT !.pc = "reject"])
    BY <1>2 DEF Justified, Calls, Places
  <2> QED BY <1>1, <1>3, <2>1, MoveKeeps, IdleJustified, StillEarned DEF EarnedInv
<1>4. CASE d.approval = "human" /\ Compiled!Set(g, [d EXCEPT !.pc = "activate"]) /\ earned' = earned \cup {d.src}
  <2>1. earned \subseteq earned' /\ ran' \subseteq earned'
    BY <1>1, <1>4 DEF EarnedInv
  <2>2. Justified(d)' /\ Earned(registry.records)'
    BY <1>1, <1>2, <2>1, EarnedGrows DEF EarnedInv
  <2>3. Justified([d EXCEPT !.pc = "activate"])'
    BY <1>2, <1>4, <2>2 DEF Justified, Calls, Places
  <2> QED BY <1>1, <1>4, <2>1, <2>2, <2>3, SetKeeps DEF EarnedInv
<1> QED BY <1>2, <1>3, <1>4 DEF Compiled!Sandbox, Compiled!Approved

LEMMA ReadRegistryKeeps == ASSUME EarnedInv, NEW g \in Gates, Compiled!ReadRegistry(g) PROVE EarnedInv'
<1>1. UNCHANGED <<registry, earned, ran>>
  BY DEF Compiled!ReadRegistry, Compiled!Rest, Compiled!Ghosts
<1>2. PICK d, records : d = call[g] /\ Justified(d) /\ d \in Calls /\ d.pc \in Compiled!Transitions /\ records = registry.records
  BY Called DEF Compiled!ReadRegistry
<1>3. Compiled!Set(g, Compiled!Idle) \/ Compiled!Set(g, [d EXCEPT !.data = records])
  BY <1>2 DEF Compiled!ReadRegistry
<1>4. Justified([d EXCEPT !.data = records])
  <2>1. Earned(records) /\ records \in Seq(ExecutorRecords)
    BY <1>2 DEF EarnedInv, Earned
  <2> QED BY <1>2, <2>1 DEF Justified, Calls
<1> QED BY <1>1, <1>3, <1>4, MoveKeeps, IdleJustified, StillEarned DEF EarnedInv

\* A transition leaves every other record as it was.
LEMMA TransitionedIs ==
    ASSUME NEW records \in Seq(ExecutorRecords), NEW record \in ExecutorRecords, NEW status, NEW receipt,
           Compiled!Record(record.src, status, receipt) \in ExecutorRecords
    PROVE  LET after == Compiled!Transitioned(records, record, status, receipt) IN
           /\ after \in Seq(ExecutorRecords) /\ DOMAIN after = DOMAIN records
           /\ \A i \in DOMAIN records :
                 /\ records[i] = record => after[i] = Compiled!Record(record.src, status, receipt)
                 /\ records[i] # record => after[i] = records[i]
<1> DEFINE after == Compiled!Transitioned(records, record, status, receipt)
<1>1. DOMAIN after = DOMAIN records /\ \A i \in DOMAIN records :
        after[i] = IF records[i] = record THEN Compiled!Record(record.src, status, receipt) ELSE records[i]
  BY DEF Compiled!Transitioned
<1>2. after \in [1 .. Len(records) -> ExecutorRecords]
  BY <1>1 DEF Compiled!Transitioned
<1> HIDE DEF after
<1>3. after \in Seq(ExecutorRecords)
  BY <1>2
<1> QED BY <1>1, <1>3 DEF after

\* What a write of a transition makes of the registry.
LEMMA WriteIs ==
    ASSUME EarnedInv, NEW g \in Gates, Compiled!WriteRegistry(g), NEW d, d = call[g]
    PROVE  /\ d \in Calls /\ Justified(d) /\ d.pc \in Compiled!Transitions
           /\ Compiled!Moved(d) \in ExecutorRecords /\ Compiled!Record(Compiled!Moved(d).src, Compiled!Status(d.pc), d.receipt) \in ExecutorRecords
           /\ registry'.records = Compiled!Transitioned(d.data, Compiled!Moved(d), Compiled!Status(d.pc), d.receipt)
           /\ Compiled!Status(d.pc) = "active" <=> d.pc = "activate"
           /\ Compiled!Status(d.pc) = "superseded" <=> d.pc = "supersede"
           /\ DOMAIN registry' = {"state", "records"}
<1>1. d \in Calls /\ Justified(d) /\ d.pc \in Compiled!Transitions
      /\ registry' = [state |-> "fine", records |-> Compiled!Transitioned(d.data, Compiled!Moved(d), Compiled!Status(d.pc), d.receipt)]
  BY Called DEF Compiled!WriteRegistry, Compiled!Written
<1>2. Compiled!Moved(d) \in ExecutorRecords
  BY <1>1 DEF Compiled!Moved, Justified, Calls, Compiled!Transitions
<1>3. \/ d.pc = "reject" /\ Compiled!Status(d.pc) = "rejected"
      \/ d.pc = "activate" /\ Compiled!Status(d.pc) = "active"
      \/ d.pc = "supersede" /\ Compiled!Status(d.pc) = "superseded"
  BY <1>1 DEF Compiled!Transitions, Compiled!Status
<1>4. Compiled!Record(Compiled!Moved(d).src, Compiled!Status(d.pc), d.receipt) \in ExecutorRecords
  BY <1>1, <1>2, <1>3 DEF Compiled!Record, ExecutorRecords, Calls
<1> QED BY <1>1, <1>2, <1>3, <1>4

LEMMA WriteRegistryKeeps == ASSUME EarnedInv, NEW g \in Gates, Compiled!WriteRegistry(g) PROVE EarnedInv'
<1>1. UNCHANGED <<earned, ran>>
  BY DEF Compiled!WriteRegistry, Compiled!Rest
<1>2. PICK d, next, records : d = call[g] /\ next = Compiled!After(d) /\ records = registry'.records
  OBVIOUS
<1>3. Compiled!Set(g, next)
  BY <1>2 DEF Compiled!WriteRegistry
<1>4. Justified(next)
  <2>1. Justified(d) /\ d \in Calls /\ Earned(<<>>)
    BY <1>2, Called DEF Earned
  <2>2. CASE d.pc = "activate" /\ d.active # None
    <3>1. next = [d EXCEPT !.pc = "supersede", !.data = <<>>] /\ <<>> \in Seq(ExecutorRecords)
      BY <1>2, <2>2 DEF Compiled!After
    <3>2. /\ next \in Calls /\ next.pc = "supersede" /\ next.data = <<>> /\ next.src = d.src
          /\ next.active = d.active /\ next.record = d.record
      BY <2>1, <3>1 DEF Calls, Places
    <3> QED BY <2>1, <2>2, <3>2 DEF Justified
  <2>3. CASE ~(d.pc = "activate" /\ d.active # None)
    BY <1>2, <2>3, IdleJustified DEF Compiled!After
  <2> QED BY <2>2, <2>3
<1>5. Earned(records)
  <2> DEFINE moved == Compiled!Moved(d)
             new == Compiled!Record(moved.src, Compiled!Status(d.pc), d.receipt)
  <2>1. d.data \in Seq(ExecutorRecords) /\ moved \in ExecutorRecords /\ new \in ExecutorRecords /\ Earned(d.data)
    BY <1>2, WriteIs DEF Justified, Earned
  <2>2. records = Compiled!Transitioned(d.data, moved, Compiled!Status(d.pc), d.receipt)
    BY <1>2, WriteIs
  <2>3. new.status = "active" => new.src \in earned
    <3>1. Justified(d)
      BY <1>2, WriteIs
    <3>2. d.pc = "activate" => moved.src = d.src /\ d.src \in earned
      BY <3>1 DEF Justified, Compiled!Moved
    <3>3. new.src = moved.src /\ new.status = Compiled!Status(d.pc)
      BY DEF Compiled!Record
    <3>4. new.status = "active" => d.pc = "activate"
      BY <1>2, <3>3, WriteIs
    <3> HIDE DEF new, moved
    <3> QED BY <3>2, <3>3, <3>4
  <2> HIDE DEF moved
  <2>4. /\ records \in Seq(ExecutorRecords) /\ DOMAIN records = DOMAIN d.data
        /\ \A i \in DOMAIN d.data : records[i] = new \/ records[i] = d.data[i]
    BY <2>1, <2>2, TransitionedIs
  <2> HIDE DEF new
  <2> QED BY <2>1, <2>3, <2>4 DEF Earned
<1>6. DOMAIN registry' = {"state", "records"}
  BY <1>2, WriteIs
<1> QED BY <1>1, <1>2, <1>3, <1>4, <1>5, <1>6, MoveKeeps, StillEarned

LEMMA EarnedInvInit == Compiled!Init => EarnedInv
<1> SUFFICES ASSUME Compiled!Init PROVE EarnedInv
  OBVIOUS
<1>1. registry = [state |-> "missing", records |-> <<>>] /\ call = [g \in Gates |-> Compiled!Idle] /\ ran = {}
  BY DEF Compiled!Init
<1> QED BY <1>1, IdleJustified DEF EarnedInv, Earned

LEMMA EarnedInvNext == EarnedInv /\ [Compiled!Next]_(Compiled!vars) => EarnedInv'
<1> SUFFICES ASSUME EarnedInv, [Compiled!Next]_(Compiled!vars) PROVE EarnedInv'
  OBVIOUS
<1>1. ASSUME NEW g \in Gates, Compiled!Crash(g) PROVE EarnedInv'
  <2>1. UNCHANGED <<earned, ran>> /\ Compiled!Set(g, Compiled!Idle)
    BY <1>1 DEF Compiled!Crash, Compiled!Ghosts
  <2>2. registry'.records = registry.records /\ DOMAIN registry' = {"state", "records"}
    BY <1>1 DEF Compiled!Crash, EarnedInv
  <2> QED BY <2>1, <2>2, MoveKeeps, IdleJustified, StillEarned DEF EarnedInv
<1>2. ASSUME UNCHANGED <<registry, call, earned>>, ran' \subseteq earned PROVE EarnedInv'
  <2>1. Earned(registry.records)' /\ \A g \in Gates : Justified(call[g])'
    BY <1>2, EarnedGrows DEF EarnedInv
  <2> QED BY <1>2, <2>1 DEF EarnedInv
<1>3. CASE Compiled!Run
  <2>1. Compiled!ActiveFor # None /\ ran' = ran \cup {Compiled!ActiveFor.src}
    BY <1>3 DEF Compiled!Run
  <2>2. Compiled!ActiveFor.src \in earned
    <3>1. Compiled!With("active") # {} /\ Compiled!With("active") \subseteq DOMAIN registry.records
      BY <2>1 DEF Compiled!ActiveFor, Compiled!With
    <3>2. PICK i \in Compiled!With("active") : Compiled!Earliest(Compiled!With("active")) = registry.records[i]
      BY <3>1, EarliestIsThere
    <3> QED BY <3>1, <3>2 DEF Compiled!ActiveFor, Compiled!With, EarnedInv, Earned
  <2> QED BY <1>2, <1>3, <2>1, <2>2 DEF Compiled!Run, Compiled!Rest, EarnedInv
<1>4. CASE Compiled!Reload
  BY <1>2, <1>4 DEF Compiled!Reload, Compiled!Ghosts, EarnedInv
<1>5. CASE Compiled!Change
  BY <1>2, <1>5 DEF Compiled!Change, Compiled!Ghosts, EarnedInv
<1>6. CASE UNCHANGED Compiled!vars
  BY <1>2, <1>6 DEF Compiled!vars, EarnedInv
<1> QED BY <1>1, <1>3, <1>4, <1>5, <1>6, EvaluateKeeps, WriteSourceKeeps, FindRecordKeeps,
           AppendRecordKeeps, BindKeeps, SandboxKeeps, ReadRegistryKeeps, WriteRegistryKeeps DEF Compiled!Next

LEMMA EarnedInvRuns == EarnedInv => Compiled!OnlyEarnedRun
BY DEF EarnedInv, Earned, Compiled!OnlyEarnedRun

-----------------------------------------------------------------------------
\* Active records of the source that was activated last; no record is active
\* before any was.
Serving(records, was) == {i \in DOMAIN records : records[i].status = "active" /\ records[i].src = was}
OneLasts(records, was) ==
    /\ was # None => Serving(records, was) # {}
    /\ was = None => \A i \in DOMAIN records : records[i].status # "active"

\* Where the only evaluation under way is: what it read is what is there, and
\* what it activates, which serves by the time the active one is superseded,
\* is not that one.
Activates(c) == Compiled!Record(c.src, "active", c.receipt)
Alone(c) ==
    c.pc # "idle" =>
        /\ c.active # Activates(c)
        /\ c.pc = "append" => c.data = registry.records
        /\ c.pc \notin Compiled!Transitions \cup {"append"} => c.data = <<>>
        /\ c.pc \in Compiled!Transitions =>
              \/ c.data = <<>>
              \/ /\ c.data = registry.records
                 /\ \E i \in DOMAIN registry.records : registry.records[i] = Compiled!Moved(c)
        /\ c.pc = "supersede" =>
              served = c.src /\ \E i \in DOMAIN registry.records : registry.records[i] = Activates(c)

LoneInv ==
    lone =>
        /\ \A g, h \in Gates : call[g].pc # "idle" /\ call[h].pc # "idle" => g = h
        /\ \A g \in Gates : Alone(call[g])
        /\ OneLasts(registry.records, served)

SourceInv ==
    /\ DOMAIN source = Procedures
    /\ \A p \in Procedures : source[p] \in {None, "other"} \cup {s \in Sources : CompiledFrom[s] = p}

LEMMA LoneInvInit == Compiled!Init => LoneInv
BY DEF Compiled!Init, LoneInv, Compiled!Idle, Alone, OneLasts

\* The only gate at work moves on, or ends; another gate is not at work.
LEMMA LoneMoves ==
    ASSUME EarnedInv, LoneInv, lone, NEW g \in Gates, NEW c, Compiled!Set(g, c), call[g].pc # "idle",
           Alone(c)', OneLasts(registry.records, served)'
    PROVE  LoneInv'
<1>1. \A h \in Gates : call'[h] = IF h = g THEN c ELSE call[h]
  BY DEF Compiled!Set, EarnedInv
<1>2. \A h \in Gates : h # g => call'[h].pc = "idle"
  BY <1>1 DEF LoneInv
<1>3. ASSUME NEW h \in Gates PROVE Alone(call[h])'
  <2>1. CASE h = g
    BY <1>1, <2>1
  <2>2. CASE h # g
    BY <1>2, <2>2 DEF Alone
  <2> QED BY <2>1, <2>2
<1> QED BY <1>2, <1>3 DEF LoneInv

LEMMA IdleAlone == Alone(Compiled!Idle)'
BY DEF Alone, Compiled!Idle

\* The same where the registry stays.
LEMMA LoneReads ==
    ASSUME EarnedInv, LoneInv, lone, NEW g \in Gates, NEW c, Compiled!Set(g, c), call[g].pc # "idle",
           Alone(c), UNCHANGED served, registry'.records = registry.records
    PROVE  LoneInv'
<1>1. Alone(c)'
  BY DEF Alone
<1>2. OneLasts(registry.records, served)'
  BY DEF LoneInv, OneLasts, Serving
<1> QED BY <1>1, <1>2, LoneMoves

LEMMA LoneEnds ==
    ASSUME EarnedInv, LoneInv, lone, NEW g \in Gates, Compiled!Set(g, Compiled!Idle), call[g].pc # "idle",
           UNCHANGED served, registry'.records = registry.records
    PROVE  LoneInv'
BY LoneReads DEF Alone, Compiled!Idle

\* No record of the executor that serves goes, and none becomes active.
LEMMA OthersLast ==
    ASSUME NEW records, NEW after, NEW was, OneLasts(records, was), DOMAIN records \subseteq DOMAIN after,
           \A i \in DOMAIN after : (i \in DOMAIN records /\ after[i] = records[i]) \/ after[i].status # "active",
           \A i \in DOMAIN records : records[i].status = "active" => after[i] = records[i]
    PROVE  OneLasts(after, was)
BY DEF OneLasts, Serving

LEMMA AppendLasts ==
    ASSUME NEW records \in Seq(ExecutorRecords), NEW record \in ExecutorRecords, record.status = "quarantined",
           NEW was, OneLasts(records, was)
    PROVE  OneLasts(Append(records, record), was)
<1> DEFINE more == Append(records, record)
<1>1. /\ DOMAIN records \subseteq DOMAIN more
      /\ \A i \in DOMAIN more : more[i] = record \/ (i \in DOMAIN records /\ more[i] = records[i])
      /\ \A i \in DOMAIN records : more[i] = records[i]
  OBVIOUS
<1> HIDE DEF more
<1>2. OneLasts(more, was)
  BY <1>1, OthersLast
<1> QED BY <1>2 DEF more

LEMMA RejectLasts ==
    ASSUME NEW records \in Seq(ExecutorRecords), NEW record \in ExecutorRecords, record.status = "quarantined",
           NEW receipt \in Nat, NEW was, OneLasts(records, was)
    PROVE  OneLasts(Compiled!Transitioned(records, record, "rejected", receipt), was)
<1> DEFINE after == Compiled!Transitioned(records, record, "rejected", receipt)
           new == Compiled!Record(record.src, "rejected", receipt)
<1>1. new \in ExecutorRecords /\ new.status = "rejected"
  BY DEF Compiled!Record, ExecutorRecords
<1> HIDE DEF new
<1>2. /\ DOMAIN after = DOMAIN records
      /\ \A i \in DOMAIN records : /\ records[i] = record => after[i] = new
                                   /\ records[i] # record => after[i] = records[i]
  BY <1>1, TransitionedIs DEF new
<1> HIDE DEF after
<1>3. OneLasts(after, was)
  BY <1>1, <1>2, OthersLast
<1> QED BY <1>3 DEF after

LEMMA ActivateLasts ==
    ASSUME NEW records \in Seq(ExecutorRecords), NEW record \in ExecutorRecords, NEW receipt \in Nat,
           NEW k \in DOMAIN records, records[k] = record
    PROVE  LET after == Compiled!Transitioned(records, record, "active", receipt) IN
           /\ OneLasts(after, record.src)
           /\ k \in DOMAIN after /\ after[k] = Compiled!Record(record.src, "active", receipt)
<1> DEFINE after == Compiled!Transitioned(records, record, "active", receipt)
           new == Compiled!Record(record.src, "active", receipt)
<1>1. new \in ExecutorRecords /\ new.status = "active" /\ new.src = record.src
  BY DEF Compiled!Record, ExecutorRecords
<1> HIDE DEF new
<1>2. DOMAIN after = DOMAIN records /\ after[k] = new
  BY <1>1, TransitionedIs DEF new
<1> HIDE DEF after
<1>3. record.src # None
  BY ExecutorsNames DEF ExecutorRecords
<1>4. OneLasts(after, record.src)
  BY <1>1, <1>2, <1>3 DEF OneLasts, Serving
<1> QED BY <1>2, <1>4 DEF after, new

\* What is superseded is not the record that serves.
LEMMA SupersedeLasts ==
    ASSUME NEW records \in Seq(ExecutorRecords), NEW old \in ExecutorRecords, NEW receipt \in Nat,
           NEW k \in DOMAIN records, records[k].status = "active", records[k] # old
    PROVE  OneLasts(Compiled!Transitioned(records, old, "superseded", receipt), records[k].src)
<1> DEFINE after == Compiled!Transitioned(records, old, "superseded", receipt)
<1>1. Compiled!Record(old.src, "superseded", receipt) \in ExecutorRecords
  BY DEF Compiled!Record, ExecutorRecords
<1>2. DOMAIN after = DOMAIN records /\ after[k] = records[k]
  BY <1>1, TransitionedIs
<1> HIDE DEF after
<1>3. records[k].src # None
  BY EachIsARecord, ExecutorsNames
<1>4. OneLasts(after, records[k].src)
  BY <1>2, <1>3 DEF OneLasts, Serving
<1> QED BY <1>4 DEF after

LEMMA EvaluateLone ==
    ASSUME EarnedInv, LoneInv, NEW g \in Gates, NEW s \in Sources, NEW a \in Compiled!Approvals, NEW at \in Compiled!Times,
           Compiled!Evaluate(g, s, a, at)
    PROVE  LoneInv'
<1> SUFFICES ASSUME lone' PROVE LoneInv'
  BY DEF LoneInv
<1>1. PICK active : active = Compiled!ActiveFor
  OBVIOUS
<1> DEFINE c == [Compiled!Idle EXCEPT !.pc = "source", !.src = s, !.approval = a, !.active = active, !.receipt = at]
<1>2. /\ lone /\ \A h \in Gates : call[h].pc = "idle"
      /\ active # Compiled!Record(s, "active", at)
      /\ UNCHANGED <<registry, served>> /\ Compiled!Set(g, c)
  BY <1>1 DEF Compiled!Evaluate, Compiled!Ghosts
<1>3. c.pc = "source" /\ c.data = <<>> /\ c.src = s /\ c.receipt = at /\ c.active = active
  BY DEF Compiled!Idle
<1> HIDE DEF c
<1>4. \A h \in Gates : call'[h] = IF h = g THEN c ELSE call[h]
  BY <1>2 DEF Compiled!Set, EarnedInv
<1>5. Alone(c)'
  BY <1>2, <1>3 DEF Alone, Activates, Compiled!Transitions
<1>6. \A h \in Gates : Alone(call[h])'
  <2> TAKE h \in Gates
  <2>1. CASE h = g
    BY <1>4, <1>5, <2>1
  <2>2. CASE h # g
    BY <1>2, <1>4, <2>2 DEF Alone
  <2> QED BY <2>1, <2>2
<1>7. OneLasts(registry.records, served)'
  BY <1>2 DEF LoneInv
<1> QED BY <1>2, <1>4, <1>6, <1>7 DEF LoneInv

LEMMA ReadsLone ==
    ASSUME EarnedInv, LoneInv, NEW g \in Gates,
           Compiled!WriteSource(g) \/ Compiled!FindRecord(g) \/ Compiled!Bind(g) \/ Compiled!Sandbox(g) \/ Compiled!ReadRegistry(g)
    PROVE  LoneInv'
<1>1. UNCHANGED <<registry, served, lone>>
  BY DEF Compiled!WriteSource, Compiled!FindRecord, Compiled!Bind, Compiled!Sandbox, Compiled!ReadRegistry, Compiled!Rest, Compiled!Ghosts
<1> SUFFICES ASSUME lone PROVE LoneInv'
  BY <1>1 DEF LoneInv
<1>2. PICK d : d = call[g] /\ d \in Calls /\ Alone(d) /\ Justified(d)
  BY Called DEF LoneInv
<1>3. CASE Compiled!WriteSource(g)
  <2>1. d.pc = "source" /\ (Compiled!Set(g, [d EXCEPT !.pc = "record"]) \/ Compiled!Set(g, Compiled!Idle))
    BY <1>2, <1>3 DEF Compiled!WriteSource
  <2>2. Alone([d EXCEPT !.pc = "record"])
    BY <1>2, <2>1 DEF Alone, Activates, Calls, Compiled!Transitions
  <2> QED BY <1>1, <1>2, <2>1, <2>2, LoneReads, LoneEnds
<1>4. CASE Compiled!FindRecord(g)
  <2>1. PICK records : records = registry.records
    OBVIOUS
  <2>2. /\ d.pc = "record"
        /\ \/ Compiled!Set(g, Compiled!Idle) \/ Compiled!Set(g, [d EXCEPT !.pc = "bind"])
           \/ Compiled!Set(g, [d EXCEPT !.pc = "append", !.data = records])
    BY <1>2, <1>4, <2>1 DEF Compiled!FindRecord
  <2>3. Alone([d EXCEPT !.pc = "bind"]) /\ Alone([d EXCEPT !.pc = "append", !.data = records])
    BY <1>2, <2>1, <2>2 DEF Alone, Activates, Calls, Compiled!Transitions
  <2> QED BY <1>1, <1>2, <2>2, <2>3, LoneReads, LoneEnds
<1>5. CASE Compiled!Bind(g)
  <2>1. d.pc = "bind" /\ (Compiled!Set(g, Compiled!Idle) \/ \E record : Compiled!Set(g, [d EXCEPT !.pc = "sandbox", !.record = record]))
    BY <1>2, <1>5 DEF Compiled!Bind
  <2>2. \A record : Alone([d EXCEPT !.pc = "sandbox", !.record = record])
    BY <1>2, <2>1 DEF Alone, Activates, Calls, Compiled!Transitions
  <2> QED BY <1>1, <1>2, <2>1, <2>2, LoneReads, LoneEnds
<1>6. CASE Compiled!Sandbox(g)
  <2>1. d.pc = "sandbox" /\ (Compiled!Set(g, Compiled!Idle) \/ \E p \in {"reject", "activate"} : Compiled!Set(g, [d EXCEPT !.pc = p]))
    BY <1>2, <1>6 DEF Compiled!Sandbox
  <2>2. d.data = <<>>
    BY <1>2, <2>1 DEF Alone, Compiled!Transitions
  <2>3. \A p \in {"reject", "activate"} : Alone([d EXCEPT !.pc = p])
    BY <1>2, <2>1, <2>2 DEF Alone, Activates, Calls, Compiled!Transitions
  <2> QED BY <1>1, <1>2, <2>1, <2>3, LoneReads, LoneEnds
<1>7. CASE Compiled!ReadRegistry(g)
  <2>1. PICK records : records = registry.records
    OBVIOUS
  <2>2. /\ d.pc \in Compiled!Transitions
        /\ \/ Compiled!Set(g, Compiled!Idle)
           \/ /\ Compiled!Set(g, [d EXCEPT !.data = records])
              /\ \E i \in DOMAIN registry.records : registry.records[i] = Compiled!Moved(d)
    BY <1>2, <1>7, <2>1 DEF Compiled!ReadRegistry
  <2>3. CASE Compiled!Set(g, Compiled!Idle)
    BY <1>1, <1>2, <2>2, <2>3, LoneEnds DEF Compiled!Transitions
  <2>4. CASE /\ Compiled!Set(g, [d EXCEPT !.data = records])
             /\ \E i \in DOMAIN registry.records : registry.records[i] = Compiled!Moved(d)
    <3> DEFINE c == [d EXCEPT !.data = records]
    <3>1. /\ c.pc = d.pc /\ c.receipt = d.receipt /\ c.src = d.src /\ c.active = d.active
          /\ c.record = d.record /\ c.data = records
      BY <1>2 DEF Calls
    <3>2. Compiled!Moved(c) = Compiled!Moved(d)
      BY <3>1 DEF Compiled!Moved
    <3> HIDE DEF c
    <3>3. Alone(c)
      BY <1>2, <2>1, <2>2, <2>4, <3>1, <3>2 DEF Alone, Activates, Compiled!Transitions
    <3> QED BY <1>1, <1>2, <2>2, <2>4, <3>3, LoneReads DEF c, Compiled!Transitions
  <2> QED BY <2>2, <2>3, <2>4
<1> QED BY <1>3, <1>4, <1>5, <1>6, <1>7

LEMMA AppendLone == ASSUME EarnedInv, LoneInv, NEW g \in Gates, Compiled!AppendRecord(g) PROVE LoneInv'
<1>1. UNCHANGED <<served, lone>>
  BY DEF Compiled!AppendRecord, Compiled!Rest, Compiled!Ghosts
<1> SUFFICES ASSUME lone PROVE LoneInv'
  BY <1>1 DEF LoneInv
<1>2. PICK d, records : d = call[g] /\ d \in Calls /\ Alone(d) /\ Justified(d) /\ d.pc = "append" /\ records = registry.records
  BY Called DEF LoneInv, Compiled!AppendRecord
<1> DEFINE record == Compiled!Record(d.src, "quarantined", 0)
           c == [d EXCEPT !.pc = "bind", !.data = <<>>]
<1>3. Compiled!Set(g, c) /\ registry'.records = Append(records, record)
  BY <1>2 DEF Compiled!AppendRecord, Compiled!Written, Alone
<1>4. record \in ExecutorRecords /\ record.status = "quarantined"
  BY <1>2 DEF Justified, Compiled!Record, ExecutorRecords
<1>5. records \in Seq(ExecutorRecords)
  BY <1>2 DEF EarnedInv, Earned
<1>6. c.pc = "bind" /\ c.receipt = d.receipt /\ c.data = <<>> /\ c.src = d.src /\ c.active = d.active
  BY <1>2 DEF Calls
<1> HIDE DEF record, c
<1>7. Alone(c)'
  BY <1>2, <1>6 DEF Alone, Activates, Compiled!Transitions
<1>8. OneLasts(registry.records, served)'
  BY <1>1, <1>2, <1>3, <1>4, <1>5, AppendLasts DEF LoneInv
<1> QED BY <1>2, <1>3, <1>7, <1>8, LoneMoves

LEMMA WriteLone == ASSUME EarnedInv, LoneInv, NEW g \in Gates, Compiled!WriteRegistry(g) PROVE LoneInv'
<1>1. UNCHANGED lone /\ served' = IF call[g].pc = "activate" THEN call[g].src ELSE served
  BY DEF Compiled!WriteRegistry, Compiled!Rest
<1> SUFFICES ASSUME lone PROVE LoneInv'
  BY <1>1 DEF LoneInv
<1>2. PICK d, records : d = call[g] /\ d \in Calls /\ Alone(d) /\ Justified(d) /\ records = registry.records
  BY Called DEF LoneInv
<1>3. /\ d.pc \in Compiled!Transitions /\ d.data = records /\ records \in Seq(ExecutorRecords)
      /\ registry'.records = Compiled!Transitioned(records, Compiled!Moved(d), Compiled!Status(d.pc), d.receipt)
      /\ Compiled!Moved(d) \in ExecutorRecords /\ Compiled!Set(g, Compiled!After(d)) /\ d.data # <<>> /\ d.receipt \in Nat
  BY <1>2, WriteIs DEF Compiled!WriteRegistry, Alone, Compiled!Transitions, EarnedInv, Earned, Calls
<1>4. OneLasts(records, served)
  BY <1>2 DEF LoneInv
<1>5. CASE d.pc = "reject"
  <2>1. Compiled!Moved(d).status = "quarantined" /\ Compiled!Status(d.pc) = "rejected" /\ Compiled!After(d) = Compiled!Idle
    BY <1>2, <1>5 DEF Compiled!Moved, Justified, Compiled!Status, Compiled!After
  <2>2. OneLasts(registry.records, served)'
    BY <1>1, <1>2, <1>3, <1>4, <1>5, <2>1, RejectLasts
  <2> QED BY <1>2, <1>3, <1>5, <2>1, <2>2, LoneMoves, IdleAlone
<1>6. CASE d.pc = "activate"
  <2>1. Compiled!Moved(d) = d.record /\ Compiled!Status(d.pc) = "active" /\ d.record.src = d.src /\ served' = d.src
    BY <1>1, <1>2, <1>6 DEF Compiled!Moved, Compiled!Status, Justified
  <2>2. PICK k \in DOMAIN records : records[k] = Compiled!Moved(d)
    BY <1>2, <1>3, <1>6 DEF Alone
  <2>3. PICK record, receipt : record = Compiled!Moved(d) /\ receipt = d.receipt
    OBVIOUS
  <2>4. /\ OneLasts(registry'.records, d.src)
        /\ k \in DOMAIN registry'.records /\ registry'.records[k] = Activates(d)
    <3>1. record \in ExecutorRecords /\ receipt \in Nat /\ record.src = d.src /\ records[k] = record
      BY <1>3, <2>1, <2>2, <2>3
    <3>2. PICK after : after = Compiled!Transitioned(records, record, "active", receipt)
      OBVIOUS
    <3>3. OneLasts(after, record.src) /\ k \in DOMAIN after /\ after[k] = Compiled!Record(record.src, "active", receipt)
      BY <1>3, <3>1, <3>2, ActivateLasts
    <3>4. registry'.records = after
      BY <1>3, <2>1, <2>3, <3>2
    <3> QED BY <2>3, <3>1, <3>3, <3>4 DEF Activates
  <2>5. OneLasts(registry.records, served)'
    BY <2>1, <2>4
  <2>6. CASE d.active = None
    <3>1. Compiled!After(d) = Compiled!Idle
      BY <2>6 DEF Compiled!After
    <3> QED BY <1>2, <1>3, <1>6, <2>5, <3>1, LoneMoves, IdleAlone
  <2>7. CASE d.active # None
    <3> DEFINE c == [d EXCEPT !.pc = "supersede", !.data = <<>>]
    <3>1. /\ Compiled!After(d) = c /\ c.pc = "supersede" /\ c.data = <<>>
          /\ c.src = d.src /\ c.receipt = d.receipt /\ c.active = d.active
      BY <1>2, <1>6, <2>7 DEF Compiled!After, Calls
    <3> HIDE DEF c
    <3>2. Activates(c) = Activates(d) /\ c.active # Activates(c)
      BY <1>2, <1>6, <3>1 DEF Alone, Activates
    <3>3. Alone(c)'
      BY <2>1, <2>4, <3>1, <3>2 DEF Alone, Activates, Compiled!Transitions
    <3> QED BY <1>2, <1>3, <1>6, <2>5, <3>1, <3>3, LoneMoves
  <2> QED BY <2>6, <2>7
<1>7. CASE d.pc = "supersede"
  <2>1. Compiled!Moved(d) = d.active /\ Compiled!Status(d.pc) = "superseded" /\ Compiled!After(d) = Compiled!Idle
    BY <1>7 DEF Compiled!Moved, Compiled!Status, Compiled!After
  <2>2. PICK k \in DOMAIN records : records[k] = Activates(d) /\ served = d.src /\ d.active # Activates(d)
    BY <1>2, <1>7 DEF Alone
  <2>3. records[k].status = "active" /\ records[k].src = served
    BY <2>2 DEF Activates, Compiled!Record
  <2>4. OneLasts(registry'.records, served)
    BY <1>3, <2>1, <2>2, <2>3, SupersedeLasts
  <2>5. OneLasts(registry.records, served)'
    BY <1>1, <1>2, <1>7, <2>4
  <2> QED BY <1>2, <1>3, <1>7, <2>1, <2>5, LoneMoves, IdleAlone
<1> QED BY <1>3, <1>5, <1>6, <1>7 DEF Compiled!Transitions

LEMMA LoneInvNext == EarnedInv /\ LoneInv /\ [Compiled!Next]_(Compiled!vars) => LoneInv'
<1> SUFFICES ASSUME EarnedInv, LoneInv, [Compiled!Next]_(Compiled!vars) PROVE LoneInv'
  OBVIOUS
<1>1. ASSUME NEW g \in Gates, Compiled!Crash(g) PROVE LoneInv'
  <2>1. UNCHANGED <<served, lone>> /\ Compiled!Set(g, Compiled!Idle) /\ call[g].pc # "idle"
    BY <1>1 DEF Compiled!Crash, Compiled!Ghosts
  <2>2. registry'.records = registry.records
    BY <1>1 DEF Compiled!Crash, EarnedInv
  <2> SUFFICES ASSUME lone PROVE LoneInv'
    BY <2>1 DEF LoneInv
  <2> QED BY <2>1, <2>2, LoneEnds
<1>2. ASSUME UNCHANGED <<registry, call, lone, served>> PROVE LoneInv'
  BY <1>2 DEF LoneInv, Alone
<1>3. CASE Compiled!Run \/ Compiled!Reload \/ Compiled!Change
  BY <1>2, <1>3 DEF Compiled!Run, Compiled!Reload, Compiled!Change, Compiled!Rest, Compiled!Ghosts
<1>4. CASE UNCHANGED Compiled!vars
  BY <1>2, <1>4 DEF Compiled!vars
<1> QED BY <1>1, <1>3, <1>4, EvaluateLone, ReadsLone, AppendLone, WriteLone DEF Compiled!Next

LEMMA LoneInvSwaps == LoneInv => Compiled!SwapsLeaveOne
BY DEF LoneInv, OneLasts, Serving, Compiled!SwapsLeaveOne, Compiled!With

LEMMA SourceInvNext == EarnedInv /\ SourceInv /\ [Compiled!Next]_(Compiled!vars) => SourceInv'
<1> SUFFICES ASSUME EarnedInv, SourceInv, [Compiled!Next]_(Compiled!vars) PROVE SourceInv'
  OBVIOUS
<1>1. ASSUME NEW g \in Gates, Compiled!WriteSource(g) PROVE SourceInv'
  <2>1. PICK d : d = call[g] /\ d.src \in Sources
    BY <1>1, Called DEF Compiled!WriteSource, Justified
  <2>2. source' = source \/ source' = [source EXCEPT ![CompiledFrom[d.src]] = d.src]
    BY <1>1, <2>1 DEF Compiled!WriteSource
  <2> QED BY <2>1, <2>2, ExecutorsNames DEF SourceInv
<1>2. CASE Compiled!Change
  <2>1. \/ source' = source
        \/ \E p \in Procedures : source' \in {[source EXCEPT ![p] = t] : t \in {None, "other"}}
    BY <1>2 DEF Compiled!Change
  <2> QED BY <2>1 DEF SourceInv
<1>3. ASSUME UNCHANGED source PROVE SourceInv'
  BY <1>3 DEF SourceInv
<1>4. ASSUME NEW g \in Gates,
             \/ \E s \in Sources, a \in Compiled!Approvals, at \in Compiled!Times : Compiled!Evaluate(g, s, a, at)
             \/ Compiled!FindRecord(g) \/ Compiled!AppendRecord(g) \/ Compiled!Bind(g) \/ Compiled!Sandbox(g)
             \/ Compiled!ReadRegistry(g) \/ Compiled!WriteRegistry(g) \/ Compiled!Crash(g)
      PROVE  SourceInv'
  BY <1>3, <1>4 DEF Compiled!Evaluate, Compiled!FindRecord, Compiled!AppendRecord, Compiled!Bind, Compiled!Sandbox, Compiled!ReadRegistry, Compiled!WriteRegistry, Compiled!Crash
<1>5. CASE Compiled!Run \/ Compiled!Reload \/ UNCHANGED Compiled!vars
  BY <1>3, <1>5 DEF Compiled!Run, Compiled!Reload, Compiled!vars
<1> QED BY <1>1, <1>2, <1>4, <1>5 DEF Compiled!Next

LEMMA DoctorSees ==
    ASSUME OneSourceEach, EarnedInv, LoneInv, SourceInv, procedure \in Procedures
    PROVE  Compiled!DoctorTells
<1> SUFFICES ASSUME lone, \A g \in Gates : call[g].pc = "idle",
                    ~Compiled!Unreadable, ~Compiled!Doubled, ~Compiled!SourceMissing, ~Compiled!SpecStale, Compiled!ActiveFor # None,
                    source[procedure] # "other"
             PROVE  Compiled!ActiveFor.src = served /\ Compiled!ActiveFor.src = source[procedure]
  BY DEF Compiled!DoctorTells
<1>1. Compiled!With("active") # {} /\ Compiled!With("active") \subseteq DOMAIN registry.records
  BY DEF Compiled!ActiveFor, Compiled!With
<1>2. PICK i \in Compiled!With("active") : Compiled!Earliest(Compiled!With("active")) = registry.records[i]
  BY <1>1, EarliestIsThere
<1>3. Compiled!ActiveFor = registry.records[i]
  BY <1>1, <1>2 DEF Compiled!ActiveFor
<1>4. PICK k \in DOMAIN registry.records : k \in Serving(registry.records, served)
  BY <1>1 DEF LoneInv, OneLasts, Serving, Compiled!With
<1>5. k = i
  BY <1>2, <1>4 DEF Serving, Compiled!With, Compiled!Doubled
<1>6. Compiled!ActiveFor.src = served
  BY <1>3, <1>4, <1>5 DEF Serving
<1>7. Compiled!ActiveFor.src \in Sources
  BY <1>1, <1>2, <1>3, EachIsARecord DEF EarnedInv, Earned
<1>8. CompiledFrom[Compiled!ActiveFor.src] = procedure /\ source[procedure] # None
  BY <1>2, <1>3 DEF Compiled!SpecStale, Compiled!SourceMissing
<1>9. source[procedure] \in Sources /\ CompiledFrom[source[procedure]] = procedure
  BY <1>8 DEF SourceInv
<1> QED BY <1>6, <1>7, <1>8, <1>9 DEF OneSourceEach

(***************************************************************************)
(* The packs.                                                              *)
(***************************************************************************)

\* What the files, the processes and the lists of writes are made of.
Partial(S) == UNION {[D -> S] : D \in SUBSET Entries}
EntryFiles == [status : Pack!Statuses \cup {"odd", "torn", "garbled"}, quar : BOOLEAN, help : Int, harm : Int]
Listings == [status : Pack!Statuses, help : Int, harm : Int, streak : Int]
Holdings == [status : Pack!Statuses, quar : BOOLEAN, help : Int, harm : Int, streak : Int]
Checks == [valid : BOOLEAN, retired : BOOLEAN]
Memories == [open : BOOLEAN, batch : BOOLEAN, has : Partial(Holdings), probes : Partial(Checks),
             vec : SUBSET Entries]
EntryWrites == [file : {"md", "judge"}, id : Entries]
Writes == EntryWrites \cup [file : {"manifest", "probes", "vectors"}]
Rounds == [pc : {"off", "entries", "vectors", "probes", "done"}, left : SUBSET Entries,
           misnamed : SUBSET Entries, good : Partial(EntryFiles)]

Listed(t) == {t[i] : i \in DOMAIN t}

\* The writes of entries are of entries in memory.
Writable(m, t) ==
    /\ t \in Seq(Writes)
    /\ \A w \in Listed(t) : w.file \in {"md", "judge"} => w.id \in DOMAIN m.has

FilesInv ==
    /\ md \in Partial(EntryFiles) /\ strays \in Partial(EntryFiles)
    /\ manifest \in [state : {"missing", "fine", "torn"}, has : Partial(Listings)]
    /\ manifest.state = "missing" => DOMAIN manifest.has = {}
    /\ probes \in [bad : BOOLEAN, of : Partial(Checks)]
    /\ vectors \in [torn : BOOLEAN, of : SUBSET Entries]

ProcsInv ==
    /\ mem \in [Procs -> Memories] /\ todo \in [Procs -> Seq(Writes)]
    /\ \A p \in Procs : Writable(mem[p], todo[p]) /\ (~mem[p].open => todo[p] = <<>>)
    /\ doctor \in Rounds /\ faults \in Nat

TypeInv == FilesInv /\ ProcsInv

(***************************************************************************)
(* Functions on some of the entries.                                       *)

LEMMA PartialIs ==
    ASSUME NEW S, NEW f
    PROVE  f \in Partial(S) <=> DOMAIN f \subseteq Entries /\ f \in [DOMAIN f -> S]
BY DEF Partial

LEMMA PartialEach ==
    ASSUME NEW S, NEW f \in Partial(S)
    PROVE  /\ DOMAIN f \subseteq Entries /\ f = [e \in DOMAIN f |-> f[e]]
           /\ \A e \in DOMAIN f : f[e] \in S /\ e \in Entries
BY PartialIs

LEMMA WithIs ==
    ASSUME NEW S, NEW f \in Partial(S), NEW e \in Entries, NEW v \in S
    PROVE  /\ Pack!With(f, e, v) \in Partial(S) /\ DOMAIN Pack!With(f, e, v) = DOMAIN f \cup {e}
           /\ Pack!With(f, e, v)[e] = v /\ \A d \in DOMAIN f : d # e => Pack!With(f, e, v)[d] = f[d]
<1>1. DOMAIN f \subseteq Entries /\ \A d \in DOMAIN f : f[d] \in S
  BY PartialEach
<1>2. Pack!With(f, e, v) \in [DOMAIN f \cup {e} -> S]
  BY <1>1 DEF Pack!With
<1>3. DOMAIN f \cup {e} \in SUBSET Entries
  BY <1>1
<1> QED BY <1>2, <1>3 DEF Pack!With, Partial

LEMMA RestrictIs ==
    ASSUME NEW S, NEW f \in Partial(S), NEW D, D \subseteq DOMAIN f
    PROVE  /\ Pack!Restrict(f, D) \in Partial(S) /\ DOMAIN Pack!Restrict(f, D) = D
           /\ \A d \in D : Pack!Restrict(f, D)[d] = f[d]
<1>1. DOMAIN f \subseteq Entries /\ \A d \in DOMAIN f : f[d] \in S
  BY PartialEach
<1>2. Pack!Restrict(f, D) \in [D -> S] /\ D \in SUBSET Entries
  BY <1>1 DEF Pack!Restrict
<1> QED BY <1>2 DEF Pack!Restrict, Partial

LEMMA MapIs ==
    ASSUME NEW S, NEW D \in SUBSET Entries, NEW f, f \in [D -> S]
    PROVE  f \in Partial(S)
BY DEF Partial

LEMMA ExceptIs ==
    ASSUME NEW S, NEW f \in Partial(S), NEW e, NEW v \in S
    PROVE  /\ [f EXCEPT ![e] = v] \in Partial(S) /\ DOMAIN [f EXCEPT ![e] = v] = DOMAIN f
           /\ e \in DOMAIN f => [f EXCEPT ![e] = v][e] = v
           /\ \A d \in DOMAIN f : d # e => [f EXCEPT ![e] = v][d] = f[d]
<1>1. DOMAIN f \in SUBSET Entries /\ \A d \in DOMAIN f : f[d] \in S
  BY PartialEach
<1>2. [f EXCEPT ![e] = v] \in [DOMAIN f -> S]
  BY <1>1, PartialIs
<1> QED BY <1>1, <1>2, MapIs

LEMMA EmptyIs == ASSUME NEW S PROVE Pack!Empty \in Partial(S) /\ DOMAIN Pack!Empty = {}
BY DEF Pack!Empty, Partial

LEMMA EmptyIsAll == ASSUME NEW S, NEW f \in Partial(S), DOMAIN f = {} PROVE f = Pack!Empty
<1>1. f = [e \in {} |-> f[e]]
  BY PartialEach
<1> QED BY <1>1 DEF Pack!Empty

(***************************************************************************)
(* Writes.                                                                 *)

Pends(m, t, f) == m.batch \/ \E w \in Listed(t) : w.file = f

LEMMA WriteOf ==
    ASSUME NEW e \in Entries
    PROVE  /\ Pack!Md(e) \in Writes /\ Pack!Judge(e) \in Writes
           /\ Pack!Md(e).file = "md" /\ Pack!Md(e).id = e /\ Pack!Judge(e).file = "judge" /\ Pack!Judge(e).id = e
BY DEF Pack!Md, Pack!Judge, Writes, EntryWrites

LEMMA OneIs == ASSUME NEW w \in Writes PROVE <<w>> \in Seq(Writes) /\ Listed(<<w>>) = {w}
BY DEF Listed

LEMMA NoneIs == <<>> \in Seq(Writes) /\ Listed(<<>>) = {}
BY DEF Listed

LEMMA OneOfIs ==
    ASSUME NEW f \in {"manifest", "probes", "vectors"}
    PROVE  Pack!OneOf(f) \in Seq(Writes) /\ \E w \in Writes : w.file = f /\ Listed(Pack!OneOf(f)) = {w}
<1>1. [file |-> f] \in Writes
  BY DEF Writes
<1> QED BY <1>1, OneIs DEF Pack!OneOf

\* Lists of writes, one after another.
LEMMA Joined ==
    ASSUME NEW s \in Seq(Writes), NEW t \in Seq(Writes)
    PROVE  s \o t \in Seq(Writes) /\ Listed(s \o t) = Listed(s) \cup Listed(t)
<1>1. /\ s \o t \in Seq(Writes) /\ Len(s \o t) = Len(s) + Len(t)
      /\ \A i \in 1 .. Len(s) : (s \o t)[i] = s[i]
      /\ \A i \in Len(s) + 1 .. Len(s) + Len(t) : (s \o t)[i] = t[i - Len(s)]
  OBVIOUS
<1>2. ASSUME NEW i \in DOMAIN (s \o t)
      PROVE  \/ \E j \in DOMAIN s : (s \o t)[i] = s[j]
             \/ \E j \in DOMAIN t : (s \o t)[i] = t[j]
  <2>1. i \in 1 .. Len(s) \/ i \in Len(s) + 1 .. Len(s) + Len(t)
    BY <1>1
  <2>2. CASE i \in 1 .. Len(s)
    BY <1>1, <2>2
  <2>3. CASE i \in Len(s) + 1 .. Len(s) + Len(t)
    <3>1. i - Len(s) \in DOMAIN t /\ (s \o t)[i] = t[i - Len(s)]
      BY <1>1, <2>3
    <3> QED BY <3>1
  <2> QED BY <2>1, <2>2, <2>3
<1>3. ASSUME NEW j \in DOMAIN s PROVE \E i \in DOMAIN (s \o t) : (s \o t)[i] = s[j]
  BY <1>1
<1>4. ASSUME NEW j \in DOMAIN t PROVE \E i \in DOMAIN (s \o t) : (s \o t)[i] = t[j]
  <2>1. j + Len(s) \in DOMAIN (s \o t) /\ (s \o t)[j + Len(s)] = t[j]
    BY <1>1
  <2> QED BY <2>1
<1>5. Listed(s \o t) = Listed(s) \cup Listed(t)
  <2>1. Listed(s \o t) \subseteq Listed(s) \cup Listed(t)
    BY <1>2 DEF Listed
  <2>2. Listed(s) \subseteq Listed(s \o t)
    BY <1>3 DEF Listed
  <2>3. Listed(t) \subseteq Listed(s \o t)
    BY <1>4 DEF Listed
  <2> QED BY <2>1, <2>2, <2>3
<1> QED BY <1>1, <1>5

\* The first write and the rest.
LEMMA FirstAndRest ==
    ASSUME NEW t \in Seq(Writes), t # <<>>
    PROVE  /\ Head(t) \in Writes /\ Tail(t) \in Seq(Writes)
           /\ Listed(t) = {Head(t)} \cup Listed(Tail(t))
<1>1. Head(t) = t[1] /\ 1 \in DOMAIN t /\ t[1] \in Writes
  OBVIOUS
<1>2. /\ Tail(t) \in Seq(Writes) /\ Len(Tail(t)) = Len(t) - 1
      /\ \A i \in 1 .. Len(t) - 1 : Tail(t)[i] = t[i + 1]
  OBVIOUS
<1>3. ASSUME NEW i \in DOMAIN t PROVE t[i] = Head(t) \/ \E j \in DOMAIN Tail(t) : t[i] = Tail(t)[j]
  <2>1. CASE i = 1
    BY <1>1, <2>1
  <2>2. CASE i # 1
    <3>1. i - 1 \in DOMAIN Tail(t) /\ Tail(t)[i - 1] = t[i]
      BY <1>2, <2>2
    <3> QED BY <3>1
  <2> QED BY <2>1, <2>2
<1>4. ASSUME NEW j \in DOMAIN Tail(t) PROVE \E i \in DOMAIN t : t[i] = Tail(t)[j]
  <2>1. j + 1 \in DOMAIN t /\ Tail(t)[j] = t[j + 1]
    BY <1>2
  <2> QED BY <2>1
<1>5. Listed(t) \subseteq {Head(t)} \cup Listed(Tail(t))
  BY <1>3 DEF Listed
<1>6. Listed(Tail(t)) \subseteq Listed(t)
  BY <1>4 DEF Listed
<1>7. Head(t) \in Listed(t)
  BY <1>1 DEF Listed
<1> QED BY <1>1, <1>2, <1>5, <1>6, <1>7

\* What an operation on an entry writes: its file, the manifest unless in a
\* batch, and some more.
LEMMA PersistIs ==
    ASSUME NEW m \in Memories, NEW e \in Entries, NEW others \in Seq(Writes)
    PROVE  LET t == Pack!Persist(m, e) \o others IN
           /\ t \in Seq(Writes) /\ Pack!Md(e) \in Listed(t) /\ Pends(m, t, "manifest") /\ Listed(others) \subseteq Listed(t)
           /\ \A w \in Listed(t) : w = Pack!Md(e) \/ w.file = "manifest" \/ w \in Listed(others)
<1> DEFINE s == <<Pack!Md(e)>>
           x == IF m.batch THEN <<>> ELSE Pack!OneOf("manifest")
<1>1. s \in Seq(Writes) /\ Listed(s) = {Pack!Md(e)}
  BY WriteOf, OneIs
<1>2. /\ x \in Seq(Writes) /\ \A w \in Listed(x) : w.file = "manifest"
      /\ ~m.batch => \E w \in Listed(x) : w.file = "manifest"
  BY OneOfIs, NoneIs
<1>3. Pack!Persist(m, e) = s \o x
  BY DEF Pack!Persist
<1> HIDE DEF s, x
<1>4. s \o x \in Seq(Writes) /\ Listed(s \o x) = {Pack!Md(e)} \cup Listed(x)
  BY <1>1, <1>2, Joined
<1> DEFINE t == Pack!Persist(m, e) \o others
<1>5. t \in Seq(Writes) /\ Listed(t) = {Pack!Md(e)} \cup Listed(x) \cup Listed(others)
  BY <1>3, <1>4, Joined
<1> HIDE DEF t
<1>6. Pends(m, t, "manifest")
  BY <1>2, <1>5 DEF Pends
<1>7. \A w \in Listed(t) : w = Pack!Md(e) \/ w.file = "manifest" \/ w \in Listed(others)
  BY <1>2, <1>5
<1> QED BY <1>5, <1>6, <1>7 DEF t
(***************************************************************************)
(* What the operations make of the memory of a process.                    *)

\* Probes and vectors are of entries, and what left the quarantine is out of it.
Sound(m) ==
    /\ DOMAIN m.probes \subseteq DOMAIN m.has /\ m.vec \subseteq DOMAIN m.has
    /\ \A e \in DOMAIN m.has : m.has[e].status # "candidate" => ~m.has[e].quar

\* The vectors in the sidecar are those in memory and some that a publish
\* cleared in memory alone.
Covers(of, m) ==
    /\ m.vec \subseteq of
    /\ \A e \in of \ m.vec : e \in DOMAIN m.has /\ m.has[e].status # "candidate"

\* The writes of an operation name all that it changed, and nothing becomes a
\* candidate again.
Follows(m, after, t) ==
    /\ after \in Memories /\ after.open /\ Writable(after, t)
    /\ Sound(m) => Sound(after)
    /\ DOMAIN m.has \subseteq DOMAIN after.has
    /\ \A e \in DOMAIN m.has : m.has[e].status # "candidate" => after.has[e].status # "candidate"
    /\ \A e \in DOMAIN after.has :
          \/ Pack!Md(e) \in Listed(t)
          \/ /\ e \in DOMAIN m.has
             /\ after.has[e].status = m.has[e].status /\ after.has[e].quar = m.has[e].quar
    /\ Pends(after, t, "manifest") \/ (~m.batch /\ after.has = m.has)
    /\ Pends(after, t, "probes") \/ (~m.batch /\ after.probes = m.probes)
    /\ Pends(after, t, "vectors") \/ (~m.batch /\ Covers(m.vec, after))

LEMMA HasIs ==
    ASSUME NEW m \in Memories, NEW has \in Partial(Holdings)
    PROVE  LET after == [m EXCEPT !.has = has] IN
           /\ after \in Memories /\ after.has = has /\ after.open = m.open /\ after.batch = m.batch
           /\ after.probes = m.probes /\ after.vec = m.vec
BY DEF Memories

LEMMA HasProbesIs ==
    ASSUME NEW m \in Memories, NEW has \in Partial(Holdings), NEW of \in Partial(Checks)
    PROVE  LET after == [m EXCEPT !.has = has, !.probes = of] IN
           /\ after \in Memories /\ after.has = has /\ after.open = m.open /\ after.batch = m.batch
           /\ after.probes = of /\ after.vec = m.vec
BY DEF Memories

LEMMA VecIs ==
    ASSUME NEW m \in Memories, NEW vec \in SUBSET Entries
    PROVE  LET after == [m EXCEPT !.vec = vec] IN
           /\ after \in Memories /\ after.has = m.has /\ after.open = m.open /\ after.batch = m.batch
           /\ after.probes = m.probes /\ after.vec = vec
BY DEF Memories

LEMMA BatchIs ==
    ASSUME NEW m \in Memories, NEW batch \in BOOLEAN
    PROVE  LET after == [m EXCEPT !.batch = batch] IN
           /\ after \in Memories /\ after.has = m.has /\ after.open = m.open /\ after.batch = batch
           /\ after.probes = m.probes /\ after.vec = m.vec
BY DEF Memories

LEMMA MemoryIs ==
    ASSUME NEW m \in Memories
    PROVE  /\ m.open \in BOOLEAN /\ m.batch \in BOOLEAN /\ m.has \in Partial(Holdings)
           /\ m.probes \in Partial(Checks) /\ m.vec \in SUBSET Entries
           /\ DOMAIN m.has \subseteq Entries
           /\ \A e \in DOMAIN m.has : m.has[e] \in Holdings
<1>1. m.has \in Partial(Holdings)
  BY DEF Memories
<1> QED BY <1>1, PartialEach DEF Memories

LEMMA CoversSame == ASSUME NEW m, NEW after, after.vec = m.vec PROVE Covers(m.vec, after)
BY DEF Covers

\* An operation that writes an entry.
LEMMA EntryFollows ==
    ASSUME NEW m \in Memories, m.open, NEW e \in Entries, NEW after \in Memories, after.open,
           after.batch = m.batch, NEW others \in Seq(Writes),
           DOMAIN after.has = DOMAIN m.has \cup {e},
           \A d \in DOMAIN m.has : d # e => after.has[d] = m.has[d],
           e \in DOMAIN m.has /\ m.has[e].status # "candidate" => after.has[e].status # "candidate",
           Sound(m) => (after.has[e].status # "candidate" => ~after.has[e].quar),
           Sound(m) => DOMAIN after.probes \subseteq DOMAIN after.has /\ after.vec \subseteq DOMAIN after.has,
           \A w \in Listed(others) : w.file \in {"md", "judge"} => w.id = e,
           m.batch \/ (\E w \in Listed(others) : w.file = "probes") \/ after.probes = m.probes,
           m.batch \/ (\E w \in Listed(others) : w.file = "vectors") \/ Covers(m.vec, after)
    PROVE  Follows(m, after, Pack!Persist(m, e) \o others)
<1> DEFINE t == Pack!Persist(m, e) \o others
<1>1. /\ t \in Seq(Writes) /\ Pack!Md(e) \in Listed(t) /\ Pends(m, t, "manifest") /\ Listed(others) \subseteq Listed(t)
      /\ \A w \in Listed(t) : w = Pack!Md(e) \/ w.file = "manifest" \/ w \in Listed(others)
  BY PersistIs
<1> HIDE DEF t
<1>2. Writable(after, t)
  BY <1>1, WriteOf DEF Writable
<1>3. Pends(after, t, "manifest")
  BY <1>1 DEF Pends
<1>4. Pends(after, t, "probes") \/ (~m.batch /\ after.probes = m.probes)
  BY <1>1 DEF Pends
<1>5. Pends(after, t, "vectors") \/ (~m.batch /\ Covers(m.vec, after))
  BY <1>1 DEF Pends
<1>6. Sound(m) => Sound(after)
  BY DEF Sound
<1>7. \A d \in DOMAIN after.has :
          \/ Pack!Md(d) \in Listed(t)
          \/ /\ d \in DOMAIN m.has
             /\ after.has[d].status = m.has[d].status /\ after.has[d].quar = m.has[d].quar
  BY <1>1
<1>9. \A d \in DOMAIN m.has : m.has[d].status # "candidate" => after.has[d].status # "candidate"
  OBVIOUS
<1>8. Follows(m, after, t)
  BY <1>2, <1>3, <1>4, <1>5, <1>6, <1>7, <1>9 DEF Follows
<1> QED BY <1>8 DEF t

LEMMA ChangeFollows ==
    ASSUME NEW m \in Memories, m.open, NEW e \in Entries, NEW entry \in Holdings,
           Sound(m) => (entry.status # "candidate" => ~entry.quar),
           e \in DOMAIN m.has /\ m.has[e].status # "candidate" => entry.status # "candidate",
           NEW others, others = <<>> \/ others = <<Pack!Judge(e)>>
    PROVE  Follows(m, [m EXCEPT !.has = Pack!With(@, e, entry)], Pack!Persist(m, e) \o others)
<1> DEFINE has == Pack!With(m.has, e, entry)
           after == [m EXCEPT !.has = has]
<1>1. /\ has \in Partial(Holdings) /\ DOMAIN has = DOMAIN m.has \cup {e}
      /\ has[e] = entry /\ \A d \in DOMAIN m.has : d # e => has[d] = m.has[d]
  <2>1. m.has \in Partial(Holdings)
    BY MemoryIs
  <2>2. PICK f, g : f = m.has /\ g = Pack!With(f, e, entry)
    OBVIOUS
  <2>3. /\ g \in Partial(Holdings) /\ DOMAIN g = DOMAIN f \cup {e}
        /\ g[e] = entry /\ \A d \in DOMAIN f : d # e => g[d] = f[d]
    <3>1. g \in Partial(Holdings)
      BY <2>1, <2>2, WithIs
    <3> QED BY <2>2, <3>1 DEF Pack!With
  <2> QED BY <2>2, <2>3
<1> HIDE DEF has
<1>2. /\ after \in Memories /\ after.has = has /\ after.open = m.open /\ after.batch = m.batch
      /\ after.probes = m.probes /\ after.vec = m.vec
  BY <1>1, HasIs
<1> HIDE DEF after
<1>3. others \in Seq(Writes) /\ \A w \in Listed(others) : w.file \in {"md", "judge"} => w.id = e
  <2>1. Pack!Judge(e) \in Writes /\ Pack!Judge(e).id = e
    BY WriteOf
  <2>2. <<Pack!Judge(e)>> \in Seq(Writes) /\ Listed(<<Pack!Judge(e)>>) = {Pack!Judge(e)}
    BY <2>1, OneIs
  <2> QED BY <2>1, <2>2, NoneIs
<1>4. Sound(m) => DOMAIN after.probes \subseteq DOMAIN after.has /\ after.vec \subseteq DOMAIN after.has
  BY <1>1, <1>2 DEF Sound
<1>5. Covers(m.vec, after)
  BY <1>2, CoversSame
<1>6. Follows(m, after, Pack!Persist(m, e) \o others)
  BY <1>1, <1>2, <1>3, <1>4, <1>5, EntryFollows
<1> QED BY <1>6 DEF after, has

\* An operation that moves an entry to another place of its lifecycle.
LEMMA StatusFollows ==
    ASSUME NEW m \in Memories, m.open, NEW e \in DOMAIN m.has, NEW status \in {"published", "deprecated"},
           NEW of \in Partial(Checks), Sound(m) => ~m.has[e].quar,
           DOMAIN of \subseteq DOMAIN m.probes \cup {e}
    PROVE  Follows(m, [m EXCEPT !.has = [@ EXCEPT ![e].status = status], !.probes = of],
                   Pack!Persist(m, e) \o Pack!PersistProbes(m))
<1> DEFINE entry == [m.has[e] EXCEPT !.status = status]
           has == [m.has EXCEPT ![e] = entry]
           after == [m EXCEPT !.has = has, !.probes = of]
<1>1. m.has[e] \in Holdings /\ e \in Entries /\ m.has \in Partial(Holdings)
  BY MemoryIs
<1>2. entry \in Holdings /\ entry.quar = m.has[e].quar /\ entry.status # "candidate"
  BY <1>1 DEF Holdings, Pack!Statuses
<1>3. [m.has EXCEPT ![e].status = status] = has
  OBVIOUS
<1> HIDE DEF entry
<1>4. /\ has \in Partial(Holdings) /\ DOMAIN has = DOMAIN m.has
      /\ has[e] = entry /\ \A d \in DOMAIN m.has : d # e => has[d] = m.has[d]
  BY <1>1, <1>2, ExceptIs
<1>5. after = [m EXCEPT !.has = [@ EXCEPT ![e].status = status], !.probes = of]
  BY <1>3
<1> HIDE DEF has
<1>6. /\ after \in Memories /\ after.has = has /\ after.open = m.open /\ after.batch = m.batch
      /\ after.probes = of /\ after.vec = m.vec
  BY <1>4 DEF Memories
<1> HIDE DEF after
<1> DEFINE others == Pack!PersistProbes(m)
<1>7. /\ others \in Seq(Writes) /\ \A w \in Listed(others) : w.file = "probes"
      /\ m.batch \/ \E w \in Listed(others) : w.file = "probes"
  BY OneOfIs, NoneIs DEF Pack!PersistProbes
<1> HIDE DEF others
<1>8. Sound(m) => DOMAIN after.probes \subseteq DOMAIN after.has /\ after.vec \subseteq DOMAIN after.has
  BY <1>4, <1>6 DEF Sound
<1>9. DOMAIN after.has = DOMAIN m.has \cup {e}
  BY <1>4, <1>6
<1>11. Covers(m.vec, after)
  BY <1>6, CoversSame
<1>10. Follows(m, after, Pack!Persist(m, e) \o others)
  BY <1>1, <1>2, <1>4, <1>6, <1>7, <1>8, <1>9, <1>11, EntryFollows
<1> QED BY <1>5, <1>10 DEF others

\* An entry published, with a vector or without.
LEMMA PublishFollows ==
    ASSUME NEW m \in Memories, m.open, NEW e \in DOMAIN m.has, NEW of \in Partial(Checks), ~m.has[e].quar,
           NEW vector \in BOOLEAN, DOMAIN of \subseteq DOMAIN m.probes \cup {e}
    PROVE  Follows(m, [Pack!Published(m, e, vector) EXCEPT !.probes = of],
                   Pack!Persist(m, e) \o (Pack!PersistProbes(m) \o
                       IF vector THEN Pack!PersistVectors(m) ELSE <<>>))
<1> DEFINE entry == [m.has[e] EXCEPT !.status = "published"]
           has == [m.has EXCEPT ![e] = entry]
           vec == IF vector THEN m.vec \cup {e} ELSE m.vec \ {e}
           after == [[m EXCEPT !.has = has, !.vec = vec] EXCEPT !.probes = of]
<1>1. m.has[e] \in Holdings /\ e \in Entries /\ m.has \in Partial(Holdings) /\ m.vec \in SUBSET Entries
  BY MemoryIs
<1>2. entry \in Holdings /\ entry.quar = m.has[e].quar /\ entry.status = "published"
  BY <1>1 DEF Holdings, Pack!Statuses
<1>3. [m.has EXCEPT ![e].status = "published"] = has
  OBVIOUS
<1> HIDE DEF entry
<1>4. /\ has \in Partial(Holdings) /\ DOMAIN has = DOMAIN m.has
      /\ has[e] = entry /\ \A d \in DOMAIN m.has : d # e => has[d] = m.has[d]
  BY <1>1, <1>2, ExceptIs
<1>5. after = [Pack!Published(m, e, vector) EXCEPT !.probes = of]
  BY <1>3 DEF Pack!Published
<1> HIDE DEF has
<1>6. vec \in SUBSET Entries /\ vec \subseteq m.vec \cup {e} /\ (vector \/ vec = m.vec \ {e})
  BY <1>1
<1> HIDE DEF vec
<1>7. /\ after \in Memories /\ after.has = has /\ after.open = m.open /\ after.batch = m.batch
      /\ after.probes = of /\ after.vec = vec
  BY <1>4, <1>6 DEF Memories
<1> HIDE DEF after
<1> DEFINE a == Pack!PersistProbes(m)
           b == IF vector THEN Pack!PersistVectors(m) ELSE <<>>
<1>8. /\ a \in Seq(Writes) /\ \A w \in Listed(a) : w.file = "probes"
      /\ m.batch \/ \E w \in Listed(a) : w.file = "probes"
  BY OneOfIs, NoneIs DEF Pack!PersistProbes
<1>9. /\ b \in Seq(Writes) /\ \A w \in Listed(b) : w.file = "vectors"
      /\ vector => m.batch \/ \E w \in Listed(b) : w.file = "vectors"
  BY OneOfIs, NoneIs DEF Pack!PersistVectors
<1>15. a \o b = Pack!PersistProbes(m) \o IF vector THEN Pack!PersistVectors(m) ELSE <<>>
  OBVIOUS
<1> HIDE DEF a, b
<1>10. a \o b \in Seq(Writes) /\ Listed(a \o b) = Listed(a) \cup Listed(b)
  BY <1>8, <1>9, Joined
<1> DEFINE others == a \o b
<1> HIDE DEF others
<1>11. /\ others \in Seq(Writes) /\ \A w \in Listed(others) : w.file \in {"md", "judge"} => w.id = e
       /\ m.batch \/ \E w \in Listed(others) : w.file = "probes"
       /\ vector => m.batch \/ \E w \in Listed(others) : w.file = "vectors"
  BY <1>8, <1>9, <1>10 DEF others
<1>12. Sound(m) => DOMAIN after.probes \subseteq DOMAIN after.has /\ after.vec \subseteq DOMAIN after.has
  BY <1>4, <1>6, <1>7 DEF Sound
<1>13. ~vector => Covers(m.vec, after)
  BY <1>2, <1>4, <1>6, <1>7 DEF Covers
<1>16. DOMAIN after.has = DOMAIN m.has \cup {e}
  BY <1>4, <1>7
<1>17. after.has[e].status = "published" /\ ~after.has[e].quar
  BY <1>2, <1>4, <1>7
<1>14. Follows(m, after, Pack!Persist(m, e) \o others)
  BY <1>1, <1>4, <1>7, <1>11, <1>12, <1>13, <1>16, <1>17, EntryFollows
<1> QED BY <1>5, <1>14, <1>15 DEF others
(***************************************************************************)
(* The invariants.                                                         *)

\* What a process has in memory is in the files, but for what it is still to
\* write.  f, n, b, v: the entry files, the manifest, the probes, the vectors.
Agree(f, n, b, v, m, t) ==
    /\ DOMAIN f \subseteq DOMAIN m.has
    /\ \A e \in DOMAIN m.has :
          \/ Pack!Md(e) \in Listed(t)
          \/ e \in DOMAIN f /\ f[e].status = m.has[e].status /\ f[e].quar = m.has[e].quar
    /\ n.state \in {"missing", "fine"} /\ ~b.bad /\ ~v.torn
    /\ \/ Pends(m, t, "manifest")
       \/ n.has = Pack!ManifestOf(m).has /\ (n.state = "missing" => DOMAIN m.has = {})
    /\ Pends(m, t, "probes") \/ b.of = m.probes
    /\ Pends(m, t, "vectors") \/ Covers(v.of, m)

\* What the files hold while no process is at work.
Disk ==
    /\ manifest.state \in {"missing", "fine"} /\ (manifest.state = "missing" => DOMAIN md = {})
    /\ DOMAIN md = DOMAIN manifest.has
    /\ \A e \in DOMAIN md : /\ md[e].status = manifest.has[e].status
                            /\ md[e].status # "candidate" => ~md[e].quar
    /\ ~probes.bad /\ ~vectors.torn
    /\ DOMAIN probes.of \subseteq DOMAIN md /\ vectors.of \subseteq DOMAIN md

ThroughInv ==
    faults = 0 /\ ~shared =>
        /\ broken = {} /\ DOMAIN strays = {}
        /\ \A p, q \in Procs : mem[p].open /\ mem[q].open => p = q
        /\ \A p \in Procs : mem[p].open =>
              Sound(mem[p]) /\ Agree(md, manifest, probes, vectors, mem[p], todo[p])
        /\ Pack!Busy \/ Disk

\* How far the doctor is.
DoctorInv ==
    doctor.pc # "off" =>
        /\ \A p \in Procs : ~mem[p].open
        /\ doctor.pc = "entries" =>
              /\ DOMAIN md = doctor.left \cup DOMAIN doctor.good /\ doctor.left \cap DOMAIN doctor.good = {}
              /\ doctor.misnamed \subseteq DOMAIN strays
        /\ doctor.pc \in {"vectors", "probes"} => DOMAIN md = DOMAIN doctor.good
        /\ doctor.pc # "done" =>
              \A e \in DOMAIN doctor.good : md[e] = doctor.good[e] /\ ~Pack!Forbidden(doctor.good[e])
        /\ doctor.pc \in {"vectors", "probes", "done"} =>
              /\ manifest.state = "fine" /\ DOMAIN manifest.has = DOMAIN md
              /\ \A e \in DOMAIN md :
                    /\ manifest.has[e].status = md[e].status /\ ~Pack!Forbidden(md[e])
                    /\ manifest.has[e].help >= 0 /\ manifest.has[e].harm >= 0
        /\ doctor.pc \in {"probes", "done"} => ~vectors.torn
        /\ doctor.pc = "done" =>
              /\ ~probes.bad
              /\ \A e \in DOMAIN probes.of :
                    e \in DOMAIN md /\ (probes.of[e].valid \/ probes.of[e].retired)

PackInv == TypeInv /\ DoctorInv /\ ThroughInv

LEMMA AgreeFollows ==
    ASSUME NEW f, NEW n, NEW b, NEW v, NEW m, NEW t, NEW after, NEW w, NEW u,
           Agree(f, n, b, v, m, t), Follows(m, after, w), Listed(u) = Listed(t) \cup Listed(w)
    PROVE  Agree(f, n, b, v, after, u)
<1>1. DOMAIN f \subseteq DOMAIN after.has
  BY DEF Agree, Follows
<1>2. ASSUME NEW e \in DOMAIN after.has
      PROVE  \/ Pack!Md(e) \in Listed(u)
             \/ e \in DOMAIN f /\ f[e].status = after.has[e].status /\ f[e].quar = after.has[e].quar
  BY DEF Agree, Follows
<1>3. \/ Pends(after, u, "manifest")
      \/ n.has = Pack!ManifestOf(after).has /\ (n.state = "missing" => DOMAIN after.has = {})
  <2>1. CASE Pends(after, w, "manifest")
    BY <2>1 DEF Pends
  <2>2. CASE ~m.batch /\ after.has = m.has
    <3>1. Pack!ManifestOf(after) = Pack!ManifestOf(m)
      BY <2>2 DEF Pack!ManifestOf
    <3>2. Pends(m, t, "manifest") => Pends(after, u, "manifest")
      BY <2>2 DEF Pends
    <3> QED BY <2>2, <3>1, <3>2 DEF Agree
  <2> QED BY <2>1, <2>2 DEF Follows
<1>4. Pends(after, u, "probes") \/ b.of = after.probes
  BY DEF Agree, Follows, Pends
<1>5. Pends(after, u, "vectors") \/ Covers(v.of, after)
  <2>1. CASE Pends(after, w, "vectors")
    BY <2>1 DEF Pends
  <2>2. CASE ~m.batch /\ Covers(m.vec, after)
    <3>1. Pends(m, t, "vectors") => Pends(after, u, "vectors")
      BY <2>2 DEF Pends
    <3>2. ASSUME Covers(v.of, m) PROVE Covers(v.of, after)
      <4>1. after.vec \subseteq v.of
        BY <2>2, <3>2 DEF Covers
      <4>2. ASSUME NEW e \in v.of \ after.vec PROVE e \in DOMAIN after.has /\ after.has[e].status # "candidate"
        <5>1. CASE e \in m.vec
          BY <2>2, <5>1 DEF Covers
        <5>2. CASE e \notin m.vec
          BY <3>2, <5>2 DEF Covers, Follows
        <5> QED BY <5>1, <5>2
      <4> QED BY <4>1, <4>2 DEF Covers
    <3> QED BY <3>1, <3>2 DEF Agree
  <2> QED BY <2>1, <2>2 DEF Follows
<1> QED BY <1>1, <1>2, <1>3, <1>4, <1>5 DEF Agree

\* A process goes on from one memory to another and has writes to make.
LEMMA OperationKeeps ==
    ASSUME PackInv, NEW p \in Procs, Pack!Idle(p), NEW after, NEW t, Follows(mem[p], after, t),
           mem' = [mem EXCEPT ![p] = after], todo' = [todo EXCEPT ![p] = t],
           UNCHANGED <<Pack!files, doctor, shared, faults>>
    PROVE  PackInv'
<1>1. /\ mem[p].open /\ todo[p] = <<>> /\ after \in Memories /\ after.open
      /\ Writable(after, t) /\ t \in Seq(Writes)
  BY DEF Pack!Idle, Follows, Writable
<1>2. /\ mem' \in [Procs -> Memories] /\ todo' \in [Procs -> Seq(Writes)]
      /\ mem'[p] = after /\ todo'[p] = t
      /\ \A q \in Procs : q # p => mem'[q] = mem[q] /\ todo'[q] = todo[q]
  BY <1>1 DEF PackInv, TypeInv, ProcsInv
<1>3. UNCHANGED <<md, strays, manifest, probes, vectors, broken, doctor, shared, faults>>
  BY DEF Pack!files
<1>4. TypeInv'
  <2>1. FilesInv'
    BY <1>3 DEF PackInv, TypeInv, FilesInv
  <2>2. \A q \in Procs : Writable(mem'[q], todo'[q]) /\ (~mem'[q].open => todo'[q] = <<>>)
    BY <1>1, <1>2 DEF PackInv, TypeInv, ProcsInv
  <2>3. ProcsInv'
    BY <1>2, <1>3, <2>2 DEF PackInv, TypeInv, ProcsInv
  <2> QED BY <2>1, <2>3 DEF TypeInv
<1>5. DoctorInv'
  BY <1>1, <1>3 DEF PackInv, DoctorInv
<1>6. ThroughInv'
  <2> SUFFICES ASSUME faults = 0, ~shared
               PROVE  /\ broken = {} /\ DOMAIN strays = {}
                      /\ \A q, r \in Procs : mem'[q].open /\ mem'[r].open => q = r
                      /\ \A q \in Procs : mem'[q].open =>
                           Sound(mem'[q]) /\ Agree(md, manifest, probes, vectors, mem'[q], todo'[q])
                      /\ Pack!Busy'
    BY <1>3 DEF ThroughInv
  <2>1. Sound(mem[p]) /\ Agree(md, manifest, probes, vectors, mem[p], <<>>)
        /\ \A q \in Procs : q # p => ~mem[q].open
    BY <1>1 DEF PackInv, ThroughInv
  <2>2. Listed(t) = Listed(<<>>) \cup Listed(t)
    BY NoneIs
  <2>3. Sound(after) /\ Agree(md, manifest, probes, vectors, after, t)
    BY <2>1, <2>2, AgreeFollows DEF Follows
  <2>4. Pack!Busy'
    BY <1>1, <1>2 DEF Pack!Busy
  <2>5. broken = {} /\ DOMAIN strays = {}
    BY DEF PackInv, ThroughInv
  <2> QED BY <1>2, <2>1, <2>3, <2>4, <2>5
<1> QED BY <1>4, <1>5, <1>6 DEF PackInv

LEMMA DoesKeeps ==
    ASSUME PackInv, NEW p \in Procs, Pack!Idle(p), NEW after, NEW t, Follows(mem[p], after, t), Pack!Does(p, after, t)
    PROVE  PackInv'
<1>1. /\ mem' = [mem EXCEPT ![p] = after] /\ todo' = [todo EXCEPT ![p] = t]
      /\ UNCHANGED <<Pack!files, doctor, shared, faults>>
  BY DEF Pack!Does
<1> QED BY <1>1, OperationKeeps

\* What a process holds.
LEMMA Held ==
    ASSUME PackInv, NEW p \in Procs
    PROVE  /\ mem[p] \in Memories /\ mem[p].has \in Partial(Holdings) /\ mem[p].probes \in Partial(Checks)
           /\ DOMAIN mem[p].has \subseteq Entries /\ mem[p].vec \in SUBSET Entries
           /\ \A e \in DOMAIN mem[p].has : mem[p].has[e] \in Holdings
<1>1. mem[p] \in Memories
  BY DEF PackInv, TypeInv, ProcsInv
<1> QED BY <1>1, MemoryIs

\* The operations on one entry that leave probes and vectors alone.
LEMMA ChangesKeep ==
    ASSUME PackInv, NEW p \in Procs, Pack!Idle(p), NEW e \in Entries, NEW entry \in Holdings,
           NEW others, others = <<>> \/ others = <<Pack!Judge(e)>>,
           Sound(mem[p]) => (entry.status # "candidate" => ~entry.quar),
           e \in DOMAIN mem[p].has /\ mem[p].has[e].status # "candidate" => entry.status # "candidate",
           Pack!Changes(p, e, entry, others)
    PROVE  PackInv'
<1>1. PICK m, after, t : /\ m = mem[p] /\ after = [m EXCEPT !.has = Pack!With(@, e, entry)]
                         /\ t = Pack!Persist(m, e) \o others
  OBVIOUS
<1>2. Pack!Does(p, after, t)
  BY <1>1 DEF Pack!Changes
<1>3. m \in Memories /\ m.open
  BY <1>1, Held DEF Pack!Idle
<1>4. Follows(m, after, t)
  BY <1>1, <1>3, ChangeFollows
<1> QED BY <1>1, <1>2, <1>4, DoesKeeps

\* Marks are counted; nothing else of an entry changes.
SameBut(entry, old) == entry \in Holdings /\ entry.status = old.status /\ (~old.quar => ~entry.quar)

LEMMA MarksAre ==
    ASSUME NEW old \in Holdings, NEW i \in Int, NEW j \in Int
    PROVE  /\ SameBut([old EXCEPT !.help = i, !.harm = j], old)
           /\ SameBut([old EXCEPT !.help = i, !.streak = j], old)
           /\ SameBut([old EXCEPT !.harm = i, !.streak = j], old)
<1>1. SameBut([old EXCEPT !.help = i, !.harm = j], old)
  BY DEF SameBut, Holdings
<1>2. SameBut([old EXCEPT !.help = i, !.streak = j], old)
  BY DEF SameBut, Holdings
<1>3. SameBut([old EXCEPT !.harm = i, !.streak = j], old)
  BY DEF SameBut, Holdings
<1> QED BY <1>1, <1>2, <1>3

LEMMA EntryOperationsKeep ==
    ASSUME PackInv, NEW p \in Procs, NEW e \in Entries,
           \/ \E quar \in BOOLEAN : Pack!AddCandidate(p, e, quar)
           \/ Pack!ReleaseQuarantine(p, e)
           \/ \E helped, faded \in BOOLEAN : Pack!Mark(p, e, helped, faded)
    PROVE  PackInv'
<1>1. ASSUME NEW quar \in BOOLEAN, Pack!AddCandidate(p, e, quar) PROVE PackInv'
  <2> DEFINE entry == [status |-> "candidate", quar |-> quar, help |-> 0, harm |-> 0, streak |-> 0]
  <2>1. entry \in Holdings /\ entry.status = "candidate"
    BY DEF Holdings, Pack!Statuses
  <2>2. Pack!Idle(p) /\ Pack!Changes(p, e, entry, <<>>) /\ e \notin DOMAIN mem[p].has
    BY <1>1 DEF Pack!AddCandidate, Pack!Has
  <2> HIDE DEF entry
  <2> QED BY <2>1, <2>2, ChangesKeep
<1>2. ASSUME e \in DOMAIN mem[p].has PROVE mem[p].has[e] \in Holdings
  BY <1>2, Held
<1>3. CASE Pack!ReleaseQuarantine(p, e)
  <2>1. PICK old, entry : old = mem[p].has[e] /\ entry = [old EXCEPT !.quar = FALSE]
    OBVIOUS
  <2>2. Pack!Idle(p) /\ old \in Holdings /\ old.status = "candidate" /\ Pack!Changes(p, e, entry, <<>>)
    BY <1>2, <1>3, <2>1 DEF Pack!ReleaseQuarantine, Pack!Has
  <2>3. entry \in Holdings /\ entry.status = "candidate"
    BY <2>1, <2>2 DEF Holdings
  <2> QED BY <2>1, <2>2, <2>3, ChangesKeep
<1>4. ASSUME NEW helped \in BOOLEAN, NEW faded \in BOOLEAN, Pack!Mark(p, e, helped, faded) PROVE PackInv'
  <2>1. PICK was, old : /\ was = mem[p].has[e]
                        /\ old = IF faded THEN [was EXCEPT !.help = 0, !.harm = 0] ELSE was
    OBVIOUS
  <2>2. Pack!Idle(p) /\ e \in DOMAIN mem[p].has /\ was \in Holdings
    BY <1>2, <1>4, <2>1 DEF Pack!Mark, Pack!Has
  <2>7. PICK zero : zero = 0 /\ zero \in Int
    OBVIOUS
  <2>3. old \in Holdings /\ old.status = was.status /\ (~was.quar => ~old.quar)
    <3>1. SameBut([was EXCEPT !.help = zero, !.harm = zero], was)
      BY <2>2, <2>7, MarksAre
    <3> QED BY <2>1, <2>2, <2>7, <3>1 DEF SameBut
  <2>4. Sound(mem[p]) => (old.status # "candidate" => ~old.quar)
    BY <2>1, <2>2, <2>3 DEF Sound
  <2>5. CASE helped
    <3>1. PICK credit \in {1, 2} : Pack!Changes(p, e, [old EXCEPT !.help = @ + credit, !.streak = 0], <<>>)
      BY <1>4, <2>1, <2>5 DEF Pack!Mark
    <3>2. PICK i, entry : i = old.help + credit /\ entry = [old EXCEPT !.help = i, !.streak = 0]
      OBVIOUS
    <3>4. i \in Int
      BY <2>3, <3>2 DEF Holdings
    <3>3. entry \in Holdings /\ entry.status = old.status /\ (~old.quar => ~entry.quar)
      <4>1. SameBut([old EXCEPT !.help = i, !.streak = zero], old)
        BY <2>3, <2>7, <3>4, MarksAre
      <4> QED BY <2>7, <3>2, <4>1 DEF SameBut
    <3> QED BY <2>1, <2>2, <2>3, <2>4, <3>1, <3>2, <3>3, ChangesKeep
  <2>6. CASE ~helped
    <3>1. PICK entry, others : /\ entry = [old EXCEPT !.harm = @ + 1, !.streak = @ + 1] /\ others = <<Pack!Judge(e)>>
      OBVIOUS
    <3>2. Pack!Changes(p, e, entry, others)
      BY <1>4, <2>1, <2>6, <3>1 DEF Pack!Mark
    <3>4. PICK i, j : i = old.harm + 1 /\ j = old.streak + 1 /\ i \in Int /\ j \in Int
      BY <2>3 DEF Holdings
    <3>3. entry \in Holdings /\ entry.status = old.status /\ (~old.quar => ~entry.quar)
      <4>1. SameBut([old EXCEPT !.harm = i, !.streak = j], old)
        BY <2>3, <3>4, MarksAre
      <4>2. entry = [old EXCEPT !.harm = i, !.streak = j]
        BY <3>1, <3>4
      <4> QED BY <4>1, <4>2 DEF SameBut
    <3> QED BY <2>1, <2>2, <2>3, <2>4, <3>1, <3>2, <3>3, ChangesKeep
  <2> QED BY <2>5, <2>6
<1> QED BY <1>1, <1>3, <1>4

\* The operations that move an entry along its lifecycle.
LEMMA StatusKeeps ==
    ASSUME PackInv, NEW p \in Procs, Pack!Idle(p), NEW e \in DOMAIN mem[p].has, NEW status \in {"published", "deprecated"},
           NEW of \in Partial(Checks), Sound(mem[p]) => ~mem[p].has[e].quar,
           DOMAIN of \subseteq DOMAIN mem[p].probes \cup {e}, NEW after,
           after = [mem[p] EXCEPT !.has = [@ EXCEPT ![e].status = status], !.probes = of],
           Pack!Does(p, after, Pack!Persist(mem[p], e) \o Pack!PersistProbes(mem[p]))
    PROVE  PackInv'
<1>1. PICK m, t : m = mem[p] /\ t = Pack!Persist(m, e) \o Pack!PersistProbes(m)
  OBVIOUS
<1>2. m \in Memories /\ m.open
  BY <1>1, Held DEF Pack!Idle
<1>3. Follows(m, after, t)
  BY <1>1, <1>2, StatusFollows
<1> QED BY <1>1, <1>3, DoesKeeps

LEMMA RetireIs ==
    ASSUME NEW m \in Memories, NEW e, NEW retired \in BOOLEAN
    PROVE  Pack!Retire(m, e, retired) \in Partial(Checks) /\ DOMAIN Pack!Retire(m, e, retired) = DOMAIN m.probes
<1>1. m.probes \in Partial(Checks)
  BY MemoryIs
<1>2. CASE e \in DOMAIN m.probes
  <2>1. PICK of, check : of = m.probes /\ check = [of[e] EXCEPT !.retired = retired]
    OBVIOUS
  <2>2. of[e] \in Checks
    BY <1>1, <1>2, <2>1, PartialEach
  <2>3. check \in Checks
    BY <2>1, <2>2 DEF Checks
  <2>4. [of EXCEPT ![e] = check] \in Partial(Checks) /\ DOMAIN [of EXCEPT ![e] = check] = DOMAIN of
    BY <1>1, <2>1, <2>3, ExceptIs
  <2>5. Pack!Retire(m, e, retired) = [of EXCEPT ![e] = check]
    BY <1>2, <2>1 DEF Pack!Retire, Pack!Has
  <2> QED BY <2>1, <2>4, <2>5
<1>3. CASE e \notin DOMAIN m.probes
  BY <1>1, <1>3 DEF Pack!Retire, Pack!Has
<1> QED BY <1>2, <1>3

LEMMA LifecycleKeeps ==
    ASSUME PackInv, NEW p \in Procs, NEW e \in Entries,
           (\E asked, vector \in BOOLEAN : Pack!Publish(p, e, asked, vector)) \/ Pack!Deprecate(p, e) \/ Pack!Restore(p, e)
    PROVE  PackInv'
<1>1. PICK m : m = mem[p] /\ m \in Memories
  BY Held
<1>2. ASSUME NEW asked \in BOOLEAN, NEW vector \in BOOLEAN, Pack!Publish(p, e, asked, vector) PROVE PackInv'
  <2> DEFINE check == [valid |-> TRUE, retired |-> FALSE]
  <2>1. PICK of : of = IF asked THEN Pack!With(m.probes, e, check)
                                ELSE Pack!Restrict(m.probes, DOMAIN m.probes \ {e})
    OBVIOUS
  <2>2. of \in Partial(Checks) /\ DOMAIN of \subseteq DOMAIN m.probes \cup {e}
    <3>1. PICK f : f = m.probes /\ f \in Partial(Checks)
      BY <1>1, MemoryIs
    <3>2. check \in Checks
      BY DEF Checks
    <3> HIDE DEF check
    <3>3. Pack!With(f, e, check) \in Partial(Checks)
      BY <3>1, <3>2, WithIs
    <3>4. DOMAIN Pack!With(f, e, check) = DOMAIN f \cup {e}
      BY DEF Pack!With
    <3>5. Pack!Restrict(f, DOMAIN f \ {e}) \in Partial(Checks)
      BY <3>1, RestrictIs
    <3>6. DOMAIN Pack!Restrict(f, DOMAIN f \ {e}) = DOMAIN f \ {e}
      BY DEF Pack!Restrict
    <3> QED BY <2>1, <3>1, <3>3, <3>4, <3>5, <3>6
  <2>3. PICK after, t : /\ after = [Pack!Published(m, e, vector) EXCEPT !.probes = of]
                        /\ t = Pack!Persist(m, e) \o (Pack!PersistProbes(m) \o
                                  IF vector THEN Pack!PersistVectors(m) ELSE <<>>)
    OBVIOUS
  <2>4. Pack!Idle(p) /\ e \in DOMAIN m.has /\ ~m.has[e].quar /\ Pack!Does(p, after, t)
    BY <1>1, <1>2, <2>1, <2>3 DEF Pack!Publish, Pack!Publishable, Pack!Has
  <2>5. Follows(m, after, t)
    BY <1>1, <2>2, <2>3, <2>4, PublishFollows DEF Pack!Idle
  <2> QED BY <1>1, <2>4, <2>5, DoesKeeps
<1>3. ASSUME NEW status \in {"deprecated", "published"}, NEW retired \in BOOLEAN,
             Pack!Idle(p), e \in DOMAIN m.has, m.has[e].status # "candidate", NEW after,
             after = [m EXCEPT !.has = [@ EXCEPT ![e].status = status], !.probes = Pack!Retire(m, e, retired)],
             Pack!Does(p, after, Pack!Persist(m, e) \o Pack!PersistProbes(m))
      PROVE  PackInv'
  <2>1. PICK of : of = Pack!Retire(m, e, retired) /\ of \in Partial(Checks) /\ DOMAIN of = DOMAIN m.probes
    BY <1>1, RetireIs
  <2>2. Sound(m) => ~m.has[e].quar
    BY <1>3 DEF Sound
  <2> QED BY <1>1, <1>3, <2>1, <2>2, StatusKeeps
<1>4. CASE Pack!Deprecate(p, e)
  BY <1>1, <1>3, <1>4 DEF Pack!Deprecate, Pack!SetAside, Pack!Has
<1>5. CASE Pack!Restore(p, e)
  BY <1>1, <1>3, <1>5 DEF Pack!Restore, Pack!Brought, Pack!Has
<1> QED BY <1>2, <1>4, <1>5

LEMMA StaysSame ==
    ASSUME NEW m \in Memories, m.open, NEW f \in {"manifest", "probes", "vectors"}, ~m.batch
    PROVE  Follows(m, m, Pack!OneOf(f))
<1>1. PICK w \in Writes : w.file = f /\ Listed(Pack!OneOf(f)) = {w}
  BY OneOfIs
<1>2. Pack!OneOf(f) \in Seq(Writes)
  BY OneOfIs
<1>3. Writable(m, Pack!OneOf(f))
  BY <1>1, <1>2 DEF Writable
<1>4. Covers(m.vec, m)
  BY DEF Covers
<1> QED BY <1>3, <1>4 DEF Follows

LEMMA ClaimKeeps == ASSUME PackInv, NEW p \in Procs, Pack!Claim(p) PROVE PackInv'
<1>1. PICK m, t : m = mem[p] /\ t = Pack!OneOf("manifest")
  OBVIOUS
<1>2. Pack!Idle(p) /\ ~m.batch /\ Pack!Does(p, m, t) /\ m \in Memories /\ m.open
  BY <1>1, Held DEF Pack!Claim, Pack!Idle
<1>3. Follows(m, m, t)
  BY <1>1, <1>2, StaysSame
<1> QED BY <1>1, <1>2, <1>3, DoesKeeps

LEMMA SetVectorKeeps == ASSUME PackInv, NEW p \in Procs, NEW e \in Entries, Pack!SetVector(p, e) PROVE PackInv'
<1>1. PICK m, vec, after, others, t :
         /\ m = mem[p] /\ vec = m.vec \cup {e} /\ after = [m EXCEPT !.vec = vec]
         /\ others = Pack!PersistVectors(m) /\ t = Pack!Persist(m, e) \o others
  OBVIOUS
<1>2. Pack!Idle(p) /\ e \in DOMAIN m.has /\ Pack!Does(p, after, t) /\ m \in Memories /\ m.open
  BY <1>1, Held DEF Pack!SetVector, Pack!Idle, Pack!Has
<1>3. vec \in SUBSET Entries
  BY <1>1, <1>2, MemoryIs
<1>4. /\ after \in Memories /\ after.has = m.has /\ after.open = m.open /\ after.batch = m.batch
      /\ after.probes = m.probes /\ after.vec = vec
  BY <1>1, <1>2, <1>3 DEF Memories
<1>5. /\ others \in Seq(Writes) /\ \A w \in Listed(others) : w.file = "vectors"
      /\ m.batch \/ \E w \in Listed(others) : w.file = "vectors"
  BY <1>1, OneOfIs, NoneIs DEF Pack!PersistVectors
<1>6. Sound(m) => DOMAIN after.probes \subseteq DOMAIN after.has /\ after.vec \subseteq DOMAIN after.has
  BY <1>1, <1>2, <1>4 DEF Sound
<1>7. Sound(m) => (after.has[e].status # "candidate" => ~after.has[e].quar)
  BY <1>2, <1>4 DEF Sound
<1>8. DOMAIN after.has = DOMAIN m.has \cup {e} /\ \A d \in DOMAIN m.has : after.has[d] = m.has[d]
  BY <1>2, <1>4
<1>9. \A w \in Listed(others) : w.file \in {"md", "judge"} => w.id = e
  BY <1>5
<1>10. m.batch \/ (\E w \in Listed(others) : w.file = "vectors") \/ Covers(m.vec, after)
  BY <1>5
<1>11. Follows(m, after, Pack!Persist(m, e) \o others)
  BY <1>2, <1>4, <1>5, <1>6, <1>7, <1>8, <1>9, <1>10, EntryFollows
<1> QED BY <1>1, <1>2, <1>11, DoesKeeps

LEMMA BatchKeeps == ASSUME PackInv, NEW p \in Procs, Pack!BeginBatch(p) \/ Pack!EndBatch(p) PROVE PackInv'
<1>1. PICK m : m = mem[p] /\ m \in Memories
  BY Held
<1>2. CASE Pack!BeginBatch(p)
  <2>1. PICK after, t : after = [m EXCEPT !.batch = TRUE] /\ t = <<>>
    OBVIOUS
  <2>2. Pack!Idle(p) /\ ~m.batch /\ m.open /\ Pack!Does(p, after, t)
    BY <1>1, <1>2, <2>1 DEF Pack!BeginBatch, Pack!Idle
  <2>3. /\ after \in Memories /\ after.has = m.has /\ after.open = m.open /\ after.batch = TRUE
        /\ after.probes = m.probes /\ after.vec = m.vec
    BY <1>1, <2>1, BatchIs
  <2>4. Follows(m, after, t)
    BY <2>1, <2>2, <2>3, NoneIs DEF Follows, Writable, Pends, Sound
  <2> QED BY <1>1, <2>2, <2>4, DoesKeeps
<1>3. CASE Pack!EndBatch(p)
  <2>1. PICK after, t : after = [m EXCEPT !.batch = FALSE] /\ t = Pack!Flush
    OBVIOUS
  <2>2. Pack!Idle(p) /\ m.open
    BY <1>1, <1>3 DEF Pack!EndBatch, Pack!Idle
  <2>3. /\ after \in Memories /\ after.has = m.has /\ after.open = m.open /\ after.batch = FALSE
        /\ after.probes = m.probes /\ after.vec = m.vec
    BY <1>1, <2>1, BatchIs
  <2>4. mem' = [mem EXCEPT ![p] = after] /\ todo' = [todo EXCEPT ![p] = t] /\ UNCHANGED <<Pack!files, doctor, shared, faults>>
    <3>1. [mem EXCEPT ![p].batch = FALSE] = [mem EXCEPT ![p] = after]
      BY <1>1, <2>1
    <3> QED BY <1>3, <2>1, <3>1 DEF Pack!EndBatch
  <2>5. /\ t \in Seq(Writes) /\ \A w \in Listed(t) : w.file \in {"manifest", "probes", "vectors"}
        /\ \A f \in {"manifest", "probes", "vectors"} : \E w \in Listed(t) : w.file = f
    <3>1. \A f \in {"manifest", "probes", "vectors"} : [file |-> f] \in Writes
      BY DEF Writes
    <3>2. PICK a, b, c : a = [file |-> "manifest"] /\ b = [file |-> "probes"] /\ c = [file |-> "vectors"]
      OBVIOUS
    <3>3. t = <<a, b, c>> /\ {a, b, c} \subseteq Writes /\ a.file = "manifest" /\ b.file = "probes" /\ c.file = "vectors"
      BY <2>1, <3>1, <3>2 DEF Pack!Flush
    <3>4. Listed(t) = {a, b, c}
      BY <3>3 DEF Listed
    <3> QED BY <3>3, <3>4
  <2>6. Writable(after, t) /\ \A f \in {"manifest", "probes", "vectors"} : Pends(after, t, f)
    BY <2>5 DEF Writable, Pends
  <2>7. Follows(m, after, t)
    BY <2>2, <2>3, <2>6 DEF Follows, Sound
  <2> QED BY <1>1, <2>2, <2>4, <2>7, OperationKeeps
<1> QED BY <1>2, <1>3

LEMMA CloseKeeps == ASSUME PackInv, NEW p \in Procs, Pack!Close(p) PROVE PackInv'
<1>1. /\ Pack!Idle(p) /\ ~mem[p].batch /\ mem' = [mem EXCEPT ![p] = Pack!Closed]
      /\ UNCHANGED <<md, strays, manifest, probes, vectors, broken, todo, doctor, shared, faults>>
  BY DEF Pack!Close, Pack!files
<1>2. mem[p].open /\ todo[p] = <<>>
  BY <1>1 DEF Pack!Idle
<1>3. Pack!Closed \in Memories /\ ~Pack!Closed.open /\ Pack!Closed.has = Pack!Empty
  BY EmptyIs DEF Pack!Closed, Memories
<1>4. mem' \in [Procs -> Memories] /\ mem'[p] = Pack!Closed /\ \A q \in Procs : q # p => mem'[q] = mem[q]
  BY <1>1, <1>3 DEF PackInv, TypeInv, ProcsInv
<1>5. TypeInv'
  <2>1. FilesInv'
    BY <1>1 DEF PackInv, TypeInv, FilesInv
  <2>2. \A q \in Procs : Writable(mem'[q], todo'[q]) /\ (~mem'[q].open => todo'[q] = <<>>)
    BY <1>1, <1>2, <1>3, <1>4, NoneIs DEF PackInv, TypeInv, ProcsInv, Writable
  <2>3. ProcsInv'
    BY <1>1, <1>4, <2>2 DEF PackInv, TypeInv, ProcsInv
  <2> QED BY <2>1, <2>3 DEF TypeInv
<1>6. DoctorInv'
  BY <1>1, <1>2 DEF PackInv, DoctorInv
<1>7. ThroughInv'
  <2> SUFFICES ASSUME faults = 0, ~shared PROVE ThroughInv'
    BY <1>1 DEF ThroughInv
  <2>1. PICK m : m = mem[p] /\ m \in Memories /\ Sound(m) /\ Agree(md, manifest, probes, vectors, m, <<>>) /\ ~m.batch
    BY <1>1, <1>2, Held DEF PackInv, ThroughInv
  <2>2. broken = {} /\ DOMAIN strays = {} /\ \A q \in Procs : ~mem'[q].open
    BY <1>2, <1>3, <1>4 DEF PackInv, ThroughInv
  <2>3. ~Pends(m, <<>>, "manifest") /\ ~Pends(m, <<>>, "probes") /\ ~Pends(m, <<>>, "vectors")
    BY <2>1, NoneIs DEF Pends
  <2>4. /\ DOMAIN md = DOMAIN m.has
        /\ \A e \in DOMAIN m.has : md[e].status = m.has[e].status /\ md[e].quar = m.has[e].quar
    BY <2>1, NoneIs DEF Agree
  <2>5. /\ manifest.has = Pack!ManifestOf(m).has /\ (manifest.state = "missing" => DOMAIN m.has = {})
        /\ probes.of = m.probes /\ Covers(vectors.of, m)
    BY <2>1, <2>3 DEF Agree
  <2>6. DOMAIN manifest.has = DOMAIN m.has /\ \A e \in DOMAIN m.has : manifest.has[e].status = m.has[e].status
    BY <2>5 DEF Pack!ManifestOf
  <2>7. Disk
    <3>1. manifest.state \in {"missing", "fine"} /\ ~probes.bad /\ ~vectors.torn
      BY <2>1 DEF Agree
    <3>2. ASSUME NEW e \in DOMAIN md
          PROVE  md[e].status = manifest.has[e].status /\ (md[e].status # "candidate" => ~md[e].quar)
      BY <2>1, <2>4, <2>6, <3>2 DEF Sound
    <3>3. vectors.of \subseteq DOMAIN m.has
      BY <2>1, <2>5 DEF Covers, Sound
    <3> QED BY <2>1, <2>4, <2>5, <2>6, <3>1, <3>2, <3>3 DEF Disk, Sound
  <2>8. Disk'
    BY <1>1, <2>7 DEF Disk
  <2> QED BY <1>1, <2>2, <2>8 DEF ThroughInv
<1> QED BY <1>5, <1>6, <1>7 DEF PackInv

LEMMA HoldingIs ==
    ASSUME NEW a, NEW b, NEW c, NEW d, NEW g, NEW r,
           r = [status |-> a, quar |-> b, help |-> c, harm |-> d, streak |-> g]
    PROVE  r.status = a /\ r.quar = b /\ r.help = c /\ r.harm = d /\ r.streak = g
OBVIOUS

\* What a process loads is of the shape of what it holds.
LEMMA LoadedIs ==
    ASSUME FilesInv, Pack!Loads
    PROVE  /\ Pack!Loaded \in Memories /\ Pack!Loaded.open /\ ~Pack!Loaded.batch
           /\ Pack!Loaded.probes = probes.of /\ Pack!Loaded.vec = vectors.of \cap DOMAIN manifest.has
           /\ DOMAIN Pack!Loaded.has = DOMAIN manifest.has
           /\ \A e \in DOMAIN manifest.has :
                 /\ Pack!Loaded.has[e] \in Holdings
                 /\ Pack!Loaded.has[e].status = md[e].status /\ Pack!Loaded.has[e].quar = md[e].quar
                 /\ Pack!Loaded.has[e].help = manifest.has[e].help /\ Pack!Loaded.has[e].harm = manifest.has[e].harm
                 /\ Pack!Loaded.has[e].streak = manifest.has[e].streak
<1> DEFINE has == [e \in DOMAIN manifest.has |->
                     [status |-> md[e].status, quar |-> md[e].quar, help |-> manifest.has[e].help,
                      harm |-> manifest.has[e].harm, streak |-> manifest.has[e].streak]]
<1>1. manifest.has \in Partial(Listings) /\ md \in Partial(EntryFiles) /\ probes.of \in Partial(Checks) /\ vectors.of \in SUBSET Entries
  BY DEF FilesInv
<1>2. DOMAIN manifest.has \in SUBSET Entries
  BY <1>1, PartialEach
<1>3. ASSUME NEW e \in DOMAIN manifest.has PROVE has[e] \in Holdings
  <2>1. e \in DOMAIN md /\ md[e].status \in Pack!Statuses
    BY <1>3 DEF Pack!Loads, Pack!Absent, Pack!Has, FilesInv
  <2>2. md[e] \in EntryFiles /\ manifest.has[e] \in Listings
    BY <1>1, <1>3, <2>1, PartialEach
  <2> QED BY <2>1, <2>2 DEF EntryFiles, Listings, Holdings
<1>4. has \in [DOMAIN manifest.has -> Holdings]
  BY <1>3
<1>5. has \in Partial(Holdings)
  BY <1>2, <1>4, MapIs
<1> HIDE DEF has
<1>6. Pack!Loaded = [open |-> TRUE, batch |-> FALSE, has |-> has, probes |-> probes.of,
                vec |-> vectors.of \cap DOMAIN manifest.has]
  BY DEF Pack!Loaded, has
<1>7. Pack!Loaded \in Memories
  BY <1>1, <1>5, <1>6 DEF Memories
<1>8. DOMAIN has = DOMAIN manifest.has
  BY DEF has
<1>9. \A e \in DOMAIN manifest.has :
          /\ has[e].status = md[e].status /\ has[e].quar = md[e].quar
          /\ has[e].help = manifest.has[e].help /\ has[e].harm = manifest.has[e].harm
          /\ has[e].streak = manifest.has[e].streak
  <2> TAKE e \in DOMAIN manifest.has
  <2>1. PICK a, b, c, d, g : /\ a = md[e].status /\ b = md[e].quar /\ c = manifest.has[e].help
                             /\ d = manifest.has[e].harm /\ g = manifest.has[e].streak
    OBVIOUS
  <2>2. has[e] = [status |-> a, quar |-> b, help |-> c, harm |-> d, streak |-> g]
    BY <2>1 DEF has
  <2>3. /\ has[e].status = a /\ has[e].quar = b /\ has[e].help = c
        /\ has[e].harm = d /\ has[e].streak = g
    BY <2>2, HoldingIs
  <2> QED BY <2>1, <2>3
<1> QED BY <1>3, <1>6, <1>7, <1>8, <1>9

LEMMA OpenKeeps == ASSUME PackInv, NEW p \in Procs, Pack!Open(p) PROVE PackInv'
<1> DEFINE m == Pack!Loaded
<1>1. /\ ~mem[p].open /\ Pack!Loads /\ mem' = [mem EXCEPT ![p] = m] /\ shared' = (shared \/ Pack!Busy) /\ doctor' = Pack!Resting
      /\ UNCHANGED <<md, strays, manifest, probes, vectors, broken, todo, faults>>
  BY DEF Pack!Open, Pack!files
<1>2. FilesInv
  BY DEF PackInv, TypeInv
<1>3. /\ m \in Memories /\ m.open /\ ~m.batch
      /\ m.probes = probes.of /\ m.vec = vectors.of \cap DOMAIN manifest.has
      /\ DOMAIN m.has = DOMAIN manifest.has
      /\ \A e \in DOMAIN manifest.has :
             /\ m.has[e].status = md[e].status /\ m.has[e].quar = md[e].quar
             /\ m.has[e].help = manifest.has[e].help /\ m.has[e].harm = manifest.has[e].harm
             /\ m.has[e].streak = manifest.has[e].streak
  BY <1>1, <1>2, LoadedIs
<1> HIDE DEF m
<1>4. mem' \in [Procs -> Memories] /\ mem'[p] = m /\ \A q \in Procs : q # p => mem'[q] = mem[q]
  BY <1>1, <1>3 DEF PackInv, TypeInv, ProcsInv
<1>5. todo[p] = <<>>
  BY <1>1 DEF PackInv, TypeInv, ProcsInv
<1>6. TypeInv'
  <2>1. FilesInv'
    BY <1>1 DEF PackInv, TypeInv, FilesInv
  <2>2. \A q \in Procs : Writable(mem'[q], todo'[q]) /\ (~mem'[q].open => todo'[q] = <<>>)
    BY <1>1, <1>3, <1>4, <1>5, NoneIs DEF PackInv, TypeInv, ProcsInv, Writable
  <2>3. doctor' \in Rounds
    BY <1>1, EmptyIs DEF Pack!Resting, Rounds
  <2>4. ProcsInv'
    BY <1>1, <1>4, <2>2, <2>3 DEF PackInv, TypeInv, ProcsInv
  <2> QED BY <2>1, <2>4 DEF TypeInv
<1>7. DoctorInv'
  BY <1>1 DEF DoctorInv, Pack!Resting
<1>8. ThroughInv'
  <2> SUFFICES ASSUME faults = 0, ~shared, ~Pack!Busy PROVE ThroughInv'
    BY <1>1 DEF ThroughInv
  <2>1. Disk /\ broken = {} /\ DOMAIN strays = {} /\ \A q \in Procs : ~mem[q].open
    BY DEF PackInv, ThroughInv, Pack!Busy
  <2>2. Sound(m)
    <3>1. \A e \in DOMAIN m.has : m.has[e].status = md[e].status /\ m.has[e].quar = md[e].quar
      BY <1>3
    <3>2. \A e \in DOMAIN m.has : m.has[e].status # "candidate" => ~m.has[e].quar
      BY <1>3, <2>1, <3>1 DEF Disk
    <3> QED BY <1>3, <2>1, <3>2 DEF Sound, Disk
  <2>3. manifest.has = Pack!ManifestOf(m).has
    <3>1. manifest.has \in Partial(Listings)
      BY <1>2 DEF FilesInv
    <3>2. manifest.has = [e \in DOMAIN manifest.has |-> manifest.has[e]]
      BY <3>1, PartialEach
    <3>3. ASSUME NEW e \in DOMAIN manifest.has
          PROVE  manifest.has[e] = [status |-> m.has[e].status, help |-> m.has[e].help,
                                    harm |-> m.has[e].harm, streak |-> m.has[e].streak]
      <4>1. manifest.has[e] \in Listings
        BY <3>1, PartialEach
      <4>2. /\ m.has[e].help = manifest.has[e].help /\ m.has[e].harm = manifest.has[e].harm
            /\ m.has[e].streak = manifest.has[e].streak /\ m.has[e].status = manifest.has[e].status
        BY <1>3, <2>1 DEF Disk
      <4> QED BY <4>1, <4>2 DEF Listings
    <3>4. Pack!ManifestOf(m).has = [e \in DOMAIN m.has |-> [status |-> m.has[e].status, help |-> m.has[e].help,
                                                       harm |-> m.has[e].harm, streak |-> m.has[e].streak]]
      BY DEF Pack!ManifestOf
    <3> QED BY <1>3, <3>2, <3>3, <3>4
  <2>4. \A e \in DOMAIN m.has : e \in DOMAIN md /\ md[e].status = m.has[e].status /\ md[e].quar = m.has[e].quar
    BY <1>3, <2>1 DEF Disk
  <2>5. Covers(vectors.of, m) /\ probes.of = m.probes /\ DOMAIN md \subseteq DOMAIN m.has
    BY <1>3, <2>1 DEF Disk, Covers
  <2>6. Agree(md, manifest, probes, vectors, m, <<>>)
    BY <1>3, <2>1, <2>3, <2>4, <2>5 DEF Agree, Disk
  <2> QED BY <1>1, <1>3, <1>4, <1>5, <2>1, <2>2, <2>6 DEF ThroughInv, Pack!Busy
<1> QED BY <1>6, <1>7, <1>8 DEF PackInv

(***************************************************************************)
(* A write.                                                                *)

\* What is written of a memory has the shape of a file.
LEMMA WrittenIs ==
    ASSUME NEW m \in Memories
    PROVE  /\ \A e \in DOMAIN m.has :
                 /\ Pack!EntryFile(m, e) \in EntryFiles /\ Pack!EntryFile(m, e).status = m.has[e].status
                 /\ Pack!EntryFile(m, e).quar = m.has[e].quar
           /\ Pack!ManifestOf(m) \in [state : {"missing", "fine", "torn"}, has : Partial(Listings)]
           /\ Pack!ManifestOf(m).state = "fine"
           /\ Pack!ProbesOf(m) \in [bad : BOOLEAN, of : Partial(Checks)] /\ ~Pack!ProbesOf(m).bad
           /\ DOMAIN m.probes \subseteq DOMAIN m.has => Pack!ProbesOf(m).of = m.probes
           /\ Pack!VectorsOf(m) \in [torn : BOOLEAN, of : SUBSET Entries] /\ ~Pack!VectorsOf(m).torn /\ Pack!VectorsOf(m).of = m.vec
<1>1. /\ m.has \in Partial(Holdings) /\ m.probes \in Partial(Checks) /\ m.vec \in SUBSET Entries
      /\ DOMAIN m.has \in SUBSET Entries /\ \A e \in DOMAIN m.has : m.has[e] \in Holdings
  BY MemoryIs
<1>2. ASSUME NEW e \in DOMAIN m.has
      PROVE  /\ Pack!EntryFile(m, e) \in EntryFiles /\ Pack!EntryFile(m, e).status = m.has[e].status
             /\ Pack!EntryFile(m, e).quar = m.has[e].quar
  <2>1. m.has[e] \in Holdings
    BY <1>1
  <2>2. Pack!EntryFile(m, e) = [status |-> m.has[e].status, quar |-> m.has[e].quar, help |-> m.has[e].help, harm |-> m.has[e].harm]
    BY DEF Pack!EntryFile, Pack!File
  <2> QED BY <2>1, <2>2 DEF Holdings, EntryFiles
<1>3. Pack!ManifestOf(m) \in [state : {"missing", "fine", "torn"}, has : Partial(Listings)] /\ Pack!ManifestOf(m).state = "fine"
  <2> DEFINE has == [e \in DOMAIN m.has |-> [status |-> m.has[e].status, help |-> m.has[e].help,
                                            harm |-> m.has[e].harm, streak |-> m.has[e].streak]]
  <2>1. ASSUME NEW e \in DOMAIN m.has PROVE has[e] \in Listings
    BY <1>1 DEF Holdings, Listings
  <2>2. has \in [DOMAIN m.has -> Listings]
    BY <2>1
  <2>3. has \in Partial(Listings)
    BY <1>1, <2>2, MapIs
  <2>4. Pack!ManifestOf(m) = [state |-> "fine", has |-> has]
    BY DEF Pack!ManifestOf
  <2> HIDE DEF has
  <2> QED BY <2>3, <2>4
<1>4. Pack!ProbesOf(m) \in [bad : BOOLEAN, of : Partial(Checks)] /\ ~Pack!ProbesOf(m).bad
  <2>1. PICK D, of : D = DOMAIN m.probes \cap DOMAIN m.has /\ of = Pack!Restrict(m.probes, D)
    OBVIOUS
  <2>2. of \in Partial(Checks)
    BY <1>1, <2>1, RestrictIs
  <2>3. Pack!ProbesOf(m) = [bad |-> FALSE, of |-> of]
    BY <2>1 DEF Pack!ProbesOf
  <2> QED BY <2>2, <2>3
<1>5. ASSUME DOMAIN m.probes \subseteq DOMAIN m.has PROVE Pack!ProbesOf(m).of = m.probes
  <2>1. DOMAIN m.probes \cap DOMAIN m.has = DOMAIN m.probes
    BY <1>5
  <2>2. Pack!ProbesOf(m).of = [e \in DOMAIN m.probes |-> m.probes[e]]
    BY <2>1 DEF Pack!ProbesOf, Pack!Restrict
  <2>3. m.probes = [e \in DOMAIN m.probes |-> m.probes[e]]
    BY <1>1, PartialEach
  <2> QED BY <2>2, <2>3
<1>6. /\ Pack!VectorsOf(m) \in [torn : BOOLEAN, of : SUBSET Entries] /\ ~Pack!VectorsOf(m).torn /\ Pack!VectorsOf(m).of = m.vec
  BY <1>1 DEF Pack!VectorsOf
<1> QED BY <1>2, <1>3, <1>4, <1>5, <1>6

\* The files after one write of a process, whatever is left to write.
LEMMA WriteFiles ==
    ASSUME PackInv, NEW p \in Procs, Pack!Write(p), NEW m, m = mem[p], NEW w, w = Head(todo[p]), NEW rest, rest = Tail(todo[p])
    PROVE  /\ FilesInv' /\ m \in Memories /\ m.open /\ w \in Writes /\ Writable(m, rest)
           /\ w.file \in {"md", "judge"} => w.id \in DOMAIN m.has
           /\ Sound(m) /\ Agree(md, manifest, probes, vectors, m, todo[p]) =>
                 Agree(md', manifest', probes', vectors', m, rest)
<1>1. /\ todo[p] # <<>>
      /\ md' = IF w.file = "md" THEN Pack!With(md, w.id, Pack!EntryFile(m, w.id)) ELSE md
      /\ manifest' = IF w.file = "manifest" THEN Pack!ManifestOf(m) ELSE manifest
      /\ probes' = IF w.file = "probes" THEN Pack!ProbesOf(m) ELSE probes
      /\ vectors' = IF w.file = "vectors" THEN Pack!VectorsOf(m) ELSE vectors
      /\ strays' = strays
  BY DEF Pack!Write
<1>2. m \in Memories /\ m.open /\ todo[p] \in Seq(Writes) /\ Writable(m, todo[p])
  BY <1>1, Held DEF PackInv, TypeInv, ProcsInv
<1>3. w \in Writes /\ rest \in Seq(Writes) /\ Listed(todo[p]) = {w} \cup Listed(rest)
  BY <1>1, <1>2, FirstAndRest
<1>4. Writable(m, rest) /\ (w.file \in {"md", "judge"} => w.id \in DOMAIN m.has)
  BY <1>2, <1>3 DEF Writable
<1>5. FilesInv
  BY DEF PackInv, TypeInv
<1>6. /\ w.file = "md" => /\ md' \in Partial(EntryFiles) /\ DOMAIN md' = DOMAIN md \cup {w.id}
                          /\ md'[w.id] = Pack!EntryFile(m, w.id) /\ \A d \in DOMAIN md : d # w.id => md'[d] = md[d]
      /\ w.file # "md" => md' = md
  <2>1. CASE w.file = "md"
    <3>1. PICK e, v : e = w.id /\ v = Pack!EntryFile(m, e) /\ e \in DOMAIN m.has /\ e \in Entries /\ md' = Pack!With(md, e, v)
      BY <1>1, <1>2, <1>4, <2>1, MemoryIs
    <3>2. v \in EntryFiles /\ md \in Partial(EntryFiles)
      BY <1>2, <1>5, <3>1, WrittenIs DEF FilesInv
    <3>3. md' \in Partial(EntryFiles)
      BY <3>1, <3>2, WithIs
    <3>4. DOMAIN md' = DOMAIN md \cup {e} /\ md'[e] = v /\ \A d \in DOMAIN md : d # e => md'[d] = md[d]
      BY <3>1 DEF Pack!With
    <3> QED BY <2>1, <3>1, <3>3, <3>4
  <2> QED BY <1>1, <2>1
<1>7. FilesInv'
  <2>1. md' \in Partial(EntryFiles)
    BY <1>5, <1>6 DEF FilesInv
  <2>2. /\ manifest' \in [state : {"missing", "fine", "torn"}, has : Partial(Listings)]
        /\ manifest'.state = "missing" => DOMAIN manifest'.has = {}
    BY <1>1, <1>2, <1>5, WrittenIs DEF FilesInv
  <2>3. probes' \in [bad : BOOLEAN, of : Partial(Checks)]
    BY <1>1, <1>2, <1>5, WrittenIs DEF FilesInv
  <2>4. vectors' \in [torn : BOOLEAN, of : SUBSET Entries]
    BY <1>1, <1>2, <1>5, WrittenIs DEF FilesInv
  <2> QED BY <1>1, <1>5, <2>1, <2>2, <2>3, <2>4 DEF FilesInv
<1>8. ASSUME Sound(m), Agree(md, manifest, probes, vectors, m, todo[p])
      PROVE  Agree(md', manifest', probes', vectors', m, rest)
  <2>1. DOMAIN md' \subseteq DOMAIN m.has
    BY <1>4, <1>6, <1>8 DEF Agree
  <2>2. ASSUME NEW e \in DOMAIN m.has, Pack!Md(e) \notin Listed(rest)
        PROVE  e \in DOMAIN md' /\ md'[e].status = m.has[e].status /\ md'[e].quar = m.has[e].quar
    <3>1. CASE w.file = "md" /\ w.id = e
      <4>1. Pack!EntryFile(m, e).status = m.has[e].status /\ Pack!EntryFile(m, e).quar = m.has[e].quar
        BY <1>2, <2>2, WrittenIs
      <4> QED BY <1>6, <3>1, <4>1
    <3>2. CASE ~(w.file = "md" /\ w.id = e)
      <4>1. Pack!Md(e) # w
        BY <3>2 DEF Pack!Md
      <4>2. e \in DOMAIN md /\ md[e].status = m.has[e].status /\ md[e].quar = m.has[e].quar
        BY <1>3, <1>8, <2>2, <4>1 DEF Agree
      <4>3. e \in DOMAIN md' /\ md'[e] = md[e]
        BY <1>6, <3>2, <4>2
      <4> QED BY <4>2, <4>3
    <3> QED BY <3>1, <3>2
  <2>3. \A f : Pends(m, todo[p], f) => Pends(m, rest, f) \/ w.file = f
    BY <1>3 DEF Pends
  <2>4. /\ manifest'.state \in {"missing", "fine"}
        /\ \/ Pends(m, rest, "manifest")
           \/ manifest'.has = Pack!ManifestOf(m).has /\ (manifest'.state = "missing" => DOMAIN m.has = {})
    <3>1. CASE w.file = "manifest"
      BY <1>1, <1>2, <3>1, WrittenIs
    <3>2. CASE w.file # "manifest"
      BY <1>1, <1>8, <2>3, <3>2 DEF Agree
    <3> QED BY <3>1, <3>2
  <2>5. ~probes'.bad /\ (Pends(m, rest, "probes") \/ probes'.of = m.probes)
    <3>1. CASE w.file = "probes"
      BY <1>1, <1>2, <1>8, <3>1, WrittenIs DEF Sound
    <3>2. CASE w.file # "probes"
      BY <1>1, <1>8, <2>3, <3>2 DEF Agree
    <3> QED BY <3>1, <3>2
  <2>6. ~vectors'.torn /\ (Pends(m, rest, "vectors") \/ Covers(vectors'.of, m))
    <3>1. CASE w.file = "vectors"
      BY <1>1, <1>2, <3>1, WrittenIs DEF Covers
    <3>2. CASE w.file # "vectors"
      BY <1>1, <1>8, <2>3, <3>2 DEF Agree
    <3> QED BY <3>1, <3>2
  <2> QED BY <2>1, <2>2, <2>4, <2>5, <2>6 DEF Agree
<1> QED BY <1>2, <1>3, <1>4, <1>7, <1>8

\* A judgement that finds an entry worn sets it aside, and has more to write.
Ends(p, m, rest, after, more, t) ==
    /\ t \in Seq(Writes) /\ Listed(t) = Listed(rest) \cup Listed(more)
    /\ mem' = [mem EXCEPT ![p] = after] /\ todo' = [todo EXCEPT ![p] = t]
    /\ (after = m /\ more = <<>>) \/ (Sound(m) => Follows(m, after, more))
    /\ after \in Memories /\ after.open /\ Writable(after, t)

LEMMA WriteEnds ==
    ASSUME PackInv, NEW p \in Procs, Pack!Write(p), NEW m, m = mem[p], NEW rest, rest = Tail(todo[p])
    PROVE  \E after, more, t : Ends(p, m, rest, after, more, t)
<1>1. PICK w : w = Head(todo[p])
  OBVIOUS
<1>2. /\ m \in Memories /\ m.open /\ w \in Writes /\ Writable(m, rest)
      /\ w.file \in {"md", "judge"} => w.id \in DOMAIN m.has
  BY <1>1, WriteFiles
<1>3. rest \in Seq(Writes)
  BY <1>2 DEF Writable
<1>4. PICK worn : worn = (w.file = "judge" /\ Pack!Worn(m.has[w.id]))
  OBVIOUS
<1>5. /\ mem' = IF worn THEN [mem EXCEPT ![p] = Pack!SetAside(m, w.id)] ELSE mem
      /\ todo' = [todo EXCEPT ![p] = rest \o IF worn THEN Pack!Persist(m, w.id) \o Pack!PersistProbes(m) ELSE <<>>]
  BY <1>1, <1>4 DEF Pack!Write
<1>6. CASE ~worn
  <2>1. mem' = [mem EXCEPT ![p] = m]
    BY <1>5, <1>6 DEF PackInv, TypeInv, ProcsInv
  <2>2. todo' = [todo EXCEPT ![p] = rest]
    <3>1. rest \o <<>> = rest
      BY <1>3
    <3> QED BY <1>5, <1>6, <3>1
  <2>3. Listed(rest) = Listed(rest) \cup Listed(<<>>)
    BY NoneIs
  <2>4. Ends(p, m, rest, m, <<>>, rest)
    BY <1>2, <1>3, <2>1, <2>2, <2>3 DEF Ends
  <2> QED BY <2>4
<1>7. CASE worn
  <2>1. PICK e, of, after, more, t :
           /\ e = w.id /\ of = Pack!Retire(m, e, TRUE)
           /\ after = [m EXCEPT !.has = [@ EXCEPT ![e].status = "deprecated"], !.probes = of]
           /\ more = Pack!Persist(m, e) \o Pack!PersistProbes(m) /\ t = rest \o more
    OBVIOUS
  <2>2. /\ e \in DOMAIN m.has /\ m.has[e].status = "published"
        /\ mem' = [mem EXCEPT ![p] = after] /\ todo' = [todo EXCEPT ![p] = t]
    BY <1>2, <1>4, <1>5, <1>7, <2>1 DEF Pack!Worn, Pack!SetAside
  <2>3. of \in Partial(Checks) /\ DOMAIN of = DOMAIN m.probes
    BY <1>2, <2>1, RetireIs
  <2>4. ASSUME Sound(m) PROVE Follows(m, after, more)
    <3>1. ~m.has[e].quar
      BY <2>2, <2>4 DEF Sound
    <3> QED BY <1>2, <2>1, <2>2, <2>3, <3>1, StatusFollows
  <2>5. after \in Memories /\ after.open /\ DOMAIN after.has = DOMAIN m.has
    <3>1. m.has[e] \in Holdings /\ m.has \in Partial(Holdings)
      BY <1>2, <2>2, MemoryIs
    <3>2. PICK entry : entry = [m.has[e] EXCEPT !.status = "deprecated"]
      OBVIOUS
    <3>3. entry \in Holdings
      BY <3>1, <3>2 DEF Holdings, Pack!Statuses
    <3>4. PICK has : has = [m.has EXCEPT ![e] = entry]
      OBVIOUS
    <3>5. has \in Partial(Holdings) /\ DOMAIN has = DOMAIN m.has
      BY <3>1, <3>3, <3>4, ExceptIs
    <3>6. after = [m EXCEPT !.has = has, !.probes = of]
      BY <2>1, <3>2, <3>4
    <3> QED BY <1>2, <2>3, <3>5, <3>6 DEF Memories
  <2>6. more \in Seq(Writes) /\ \A v \in Listed(more) : v.file \in {"md", "judge"} => v.id = e
    <3>1. PICK others : others = Pack!PersistProbes(m)
      OBVIOUS
    <3>2. others \in Seq(Writes) /\ \A v \in Listed(others) : v.file = "probes"
      BY <3>1, OneOfIs, NoneIs DEF Pack!PersistProbes
    <3>3. e \in Entries /\ Pack!Md(e).id = e
      BY <1>2, <2>2, MemoryIs, WriteOf
    <3>4. /\ more \in Seq(Writes)
          /\ \A v \in Listed(more) : v = Pack!Md(e) \/ v.file = "manifest" \/ v \in Listed(others)
      BY <1>2, <2>1, <3>1, <3>2, <3>3, PersistIs
    <3> QED BY <3>2, <3>3, <3>4
  <2>7. t \in Seq(Writes) /\ Listed(t) = Listed(rest) \cup Listed(more)
    BY <1>3, <2>1, <2>6, Joined
  <2>8. Writable(after, t)
    BY <1>2, <2>2, <2>5, <2>6, <2>7 DEF Writable
  <2>9. Ends(p, m, rest, after, more, t)
    BY <2>2, <2>4, <2>5, <2>7, <2>8 DEF Ends
  <2> QED BY <2>9
<1> QED BY <1>6, <1>7

LEMMA WriteKeeps == ASSUME PackInv, NEW p \in Procs, Pack!Write(p) PROVE PackInv'
<1>1. PICK m, w, rest : m = mem[p] /\ w = Head(todo[p]) /\ rest = Tail(todo[p])
  OBVIOUS
<1>2. /\ FilesInv' /\ m \in Memories /\ m.open /\ w \in Writes /\ Writable(m, rest)
      /\ Sound(m) /\ Agree(md, manifest, probes, vectors, m, todo[p]) =>
             Agree(md', manifest', probes', vectors', m, rest)
  BY <1>1, WriteFiles
<1>9. PICK after, more, t : Ends(p, m, rest, after, more, t)
  BY <1>1, WriteEnds
<1>3. /\ t \in Seq(Writes) /\ Listed(t) = Listed(rest) \cup Listed(more)
      /\ mem' = [mem EXCEPT ![p] = after] /\ todo' = [todo EXCEPT ![p] = t]
      /\ (after = m /\ more = <<>>) \/ (Sound(m) => Follows(m, after, more))
      /\ after \in Memories /\ after.open /\ Writable(after, t)
  BY <1>9 DEF Ends
<1>4. UNCHANGED <<strays, broken, doctor, shared, faults>>
  BY DEF Pack!Write
<1>5. /\ mem' \in [Procs -> Memories] /\ todo' \in [Procs -> Seq(Writes)]
      /\ mem'[p] = after /\ todo'[p] = t
      /\ \A q \in Procs : q # p => mem'[q] = mem[q] /\ todo'[q] = todo[q]
  BY <1>3 DEF PackInv, TypeInv, ProcsInv
<1>6. TypeInv'
  <2>1. \A q \in Procs : Writable(mem'[q], todo'[q]) /\ (~mem'[q].open => todo'[q] = <<>>)
    BY <1>3, <1>5 DEF PackInv, TypeInv, ProcsInv
  <2> QED BY <1>2, <1>4, <1>5, <2>1 DEF PackInv, TypeInv, ProcsInv
<1>7. DoctorInv'
  BY <1>1, <1>2, <1>4 DEF PackInv, DoctorInv
<1>8. ThroughInv'
  <2> SUFFICES ASSUME faults = 0, ~shared PROVE ThroughInv'
    BY <1>4 DEF ThroughInv
  <2>1. /\ Sound(m) /\ Agree(md, manifest, probes, vectors, m, todo[p]) /\ broken = {} /\ DOMAIN strays = {}
        /\ \A q \in Procs : q # p => ~mem[q].open
    BY <1>1, <1>2 DEF PackInv, ThroughInv
  <2>2. Agree(md', manifest', probes', vectors', m, rest)
    BY <1>2, <2>1
  <2>3. Sound(after) /\ Agree(md', manifest', probes', vectors', after, t)
    <3>1. CASE after = m /\ more = <<>>
      <4>1. Listed(t) = Listed(rest)
        BY <1>3, <3>1, NoneIs
      <4> QED BY <2>1, <2>2, <3>1, <4>1 DEF Agree, Pends
    <3>2. CASE Follows(m, after, more)
      <4>1. Agree(md', manifest', probes', vectors', after, t)
        BY <1>3, <2>2, <3>2, AgreeFollows
      <4> QED BY <2>1, <3>2, <4>1 DEF Follows
    <3> QED BY <1>3, <2>1, <3>1, <3>2
  <2>4. Pack!Busy'
    BY <1>3, <1>5 DEF Pack!Busy
  <2> QED BY <1>3, <1>4, <1>5, <2>1, <2>3, <2>4 DEF ThroughInv
<1> QED BY <1>6, <1>7, <1>8 DEF PackInv

(***************************************************************************)
(* Faults.                                                                 *)

LEMMA RestingIs == Pack!Resting \in Rounds /\ Pack!Resting.pc = "off"
BY EmptyIs DEF Pack!Resting, Rounds

\* A write cut short leaves files of their shape.
LEMMA TearsKeeps ==
    ASSUME FilesInv, NEW which, NEW e, which = "md" => e \in Entries, NEW lines \in Partial(Checks),
           Pack!Tears(which, e, lines), UNCHANGED strays
    PROVE  FilesInv'
<1>1. md' \in Partial(EntryFiles)
  <2>1. PICK cut \in Pack!Cut : md' = IF which = "md" THEN Pack!With(md, e, cut) ELSE md
    BY DEF Pack!Tears
  <2>2. cut \in EntryFiles
    <3>1. PICK s \in {"torn", "garbled"} : cut = Pack!File(s, FALSE, 0, 0)
      BY DEF Pack!Cut
    <3>2. cut = [status |-> s, quar |-> FALSE, help |-> 0, harm |-> 0]
      BY <3>1 DEF Pack!File
    <3> QED BY <3>2 DEF EntryFiles
  <2>3. CASE which = "md"
    BY <2>1, <2>2, <2>3, WithIs DEF FilesInv
  <2>4. CASE which # "md"
    BY <2>1, <2>4 DEF FilesInv
  <2> QED BY <2>3, <2>4
<1>2. /\ manifest' \in [state : {"missing", "fine", "torn"}, has : Partial(Listings)]
      /\ manifest'.state = "missing" => DOMAIN manifest'.has = {}
  BY EmptyIs DEF Pack!Tears, FilesInv
<1>3. vectors' \in [torn : BOOLEAN, of : SUBSET Entries]
  BY DEF Pack!Tears, FilesInv
<1>4. probes' \in [bad : BOOLEAN, of : Partial(Checks)]
  <2>1. CASE which = "probes"
    <3>1. PICK some \in SUBSET DOMAIN lines, bad \in BOOLEAN : probes' = [bad |-> bad, of |-> Pack!Restrict(lines, some)]
      BY <2>1 DEF Pack!Tears
    <3>2. PICK of : of = Pack!Restrict(lines, some)
      OBVIOUS
    <3>3. of \in Partial(Checks)
      BY <3>2, RestrictIs
    <3> QED BY <3>1, <3>2, <3>3
  <2>2. CASE which # "probes"
    BY <2>2 DEF Pack!Tears, FilesInv
  <2> QED BY <2>1, <2>2
<1> QED BY <1>1, <1>2, <1>3, <1>4 DEF FilesInv

LEMMA CrashKeeps == ASSUME PackInv, NEW p \in Procs, Pack!Crash(p) PROVE PackInv'
<1>1. /\ mem[p].open /\ faults' = faults + 1
      /\ mem' = [mem EXCEPT ![p] = Pack!Closed] /\ todo' = [todo EXCEPT ![p] = <<>>]
      /\ UNCHANGED <<strays, broken, doctor, shared>>
  BY DEF Pack!Crash, Pack!Fault
<1>2. PICK m, w, lines : m = mem[p] /\ w = Head(todo[p]) /\ lines = Pack!ProbesOf(m).of
  OBVIOUS
<1>3. m \in Memories /\ lines \in Partial(Checks)
  BY <1>2, Held, WrittenIs
<1>4. FilesInv'
  <2>1. CASE UNCHANGED <<md, manifest, vectors, probes>>
    BY <1>1, <2>1 DEF PackInv, TypeInv, FilesInv
  <2>2. CASE todo[p] # <<>> /\ Pack!Tears(w.file, IF w.file = "md" THEN w.id ELSE 0, lines)
    <3>1. PICK f, e : f = w.file /\ e = IF f = "md" THEN w.id ELSE 0
      OBVIOUS
    <3>2. todo[p] \in Seq(Writes) /\ Writable(m, todo[p])
      BY <1>2 DEF PackInv, TypeInv, ProcsInv
    <3>3. w \in Listed(todo[p])
      BY <1>2, <2>2, <3>2, FirstAndRest
    <3>4. f = "md" => e \in Entries
      BY <1>3, <3>1, <3>2, <3>3, MemoryIs DEF Writable
    <3>5. Pack!Tears(f, e, lines)
      BY <2>2, <3>1
    <3> QED BY <1>1, <1>3, <3>4, <3>5, TearsKeeps DEF PackInv, TypeInv
  <2> QED BY <1>2, <2>1, <2>2 DEF Pack!Crash
<1>5. Pack!Closed \in Memories /\ ~Pack!Closed.open
  BY EmptyIs DEF Pack!Closed, Memories
<1>6. /\ mem' \in [Procs -> Memories] /\ todo' \in [Procs -> Seq(Writes)]
      /\ mem'[p] = Pack!Closed /\ todo'[p] = <<>>
      /\ \A q \in Procs : q # p => mem'[q] = mem[q] /\ todo'[q] = todo[q]
  BY <1>1, <1>5 DEF PackInv, TypeInv, ProcsInv
<1>7. \A q \in Procs : Writable(mem'[q], todo'[q]) /\ (~mem'[q].open => todo'[q] = <<>>)
  BY <1>6, NoneIs DEF PackInv, TypeInv, ProcsInv, Writable
<1>8. faults' \in Nat /\ faults' # 0
  BY <1>1 DEF PackInv, TypeInv, ProcsInv
<1>9. ProcsInv'
  BY <1>1, <1>6, <1>7, <1>8 DEF PackInv, TypeInv, ProcsInv
<1>10. DoctorInv'
  BY <1>1 DEF PackInv, DoctorInv
<1>11. ThroughInv'
  BY <1>8 DEF ThroughInv
<1> QED BY <1>4, <1>9, <1>10, <1>11 DEF PackInv, TypeInv

\* A publish that is refused when the memory has changed.
LEMMA PublishRefusedKeeps ==
    ASSUME PackInv, NEW p \in Procs, NEW e \in Entries, NEW vector \in BOOLEAN, Pack!PublishRefused(p, e, vector)
    PROVE  PackInv'
<1>1. PICK m, after : m = mem[p] /\ after = Pack!Published(m, e, vector)
  OBVIOUS
<1>2. /\ m.open /\ todo[p] = <<>> /\ e \in DOMAIN m.has /\ faults' = faults + 1
      /\ mem' = [mem EXCEPT ![p] = after] /\ UNCHANGED <<Pack!files, todo, doctor, shared>>
  BY <1>1 DEF Pack!PublishRefused, Pack!Publishable, Pack!Idle, Pack!Has, Pack!Fault
<1>3. m \in Memories /\ m.has \in Partial(Holdings) /\ m.has[e] \in Holdings /\ m.vec \in SUBSET Entries
  BY <1>1, <1>2, Held, MemoryIs
<1>4. after \in Memories /\ after.open
  <2>1. PICK entry, has, vec : /\ entry = [m.has[e] EXCEPT !.status = "published"]
                               /\ has = [m.has EXCEPT ![e] = entry]
                               /\ vec = IF vector THEN m.vec \cup {e} ELSE m.vec \ {e}
    OBVIOUS
  <2>2. entry \in Holdings
    BY <1>3, <2>1 DEF Holdings, Pack!Statuses
  <2>3. has \in Partial(Holdings) /\ vec \in SUBSET Entries
    BY <1>3, <2>1, <2>2, ExceptIs
  <2>4. after = [m EXCEPT !.has = has, !.vec = vec]
    BY <1>1, <2>1 DEF Pack!Published
  <2> QED BY <1>2, <1>3, <2>3, <2>4 DEF Memories
<1>5. mem' \in [Procs -> Memories] /\ mem'[p] = after /\ \A q \in Procs : q # p => mem'[q] = mem[q]
  BY <1>2, <1>4 DEF PackInv, TypeInv, ProcsInv
<1>6. FilesInv'
  BY <1>2 DEF PackInv, TypeInv, FilesInv, Pack!files
<1>7. \A q \in Procs : Writable(mem'[q], todo'[q]) /\ (~mem'[q].open => todo'[q] = <<>>)
  BY <1>2, <1>5, NoneIs DEF PackInv, TypeInv, ProcsInv, Writable
<1>8. faults' \in Nat /\ faults' # 0
  BY <1>2 DEF PackInv, TypeInv, ProcsInv
<1>9. ProcsInv'
  BY <1>2, <1>5, <1>7, <1>8 DEF PackInv, TypeInv, ProcsInv
<1>10. DoctorInv'
  BY <1>1, <1>2 DEF PackInv, DoctorInv
<1>11. ThroughInv'
  BY <1>8 DEF ThroughInv
<1> QED BY <1>6, <1>9, <1>10, <1>11 DEF PackInv, TypeInv

LEMMA EditKeeps == ASSUME PackInv, Pack!Edit PROVE PackInv'
<1>1. faults' = faults + 1 /\ doctor' = Pack!Resting /\ UNCHANGED <<vectors, broken, mem, todo, shared>>
  BY DEF Pack!Edit, Pack!Fault
<1>2. faults' \in Nat /\ faults' # 0
  BY <1>1 DEF PackInv, TypeInv, ProcsInv
<1>3. ProcsInv'
  BY <1>1, <1>2, RestingIs DEF PackInv, TypeInv, ProcsInv
<1>4. DoctorInv' /\ ThroughInv'
  BY <1>1, <1>2, RestingIs DEF DoctorInv, ThroughInv
<1>5. FilesInv
  BY DEF PackInv, TypeInv
<1>6. CASE /\ \E e \in DOMAIN md, s \in {"candidate", "published", "odd"} :
                 md[e].status \in Pack!Statuses \ {s} /\ md' = [md EXCEPT ![e].status = s]
           /\ UNCHANGED <<strays, manifest, probes>>
  <2>1. PICK e \in DOMAIN md, s \in {"candidate", "published", "odd"} : md' = [md EXCEPT ![e].status = s]
    BY <1>6
  <2>2. PICK f : f = [md[e] EXCEPT !.status = s]
    OBVIOUS
  <2>3. md[e] \in EntryFiles
    BY <1>5, PartialEach DEF FilesInv
  <2>4. f \in EntryFiles
    BY <2>2, <2>3 DEF EntryFiles, Pack!Statuses
  <2>5. md' = [md EXCEPT ![e] = f]
    BY <2>1, <2>2
  <2>6. md' \in Partial(EntryFiles)
    BY <1>5, <2>4, <2>5, ExceptIs DEF FilesInv
  <2>7. FilesInv'
    BY <1>1, <1>5, <1>6, <2>6 DEF FilesInv
  <2> QED BY <1>3, <1>4, <2>7 DEF PackInv, TypeInv
<1>7. CASE /\ \E e \in DOMAIN md : md' = Pack!Restrict(md, DOMAIN md \ {e})
           /\ UNCHANGED <<strays, manifest, probes>>
  <2>1. PICK D : D \subseteq DOMAIN md /\ md' = Pack!Restrict(md, D)
    BY <1>7
  <2>2. md' \in Partial(EntryFiles)
    BY <1>5, <2>1, RestrictIs DEF FilesInv
  <2>3. FilesInv'
    BY <1>1, <1>5, <1>7, <2>2 DEF FilesInv
  <2> QED BY <1>3, <1>4, <2>3 DEF PackInv, TypeInv
<1>8. CASE manifest' = [state |-> "missing", has |-> Pack!Empty] /\ UNCHANGED <<md, strays, probes>>
  <2>1. FilesInv'
    BY <1>1, <1>5, <1>8, EmptyIs DEF FilesInv
  <2> QED BY <1>3, <1>4, <2>1 DEF PackInv, TypeInv
<1>9. CASE /\ \E e \in DOMAIN manifest.has : manifest' = [manifest EXCEPT !.has[e].harm = -1]
           /\ UNCHANGED <<md, strays, probes>>
  <2>1. PICK e \in DOMAIN manifest.has : manifest' = [manifest EXCEPT !.has[e].harm = -1]
    BY <1>9
  <2>2. PICK r, has : r = [manifest.has[e] EXCEPT !.harm = -1] /\ has = [manifest.has EXCEPT ![e] = r]
    OBVIOUS
  <2>3. manifest.has \in Partial(Listings) /\ manifest.has[e] \in Listings
    BY <1>5, PartialEach DEF FilesInv
  <2>4. r \in Listings
    BY <2>2, <2>3 DEF Listings
  <2>5. has \in Partial(Listings) /\ DOMAIN has = DOMAIN manifest.has
    BY <2>2, <2>3, <2>4, ExceptIs
  <2>6. manifest' = [manifest EXCEPT !.has = has]
    BY <2>1, <2>2
  <2>7. /\ manifest' \in [state : {"missing", "fine", "torn"}, has : Partial(Listings)]
        /\ manifest'.state = manifest.state /\ manifest'.has = has
    BY <1>5, <2>5, <2>6 DEF FilesInv
  <2>8. FilesInv'
    BY <1>1, <1>5, <1>9, <2>5, <2>7 DEF FilesInv
  <2> QED BY <1>3, <1>4, <2>8 DEF PackInv, TypeInv
<1>10. CASE /\ \E e \in Entries : probes' = [probes EXCEPT !.of = Pack!With(@, e, [valid |-> FALSE, retired |-> FALSE])]
            /\ UNCHANGED <<md, strays, manifest>>
  <2>8. [valid |-> FALSE, retired |-> FALSE] \in Checks
    BY DEF Checks
  <2>1. PICK check : check = [valid |-> FALSE, retired |-> FALSE] /\ check \in Checks
    BY <2>8
  <2>2. PICK e \in Entries : probes' = [probes EXCEPT !.of = Pack!With(@, e, check)]
    BY <1>10, <2>1
  <2>3. PICK of, before : before = probes.of /\ of = Pack!With(before, e, check)
    OBVIOUS
  <2>4. of \in Partial(Checks)
    BY <1>5, <2>1, <2>3, WithIs DEF FilesInv
  <2>5. probes' = [probes EXCEPT !.of = of]
    BY <2>2, <2>3
  <2>6. probes' \in [bad : BOOLEAN, of : Partial(Checks)]
    BY <1>5, <2>4, <2>5 DEF FilesInv
  <2>7. FilesInv'
    BY <1>1, <1>5, <1>10, <2>6 DEF FilesInv
  <2> QED BY <1>3, <1>4, <2>7 DEF PackInv, TypeInv
<1>11. CASE /\ \E e \in DOMAIN md, copied \in BOOLEAN :
                  /\ Pack!Readable(md[e]) /\ strays' = Pack!With(strays, e, md[e])
                  /\ md' = IF copied THEN md ELSE Pack!Restrict(md, DOMAIN md \ {e})
            /\ UNCHANGED <<manifest, probes>>
  <2>1. PICK e, f, D :
           /\ e \in DOMAIN md /\ f = md[e] /\ strays' = Pack!With(strays, e, f)
           /\ D = DOMAIN md \ {e} /\ (md' = md \/ md' = Pack!Restrict(md, D))
    BY <1>11
  <2>2. f \in EntryFiles /\ e \in Entries
    BY <1>5, <2>1, PartialEach DEF FilesInv
  <2>3. strays' \in Partial(EntryFiles)
    BY <1>5, <2>1, <2>2, WithIs DEF FilesInv
  <2>4. md' \in Partial(EntryFiles)
    BY <1>5, <2>1, RestrictIs DEF FilesInv
  <2>5. FilesInv'
    BY <1>1, <1>5, <1>11, <2>3, <2>4 DEF FilesInv
  <2> QED BY <1>3, <1>4, <2>5 DEF PackInv, TypeInv
<1> QED BY <1>6, <1>7, <1>8, <1>9, <1>10, <1>11 DEF Pack!Edit

(***************************************************************************)
(* The doctor.                                                             *)

\* A step of the doctor: it works alone.
LEMMA DoctorMoves ==
    ASSUME PackInv, \A p \in Procs : ~mem[p].open, UNCHANGED <<mem, todo, shared, faults>>,
           FilesInv', doctor' \in Rounds, DoctorInv',
           faults = 0 /\ ~shared /\ broken = {} /\ DOMAIN strays = {} /\ Disk =>
               broken' = {} /\ DOMAIN strays' = {} /\ Disk'
    PROVE  PackInv'
<1>1. ProcsInv'
  BY DEF PackInv, TypeInv, ProcsInv
<1>2. ThroughInv'
  <2>1. ASSUME faults = 0, ~shared PROVE broken = {} /\ DOMAIN strays = {} /\ Disk
    BY <2>1 DEF PackInv, ThroughInv, Pack!Busy
  <2> QED BY <2>1 DEF ThroughInv
<1> QED BY <1>1, <1>2 DEF PackInv, TypeInv

LEMMA DoctorStartsKeeps == ASSUME PackInv, Pack!DoctorStarts PROVE PackInv'
<1>1. /\ \A p \in Procs : ~mem[p].open
      /\ UNCHANGED <<md, strays, manifest, probes, vectors, broken, mem, todo, shared, faults>>
      /\ doctor' = [pc |-> "entries", left |-> DOMAIN md, misnamed |-> DOMAIN strays, good |-> Pack!Empty]
  BY DEF Pack!DoctorStarts, Pack!Busy, Pack!files
<1>2. FilesInv' /\ DOMAIN md \in SUBSET Entries /\ DOMAIN strays \in SUBSET Entries
  BY <1>1, PartialEach DEF PackInv, TypeInv, FilesInv
<1>3. doctor' \in Rounds /\ DOMAIN Pack!Empty = {} /\ Pack!Empty \in Partial(EntryFiles)
  BY <1>1, <1>2, EmptyIs DEF Rounds
<1>4. DoctorInv'
  BY <1>1, <1>3 DEF DoctorInv
<1>5. broken' = broken /\ strays' = strays /\ (Disk => Disk')
  BY <1>1 DEF Disk
<1> QED BY <1>1, <1>2, <1>3, <1>4, <1>5, DoctorMoves

\* What the doctor knows while it works.
LEMMA AtWork ==
    ASSUME PackInv
    PROVE  /\ doctor \in Rounds /\ doctor.good \in Partial(EntryFiles) /\ doctor.left \in SUBSET Entries
           /\ doctor.misnamed \in SUBSET Entries
           /\ FilesInv /\ md \in Partial(EntryFiles) /\ strays \in Partial(EntryFiles)
BY DEF PackInv, TypeInv, ProcsInv, FilesInv, Rounds

LEMMA RepairedIs ==
    ASSUME NEW f \in EntryFiles, NEW g, g = Pack!Repaired(f)
    PROVE  /\ g \in EntryFiles /\ ~Pack!Forbidden(g)
           /\ ~Pack!Forbidden(f) => g = f
<1>1. CASE Pack!Forbidden(f)
  <2>1. g = [f EXCEPT !.status = "candidate"]
    BY <1>1 DEF Pack!Repaired
  <2>2. g \in EntryFiles /\ g.status = "candidate"
    BY <2>1 DEF EntryFiles, Pack!Statuses
  <2> QED BY <1>1, <2>2 DEF Pack!Forbidden, Pack!Statuses
<1>2. CASE ~Pack!Forbidden(f)
  <2>1. g = f
    BY <1>2 DEF Pack!Repaired, EntryFiles
  <2> QED BY <1>2, <2>1
<1> QED BY <1>1, <1>2

LEMMA ExamineEntryKeeps == ASSUME PackInv, Pack!ExamineEntry PROVE PackInv'
<1>1. /\ doctor.pc = "entries" /\ doctor.left # {}
      /\ UNCHANGED <<strays, manifest, probes, vectors, mem, todo, shared, faults>>
  BY DEF Pack!ExamineEntry
<1>2. PICK e, g : e = Pack!ThisEntry /\ g = Pack!Repaired(md[e])
  OBVIOUS
<1>3. e \in doctor.left
  BY <1>1, <1>2 DEF Pack!ThisEntry
<1>4. /\ \A p \in Procs : ~mem[p].open
      /\ DOMAIN md = doctor.left \cup DOMAIN doctor.good /\ doctor.left \cap DOMAIN doctor.good = {}
      /\ \A d \in DOMAIN doctor.good : md[d] = doctor.good[d] /\ ~Pack!Forbidden(doctor.good[d])
      /\ doctor.misnamed \subseteq DOMAIN strays
  BY <1>1 DEF PackInv, DoctorInv
<1>5. e \in DOMAIN md /\ md[e] \in EntryFiles /\ e \in Entries /\ e \notin DOMAIN doctor.good
  BY <1>3, <1>4, AtWork, PartialEach
<1>6. doctor \in Rounds /\ doctor.good \in Partial(EntryFiles) /\ doctor.left \in SUBSET Entries
      /\ md \in Partial(EntryFiles) /\ FilesInv
  BY AtWork
<1>7. PICK left : left = doctor.left \ {e}
  OBVIOUS
<1>8. CASE md' = Pack!Restrict(md, DOMAIN md \ {e}) /\ doctor' = [doctor EXCEPT !.left = left] /\ md[e].status = "torn"
  <2>1. md' = Pack!Restrict(md, DOMAIN md \ {e}) /\ doctor' = [doctor EXCEPT !.left = left]
    BY <1>8
  <2>2. md' \in Partial(EntryFiles)
    BY <1>6, <2>1, RestrictIs
  <2>3. DOMAIN md' = DOMAIN md \ {e} /\ \A d \in DOMAIN md' : md'[d] = md[d]
    BY <2>1 DEF Pack!Restrict
  <2>4. /\ doctor' \in Rounds /\ doctor'.pc = "entries" /\ doctor'.left = left /\ doctor'.good = doctor.good
        /\ doctor'.misnamed = doctor.misnamed
    BY <1>1, <1>6, <1>7, <2>1 DEF Rounds
  <2>5. FilesInv'
    BY <1>1, <1>6, <2>2 DEF FilesInv
  <2>6. DoctorInv'
    BY <1>1, <1>4, <1>5, <1>7, <2>3, <2>4 DEF DoctorInv
  <2>7. ~Disk
    <3>1. ASSUME Disk PROVE manifest.has[e].status = "torn" /\ e \in DOMAIN manifest.has
      BY <1>5, <1>8, <3>1 DEF Disk
    <3>2. ASSUME Disk PROVE manifest.has[e] \in Listings
      BY <1>6, <3>1, <3>2, PartialEach DEF FilesInv
    <3> QED BY <3>1, <3>2 DEF Listings, Pack!Statuses
  <2> QED BY <1>1, <1>4, <2>4, <2>5, <2>6, <2>7, DoctorMoves
<1>10. CASE doctor' = Pack!Resting /\ UNCHANGED <<md, broken>>
  <2>1. FilesInv'
    BY <1>1, <1>6, <1>10 DEF FilesInv
  <2>2. doctor' \in Rounds /\ DoctorInv'
    BY <1>10, RestingIs DEF DoctorInv
  <2>3. Disk => Disk'
    BY <1>1, <1>10 DEF Disk
  <2> QED BY <1>1, <1>4, <1>10, <2>1, <2>2, <2>3, DoctorMoves
<1>9. CASE /\ md' = Pack!With(md, e, g) /\ UNCHANGED broken
           /\ doctor' = [doctor EXCEPT !.left = left, !.good = Pack!With(@, e, g)]
  <2>1. PICK good : good = Pack!With(doctor.good, e, g)
    OBVIOUS
  <2>2. md' = Pack!With(md, e, g) /\ broken' = broken /\ doctor' = [doctor EXCEPT !.left = left, !.good = good]
    BY <1>9, <2>1
  <2>3. g \in EntryFiles /\ ~Pack!Forbidden(g) /\ (~Pack!Forbidden(md[e]) => g = md[e])
    BY <1>2, <1>5, RepairedIs
  <2>4. md' \in Partial(EntryFiles)
    BY <1>5, <1>6, <2>2, <2>3, WithIs
  <2>5. good \in Partial(EntryFiles)
    BY <1>5, <1>6, <2>1, <2>3, WithIs
  <2>6. /\ DOMAIN md' = DOMAIN md /\ md'[e] = g /\ \A d \in DOMAIN md : d # e => md'[d] = md[d]
        /\ DOMAIN good = DOMAIN doctor.good \cup {e} /\ good[e] = g
        /\ \A d \in DOMAIN doctor.good : d # e => good[d] = doctor.good[d]
    BY <1>5, <2>1, <2>2 DEF Pack!With
  <2>7. /\ doctor' \in Rounds /\ doctor'.pc = "entries" /\ doctor'.left = left /\ doctor'.good = good
        /\ doctor'.misnamed = doctor.misnamed
    BY <1>1, <1>6, <1>7, <2>2, <2>5 DEF Rounds
  <2>8. FilesInv'
    BY <1>1, <1>6, <2>4 DEF FilesInv
  <2>9. DoctorInv'
    <3>1. \A d \in DOMAIN good : md'[d] = good[d] /\ ~Pack!Forbidden(good[d])
      BY <1>4, <1>5, <2>3, <2>6
    <3>2. DOMAIN md' = left \cup DOMAIN good /\ left \cap DOMAIN good = {}
      BY <1>3, <1>4, <1>5, <1>7, <2>6
    <3> QED BY <1>1, <1>4, <2>7, <3>1, <3>2 DEF DoctorInv
  <2>10. ASSUME Disk PROVE Disk'
    <3>1. md[e].status \in Pack!Statuses /\ (md[e].status = "published" => ~md[e].quar)
      <4>1. /\ e \in DOMAIN manifest.has /\ md[e].status = manifest.has[e].status
            /\ md[e].status # "candidate" => ~md[e].quar
        BY <1>5, <2>10 DEF Disk
      <4>2. manifest.has[e] \in Listings
        BY <1>6, <4>1, PartialEach DEF FilesInv
      <4> QED BY <4>1, <4>2 DEF Listings
    <3>2. g = md[e]
      BY <2>3, <3>1 DEF Pack!Forbidden
    <3>3. \A d \in DOMAIN md : md'[d] = md[d]
      BY <2>6, <3>2
    <3> QED BY <1>1, <2>6, <2>10, <3>3 DEF Disk
  <2> QED BY <1>1, <1>4, <2>2, <2>7, <2>8, <2>9, <2>10, DoctorMoves
<1> QED BY <1>2, <1>7, <1>8, <1>9, <1>10 DEF Pack!ExamineEntry

LEMMA ExamineStrayKeeps == ASSUME PackInv, Pack!ExamineStray PROVE PackInv'
<1>1. /\ doctor.pc = "entries"
      /\ UNCHANGED <<manifest, probes, vectors, broken, mem, todo, shared, faults>>
  BY DEF Pack!ExamineStray
<1>2. /\ \A p \in Procs : ~mem[p].open
      /\ DOMAIN md = doctor.left \cup DOMAIN doctor.good /\ doctor.left \cap DOMAIN doctor.good = {}
      /\ \A d \in DOMAIN doctor.good : md[d] = doctor.good[d] /\ ~Pack!Forbidden(doctor.good[d])
      /\ doctor.misnamed \subseteq DOMAIN strays
  BY <1>1 DEF PackInv, DoctorInv
<1>3. /\ doctor \in Rounds /\ doctor.good \in Partial(EntryFiles) /\ doctor.left \in SUBSET Entries
      /\ doctor.misnamed \in SUBSET Entries
      /\ md \in Partial(EntryFiles) /\ strays \in Partial(EntryFiles) /\ FilesInv
  BY AtWork
<1>4. PICK e, g :
         /\ e \in doctor.misnamed /\ g = Pack!Repaired(strays[e])
         /\ \/ /\ Pack!Has(md, e)
               /\ strays' = Pack!With(strays, e, g) /\ UNCHANGED md
               /\ doctor' = [doctor EXCEPT !.misnamed = @ \ {e}]
            \/ /\ ~Pack!Has(md, e)
               /\ strays' = Pack!Restrict(strays, DOMAIN strays \ {e}) /\ md' = Pack!With(md, e, g)
               /\ doctor' = [doctor EXCEPT !.misnamed = @ \ {e}, !.good = Pack!With(@, e, g)]
  BY DEF Pack!ExamineStray
<1>5. e \in DOMAIN strays /\ e \in Entries /\ strays[e] \in EntryFiles
  BY <1>2, <1>3, <1>4, PartialEach
<1>6. g \in EntryFiles /\ ~Pack!Forbidden(g)
  BY <1>4, <1>5, RepairedIs
<1>7. PICK misnamed : misnamed = doctor.misnamed \ {e}
  OBVIOUS
<1>8. DOMAIN strays # {}
  BY <1>5
<1>9. CASE Pack!Has(md, e)
  <2>1. strays' = Pack!With(strays, e, g) /\ md' = md /\ doctor' = [doctor EXCEPT !.misnamed = misnamed]
    BY <1>4, <1>7, <1>9
  <2>6. strays' \in Partial(EntryFiles)
    BY <1>3, <1>5, <1>6, <2>1, WithIs
  <2>2. strays' \in Partial(EntryFiles) /\ DOMAIN strays' = DOMAIN strays \cup {e}
    BY <2>1, <2>6 DEF Pack!With
  <2>3. /\ doctor' \in Rounds /\ doctor'.pc = "entries" /\ doctor'.left = doctor.left /\ doctor'.good = doctor.good
        /\ doctor'.misnamed = misnamed
    BY <1>1, <1>3, <1>7, <2>1 DEF Rounds
  <2>4. FilesInv'
    BY <1>1, <1>3, <2>1, <2>2 DEF FilesInv
  <2>5. DoctorInv'
    BY <1>1, <1>2, <1>7, <2>1, <2>2, <2>3 DEF DoctorInv, Pack!Forbidden
  <2> QED BY <1>1, <1>2, <1>8, <2>3, <2>4, <2>5, DoctorMoves
<1>10. CASE ~Pack!Has(md, e)
  <2>1. PICK good : good = Pack!With(doctor.good, e, g)
    OBVIOUS
  <2>2. /\ strays' = Pack!Restrict(strays, DOMAIN strays \ {e}) /\ md' = Pack!With(md, e, g)
        /\ doctor' = [doctor EXCEPT !.misnamed = misnamed, !.good = good]
    BY <1>4, <1>7, <1>10, <2>1
  <2>3. strays' \in Partial(EntryFiles) /\ DOMAIN strays' = DOMAIN strays \ {e}
    <3>1. PICK D : D = DOMAIN strays \ {e} /\ D \subseteq DOMAIN strays
      OBVIOUS
    <3> QED BY <1>3, <2>2, <3>1, RestrictIs
  <2>4. md' \in Partial(EntryFiles) /\ good \in Partial(EntryFiles)
    BY <1>3, <1>5, <1>6, <2>1, <2>2, WithIs
  <2>5. e \notin DOMAIN md /\ e \notin doctor.left /\ e \notin DOMAIN doctor.good
    BY <1>2, <1>10 DEF Pack!Has
  <2>6. /\ DOMAIN md' = DOMAIN md \cup {e} /\ md'[e] = g /\ \A d \in DOMAIN md : md'[d] = md[d]
        /\ DOMAIN good = DOMAIN doctor.good \cup {e} /\ good[e] = g
        /\ \A d \in DOMAIN doctor.good : good[d] = doctor.good[d]
    BY <2>1, <2>2, <2>5 DEF Pack!With
  <2>7. /\ doctor' \in Rounds /\ doctor'.pc = "entries" /\ doctor'.left = doctor.left /\ doctor'.good = good
        /\ doctor'.misnamed = misnamed
    BY <1>1, <1>3, <1>7, <2>2, <2>4 DEF Rounds
  <2>8. FilesInv'
    BY <1>1, <1>3, <2>3, <2>4 DEF FilesInv
  <2>9. DoctorInv'
    <3>1. \A d \in DOMAIN good : md'[d] = good[d] /\ ~Pack!Forbidden(good[d])
      BY <1>2, <1>6, <2>6
    <3>2. DOMAIN md' = doctor.left \cup DOMAIN good /\ doctor.left \cap DOMAIN good = {}
      BY <1>2, <2>5, <2>6
    <3>3. misnamed \subseteq DOMAIN strays'
      BY <1>2, <1>7, <2>3
    <3> QED BY <1>1, <1>2, <2>7, <3>1, <3>2, <3>3 DEF DoctorInv
  <2> QED BY <1>1, <1>2, <1>8, <2>7, <2>8, <2>9, DoctorMoves
<1> QED BY <1>9, <1>10

LEMMA ExamineManifestKeeps == ASSUME PackInv, Pack!ExamineManifest PROVE PackInv'
<1>1. /\ doctor.pc = "entries" /\ doctor.left = {} /\ doctor.misnamed = {} /\ doctor' = [doctor EXCEPT !.pc = "vectors"]
      /\ manifest' = IF Pack!NeedsRewrite THEN Pack!Rebuilt ELSE manifest
      /\ UNCHANGED <<md, strays, probes, vectors, broken, mem, todo, shared, faults>>
  BY DEF Pack!ExamineManifest
<1>2. /\ \A p \in Procs : ~mem[p].open
      /\ DOMAIN md = DOMAIN doctor.good
      /\ \A d \in DOMAIN doctor.good : md[d] = doctor.good[d] /\ ~Pack!Forbidden(doctor.good[d])
  BY <1>1 DEF PackInv, DoctorInv
<1>3. doctor \in Rounds /\ doctor.good \in Partial(EntryFiles) /\ md \in Partial(EntryFiles) /\ FilesInv
      /\ manifest.has \in Partial(Listings)
  BY AtWork DEF FilesInv
<1>4. doctor' \in Rounds /\ doctor'.pc = "vectors" /\ doctor'.good = doctor.good
  BY <1>1, <1>3 DEF Rounds
<1> DEFINE old(e) == IF Pack!Has(manifest.has, e) THEN manifest.has[e] ELSE [help |-> -1, harm |-> -1, streak |-> 0]
           listing(e) == [status |-> doctor.good[e].status, help |-> Pack!MarkOf(old(e).help, doctor.good[e].help),
                          harm |-> Pack!MarkOf(old(e).harm, doctor.good[e].harm), streak |-> Pack!Clamped(old(e).streak)]
           has == [e \in DOMAIN doctor.good |-> listing(e)]
<1>5. ASSUME NEW e \in DOMAIN doctor.good
      PROVE  /\ listing(e) \in Listings /\ listing(e).status = md[e].status
             /\ listing(e).help >= 0 /\ listing(e).harm >= 0
  <2>1. doctor.good[e] \in EntryFiles /\ ~Pack!Forbidden(doctor.good[e]) /\ doctor.good[e] = md[e]
    BY <1>2, <1>3, <1>5, PartialEach
  <2>2. md[e].status \in Pack!Statuses /\ doctor.good[e].help \in Int /\ doctor.good[e].harm \in Int
    BY <2>1 DEF Pack!Forbidden, EntryFiles
  <2>3. old(e).help \in Int /\ old(e).harm \in Int /\ old(e).streak \in Int
    <3>1. CASE e \in DOMAIN manifest.has
      <4>1. manifest.has[e] \in Listings
        BY <1>3, <3>1, PartialEach
      <4> QED BY <3>1, <4>1 DEF Pack!Has, Listings
    <3>2. CASE e \notin DOMAIN manifest.has
      BY <3>2 DEF Pack!Has
    <3> QED BY <3>1, <3>2
  <2> HIDE DEF old
  <2>4. PICK a, b, c : /\ a = Pack!MarkOf(old(e).help, doctor.good[e].help) /\ a \in Int /\ a >= 0
                       /\ b = Pack!MarkOf(old(e).harm, doctor.good[e].harm) /\ b \in Int /\ b >= 0
                       /\ c = Pack!Clamped(old(e).streak) /\ c \in Int
    <3>1. \A i, j \in Int : Pack!MarkOf(i, j) \in Int /\ Pack!MarkOf(i, j) >= 0 /\ Pack!Clamped(i) \in Int
      BY DEF Pack!MarkOf, Pack!Clamped
    <3> QED BY <2>2, <2>3, <3>1
  <2>5. listing(e) = [status |-> md[e].status, help |-> a, harm |-> b, streak |-> c]
    BY <2>1, <2>4
  <2> HIDE DEF listing
  <2> QED BY <2>2, <2>4, <2>5 DEF Listings
<1>6. Pack!Rebuilt = [state |-> "fine", has |-> has]
  BY DEF Pack!Rebuilt
<1> HIDE DEF listing
<1>7. has \in Partial(Listings) /\ DOMAIN has = DOMAIN doctor.good /\ \A e \in DOMAIN has : has[e] = listing(e)
  <2>1. has \in [DOMAIN doctor.good -> Listings]
    BY <1>5
  <2>2. DOMAIN doctor.good \in SUBSET Entries
    BY <1>3, PartialEach
  <2>3. has \in Partial(Listings)
    BY <2>1, <2>2, MapIs
  <2> QED BY <2>3
<1> HIDE DEF has
<1>8. /\ manifest' \in [state : {"missing", "fine", "torn"}, has : Partial(Listings)]
      /\ manifest'.state = "fine" /\ DOMAIN manifest'.has = DOMAIN md
      /\ \A e \in DOMAIN md : /\ manifest'.has[e].status = md[e].status
                              /\ manifest'.has[e].help >= 0 /\ manifest'.has[e].harm >= 0
  <2>1. CASE Pack!NeedsRewrite
    <3>1. manifest' = [state |-> "fine", has |-> has]
      BY <1>1, <1>6, <2>1
    <3> QED BY <1>2, <1>5, <1>7, <3>1
  <2>2. CASE ~Pack!NeedsRewrite
    <3>1. manifest' = manifest /\ manifest.state = "fine" /\ DOMAIN manifest.has = DOMAIN doctor.good
      BY <1>1, <2>2 DEF Pack!NeedsRewrite
    <3>2. ASSUME NEW e \in DOMAIN md
          PROVE  /\ manifest.has[e].status = md[e].status
                 /\ manifest.has[e].help >= 0 /\ manifest.has[e].harm >= 0
      <4>1. e \in DOMAIN manifest.has \cap DOMAIN doctor.good /\ doctor.good[e] = md[e]
        BY <1>2, <3>1
      <4>2. manifest.has[e].status = md[e].status /\ ~(manifest.has[e].help < 0) /\ ~(manifest.has[e].harm < 0)
        BY <2>2, <4>1 DEF Pack!NeedsRewrite
      <4>3. manifest.has[e] \in Listings
        BY <1>3, <4>1, PartialEach
      <4>4. manifest.has[e].help \in Int /\ manifest.has[e].harm \in Int
        BY <4>3 DEF Listings
      <4> QED BY <4>2, <4>4
    <3> QED BY <1>2, <1>3, <3>1, <3>2 DEF FilesInv
  <2> QED BY <2>1, <2>2
<1>9. FilesInv'
  BY <1>1, <1>3, <1>8 DEF FilesInv
<1>10. DoctorInv'
  BY <1>1, <1>2, <1>4, <1>8 DEF DoctorInv, Pack!Forbidden
<1>11. broken' = broken /\ strays' = strays /\ (Disk => Disk')
  BY <1>1, <1>8 DEF Disk
<1> QED BY <1>1, <1>2, <1>4, <1>9, <1>10, <1>11, DoctorMoves

LEMMA ExamineVectorsKeeps == ASSUME PackInv, Pack!ExamineVectors PROVE PackInv'
<1>1. /\ doctor.pc = "vectors" /\ doctor' = [doctor EXCEPT !.pc = "probes"]
      /\ vectors' = [torn |-> FALSE, of |-> vectors.of \cap DOMAIN doctor.good]
      /\ UNCHANGED <<md, strays, manifest, probes, broken, mem, todo, shared, faults>>
  BY DEF Pack!ExamineVectors
<1>2. doctor \in Rounds /\ FilesInv
  BY AtWork
<1>3. doctor' \in Rounds /\ doctor'.pc = "probes" /\ doctor'.good = doctor.good
  BY <1>1, <1>2 DEF Rounds
<1>4. FilesInv'
  BY <1>1, <1>2 DEF FilesInv
<1>5. DoctorInv'
  BY <1>1, <1>3 DEF PackInv, DoctorInv, Pack!Forbidden
<1>6. Disk => Disk'
  BY <1>1 DEF Disk
<1>7. \A p \in Procs : ~mem[p].open
  BY <1>1 DEF PackInv, DoctorInv
<1> QED BY <1>1, <1>3, <1>4, <1>5, <1>6, <1>7, DoctorMoves

\* What the doctor keeps of the probes.
LEMMA KeptIs ==
    ASSUME PackInv
    PROVE  /\ Pack!KeptProbes \in Partial(Checks) /\ DOMAIN Pack!KeptProbes = DOMAIN probes.of \cap DOMAIN doctor.good
           /\ \A e \in DOMAIN Pack!KeptProbes : Pack!KeptProbes[e].valid \/ Pack!KeptProbes[e].retired
<1>1. probes.of \in Partial(Checks) /\ DOMAIN probes.of \in SUBSET Entries
  BY AtWork, PartialEach DEF FilesInv
<1>2. ASSUME NEW e \in DOMAIN probes.of
      PROVE  LET kept == [probes.of[e] EXCEPT !.retired = @ \/ ~probes.of[e].valid] IN
             kept \in Checks /\ (kept.valid \/ kept.retired)
  <2>1. PICK check : check = probes.of[e] /\ check \in Checks
    BY <1>1, <1>2, PartialEach
  <2>2. PICK retired : retired = (check.retired \/ ~check.valid) /\ retired \in BOOLEAN
    OBVIOUS
  <2>3. PICK kept : kept = [check EXCEPT !.retired = retired]
    OBVIOUS
  <2>4. kept \in Checks /\ kept.valid = check.valid /\ kept.retired = retired
    BY <2>1, <2>2, <2>3 DEF Checks
  <2>5. kept.valid \/ kept.retired
    BY <2>1, <2>2, <2>4 DEF Checks
  <2> QED BY <2>1, <2>2, <2>3, <2>4, <2>5
<1>3. PICK D : D = DOMAIN probes.of \cap DOMAIN doctor.good
  OBVIOUS
<1> DEFINE kept(e) == [probes.of[e] EXCEPT !.retired = @ \/ ~probes.of[e].valid]
<1>4. Pack!KeptProbes = [e \in D |-> kept(e)]
  BY <1>3 DEF Pack!KeptProbes
<1>5. \A e \in D : kept(e) \in Checks /\ (kept(e).valid \/ kept(e).retired)
  BY <1>2, <1>3
<1> HIDE DEF kept
<1>6. Pack!KeptProbes \in [D -> Checks] /\ D \in SUBSET Entries
  BY <1>1, <1>3, <1>4, <1>5
<1>7. Pack!KeptProbes \in Partial(Checks)
  BY <1>6, MapIs
<1>8. DOMAIN Pack!KeptProbes = D /\ \A e \in D : Pack!KeptProbes[e] = kept(e)
  BY <1>4
<1> QED BY <1>3, <1>5, <1>7, <1>8

LEMMA ExamineProbesKeeps == ASSUME PackInv, Pack!ExamineProbes PROVE PackInv'
<1>1. /\ doctor.pc = "probes" /\ doctor' = [doctor EXCEPT !.pc = "done", !.good = Pack!Empty]
      /\ probes' = [bad |-> FALSE, of |-> Pack!KeptProbes]
      /\ UNCHANGED <<md, strays, manifest, vectors, broken, mem, todo, shared, faults>>
  BY DEF Pack!ExamineProbes
<1>2. doctor \in Rounds /\ FilesInv
  BY AtWork
<1>3. doctor' \in Rounds /\ doctor'.pc = "done"
  <2>1. PICK none : none = Pack!Empty /\ none \in Partial(EntryFiles)
    BY EmptyIs
  <2> QED BY <1>1, <1>2, <2>1 DEF Rounds
<1>4. PICK kept : /\ kept = Pack!KeptProbes /\ kept \in Partial(Checks)
                  /\ DOMAIN kept = DOMAIN probes.of \cap DOMAIN doctor.good
                  /\ \A e \in DOMAIN kept : kept[e].valid \/ kept[e].retired
  BY KeptIs
<1>5. /\ probes' \in [bad : BOOLEAN, of : Partial(Checks)] /\ ~probes'.bad /\ probes'.of = kept
  BY <1>1, <1>4
<1>6. FilesInv'
  BY <1>1, <1>2, <1>5 DEF FilesInv
<1>7. DoctorInv'
  <2>1. /\ DOMAIN md = DOMAIN doctor.good /\ ~vectors.torn
        /\ manifest.state = "fine" /\ DOMAIN manifest.has = DOMAIN md
        /\ \A e \in DOMAIN md :
              /\ manifest.has[e].status = md[e].status /\ ~Pack!Forbidden(md[e])
              /\ manifest.has[e].help >= 0 /\ manifest.has[e].harm >= 0
        /\ \A p \in Procs : ~mem[p].open
    BY <1>1 DEF PackInv, DoctorInv
  <2> QED BY <1>1, <1>3, <1>4, <1>5, <2>1 DEF DoctorInv, Pack!Forbidden
<1>8. Disk => Disk'
  BY <1>1, <1>4, <1>5 DEF Disk
<1>9. \A p \in Procs : ~mem[p].open
  BY <1>1 DEF PackInv, DoctorInv
<1> QED BY <1>1, <1>3, <1>6, <1>7, <1>8, <1>9, DoctorMoves

LEMMA DoctorCrashesKeeps == ASSUME PackInv, Pack!DoctorCrashes PROVE PackInv'
<1>1. /\ doctor.pc \notin {"off", "done"} /\ faults' = faults + 1 /\ doctor' = Pack!Resting
      /\ UNCHANGED <<strays, broken, mem, todo, shared>>
  BY DEF Pack!DoctorCrashes, Pack!Fault
<1>2. FilesInv /\ md \in Partial(EntryFiles)
  BY AtWork
<1>3. Pack!Empty \in Partial(Checks) /\ Pack!KeptProbes \in Partial(Checks)
  BY EmptyIs, KeptIs
<1>4. doctor.left # {} => Pack!ThisEntry \in Entries
  BY AtWork DEF Pack!ThisEntry
<1>5. FilesInv'
  <2>1. CASE UNCHANGED <<md, manifest, vectors, probes>>
    BY <1>1, <1>2, <2>1 DEF FilesInv
  <2>2. CASE doctor.left # {} /\ Pack!Tears("md", Pack!ThisEntry, Pack!Empty)
    BY <1>1, <1>2, <1>3, <1>4, <2>2, TearsKeeps
  <2>3. ASSUME NEW which \in {"manifest", "vectors", "probes"}, NEW lines \in Partial(Checks), Pack!Tears(which, 0, lines)
        PROVE  FilesInv'
    BY <1>1, <1>2, <2>3, TearsKeeps
  <2> QED BY <1>3, <2>1, <2>2, <2>3 DEF Pack!DoctorCrashes
<1>6. faults' \in Nat /\ faults' # 0
  BY <1>1 DEF PackInv, TypeInv, ProcsInv
<1>7. ProcsInv'
  BY <1>1, <1>6, RestingIs DEF PackInv, TypeInv, ProcsInv
<1>8. DoctorInv' /\ ThroughInv'
  BY <1>1, <1>6, RestingIs DEF DoctorInv, ThroughInv
<1> QED BY <1>5, <1>7, <1>8 DEF PackInv, TypeInv

(***************************************************************************)
(* The invariant and what follows from it.                                 *)

LEMMA PackInvInit == Pack!Init => PackInv
<1> SUFFICES ASSUME Pack!Init PROVE PackInv
  OBVIOUS
<1>1. /\ md = Pack!Empty /\ strays = Pack!Empty /\ broken = {} /\ manifest \in [state : {"missing", "fine"}, has : {Pack!Empty}]
      /\ probes = [bad |-> FALSE, of |-> Pack!Empty] /\ vectors = [torn |-> FALSE, of |-> {}]
      /\ mem = [p \in Procs |-> Pack!Closed] /\ todo = [p \in Procs |-> <<>>]
      /\ doctor = Pack!Resting /\ faults = 0
  BY DEF Pack!Init
<1>2. FilesInv
  BY <1>1, EmptyIs DEF FilesInv
<1>3. Pack!Closed \in Memories /\ ~Pack!Closed.open
  BY EmptyIs DEF Pack!Closed, Memories
<1>4. ProcsInv
  BY <1>1, <1>3, NoneIs, RestingIs DEF ProcsInv, Writable
<1>5. DoctorInv
  BY <1>1, RestingIs DEF DoctorInv
<1>6. Disk
  BY <1>1, EmptyIs DEF Disk
<1>7. ThroughInv
  BY <1>1, <1>3, <1>6, EmptyIs DEF ThroughInv
<1> QED BY <1>2, <1>4, <1>5, <1>7 DEF PackInv, TypeInv

LEMMA PackInvNext == PackInv /\ [Pack!Next]_(Pack!vars) => PackInv'
<1> SUFFICES ASSUME PackInv, [Pack!Next]_(Pack!vars) PROVE PackInv'
  OBVIOUS
<1>1. ASSUME NEW p \in Procs, Pack!Works(p) PROVE PackInv'
  BY <1>1, OpenKeeps, CloseKeeps, ClaimKeeps, BatchKeeps, WriteKeeps, EntryOperationsKeep, LifecycleKeeps,
     SetVectorKeeps DEF Pack!Works
<1>2. CASE UNCHANGED Pack!vars
  <2>1. UNCHANGED <<md, strays, manifest, probes, vectors, broken, mem, todo, doctor, shared, faults>>
    BY <1>2 DEF Pack!vars, Pack!files
  <2>2. TypeInv'
    BY <2>1 DEF PackInv, TypeInv, FilesInv, ProcsInv
  <2>3. DoctorInv'
    BY <2>1 DEF PackInv, DoctorInv
  <2>4. ThroughInv'
    BY <2>1 DEF PackInv, ThroughInv, Pack!Busy, Disk
  <2> QED BY <2>2, <2>3, <2>4 DEF PackInv
<1> QED BY <1>1, <1>2, CrashKeeps, PublishRefusedKeeps, EditKeeps, DoctorStartsKeeps, ExamineEntryKeeps,
           ExamineStrayKeeps, ExamineManifestKeeps, ExamineVectorsKeeps, ExamineProbesKeeps, DoctorCrashesKeeps DEF Pack!Next

LEMMA PackInvHeals == PackInv => Pack!DoctorHeals
<1> SUFFICES ASSUME PackInv, doctor.pc = "done" PROVE Pack!DoctorHeals
  BY DEF Pack!DoctorHeals
<1>1. /\ manifest.state = "fine" /\ DOMAIN manifest.has = DOMAIN md /\ ~vectors.torn /\ ~probes.bad
      /\ \A e \in DOMAIN md :
            /\ manifest.has[e].status = md[e].status /\ ~Pack!Forbidden(md[e])
            /\ manifest.has[e].help >= 0 /\ manifest.has[e].harm >= 0
      /\ \A e \in DOMAIN probes.of :
            e \in DOMAIN md /\ (probes.of[e].valid \/ probes.of[e].retired)
  BY DEF PackInv, DoctorInv
<1>2. Pack!Loads
  BY <1>1 DEF Pack!Loads, Pack!Forbidden, Pack!Has
<1> QED BY <1>1, <1>2 DEF Pack!DoctorHeals, Pack!Forbidden, Pack!Has

LEMMA PackInvThrough == PackInv => Pack!WritesThrough
<1> SUFFICES ASSUME PackInv, faults = 0, ~shared, NEW p \in Procs, Pack!Idle(p), ~mem[p].batch, ~Pack!Absent
             PROVE  /\ Pack!Loads /\ [Pack!Loaded EXCEPT !.vec = mem[p].vec] = mem[p]
                    /\ mem[p].vec \subseteq Pack!Loaded.vec
                    /\ \A e \in Pack!Loaded.vec \ mem[p].vec : mem[p].has[e].status # "candidate"
                    /\ \A e \in DOMAIN mem[p].has : mem[p].has[e].status = "published" => ~mem[p].has[e].quar
  BY DEF Pack!WritesThrough
<1>1. PICK m : /\ m = mem[p] /\ m \in Memories /\ m.open /\ ~m.batch /\ Sound(m)
               /\ Agree(md, manifest, probes, vectors, m, <<>>) /\ broken = {} /\ DOMAIN strays = {}
  BY Held DEF Pack!Idle, PackInv, ThroughInv
<1>2. ~Pends(m, <<>>, "manifest") /\ ~Pends(m, <<>>, "probes") /\ ~Pends(m, <<>>, "vectors") /\ Listed(<<>>) = {}
  BY <1>1, NoneIs DEF Pends
<1>3. /\ DOMAIN md = DOMAIN m.has /\ ~probes.bad /\ ~vectors.torn
      /\ \A e \in DOMAIN m.has : md[e].status = m.has[e].status /\ md[e].quar = m.has[e].quar
      /\ manifest.has = Pack!ManifestOf(m).has /\ probes.of = m.probes /\ Covers(vectors.of, m)
      /\ manifest.state = "missing" => DOMAIN m.has = {}
      /\ manifest.state \in {"missing", "fine"}
  BY <1>1, <1>2 DEF Agree
<1>4. FilesInv
  BY AtWork
<1>5. manifest.state = "fine"
  <2>1. ASSUME manifest.state = "missing" PROVE Pack!Absent
    <3>1. md = Pack!Empty /\ strays = Pack!Empty
      BY <1>1, <1>3, <1>4, <2>1, EmptyIsAll DEF FilesInv
    <3> QED BY <1>1, <2>1, <3>1 DEF Pack!Absent
  <2> QED BY <1>3, <2>1
<1>6. DOMAIN manifest.has = DOMAIN m.has
      /\ \A e \in DOMAIN m.has : /\ manifest.has[e].status = m.has[e].status /\ manifest.has[e].help = m.has[e].help
                                  /\ manifest.has[e].harm = m.has[e].harm /\ manifest.has[e].streak = m.has[e].streak
  BY <1>3 DEF Pack!ManifestOf
<1>7. m.has \in Partial(Holdings) /\ \A e \in DOMAIN m.has : m.has[e] \in Holdings
  BY <1>1, MemoryIs
<1>8. Pack!Loads
  <2>1. \A e \in DOMAIN manifest.has : Pack!Has(md, e) /\ md[e].status \in Pack!Statuses /\ md[e].status = manifest.has[e].status
    BY <1>3, <1>6, <1>7 DEF Pack!Has, Holdings
  <2> QED BY <1>3, <1>5, <2>1 DEF Pack!Loads
<1>9. PICK n : /\ n = Pack!Loaded /\ n \in Memories /\ n.open /\ ~n.batch
               /\ n.probes = probes.of /\ n.vec = vectors.of \cap DOMAIN manifest.has
               /\ DOMAIN n.has = DOMAIN manifest.has
               /\ \A e \in DOMAIN manifest.has :
                     /\ n.has[e] \in Holdings
                     /\ n.has[e].status = md[e].status /\ n.has[e].quar = md[e].quar
                     /\ n.has[e].help = manifest.has[e].help /\ n.has[e].harm = manifest.has[e].harm
                     /\ n.has[e].streak = manifest.has[e].streak
  BY <1>4, <1>8, LoadedIs
<1>10. n.has = m.has
  <2>1. n.has = [e \in DOMAIN n.has |-> n.has[e]] /\ m.has = [e \in DOMAIN m.has |-> m.has[e]]
    BY <1>1, <1>9, MemoryIs, PartialEach
  <2>2. ASSUME NEW e \in DOMAIN m.has PROVE n.has[e] = m.has[e]
    <3>1. n.has[e] \in Holdings /\ m.has[e] \in Holdings
      BY <1>6, <1>7, <1>9
    <3>2. /\ n.has[e].status = m.has[e].status /\ n.has[e].quar = m.has[e].quar /\ n.has[e].help = m.has[e].help
          /\ n.has[e].harm = m.has[e].harm /\ n.has[e].streak = m.has[e].streak
      BY <1>3, <1>6, <1>9
    <3> QED BY <3>1, <3>2 DEF Holdings
  <2> QED BY <1>6, <1>9, <2>1, <2>2
<1>11. /\ n.probes = m.probes /\ m.vec \subseteq n.vec
       /\ \A e \in n.vec \ m.vec : m.has[e].status # "candidate"
  BY <1>1, <1>3, <1>6, <1>9 DEF Sound, Covers
<1>12. [n EXCEPT !.vec = m.vec] = m
  <2>1. n.open = m.open /\ n.batch = m.batch
    BY <1>1, <1>9 DEF Memories
  <2> QED BY <1>1, <1>9, <1>10, <1>11, <2>1 DEF Memories
<1>13. \A e \in DOMAIN m.has : m.has[e].status = "published" => ~m.has[e].quar
  BY <1>1 DEF Sound
<1> QED BY <1>1, <1>8, <1>9, <1>11, <1>12, <1>13

(***************************************************************************)
(* All of them.                                                            *)
(***************************************************************************)

ExecutorsInv == EarnedInv /\ LoneInv /\ SourceInv /\ procedure \in Procedures

LEMMA ExecutorsInvInit == Compiled!Init => ExecutorsInv
<1> SUFFICES ASSUME Compiled!Init PROVE SourceInv /\ procedure \in Procedures
  BY EarnedInvInit, LoneInvInit DEF ExecutorsInv
<1> QED BY DEF Compiled!Init, SourceInv

LEMMA ExecutorsInvNext == ExecutorsInv /\ [Compiled!Next]_(Compiled!vars) => ExecutorsInv'
<1> SUFFICES ASSUME ExecutorsInv, [Compiled!Next]_(Compiled!vars) PROVE ExecutorsInv'
  OBVIOUS
<1>1. Compiled!Change => UNCHANGED procedure \/ procedure' \in Procedures
  BY DEF Compiled!Change
<1>2. ASSUME NEW g \in Gates,
             \/ \E s \in Sources, a \in Compiled!Approvals, at \in Compiled!Times : Compiled!Evaluate(g, s, a, at)
             \/ Compiled!WriteSource(g) \/ Compiled!FindRecord(g) \/ Compiled!AppendRecord(g)
             \/ Compiled!Bind(g) \/ Compiled!Sandbox(g) \/ Compiled!ReadRegistry(g)
             \/ Compiled!WriteRegistry(g) \/ Compiled!Crash(g)
      PROVE  UNCHANGED procedure
  BY <1>2 DEF Compiled!Evaluate, Compiled!WriteSource, Compiled!FindRecord, Compiled!AppendRecord,
              Compiled!Bind, Compiled!Sandbox, Compiled!ReadRegistry, Compiled!WriteRegistry,
              Compiled!Crash, Compiled!Rest
<1>3. Compiled!Run \/ Compiled!Reload \/ UNCHANGED Compiled!vars => UNCHANGED procedure
  BY DEF Compiled!Run, Compiled!Reload, Compiled!vars, Compiled!Rest
<1>4. procedure' = procedure \/ procedure' \in Procedures
  BY <1>1, <1>2, <1>3 DEF Compiled!Next
<1>5. EarnedInv' /\ LoneInv' /\ SourceInv'
  BY EarnedInvNext, LoneInvNext, SourceInvNext DEF ExecutorsInv
<1>6. procedure' \in Procedures
  BY <1>4 DEF ExecutorsInv
<1> QED BY <1>5, <1>6 DEF ExecutorsInv

\* A step of the whole is one of each part, or leaves it alone.
LEMMA PartsStep ==
    [RecordsNext]_all => /\ [Memory!Next]_(Memory!vars) /\ [Pack!Next]_(Pack!vars)
                         /\ [Loop!Next]_(Loop!vars) /\ [Compiled!Next]_(Compiled!vars)
<1>1. UNCHANGED memory => UNCHANGED Memory!vars
  BY DEF memory, Memory!vars, Memory!tables
<1>2. UNCHANGED packs => UNCHANGED Pack!vars
  BY DEF packs, Pack!vars, Pack!files
<1>3. UNCHANGED learning => UNCHANGED Loop!vars
  BY DEF learning, Loop!vars, Loop!state
<1>4. UNCHANGED executors => UNCHANGED Compiled!vars
  BY DEF executors, Compiled!vars
<1>5. UNCHANGED all => UNCHANGED <<memory, packs, learning, executors>>
  BY DEF all
<1> HIDE DEF memory, packs, learning, executors, all
<1> QED BY <1>1, <1>2, <1>3, <1>4, <1>5 DEF RecordsNext

LEMMA PartsStart == RecordsInit => Memory!Init /\ Pack!Init /\ Loop!Init /\ Compiled!Init
BY DEF RecordsInit

\* However often the process dies in a transaction, the next write meets no
\* earlier id, and every write is in all of its tables.
THEOREM WritesAreFreshAndWholeHolds == RecordsSpec => []WritesAreFreshAndWhole
<1>1. RecordsInit => BrokerInv
  BY PartsStart, BrokerInvInit
<1>2. BrokerInv /\ [RecordsNext]_all => BrokerInv'
  BY PartsStep, BrokerInvNext
<1>3. BrokerInv => WritesAreFreshAndWhole
  BY BrokerInvWrites DEF WritesAreFreshAndWhole
<1> HIDE DEF RecordsInit, RecordsNext, all, BrokerInv, WritesAreFreshAndWhole
<1> QED BY <1>1, <1>2, <1>3, PTL DEF RecordsSpec

\* What a search, a read or a consultation hands out derives from nothing that
\* the snapshot does not allow.
THEOREM NothingIsLaunderedHolds == RecordsSpec => []NothingIsLaundered
<1>1. RecordsInit => BrokerInv /\ DeriveInv
  BY PartsStart, BrokerInvInit, DeriveInvInit
<1>2. BrokerInv /\ DeriveInv /\ [RecordsNext]_all => BrokerInv' /\ DeriveInv'
  BY PartsStep, BrokerInvNext, DeriveInvNext
<1>3. BrokerInv /\ DeriveInv => NothingIsLaundered
  BY DeriveInvClean DEF NothingIsLaundered
<1> HIDE DEF RecordsInit, RecordsNext, all, BrokerInv, DeriveInv, NothingIsLaundered
<1> QED BY <1>1, <1>2, <1>3, PTL DEF RecordsSpec

\* The doctor leaves a store that loads, and a process that met no fault, no
\* refused publish and no other process has in memory what the next would load,
\* but for vectors that a publish cleared in memory alone.
THEOREM PacksHealHolds == RecordsSpec => []PacksHeal
<1>1. RecordsInit => PackInv
  BY PartsStart, PackInvInit
<1>2. PackInv /\ [RecordsNext]_all => PackInv'
  BY PartsStep, PackInvNext
<1>3. PackInv => PacksHeal
  BY PackInvHeals, PackInvThrough DEF PacksHeal
<1> HIDE DEF RecordsInit, RecordsNext, all, PackInv, PacksHeal
<1> QED BY <1>1, <1>2, <1>3, PTL DEF RecordsSpec

\* No failure makes two signals, and a pack that signalled a topic leaves it
\* alone for BackoffRounds of its sweeps.
THEOREM SignalsAreEarnedHolds == RecordsSpec => []SignalsAreEarned
<1>1. RecordsInit => CountInv /\ BackoffInv
  BY PartsStart, CountInvInit, BackoffInvInit
<1>2. CountInv /\ BackoffInv /\ [RecordsNext]_all => CountInv' /\ BackoffInv'
  BY PartsStep, CountInvNext, BackoffInvNext
<1>3. CountInv /\ BackoffInv => SignalsAreEarned
  BY CountInvOnce, BackoffInvDistance DEF SignalsAreEarned
<1> HIDE DEF RecordsInit, RecordsNext, all, CountInv, BackoffInv, SignalsAreEarned
<1> QED BY <1>1, <1>2, <1>3, PTL DEF RecordsSpec

\* Gates may overlap and die: what runs passed the sandbox with a human's
\* approval, and evaluations that neither overlapped nor repeated the active
\* executor's leave an executor active.
THEOREM ExecutorsAreKept == RecordsSpec => [](Compiled!OnlyEarnedRun /\ Compiled!SwapsLeaveOne)
<1>1. RecordsInit => ExecutorsInv
  BY PartsStart, ExecutorsInvInit
<1>2. ExecutorsInv /\ [RecordsNext]_all => ExecutorsInv'
  BY PartsStep, ExecutorsInvNext
<1>3. ExecutorsInv => Compiled!OnlyEarnedRun /\ Compiled!SwapsLeaveOne
  BY EarnedInvRuns, LoneInvSwaps DEF ExecutorsInv
<1> HIDE DEF RecordsInit, RecordsNext, all, ExecutorsInv, Compiled!OnlyEarnedRun, Compiled!SwapsLeaveOne
<1> QED BY <1>1, <1>2, <1>3, PTL DEF RecordsSpec

\* As far as a procedure compiles to one source, the doctor tells, too, why the
\* executor that was activated last does not run.  (With two, an evaluation that
\* dies after it has written anew a source that was deleted leaves the text of
\* one under the record of the other, and the doctor does not compare the two.)
THEOREM ExecutorsAreEarnedHolds ==
    ASSUME OneSourceEach PROVE RecordsSpec => []ExecutorsAreEarned
<1>1. RecordsInit => ExecutorsInv
  BY PartsStart, ExecutorsInvInit
<1>2. ExecutorsInv /\ [RecordsNext]_all => ExecutorsInv'
  BY PartsStep, ExecutorsInvNext
<1>3. ExecutorsInv => ExecutorsAreEarned
  BY OneSourceEach, EarnedInvRuns, LoneInvSwaps, DoctorSees DEF ExecutorsInv, ExecutorsAreEarned
<1> HIDE DEF RecordsInit, RecordsNext, all, ExecutorsInv, ExecutorsAreEarned
<1> QED BY <1>1, <1>2, <1>3, PTL DEF RecordsSpec

(***************************************************************************)
(* The campaign of scaffolds.                                              *)
(***************************************************************************)

\* A run about to read the holdout is the one whose claim is on the ledger.
ReaderHoldsTheSlot == \A r \in Runs : pc[r] = "open" => ledger = r

IInv == /\ pc \in [Runs -> Pcs]
        /\ NoRun \notin Runs
        /\ ReaderHoldsTheSlot
        /\ HoldoutReadOnce

\* A step that leaves the ledger and the history alone, and takes its run
\* anywhere but to the read, keeps the invariant.
LEMMA QuietStep ==
    ASSUME IInv, NEW r \in Runs, NEW to \in Pcs, to # "open", At(r, to),
           ledger' = ledger, opened' = opened
    PROVE  IInv'
<1>1. pc' = [pc EXCEPT ![r] = to]
  BY DEF At
<1>2. pc' \in [Runs -> Pcs]
  BY <1>1 DEF IInv
<1>3. ReaderHoldsTheSlot'
  BY <1>1 DEF IInv, ReaderHoldsTheSlot
<1>4. HoldoutReadOnce'
  BY DEF IInv, HoldoutReadOnce
<1> QED BY <1>2, <1>3, <1>4 DEF IInv

\* The exception handler writes a receipt at most.
LEMMA RaiseKeeps ==
    ASSUME IInv, NEW r \in Runs, Raise(r)
    PROVE  IInv'
BY QuietStep DEF Raise, Go, Pcs

\* Every step keeps the slot with its owner.
LEMMA SlotStep == IInv /\ [Next]_vars => IInv'
<1> SUFFICES ASSUME IInv, [Next]_vars PROVE IInv'
  OBVIOUS
<1>1. ASSUME NEW r \in Runs, NEW root \in Roots, Start(r, root) PROVE IInv'
  BY <1>1, QuietStep DEF Start, Pcs
<1>2. ASSUME NEW r \in Runs, Execute(r) PROVE IInv'
  <2>1. PICK t \in Trials :
           LET table == [run[r].rows EXCEPT ![t.split] = t] IN
           IF Spent(table) > TokenLimit THEN Raise(r)
           ELSE /\ At(r, "report") /\ run' = [run EXCEPT ![r].rows = table, ![r].done = 0]
                /\ UNCHANGED <<ledger, opened, disk, crashes>>
    BY <1>2 DEF Execute
  <2>2. CASE Raise(r)
    BY <2>2, RaiseKeeps
  <2>3. CASE At(r, "report") /\ UNCHANGED <<ledger, opened, disk, crashes>>
    BY <2>3, QuietStep DEF Pcs
  <2> QED BY <2>1, <2>2, <2>3
<1>3. ASSUME NEW r \in Runs, WriteReports(r) PROVE IInv'
  <2>1. CASE Raise(r)
    BY <2>1, RaiseKeeps
  <2>2. CASE ~Raise(r)
    <3>1. At(r, "gate") \/ At(r, "report")
      BY <1>3, <2>2 DEF WriteReports
    <3>2. ledger' = ledger /\ opened' = opened
      BY <1>3, <2>2 DEF WriteReports
    <3> QED BY <3>1, <3>2, QuietStep DEF Pcs
  <2> QED BY <2>1, <2>2
<1>4. ASSUME NEW r \in Runs, DevelopmentGate(r) PROVE IInv'
  <2>1. CASE Raise(r)
    BY <2>1, RaiseKeeps
  <2>2. CASE ~Raise(r)
    BY <1>4, <2>2, QuietStep DEF DevelopmentGate, Conclude, Onward, Quiet, Pcs
  <2> QED BY <2>1, <2>2
<1>5. ASSUME NEW r \in Runs, ValidationGate(r) PROVE IInv'
  BY <1>5, QuietStep DEF ValidationGate, Conclude, Onward, Quiet, Pcs
<1>6. ASSUME NEW r \in Runs, Claim(r) PROVE IInv'
  <2>1. CASE Raise(r)
    BY <2>1, RaiseKeeps
  <2>2. CASE ~Raise(r)
    \* Nobody was about to read, for the ledger was free.
    <3>1. ledger = NoRun /\ ledger' = r /\ opened' = opened
          /\ pc' = [pc EXCEPT ![r] = "open"]
      BY <1>6, <2>2 DEF Claim, Go, At
    <3>2. opened = {} /\ \A q \in Runs : pc[q] # "open"
      BY <3>1 DEF IInv, ReaderHoldsTheSlot, HoldoutReadOnce
    <3> QED BY <3>1, <3>2 DEF IInv, Pcs, ReaderHoldsTheSlot, HoldoutReadOnce
  <2> QED BY <2>1, <2>2
<1>7. ASSUME NEW r \in Runs, OpenHoldout(r) PROVE IInv'
  \* The reader holds the slot, so what it adds to the history is the owner.
  <2>1. ledger = r /\ ledger' = ledger /\ opened' = opened \cup {r}
        /\ pc' = [pc EXCEPT ![r] = "execute"]
    BY <1>7 DEF OpenHoldout, Go, At, IInv, ReaderHoldsTheSlot
  <2> QED BY <2>1 DEF IInv, Pcs, ReaderHoldsTheSlot, HoldoutReadOnce
<1>8. ASSUME NEW r \in Runs, HoldoutGate(r) PROVE IInv'
  BY <1>8, QuietStep DEF HoldoutGate, Conclude, Go, Quiet, Pcs
<1>9. ASSUME NEW r \in Runs, Protect(r) PROVE IInv'
  <2>1. CASE Raise(r)
    BY <2>1, RaiseKeeps
  <2>2. CASE ~Raise(r)
    BY <1>9, <2>2, QuietStep DEF Protect, Conclude, Pcs
  <2> QED BY <2>1, <2>2
<1>10. ASSUME NEW r \in Runs, WriteEvidence(r) \/ WriteResult(r) \/ WriteManifest(r)
       PROVE IInv'
  <2>1. CASE Raise(r)
    BY <2>1, RaiseKeeps
  <2>2. CASE ~Raise(r)
    BY <1>10, <2>2, QuietStep DEF WriteEvidence, WriteResult, WriteManifest, Go, Pcs
  <2> QED BY <2>1, <2>2
<1>11. ASSUME NEW r \in Runs, AttemptFails(r) \/ GuardFails(r) PROVE IInv'
  BY <1>11, RaiseKeeps DEF AttemptFails, GuardFails
<1>12. ASSUME NEW r \in Runs, Crash(r) PROVE IInv'
  BY <1>12, QuietStep DEF Crash, Go, Pcs
<1>13. CASE UNCHANGED vars
  BY <1>13 DEF vars, IInv, ReaderHoldsTheSlot, HoldoutReadOnce
<1> QED BY <1>1, <1>2, <1>3, <1>4, <1>5, <1>6, <1>7, <1>8, <1>9, <1>10, <1>11, <1>12, <1>13
        DEF Next, Step

LEMMA InitSlot == Init => IInv
BY ScaffoldCampaignAssumption
   DEF Init, NewRun, Pcs, IInv, ReaderHoldsTheSlot, HoldoutReadOnce

\* HoldoutReadOnce (HoldoutConsumptionLedger): however many runs of a
\* specification are started, fail, die or are started over, at most one of
\* them ever opens the sealed holdout, and its claim was durable before.
THEOREM HoldoutIsReadOnce == Spec => []HoldoutReadOnce
<1>1. Init => IInv
  BY InitSlot
<1>2. IInv /\ [Next]_vars => IInv'
  BY SlotStep
<1>3. IInv => HoldoutReadOnce
  BY DEF IInv
<1> QED BY <1>1, <1>2, <1>3, PTL DEF Spec
-----------------------------------------------------------------------------
\* What a campaign shows is earned.  The invariant says of each run how far it
\* is and what it must have seen to get there, and of each evidence root whose
\* it is: a run owns its root from its first report on, and while it lives,
\* the root holds what it wrote, and nothing else.

Splits == Upto("holdout")
Trialled == Trials \cup {Nothing}
RunFields == {"split", "root", "before", "rows", "done", "result"}
RootFields == {"reports", "protected", "evidence", "result", "manifest", "aborted"}

Live == Pcs \ {"idle", "raised", "crashed"}
Concluding == {"evidence", "result", "manifest", "done"}
Settled == {"result", "manifest", "done", "raised", "crashed"}
Waiting == {"execute", "claim", "open"}
Ran(p, s) == IF p \in Waiting THEN Upto(s) \ {s} ELSE Upto(s)

ShapedRun(x) == /\ x = [f \in RunFields |-> x[f]]
                /\ x.split \in Splits /\ x.done \in 0 .. 3 /\ x.rows \in [Splits -> Trialled]
ShapedRoot(d) == d = [f \in RootFields |-> d[f]]

\* The result a concluding run holds is the one its gates give.
Judged(x) ==
    \/ /\ x.split = "development" /\ x.result = Early("development")
       /\ ~NotLoadBearing(x.rows["development"]) /\ ~DevelopmentEligible(x.rows["development"])
    \/ /\ x.split = "validation" /\ x.result = Early("validation")
       /\ ValidationFails(x.rows["validation"])
    \/ /\ x.split = "holdout"
       /\ x.result = IF MandatoryRegression(x.rows["holdout"]) THEN Early("holdout")
                     ELSE Derived(x.rows)

Begins(p, x) ==
    /\ p # "idle" => x.root \in Roots
    /\ p = "idle" => x.split = "development" /\ \A s \in Splits : x.rows[s] = Nothing
    /\ p = "idle" \/ (p = "execute" /\ x.split = "development") => x.done = 0

Counts(p, x) ==
    /\ p = "report" => x.done <= 2
    /\ p \in {"gate", "claim", "open", "protect"} \cup Concluding => x.done = 3
    /\ p \in {"claim", "open", "protect"} => x.split = "holdout"

Filled(p, x) ==
    /\ \A s \in Splits : x.rows[s] # Nothing => x.rows[s].split = s
    /\ p \in Live => \A s \in Splits : x.rows[s] # Nothing <=> s \in Ran(p, x.split)
    /\ Spent(x.rows) <= TokenLimit

Gated(p, x) ==
    /\ x.split # "development" => DevelopmentEligible(x.rows["development"])
    /\ x.split = "holdout" => ~ValidationFails(x.rows["validation"])
    /\ p = "protect" => ~MandatoryRegression(x.rows["holdout"])
    /\ p \in Concluding => Judged(x)

RunOk(p, x) == ShapedRun(x) /\ Begins(p, x) /\ Counts(p, x) /\ Filled(p, x) /\ Gated(p, x)

\* What a live owner has written.
Owns(x) == x.split # "development" \/ x.done > 0
Had(p, x, s, i) == IF s = x.split THEN p \notin Waiting /\ i <= x.done ELSE s \in Upto(x.split)
EvidenceOf(x) == [rows |-> x.rows, key |-> x.result.phase = "holdout",
                  protected |-> x.result.protected]
ManifestOf(x) == [evidence |-> EvidenceOf(x), result |-> x.result,
                  reports |-> {Report(s, Cells[i], x.rows[s]) :
                                  s \in Upto(x.result.phase), i \in 1 .. 3}]

ReportsExact(p, x, d) ==
    \A e : e \in d.reports <=> \E s \in Splits, i \in 1 .. 3 :
                                  Had(p, x, s, i) /\ e = Report(s, Cells[i], x.rows[s])
FilesExact(p, x, d) ==
    /\ d.protected = IF p \in Concluding /\ x.result.protected
                     THEN DerivedStatus(x.rows["validation"]) ELSE "none"
    /\ d.evidence = IF p \in {"result", "manifest", "done"} THEN EvidenceOf(x) ELSE Nothing
    /\ d.result = IF p \in {"manifest", "done"} THEN x.result ELSE Nothing
    /\ d.manifest = IF p = "done" THEN ManifestOf(x) ELSE Nothing
ExactOk(p, x, d) == ReportsExact(p, x, d) /\ FilesExact(p, x, d)

SameFiles(d, e) == /\ d.reports = e.reports /\ d.protected = e.protected
                   /\ d.evidence = e.evidence /\ d.result = e.result /\ d.manifest = e.manifest
NoFiles(d) == SameFiles(d, NewRoot)
Opener(d) == Stored(d, "development", Cells[1])

Shapes == /\ run = [q \in Runs |-> run[q]]
          /\ disk = [x \in Roots |-> disk[x]] /\ \A x \in Roots : ShapedRoot(disk[x])
AllOk == \A r \in Runs : RunOk(pc[r], run[r])
RootsApart == \A r, q \in Runs :
            Owns(run[r]) /\ Owns(run[q]) /\ run[r].root = run[q].root => r = q
Begun == \A r \in Runs : Owns(run[r]) => Opener(disk[run[r].root])
Clean == \A x \in Roots :
            (\A r \in Runs : ~(Owns(run[r]) /\ run[r].root = x)) => NoFiles(disk[x])
Exact == \A r \in Runs :
            pc[r] \in Live /\ Owns(run[r]) => ExactOk(pc[r], run[r], disk[run[r].root])

\* Who is past the read has read.
PastRead(p, x) == x.split = "holdout"
                  /\ (x.rows["holdout"] # Nothing \/ p \in Live \ {"claim", "open"})
Seen == \A r \in Runs : PastRead(pc[r], run[r]) => r \in opened

\* Evidence that claims a holdout shows the table of a run that read it.
Shows(r, x, d) == /\ r \in opened /\ run[r].root = x /\ d.evidence.rows = run[r].rows
                  /\ pc[r] \in Settled
EvidenceOwned == \A x \in Roots :
                    disk[x].evidence # Nothing /\ disk[x].evidence.key =>
                       \E r \in Runs : Shows(r, x, disk[x])

CInv == IInv /\ Shapes /\ AllOk /\ RootsApart /\ Begun /\ Clean /\ Exact /\ Seen /\ EvidenceOwned

\* What a step of one run must respect, its run going to p with the local
\* state y, its root to d.
Respects(r, p, y, d) ==
    /\ RunOk(p, y) /\ p # "idle" /\ ShapedRoot(d)
    /\ Owns(run[r]) => Owns(y) /\ y.root = run[r].root
    /\ disk[y.root].reports \subseteq d.reports
    /\ Owns(y) /\ ~Owns(run[r]) => ~Opener(disk[y.root]) /\ Opener(d)
    /\ ~Owns(y) => SameFiles(d, disk[y.root])
    /\ p \in Live /\ Owns(y) => ExactOk(p, y, d)
    /\ pc[r] \in Settled => p \in Settled /\ y.rows = run[r].rows /\ y.root = run[r].root
    /\ \/ d.evidence = disk[y.root].evidence
       \/ d.evidence.key => r \in opened' /\ d.evidence.rows = y.rows /\ p \in Settled
    /\ PastRead(p, y) => r \in opened'
    /\ opened \subseteq opened'

LEMMA Frame ==
    ASSUME CInv, IInv', NEW r \in Runs, NEW p, NEW y, NEW d, Respects(r, p, y, d),
           pc' = [pc EXCEPT ![r] = p], run' = [run EXCEPT ![r] = y],
           disk' = [disk EXCEPT ![y.root] = d]
    PROVE  CInv'
<1>1. y.root \in Roots /\ RunOk(p, y) /\ ShapedRoot(d)
  BY DEF Respects, RunOk, Begins
<1>2. /\ pc'[r] = p /\ \A q \in Runs \ {r} : pc'[q] = pc[q]
      /\ run'[r] = y /\ \A q \in Runs \ {r} : run'[q] = run[q]
      /\ disk'[y.root] = d /\ \A x \in Roots \ {y.root} : disk'[x] = disk[x]
  BY <1>1 DEF CInv, IInv, Shapes
<1>3. Shapes'
  BY <1>1 DEF CInv, Shapes
<1>4. AllOk'
  BY <1>1, <1>2 DEF CInv, AllOk
\* A root somebody owns is not taken over, and is changed by its owner only.
<1>5. ASSUME NEW q \in Runs \ {r}, Owns(run[q]), run[q].root = y.root
      PROVE  ~Owns(y) /\ SameFiles(d, disk[y.root])
  BY <1>5 DEF CInv, RootsApart, Begun, Respects
<1>6. RootsApart'
  <2> SUFFICES ASSUME NEW q \in Runs, NEW o \in Runs, q # o, Owns(run'[q]), Owns(run'[o]),
                      run'[q].root = run'[o].root
               PROVE  FALSE
    BY DEF RootsApart
  <2> QED BY <1>2, <1>5 DEF CInv, RootsApart
<1>7. Begun'
  <2> SUFFICES ASSUME NEW q \in Runs, Owns(run'[q]) PROVE Opener(disk'[run'[q].root])
    BY DEF Begun
  <2>1. CASE q = r
    BY <2>1, <1>1, <1>2 DEF CInv, Begun, Respects, Opener, Stored
  <2>2. CASE q # r
    <3>1. Opener(disk[run[q].root]) /\ run[q].root \in Roots
      BY <2>2, <1>2 DEF CInv, Begun, AllOk, RunOk, Begins, Owns
    <3> QED BY <3>1, <2>2, <1>2 DEF Respects, Opener, Stored
  <2> QED BY <2>1, <2>2
<1>8. Clean'
  <2> SUFFICES ASSUME NEW x \in Roots, \A q \in Runs : ~(Owns(run'[q]) /\ run'[q].root = x)
               PROVE  NoFiles(disk'[x])
    BY DEF Clean
  <2>1. \A q \in Runs : ~(Owns(run[q]) /\ run[q].root = x)
    BY <1>2 DEF Respects
  <2>2. NoFiles(disk[x])
    BY <2>1 DEF CInv, Clean
  <2>3. x = y.root => SameFiles(d, disk[x])
    BY <1>2 DEF Respects
  <2> QED BY <2>2, <2>3, <1>2 DEF NoFiles, SameFiles
<1>9. Exact'
  <2> SUFFICES ASSUME NEW q \in Runs, pc'[q] \in Live, Owns(run'[q])
               PROVE  ExactOk(pc'[q], run'[q], disk'[run'[q].root])
    BY DEF Exact
  <2>1. CASE q = r
    BY <2>1, <1>2 DEF Respects
  <2>2. CASE q # r
    <3>1. ExactOk(pc[q], run[q], disk[run[q].root]) /\ run[q].root \in Roots
      BY <2>2, <1>2 DEF CInv, Exact, AllOk, RunOk, Begins, Live
    <3>2. SameFiles(disk'[run[q].root], disk[run[q].root])
      BY <3>1, <2>2, <1>2, <1>5 DEF SameFiles
    <3>3. ExactOk(pc[q], run[q], disk'[run[q].root])
      BY <3>1, <3>2 DEF ExactOk, SameFiles, ReportsExact, FilesExact
    <3> QED BY <3>3, <2>2, <1>2
  <2> QED BY <2>1, <2>2
<1>10. Seen'
  <2> SUFFICES ASSUME NEW q \in Runs, PastRead(pc'[q], run'[q]) PROVE q \in opened'
    BY DEF Seen
  <2> QED BY <1>2 DEF CInv, Seen, Respects
<1>11. EvidenceOwned'
  <2> SUFFICES ASSUME NEW x \in Roots, disk'[x].evidence # Nothing, disk'[x].evidence.key
               PROVE  \E q \in Runs : /\ q \in opened' /\ run'[q].root = x
                                      /\ disk'[x].evidence.rows = run'[q].rows
                                      /\ pc'[q] \in Settled
    BY DEF EvidenceOwned, Shows
  <2>1. CASE disk'[x].evidence = disk[x].evidence
    <3>1. PICK q \in Runs : /\ q \in opened /\ run[q].root = x
                            /\ disk[x].evidence.rows = run[q].rows /\ pc[q] \in Settled
      BY <2>1 DEF CInv, EvidenceOwned, Shows
    <3> QED BY <3>1, <2>1, <1>2 DEF Respects
  <2>2. CASE disk'[x].evidence # disk[x].evidence
    BY <2>2, <1>2 DEF Respects
  <2> QED BY <2>1, <2>2
<1> QED BY <1>3, <1>4, <1>6, <1>7, <1>8, <1>9, <1>10, <1>11 DEF CInv

\* The steps that touch no file and leave their run's reports what they were.
LEMMA ReportWords ==
    /\ Splits = {"development", "validation", "holdout"}
    /\ Upto("development") = {"development"}
    /\ Upto("validation") = {"development", "validation"}
    /\ Upto("holdout") = Splits
BY DEF Splits, Upto

LEMMA EditSplit ==
    ASSUME NEW x, ShapedRun(x), NEW v \in Splits
    PROVE  LET y == [x EXCEPT !.split = v] IN
           /\ ShapedRun(y) /\ y.split = v /\ y.root = x.root /\ y.rows = x.rows
           /\ y.done = x.done /\ y.result = x.result
BY DEF ShapedRun, RunFields

LEMMA EditResult ==
    ASSUME NEW x, ShapedRun(x), NEW v
    PROVE  LET y == [x EXCEPT !.result = v] IN
           /\ ShapedRun(y) /\ y.split = x.split /\ y.root = x.root /\ y.rows = x.rows
           /\ y.done = x.done /\ y.result = v
BY DEF ShapedRun, RunFields

LEMMA EditDone ==
    ASSUME NEW x, ShapedRun(x), NEW v \in 0 .. 3
    PROVE  LET y == [x EXCEPT !.done = v] IN
           /\ ShapedRun(y) /\ y.split = x.split /\ y.root = x.root /\ y.rows = x.rows
           /\ y.done = v /\ y.result = x.result
BY DEF ShapedRun, RunFields

LEMMA EditRows ==
    ASSUME NEW x, ShapedRun(x), NEW w \in [Splits -> Trialled]
    PROVE  LET y == [x EXCEPT !.rows = w, !.done = 0] IN
           /\ ShapedRun(y) /\ y.split = x.split /\ y.root = x.root /\ y.rows = w
           /\ y.done = 0 /\ y.result = x.result
<1> DEFINE z == [x EXCEPT !.rows = w]
           y == [z EXCEPT !.done = 0]
<1>1. /\ z = [f \in RunFields |-> z[f]] /\ z.split = x.split /\ z.root = x.root
      /\ z.rows = w /\ z.done = x.done /\ z.result = x.result
  BY DEF ShapedRun, RunFields
<1>2. ShapedRun(z)
  BY <1>1 DEF ShapedRun
<1> HIDE DEF z
<1>3. /\ ShapedRun(y) /\ y.split = x.split /\ y.root = x.root /\ y.rows = w
      /\ y.done = 0 /\ y.result = x.result
  BY <1>1, <1>2 DEF ShapedRun, RunFields
<1>4. y = [x EXCEPT !.rows = w, !.done = 0]
  BY DEF z
<1> HIDE DEF y
<1> QED BY <1>3, <1>4

LEMMA RootFieldsAre ==
    RootFields = {"reports", "protected", "evidence", "result", "manifest", "aborted"}
BY DEF RootFields

LEMMA FileReports ==
    ASSUME NEW d, ShapedRoot(d), NEW v
    PROVE  LET e == [d EXCEPT !.reports = v] IN
           /\ ShapedRoot(e) /\ e.reports = v /\ e.protected = d.protected
           /\ e.evidence = d.evidence /\ e.result = d.result /\ e.manifest = d.manifest
BY RootFieldsAre DEF ShapedRoot

LEMMA FileProtected ==
    ASSUME NEW d, ShapedRoot(d), NEW v
    PROVE  LET e == [d EXCEPT !.protected = v] IN
           /\ ShapedRoot(e) /\ e.reports = d.reports /\ e.protected = v
           /\ e.evidence = d.evidence /\ e.result = d.result /\ e.manifest = d.manifest
BY RootFieldsAre DEF ShapedRoot

LEMMA FileEvidence ==
    ASSUME NEW d, ShapedRoot(d), NEW v
    PROVE  LET e == [d EXCEPT !.evidence = v] IN
           /\ ShapedRoot(e) /\ e.reports = d.reports /\ e.protected = d.protected
           /\ e.evidence = v /\ e.result = d.result /\ e.manifest = d.manifest
BY RootFieldsAre DEF ShapedRoot

LEMMA FileResult ==
    ASSUME NEW d, ShapedRoot(d), NEW v
    PROVE  LET e == [d EXCEPT !.result = v] IN
           /\ ShapedRoot(e) /\ e.reports = d.reports /\ e.protected = d.protected
           /\ e.evidence = d.evidence /\ e.result = v /\ e.manifest = d.manifest
BY RootFieldsAre DEF ShapedRoot

LEMMA FileManifest ==
    ASSUME NEW d, ShapedRoot(d), NEW v
    PROVE  LET e == [d EXCEPT !.manifest = v] IN
           /\ ShapedRoot(e) /\ e.reports = d.reports /\ e.protected = d.protected
           /\ e.evidence = d.evidence /\ e.result = d.result /\ e.manifest = v
BY RootFieldsAre DEF ShapedRoot

LEMMA FileAborted ==
    ASSUME NEW d, ShapedRoot(d), NEW v
    PROVE  LET e == [d EXCEPT !.aborted = v] IN ShapedRoot(e) /\ SameFiles(e, d)
BY RootFieldsAre DEF ShapedRoot, SameFiles

\* A run that has not started, or has, and what is known of it.
LEMMA Known ==
    ASSUME CInv, NEW r \in Runs
    PROVE  /\ RunOk(pc[r], run[r]) /\ ShapedRun(run[r])
           /\ pc[r] # "idle" => run[r].root \in Roots /\ ShapedRoot(disk[run[r].root])
           /\ pc[r] \in Live /\ Owns(run[r]) => ExactOk(pc[r], run[r], disk[run[r].root])
           /\ PastRead(pc[r], run[r]) => r \in opened
BY DEF CInv, Shapes, AllOk, Exact, Seen, RunOk, Begins

\* A step that leaves the evidence roots alone.
LEMMA Unfiled ==
    ASSUME CInv, IInv', NEW r \in Runs, NEW p, NEW y, RunOk(p, y), p # "idle",
           pc' = [pc EXCEPT ![r] = p], run' = [run EXCEPT ![r] = y], disk' = disk,
           Owns(run[r]) <=> Owns(y), Owns(y) => y.root = run[r].root,
           p \in Live /\ Owns(y) => ExactOk(p, y, disk[y.root]),
           pc[r] \in Settled => p \in Settled /\ y.rows = run[r].rows /\ y.root = run[r].root,
           PastRead(p, y) => r \in opened', opened \subseteq opened'
    PROVE  CInv'
<1>1. y.root \in Roots
  BY DEF RunOk, Begins
<1>2. disk' = [disk EXCEPT ![y.root] = disk[y.root]] /\ ShapedRoot(disk[y.root])
  BY <1>1 DEF CInv, Shapes
<1>3. Respects(r, p, y, disk[y.root])
  BY <1>2 DEF Respects, SameFiles
<1> QED BY <1>2, <1>3, Frame

\* A run that ends without a result leaves its files as they are.
LEMMA RunEnds ==
    ASSUME CInv, IInv', NEW r \in Runs, pc[r] # "idle", NEW p \in {"raised", "crashed"}, NEW d,
           ShapedRoot(d), SameFiles(d, disk[Root(r)]), opened' = opened,
           pc' = [pc EXCEPT ![r] = p], run' = run, disk' = [disk EXCEPT ![Root(r)] = d]
    PROVE  CInv'
<1>1. RunOk(pc[r], run[r]) /\ run[r].root \in Roots /\ (PastRead(pc[r], run[r]) => r \in opened)
  BY Known
<1>2. RunOk(p, run[r])
  BY <1>1 DEF RunOk, Begins, Counts, Filled, Gated, Live, Concluding
<1>3. PastRead(p, run[r]) => r \in opened
  BY <1>1 DEF PastRead, Live
<1>4. p \notin Live /\ p \in Settled
  BY DEF Live, Settled
<1>5. Respects(r, p, run[r], d)
  BY <1>2, <1>3, <1>4 DEF Respects, SameFiles, Root
<1>6. run' = [run EXCEPT ![r] = run[r]]
  BY DEF CInv, Shapes
<1> QED BY <1>5, <1>6, Frame DEF Root

LEMMA RaiseEnds ==
    ASSUME CInv, IInv', NEW r \in Runs, pc[r] # "idle", Raise(r)
    PROVE  CInv'
<1> DEFINE e == disk[Root(r)]
<1>1. Root(r) \in Roots /\ ShapedRoot(e)
  BY Known DEF Root
<1>2. pc' = [pc EXCEPT ![r] = "raised"] /\ run' = run /\ opened' = opened
  BY DEF Raise, Go, At
<1>3. PICK d : d \in {e, [e EXCEPT !.aborted = r]} /\ disk' = [disk EXCEPT ![Root(r)] = d]
  <2>1. CASE disk' = [disk EXCEPT ![Root(r)] = [e EXCEPT !.aborted = r]]
    BY <2>1
  <2>2. CASE disk' = disk
    BY <2>2, <1>1 DEF CInv, Shapes
  <2> QED BY <2>1, <2>2 DEF Raise, On
<1>4. ShapedRoot(d) /\ SameFiles(d, e)
  <2>1. CASE d = e
    BY <2>1, <1>1 DEF SameFiles
  <2>2. CASE d = [e EXCEPT !.aborted = r]
    <3> HIDE DEF e
    <3> QED BY <2>2, <1>1, FileAborted
  <2> QED BY <1>3, <2>1, <2>2
<1> QED BY <1>2, <1>3, <1>4, RunEnds

LEMMA CrashEnds ==
    ASSUME CInv, IInv', NEW r \in Runs, Crash(r)
    PROVE  CInv'
<1>1. /\ pc[r] # "idle" /\ opened' = opened /\ disk' = disk
      /\ pc' = [pc EXCEPT ![r] = "crashed"] /\ run' = run
  BY DEF Crash, Running, Go, At
<1>2. Root(r) \in Roots /\ ShapedRoot(disk[Root(r)])
  BY <1>1, Known DEF Root
<1>3. disk' = [disk EXCEPT ![Root(r)] = disk[Root(r)]]
  BY <1>1, <1>2 DEF CInv, Shapes
<1> QED BY <1>1, <1>2, <1>3, RunEnds DEF SameFiles

LEMMA StartKeeps ==
    ASSUME CInv, IInv', NEW r \in Runs, NEW root \in Roots, Start(r, root)
    PROVE  CInv'
<1> DEFINE x == run[r]
           y == [x EXCEPT !.root = root, !.before = ledger # NoRun]
<1>1. /\ pc[r] = "idle" /\ pc' = [pc EXCEPT ![r] = "execute"] /\ run' = [run EXCEPT ![r] = y]
      /\ disk' = disk /\ opened' = opened
  BY DEF Start, At
<1>2. ShapedRun(x) /\ Begins("idle", x) /\ Filled("idle", x)
  BY <1>1, Known DEF RunOk
<1>3. /\ ShapedRun(y) /\ y.split = x.split /\ y.done = x.done /\ y.rows = x.rows /\ y.root = root
  BY <1>2 DEF ShapedRun, RunFields
<1>4. x.split = "development" /\ x.done = 0 /\ \A s \in Splits : x.rows[s] = Nothing
  BY <1>2 DEF Begins
<1> HIDE DEF y
<1>5. Ran("execute", y.split) = {}
  BY <1>3, <1>4, ReportWords DEF Ran, Waiting
<1>6. RunOk("execute", y)
  BY <1>2, <1>3, <1>4, <1>5 DEF RunOk, Begins, Counts, Filled, Gated, Concluding
<1>7. ~Owns(x) /\ ~Owns(y) /\ ~PastRead("execute", y) /\ pc[r] \notin Settled
  BY <1>1, <1>3, <1>4 DEF Owns, PastRead, Settled
<1> QED BY <1>1, <1>6, <1>7, Unfiled

LEMMA ExecuteKeeps ==
    ASSUME CInv, IInv', NEW r \in Runs, Execute(r)
    PROVE  CInv'
<1> DEFINE x == run[r]
<1>1. /\ pc[r] = "execute" /\ RunOk("execute", x) /\ ShapedRun(x)
      /\ Begins("execute", x) /\ Filled("execute", x) /\ Gated("execute", x)
      /\ Owns(x) => ExactOk("execute", x, disk[x.root])
      /\ PastRead("execute", x) => r \in opened
  BY Known DEF Execute, Live, Pcs, RunOk
<1>2. PICK t \in Trials :
         /\ t.split = x.split
         /\ LET table == [x.rows EXCEPT ![t.split] = t] IN
            IF Spent(table) > TokenLimit THEN Raise(r)
            ELSE /\ At(r, "report") /\ run' = [run EXCEPT ![r].rows = table, ![r].done = 0]
                 /\ UNCHANGED <<ledger, opened, disk, crashes>>
  BY DEF Execute
<1> DEFINE w == [x.rows EXCEPT ![t.split] = t]
           y == [x EXCEPT !.rows = w, !.done = 0]
<1>3. CASE Spent(w) > TokenLimit
  BY <1>1, <1>2, <1>3, RaiseEnds
<1>4. CASE ~(Spent(w) > TokenLimit)
  <2>1. /\ pc' = [pc EXCEPT ![r] = "report"] /\ run' = [run EXCEPT ![r] = y]
        /\ disk' = disk /\ opened' = opened
    BY <1>2, <1>4 DEF At
  <2>2. /\ w \in [Splits -> Trialled] /\ t # Nothing /\ w[x.split] = t
        /\ \A s \in Splits \ {x.split} : w[s] = x.rows[s]
    BY <1>1, <1>2, ScaffoldCampaignAssumption DEF ShapedRun, Trialled
  <2>3. Spent(w) <= TokenLimit
    <3>1. \A u \in Trialled : u.tokens \in Nat
      BY ScaffoldCampaignAssumption DEF Trialled, IsTrial, Nothing
    <3>2. Spent(w) \in Nat
      BY <2>2, <3>1, ReportWords DEF Spent
    <3> QED BY <3>2, <1>4, ScaffoldCampaignAssumption
  <2> HIDE DEF w
  <2>4. /\ ShapedRun(y) /\ y.split = x.split /\ y.root = x.root /\ y.rows = w
        /\ y.done = 0 /\ y.result = x.result
    BY <1>1, <2>2, EditRows
  <2> HIDE DEF y
  <2>5. Filled("report", y)
    <3>1. \A s \in Splits : s \in Ran("report", y.split) <=> s = x.split \/ s \in Ran("execute", x.split)
      BY <1>1, <2>4, ReportWords DEF Ran, Waiting, ShapedRun
    <3>2. \A s \in Splits : x.rows[s] # Nothing <=> s \in Ran("execute", x.split)
      BY <1>1 DEF Filled, Live, Pcs
    <3> QED BY <3>1, <3>2, <1>1, <1>2, <2>2, <2>3, <2>4 DEF Filled, ShapedRun
  <2>6. Gated("report", y)
    BY <1>1, <2>2, <2>4, ReportWords DEF Gated, Concluding
  <2>7. RunOk("report", y)
    BY <1>1, <2>4, <2>5, <2>6 DEF RunOk, Begins, Counts, Concluding
  <2>8. Owns(y) <=> Owns(x)
    BY <1>1, <2>4 DEF Owns, Begins
  <2>9. ASSUME Owns(y) PROVE ExactOk("report", y, disk[y.root])
    <3>1. ExactOk("execute", x, disk[y.root])
      BY <1>1, <2>4, <2>8, <2>9
    <3>2. \A s \in Splits, i \in 1 .. 3 :
             /\ Had("report", y, s, i) <=> Had("execute", x, s, i)
             /\ Had("report", y, s, i) => y.rows[s] = x.rows[s]
      BY <2>2, <2>4 DEF Had, Waiting
    <3>3. ReportsExact("report", y, disk[y.root])
      BY <3>1, <3>2 DEF ExactOk, ReportsExact
    <3>4. FilesExact("report", y, disk[y.root])
      BY <3>1 DEF ExactOk, FilesExact, Concluding
    <3> QED BY <3>3, <3>4 DEF ExactOk
  <2>10. PastRead("report", y) => r \in opened
    BY <1>1, <2>4 DEF PastRead, Live, Pcs
  <2>11. pc[r] \notin Settled
    BY <1>1 DEF Settled
  <2> QED BY <2>1, <2>4, <2>7, <2>8, <2>9, <2>10, <2>11, Unfiled
<1> QED BY <1>3, <1>4

\* A step on to another place of the gates: what the run had is what it has.
MovesTo(r, p, y) ==
    /\ pc[r] \in {"gate", "claim", "open"} /\ p \in Live \ {"result", "manifest", "done"}
    /\ pc' = [pc EXCEPT ![r] = p] /\ run' = [run EXCEPT ![r] = y] /\ disk' = disk
    /\ opened \subseteq opened' /\ RunOk(p, y)
    /\ y.root = run[r].root /\ y.rows = run[r].rows /\ y.done = 3 /\ run[r].done = 3
    /\ p \in Concluding => ~y.result.protected
    /\ \A s \in Splits, i \in 1 .. 3 : Had(p, y, s, i) <=> Had(pc[r], run[r], s, i)
    /\ PastRead(p, y) => r \in opened'

LEMMA Moves ==
    ASSUME CInv, IInv', NEW r \in Runs, NEW p, NEW y, MovesTo(r, p, y)
    PROVE  CInv'
<1>1. Owns(run[r]) /\ Owns(y)
  BY DEF Owns, MovesTo
<1>2. /\ pc[r] \in Live /\ pc[r] \notin Settled /\ pc[r] \notin Concluding /\ p # "idle"
      /\ pc[r] \notin {"result", "manifest", "done"} /\ p \notin {"result", "manifest", "done"}
  BY DEF Live, Pcs, Settled, Concluding, MovesTo
<1>3. ExactOk(pc[r], run[r], disk[run[r].root])
  BY <1>1, <1>2, Known
<1>4. ReportsExact(p, y, disk[y.root])
  BY <1>3 DEF ExactOk, ReportsExact, MovesTo
<1>5. FilesExact(p, y, disk[y.root])
  BY <1>2, <1>3 DEF ExactOk, FilesExact, Concluding, MovesTo
<1> QED BY <1>1, <1>2, <1>4, <1>5, Unfiled DEF ExactOk, MovesTo

\* What a gate sees, and what becomes of a run it ends.
LEMMA AtGate ==
    ASSUME CInv, NEW r \in Runs, pc[r] \in {"gate", "claim", "open"}
    PROVE  /\ RunOk(pc[r], run[r]) /\ ShapedRun(run[r]) /\ run[r].root \in Roots
           /\ run[r].done = 3 /\ run[r].split \in Splits
           /\ Begins(pc[r], run[r]) /\ Filled(pc[r], run[r]) /\ Gated(pc[r], run[r])
           /\ \A s \in Splits : run[r].rows[s] # Nothing <=> s \in Ran(pc[r], run[r].split)
           /\ PastRead(pc[r], run[r]) => r \in opened
BY Known DEF RunOk, ShapedRun, Counts, Filled, Live, Pcs

LEMMA ConcludeKeeps ==
    ASSUME CInv, IInv', NEW r \in Runs, pc[r] = "gate", Conclude(r, Early(run[r].split)), Quiet,
           Judged([run[r] EXCEPT !.result = Early(run[r].split)])
    PROVE  CInv'
<1> DEFINE x == run[r]
           y == [x EXCEPT !.result = Early(x.split)]
<1>1. /\ ShapedRun(y) /\ y.split = x.split /\ y.root = x.root /\ y.rows = x.rows
      /\ y.done = x.done /\ y.result = Early(x.split) /\ Judged(y)
  <2>1. ShapedRun(x)
    BY AtGate
  <2> HIDE DEF x
  <2>2. /\ ShapedRun(y) /\ y.split = x.split /\ y.root = x.root /\ y.rows = x.rows
        /\ y.done = x.done /\ y.result = Early(x.split)
    BY <2>1, EditResult
  <2> QED BY <2>2 DEF x
<1>2. /\ pc' = [pc EXCEPT ![r] = "evidence"] /\ run' = [run EXCEPT ![r] = y]
      /\ disk' = disk /\ opened' = opened
  BY DEF Conclude, At, Quiet
<1> HIDE DEF y
<1>3. RunOk("evidence", y)
  BY <1>1, AtGate DEF RunOk, Begins, Counts, Filled, Gated, Ran, Waiting
<1>4. \A s \in Splits, i \in 1 .. 3 : Had("evidence", y, s, i) <=> Had("gate", x, s, i)
  BY <1>1 DEF Had, Waiting
<1>5. PastRead("evidence", y) => r \in opened
  BY <1>1, AtGate DEF PastRead, Live, Pcs
<1>6. "evidence" \in Live /\ ~y.result.protected
  BY <1>1 DEF Live, Pcs, Early
<1>7. x.done = 3
  BY AtGate
<1>8. MovesTo(r, "evidence", y)
  BY <1>1, <1>2, <1>3, <1>4, <1>5, <1>6, <1>7 DEF MovesTo
<1> QED BY <1>8, Moves

LEMMA OnwardKeeps ==
    ASSUME CInv, IInv', NEW r \in Runs, pc[r] = "gate", Quiet, NEW to, NEW s,
           Onward(r, to, s),
           \/ /\ run[r].split = "development" /\ to = "execute" /\ s = "validation"
              /\ DevelopmentEligible(run[r].rows["development"])
           \/ /\ run[r].split = "validation" /\ to = "claim" /\ s = "holdout"
              /\ ~ValidationFails(run[r].rows["validation"])
    PROVE  CInv'
<1> DEFINE x == run[r]
           y == [x EXCEPT !.split = s]
<1>1. s \in Splits /\ to \in Live /\ to \notin Concluding /\ to # "idle"
  BY ReportWords DEF Live, Pcs, Concluding
<1>2. /\ ShapedRun(y) /\ y.split = s /\ y.root = x.root /\ y.rows = x.rows
      /\ y.done = x.done /\ y.result = x.result
  BY <1>1, AtGate, EditSplit
<1>3. /\ pc' = [pc EXCEPT ![r] = to] /\ run' = [run EXCEPT ![r] = y]
      /\ disk' = disk /\ opened' = opened
  BY DEF Onward, At, Quiet
<1> HIDE DEF y
<1>4. \A q \in Splits : q \in Ran(to, s) <=> q \in Ran("gate", x.split)
  BY ReportWords DEF Ran, Waiting
<1>5. Filled(to, y)
  BY <1>2, <1>4, AtGate DEF Filled
<1>6. Gated(to, y)
  BY <1>1, <1>2, AtGate DEF Gated
<1>7. RunOk(to, y)
  BY <1>1, <1>2, <1>5, <1>6, AtGate DEF RunOk, Begins, Counts, Concluding
<1>8. \A q \in Splits, i \in 1 .. 3 : Had(to, y, q, i) <=> Had("gate", x, q, i)
  BY <1>2, AtGate, ReportWords DEF Had, Waiting
<1>9. ~PastRead(to, y)
  <2>1. CASE s = "holdout"
    <3>1. "holdout" \notin Ran("gate", "validation")
      BY DEF Ran, Waiting, Upto
    <3>2. x.rows["holdout"] = Nothing
      BY <3>1, <2>1, AtGate, ReportWords
    <3> QED BY <3>2, <2>1, <1>2 DEF PastRead
  <2> QED BY <2>1, <1>2 DEF PastRead
<1>10. x.done = 3
  BY AtGate
<1>11. MovesTo(r, to, y)
  BY <1>1, <1>2, <1>3, <1>7, <1>8, <1>9, <1>10 DEF MovesTo
<1> QED BY <1>11, Moves

LEMMA DevelopmentGateKeeps ==
    ASSUME CInv, IInv', NEW r \in Runs, DevelopmentGate(r)
    PROVE  CInv'
<1> DEFINE x == run[r]
           t == x.rows["development"]
<1>1. pc[r] = "gate" /\ x.split = "development" /\ ShapedRun(x)
  BY AtGate DEF DevelopmentGate
<1>2. CASE Raise(r)
  BY <1>1, <1>2, RaiseEnds
<1>3. CASE ~NotLoadBearing(t) /\ ~DevelopmentEligible(t) /\ Conclude(r, Early("development")) /\ Quiet
  <2> DEFINE y == [x EXCEPT !.result = Early("development")]
  <2>1. y.split = "development" /\ y.rows = x.rows /\ y.result = Early("development")
    <3> HIDE DEF x
    <3> QED BY <1>1, EditResult
  <2> HIDE DEF y
  <2>2. Judged(y)
    BY <2>1, <1>3 DEF Judged
  <2> QED BY <2>2, <1>1, <1>3, ConcludeKeeps DEF y
<1>4. CASE DevelopmentEligible(t) /\ Onward(r, "execute", "validation") /\ Quiet
  BY <1>1, <1>4, OnwardKeeps
<1> QED BY <1>2, <1>3, <1>4 DEF DevelopmentGate

LEMMA ValidationGateKeeps ==
    ASSUME CInv, IInv', NEW r \in Runs, ValidationGate(r)
    PROVE  CInv'
<1> DEFINE x == run[r]
           t == x.rows["validation"]
<1>1. pc[r] = "gate" /\ x.split = "validation" /\ ShapedRun(x) /\ Quiet
  BY AtGate DEF ValidationGate
<1>2. CASE ValidationFails(t) /\ Conclude(r, Early("validation"))
  <2> DEFINE y == [x EXCEPT !.result = Early("validation")]
  <2>1. y.split = "validation" /\ y.rows = x.rows /\ y.result = Early("validation")
    <3> HIDE DEF x
    <3> QED BY <1>1, EditResult
  <2> HIDE DEF y
  <2>2. Judged(y)
    BY <2>1, <1>2 DEF Judged
  <2> QED BY <2>2, <1>1, <1>2, ConcludeKeeps DEF y
<1>3. CASE ~ValidationFails(t) /\ Onward(r, "claim", "holdout")
  BY <1>1, <1>3, OnwardKeeps
<1> QED BY <1>2, <1>3 DEF ValidationGate

\* A move that leaves its run's local state alone.
LEMMA GoKeeps ==
    ASSUME CInv, IInv', NEW r \in Runs, NEW p,
           \/ pc[r] = "claim" /\ p = "open" /\ opened' = opened
           \/ pc[r] = "open" /\ p = "execute" /\ opened' = opened \cup {r}
           \/ pc[r] = "gate" /\ p = "protect" /\ opened' = opened
              /\ run[r].split = "holdout" /\ ~MandatoryRegression(run[r].rows["holdout"]),
           Go(r, p), disk' = disk
    PROVE  CInv'
<1> DEFINE x == run[r]
<1>1. /\ pc[r] \in {"gate", "claim", "open"} /\ p \in Live /\ p \notin Concluding
      /\ p \notin {"result", "manifest", "done", "idle", "report", "gate"} /\ opened \subseteq opened'
  BY DEF Live, Pcs, Concluding
<1>2. x.split = "holdout" /\ x.done = 3 /\ ShapedRun(x)
  BY <1>1, AtGate DEF Counts, RunOk
<1>3. /\ pc' = [pc EXCEPT ![r] = p] /\ run' = [run EXCEPT ![r] = x]
  BY DEF Go, At, CInv, Shapes
<1>4. \A s \in Splits : s \in Ran(p, "holdout") <=> s \in Ran(pc[r], "holdout")
  BY DEF Ran, Waiting
<1>5. RunOk(p, x)
  <2>1. Filled(p, x)
    BY <1>1, <1>2, <1>4, AtGate DEF Filled
  <2>2. Gated(p, x)
    BY <1>1, <1>2, AtGate DEF Gated
  <2> QED BY <2>1, <2>2, <1>1, <1>2, AtGate DEF RunOk, Begins, Counts
<1>6. \A s \in Splits, i \in 1 .. 3 : Had(p, x, s, i) <=> Had(pc[r], x, s, i)
  BY DEF Had, Waiting
<1>7. PastRead(p, x) => r \in opened'
  BY <1>1, AtGate DEF PastRead, Live, Pcs
<1>8. MovesTo(r, p, x)
  BY <1>1, <1>2, <1>3, <1>5, <1>6, <1>7 DEF MovesTo
<1> QED BY <1>8, Moves

LEMMA ClaimKeepsSlot ==
    ASSUME CInv, IInv', NEW r \in Runs, Claim(r)
    PROVE  CInv'
<1>1. CASE Raise(r)
  BY <1>1, RaiseEnds DEF Claim
<1>2. CASE ~Raise(r)
  BY <1>2, GoKeeps DEF Claim
<1> QED BY <1>1, <1>2

LEMMA OpenHoldoutKeeps ==
    ASSUME CInv, IInv', NEW r \in Runs, OpenHoldout(r)
    PROVE  CInv'
BY GoKeeps DEF OpenHoldout

LEMMA HoldoutGateKeeps ==
    ASSUME CInv, IInv', NEW r \in Runs, HoldoutGate(r)
    PROVE  CInv'
<1> DEFINE x == run[r]
           t == x.rows["holdout"]
<1>1. pc[r] = "gate" /\ x.split = "holdout" /\ ShapedRun(x) /\ Quiet
  BY AtGate DEF HoldoutGate
<1>2. CASE MandatoryRegression(t) /\ Conclude(r, Early("holdout"))
  <2> DEFINE y == [x EXCEPT !.result = Early("holdout")]
  <2>1. y.split = "holdout" /\ y.rows = x.rows /\ y.result = Early("holdout")
    <3> HIDE DEF x
    <3> QED BY <1>1, EditResult
  <2> HIDE DEF y
  <2>2. Judged(y)
    BY <2>1, <1>2 DEF Judged
  <2> QED BY <2>2, <1>1, <1>2, ConcludeKeeps DEF y
<1>3. CASE ~MandatoryRegression(t) /\ Go(r, "protect")
  BY <1>1, <1>3, GoKeeps DEF Quiet
<1> QED BY <1>2, <1>3 DEF HoldoutGate

\* The first report of a run goes to a root nobody has begun, so an empty one.
LEMMA ReportsSoFar ==
    ASSUME CInv, NEW r \in Runs, pc[r] = "report",
           ~Stored(disk[Root(r)], run[r].split, Cells[run[r].done + 1])
    PROVE  /\ ExactOk("report", run[r], disk[Root(r)])
           /\ ~Owns(run[r]) => ~Opener(disk[Root(r)])
<1> DEFINE x == run[r]
           d == disk[x.root]
<1>1. RunOk("report", x) /\ ShapedRun(x) /\ x.root \in Roots /\ "report" \in Live
  BY Known DEF Live, Pcs
<1>2. CASE Owns(x)
  BY <1>1, <1>2, Known DEF Root
<1>3. CASE ~Owns(x)
  <2>1. x.split = "development" /\ x.done = 0
    BY <1>1, <1>3 DEF Owns, ShapedRun
  <2>2. ~Opener(d)
    BY <2>1 DEF Opener, Root
  <2>3. NoFiles(d)
    BY <2>2, <1>1 DEF CInv, Begun, Clean
  <2>4. \A s \in Splits, i \in 1 .. 3 : ~Had("report", x, s, i)
    BY <2>1, ReportWords DEF Had
  <2>5. ReportsExact("report", x, d)
    BY <2>3, <2>4 DEF ReportsExact, NoFiles, SameFiles, NewRoot
  <2>6. FilesExact("report", x, d)
    BY <2>3 DEF FilesExact, NoFiles, SameFiles, NewRoot, Concluding
  <2> QED BY <2>2, <2>5, <2>6 DEF ExactOk, Root
<1> QED BY <1>2, <1>3

LEMMA WriteReportsKeeps ==
    ASSUME CInv, IInv', NEW r \in Runs, WriteReports(r)
    PROVE  CInv'
<1> DEFINE x == run[r]
           s == x.split
           n == x.done + 1
           d == disk[x.root]
           new == Report(s, Cells[n], x.rows[s])
           e == [d EXCEPT !.reports = d.reports \cup {new}]
           p == IF x.done = 2 THEN "gate" ELSE "report"
           y == [x EXCEPT !.done = n]
<1>1. CASE Raise(r)
  BY <1>1, RaiseEnds DEF WriteReports
<1>2. CASE ~Raise(r)
  <2>1. pc[r] = "report" /\ RunOk("report", x) /\ ShapedRun(x) /\ x.root \in Roots /\ ShapedRoot(d)
        /\ (PastRead("report", x) => r \in opened)
    BY Known DEF WriteReports
  <2>2. /\ ~Stored(d, s, Cells[n]) /\ disk' = [disk EXCEPT ![x.root] = e]
        /\ pc' = [pc EXCEPT ![r] = p] /\ opened' = opened
    BY <1>2 DEF WriteReports, On, At, Root
  <2>3. run' = [run EXCEPT ![r] = y]
    BY <1>2 DEF WriteReports
  <2>4. x.done \in 0 .. 2 /\ n \in 1 .. 3 /\ s \in Splits
    BY <2>1 DEF ShapedRun, RunOk, Counts
  <2>5. /\ ShapedRun(y) /\ y.split = s /\ y.root = x.root /\ y.rows = x.rows /\ y.done = n
        /\ y.result = x.result
    <3>1. n \in 0 .. 3 /\ ShapedRun(x)
      BY <2>1, <2>4
    <3> HIDE DEF x, n
    <3> QED BY <3>1, EditDone
  <2>6. /\ ShapedRoot(e) /\ e.reports = d.reports \cup {new} /\ e.protected = d.protected
        /\ e.evidence = d.evidence /\ e.result = d.result /\ e.manifest = d.manifest
    <3> HIDE DEF d, new
    <3> QED BY <2>1, FileReports
  <2>7. ExactOk("report", x, d) /\ (~Owns(x) => ~Opener(d))
    BY <2>1, <2>2, ReportsSoFar DEF Root
  <2>8. /\ p \in Live /\ p \notin Waiting /\ p \notin Settled /\ p \notin Concluding
        /\ p \notin {"claim", "open", "protect", "result", "manifest", "done", "idle", "execute"}
        /\ p = "report" => n <= 2
        /\ p = "gate" => n = 3
    BY <2>4 DEF Live, Pcs, Waiting, Settled, Concluding
  <2> HIDE DEF e, y, p
  <2>9. Ran(p, s) = Ran("report", s)
    BY <2>8 DEF Ran, Waiting
  <2>10. RunOk(p, y)
    <3>1. Filled(p, y)
      BY <2>1, <2>5, <2>8, <2>9 DEF RunOk, Filled, Live, Pcs
    <3>2. Gated(p, y)
      BY <2>1, <2>5, <2>8 DEF RunOk, Gated
    <3>3. Counts(p, y)
      BY <2>5, <2>8 DEF Counts
    <3>4. Begins(p, y)
      BY <2>1, <2>5, <2>8 DEF Begins
    <3> QED BY <3>1, <3>2, <3>3, <3>4, <2>5 DEF RunOk
  <2>11. Owns(y) /\ (~Owns(x) => Opener(e))
    <3>1. Owns(y)
      BY <2>4, <2>5 DEF Owns
    <3>2. new \in e.reports /\ new.split = s /\ new.cell = Cells[n]
      BY <2>6 DEF Report
    <3>3. ~Owns(x) => s = "development" /\ n = 1
      BY <2>4 DEF Owns
    <3> HIDE DEF new, s, n
    <3> QED BY <3>1, <3>2, <3>3 DEF Opener, Stored
  <2>12. \A q \in Splits, i \in 1 .. 3 :
            Had(p, y, q, i) <=> Had("report", x, q, i) \/ (q = s /\ i = n)
    BY <2>4, <2>5, <2>8 DEF Had, Waiting
  <2>13. ReportsExact(p, y, e)
    <3> HIDE DEF d, x, n
    <3>1. \A f : f \in d.reports <=> \E q \in Splits, i \in 1 .. 3 :
                    Had("report", x, q, i) /\ f = Report(q, Cells[i], x.rows[q])
      BY <2>7 DEF ExactOk, ReportsExact
    <3>2. \A f : f \in e.reports <=> f \in d.reports \/ f = Report(s, Cells[n], x.rows[s])
      BY <2>6
    <3> QED BY <3>1, <3>2, <2>4, <2>5, <2>12 DEF ReportsExact
  <2>14. FilesExact(p, y, e)
    BY <2>6, <2>7, <2>8 DEF ExactOk, FilesExact, Concluding
  <2>15. PastRead(p, y) => r \in opened'
    BY <2>1, <2>2, <2>5, <2>8 DEF PastRead, Live, Pcs
  <2>16. pc[r] \notin Settled
    BY <2>1 DEF Settled
  <2>17. Respects(r, p, y, e)
    <3> HIDE DEF d, x, n
    <3> QED BY <2>2, <2>5, <2>6, <2>7, <2>8, <2>10, <2>11, <2>13, <2>14, <2>15, <2>16
            DEF Respects, ExactOk, d, x
  <2> QED BY <2>2, <2>3, <2>5, <2>17, Frame
<1> QED BY <1>1, <1>2

\* The run whose turn it is to write owns its root, and its root is exact.
LEMMA AtWrite ==
    ASSUME CInv, NEW r \in Runs, pc[r] \in {"protect", "evidence", "result", "manifest"}
    PROVE  /\ RunOk(pc[r], run[r]) /\ ShapedRun(run[r]) /\ run[r].root \in Roots
           /\ run[r].done = 3 /\ Owns(run[r])
           /\ Begins(pc[r], run[r]) /\ Filled(pc[r], run[r]) /\ Gated(pc[r], run[r])
           /\ ShapedRoot(disk[run[r].root])
           /\ ReportsExact(pc[r], run[r], disk[run[r].root])
           /\ FilesExact(pc[r], run[r], disk[run[r].root])
           /\ PastRead(pc[r], run[r]) => r \in opened
<1>1. RunOk(pc[r], run[r]) /\ ShapedRun(run[r]) /\ pc[r] \in Live /\ pc[r] # "idle"
  BY Known DEF Live, Pcs
<1>2. run[r].done = 3 /\ Owns(run[r])
  BY <1>1 DEF RunOk, Counts, Concluding, Owns
<1> QED BY <1>1, <1>2, Known DEF RunOk, ExactOk

\* A step that writes one of the terminal files.
WritesFile(r, p, y, d) ==
    /\ pc[r] \in {"protect", "evidence", "result", "manifest"} /\ p \in Concluding
    /\ pc[r] \in Settled => p \in Settled
    /\ pc' = [pc EXCEPT ![r] = p] /\ run' = [run EXCEPT ![r] = y]
    /\ disk' = [disk EXCEPT ![run[r].root] = d] /\ opened' = opened
    /\ ShapedRun(y) /\ Judged(y)
    /\ y.split = run[r].split /\ y.root = run[r].root /\ y.rows = run[r].rows /\ y.done = 3
    /\ ShapedRoot(d) /\ d.reports = disk[run[r].root].reports /\ FilesExact(p, y, d)
    /\ \/ d.evidence = disk[run[r].root].evidence
       \/ d.evidence = EvidenceOf(y) /\ p \in Settled

LEMMA FileKeeps ==
    ASSUME CInv, IInv', NEW r \in Runs, NEW p, NEW y, NEW d, WritesFile(r, p, y, d)
    PROVE  CInv'
<1> DEFINE x == run[r]
<1>1. /\ pc[r] \in {"protect", "evidence", "result", "manifest"} /\ p \in Concluding
      /\ pc[r] \in Settled => p \in Settled
      /\ ShapedRun(y) /\ Judged(y)
      /\ y.split = x.split /\ y.root = x.root /\ y.rows = x.rows /\ y.done = 3
      /\ ShapedRoot(d) /\ d.reports = disk[x.root].reports /\ FilesExact(p, y, d)
      /\ \/ d.evidence = disk[x.root].evidence
         \/ d.evidence = EvidenceOf(y) /\ p \in Settled
      /\ opened' = opened
  BY DEF WritesFile
<1>2. p \in Live /\ p \notin Waiting
      /\ p \notin {"idle", "execute", "report", "gate", "claim", "open", "protect"}
  BY <1>1 DEF Live, Pcs, Concluding, Waiting
<1>3. Ran(p, x.split) = Ran(pc[r], x.split) /\ pc[r] \in Live /\ pc[r] \notin Waiting
  BY <1>1, <1>2 DEF Ran, Waiting, Live, Pcs
<1>4. RunOk(p, y)
  <2>1. Filled(p, y)
    BY <1>1, <1>3, AtWrite DEF Filled
  <2>2. Gated(p, y)
    BY <1>1, <1>2, AtWrite DEF Gated
  <2> QED BY <1>1, <1>2, <2>1, <2>2, AtWrite DEF RunOk, Begins, Counts
<1>5. Owns(y) /\ Owns(x)
  BY <1>1, AtWrite DEF Owns
<1>6. ReportsExact(p, y, d)
  <2>1. \A s \in Splits, i \in 1 .. 3 : Had(p, y, s, i) <=> Had(pc[r], x, s, i)
    BY <1>1, <1>2, <1>3, AtWrite DEF Had
  <2> QED BY <2>1, <1>1, AtWrite DEF ReportsExact
<1>7. PastRead(p, y) => r \in opened'
  BY <1>1, <1>3, AtWrite DEF PastRead
<1>8. d.evidence = EvidenceOf(y) => d.evidence.key = (y.result.phase = "holdout")
                                    /\ d.evidence.rows = y.rows
  BY DEF EvidenceOf
<1>9. d.evidence = EvidenceOf(y) /\ d.evidence.key => r \in opened'
  <2>1. \A s : Early(s).phase = s
    BY DEF Early
  <2>2. y.result.phase = "holdout" => y.split = "holdout"
    BY <1>1, <2>1 DEF Judged
  <2>3. p \in Live \ {"claim", "open"}
    BY <1>2
  <2> QED BY <1>7, <1>8, <2>2, <2>3 DEF PastRead
<1>10. Respects(r, p, y, d)
  BY <1>1, <1>2, <1>4, <1>5, <1>6, <1>7, <1>8, <1>9 DEF Respects, ExactOk
<1> QED BY <1>1, <1>10, Frame DEF WritesFile

LEMMA ProtectKeeps ==
    ASSUME CInv, IInv', NEW r \in Runs, Protect(r)
    PROVE  CInv'
<1> DEFINE x == run[r]
           d == disk[x.root]
           t == x.rows["validation"]
           e == [d EXCEPT !.protected = DerivedStatus(t)]
           y == [x EXCEPT !.result = Derived(x.rows)]
<1>1. CASE Raise(r)
  BY <1>1, RaiseEnds DEF Protect
<1>2. CASE ~Raise(r)
  <2>1. /\ pc[r] = "protect" /\ d.protected = "none" /\ Rederived(d, t) # "refused"
        /\ disk' = [disk EXCEPT ![x.root] = [d EXCEPT !.protected = Rederived(d, t)]]
        /\ pc' = [pc EXCEPT ![r] = "evidence"] /\ run' = [run EXCEPT ![r] = y]
        /\ opened' = opened
    BY <1>2 DEF Protect, On, Root, Conclude, At
  <2>2. disk' = [disk EXCEPT ![x.root] = e]
    BY <2>1 DEF Rederived
  <2>3. /\ ShapedRun(x) /\ ShapedRoot(d) /\ FilesExact("protect", x, d) /\ Gated("protect", x)
        /\ x.done = 3 /\ Counts("protect", x)
    BY <2>1, AtWrite DEF RunOk
  <2>4. /\ ShapedRun(y) /\ y.split = x.split /\ y.root = x.root /\ y.rows = x.rows
        /\ y.done = x.done /\ y.result = Derived(x.rows)
    <3> HIDE DEF x
    <3> QED BY <2>3, EditResult
  <2>5. /\ ShapedRoot(e) /\ e.reports = d.reports /\ e.protected = DerivedStatus(t)
        /\ e.evidence = d.evidence /\ e.result = d.result /\ e.manifest = d.manifest
    <3> HIDE DEF d, t
    <3> QED BY <2>3, FileProtected
  <2> HIDE DEF y, e
  <2>6. Judged(y)
    BY <2>3, <2>4 DEF Judged, Gated, Counts
  <2>7. FilesExact("evidence", y, e)
    <3>1. y.result.protected
      BY <2>4 DEF Derived
    <3> QED BY <3>1, <2>3, <2>4, <2>5 DEF FilesExact, Concluding
  <2>8. WritesFile(r, "evidence", y, e)
    BY <2>1, <2>2, <2>3, <2>4, <2>5, <2>6, <2>7 DEF WritesFile, Concluding, Settled
  <2> QED BY <2>8, FileKeeps
<1> QED BY <1>1, <1>2

LEMMA WriteEvidenceKeeps ==
    ASSUME CInv, IInv', NEW r \in Runs, WriteEvidence(r)
    PROVE  CInv'
<1> DEFINE x == run[r]
           d == disk[x.root]
           e == [d EXCEPT !.evidence = EvidenceOf(x)]
<1>1. CASE Raise(r)
  BY <1>1, RaiseEnds DEF WriteEvidence
<1>2. CASE ~Raise(r)
  <2>1. /\ pc[r] = "evidence" /\ disk' = [disk EXCEPT ![x.root] = e]
        /\ pc' = [pc EXCEPT ![r] = "result"] /\ run' = run /\ opened' = opened
    BY <1>2 DEF WriteEvidence, Evidence, EvidenceOf, On, Root, Go, At
  <2>2. /\ ShapedRun(x) /\ ShapedRoot(d) /\ FilesExact("evidence", x, d) /\ Judged(x) /\ x.done = 3
    BY <2>1, AtWrite DEF Gated, Concluding
  <2>3. /\ ShapedRoot(e) /\ e.reports = d.reports /\ e.protected = d.protected
        /\ e.evidence = EvidenceOf(x) /\ e.result = d.result /\ e.manifest = d.manifest
    <3> HIDE DEF d, x
    <3> QED BY <2>2, FileEvidence
  <2> HIDE DEF e
  <2>4. FilesExact("result", x, e)
    BY <2>2, <2>3 DEF FilesExact, Concluding
  <2>5. run' = [run EXCEPT ![r] = x]
    BY <2>1 DEF CInv, Shapes
  <2>6. WritesFile(r, "result", x, e)
    BY <2>1, <2>2, <2>3, <2>4, <2>5 DEF WritesFile, Concluding, Settled
  <2> QED BY <2>6, FileKeeps
<1> QED BY <1>1, <1>2

LEMMA WriteResultKeeps ==
    ASSUME CInv, IInv', NEW r \in Runs, WriteResult(r)
    PROVE  CInv'
<1> DEFINE x == run[r]
           d == disk[x.root]
           e == [d EXCEPT !.result = x.result]
<1>1. CASE Raise(r)
  BY <1>1, RaiseEnds DEF WriteResult
<1>2. CASE ~Raise(r)
  <2>1. /\ pc[r] = "result" /\ disk' = [disk EXCEPT ![x.root] = e]
        /\ pc' = [pc EXCEPT ![r] = "manifest"] /\ run' = run /\ opened' = opened
    BY <1>2 DEF WriteResult, On, Root, Go, At
  <2>2. /\ ShapedRun(x) /\ ShapedRoot(d) /\ FilesExact("result", x, d) /\ Judged(x) /\ x.done = 3
    BY <2>1, AtWrite DEF Gated, Concluding
  <2>3. /\ ShapedRoot(e) /\ e.reports = d.reports /\ e.protected = d.protected
        /\ e.evidence = d.evidence /\ e.result = x.result /\ e.manifest = d.manifest
    <3> HIDE DEF d, x
    <3> QED BY <2>2, FileResult
  <2> HIDE DEF e
  <2>4. FilesExact("manifest", x, e)
    BY <2>2, <2>3 DEF FilesExact, Concluding
  <2>5. run' = [run EXCEPT ![r] = x]
    BY <2>1 DEF CInv, Shapes
  <2>6. WritesFile(r, "manifest", x, e)
    BY <2>1, <2>2, <2>3, <2>4, <2>5 DEF WritesFile, Concluding, Settled
  <2> QED BY <2>6, FileKeeps
<1> QED BY <1>1, <1>2

LEMMA WriteManifestKeeps ==
    ASSUME CInv, IInv', NEW r \in Runs, WriteManifest(r)
    PROVE  CInv'
<1> DEFINE x == run[r]
           d == disk[x.root]
           e == [d EXCEPT !.manifest = ManifestOf(x)]
<1>1. CASE Raise(r)
  BY <1>1, RaiseEnds DEF WriteManifest
<1>2. CASE ~Raise(r)
  <2>1. Manifest(r) = ManifestOf(x)
    BY DEF Manifest, ManifestOf, Evidence, EvidenceOf
  <2>2. /\ pc[r] = "manifest" /\ disk' = [disk EXCEPT ![x.root] = e]
        /\ pc' = [pc EXCEPT ![r] = "done"] /\ run' = run /\ opened' = opened
    BY <1>2, <2>1 DEF WriteManifest, On, Root, Go, At
  <2>3. /\ ShapedRun(x) /\ ShapedRoot(d) /\ FilesExact("manifest", x, d) /\ Judged(x) /\ x.done = 3
    BY <2>2, AtWrite DEF Gated, Concluding
  <2>4. /\ ShapedRoot(e) /\ e.reports = d.reports /\ e.protected = d.protected
        /\ e.evidence = d.evidence /\ e.result = d.result /\ e.manifest = ManifestOf(x)
    <3> HIDE DEF d, x
    <3> QED BY <2>3, FileManifest
  <2> HIDE DEF e
  <2>5. FilesExact("done", x, e)
    BY <2>3, <2>4 DEF FilesExact, Concluding
  <2>6. run' = [run EXCEPT ![r] = x]
    BY <2>2 DEF CInv, Shapes
  <2>7. WritesFile(r, "done", x, e)
    BY <2>2, <2>3, <2>4, <2>5, <2>6 DEF WritesFile, Concluding, Settled
  <2> QED BY <2>7, FileKeeps
<1> QED BY <1>1, <1>2

LEMMA StepKeeps == CInv /\ IInv' /\ [Next]_vars => CInv'
<1> SUFFICES ASSUME CInv, IInv', [Next]_vars PROVE CInv'
  OBVIOUS
<1>1. ASSUME NEW r \in Runs, AttemptFails(r) \/ GuardFails(r) PROVE CInv'
  BY <1>1, RaiseEnds DEF AttemptFails, GuardFails
<1>2. ASSUME NEW r \in Runs, Step(r) PROVE CInv'
  BY <1>2, ExecuteKeeps, WriteReportsKeeps, DevelopmentGateKeeps, ValidationGateKeeps, ClaimKeepsSlot,
     OpenHoldoutKeeps, HoldoutGateKeeps, ProtectKeeps, WriteEvidenceKeeps, WriteResultKeeps,
     WriteManifestKeeps DEF Step
<1>3. CASE UNCHANGED vars
  <2>1. ledger' = ledger /\ opened' = opened /\ disk' = disk /\ pc' = pc /\ run' = run
    BY <1>3 DEF vars
  <2>2. Shapes' /\ AllOk' /\ RootsApart'
    BY <2>1 DEF CInv, Shapes, AllOk, RootsApart
  <2>3. Begun' /\ Clean' /\ Exact'
    BY <2>1 DEF CInv, Begun, Clean, Exact
  <2>4. Seen' /\ EvidenceOwned'
    BY <2>1 DEF CInv, Seen, EvidenceOwned, Shows
  <2> QED BY <2>2, <2>3, <2>4 DEF CInv
<1> QED BY <1>1, <1>2, <1>3, StartKeeps, CrashEnds DEF Next

LEMMA InitC == Init => CInv
<1> SUFFICES ASSUME Init PROVE CInv
  OBVIOUS
<1>1. /\ \A r \in Runs : pc[r] = "idle" /\ run[r] = NewRun
      /\ \A x \in Roots : disk[x] = NewRoot
      /\ run = [q \in Runs |-> run[q]] /\ disk = [x \in Roots |-> disk[x]] /\ opened = {}
  BY DEF Init
<1>2. /\ ShapedRun(NewRun) /\ NewRun.split = "development" /\ NewRun.done = 0
      /\ \A s \in Splits : NewRun.rows[s] = Nothing
  BY DEF NewRun, ShapedRun, RunFields, Splits, Upto, Trialled
<1>3. ShapedRoot(NewRoot) /\ NewRoot.evidence = Nothing
  BY RootFieldsAre DEF NewRoot, ShapedRoot
<1>4. Spent(NewRun.rows) <= TokenLimit
  BY <1>2, ReportWords, ScaffoldCampaignAssumption DEF Spent, Nothing
<1>5. RunOk("idle", NewRun)
  BY <1>2, <1>4 DEF RunOk, Begins, Counts, Filled, Gated, Live, Concluding
<1>6. ~Owns(NewRun) /\ ~PastRead("idle", NewRun)
  BY <1>2 DEF Owns, PastRead
<1> QED BY <1>1, <1>3, <1>5, <1>6, InitSlot
        DEF CInv, Shapes, AllOk, RootsApart, Begun, Clean, NoFiles, SameFiles, Exact, Seen, EvidenceOwned

-----------------------------------------------------------------------------
\* From the invariant to what a reload sees.

\* Passing the gates, in terms of what the trials yielded.
Rescued(t, c) == \A i \in Reps : /\ t.out["base_scaffold"][c.id][i] # "expected"
                                 /\ t.out["optimized_scaffold"][c.id][i] = "expected"

LEMMA ImprovedIsRescued ==
    ASSUME NEW t, NEW c, Improved(t, c)
    PROVE  Rescued(t, c)
BY DEF Improved, All, Verdict, Verify, Rescued

LEMMA NoRegression ==
    ASSUME NEW t, ~MandatoryRegression(t), NEW c \in Of(t.split), c.mandatory, NEW i \in Reps
    PROVE  t.out["optimized_scaffold"][c.id][i] = "expected"
BY DEF MandatoryRegression, All, Verdict, Verify

\* The reports' derivation agrees with the gate that let the run through, as
\* long as the approved target cases are filed under the view of their name.
TargetsFiled == \A c \in Cases : c.target => c.view = "approved_target"

LEMMA DerivedIsEligible ==
    ASSUME TargetsFiled, NEW t, ~ValidationFails(t), t.split = "validation"
    PROVE  DerivedStatus(t) = "eligible"
<1>1. PICK c \in Of("validation") : c.target /\ Improved(t, c)
  BY DEF ValidationFails, ApprovedPairs
<1>2. c.view = "approved_target"
  BY <1>1 DEF TargetsFiled, Of
<1>3. PICK i \in Reps : TRUE
  BY ScaffoldCampaignAssumption DEF WellFormedSpec
<1>4. ~All(t, "base_scaffold", c, "pass") /\ All(t, "optimized_scaffold", c, "pass")
  BY <1>1, <1>3 DEF Improved, All
<1>5. \A o \in Of("validation") : o.mandatory => All(t, "optimized_scaffold", o, "pass")
  BY DEF ValidationFails, MandatoryRegression
<1> DEFINE Moved(o, from, to) == /\ CaseVerdict(t, "base_scaffold", o) = from
                                 /\ CaseVerdict(t, "optimized_scaffold", o) = to
           improved == {o \in Of("validation") : o.view = "approved_target" /\ Moved(o, "fail", "pass")}
           regressed == {o \in Of("validation") : o.mandatory /\ Moved(o, "pass", "fail")}
<1>6. c \in improved
  BY <1>1, <1>2, <1>4 DEF CaseVerdict
<1>7. regressed = {}
  BY <1>5 DEF CaseVerdict
<1>8. DerivedStatus(t) = IF improved # {} /\ regressed = {} THEN "eligible" ELSE "ineligible"
  BY DEF DerivedStatus
<1> QED BY <1>6, <1>7, <1>8

\* What a reload that comes out eligible has established.
LEMMA EligibleReload ==
    ASSUME NEW root \in Roots, Reloads(root), disk[root].result.status = "eligible"
    PROVE  LET table == disk[root].evidence.rows IN
           /\ disk[root].evidence # Nothing /\ disk[root].evidence.key
           /\ \A s \in Splits : table[s] # Nothing
           /\ DevelopmentEligible(table["development"]) /\ ~ValidationFails(table["validation"])
           /\ ~MandatoryRegression(table["holdout"])
<1> DEFINE d == disk[root]
           phase == d.result.phase
           table == d.evidence.rows
<1>1. d.evidence # Nothing /\ PhaseExact(d) /\ RowsBound(d) /\ Rederives(d)
  BY DEF Reloads
<1>2. \A s : Early(s).status = "ineligible"
  BY DEF Early
<1>3. d.result # Early(phase)
  BY <1>2
<1>4. phase \notin {"development", "validation"}
  BY <1>1, <1>3 DEF Rederives
<1>5. /\ DevelopmentEligible(table["development"]) /\ ~ValidationFails(table["validation"])
      /\ ~MandatoryRegression(table["holdout"]) /\ d.result = Derived(table)
  BY <1>1, <1>3, <1>4 DEF Rederives
<1>6. phase = "holdout"
  BY <1>5 DEF Derived
<1>7. d.evidence.key
  BY <1>1, <1>6 DEF PhaseExact
<1>8. \A s \in Splits : table[s] # Nothing
  BY <1>1, <1>6 DEF RowsBound, Splits
<1> QED BY <1>1, <1>5, <1>7, <1>8

LEMMA InvAccepted == CInv => AcceptedIsEarned
<1> SUFFICES ASSUME CInv, NEW root \in Roots, Reloads(root),
                    disk[root].result.status = "eligible"
             PROVE  /\ opened = {ledger} /\ run[ledger].root = root
                    /\ LET table == run[ledger].rows
                           out(c, cell, i) == table[c.split].out[cell][c.id][i]
                           rescued(c) == \A i \in Reps :
                                            /\ out(c, "base_scaffold", i) # "expected"
                                            /\ out(c, "optimized_scaffold", i) = "expected"
                       IN /\ \A c \in ToSet(Selected) : rescued(c)
                          /\ \E c \in Of("validation") : c.target /\ rescued(c)
                          /\ \A c \in Cases, i \in Reps :
                                c.mandatory => out(c, "optimized_scaffold", i) = "expected"
  BY DEF AcceptedIsEarned
<1>1. PICK r \in Runs : Shows(r, root, disk[root])
  BY EligibleReload DEF CInv, EvidenceOwned
<1>2. r = ledger /\ opened = {ledger}
  BY <1>1 DEF Shows, CInv, IInv, HoldoutReadOnce
<1> DEFINE table == run[r].rows
<1>3. /\ table = disk[root].evidence.rows /\ run[r].root = root
      /\ \A s \in Splits : table[s] # Nothing
      /\ DevelopmentEligible(table["development"]) /\ ~ValidationFails(table["validation"])
      /\ ~MandatoryRegression(table["holdout"])
  BY <1>1, EligibleReload DEF Shows
<1>4. \A s \in Splits : table[s].split = s
  BY <1>3, Known DEF RunOk, Filled
<1> HIDE DEF table
<1>5. ASSUME NEW c \in ToSet(Selected) PROVE Rescued(table[c.split], c)
  <2>1. c.split = "development"
    BY <1>5, ScaffoldCampaignAssumption DEF WellFormedSpec, Of
  <2> QED BY <2>1, <1>3, ImprovedIsRescued DEF DevelopmentEligible, SelectionHolds
<1>6. \E c \in Of("validation") : c.target /\ Rescued(table[c.split], c)
  <2>1. PICK c \in Of("validation") : c.target /\ Improved(table["validation"], c)
    BY <1>3 DEF ValidationFails, ApprovedPairs
  <2>2. c.split = "validation"
    BY DEF Of
  <2> QED BY <2>1, <2>2, ImprovedIsRescued
<1>7. ASSUME NEW c \in Cases, NEW i \in Reps, c.mandatory
      PROVE  table[c.split].out["optimized_scaffold"][c.id][i] = "expected"
  <2>1. c.split \in Splits
    BY ScaffoldCampaignAssumption DEF WellFormedSpec, Splits
  <2>2. ~MandatoryRegression(table[c.split])
    BY <2>1, <1>3, ReportWords DEF DevelopmentEligible, ValidationFails
  <2>3. c \in Of(table[c.split].split)
    BY <2>1, <1>4 DEF Of
  <2> QED BY <2>2, <2>3, <1>7, NoRegression
<1>8. run[ledger].rows = table /\ run[ledger].root = root
  BY <1>2, <1>3 DEF table
<1>9. \A c : Rescued(table[c.split], c)
            = \A i \in Reps : /\ table[c.split].out["base_scaffold"][c.id][i] # "expected"
                             /\ table[c.split].out["optimized_scaffold"][c.id][i] = "expected"
  BY DEF Rescued
<1>10. \A c \in ToSet(Selected) : Rescued(table[c.split], c)
  BY <1>5
<1>11. \A c \in Cases, i \in Reps :
          c.mandatory => table[c.split].out["optimized_scaffold"][c.id][i] = "expected"
  BY <1>7
<1> QED BY <1>2, <1>6, <1>8, <1>9, <1>10, <1>11

LEMMA InvReloads == TargetsFiled /\ CInv => FinishedReloads
<1> SUFFICES ASSUME TargetsFiled, CInv, NEW r \in Runs, pc[r] = "done"
             PROVE  Reloads(run[r].root) /\ disk[run[r].root].result = run[r].result
  BY DEF FinishedReloads
<1> DEFINE x == run[r]
           d == disk[x.root]
           table == x.rows
           s == x.split
<1>1. /\ ShapedRun(x) /\ x.done = 3 /\ Filled("done", x) /\ Gated("done", x) /\ Judged(x)
      /\ s \in Splits
  BY Known DEF RunOk, Counts, Gated, Concluding, ShapedRun
<1>2. ReportsExact("done", x, d) /\ FilesExact("done", x, d)
  <2>1. Owns(x) /\ "done" \in Live
    BY <1>1 DEF Owns, Live, Pcs
  <2> QED BY <2>1, Known DEF ExactOk
<1>3. /\ d.evidence = EvidenceOf(x) /\ d.result = x.result /\ d.manifest = ManifestOf(x)
      /\ d.protected = IF x.result.protected THEN DerivedStatus(table["validation"]) ELSE "none"
  BY <1>2 DEF FilesExact, Concluding
<1>4. /\ d.evidence.rows = table /\ d.evidence.key = (x.result.phase = "holdout")
      /\ d.evidence.protected = x.result.protected
  BY <1>3 DEF EvidenceOf
<1>5. /\ d.manifest.evidence = d.evidence /\ d.manifest.result = d.result
      /\ d.manifest.reports = {Report(q, Cells[i], table[q]) : q \in Upto(x.result.phase), i \in 1 .. 3}
  BY <1>3 DEF ManifestOf
<1>6. \A q : Early(q).phase = q /\ Early(q).status = "ineligible" /\ Early(q).protected = FALSE
  BY DEF Early
<1>7. Derived(table).phase = "holdout" /\ Derived(table).protected = TRUE
      /\ Derived(table).status = DerivedStatus(table["validation"])
  BY DEF Derived
<1>8. x.result.phase = s
  BY <1>1, <1>6, <1>7 DEF Judged
<1>9. \A q \in Splits : table[q] # Nothing <=> q \in Upto(s)
  BY <1>1 DEF Filled, Ran, Waiting, Live, Pcs
<1>10. s = "holdout" => DerivedStatus(table["validation"]) = "eligible"
                        /\ table["validation"].split = "validation"
  <2>1. s = "holdout" => table["validation"].split = "validation" /\ ~ValidationFails(table["validation"])
    BY <1>1, <1>9, ReportWords DEF Filled, Gated
  <2> QED BY <2>1, DerivedIsEligible
<1>11. \A e : e \in d.reports <=> \E q \in Upto(s), i \in 1 .. 3 : e = Report(q, Cells[i], table[q])
  <2>1. \A q \in Splits, i \in 1 .. 3 : Had("done", x, q, i) <=> q \in Upto(s)
    BY <1>1, ReportWords DEF Had, Waiting
  <2>2. Upto(s) \subseteq Splits
    BY <1>1, ReportWords
  <2> QED BY <2>1, <2>2, <1>2 DEF ReportsExact
<1>12. Nothing \notin {d.manifest, d.result, d.evidence}
  <2>1. DOMAIN Nothing = {"tokens"} /\ DOMAIN EvidenceOf(x) = {"rows", "key", "protected"}
        /\ DOMAIN ManifestOf(x) = {"evidence", "result", "reports"}
    BY DEF Nothing, EvidenceOf, ManifestOf
  <2>2. \A q : DOMAIN Early(q) = {"phase", "status", "protected"}
    BY DEF Early
  <2>3. DOMAIN Derived(table) = {"phase", "status", "protected"}
    BY DEF Derived
  <2>4. x.result \in {Early("development"), Early("validation"), Early("holdout"), Derived(table)}
    BY <1>1 DEF Judged
  <2>5. x.result # Nothing
    BY <2>1, <2>2, <2>3, <2>4
  <2> QED BY <2>1, <2>5, <1>3
<1>13. PhaseExact(d)
  <2>1. x.result.protected = (s = "holdout" /\ x.result.status = "eligible")
    <3>1. CASE x.result = Early(s)
      BY <3>1, <1>6
    <3>2. CASE s = "holdout" /\ x.result = Derived(table)
      BY <3>2, <1>7, <1>10
    <3> QED BY <3>1, <3>2, <1>1 DEF Judged
  <2> QED BY <2>1, <1>3, <1>4, <1>5, <1>8 DEF PhaseExact
<1> HIDE DEF d, x, table
<1>14. ReportsBound(d)
  <2>1. d.manifest.reports = d.reports
    BY <1>5, <1>8, <1>11
  <2>2. ToSet(Cells) = {Cells[i] : i \in 1 .. 3}
    BY DEF ToSet, Cells
  <2>3. \A q, i : Report(q, Cells[i], table[q]).split = q /\ Report(q, Cells[i], table[q]).cell = Cells[i]
    BY DEF Report
  <2>4. {<<p.split, p.cell>> : p \in d.reports} = Upto(s) \X ToSet(Cells)
    <3>1. ASSUME NEW p \in d.reports PROVE <<p.split, p.cell>> \in Upto(s) \X ToSet(Cells)
      <4>1. PICK q \in Upto(s), i \in 1 .. 3 : p = Report(q, Cells[i], table[q])
        BY <1>11
      <4>2. p.split = q /\ p.cell = Cells[i]
        BY <4>1, <2>3
      <4> QED BY <4>2, <2>2
    <3>2. ASSUME NEW q \in Upto(s), NEW c \in ToSet(Cells)
          PROVE  \E p \in d.reports : <<q, c>> = <<p.split, p.cell>>
      <4>1. PICK i \in 1 .. 3 : c = Cells[i]
        BY <2>2
      <4>2. Report(q, Cells[i], table[q]) \in d.reports
        BY <1>11
      <4> QED BY <4>1, <4>2, <2>3
    <3> HIDE DEF s
    <3> QED BY <3>1, <3>2
  <2> QED BY <2>1, <2>4, <1>3, <1>8 DEF ReportsBound
<1>15. RowsBound(d)
  BY <1>3, <1>4, <1>8, <1>9 DEF RowsBound, Splits
<1>16. RowsAgree(d)
  <2>1. \A q, i : Report(q, Cells[i], table[q]).split = q /\ Report(q, Cells[i], table[q]).trial = table[q]
    BY DEF Report
  <2>2. Spent(table) <= TokenLimit
    BY <1>1 DEF Filled, table
  <2>3. ASSUME NEW p \in d.reports PROVE p.trial = table[p.split]
    <3>1. PICK q \in Upto(s), i \in 1 .. 3 : p = Report(q, Cells[i], table[q])
      BY <1>11
    <3>2. p.split = q /\ p.trial = table[q]
      BY <3>1, <2>1
    <3> QED BY <3>2
  <2> QED BY <2>2, <2>3, <1>4 DEF RowsAgree
<1>17. Rederives(d)
  <2>1. /\ ~NotLoadBearing(table["development"])
        /\ s = "development" => x.result = Early(s) /\ ~DevelopmentEligible(table["development"])
        /\ s # "development" => DevelopmentEligible(table["development"])
    BY <1>1 DEF Judged, Gated, table, DevelopmentEligible, NotLoadBearing
  <2>2. /\ s = "validation" => x.result = Early(s) /\ ValidationFails(table["validation"])
        /\ s = "holdout" => ~ValidationFails(table["validation"])
    BY <1>1 DEF Judged, Gated, table
  <2>3. s = "holdout" => x.result = IF MandatoryRegression(table["holdout"]) THEN Early(s)
                                    ELSE Derived(table)
    BY <1>1 DEF Judged, table
  <2>4. s = "holdout" => Rederived(d, table["validation"]) = DerivedStatus(table["validation"])
    <3>1. "validation" \in Upto("holdout")
      BY DEF Upto
    <3> QED BY <3>1, <1>10, <1>11 DEF Rederived, Resolved
  <2>5. s \in {"development", "validation", "holdout"}
    BY <1>1, ReportWords
  <2>6. d.result = x.result /\ d.result.phase = s /\ d.evidence.rows = table
    BY <1>3, <1>4, <1>8
  <2>7. s = "holdout" /\ MandatoryRegression(table["holdout"]) => d.protected = "none"
    BY <2>3, <1>3, <1>6
  <2>8. s = "holdout" /\ ~MandatoryRegression(table["holdout"])
        => d.protected = DerivedStatus(table["validation"])
    BY <2>3, <1>3, <1>7
  <2> HIDE DEF s
  <2> QED BY <2>1, <2>2, <2>3, <2>4, <2>5, <2>6, <2>7, <2>8 DEF Rederives
<1> QED BY <1>3, <1>12, <1>13, <1>14, <1>15, <1>16, <1>17 DEF Reloads, d, x

LEMMA CampaignInvariant == Spec => []CInv
<1>1. Init => CInv
  BY InitC
<1>2. CInv /\ [Next]_vars => CInv'
  BY SlotStep, StepKeeps DEF CInv
<1> QED BY <1>1, <1>2, PTL DEF Spec

\* AcceptedIsEarned (verify_campaign): whatever finished, failed and dead runs
\* have left in a root, a reload accepts it as eligible only if the one run
\* that opened the holdout earned it there.
THEOREM AcceptedIsEarnedHolds == Spec => []AcceptedIsEarned
<1>1. CInv => AcceptedIsEarned
  BY InvAccepted
<1> HIDE DEF CInv
<1> QED BY <1>1, CampaignInvariant, PTL

\* EvidenceIsEarned (run_campaign, verify_campaign): and a run that finishes
\* can be shown to have, if the specification files its approved target cases
\* under the view of that name.
THEOREM EvidenceIsEarnedHolds == TargetsFiled /\ Spec => []EvidenceIsEarned
<1> SUFFICES ASSUME TargetsFiled PROVE Spec => []EvidenceIsEarned
  OBVIOUS
<1>1. CInv => EvidenceIsEarned
  BY InvAccepted, InvReloads DEF EvidenceIsEarned
<1> HIDE DEF CInv
<1> QED BY <1>1, CampaignInvariant, PTL
=============================================================================
