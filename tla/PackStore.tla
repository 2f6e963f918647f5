------------------------------ MODULE PackStore ------------------------------
(* The files of one knowledge pack (selflearn store/packstore.py), the       *)
(* processes that hold a copy of them in memory and write it through, and    *)
(* the doctor (doctor.py), which repairs what crashes, two processes at once *)
(* and an editor leave on the disk.                                          *)
(*                                                                           *)
(* An entry is its lifecycle, its quarantine flag and its marks; a probe of  *)
(* an entry is whether it was validated and whether it is retired.  Bodies,  *)
(* topics and vectors' contents are left out.  No file is replaced: each is  *)
(* written in place, and a crash may leave it torn.                          *)
EXTENDS Integers, Sequences, Functions

CONSTANTS Entries, Procs,
          Threshold,     \* harmful marks in a row before an entry is set aside
          MaxMarks, MaxFaults, MaxOps

VARIABLES
    md,         \* the entry files: a function on the entries that have one
    strays,     \* entry files under a name that is not their entry's
    manifest,   \* [state, has]: what retrieval knows of each entry
    probes,     \* [bad, of]: the lines of probes.jsonl, and whether one is unreadable
    vectors,    \* [torn, of]: the sidecar
    broken,     \* the entries whose file the doctor moved aside
    mem,        \* what each process has loaded and changed
    todo,       \* the writes each process still has to make
    doctor,
    shared,     \* two programs have had the store open at once
    faults, ops

files == <<md, strays, manifest, probes, vectors, broken>>
vars == <<files, mem, todo, doctor, shared, faults, ops>>

Statuses == {"candidate", "published", "deprecated"}
Empty == [e \in {} |-> 0]
Has(f, e) == e \in DOMAIN f
With(f, e, v) == [x \in DOMAIN f \cup {e} |-> IF x = e THEN v ELSE f[x]]

File(status, quar, help, harm) == [status |-> status, quar |-> quar, help |-> help, harm |-> harm]
Cut == {File("torn", FALSE, 0, 0), File("garbled", FALSE, 0, 0)}  \* garbled: within a character
Closed == [open |-> FALSE, batch |-> FALSE, has |-> Empty, probes |-> Empty, vec |-> {}]
Resting == [pc |-> "off", left |-> {}, misnamed |-> {}, good |-> Empty]

(***************************************************************************)
(* What is on the disk, and what a process makes of it.                    *)

\* The pack has no directory yet.
Absent == manifest.state = "missing" /\ md = Empty /\ strays = Empty /\ broken = {}

\* The loader is loud: the first thing that is wrong stops it.
Loads ==
    \/ Absent
    \/ /\ manifest.state = "fine" /\ ~vectors.torn /\ ~probes.bad
       /\ \A e \in DOMAIN manifest.has :
             Has(md, e) /\ md[e].status \in Statuses /\ md[e].status = manifest.has[e].status

\* Content and lifecycle come from the entry files, marks from the manifest.
Loaded ==
    [open |-> TRUE, batch |-> FALSE,
     has |-> [e \in DOMAIN manifest.has |->
                 [status |-> md[e].status, quar |-> md[e].quar, help |-> manifest.has[e].help,
                  harm |-> manifest.has[e].harm, streak |-> manifest.has[e].streak]],
     probes |-> probes.of,
     vec |-> vectors.of \cap DOMAIN manifest.has]

\* What a process writes: the manifest lists all its entries, the probe file
\* the probes of all its entries, the sidecar those that have a vector.
EntryFile(m, e) == File(m.has[e].status, m.has[e].quar, m.has[e].help, m.has[e].harm)
ManifestOf(m) ==
    [state |-> "fine",
     has |-> [e \in DOMAIN m.has |-> [status |-> m.has[e].status, help |-> m.has[e].help,
                                      harm |-> m.has[e].harm, streak |-> m.has[e].streak]]]
ProbesOf(m) == [bad |-> FALSE, of |-> Restrict(m.probes, DOMAIN m.probes \cap DOMAIN m.has)]
VectorsOf(m) == [torn |-> FALSE, of |-> m.vec]

Md(e) == [file |-> "md", id |-> e]
Judge(e) == [file |-> "judge", id |-> e]
Flush == <<[file |-> "manifest"], [file |-> "probes"], [file |-> "vectors"]>>
OneOf(file) == <<[file |-> file]>>

\* A batch writes entry files at once and the rest when it ends.
Persist(m, e) == <<Md(e)>> \o (IF m.batch THEN <<>> ELSE OneOf("manifest"))
PersistProbes(m) == IF m.batch THEN <<>> ELSE OneOf("probes")
PersistVectors(m) == IF m.batch THEN <<>> ELSE OneOf("vectors")

Init ==
    /\ md = Empty /\ strays = Empty /\ broken = {}
    /\ manifest \in [state : {"missing", "fine"}, has : {Empty}]
    /\ probes = [bad |-> FALSE, of |-> Empty] /\ vectors = [torn |-> FALSE, of |-> {}]
    /\ mem = [p \in Procs |-> Closed] /\ todo = [p \in Procs |-> <<>>]
    /\ doctor = Resting /\ shared = FALSE /\ faults = 0 /\ ops = 0

(***************************************************************************)
(* Operations.  Each changes the memory of its process and says what is to *)
(* be written; a process does one at a time.                               *)

Idle(p) == mem[p].open /\ todo[p] = <<>>
Busy == \E p \in Procs : mem[p].open

\* Processes come and go as they like, but not while the doctor is at work.
Open(p) ==
    /\ ~mem[p].open /\ Loads /\ doctor.pc \in {"off", "done"}
    /\ mem' = [mem EXCEPT ![p] = Loaded]
    /\ shared' = (shared \/ Busy)
    /\ doctor' = Resting
    /\ UNCHANGED <<files, todo, faults, ops>>

Close(p) ==
    /\ Idle(p) /\ ~mem[p].batch
    /\ mem' = [mem EXCEPT ![p] = Closed]
    /\ UNCHANGED <<files, todo, doctor, shared, faults, ops>>

Does(p, after, writes) ==
    /\ ops < MaxOps /\ ops' = ops + 1
    /\ mem' = [mem EXCEPT ![p] = after] /\ todo' = [todo EXCEPT ![p] = writes]
    /\ UNCHANGED <<files, doctor, shared, faults>>

\* The operation on an entry the process knows.
Changes(p, e, entry, others) ==
    Does(p, [mem[p] EXCEPT !.has = With(@, e, entry)], Persist(mem[p], e) \o others)

\* Every acquisition starts with a claim of its topic.
Claim(p) == Idle(p) /\ ~mem[p].batch /\ Does(p, mem[p], OneOf("manifest"))

AddCandidate(p, e, quar) ==
    /\ Idle(p) /\ ~Has(mem[p].has, e)
    /\ Changes(p, e, [status |-> "candidate", quar |-> quar, help |-> 0, harm |-> 0, streak |-> 0], <<>>)

\* The gate, a human or a seed decided to publish; nothing publishes what is in
\* quarantine.  An entry published without a vector loses the one it had, but
\* not in the sidecar.
Publishable(p, e) ==
    /\ Idle(p) /\ Has(mem[p].has, e)
    /\ mem[p].has[e].status = "candidate" /\ ~mem[p].has[e].quar

Published(m, e, vector) ==
    [m EXCEPT !.has = [@ EXCEPT ![e].status = "published"], !.vec = IF vector THEN @ \cup {e} ELSE @ \ {e}]

Publish(p, e, asked, vector) ==
    /\ Publishable(p, e)
    /\ LET probed == IF asked THEN With(mem[p].probes, e, [valid |-> TRUE, retired |-> FALSE])
                              ELSE Restrict(mem[p].probes, DOMAIN mem[p].probes \ {e})
       IN  Does(p, [Published(mem[p], e, vector) EXCEPT !.probes = probed],
                Persist(mem[p], e) \o (PersistProbes(mem[p]) \o
                    IF vector THEN PersistVectors(mem[p]) ELSE <<>>))

Retire(m, e, retired) == IF Has(m.probes, e) THEN [m.probes EXCEPT ![e].retired = retired] ELSE m.probes
SetAside(m, e) == [m EXCEPT !.has = [@ EXCEPT ![e].status = "deprecated"], !.probes = Retire(m, e, TRUE)]
Brought(m, e) == [m EXCEPT !.has = [@ EXCEPT ![e].status = "published"], !.probes = Retire(m, e, FALSE)]

Deprecate(p, e) ==
    /\ Idle(p) /\ Has(mem[p].has, e) /\ mem[p].has[e].status = "published"
    /\ Does(p, SetAside(mem[p], e), Persist(mem[p], e) \o PersistProbes(mem[p]))

Restore(p, e) ==
    /\ Idle(p) /\ Has(mem[p].has, e) /\ mem[p].has[e].status = "deprecated"
    /\ Does(p, Brought(mem[p], e), Persist(mem[p], e) \o PersistProbes(mem[p]))

\* The outcome of a task: a pass credits the entries it used, a failure counts
\* against them and may set one aside.  Old marks may have faded.
Mark(p, e, helped, faded) ==
    /\ Idle(p) /\ Has(mem[p].has, e) /\ ~mem[p].batch
    /\ LET old == IF faded THEN [mem[p].has[e] EXCEPT !.help = 0, !.harm = 0] ELSE mem[p].has[e]
       IN  /\ old.help + old.harm < MaxMarks
           /\ IF helped
              THEN \E credit \in {1, 2} :      \* injected only, or applied as well
                      Changes(p, e, [old EXCEPT !.help = @ + credit, !.streak = 0], <<>>)
              ELSE Changes(p, e, [old EXCEPT !.harm = @ + 1, !.streak = @ + 1], <<Judge(e)>>)

SetVector(p, e) ==
    /\ Idle(p) /\ Has(mem[p].has, e)
    /\ Does(p, [mem[p] EXCEPT !.vec = @ \cup {e}], Persist(mem[p], e) \o PersistVectors(mem[p]))

ReleaseQuarantine(p, e) ==
    /\ Idle(p) /\ Has(mem[p].has, e)
    /\ mem[p].has[e].status = "candidate" /\ mem[p].has[e].quar
    /\ Changes(p, e, [mem[p].has[e] EXCEPT !.quar = FALSE], <<>>)

BeginBatch(p) == Idle(p) /\ ~mem[p].batch /\ Does(p, [mem[p] EXCEPT !.batch = TRUE], <<>>)

\* Also when the import raised.
EndBatch(p) ==
    /\ Idle(p) /\ mem[p].batch
    /\ mem' = [mem EXCEPT ![p].batch = FALSE] /\ todo' = [todo EXCEPT ![p] = Flush]
    /\ UNCHANGED <<files, doctor, shared, faults, ops>>

Worn(entry) == entry.status = "published" /\ entry.streak >= Threshold /\ entry.harm > entry.help

Write(p) ==
    /\ todo[p] # <<>>
    /\ LET w == Head(todo[p])
           m == mem[p]
           worn == w.file = "judge" /\ Worn(m.has[w.id])
       IN  /\ md' = IF w.file = "md" THEN With(md, w.id, EntryFile(m, w.id)) ELSE md
           /\ manifest' = IF w.file = "manifest" THEN ManifestOf(m) ELSE manifest
           /\ probes' = IF w.file = "probes" THEN ProbesOf(m) ELSE probes
           /\ vectors' = IF w.file = "vectors" THEN VectorsOf(m) ELSE vectors
           /\ mem' = IF worn THEN [mem EXCEPT ![p] = SetAside(m, w.id)] ELSE mem
           /\ todo' = [todo EXCEPT ![p] = Tail(@) \o
                          IF worn THEN Persist(m, w.id) \o PersistProbes(m) ELSE <<>>]
    /\ UNCHANGED <<strays, broken, doctor, shared, faults, ops>>

(***************************************************************************)
(* Faults.                                                                 *)

Fault == faults < MaxFaults /\ faults' = faults + 1

\* A publish whose probe is of another entry or not validated is refused when
\* the entry in memory is published already; nothing is written.
PublishRefused(p, e, vector) ==
    /\ Publishable(p, e) /\ Fault
    /\ mem' = [mem EXCEPT ![p] = Published(@, e, vector)]
    /\ UNCHANGED <<files, todo, doctor, shared, ops>>

\* What a write cut short leaves of one file: for the probes any of the lines,
\* the last of which may be cut.
Tears(file, e, lines) ==
    /\ \E cut \in Cut : md' = IF file = "md" THEN With(md, e, cut) ELSE md
    /\ manifest' = IF file = "manifest" THEN [state |-> "torn", has |-> Empty] ELSE manifest
    /\ vectors' = IF file = "vectors" THEN [torn |-> TRUE, of |-> {}] ELSE vectors
    /\ IF file = "probes"
       THEN \E some \in SUBSET DOMAIN lines, bad \in BOOLEAN :
               probes' = [bad |-> bad, of |-> Restrict(lines, some)]
       ELSE probes' = probes

Crash(p) ==
    /\ mem[p].open /\ Fault
    /\ mem' = [mem EXCEPT ![p] = Closed] /\ todo' = [todo EXCEPT ![p] = <<>>]
    /\ \/ /\ todo[p] # <<>>
          /\ LET w == Head(todo[p])
             IN  Tears(w.file, IF w.file = "md" THEN w.id ELSE 0, ProbesOf(mem[p]).of)
       \/ UNCHANGED <<md, manifest, vectors, probes>>
    /\ UNCHANGED <<strays, broken, doctor, shared, ops>>

\* The files are meant to be read, edited, renamed and copied.
Readable(f) == f.status \notin {"torn", "garbled"}
Edit ==
    /\ Fault /\ doctor.pc \in {"off", "done"} /\ doctor' = Resting
    /\ \/ /\ \E e \in DOMAIN md, s \in {"candidate", "published", "odd"} :
                md[e].status \in Statuses \ {s} /\ md' = [md EXCEPT ![e].status = s]
          /\ UNCHANGED <<strays, manifest, probes>>
       \/ /\ \E e \in DOMAIN md, copied \in BOOLEAN :
                /\ Readable(md[e]) /\ strays' = With(strays, e, md[e])
                /\ md' = IF copied THEN md ELSE Restrict(md, DOMAIN md \ {e})
          /\ UNCHANGED <<manifest, probes>>
       \/ /\ \E e \in DOMAIN md : md' = Restrict(md, DOMAIN md \ {e})
          /\ manifest.state # "missing" /\ UNCHANGED <<strays, manifest, probes>>
       \/ /\ md # Empty /\ manifest' = [state |-> "missing", has |-> Empty]
          /\ UNCHANGED <<md, strays, probes>>
       \/ /\ \E e \in DOMAIN manifest.has : manifest' = [manifest EXCEPT !.has[e].harm = -1]
          /\ UNCHANGED <<md, strays, probes>>
       \/ /\ \E e \in Entries : probes' = [probes EXCEPT !.of = With(@, e, [valid |-> FALSE, retired |-> FALSE])]
          /\ UNCHANGED <<md, strays, manifest>>
    /\ UNCHANGED <<vectors, broken, mem, todo, shared, ops>>

(***************************************************************************)
(* The doctor, told to fix: entry files, manifest, vectors, probes.        *)

DoctorStarts ==
    /\ doctor.pc = "off" /\ ~Absent /\ ~Busy
    /\ doctor' = [pc |-> "entries", left |-> DOMAIN md, misnamed |-> DOMAIN strays, good |-> Empty]
    /\ UNCHANGED <<files, mem, todo, shared, faults, ops>>

\* Mutant: only the word is looked at.
ForbiddenWord(f) == f.status \notin Statuses

\* The status an entry file is repaired to.
Forbidden(f) == f.status \notin Statuses \/ (f.status = "published" /\ f.quar)
Repaired(f) == [f EXCEPT !.status = IF Forbidden(f) THEN "candidate" ELSE @]

\* Entry by entry: what cannot be read is moved aside, a status that may not
\* be is written back, the rest is good.  At a file cut within a character the
\* doctor stops with the error of the decoder.
ThisEntry == CHOOSE e \in doctor.left : TRUE
ExamineEntry ==
    /\ doctor.pc = "entries" /\ doctor.left # {}
    /\ LET e == ThisEntry
       IN  \/ /\ md[e].status = "torn"
              /\ md' = Restrict(md, DOMAIN md \ {e}) /\ broken' = broken \cup {e}
              /\ doctor' = [doctor EXCEPT !.left = @ \ {e}]
           \/ /\ md[e].status = "garbled"
              /\ doctor' = Resting /\ UNCHANGED <<md, broken>>
           \/ /\ Readable(md[e])
              /\ md' = With(md, e, Repaired(md[e])) /\ UNCHANGED broken
              /\ doctor' = [doctor EXCEPT !.left = @ \ {e}, !.good = With(@, e, Repaired(md[e]))]
    /\ UNCHANGED <<strays, manifest, probes, vectors, mem, todo, shared, faults, ops>>

\* A file under another name, which sorts anywhere among the rest, is repaired
\* as well, and gets its entry's name if no file has it by now; otherwise it
\* stays where it is and counts for nothing.
ExamineStray ==
    /\ doctor.pc = "entries"
    /\ \E e \in doctor.misnamed :
          \/ /\ Has(md, e)
             /\ strays' = With(strays, e, Repaired(strays[e])) /\ UNCHANGED md
             /\ doctor' = [doctor EXCEPT !.misnamed = @ \ {e}]
          \/ /\ ~Has(md, e)
             /\ strays' = Restrict(strays, DOMAIN strays \ {e}) /\ md' = With(md, e, Repaired(strays[e]))
             /\ doctor' = [doctor EXCEPT !.misnamed = @ \ {e}, !.good = With(@, e, Repaired(strays[e]))]
    /\ UNCHANGED <<manifest, probes, vectors, broken, mem, todo, shared, faults, ops>>

Clamped(n) == IF n < 0 THEN 0 ELSE n
MarkOf(kept, filed) == IF kept >= 0 THEN kept ELSE Clamped(filed)

\* Anything the manifest and the good entry files differ in.
NeedsRewrite ==
    \/ manifest.state # "fine"
    \/ DOMAIN manifest.has # DOMAIN doctor.good
    \/ \E e \in DOMAIN manifest.has \cap DOMAIN doctor.good :
          \/ manifest.has[e].status # doctor.good[e].status
          \/ manifest.has[e].help < 0 \/ manifest.has[e].harm < 0

\* The lifecycle from the entry files; the marks from the old manifest, where
\* it has them, else from the entry files, which do not keep the streak.
Rebuilt ==
    [state |-> "fine",
     has |-> [e \in DOMAIN doctor.good |->
                LET f == doctor.good[e]
                    old == IF Has(manifest.has, e) THEN manifest.has[e]
                           ELSE [help |-> -1, harm |-> -1, streak |-> 0]
                IN  [status |-> f.status, help |-> MarkOf(old.help, f.help),
                     harm |-> MarkOf(old.harm, f.harm), streak |-> Clamped(old.streak)]]]

ExamineManifest ==
    /\ doctor.pc = "entries" /\ doctor.left = {} /\ doctor.misnamed = {}
    /\ doctor' = [doctor EXCEPT !.pc = "vectors"]
    /\ manifest' = IF NeedsRewrite THEN Rebuilt ELSE manifest
    /\ UNCHANGED <<md, strays, probes, vectors, broken, mem, todo, shared, faults, ops>>

\* Vectors can be made again: an unreadable file is deleted.
ExamineVectors ==
    /\ doctor.pc = "vectors"
    /\ doctor' = [doctor EXCEPT !.pc = "probes"]
    /\ vectors' = [torn |-> FALSE, of |-> vectors.of \cap DOMAIN doctor.good]
    /\ UNCHANGED <<md, strays, manifest, probes, broken, mem, todo, shared, faults, ops>>

\* Lines that cannot be read or name no good entry are dropped, live probes
\* nobody validated are retired.
KeptProbes ==
    [e \in DOMAIN probes.of \cap DOMAIN doctor.good |->
        [probes.of[e] EXCEPT !.retired = @ \/ ~probes.of[e].valid]]

ExamineProbes ==
    /\ doctor.pc = "probes"
    /\ doctor' = [doctor EXCEPT !.pc = "done", !.good = Empty]
    /\ probes' = [bad |-> FALSE, of |-> KeptProbes]
    /\ UNCHANGED <<md, strays, manifest, vectors, broken, mem, todo, shared, faults, ops>>

\* The doctor dies between two steps or in the write of one of them.
DoctorCrashes ==
    /\ doctor.pc \notin {"off", "done"} /\ Fault
    /\ doctor' = Resting
    /\ \/ UNCHANGED <<md, manifest, vectors, probes>>
       \/ /\ doctor.pc = "entries" /\ doctor.left # {}
          /\ Readable(md[ThisEntry]) /\ Forbidden(md[ThisEntry])
          /\ Tears("md", ThisEntry, Empty)
       \/ /\ doctor.pc = "entries" /\ doctor.left = {} /\ doctor.misnamed = {}
          /\ NeedsRewrite /\ Tears("manifest", 0, Empty)
       \/ doctor.pc = "vectors" /\ ~(vectors.of \subseteq DOMAIN doctor.good) /\ Tears("vectors", 0, Empty)
       \/ doctor.pc = "probes" /\ Tears("probes", 0, KeptProbes)
    /\ UNCHANGED <<strays, broken, mem, todo, shared, ops>>

Works(p) ==
    \/ Open(p) \/ Close(p) \/ Claim(p) \/ BeginBatch(p) \/ EndBatch(p) \/ Write(p)
    \/ \E e \in Entries, quar \in BOOLEAN : AddCandidate(p, e, quar)
    \/ \E e \in Entries, asked, vector \in BOOLEAN : Publish(p, e, asked, vector)
    \/ \E e \in Entries, helped, faded \in BOOLEAN : Mark(p, e, helped, faded)
    \/ \E e \in Entries : Deprecate(p, e) \/ Restore(p, e) \/ SetVector(p, e) \/ ReleaseQuarantine(p, e)

Next ==
    \/ \E p \in Procs : Works(p) \/ Crash(p)
    \/ \E p \in Procs, e \in Entries, vector \in BOOLEAN : PublishRefused(p, e, vector)
    \/ Edit \/ DoctorStarts \/ ExamineEntry \/ ExamineStray \/ ExamineManifest \/ ExamineVectors \/ ExamineProbes
    \/ DoctorCrashes

Spec == Init /\ [][Next]_vars

(***************************************************************************)
(* Properties.                                                             *)

\* The doctor, when it gets to its end, leaves a store that loads, whatever
\* crashes (its own among them), a publish refused half way, processes with old
\* copies and an editor had made of the files: every entry file under its own
\* name is listed, none is published in quarantine, no live probe is
\* unvalidated or of an unknown entry, and no mark is negative.
DoctorHeals ==
    doctor.pc = "done" =>
        /\ Loads
        /\ DOMAIN manifest.has = DOMAIN md
        /\ \A e \in DOMAIN md : md[e].status = "published" => ~md[e].quar
        /\ \A e \in DOMAIN probes.of :
              Has(md, e) /\ (probes.of[e].valid \/ probes.of[e].retired)
        /\ \A e \in DOMAIN manifest.has : manifest.has[e].help >= 0 /\ manifest.has[e].harm >= 0

\* While nothing has failed, no publish was refused half way and no two
\* programs have met, what a process between two operations has in memory is
\* what the next one would load, but for a vector that a publish cleared in
\* memory alone; and nothing published is in quarantine.
WritesThrough ==
    faults = 0 /\ ~shared => \A p \in Procs :
        Idle(p) /\ ~mem[p].batch /\ ~Absent =>
            /\ Loads /\ [Loaded EXCEPT !.vec = mem[p].vec] = mem[p]
            /\ mem[p].vec \subseteq Loaded.vec
            /\ \A e \in Loaded.vec \ mem[p].vec : mem[p].has[e].status # "candidate"
            /\ \A e \in DOMAIN mem[p].has : mem[p].has[e].status = "published" => ~mem[p].has[e].quar
=============================================================================
