---------------------------- MODULE SuiteExtras -----------------------------
(***************************************************************************)
(* The questions added to one suite (optimization/suites.py).  Requests of *)
(* the console ask a generator for new ones (web/app.py extend_suite), the *)
(* command line harvests them from the journals of finished runs           *)
(* (optimization/harvest.py), and both append them to one file under a     *)
(* lock.  A tuning reads the built-in questions and the file, and gives    *)
(* the search and the held-out gate every other one of the file.           *)
(*                                                                         *)
(* A question is known by its content; a suite's directory is its own.     *)
(***************************************************************************)
EXTENDS Naturals, Sequences, SequencesExt

CONSTANTS
    Requests, Harvests,  \* the writers: of the console's process, and one process each
    Questions,           \* by content
    Search, HeldOut,     \* the built-in ones of the suite: disjoint subsets of Questions
    None,
    MaxBatch,            \* bound: items of an answer, and steps of the journals
    MaxFailures          \* bound: saves that fail and processes that die

VARIABLES
    file,       \* sequence of questions: extra_tasks.json
    lock,       \* the writer that holds extra_tasks.json.lock
    pc, batch,  \* of a writer: its step, and the questions it wants to add
    fresh,      \* of a writer: the file as it read it
    searched, gated,  \* the questions a search, and a gate, was ever given
    repeated,         \* history: built-in held-out questions a generator wrote again
    failures

vars == <<file, lock, pc, batch, fresh, searched, gated, repeated, failures>>

Writers == Requests \cup Harvests

Init ==
    /\ file = <<>> /\ lock = None /\ failures = 0
    /\ pc = [w \in Writers |-> "idle"]
    /\ batch = [w \in Writers |-> <<>>] /\ fresh = [w \in Writers |-> <<>>]
    /\ searched = {} /\ gated = {} /\ repeated = {}

Goes(w, from, to) == pc[w] = from /\ pc' = [pc EXCEPT ![w] = to]

Fail == failures < MaxFailures /\ failures' = failures + 1

-----------------------------------------------------------------------------
(* What a writer proposes.                                                 *)

\* What is left of an answer, or of the journals: an item of another type, with a
\* check that does not score, too long, or whose inputs or sum cannot be computed
\* is dropped, and so is a question that is known or came before.
Filtered(known) == {s \in SeqOf(Questions, MaxBatch) : IsInjective(s) /\ ToSet(s) \cap known = {}}

Proposes(w, from, items) ==
    /\ Goes(w, from, IF items = <<>> THEN "idle" ELSE "queued")
    /\ batch' = [batch EXCEPT ![w] = items]

\* A request waits for the generator, and knows the built-in questions of the
\* search only.
Ask(w) ==
    /\ Goes(w, "idle", "asking")
    /\ UNCHANGED <<file, lock, batch, fresh, searched, gated, repeated, failures>>

Answer(w) ==
    /\ \E items \in Filtered(Search) :
          Proposes(w, "asking", items) /\ repeated' = repeated \cup (ToSet(items) \cap HeldOut)
    /\ UNCHANGED <<file, lock, fresh, searched, gated, failures>>

\* A harvest reads the file, and scans the journals.
OpenJournals(w) ==
    /\ Goes(w, "idle", "scanning")
    /\ fresh' = [fresh EXCEPT ![w] = file]
    /\ UNCHANGED <<file, lock, batch, searched, gated, repeated, failures>>

Scan(w) ==
    /\ \E items \in Filtered(Search \cup HeldOut \cup ToSet(fresh[w])) : Proposes(w, "scanning", items)
    /\ UNCHANGED <<file, lock, fresh, searched, gated, repeated, failures>>

-----------------------------------------------------------------------------
(* append_extras.                                                          *)

Lock(w) ==
    /\ Goes(w, "queued", "locked") /\ lock = None /\ lock' = w
    /\ UNCHANGED <<file, batch, fresh, searched, gated, repeated, failures>>

\* Mutant: the file as it was when the harvest began.
BeforeTheLock(w) == IF w \in Harvests THEN fresh[w] ELSE file

UnderTheLock(w) == file

Read(w) ==
    /\ Goes(w, "locked", "read")
    /\ fresh' = [fresh EXCEPT ![w] = UnderTheLock(w)]
    /\ UNCHANGED <<file, lock, batch, searched, gated, repeated, failures>>

\* The batch without what the file has by now, in its order.
Survivors(w, new) ==
    /\ ToSet(new) = ToSet(batch[w]) \ ToSet(fresh[w]) /\ IsInjective(new)
    /\ \A k, l \in DOMAIN new : k < l =>
          \E i, j \in DOMAIN batch[w] : i < j /\ batch[w][i] = new[k] /\ batch[w][j] = new[l]

\* Atomic, by a temporary file; nothing is written when nothing is new.
Save(w) ==
    /\ Goes(w, "read", "saved")
    /\ \E new \in SeqOf(Questions, MaxBatch) : Survivors(w, new) /\ file' = fresh[w] \o new
    /\ UNCHANGED <<lock, batch, fresh, searched, gated, repeated, failures>>

SaveFails(w) ==
    /\ Goes(w, "read", "saved") /\ Fail
    /\ UNCHANGED <<file, lock, batch, fresh, searched, gated, repeated>>

Left(w) == /\ batch' = [batch EXCEPT ![w] = <<>>] /\ fresh' = [fresh EXCEPT ![w] = <<>>]

Unlock(w) ==
    /\ Goes(w, "saved", "idle") /\ lock' = None /\ Left(w)
    /\ UNCHANGED <<file, searched, gated, repeated, failures>>

Write(w) ==
    \/ w \in Requests /\ (Ask(w) \/ Answer(w))
    \/ w \in Harvests /\ (OpenJournals(w) \/ Scan(w))
    \/ Lock(w) \/ Read(w) \/ Save(w) \/ SaveFails(w) \/ Unlock(w)

\* The system drops the lock of a process that dies, and with the console all its
\* requests die.
Dies(ws) ==
    /\ Fail /\ \E w \in ws : pc[w] # "idle"
    /\ pc' = [w \in Writers |-> IF w \in ws THEN "idle" ELSE pc[w]]
    /\ batch' = [w \in Writers |-> IF w \in ws THEN <<>> ELSE batch[w]]
    /\ fresh' = [w \in Writers |-> IF w \in ws THEN <<>> ELSE fresh[w]]
    /\ lock' = IF lock \in ws THEN None ELSE lock
    /\ UNCHANGED <<file, searched, gated, repeated>>

-----------------------------------------------------------------------------
(* A tuning, of the console or the command line, with the suite as it is.  *)

\* Every other question of the file, the first to the search.
Alternate(side) == {file[i] : i \in {j \in DOMAIN file : j % 2 = side}}

Tune ==
    /\ searched' = searched \cup Search \cup Alternate(1)
    /\ gated' = gated \cup HeldOut \cup Alternate(0)
    /\ UNCHANGED <<file, lock, pc, batch, fresh, repeated, failures>>

Next ==
    \/ \E w \in Writers : Write(w)
    \/ Dies(Requests) \/ \E w \in Harvests : Dies({w})
    \/ Tune

Spec == Init /\ [][Next]_vars

-----------------------------------------------------------------------------
(* Properties.                                                             *)

\* The only questions that were ever given to a search and to a gate, today's or
\* an earlier one's, are built-in held-out ones that a generator wrote again: a
\* request looks for the built-in questions of the search alone.  No harvest, no
\* writer of the same time and no failure makes another question judge a harness
\* that was tuned on it.
SidesStayApart == searched \cap gated \subseteq HeldOut \cap repeated

\* No question is in the file twice, and none of the search's is in it.
FileIsSound == IsInjective(file) /\ ToSet(file) \cap Search = {}

\* A writer only adds to the end of the file: nobody's questions are lost, and
\* none changes sides.
FileOnlyGrows == [][IsPrefix(file, file')]_file
=============================================================================
