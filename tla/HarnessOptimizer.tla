-------------------------- MODULE HarnessOptimizer --------------------------
(***************************************************************************)
(* HarnessOptimizer (optimization/loop.py) over a CandidateLedger          *)
(* (optimization/ledger.py): the searches a console starts for one suite,  *)
(* the promotion each may park, the human decision on it (web/app.py) and  *)
(* the configuration a boot of the console applies (cli.py).               *)
(*                                                                         *)
(* A search runs from one await to the next: the proposer's call, each     *)
(* evaluation, the held-out round.  A configuration is its knobs and the   *)
(* bytes of its code artifact; what an evaluation measures is a function   *)
(* of the configuration.                                                   *)
(***************************************************************************)
EXTENDS Integers, Sequences, FiniteSets

CONSTANTS
    Knobs, Codes, NoCode,
    Clean,          \* code artifacts that validate_code lets pass
    Default,        \* HarnessParams(): the bare stack
    NoParams,       \* no configuration
    Hat, Tokens,    \* per configuration: search tasks passed k of k, tokens
    Types,          \* the held-out tasks of each task type
    Passed,         \* per configuration: held-out tasks passed k of k
    HeldOutTokens,
    Rounds, Window,
    MaxStarts, MaxCrashes   \* bounds: searches started, deaths of the console

Configs == [knobs : Knobs, code : Codes \cup {NoCode}]

ASSUME HarnessOptimizerAssumption ==
    /\ NoCode \notin Codes /\ Clean \subseteq Codes
    /\ Default \in Configs /\ Default.code = NoCode /\ NoParams \notin Configs
    /\ {Hat, Tokens, HeldOutTokens} \subseteq [Configs -> Nat]
    /\ IsFiniteSet(Types) /\ \A t \in Types : IsFiniteSet(t)
    /\ Passed \in [Configs -> SUBSET UNION Types]
    /\ {Rounds, Window, MaxStarts, MaxCrashes} \subseteq Nat

VARIABLES
    disk,       \* candidates/<cid>/candidate.json, in the order of their ids
    pending,    \* the id in pending_promotion.json, 0 when there is none
    promoted,   \* the id in promoted.json, 0 when there is none
    active,     \* the params in active.json, or NoParams
    live,       \* the configuration around the console's small tier
    search,     \* what the running search holds in memory
    starts, crashes

vars == <<disk, pending, promoted, active, live, search, starts, crashes>>
files == <<pending, promoted, active>>

\* No search: the suite is not in _tuning_running.
Idle == [pc |-> "idle", ledger |-> <<>>, seed |-> 0, params |-> NoParams,
         round |-> 0, scores |-> <<>>]

Init ==
    /\ disk = <<>> /\ pending = 0 /\ promoted = 0 /\ active = NoParams
    /\ live = Default /\ search = Idle
    /\ starts = 0 /\ crashes = 0

-----------------------------------------------------------------------------
(* The ledger: L is the list of candidates a CandidateLedger has loaded.   *)

Evaluated(L) == {i \in DOMAIN L : L[i].status = "evaluated"}

Dominates(a, b) ==
    /\ Hat[a] >= Hat[b] /\ Tokens[a] <= Tokens[b]
    /\ Hat[a] > Hat[b] \/ Tokens[a] < Tokens[b]

Frontier(L) ==
    {i \in Evaluated(L) :
        \A j \in Evaluated(L) : ~Dominates(L[j].params, L[i].params)}

\* Most passes on the frontier; what else best() looks at does not show.
BestHat(L) == LET hats == {Hat[L[i].params] : i \in Frontier(L)} IN
    CHOOSE h \in hats : \A g \in hats : g <= h

\* Duplicate detection, over every recorded configuration.
Tried(L, params) == \E i \in DOMAIN L : L[i].params = params

\* record(): the file of the next id, and the list in memory.
Candidate(status, params) == [status |-> status, params |-> params]

Record(s, c) ==
    disk' = IF Len(s.ledger) < Len(disk)
            THEN [disk EXCEPT ![Len(s.ledger) + 1] = c]
            ELSE Append(disk, c)

Recorded(s, c) == [s EXCEPT !.ledger = Append(@, c), !.params = NoParams]

-----------------------------------------------------------------------------
(* The search.                                                             *)

\* The rounds are over: the frontier besides the seed faces the held-out
\* suite, or nothing does.
Concluded(s) ==
    IF Frontier(s.ledger) \subseteq {s.seed}
    THEN Idle
    ELSE [s EXCEPT !.pc = "holdout"]

Continued(s) ==
    IF s.round = Rounds THEN Concluded(s) ELSE [s EXCEPT !.pc = "propose"]

\* The seed is known: its score opens the plateau detector.
Seeded(s) ==
    Continued([s EXCEPT !.seed = CHOOSE i \in Evaluated(s.ledger) :
                                     \A j \in Evaluated(s.ledger) : i <= j,
                        !.scores = <<BestHat(s.ledger)>>])

\* No score of the window beats the one before it.  An improvement of one
\* task is more than min_delta.
Plateaued(scores) ==
    LET n == Len(scores) IN
    /\ n > Window
    /\ \A i \in n - Window + 1 .. n : scores[i] <= scores[n - Window]

Loaded == disk

\* start_tuning, refused while a search of the suite runs.
Start ==
    /\ search.pc = "idle" /\ starts < MaxStarts
    /\ starts' = starts + 1
    /\ LET s == [Idle EXCEPT !.ledger = Loaded] IN
       search' = IF Evaluated(s.ledger) # {}
                 THEN Seeded(s)
                 ELSE [s EXCEPT !.pc = "seed",
                        !.params = IF promoted = 0 THEN Default ELSE disk[promoted].params]
    /\ UNCHANGED <<disk, files, live, crashes>>

SeedScored ==
    /\ search.pc = "seed"
    /\ LET c == Candidate("evaluated", search.params) IN
       /\ Record(search, c)
       /\ search' = Seeded(Recorded(search, c))
    /\ UNCHANGED <<files, live, starts, crashes>>

\* The budget does not cover the seed.
SeedUnaffordable ==
    /\ search.pc = "seed"
    /\ search' = Idle
    /\ UNCHANGED <<disk, files, live, starts, crashes>>

\* No proposal: the proposer gives up, or its own call exhausts the budget.
NoProposal ==
    /\ search.pc = "propose"
    /\ search' = Concluded(search)
    /\ UNCHANGED <<disk, files, live, starts, crashes>>

\* A proposal is recorded as rejected: c says with which configuration.
Reject(s, c) ==
    /\ Record(s, c)
    /\ search' = Continued(Recorded(s, c))

\* A parent nobody can build on, or a delta that makes no valid parameters.
Malformed ==
    /\ search.pc = "propose"
    /\ Reject([search EXCEPT !.round = @ + 1], Candidate("rejected", NoParams))
    /\ UNCHANGED <<files, live, starts, crashes>>

\* A delta over a recorded configuration: a new artifact faces the code
\* gate, then the configuration faces duplicate detection, then evaluation.
Propose(parent, params) ==
    /\ search.pc = "propose"
    /\ search.ledger[parent].params # NoParams
    /\ LET s == [search EXCEPT !.round = @ + 1]
           gated == params.code \notin {NoCode, search.ledger[parent].params.code}
       IN
       \/ /\ gated /\ params.code \notin Clean
          /\ Reject(s, Candidate("rejected", NoParams))
       \/ /\ gated => params.code \in Clean
          /\ Tried(s.ledger, params)
          /\ Reject(s, Candidate("rejected", params))
       \/ /\ gated => params.code \in Clean
          /\ ~Tried(s.ledger, params)
          /\ search' = [s EXCEPT !.pc = "evaluate", !.params = params]
          /\ UNCHANGED disk
    /\ UNCHANGED <<files, live, starts, crashes>>

Scored ==
    /\ search.pc = "evaluate"
    /\ LET c == Candidate("evaluated", search.params)
           s == Recorded(search, c)
           scores == Append(s.scores, BestHat(s.ledger))
       IN
       /\ Record(search, c)
       /\ search' = IF Plateaued(scores)
                    THEN Concluded([s EXCEPT !.scores = scores])
                    ELSE Continued([s EXCEPT !.scores = scores])
    /\ UNCHANGED <<files, live, starts, crashes>>

\* The candidate's build or run raises: rejected, and the search goes on.
EvaluationFails ==
    /\ search.pc = "evaluate"
    /\ Reject(search, Candidate("rejected", search.params))
    /\ UNCHANGED <<files, live, starts, crashes>>

\* The budget ends mid-evaluation: rejected, and the rounds end.
BudgetEnds ==
    /\ search.pc = "evaluate"
    /\ LET c == Candidate("rejected", search.params) IN
       /\ Record(search, c)
       /\ search' = Concluded(Recorded(search, c))
    /\ UNCHANGED <<files, live, starts, crashes>>

-----------------------------------------------------------------------------
(* The held-out gate.                                                      *)

HeldOutHat(a) == Cardinality(Passed[a])

\* Mutant: only the totals are compared.
GoOverall(incumbent, a) == HeldOutHat(a) >= HeldOutHat(incumbent)

\* compare_suites.  The sign test can only refuse what the totals refuse.
Go(incumbent, a) ==
    /\ \A t \in Types :
         20 * (Cardinality(Passed[incumbent] \cap t) - Cardinality(Passed[a] \cap t))
            <= Cardinality(t)
    /\ HeldOutHat(a) >= HeldOutHat(incumbent)

Improves(seed, a) ==
    \/ HeldOutHat(a) > HeldOutHat(seed)
    \/ HeldOutHat(a) = HeldOutHat(seed) /\ HeldOutTokens[a] < HeldOutTokens[seed]

Promotable(s) ==
    LET seed == s.ledger[s.seed].params IN
    {i \in Frontier(s.ledger) \ {s.seed} :
        Go(seed, s.ledger[i].params) /\ Improves(seed, s.ledger[i].params)}

\* Most held-out passes, then fewest tokens, then the first.
Winner(s) ==
    CHOOSE i \in Promotable(s) : \A j \in Promotable(s) :
        LET a == s.ledger[i].params  b == s.ledger[j].params IN
        \/ HeldOutHat(a) > HeldOutHat(b)
        \/ HeldOutHat(a) = HeldOutHat(b) /\ HeldOutTokens[a] < HeldOutTokens[b]
        \/ HeldOutHat(a) = HeldOutHat(b) /\ HeldOutTokens[a] = HeldOutTokens[b] /\ i <= j

\* Every contender is judged; the winner is parked for a human.
Judged ==
    /\ search.pc = "holdout"
    /\ pending' = IF Promotable(search) = {} THEN pending ELSE Winner(search)
    /\ search' = Idle
    /\ UNCHANGED <<disk, promoted, active, live, starts, crashes>>

\* Mutant: the suite stays in _tuning_running.
EscapesRunning ==
    /\ search.pc \notin {"idle", "dead"}
    /\ search' = [search EXCEPT !.pc = "dead"]
    /\ UNCHANGED <<disk, files, live, starts, crashes>>

\* The budget ends in the held-out round, or any other exception leaves the
\* loop anywhere: the console's task reports it and ends.
Escapes ==
    /\ search.pc # "idle"
    /\ search' = Idle
    /\ UNCHANGED <<disk, files, live, starts, crashes>>

-----------------------------------------------------------------------------
(* The human gate and the boot.                                            *)

\* Mutant: an active.json that exists is left alone.
ApprovalWritesOnce(n) ==
    /\ n > 0 => pending # 0
    /\ pending' = IF n > 0 THEN 0 ELSE pending
    /\ promoted' = IF n > 1 THEN pending ELSE promoted
    /\ active' = IF n > 2 /\ active = NoParams THEN disk[pending].params ELSE active

\* The first n writes of an approval: the pending file is unlinked, then
\* promoted.json and active.json are written.
ApprovalWrites(n) ==
    /\ n > 0 => pending # 0
    /\ pending' = IF n > 0 THEN 0 ELSE pending
    /\ promoted' = IF n > 1 THEN pending ELSE promoted
    /\ active' = IF n > 2 THEN disk[pending].params ELSE active

\* resolve_tuning_approval: approved.
Approve ==
    /\ pending # 0 /\ ApprovalWrites(3)
    /\ live' = disk[pending].params
    /\ UNCHANGED <<disk, search, starts, crashes>>

\* resolve_tuning_approval: rejected.
Refuse ==
    /\ pending # 0
    /\ pending' = 0
    /\ UNCHANGED <<disk, promoted, active, live, search, starts, crashes>>

\* What _apply_promoted wraps the small tier with.
Booted(active_, promoted_) ==
    IF active_ # NoParams THEN active_
    ELSE IF promoted_ # 0 THEN disk[promoted_].params
    ELSE Default

\* The console dies, possibly between two writes of an approval, and boots.
Crash ==
    /\ crashes < MaxCrashes
    /\ crashes' = crashes + 1
    /\ \E n \in 0 .. 3 : ApprovalWrites(n)
    /\ live' = Booted(active', promoted')
    /\ search' = Idle
    /\ UNCHANGED <<disk, starts>>

-----------------------------------------------------------------------------
Step ==
    \/ SeedScored \/ SeedUnaffordable
    \/ NoProposal \/ Malformed
    \/ \E parent \in DOMAIN search.ledger, params \in Configs : Propose(parent, params)
    \/ Scored \/ EvaluationFails \/ BudgetEnds
    \/ Judged \/ Escapes

Next == Start \/ Step \/ Approve \/ Refuse \/ Crash

Spec == Init /\ [][Next]_vars

\* A search is not abandoned: every await has a timeout and the loop runs.
FairSpec == Spec /\ WF_vars(Step)

-----------------------------------------------------------------------------
(* Properties.                                                             *)

\* The ledger keeps every candidate ever proposed as it was recorded, over
\* resumed searches, rejections and crashes (ledger.py:53).
AppendOnly == [][\A i \in DOMAIN disk : i \in DOMAIN disk' /\ disk'[i] = disk[i]]_disk

\* Whatever waits for approval or was promoted was scored, and on held-out
\* tasks keeps every task type the seed passes and strictly beats the seed:
\* more tasks, or as many for fewer tokens (loop.py:18-23).
PromotedIsEarned ==
    \A i \in {pending, promoted} \ {0} :
        /\ i \in Evaluated(disk)
        /\ \E seed \in Evaluated(disk) :
              LET won == Passed[disk[i].params]  before == Passed[disk[seed].params] IN
              /\ \A j \in Evaluated(disk) : seed <= j
              /\ \A t \in Types :
                    20 * Cardinality(before \cap t) <= 20 * Cardinality(won \cap t) + Cardinality(t)
              /\ \/ Cardinality(won) > Cardinality(before)
                 \/ /\ Cardinality(won) = Cardinality(before)
                    /\ HeldOutTokens[disk[i].params] < HeldOutTokens[disk[seed].params]

\* What is live is what the next boot applies, so a restart changes nothing
\* the human did not decide (app.py:737, cli.py:141).
RestartKeepsLive == live = Booted(active, promoted)

\* Every search ends, however its proposer, its candidates and its budget
\* behave, and the suite can be searched again (app.py:614).
EverySearchEnds == search.pc # "idle" ~> search.pc = "idle"
=============================================================================
