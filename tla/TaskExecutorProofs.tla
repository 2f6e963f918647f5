------------------------- MODULE TaskExecutorProofs -------------------------
(***************************************************************************)
(* Proofs about TaskExecutor, for any tasks, pools, charges and bounds:    *)
(* what an outcome reports, what the capability matrix learns and when an  *)
(* attempt may stay on a tier; and about LocalWorker: what it sends.       *)
(***************************************************************************)
EXTENDS TaskExecutor, LocalWorker, FiniteSetTheorems, TLAPS

Phases == {"idle", "hinting", "running", "executing", "judging", "done"}
InFlight == {"hinting", "running", "executing", "judging"}

Ranks == 0..3

Record ==
    [pc : Phases, n : Nat, tier : Ranks, worker : Workers \cup {NoWorker},
     explored : BOOLEAN, cause : AllCauses, cost : Nat, hinted : BOOLEAN,
     excluded : SUBSET Tiers, retried : SUBSET Tiers, forced : Ranks,
     attempts : Seq(Attempt), verdict : {"PASS", "FAIL", "UNVERIFIED"},
     escalations : Nat, aborted : BOOLEAN, denied : BOOLEAN, observed : BOOLEAN]

\* The outcome a finished call reports.
Earned(r) ==
    r.verdict = IF r.attempts = <<>> THEN "FAIL"
                ELSE Verdict(r.attempts[Len(r.attempts)].cause)

HasUp(i) == \E up \in Tiers : up > i /\ Pools[up] # <<>>

\* Why a tier that failed and has one above may be tried again.
Spent(r, i) ==
    LET a == r.attempts[i] IN
    IF a.cause = "timeout"
    THEN /\ a.tier \in r.retried
         /\ (\E k \in 1 .. i - 1 : r.attempts[k].tier = a.tier /\ r.attempts[k].cause = "timeout")
              => a.tier \in r.excluded
    ELSE a.explored \/ a.tier \in r.excluded

Remembered(r) == \A i \in DOMAIN r.attempts : HasUp(r.attempts[i].tier) => Spent(r, i)

\* A pair of attempts on one tier.
Idle(s, i, j) ==
    /\ i < j /\ s[i].tier = s[j].tier /\ HasUp(s[i].tier)
    => IF s[i].cause = "timeout"
       THEN \A k \in 1 .. i - 1 : s[k].tier = s[i].tier => s[k].cause # "timeout"
       ELSE s[i].explored

Ordered(s) == \A i, j \in DOMAIN s : Idle(s, i, j)

\* What holds of the record of one execute() call between two awaits.
CallInv(t, r) ==
    /\ r \in Record
    /\ r.pc = "idle" => r.n = 0 /\ r.attempts = <<>>
    /\ r.pc \in InFlight =>
          /\ r.n = Len(r.attempts) + 1 /\ r.n <= MaxAttempts
          /\ r.tier \in Tiers \ r.excluded /\ r.worker \in Workers
    /\ r.pc # "done" => r.verdict = "UNVERIFIED"
    /\ r.pc = "done" /\ MaxAttempts # 0 => Earned(r)
    /\ Pin[t] = NoWorker => Ordered(r.attempts) /\ (r.pc # "done" => Remembered(r))

-----------------------------------------------------------------------------
\* The router picks a tier it was not told to leave out, and a worker.

LEMMA TierBounds ==
    ASSUME NEW S, S \subseteq Tiers, S # {}
    PROVE  Least(S) \in S /\ Greatest(S) \in S
<1>0. \A x \in S : x = 1 \/ x = 2 \/ x = 3
  BY DEF Tiers
<1>1. \E x \in S : \A y \in S : x <= y
  <2>1. CASE 1 \in S
    BY <1>0, <2>1
  <2>2. CASE 1 \notin S /\ 2 \in S
    BY <1>0, <2>2
  <2>3. CASE 1 \notin S /\ 2 \notin S
    <3>1. 3 \in S /\ \A y \in S : 3 <= y
      BY <1>0, <2>3
    <3> QED BY <3>1
  <2> QED BY <2>1, <2>2, <2>3
<1>2. \E x \in S : \A y \in S : y <= x
  <2>1. CASE 3 \in S
    BY <1>0, <2>1
  <2>2. CASE 3 \notin S /\ 2 \in S
    BY <1>0, <2>2
  <2>3. CASE 3 \notin S /\ 2 \notin S
    <3>1. 1 \in S /\ \A y \in S : y <= 1
      BY <1>0, <2>3
    <3> QED BY <3>1
  <2> QED BY <2>1, <2>2, <2>3
<1> QED BY <1>1, <1>2 DEF Least, Greatest

LEMMA NextTierUp ==
    ASSUME NEW i \in Tiers
    PROVE  NextTier(i) # 0 <=> HasUp(i)
<1> DEFINE up == {j \in Tiers : j > i /\ Pools[j] # <<>>}
<1>1. up # {} => Least(up) \in up
  BY TierBounds
<1>2. up # {} <=> HasUp(i)
  BY DEF HasUp
<1>3. \A j \in up : j # 0
  BY DEF Tiers
<1>4. NextTier(i) = IF up = {} THEN 0 ELSE Least(up)
  BY DEF NextTier
<1> HIDE DEF up
<1> QED BY <1>1, <1>2, <1>3, <1>4

LEMMA RouteIsAllowed ==
    ASSUME NEW t, NEW exclude, NEW m, NEW b, NEW d \in Decisions(t, exclude, m, b)
    PROVE  d \in Decision /\ d.tier \in Tiers \ exclude
<1> DEFINE all == Candidates(t, exclude)
           reach == InReach(t, exclude, b)
           clearing == {i \in reach : \E k \in DOMAIN EligibleMembers(t, i) :
                                        Clears(m, EligibleMembers(t, i)[k], i)}
<1>1. all \subseteq Tiers \ exclude
  BY DEF Candidates
<1>2. all # {}
  BY DEF Decisions
<1>3. reach \subseteq all /\ reach # {}
  <2> DEFINE affordable == {i \in all : b + EstCost[i] <= CostCap \/ EstCost[i] = 0}
  <2>1. reach = IF affordable # {} THEN affordable ELSE {Least(all)}
    BY DEF InReach
  <2>2. Least(all) \in all
    BY <1>1, <1>2, TierBounds
  <2>3. affordable \subseteq all
    OBVIOUS
  <2> HIDE DEF all, reach, affordable
  <2> QED BY <2>1, <2>2, <2>3
<1>4. CASE Pin[t] # NoWorker
  <2>1. d \in Decision /\ all = {d.tier}
    BY <1>2, <1>4 DEF Decisions
  <2> HIDE DEF all
  <2> QED BY <1>1, <2>1
<1>5. CASE Pin[t] = NoWorker
  <2> DEFINE i == IF clearing # {} THEN Least(clearing) ELSE Greatest(reach)
  <2>1. d \in Pick(t, i, m)
    BY <1>2, <1>5 DEF Decisions
  <2>2. d \in Decision /\ d.tier = i
    BY <2>1 DEF Pick
  <2>3. clearing \subseteq reach
    OBVIOUS
  <2> HIDE DEF all, reach, clearing
  <2>4. i \in reach
    BY <1>1, <1>3, <2>3, TierBounds
  <2> QED BY <1>1, <1>3, <2>2, <2>4
<1> QED BY <1>4, <1>5

-----------------------------------------------------------------------------
\* The synchronous pieces of a call, on its record.

\* The record stays one when fields are updated.
LEMMA Failing ==
    ASSUME NEW r \in Record
    PROVE  /\ [r EXCEPT !.forced = 0, !.aborted = TRUE, !.verdict = "FAIL"] \in Record
           /\ [r EXCEPT !.forced = 0, !.denied = TRUE, !.verdict = "FAIL"] \in Record
<1>1. ASSUME NEW q \in Record PROVE [q EXCEPT !.verdict = "FAIL"] \in Record
  BY <1>1 DEF Record
<1>2. ASSUME NEW q \in Record, NEW i \in Ranks PROVE [q EXCEPT !.forced = i] \in Record
  BY <1>2 DEF Record
<1>3. ASSUME NEW q \in Record PROVE [q EXCEPT !.aborted = TRUE] \in Record
  BY <1>3 DEF Record
<1>4. ASSUME NEW q \in Record PROVE [q EXCEPT !.denied = TRUE] \in Record
  BY <1>4 DEF Record
<1>5. 0 \in Ranks
  BY DEF Ranks
<1> QED BY <1>1, <1>2, <1>3, <1>4, <1>5

LEMMA Routed ==
    ASSUME NEW r \in Record, NEW p \in Phases, NEW n \in Nat, NEW d \in Decision
    PROVE  [r EXCEPT !.pc = p, !.n = n, !.forced = 0, !.tier = d.tier,
                     !.worker = d.worker, !.explored = d.explored] \in Record
<1>1. d.tier \in Ranks /\ d.worker \in Workers \cup {NoWorker} /\ d.explored \in BOOLEAN
  BY DEF Decision, Tiers, Ranks
<1>2. ASSUME NEW q \in Record, NEW i \in Ranks, NEW w \in Workers \cup {NoWorker}
      PROVE  [q EXCEPT !.tier = i, !.worker = w] \in Record
  BY <1>2 DEF Record
<1>3. ASSUME NEW q \in Record, NEW e \in BOOLEAN PROVE [q EXCEPT !.explored = e] \in Record
  BY <1>3 DEF Record
<1>4. [r EXCEPT !.pc = p, !.n = n] \in Record
  BY DEF Record
<1>5. ASSUME NEW q \in Record, NEW i \in Ranks PROVE [q EXCEPT !.forced = i] \in Record
  BY <1>5 DEF Record
<1>6. 0 \in Ranks
  BY DEF Ranks
<1> QED BY <1>1, <1>2, <1>3, <1>4, <1>5, <1>6

LEMMA ClosedFacts ==
    ASSUME NEW t \in Tasks, NEW r \in Record,
           r.verdict = "PASS" => r.attempts # <<>> /\ r.attempts[Len(r.attempts)].cause = "pass",
           r.attempts = <<>> /\ MaxAttempts # 0 => r.verdict = "FAIL",
           Pin[t] = NoWorker => Ordered(r.attempts)
    PROVE  CallInv(t, Closed(r)) /\ Closed(r).attempts = r.attempts
<1> DEFINE q == Closed(r)
           last == r.attempts[Len(r.attempts)]
<1>1. r.attempts # <<>> => last \in Attempt
  BY DEF Record
<1>2. r.attempts # <<>> => Verdict(last.cause) \in {"PASS", "FAIL", "UNVERIFIED"}
  BY DEF Verdict
<1>3. q \in Record
  BY <1>2 DEF Closed, Record, Phases
<1>4. /\ q.pc = "done" /\ q.attempts = r.attempts
      /\ q.verdict = IF r.verdict # "PASS" /\ r.attempts # <<>> THEN Verdict(last.cause)
                     ELSE r.verdict
  BY DEF Closed, Record
<1> HIDE DEF q, last
<1>5. MaxAttempts # 0 => Earned(q)
  BY <1>4 DEF Earned, Verdict, last
<1> QED BY <1>3, <1>4, <1>5 DEF CallInv, InFlight, q

LEMMA FailFacts ==
    ASSUME NEW t \in Tasks, NEW r \in Record, NEW q \in Record,
           q.attempts = r.attempts, q.verdict = "FAIL",
           Pin[t] = NoWorker => Ordered(r.attempts)
    PROVE  CallInv(t, Closed(q)) /\ Closed(q).attempts = r.attempts
BY ClosedFacts

\* The top of the loop, with what was learned of the earlier attempts.
Ready(t, r) ==
    /\ r \in Record
    /\ r.pc # "done" /\ r.n = Len(r.attempts) /\ r.verdict = "UNVERIFIED"
    /\ Pin[t] = NoWorker => Ordered(r.attempts) /\ (r.n < MaxAttempts => Remembered(r))

LEMMA ProceedFacts ==
    ASSUME NEW t \in Tasks, NEW r, NEW m, NEW b, Ready(t, r), Proceed(t, r, m, b)
    PROVE  \E q : task' = [task EXCEPT ![t] = q] /\ CallInv(t, q) /\ q.attempts = r.attempts
<1>r. r \in Record
  BY DEF Ready
<1>0. /\ MaxAttempts \in Nat /\ r.n \in Nat /\ r.n = Len(r.attempts)
      /\ r.attempts \in Seq(Attempt) /\ r.verdict = "UNVERIFIED" /\ r.pc # "done"
      /\ Pin[t] = NoWorker => Ordered(r.attempts) /\ (r.n < MaxAttempts => Remembered(r))
  BY <1>r, TaskExecutorAssumption DEF Record, Ready
<1>1. CASE ~AttemptsLeft(r) /\ Finish(t, r)
  <2>1. r.attempts = <<>> => MaxAttempts = 0
    BY <1>0, <1>1 DEF AttemptsLeft
  <2> QED BY <1>r, <1>0, <1>1, <2>1, ClosedFacts DEF Finish
<1>2. CASE Finish(t, [r EXCEPT !.forced = 0, !.aborted = TRUE, !.verdict = "FAIL"])
  <2> DEFINE q == [r EXCEPT !.forced = 0, !.aborted = TRUE, !.verdict = "FAIL"]
  <2>1. q \in Record /\ q.attempts = r.attempts /\ q.verdict = "FAIL"
    <3>1. q \in Record
      BY <1>r, Failing
    <3>2. q.attempts = r.attempts /\ q.verdict = "FAIL"
      BY <1>r DEF Record
    <3> QED BY <3>1, <3>2
  <2> HIDE DEF q
  <2>2. Finish(t, q)
    BY <1>2 DEF q
  <2> QED BY <1>r, <1>0, <2>1, <2>2, FailFacts DEF Finish
<1>3. CASE Finish(t, [r EXCEPT !.forced = 0, !.denied = TRUE, !.verdict = "FAIL"])
  <2> DEFINE q == [r EXCEPT !.forced = 0, !.denied = TRUE, !.verdict = "FAIL"]
  <2>1. q \in Record /\ q.attempts = r.attempts /\ q.verdict = "FAIL"
    <3>1. q \in Record
      BY <1>r, Failing
    <3>2. q.attempts = r.attempts /\ q.verdict = "FAIL"
      BY <1>r DEF Record
    <3> QED BY <3>1, <3>2
  <2> HIDE DEF q
  <2>2. Finish(t, q)
    BY <1>3 DEF q
  <2> QED BY <1>r, <1>0, <2>1, <2>2, FailFacts DEF Finish
<1>4. ASSUME AttemptsLeft(r), NEW d \in Decisions(t, Exclusions(r), m, b),
             task' = [task EXCEPT ![t] =
                [r EXCEPT !.pc = IF r.hinted THEN "running" ELSE "hinting",
                          !.n = r.n + 1, !.forced = 0, !.tier = d.tier,
                          !.worker = d.worker, !.explored = d.explored]]
      PROVE  \E q : task' = [task EXCEPT ![t] = q] /\ CallInv(t, q) /\ q.attempts = r.attempts
  <2> DEFINE q == [r EXCEPT !.pc = IF r.hinted THEN "running" ELSE "hinting",
                            !.n = r.n + 1, !.forced = 0, !.tier = d.tier,
                            !.worker = d.worker, !.explored = d.explored]
  <2>1. d \in Decision /\ d.tier \in Tiers \ Exclusions(r)
    BY <1>4, RouteIsAllowed
  <2>2. r.excluded \subseteq Exclusions(r)
    BY DEF Exclusions
  <2>d. d.tier \in Ranks /\ d.worker \in Workers /\ d.explored \in BOOLEAN
    BY <2>1 DEF Decision, Tiers, Ranks
  <2>n. r.n + 1 \in Nat /\ (IF r.hinted THEN "running" ELSE "hinting") \in Phases
    BY <1>0 DEF Phases
  <2>3. q \in Record
    BY <1>r, <2>1, <2>n, Routed
  <2>4. /\ q.pc \in {"hinting", "running"} /\ q.n = r.n + 1 /\ q.tier = d.tier
        /\ q.worker = d.worker /\ q.attempts = r.attempts /\ q.excluded = r.excluded
        /\ q.retried = r.retried /\ q.verdict = r.verdict
    BY <1>r DEF Record
  <2> HIDE DEF q
  <2>5. Remembered(r) => Remembered(q)
    BY <2>4 DEF Remembered, Spent
  <2>6. CallInv(t, q)
    BY <1>0, <1>4, <2>1, <2>2, <2>3, <2>4, <2>5 DEF CallInv, AttemptsLeft, Decision, InFlight
  <2> QED BY <1>4, <2>4, <2>6 DEF q
<1> QED BY <1>1, <1>2, <1>3, <1>4 DEF Proceed

-----------------------------------------------------------------------------
\* An attempt is on its way.
Running(t, r) ==
    /\ r \in Record
    /\ r.pc # "done" /\ r.verdict = "UNVERIFIED"
    /\ r.n = Len(r.attempts) + 1 /\ r.n <= MaxAttempts
    /\ r.tier \in Tiers \ r.excluded /\ r.worker \in Workers
    /\ Pin[t] = NoWorker => Ordered(r.attempts) /\ Remembered(r)

\* The attempt it becomes.
Made(r, cause, cut) ==
    [tier |-> r.tier, worker |-> r.worker, explored |-> r.explored,
     cause |-> cause, cut |-> cut, cost |-> r.cost]

LEMMA RunningFacts ==
    ASSUME NEW t \in Tasks, NEW r, CallInv(t, r), r.pc \in InFlight
    PROVE  Running(t, r)
BY DEF CallInv, Running, InFlight

LEMMA AppendedFacts ==
    ASSUME NEW t \in Tasks, NEW r, Running(t, r), NEW cause \in AllCauses, NEW cut \in BOOLEAN
    PROVE  LET q == Appended(r, cause, cut)
               a == Made(r, cause, cut)
           IN  /\ q \in Record /\ a \in Attempt
               /\ q.attempts = Append(r.attempts, a)
               /\ \A f \in {"pc", "n", "tier", "worker", "explored", "excluded", "retried", "verdict"} :
                      q[f] = r[f]
               /\ Pin[t] = NoWorker => Ordered(q.attempts)
<1> DEFINE q == Appended(r, cause, cut)
           a == Made(r, cause, cut)
<1>r. r \in Record
  BY DEF Running
<1>0. /\ r.attempts \in Seq(Attempt) /\ r.cost \in Nat /\ r.explored \in BOOLEAN
      /\ r.tier \in Tiers \ r.excluded /\ r.worker \in Workers
      /\ Pin[t] = NoWorker => Ordered(r.attempts) /\ Remembered(r)
  BY <1>r DEF Running, Record
<1>1. a \in Attempt /\ a.tier = r.tier
  BY <1>0 DEF Attempt, Made
<1>2. Append(r.attempts, a) \in Seq(Attempt)
  BY <1>0, <1>1
<1>3. q = [r EXCEPT !.attempts = Append(r.attempts, a)]
  BY DEF Appended, Made
<1> HIDE DEF a, q
<1>4. q \in Record
  BY <1>r, <1>2, <1>3 DEF Record
<1>5. /\ q.attempts = Append(r.attempts, a)
      /\ \A f \in {"pc", "n", "tier", "worker", "explored", "excluded", "retried", "verdict"} :
             q[f] = r[f]
  BY <1>r, <1>3 DEF Record
<1>6. ASSUME Pin[t] = NoWorker PROVE Ordered(q.attempts)
  <2> DEFINE s == r.attempts
             z == q.attempts
  <2>1. /\ Len(z) = Len(s) + 1 /\ z[Len(z)] = a /\ \A k \in DOMAIN s : z[k] = s[k]
        /\ DOMAIN s = 1 .. Len(s) /\ DOMAIN z = 1 .. Len(z) /\ Len(s) \in Nat
    BY <1>0, <1>1, <1>5
  <2>2. Ordered(s) /\ Remembered(r)
    BY <1>0, <1>6
  <2> HIDE DEF s, z
  <2>3. SUFFICES ASSUME NEW i \in DOMAIN z, NEW j \in DOMAIN z, i < j,
                        z[i].tier = z[j].tier, HasUp(z[i].tier)
                 PROVE  IF z[i].cause = "timeout"
                        THEN \A k \in 1 .. i - 1 : z[k].tier = z[i].tier => z[k].cause # "timeout"
                        ELSE z[i].explored
    BY DEF Ordered, Idle, z
  <2>4. i \in DOMAIN s /\ z[i] = s[i] /\ (\A k \in 1 .. i - 1 : z[k] = s[k])
    BY <2>1, <2>3
  <2>5. CASE j \in DOMAIN s
    <3>1. z[j] = s[j] /\ Idle(s, i, j)
      BY <2>1, <2>2, <2>4, <2>5 DEF Ordered
    <3> QED BY <2>3, <2>4, <3>1 DEF Idle
  <2>6. CASE j \notin DOMAIN s
    <3>1. z[j] = a
      BY <2>1, <2>6
    <3>2. s[i].tier \notin r.excluded
      BY <1>0, <1>1, <2>3, <2>4, <3>1
    <3>3. Spent(r, i)
      BY <2>2, <2>3, <2>4 DEF Remembered, s
    <3> QED BY <2>4, <3>2, <3>3 DEF Spent, s
  <2> QED BY <2>5, <2>6
<1> QED BY <1>1, <1>4, <1>5, <1>6 DEF a, q

LEMMA EscalatedFacts ==
    ASSUME NEW t \in Tasks, NEW r, Running(t, r), NEW cause \in AllCauses
    PROVE  LET a == Appended(r, cause, FALSE)
               e == Escalated(t, a, cause)
           IN  Ready(t, e) /\ e.attempts = a.attempts
<1> DEFINE a == Appended(r, cause, FALSE)
           new == Made(r, cause, FALSE)
           e == Escalated(t, a, cause)
<1>r. r \in Record /\ r.attempts \in Seq(Attempt)
  BY DEF Running, Record
<1>1. /\ a \in Record /\ new \in Attempt /\ a.attempts = Append(r.attempts, new)
      /\ a.pc = r.pc /\ a.n = r.n /\ a.tier = r.tier /\ a.explored = r.explored
      /\ a.excluded = r.excluded /\ a.retried = r.retried /\ a.verdict = r.verdict
      /\ Pin[t] = NoWorker => Ordered(a.attempts)
  BY AppendedFacts
<1>2. new.tier = r.tier /\ new.cause = cause /\ new.explored = r.explored
  BY DEF Made
<1> HIDE DEF a, new
<1>3. /\ Len(a.attempts) = r.n /\ r.n \in Nat \ {0} /\ a.attempts[r.n] = new
      /\ DOMAIN a.attempts = 1 .. r.n /\ DOMAIN r.attempts = 1 .. r.n - 1
      /\ \A k \in 1 .. r.n - 1 : a.attempts[k] = r.attempts[k]
  BY <1>r, <1>1 DEF Running
<1>4. r.tier \in Tiers /\ a.tier \in Tiers
  BY <1>1 DEF Running
<1>5. NextTier(a.tier) # 0 <=> HasUp(r.tier)
  BY <1>1, <1>4, NextTierUp
<1>6. /\ e \in Record /\ e.attempts = a.attempts /\ e.pc = a.pc /\ e.n = a.n
      /\ e.verdict = a.verdict
      /\ a.excluded \subseteq e.excluded /\ a.retried \subseteq e.retried
  <2>1. Leave(a) \in Record
    <3>1. a.excluded \cup {a.tier} \in SUBSET Tiers /\ a.escalations + 1 \in Nat
      BY <1>1, <1>4 DEF Record
    <3>2. ASSUME NEW x \in SUBSET Tiers PROVE [a EXCEPT !.excluded = x] \in Record
      BY <1>1, <3>2 DEF Record
    <3>3. ASSUME NEW q \in Record, NEW n \in Nat PROVE [q EXCEPT !.escalations = n] \in Record
      BY <3>3 DEF Record
    <3> QED BY <3>1, <3>2, <3>3 DEF Leave
  <2>2. ASSUME NEW f \in Ranks
        PROVE  [a EXCEPT !.retried = a.retried \cup {a.tier}, !.forced = f] \in Record
    <3>1. a.retried \cup {a.tier} \in SUBSET Tiers
      BY <1>1, <1>4 DEF Record
    <3>2. ASSUME NEW x \in SUBSET Tiers PROVE [a EXCEPT !.retried = x] \in Record
      BY <1>1, <3>2 DEF Record
    <3>3. ASSUME NEW q \in Record PROVE [q EXCEPT !.forced = f] \in Record
      BY <2>2, <3>3 DEF Record
    <3> QED BY <3>1, <3>2, <3>3
  <2>3. (IF a.n < MaxAttempts THEN a.tier ELSE 0) \in Ranks
    BY <1>4 DEF Ranks, Tiers
  <2>4. e \in Record
    BY <1>1, <2>1, <2>2, <2>3 DEF Escalated
  <2>5. /\ e.attempts = a.attempts /\ e.pc = a.pc /\ e.n = a.n /\ e.verdict = a.verdict
        /\ a.excluded \subseteq e.excluded /\ a.retried \subseteq e.retried
    BY <1>1 DEF Escalated, Leave, Record
  <2> QED BY <2>4, <2>5
<1>7. ASSUME Pin[t] = NoWorker, r.n < MaxAttempts, HasUp(r.tier)
      PROVE  IF cause = "timeout"
             THEN r.tier \in e.retried /\ (r.tier \in r.retried => r.tier \in e.excluded)
             ELSE r.explored \/ r.tier \in e.excluded
  BY <1>1, <1>5, <1>7 DEF Escalated, Leave, Record
<1> HIDE DEF e
<1>8. ASSUME Pin[t] = NoWorker, r.n < MaxAttempts PROVE Remembered(e)
  <2>1. Remembered(r)
    BY <1>8 DEF Running
  <2>2. SUFFICES ASSUME NEW i \in 1 .. r.n, HasUp(a.attempts[i].tier) PROVE Spent(e, i)
    BY <1>3, <1>6 DEF Remembered
  <2>3. CASE i # r.n
    <3>1. i \in 1 .. r.n - 1 /\ a.attempts[i] = r.attempts[i]
      BY <1>3, <2>3
    <3>2. Spent(r, i)
      BY <1>3, <2>1, <2>2, <3>1 DEF Remembered
    <3>3. \A k \in 1 .. i - 1 : a.attempts[k] = r.attempts[k]
      BY <1>3, <3>1
    <3> QED BY <1>1, <1>6, <3>1, <3>2, <3>3 DEF Spent
  <2>4. CASE i = r.n
    <3>1. a.attempts[i] = new /\ HasUp(r.tier)
      BY <1>2, <1>3, <2>2, <2>4
    <3>2. ASSUME NEW k \in 1 .. i - 1, a.attempts[k].tier = r.tier, a.attempts[k].cause = "timeout"
          PROVE  r.tier \in r.retried
      <4>1. k \in DOMAIN r.attempts /\ a.attempts[k] = r.attempts[k]
        BY <1>3, <2>4, <3>2
      <4>2. Spent(r, k)
        BY <2>1, <3>1, <3>2, <4>1 DEF Remembered
      <4> QED BY <3>2, <4>1, <4>2 DEF Spent
    <3> QED BY <1>2, <1>6, <1>7, <1>8, <3>1, <3>2 DEF Spent
  <2> QED BY <2>3, <2>4
<1>9. Ready(t, e)
  BY <1>1, <1>3, <1>6, <1>8 DEF Ready, Running
<1> QED BY <1>6, <1>9 DEF e, a

\* How a step of t leaves its record and the capability matrix: no attempt
\* was made, or one was and the matrix learned what it says of the skill.
Kept(t, q) == q.attempts = task[t].attempts /\ matrix' = matrix

Settled(t, q) ==
    \E r : \E cause \in AllCauses :
        LET a == Made(r, cause, FALSE) IN
        /\ a \in Attempt /\ q.attempts = Append(task[t].attempts, a)
        /\ matrix' = Learned(r, cause)

Stopped(t, q) ==
    \E a \in Attempt : a.cut /\ q.attempts = Append(task[t].attempts, a) /\ matrix' = matrix

Outcome(t) ==
    \E q : /\ task' = [task EXCEPT ![t] = q] /\ CallInv(t, q)
           /\ Kept(t, q) \/ Settled(t, q) \/ Stopped(t, q)

LEMMA CutFacts ==
    ASSUME NEW t \in Tasks, NEW r, Running(t, r), r.attempts = task[t].attempts,
           NEW cause \in AllCauses, Cut(t, r, cause)
    PROVE  Outcome(t)
<1> DEFINE a == Made(r, cause, TRUE)
           q == Appended(r, cause, TRUE)
<1>1. /\ q \in Record /\ a \in Attempt /\ q.attempts = Append(r.attempts, a)
      /\ q.verdict = r.verdict /\ (Pin[t] = NoWorker => Ordered(q.attempts))
  BY AppendedFacts
<1>2. a.cut /\ r.attempts \in Seq(Attempt) /\ r.verdict = "UNVERIFIED"
  BY DEF Made, Running, Record
<1>3. task' = [task EXCEPT ![t] = Closed(q)] /\ matrix' = matrix
  BY DEF Cut, Finish
<1> HIDE DEF a, q
<1>4. q.attempts # <<>>
  BY <1>1, <1>2
<1>5. CallInv(t, Closed(q)) /\ Closed(q).attempts = q.attempts
  BY <1>1, <1>2, <1>4, ClosedFacts
<1> QED BY <1>1, <1>2, <1>3, <1>5 DEF Outcome, Stopped

LEMMA SettleFacts ==
    ASSUME NEW t \in Tasks, NEW r, Running(t, r), r.attempts = task[t].attempts,
           NEW cause \in AllCauses, NEW b, Settle(t, r, cause, b)
    PROVE  Outcome(t)
<1> DEFINE a == Appended(r, cause, FALSE)
           new == Made(r, cause, FALSE)
           e == Escalated(t, a, cause)
<1>1. /\ a \in Record /\ new \in Attempt /\ a.attempts = Append(r.attempts, new)
      /\ a.verdict = r.verdict /\ (Pin[t] = NoWorker => Ordered(a.attempts))
  BY AppendedFacts
<1>2. new.cause = cause /\ r.attempts \in Seq(Attempt) /\ r.verdict = "UNVERIFIED"
  BY DEF Made, Running, Record
<1>3. Ready(t, e) /\ e.attempts = a.attempts
  BY EscalatedFacts
<1>4. matrix' = Learned(r, cause)
  BY DEF Settle
<1>5. \/ /\ Verdict(cause) # "FAIL"
         /\ Finish(t, [a EXCEPT !.verdict = Verdict(cause)])
      \/ Finish(t, a)
      \/ Finish(t, e)
      \/ Proceed(t, e, matrix', b)
  BY DEF Settle
<1> HIDE DEF a, e, new
<1>6. a.attempts # <<>> /\ a.attempts[Len(a.attempts)].cause = cause
  BY <1>1, <1>2
<1>7. SUFFICES \E q : /\ task' = [task EXCEPT ![t] = q] /\ CallInv(t, q)
                      /\ q.attempts = a.attempts
  <2>1. PICK q : /\ task' = [task EXCEPT ![t] = q] /\ CallInv(t, q)
                 /\ q.attempts = a.attempts
    BY <1>7
  <2>2. Settled(t, q)
    BY <1>1, <1>4, <2>1 DEF Settled, new
  <2> QED BY <2>1, <2>2 DEF Outcome
<1>8. CASE Verdict(cause) # "FAIL" /\ Finish(t, [a EXCEPT !.verdict = Verdict(cause)])
  <2> DEFINE q == [a EXCEPT !.verdict = Verdict(cause)]
  <2>1. Verdict(cause) \in {"PASS", "FAIL", "UNVERIFIED"}
        /\ (Verdict(cause) = "PASS" => cause = "pass")
    BY DEF Verdict
  <2>2. q \in Record /\ q.attempts = a.attempts /\ q.verdict = Verdict(cause)
    BY <1>1, <2>1 DEF Record
  <2>3. Finish(t, q)
    BY <1>8
  <2> HIDE DEF q
  <2> QED BY <1>1, <1>6, <2>1, <2>2, <2>3, ClosedFacts DEF Finish
<1>9. CASE Finish(t, a)
  BY <1>1, <1>2, <1>6, <1>9, ClosedFacts DEF Finish
<1>10. CASE Finish(t, e)
  <2>1. e \in Record /\ e.verdict = "UNVERIFIED" /\ (Pin[t] = NoWorker => Ordered(e.attempts))
    BY <1>3 DEF Ready
  <2> QED BY <1>3, <1>6, <1>10, <2>1, ClosedFacts DEF Finish
<1>11. CASE Proceed(t, e, matrix', b)
  <2>1. \E q : task' = [task EXCEPT ![t] = q] /\ CallInv(t, q) /\ q.attempts = e.attempts
    <3> DEFINE m == matrix'
    <3>1. Proceed(t, e, m, b)
      BY <1>11
    <3> HIDE DEF m
    <3> QED BY <1>3, <3>1, ProceedFacts
  <2> QED BY <1>3, <2>1
<1> QED BY <1>5, <1>8, <1>9, <1>10, <1>11

\* A record at an await is again one of a call under way.
LEMMA WaitFacts ==
    ASSUME NEW t \in Tasks, NEW r, Running(t, r), NEW p \in InFlight
    PROVE  LET q == [r EXCEPT !.pc = p] IN CallInv(t, q) /\ q.attempts = r.attempts
<1> DEFINE q == [r EXCEPT !.pc = p]
<1>r. r \in Record
  BY DEF Running
<1>1. p \in Phases
  BY DEF Phases, InFlight
<1>2. q \in Record
  BY <1>r, <1>1 DEF Record
<1>3. /\ q.pc = p /\ q.n = r.n /\ q.attempts = r.attempts /\ q.tier = r.tier
      /\ q.excluded = r.excluded /\ q.retried = r.retried /\ q.worker = r.worker
      /\ q.verdict = r.verdict
  BY <1>r DEF Record
<1> HIDE DEF q
<1>4. Remembered(r) => Remembered(q)
  BY <1>3 DEF Remembered, Spent
<1>5. CallInv(t, q)
  BY <1>2, <1>3, <1>4 DEF CallInv, Running, InFlight
<1> QED BY <1>3, <1>5 DEF q

LEMMA JudgeOrSettleFacts ==
    ASSUME NEW t \in Tasks, NEW r, Running(t, r), r.attempts = task[t].attempts,
           NEW cause \in AllCauses, NEW b, JudgeOrSettle(t, r, cause, b)
    PROVE  Outcome(t)
<1>1. CASE /\ task' = [task EXCEPT ![t] = [r EXCEPT !.pc = "judging"]] /\ UNCHANGED matrix
  <2>1. "judging" \in InFlight
    BY DEF InFlight
  <2> DEFINE q == [r EXCEPT !.pc = "judging"]
  <2>2. CallInv(t, q) /\ q.attempts = r.attempts
    BY <2>1, WaitFacts
  <2>3. task' = [task EXCEPT ![t] = q] /\ matrix' = matrix
    BY <1>1
  <2> HIDE DEF q
  <2> QED BY <2>2, <2>3 DEF Outcome, Kept
<1>2. CASE Settle(t, r, cause, b)
  BY <1>2, SettleFacts
<1> QED BY <1>1, <1>2 DEF JudgeOrSettle

-----------------------------------------------------------------------------
\* Every step of a call leaves a record of a call.

CallsInv ==
    /\ DOMAIN task = Tasks
    /\ task = [t \in Tasks |-> task[t]]
    /\ \A t \in Tasks : CallInv(t, task[t])

LEMMA CauseFacts ==
    ASSUME NEW t, NEW r, NEW answer \in AllCauses
    PROVE  CauseOf(t, r, answer) \in AllCauses
BY DEF CauseOf, AllCauses

\* What nothing above looks at may be noted in the record.
LEMMA SameCall ==
    ASSUME NEW t, NEW r, Running(t, r), NEW q \in Record,
           q.pc = r.pc, q.n = r.n, q.attempts = r.attempts, q.tier = r.tier, q.worker = r.worker,
           q.excluded = r.excluded, q.retried = r.retried, q.verdict = r.verdict
    PROVE  Running(t, q)
<1>1. Remembered(r) => Remembered(q)
  BY DEF Remembered, Spent
<1> QED BY <1>1 DEF Running

LEMMA NotedFacts ==
    ASSUME NEW t, NEW r, Running(t, r), NEW c \in Nat, NEW cause \in AllCauses
    PROVE  /\ Running(t, [r EXCEPT !.cost = c])
           /\ Running(t, [r EXCEPT !.cause = cause])
           /\ Running(t, [r EXCEPT !.hinted = TRUE])
           /\ [r EXCEPT !.cost = c].attempts = r.attempts
           /\ [r EXCEPT !.cause = cause].attempts = r.attempts
           /\ [r EXCEPT !.hinted = TRUE].attempts = r.attempts
<1>r. r \in Record
  BY DEF Running
<1>1. [r EXCEPT !.cost = c] \in Record
  BY <1>r DEF Record
<1>2. [r EXCEPT !.cause = cause] \in Record
  BY <1>r DEF Record
<1>3. [r EXCEPT !.hinted = TRUE] \in Record
  BY <1>r DEF Record
<1>4. Running(t, [r EXCEPT !.cost = c])
  BY <1>r, <1>1, SameCall DEF Record
<1>5. Running(t, [r EXCEPT !.cause = cause])
  BY <1>r, <1>2, SameCall DEF Record
<1>6. Running(t, [r EXCEPT !.hinted = TRUE])
  BY <1>r, <1>3, SameCall DEF Record
<1>7. /\ [r EXCEPT !.cost = c].attempts = r.attempts
      /\ [r EXCEPT !.cause = cause].attempts = r.attempts
      /\ [r EXCEPT !.hinted = TRUE].attempts = r.attempts
  BY <1>r DEF Record
<1> QED BY <1>4, <1>5, <1>6, <1>7

LEMMA ReturnFacts ==
    ASSUME NEW t \in Tasks, CallInv(t, task[t]), Return(t)
    PROVE  Outcome(t)
<1>1. PICK answer \in Causes \ {"budget"}, c \in Charges :
         LET cause == CauseOf(t, task[t], answer)
             r == [task[t] EXCEPT !.cost = c]
         IN  /\ task[t].pc = "running"
             /\ spent' = spent + c
             /\ IF spent' > CostCap
                THEN Cut(t, r, IF Malfunction(cause) THEN cause ELSE "budget")
                ELSE IF t \in CodeEdits /\ ~Malfunction(cause) /\ cause # "schema"
                THEN /\ task' = [task EXCEPT ![t] = [r EXCEPT !.pc = "executing", !.cause = cause]]
                     /\ UNCHANGED matrix
                ELSE JudgeOrSettle(t, r, cause, spent')
  BY DEF Return
<1> DEFINE cause == CauseOf(t, task[t], answer)
           r == [task[t] EXCEPT !.cost = c]
           final == IF Malfunction(cause) THEN cause ELSE "budget"
           waiting == [r EXCEPT !.cause = cause]
           now == spent'
<1>2. c \in Nat /\ answer \in AllCauses
  BY <1>1, TaskExecutorAssumption
<1>3. cause \in AllCauses
  BY <1>2, CauseFacts
<1>4. final \in AllCauses
  BY <1>3 DEF AllCauses
<1>5. Running(t, task[t])
  BY <1>1, RunningFacts DEF InFlight
<1>6. Running(t, r) /\ r.attempts = task[t].attempts
  BY <1>2, <1>3, <1>5, NotedFacts
<1>7. \/ Cut(t, r, final)
      \/ task' = [task EXCEPT ![t] = [r EXCEPT !.pc = "executing", !.cause = cause]] /\ matrix' = matrix
      \/ JudgeOrSettle(t, r, cause, now)
  BY <1>1
<1> HIDE DEF cause, r, final, now
<1>8. CASE Cut(t, r, final)
  BY <1>4, <1>6, <1>8, CutFacts
<1>9. CASE task' = [task EXCEPT ![t] = [r EXCEPT !.pc = "executing", !.cause = cause]]
           /\ matrix' = matrix
  <2>1. Running(t, waiting) /\ waiting.attempts = r.attempts
    BY <1>2, <1>3, <1>6, NotedFacts
  <2> DEFINE q == [waiting EXCEPT !.pc = "executing"]
  <2>2. "executing" \in InFlight
    BY DEF InFlight
  <2>3. CallInv(t, q) /\ q.attempts = waiting.attempts
    <3> HIDE DEF waiting
    <3> QED BY <2>1, <2>2, WaitFacts
  <2>4. q = [r EXCEPT !.pc = "executing", !.cause = cause]
    <3>1. r \in Record
      BY <1>6 DEF Running
    <3> QED BY <3>1 DEF Record
  <2>5. task' = [task EXCEPT ![t] = q]
    BY <1>9, <2>4
  <2>6. q.attempts = task[t].attempts
    BY <1>6, <2>1, <2>3
  <2> HIDE DEF q, waiting
  <2> QED BY <1>9, <2>3, <2>5, <2>6 DEF Outcome, Kept
<1>10. CASE JudgeOrSettle(t, r, cause, now)
  BY <1>3, <1>6, <1>10, JudgeOrSettleFacts
<1> QED BY <1>7, <1>8, <1>9, <1>10

LEMMA ExecuteFacts ==
    ASSUME NEW t \in Tasks, CallInv(t, task[t]), Execute(t)
    PROVE  Outcome(t)
<1> DEFINE r == task[t]
<1>1. PICK found \in {"none", "pass", "fail", "timeout"} :
         /\ r.pc = "executing"
         /\ \/ Cut(t, r, "budget")
            \/ JudgeOrSettle(t, r, IF found = "none" THEN r.cause ELSE found, spent')
  BY DEF Execute
<1> DEFINE cause == IF found = "none" THEN r.cause ELSE found
           now == spent'
<1>2. Running(t, r)
  BY <1>1, RunningFacts DEF InFlight
<1>3. cause \in AllCauses /\ "budget" \in AllCauses
  <2>1. r.cause \in AllCauses
    BY <1>2 DEF Running, Record
  <2> QED BY <2>1 DEF AllCauses
<1>4. Cut(t, r, "budget") \/ JudgeOrSettle(t, r, cause, now)
  BY <1>1
<1>5. r.attempts = task[t].attempts
  OBVIOUS
<1> HIDE DEF r, cause, now
<1> QED BY <1>2, <1>3, <1>4, <1>5, CutFacts, JudgeOrSettleFacts

LEMMA JudgeFacts ==
    ASSUME NEW t \in Tasks, CallInv(t, task[t]), Judge(t)
    PROVE  Outcome(t)
<1> DEFINE r == task[t]
           now == spent'
<1>1. PICK found \in {"none", "pass", "fail"} :
         /\ r.pc = "judging"
         /\ Cut(t, r, "budget") \/ Settle(t, r, found, now)
  BY DEF Judge
<1>2. Running(t, r)
  BY <1>1, RunningFacts DEF InFlight
<1>3. found \in AllCauses /\ "budget" \in AllCauses
  BY DEF AllCauses
<1>4. r.attempts = task[t].attempts
  OBVIOUS
<1> HIDE DEF r, now
<1> QED BY <1>1, <1>2, <1>3, <1>4, CutFacts, SettleFacts

LEMMA BeginFacts ==
    ASSUME NEW t \in Tasks, CallInv(t, task[t]), Begin(t)
    PROVE  Outcome(t)
<1> DEFINE r == task[t]
<1>1. r.pc = "idle" /\ Proceed(t, r, matrix, spent) /\ matrix' = matrix
  BY DEF Begin
<1>2. Ready(t, r)
  BY <1>1 DEF CallInv, Ready
<1>3. r.attempts = task[t].attempts
  OBVIOUS
<1> HIDE DEF r
<1>4. \E q : task' = [task EXCEPT ![t] = q] /\ CallInv(t, q) /\ q.attempts = r.attempts
  BY <1>1, <1>2, ProceedFacts
<1> QED BY <1>1, <1>3, <1>4 DEF Outcome, Kept

LEMMA LoadHintsFacts ==
    ASSUME NEW t \in Tasks, CallsInv, LoadHints(t)
    PROVE  Outcome(t)
<1> DEFINE r == task[t]
           w == [r EXCEPT !.hinted = TRUE]
           q == [w EXCEPT !.pc = "running"]
<1>1. r.pc = "hinting" /\ matrix' = matrix
      /\ task' = [task EXCEPT ![t] = [r EXCEPT !.pc = "running", !.hinted = TRUE]]
  BY DEF LoadHints, CallsInv
<1>2. Running(t, r)
  BY <1>1, RunningFacts DEF InFlight, CallsInv
<1>3. Running(t, w) /\ w.attempts = r.attempts
  <2>1. 0 \in Nat /\ "none" \in AllCauses
    BY DEF AllCauses
  <2> QED BY <1>2, <2>1, NotedFacts
<1>4. q = [r EXCEPT !.pc = "running", !.hinted = TRUE]
  <2>1. r \in Record
    BY <1>2 DEF Running
  <2> QED BY <2>1 DEF Record
<1>5. task' = [task EXCEPT ![t] = q]
  BY <1>1, <1>4
<1>6. CallInv(t, q) /\ q.attempts = w.attempts
  <2>1. "running" \in InFlight
    BY DEF InFlight
  <2> HIDE DEF w
  <2> QED BY <1>3, <2>1, WaitFacts
<1>7. q.attempts = task[t].attempts
  BY <1>3, <1>6
<1> HIDE DEF q, r, w
<1> QED BY <1>1, <1>5, <1>6, <1>7 DEF Outcome, Kept

LEMMA StepFacts ==
    ASSUME NEW t \in Tasks, CallsInv, Step(t)
    PROVE  Outcome(t)
<1>1. CallInv(t, task[t])
  BY DEF CallsInv
<1> QED BY <1>1, BeginFacts, LoadHintsFacts, ReturnFacts, ExecuteFacts, JudgeFacts DEF Step

LEMMA CallsInvariance == CallsInv /\ [Next]_vars => CallsInv'
<1> SUFFICES ASSUME CallsInv, [Next]_vars PROVE CallsInv'
  OBVIOUS
<1>1. ASSUME NEW t \in Tasks, Step(t) PROVE CallsInv'
  <2>1. Outcome(t)
    BY <1>1, StepFacts
  <2>2. PICK q : task' = [task EXCEPT ![t] = q] /\ CallInv(t, q)
    BY <2>1 DEF Outcome
  <2>3. \A u \in Tasks : task'[u] = IF u = t THEN q ELSE task[u]
    BY <2>2 DEF CallsInv
  <2>4. DOMAIN task' = Tasks /\ task' = [u \in Tasks |-> task'[u]]
    BY <2>2 DEF CallsInv
  <2>5. \A u \in Tasks : CallInv(u, task'[u])
    BY <2>2, <2>3 DEF CallsInv
  <2> QED BY <2>4, <2>5 DEF CallsInv
<1>2. ASSUME task' = task PROVE CallsInv'
  BY <1>2 DEF CallsInv
<1>3. ASSUME NEW w \in Workers, Retire(w) \/ Reactivate(w) PROVE task' = task
  BY <1>3 DEF Retire, Reactivate
<1>4. UNCHANGED vars => task' = task
  BY DEF vars
<1> QED BY <1>1, <1>2, <1>3, <1>4 DEF Next

LEMMA CallsInit == Init => CallsInv
<1> SUFFICES ASSUME Init PROVE CallsInv
  OBVIOUS
<1>1. Fresh \in Record
  <2>1. 0 \in Ranks /\ "none" \in AllCauses /\ "idle" \in Phases
    BY DEF Ranks, AllCauses, Phases
  <2>2. <<>> \in Seq(Attempt) /\ {} \in SUBSET Tiers /\ 0 \in Nat
    OBVIOUS
  <2> QED BY <2>1, <2>2 DEF Fresh, Record
<1>2. Ordered(Fresh.attempts) /\ Remembered(Fresh)
  BY DEF Fresh, Ordered, Remembered
<1>3. \A t \in Tasks : CallInv(t, Fresh)
  BY <1>1, <1>2 DEF CallInv, InFlight, Fresh
<1> QED BY <1>3 DEF Init, CallsInv

-----------------------------------------------------------------------------
\* What the capability matrix knows, counted in attempts.

Passes(w) == {p \in SkillVerdicts(w) : Attempts(p[1])[p[2]].cause = "pass"}

EvidenceInv ==
    /\ matrix \in [Workers -> [passed : Nat, total : Nat]]
    /\ \A w \in Workers :
          /\ IsFiniteSet(SkillVerdicts(w))
          /\ matrix[w].total = Cardinality(SkillVerdicts(w))
          /\ matrix[w].passed = Cardinality(Passes(w))

LEMMA SkillIsBanked ==
    ASSUME NEW a \in Attempt, NEW w
    PROVE  IsSkill(a, w) <=> a.worker = w /\ ~a.cut /\ Banked(a.cause)
BY DEF IsSkill, Banked, Attempt, AllCauses

LEMMA SkillMembers ==
    ASSUME DOMAIN task = Tasks, NEW w, NEW p
    PROVE  p \in SkillVerdicts(w) <=>
             \E t \in Tasks : \E k \in DOMAIN Attempts(t) :
                p = <<t, k>> /\ IsSkill(Attempts(t)[k], w)
BY DEF SkillVerdicts

LEMMA SkillGrows ==
    ASSUME CallsInv, CallsInv', NEW t \in Tasks, NEW a \in Attempt, NEW w,
           \A u \in Tasks : u # t => task'[u] = task[u],
           task'[t].attempts = Append(task[t].attempts, a)
    PROVE  LET p == <<t, Len(task[t].attempts) + 1>> IN
           /\ p \notin SkillVerdicts(w)
           /\ SkillVerdicts(w)' = IF IsSkill(a, w) THEN SkillVerdicts(w) \cup {p} ELSE SkillVerdicts(w)
           /\ Passes(w)' = IF IsSkill(a, w) /\ a.cause = "pass"
                           THEN Passes(w) \cup {p} ELSE Passes(w)
<1>0. PICK last : last = Len(task[t].attempts) + 1
  OBVIOUS
<1> DEFINE s == task[t].attempts
           z == task'[t].attempts
           p == <<t, last>>
<1>1. s \in Seq(Attempt)
  BY DEF CallsInv, CallInv, Record
<1>2. /\ DOMAIN z = DOMAIN s \cup {last} /\ last \notin DOMAIN s /\ z[last] = a
      /\ \A k \in DOMAIN s : z[k] = s[k]
  BY <1>0, <1>1
<1>3. DOMAIN task = Tasks /\ DOMAIN task' = Tasks
  BY DEF CallsInv
<1>4. Attempts(t) = s /\ Attempts(t)' = z
      /\ \A u \in Tasks : u # t => Attempts(u)' = Attempts(u)
  BY DEF Attempts
<1>5. \A x : x \in SkillVerdicts(w) <=>
         \E u \in Tasks : \E k \in DOMAIN Attempts(u) : x = <<u, k>> /\ IsSkill(Attempts(u)[k], w)
  BY <1>3, SkillMembers
<1>6. \A x : x \in SkillVerdicts(w)' <=>
         \E u \in Tasks : \E k \in DOMAIN Attempts(u)' : x = <<u, k>> /\ IsSkill(Attempts(u)'[k], w)
  BY <1>3 DEF SkillVerdicts, Attempts
<1> HIDE DEF s, z
<1>7. p \notin SkillVerdicts(w)
  BY <1>2, <1>4, <1>5
<1>8. ASSUME NEW u \in Tasks, NEW k \in DOMAIN Attempts(u)
      PROVE  k \in DOMAIN Attempts(u)' /\ Attempts(u)'[k] = Attempts(u)[k]
  BY <1>2, <1>4
<1>9. ASSUME NEW u \in Tasks, NEW k \in DOMAIN Attempts(u)'
      PROVE  \/ u = t /\ k = last /\ Attempts(u)'[k] = a
             \/ k \in DOMAIN Attempts(u) /\ Attempts(u)'[k] = Attempts(u)[k]
  BY <1>2, <1>4
<1>10. last \in DOMAIN Attempts(t)' /\ Attempts(t)'[last] = a
  BY <1>2, <1>4
<1>11. SkillVerdicts(w) \subseteq SkillVerdicts(w)'
  BY <1>5, <1>6, <1>8
<1>12. ASSUME NEW x \in SkillVerdicts(w)'
       PROVE  x \in SkillVerdicts(w) \/ (x = p /\ IsSkill(a, w))
  <2>1. PICK u \in Tasks : \E k \in DOMAIN Attempts(u)' : x = <<u, k>> /\ IsSkill(Attempts(u)'[k], w)
    BY <1>6, <1>12
  <2>2. PICK k \in DOMAIN Attempts(u)' : x = <<u, k>> /\ IsSkill(Attempts(u)'[k], w)
    BY <2>1
  <2> QED BY <1>5, <1>9, <2>2
<1>13. IsSkill(a, w) => p \in SkillVerdicts(w)'
  BY <1>6, <1>10
<1>14. SkillVerdicts(w)' = IF IsSkill(a, w) THEN SkillVerdicts(w) \cup {p} ELSE SkillVerdicts(w)
  BY <1>11, <1>12, <1>13
<1>15. ASSUME NEW x \in SkillVerdicts(w)
       PROVE  Attempts(x[1])'[x[2]] = Attempts(x[1])[x[2]]
  <2>1. PICK u \in Tasks : \E k \in DOMAIN Attempts(u) : x = <<u, k>>
    BY <1>5, <1>15
  <2>2. PICK k \in DOMAIN Attempts(u) : x = <<u, k>>
    BY <2>1
  <2>3. x[1] = u /\ x[2] = k
    BY <2>2
  <2> QED BY <1>8, <2>3
<1>16. Attempts(p[1])'[p[2]] = a
  BY <1>10
<1>17. Passes(w)' = {x \in SkillVerdicts(w)' : Attempts(x[1])'[x[2]].cause = "pass"}
  BY DEF Passes
<1>18. Passes(w) = {x \in SkillVerdicts(w) : Attempts(x[1])[x[2]].cause = "pass"}
  BY DEF Passes
<1> HIDE DEF p
<1>19. Passes(w)' = IF IsSkill(a, w) /\ a.cause = "pass" THEN Passes(w) \cup {p} ELSE Passes(w)
  <2>1. \A x : x \in Passes(w)' <=> x \in SkillVerdicts(w)' /\ Attempts(x[1])'[x[2]].cause = "pass"
    BY <1>17
  <2>2. \A x : x \in Passes(w) <=> x \in SkillVerdicts(w) /\ Attempts(x[1])[x[2]].cause = "pass"
    BY <1>18
  <2>3. \A x \in SkillVerdicts(w) : x \in Passes(w)' <=> x \in Passes(w)
    BY <1>11, <1>15, <2>1, <2>2
  <2>4. p \in Passes(w)' <=> IsSkill(a, w) /\ a.cause = "pass"
    <3>1. p \in SkillVerdicts(w)' => IsSkill(a, w)
      BY <1>7, <1>12
    <3>2. p \in Passes(w)' <=> p \in SkillVerdicts(w)' /\ Attempts(p[1])'[p[2]].cause = "pass"
      BY <2>1
    <3>3. Attempts(p[1])'[p[2]].cause = a.cause
      BY <1>16
    <3> QED BY <1>13, <3>1, <3>2, <3>3
  <2>5. Passes(w)' \subseteq SkillVerdicts(w) \cup {p} /\ Passes(w) \subseteq SkillVerdicts(w)
    BY <1>12, <2>1, <2>2
  <2>6. CASE IsSkill(a, w) /\ a.cause = "pass"
    <3>1. p \in Passes(w)'
      BY <2>4, <2>6
    <3>2. \A x : x \in Passes(w)' <=> x \in Passes(w) \/ x = p
      BY <2>3, <2>5, <3>1
    <3> QED BY <2>6, <3>2
  <2>7. CASE ~(IsSkill(a, w) /\ a.cause = "pass")
    <3>1. p \notin Passes(w)'
      BY <2>4, <2>7
    <3>2. \A x : x \in Passes(w)' <=> x \in Passes(w)
      BY <2>3, <2>5, <3>1
    <3> QED BY <2>7, <3>2
  <2> QED BY <2>6, <2>7
<1> QED BY <1>0, <1>7, <1>14, <1>19 DEF p

LEMMA SkillStays ==
    ASSUME DOMAIN task = Tasks, DOMAIN task' = Tasks,
           \A u \in Tasks : task'[u].attempts = task[u].attempts, NEW w
    PROVE  SkillVerdicts(w)' = SkillVerdicts(w) /\ Passes(w)' = Passes(w)
<1>1. \A u \in Tasks : Attempts(u)' = Attempts(u)
  BY DEF Attempts
<1>2. SkillVerdicts(w)' = SkillVerdicts(w)
  BY <1>1 DEF SkillVerdicts
<1>3. \A x \in SkillVerdicts(w) : Attempts(x[1])' = Attempts(x[1])
  BY <1>1 DEF SkillVerdicts
<1> QED BY <1>2, <1>3 DEF Passes

LEMMA EvidenceInvariance ==
    CallsInv /\ CallsInv' /\ EvidenceInv /\ [Next]_vars => EvidenceInv'
<1> SUFFICES ASSUME CallsInv, CallsInv', EvidenceInv, [Next]_vars
             PROVE  EvidenceInv'
  OBVIOUS
<1>0. DOMAIN task = Tasks /\ DOMAIN task' = Tasks
  BY DEF CallsInv
<1>1. ASSUME matrix' = matrix, \A u \in Tasks : task'[u].attempts = task[u].attempts
      PROVE  EvidenceInv'
  <2>1. \A w : SkillVerdicts(w)' = SkillVerdicts(w) /\ Passes(w)' = Passes(w)
    BY <1>0, <1>1, SkillStays
  <2> QED BY <1>1, <2>1 DEF EvidenceInv
<1>2. ASSUME NEW t \in Tasks, NEW a \in Attempt, NEW q, task' = [task EXCEPT ![t] = q],
             q.attempts = Append(task[t].attempts, a),
             \/ a.cut /\ matrix' = matrix
             \/ /\ ~a.cut
                /\ matrix' = IF Banked(a.cause)
                             THEN [matrix EXCEPT ![a.worker] =
                                     [passed |-> @.passed + (IF a.cause = "pass" THEN 1 ELSE 0),
                                      total |-> @.total + 1]]
                             ELSE matrix
      PROVE  EvidenceInv'
  <2> DEFINE p == <<t, Len(task[t].attempts) + 1>>
             gain == IF a.cause = "pass" THEN 1 ELSE 0
  <2>1. task'[t] = q /\ \A u \in Tasks : u # t => task'[u] = task[u]
    BY <1>0, <1>2
  <2>2. ASSUME NEW w
        PROVE  /\ p \notin SkillVerdicts(w)
               /\ SkillVerdicts(w)' = IF IsSkill(a, w) THEN SkillVerdicts(w) \cup {p} ELSE SkillVerdicts(w)
               /\ Passes(w)' = IF IsSkill(a, w) /\ a.cause = "pass"
                               THEN Passes(w) \cup {p} ELSE Passes(w)
    BY <1>2, <2>1, SkillGrows
  <2> HIDE DEF p
  <2>3. a.worker \in Workers /\ gain \in Nat
    BY DEF Attempt
  <2>4. matrix \in [Workers -> [passed : Nat, total : Nat]]
    BY DEF EvidenceInv
  <2> DEFINE new == [passed |-> matrix[a.worker].passed + gain, total |-> matrix[a.worker].total + 1]
             skill == ~a.cut /\ Banked(a.cause)
  <2>a. new \in [passed : Nat, total : Nat]
    BY <2>3, <2>4
  <2>b. matrix' = IF skill THEN [matrix EXCEPT ![a.worker] = new] ELSE matrix
    BY <1>2
  <2>c. new.passed = matrix[a.worker].passed + gain /\ new.total = matrix[a.worker].total + 1
    OBVIOUS
  <2>d. ASSUME NEW w PROVE IsSkill(a, w) <=> w = a.worker /\ skill
    BY SkillIsBanked
  <2>e. \A w \in Workers : matrix[w].total \in Nat /\ matrix[w].passed \in Nat
    BY <2>4
  <2> HIDE DEF new, skill, gain
  <2>5. \A w \in Workers :
           /\ matrix'[w].total = matrix[w].total + (IF IsSkill(a, w) THEN 1 ELSE 0)
           /\ matrix'[w].passed = matrix[w].passed + (IF IsSkill(a, w) THEN gain ELSE 0)
    BY <2>3, <2>4, <2>b, <2>c, <2>d, <2>e
  <2>6. matrix' \in [Workers -> [passed : Nat, total : Nat]]
    BY <2>3, <2>4, <2>a, <2>b
  <2>7. ASSUME NEW w \in Workers
        PROVE  /\ IsFiniteSet(SkillVerdicts(w)')
               /\ matrix'[w].total = Cardinality(SkillVerdicts(w)')
               /\ matrix'[w].passed = Cardinality(Passes(w)')
    <3> DEFINE V == SkillVerdicts(w)
               P == Passes(w)
    <3>1. /\ IsFiniteSet(V) /\ matrix[w].total = Cardinality(V)
          /\ matrix[w].passed = Cardinality(P) /\ P \subseteq V
      BY DEF EvidenceInv, Passes
    <3>2. IsFiniteSet(P) /\ p \notin V /\ p \notin P
      BY <2>2, <3>1, FS_Subset
    <3>3. IsFiniteSet(V \cup {p}) /\ Cardinality(V \cup {p}) = Cardinality(V) + 1
      BY <3>1, <3>2, FS_AddElement
    <3>4. Cardinality(P \cup {p}) = Cardinality(P) + 1
      BY <3>2, FS_AddElement
    <3>5. matrix[w].total \in Nat /\ matrix[w].passed \in Nat
      BY <2>4
    <3> HIDE DEF V, P
    <3>6. /\ SkillVerdicts(w)' = IF IsSkill(a, w) THEN V \cup {p} ELSE V
          /\ Passes(w)' = IF IsSkill(a, w) /\ a.cause = "pass" THEN P \cup {p} ELSE P
      BY <2>2 DEF V, P
    <3>7. CASE IsSkill(a, w) /\ a.cause = "pass"
      BY <2>5, <3>1, <3>3, <3>4, <3>6, <3>7 DEF gain
    <3>8. CASE IsSkill(a, w) /\ a.cause # "pass"
      BY <2>5, <3>1, <3>3, <3>5, <3>6, <3>8 DEF gain
    <3>9. CASE ~IsSkill(a, w)
      BY <2>5, <3>1, <3>5, <3>6, <3>9
    <3> QED BY <3>7, <3>8, <3>9
  <2> QED BY <2>6, <2>7 DEF EvidenceInv
<1>3. ASSUME NEW t \in Tasks, Step(t) PROVE EvidenceInv'
  <2>1. Outcome(t)
    BY <1>3, StepFacts
  <2>2. PICK q : /\ task' = [task EXCEPT ![t] = q]
                 /\ Kept(t, q) \/ Settled(t, q) \/ Stopped(t, q)
    BY <2>1 DEF Outcome
  <2>3. CASE Kept(t, q)
    <3>1. \A u \in Tasks : task'[u].attempts = task[u].attempts
      BY <1>0, <2>2, <2>3 DEF Kept
    <3> QED BY <1>1, <2>3, <3>1 DEF Kept
  <2>4. CASE Settled(t, q)
    <3>1. PICK r : \E cause \in AllCauses :
                     /\ Made(r, cause, FALSE) \in Attempt
                     /\ q.attempts = Append(task[t].attempts, Made(r, cause, FALSE))
                     /\ matrix' = Learned(r, cause)
      BY <2>4 DEF Settled
    <3>2. PICK cause \in AllCauses :
                     /\ Made(r, cause, FALSE) \in Attempt
                     /\ q.attempts = Append(task[t].attempts, Made(r, cause, FALSE))
                     /\ matrix' = Learned(r, cause)
      BY <3>1
    <3> DEFINE a == Made(r, cause, FALSE)
    <3>3. a.worker = r.worker /\ a.cause = cause /\ ~a.cut
      BY DEF Made
    <3>4. a \in Attempt /\ q.attempts = Append(task[t].attempts, a)
      BY <3>2
    <3>5. matrix' = IF Banked(a.cause)
                    THEN [matrix EXCEPT ![a.worker] =
                            [passed |-> @.passed + (IF a.cause = "pass" THEN 1 ELSE 0),
                             total |-> @.total + 1]]
                    ELSE matrix
      BY <3>2, <3>3 DEF Learned
    <3> HIDE DEF a
    <3> QED BY <1>2, <2>2, <3>3, <3>4, <3>5
  <2>5. CASE Stopped(t, q)
    BY <1>2, <2>2, <2>5 DEF Stopped
  <2> QED BY <2>2, <2>3, <2>4, <2>5
<1>4. ASSUME NEW w \in Workers, Retire(w) \/ Reactivate(w) PROVE EvidenceInv'
  BY <1>1, <1>4 DEF Retire, Reactivate
<1>5. CASE UNCHANGED vars
  BY <1>1, <1>5 DEF vars
<1> QED BY <1>3, <1>4, <1>5 DEF Next

LEMMA EvidenceInit == Init => EvidenceInv
<1> SUFFICES ASSUME Init PROVE EvidenceInv
  OBVIOUS
<1>1. matrix \in [Workers -> [passed : Nat, total : Nat]]
      /\ \A w \in Workers : matrix[w].total = 0 /\ matrix[w].passed = 0
  BY DEF Init
<1>2. DOMAIN task = Tasks /\ \A t \in Tasks : Attempts(t) = <<>>
  BY DEF Init, Attempts, Fresh
<1>3. \A w : SkillVerdicts(w) = {}
  <2>1. \A t \in Tasks : DOMAIN Attempts(t) = {}
    BY <1>2
  <2> QED BY <1>2, <2>1, SkillMembers
<1>4. \A w : Passes(w) = {}
  BY <1>3 DEF Passes
<1> QED BY <1>1, <1>3, <1>4, FS_EmptySet DEF EvidenceInv

-----------------------------------------------------------------------------
\* What the proofs carry from one await to the next.
THEOREM Invariance == Spec => [](CallsInv /\ EvidenceInv)
<1> DEFINE Inv == CallsInv /\ EvidenceInv
<1>1. Init => Inv
  BY CallsInit, EvidenceInit
<1>2. Inv /\ [Next]_vars => Inv'
  BY CallsInvariance, EvidenceInvariance
<1>3. Spec => []Inv
  <2> HIDE DEF Inv
  <2> QED BY <1>1, <1>2, PTL DEF Spec
<1> QED BY <1>3

\* A finished task reports the verdict of its last attempt, and FAIL when it
\* was never allowed one, for every pool, charge and interleaving.  A task
\* must be allowed an attempt: with max_attempts 0, which nothing refuses,
\* execute() returns the UNVERIFIED it starts from.
THEOREM VerdictIsEarnedHolds == MaxAttempts # 0 /\ Spec => []VerdictIsEarned
<1> SUFFICES ASSUME MaxAttempts # 0 PROVE Spec => []VerdictIsEarned
  OBVIOUS
<1>1. CallsInv => VerdictIsEarned
  BY DEF CallsInv, CallInv, Earned, VerdictIsEarned, Attempts
<1> QED BY <1>1, Invariance, PTL

\* The router's evidence is one sample per skill verdict and nothing else.
THEOREM EvidenceIsSkillHolds == Spec => []EvidenceIsSkill
<1>1. EvidenceInv => EvidenceIsSkill
  BY DEF EvidenceInv, EvidenceIsSkill, Passes
<1> QED BY <1>1, Invariance, PTL

\* A task never spends an attempt on a tier its failures have refuted.
THEOREM NoIdleRetryHolds == Spec => []NoIdleRetry
<1>1. CallsInv => NoIdleRetry
  BY DEF CallsInv, CallInv, Ordered, Idle, HasUp, NoIdleRetry, Attempts
<1> QED BY <1>1, Invariance, PTL

-----------------------------------------------------------------------------
(* A worker and its model, for any tasks, tools, replies, weights and room:*)
(* what is sent in a round comes from the sections declared so far.        *)

Ids == (Fields \cup {"turn", "observation"}) \X Nat \X Nat
Drafts == [id : Ids, type : Types, trust : {"instruction", "generated_summary", "untrusted_evidence"},
           role : {"system", "user", "assistant", "tool"}, size : Nat, extra : Nat, calls : Nat]

WorkerTypes ==
    /\ pc \in {"idle", "assemble", "post", "tools"} /\ round \in Nat
    /\ drafts \in Seq(Drafts) /\ calls \in Seq(STRING)

\* The turn whose calls are being made.
Open == Len(drafts) - drafts[Len(drafts)].id[3]

\* Every turn is followed by the answers it has so far, and lacks none of them
\* unless its calls are being made.
TurnsGetAnswers ==
    \A i \in DOMAIN drafts : drafts[i].role = "assistant" =>
        /\ drafts[i].id = <<"turn", drafts[i].id[2], 0>>
        /\ \A k \in 1 .. drafts[i].calls : i + k <= Len(drafts) =>
               drafts[i + k].id = <<"observation", drafts[i].id[2], k>>
        /\ i + drafts[i].calls <= Len(drafts) \/ (pc = "tools" /\ i = Open)

\* Every answer follows the turn whose call it answers.
AnswersHaveTurns ==
    \A i \in DOMAIN drafts : drafts[i].role = "tool" =>
        /\ drafts[i].id[3] \in 1 .. i - 1
        /\ drafts[i - drafts[i].id[3]].id = <<"turn", drafts[i].id[2], 0>>
        /\ drafts[i].id[3] <= drafts[i - drafts[i].id[3]].calls

\* The calls that are not made yet are what the open turn lacks.
OpenIsOpen ==
    pc = "tools" =>
        /\ calls # <<>> /\ drafts # <<>> /\ Open \in DOMAIN drafts
        /\ drafts[Open].role = "assistant" /\ drafts[Open].id = <<"turn", round, 0>>
        /\ drafts[Open].calls = drafts[Len(drafts)].id[3] + Len(calls)

\* No round is forgotten.
TurnsAreKept ==
    \A r \in 0 .. (IF pc = "tools" THEN round ELSE round - 1) :
        \E i \in DOMAIN drafts : drafts[i].id = <<"turn", r, 0>>

\* An attempt that ended may have ended in the middle of a round.
Dialogue == TurnsGetAnswers /\ AnswersHaveTurns /\ OpenIsOpen /\ TurnsAreKept

TalkInv == WorkerTypes /\ (pc # "idle" => Dialogue)

-----------------------------------------------------------------------------
(* What fitting keeps.                                                     *)

LEMMA FittedKeeps ==
    ASSUME NEW draft, NEW share
    PROVE  /\ Fitted(draft, share).draft = draft
           /\ Fitted(draft, share).action = "none" => Fitted(draft, share).size = draft.size
           /\ Fitted(draft, share).action = "omitted" =>
                 Fitted(draft, share).size = 0 /\ draft.type \notin Slots
<1> DEFINE most == IF share = 0 THEN 1 ELSE 4 * share
<1>1. CASE Estimate(draft.size) <= share
  BY <1>1 DEF Fitted
<1>2. CASE ~(Estimate(draft.size) <= share) /\ share = 0 /\ draft.type \notin Slots /\ draft.size # 0
  BY <1>2 DEF Fitted
<1>3. CASE ~(Estimate(draft.size) <= share) /\ ~(share = 0 /\ draft.type \notin Slots /\ draft.size # 0)
  <2>1. Fitted(draft, share) =
          [draft |-> draft, size |-> Digest(draft.size, most),
           action |-> IF draft.size <= most THEN "none" ELSE "head_tail"]
    BY <1>3 DEF Fitted
  <2>2. draft.size <= most => Digest(draft.size, most) = draft.size
    BY DEF Digest
  <2> HIDE DEF most
  <2> QED BY <2>1, <2>2
<1> QED BY <1>1, <1>2, <1>3

LEMMA SectionsKeep ==
    ASSUME NEW ds
    PROVE  /\ DOMAIN Sections(ds) = DOMAIN ds
           /\ \A i \in DOMAIN ds : Sections(ds)[i].draft = ds[i]
           /\ SectionsAreValid(Sections(ds))
           /\ Distinct(ds) => EnvelopeIsValid(Sections(ds))
<1>1. \A i \in DOMAIN ds : \E share : Sections(ds)[i] = Fitted(ds[i], share)
  BY DEF Sections
<1>2. DOMAIN Sections(ds) = DOMAIN ds
  BY DEF Sections
<1>3. \A i \in DOMAIN ds : Sections(ds)[i].draft = ds[i]
  BY <1>1, FittedKeeps
<1>4. SectionsAreValid(Sections(ds))
  <2> SUFFICES ASSUME NEW i \in DOMAIN ds
               PROVE  /\ Sections(ds)[i].action = "none" => Sections(ds)[i].size = Sections(ds)[i].draft.size
                      /\ Sections(ds)[i].action = "omitted" =>
                            Sections(ds)[i].size = 0 /\ Sections(ds)[i].draft.type \notin Slots
    BY <1>2 DEF SectionsAreValid
  <2>1. PICK share : Sections(ds)[i] = Fitted(ds[i], share)
    BY <1>1
  <2> QED BY <2>1, FittedKeeps
<1>5. Distinct(ds) => EnvelopeIsValid(Sections(ds))
  BY <1>2, <1>3 DEF Distinct, EnvelopeIsValid
<1> QED BY <1>2, <1>3, <1>4, <1>5

LEMMA EntriesHold == EntriesAreValid
  BY DEF EntriesAreValid, SchemaEntries, SchemaTrust

\* A turn or an answer is a message of its own.
LEMMA OwnMessage ==
    ASSUME NEW ss, DOMAIN ss \subseteq Nat, NEW i \in DOMAIN ss,
           ss[i].draft.role \in {"assistant", "tool"}
    PROVE  i \in Starts(ss) /\ Message(ss, i) = {i}
<1>1. ~Joins(ss, i) /\ ~Joins(ss, i + 1)
  BY DEF Joins, Text
<1>2. ASSUME NEW j \in DOMAIN ss, i <= j, \A k \in i + 1 .. j : Joins(ss, k) PROVE j = i
  BY <1>1, <1>2
<1>3. \A k \in i + 1 .. i : Joins(ss, k)
  OBVIOUS
<1>4. i <= i
  OBVIOUS
<1> QED BY <1>1, <1>2, <1>3, <1>4 DEF Starts, Message

\* The manifest trusts no message more than a part of it.
LEMMA WeakestIsWeakest ==
    ASSUME NEW ss, NEW msg, NEW i \in msg,
           \A j \in msg : ss[j].draft.trust \in {"instruction", "generated_summary", "untrusted_evidence"},
           EntryTrust(ss, msg) = "instruction"
    PROVE  ss[i].draft.trust = "instruction"
<1> DEFINE T(j) == Trusting(ss[j].draft.trust)
<1>1. \A j \in msg : T(j) \in 0 .. 2 /\ (T(j) = 2 <=> ss[j].draft.trust = "instruction")
  BY DEF Trusting
<1>2. \E m \in msg : \A j \in msg : T(m) <= T(j)
  <2>1. CASE \E m \in msg : T(m) = 0
    BY <1>1, <2>1
  <2>2. CASE ~(\E m \in msg : T(m) = 0) /\ \E m \in msg : T(m) = 1
    BY <1>1, <2>2
  <2>3. CASE \A m \in msg : T(m) = 2
    BY <1>1, <2>3
  <2> QED BY <1>1, <2>1, <2>2, <2>3
<1> DEFINE w == Weakest(ss, msg)
<1>3. w \in msg /\ \A j \in msg : T(w) <= T(j)
  BY <1>2 DEF Weakest
<1>4. ss[w].draft.trust = "instruction"
  BY DEF EntryTrust
<1>5. T(w) = 2 /\ T(w) <= T(i)
  BY <1>1, <1>3, <1>4
<1>6. T(i) = 2
  BY <1>1, <1>5
<1> QED BY <1>1, <1>6

-----------------------------------------------------------------------------
(* What is declared at the beginning.                                      *)

Own == {d \in Drafts : d.role \in {"system", "user"}}

LEMMA DeclaredIsOwn ==
    ASSUME NEW c \in Contracts
    PROVE  Declared(c) \in Seq(Own)
<1> DEFINE own(field, type, trust, role) == Draft(<<field, 0, 0>>, type, trust, role, c.given[field])
<1>1. ASSUME NEW field \in Fields, NEW type \in Types,
             NEW trust \in {"instruction", "generated_summary", "untrusted_evidence"},
             NEW role \in {"system", "user"}
      PROVE  own(field, type, trust, role) \in Own
  <2>1. c.given[field] \in Nat
    BY LocalWorkerAssumption
  <2>2. <<field, 0, 0>> \in Ids
    BY <2>1 DEF Ids
  <2> QED BY <2>1, <2>2 DEF Own, Drafts, Draft
<1> HIDE DEF own
<1>2. ASSUME NEW d \in Own PROVE <<d>> \in Seq(Own) /\ Given(d) \in Seq(Own)
  BY <1>2 DEF Given
<1>3. ASSUME NEW s \in Seq(Own), NEW t \in Seq(Own) PROVE s \o t \in Seq(Own)
  BY <1>3
<1> DEFINE a == own("system", "system_instructions", "instruction", "system")
           b == own("boundaries", "response_contract", "instruction", "system")
           d == own("schema", "response_contract", "instruction", "system")
           e == own("objective", "task_contract", "instruction", "user")
           f == own("inputs", "workflow_state", "untrusted_evidence", "user")
           g == own("advice", "verifier_feedback", "generated_summary", "user")
<1>4. a \in Own /\ b \in Own /\ d \in Own /\ e \in Own /\ f \in Own /\ g \in Own
  BY <1>1 DEF Fields, Types, Slots
<1>5. Declared(c) = <<a>> \o Given(b) \o Given(d) \o <<e>> \o Given(f) \o Given(g)
  BY DEF Declared, own
<1> HIDE DEF a, b, d, e, f, g
<1>6. <<a>> \o Given(b) \in Seq(Own)
  BY <1>2, <1>3, <1>4
<1>7. (<<a>> \o Given(b)) \o Given(d) \in Seq(Own)
  BY <1>2, <1>3, <1>4, <1>6
<1>8. ((<<a>> \o Given(b)) \o Given(d)) \o <<e>> \in Seq(Own)
  BY <1>2, <1>3, <1>4, <1>7
<1>9. (((<<a>> \o Given(b)) \o Given(d)) \o <<e>>) \o Given(f) \in Seq(Own)
  BY <1>2, <1>3, <1>4, <1>8
<1>10. ((((<<a>> \o Given(b)) \o Given(d)) \o <<e>>) \o Given(f)) \o Given(g) \in Seq(Own)
  BY <1>2, <1>3, <1>4, <1>9
<1> QED BY <1>5, <1>10

-----------------------------------------------------------------------------
(* The talk, step by step.                                                 *)

LEMMA WorkerStarts == WorkerInit => TalkInv
  BY DEF WorkerInit, TalkInv, WorkerTypes

\* What an action that leaves the drafts alone has to show.
LEMMA DialogueStays ==
    ASSUME Dialogue, drafts' = drafts, round' = round, pc # "tools", pc' # "tools"
    PROVE  Dialogue'
  BY DEF Dialogue, TurnsGetAnswers, AnswersHaveTurns, OpenIsOpen, TurnsAreKept

LEMMA StartTalks ==
    ASSUME TalkInv, NEW c \in Contracts, Start(c)
    PROVE  TalkInv'
<1>1. drafts' \in Seq(Own) /\ pc' = "assemble" /\ round' = 0 /\ calls' = <<>>
  BY DeclaredIsOwn DEF Start
<1>2. drafts' \in Seq(Drafts)
  BY <1>1 DEF Own
<1>3. WorkerTypes'
  BY <1>1, <1>2 DEF WorkerTypes
<1>4. \A i \in DOMAIN drafts' : drafts'[i].role \in {"system", "user"}
  BY <1>1 DEF Own
<1>5. Dialogue'
  BY <1>1, <1>4 DEF Dialogue, TurnsGetAnswers, AnswersHaveTurns, OpenIsOpen, TurnsAreKept
<1> QED BY <1>3, <1>5 DEF TalkInv

LEMMA EndTalks ==
    ASSUME TalkInv, NEW how, End(how)
    PROVE  TalkInv'
  BY DEF TalkInv, WorkerTypes, End

LEMMA SendTalks ==
    ASSUME TalkInv, NEW ss, pc = "assemble", Send(ss)
    PROVE  TalkInv'
<1>1. drafts' = drafts /\ round' = round /\ calls' = calls /\ pc' = "post"
  BY DEF Send
<1>2. Dialogue'
  BY <1>1, DialogueStays DEF TalkInv
<1> QED BY <1>1, <1>2 DEF TalkInv, WorkerTypes

LEMMA ReplyTalks ==
    ASSUME TalkInv, NEW reply \in Replies, pc = "post", ~Final(reply),
           drafts' = Append(drafts, Turn(reply)), calls' = reply.calls, pc' = "tools", round' = round
    PROVE  TalkInv'
<1> DEFINE n == Len(drafts)
           t == Turn(reply)
<1>1. /\ reply.size \in Nat /\ reply.tokens \in Nat /\ reply.calls \in Seq(STRING)
      /\ reply.calls # <<>> /\ Len(reply.calls) \in Nat
  BY LocalWorkerAssumption DEF Final
<1>2. /\ t.id = <<"turn", round, 0>> /\ t.role = "assistant" /\ t.calls = Len(reply.calls)
      /\ t \in Drafts /\ drafts' = Append(drafts, t)
  <2>1. /\ t.id = <<"turn", round, 0>> /\ t.role = "assistant" /\ t.calls = Len(reply.calls)
        /\ t = [id |-> <<"turn", round, 0>>, type |-> "prior_outputs", trust |-> "untrusted_evidence",
                role |-> "assistant", size |-> reply.size, extra |-> reply.tokens, calls |-> Len(reply.calls)]
    BY DEF Turn, Said, Draft
  <2>2. <<"turn", round, 0>> \in Ids
    BY DEF Ids, TalkInv, WorkerTypes
  <2> QED BY <1>1, <2>1, <2>2 DEF Drafts, Types
<1> HIDE DEF t
<1>3. /\ drafts \in Seq(Drafts) /\ n \in Nat /\ round \in Nat /\ Dialogue
      /\ DOMAIN drafts = 1 .. n
  BY DEF TalkInv, WorkerTypes
<1>4. /\ drafts' \in Seq(Drafts) /\ Len(drafts') = n + 1 /\ DOMAIN drafts' = 1 .. n + 1
      /\ drafts'[n + 1] = t /\ \A i \in 1 .. n : drafts'[i] = drafts[i]
  BY <1>2, <1>3
<1>5. WorkerTypes'
  BY <1>1, <1>3, <1>4 DEF WorkerTypes
<1>6. Open' = n + 1
  BY <1>2, <1>3, <1>4 DEF Open
<1>7. TurnsGetAnswers'
  <2> SUFFICES ASSUME NEW i \in DOMAIN drafts', drafts'[i].role = "assistant"
               PROVE  /\ drafts'[i].id = <<"turn", drafts'[i].id[2], 0>>
                      /\ \A k \in 1 .. drafts'[i].calls : i + k <= Len(drafts') =>
                             drafts'[i + k].id = <<"observation", drafts'[i].id[2], k>>
                      /\ i + drafts'[i].calls <= Len(drafts') \/ (pc' = "tools" /\ i = Open')
    BY DEF TurnsGetAnswers
  <2>1. CASE i = n + 1
    BY <1>1, <1>2, <1>3, <1>4, <1>6, <2>1
  <2>2. CASE i \in 1 .. n
    <3>0. drafts'[i] = drafts[i] /\ drafts[i] \in Drafts
      BY <1>3, <1>4, <2>2
    <3>1. /\ drafts'[i] = drafts[i] /\ drafts[i].calls \in Nat
      BY <3>0 DEF Drafts
    <3>2. /\ drafts[i].id = <<"turn", drafts[i].id[2], 0>>
          /\ \A k \in 1 .. drafts[i].calls : i + k <= n =>
                 drafts[i + k].id = <<"observation", drafts[i].id[2], k>>
          /\ i + drafts[i].calls <= n
      BY <1>3, <2>2, <3>1 DEF Dialogue, TurnsGetAnswers
    <3>3. \A k \in 1 .. drafts[i].calls : i + k <= n /\ drafts'[i + k] = drafts[i + k]
      BY <1>3, <1>4, <2>2, <3>1, <3>2
    <3> QED BY <1>3, <1>4, <2>2, <3>1, <3>2, <3>3
  <2> QED BY <1>4, <2>1, <2>2
<1>8. AnswersHaveTurns'
  <2> SUFFICES ASSUME NEW i \in DOMAIN drafts', drafts'[i].role = "tool"
               PROVE  /\ drafts'[i].id[3] \in 1 .. i - 1
                      /\ drafts'[i - drafts'[i].id[3]].id = <<"turn", drafts'[i].id[2], 0>>
                      /\ drafts'[i].id[3] <= drafts'[i - drafts'[i].id[3]].calls
    BY DEF AnswersHaveTurns
  <2>1. i \in 1 .. n
    BY <1>2, <1>4
  <2>2. drafts'[i] = drafts[i]
    BY <1>4, <2>1
  <2>3. /\ drafts[i].id[3] \in 1 .. i - 1
        /\ drafts[i - drafts[i].id[3]].id = <<"turn", drafts[i].id[2], 0>>
        /\ drafts[i].id[3] <= drafts[i - drafts[i].id[3]].calls
    BY <1>3, <2>1, <2>2 DEF Dialogue, AnswersHaveTurns
  <2>4. i - drafts[i].id[3] \in 1 .. n
    BY <1>3, <2>1, <2>3
  <2> QED BY <1>4, <2>2, <2>3, <2>4
<1>9. OpenIsOpen'
  <2>1. drafts' # <<>> /\ Open' \in DOMAIN drafts' /\ drafts'[Len(drafts')] = t /\ drafts'[Open'] = t
    BY <1>3, <1>4, <1>6
  <2>2. t.calls = t.id[3] + Len(calls')
    BY <1>1, <1>2
  <2> QED BY <1>1, <1>2, <2>1, <2>2 DEF OpenIsOpen
<1>10. TurnsAreKept'
  <2> SUFFICES ASSUME NEW r \in 0 .. round
               PROVE  \E i \in DOMAIN drafts' : drafts'[i].id = <<"turn", r, 0>>
    BY DEF TurnsAreKept
  <2>1. CASE r = round
    BY <1>2, <1>3, <1>4, <2>1
  <2>2. CASE r \in 0 .. round - 1
    <3>1. PICK i \in DOMAIN drafts : drafts[i].id = <<"turn", r, 0>>
      BY <1>3, <2>2 DEF Dialogue, TurnsAreKept
    <3> QED BY <1>3, <1>4, <3>1
  <2> QED BY <1>3, <2>1, <2>2
<1> QED BY <1>5, <1>7, <1>8, <1>9, <1>10 DEF TalkInv, Dialogue

LEMMA CallTalks ==
    ASSUME TalkInv, NEW size \in Results, CallTool(size)
    PROVE  TalkInv'
<1> DEFINE n == Len(drafts)
           o == Open
           l == drafts[n].id[3]
           t == Observation(size)
<1>1. /\ drafts \in Seq(Drafts) /\ n \in Nat /\ round \in Nat /\ calls \in Seq(STRING) /\ Dialogue
      /\ DOMAIN drafts = 1 .. n /\ pc = "tools"
  BY DEF TalkInv, WorkerTypes, CallTool
<1>2. /\ calls # <<>> /\ n \in 1 .. n /\ o \in 1 .. n /\ o = n - l
      /\ drafts[o].role = "assistant" /\ drafts[o].id = <<"turn", round, 0>>
      /\ drafts[o].calls = l + Len(calls)
  <2>1. /\ calls # <<>> /\ drafts # <<>> /\ o \in 1 .. n /\ o = n - l
        /\ drafts[o].role = "assistant" /\ drafts[o].id = <<"turn", round, 0>>
        /\ drafts[o].calls = l + Len(calls)
    BY <1>1 DEF Dialogue, OpenIsOpen, Open
  <2> QED BY <1>1, <2>1
<1>3. l \in Nat
  <2>1. drafts[n] \in Drafts
    BY <1>1, <1>2
  <2>2. drafts[n].id \in Ids
    BY <2>1 DEF Drafts
  <2> QED BY <2>2 DEF Ids
<1>4. Len(calls) \in Nat \ {0} /\ Tail(calls) \in Seq(STRING) /\ Len(Tail(calls)) = Len(calls) - 1
  BY <1>1, <1>2
<1>5. /\ t.id = <<"observation", round, l + 1>> /\ t.role = "tool" /\ t.calls = 0
      /\ t \in Drafts
  <2>1. t = [id |-> <<"observation", round, l + 1>>, type |-> "prior_outputs", trust |-> "untrusted_evidence",
             role |-> "tool", size |-> size, extra |-> IdTokens, calls |-> 0]
    BY DEF Observation, Said, Draft
  <2>2. <<"observation", round, l + 1>> \in Ids
    BY <1>1, <1>3 DEF Ids
  <2>3. size \in Nat /\ IdTokens \in Nat
    BY LocalWorkerAssumption
  <2> HIDE DEF t
  <2> QED BY <2>1, <2>2, <2>3 DEF Drafts, Types
<1> HIDE DEF t, l, o
<1>6. drafts' = Append(drafts, t) /\ calls' = Tail(calls)
  BY DEF CallTool, t
<1>7. /\ drafts' \in Seq(Drafts) /\ Len(drafts') = n + 1 /\ DOMAIN drafts' = 1 .. n + 1
      /\ drafts'[n + 1] = t /\ \A i \in 1 .. n : drafts'[i] = drafts[i]
  BY <1>1, <1>5, <1>6
<1>8. \/ calls' = <<>> /\ pc' = "assemble" /\ round' = round + 1 /\ Len(calls) = 1
      \/ calls' # <<>> /\ pc' = "tools" /\ round' = round
  BY <1>4, <1>6 DEF CallTool
<1>9. WorkerTypes'
  BY <1>1, <1>4, <1>6, <1>7, <1>8 DEF WorkerTypes
<1>10. Open' = o
  BY <1>1, <1>2, <1>3, <1>5, <1>7 DEF Open
<1>11. TurnsGetAnswers'
  <2> SUFFICES ASSUME NEW i \in DOMAIN drafts', drafts'[i].role = "assistant"
               PROVE  /\ drafts'[i].id = <<"turn", drafts'[i].id[2], 0>>
                      /\ \A k \in 1 .. drafts'[i].calls : i + k <= Len(drafts') =>
                             drafts'[i + k].id = <<"observation", drafts'[i].id[2], k>>
                      /\ i + drafts'[i].calls <= Len(drafts') \/ (pc' = "tools" /\ i = Open')
    BY DEF TurnsGetAnswers
  <2>1. i \in 1 .. n
    BY <1>5, <1>7
  <2>0. drafts'[i] = drafts[i] /\ drafts[i] \in Drafts
    BY <1>1, <1>7, <2>1
  <2>2. drafts'[i] = drafts[i] /\ drafts[i].calls \in Nat
    BY <2>0 DEF Drafts
  <2>3. /\ drafts[i].id = <<"turn", drafts[i].id[2], 0>>
        /\ \A k \in 1 .. drafts[i].calls : i + k <= n =>
               drafts[i + k].id = <<"observation", drafts[i].id[2], k>>
        /\ i + drafts[i].calls <= n \/ i = o
    BY <1>1, <2>1, <2>2 DEF Dialogue, TurnsGetAnswers, o
  <2>4. ASSUME NEW k \in 1 .. drafts[i].calls, i + k <= n
        PROVE  drafts'[i + k].id = <<"observation", drafts[i].id[2], k>>
    BY <1>1, <1>7, <2>1, <2>2, <2>3, <2>4
  <2>5. ASSUME NEW k \in 1 .. drafts[i].calls, i + k = n + 1
        PROVE  drafts'[i + k].id = <<"observation", drafts[i].id[2], k>>
    <3>1. i = o
      BY <1>1, <2>1, <2>2, <2>3, <2>5
    <3>2. k = l + 1
      BY <1>1, <1>2, <1>3, <2>1, <2>5, <3>1
    <3>3. drafts[i].id[2] = round
      BY <1>2, <3>1
    <3> QED BY <1>5, <1>7, <2>5, <3>2, <3>3
  <2>6. \/ i + drafts[i].calls <= n + 1
        \/ pc' = "tools" /\ i = Open'
    <3>1. CASE i + drafts[i].calls <= n
      BY <1>1, <2>1, <2>2, <3>1
    <3>2. CASE i = o /\ calls' # <<>>
      BY <1>8, <1>10, <3>2
    <3>3. CASE i = o /\ calls' = <<>>
      <4>1. Len(calls) = 1 /\ i = n - l /\ drafts[i].calls = l + Len(calls)
        BY <1>2, <1>8, <3>3
      <4> QED BY <1>1, <1>3, <4>1
    <3> QED BY <2>3, <3>1, <3>2, <3>3
  <2> QED BY <1>1, <1>7, <2>1, <2>2, <2>3, <2>4, <2>5, <2>6
<1>12. AnswersHaveTurns'
  <2> SUFFICES ASSUME NEW i \in DOMAIN drafts', drafts'[i].role = "tool"
               PROVE  /\ drafts'[i].id[3] \in 1 .. i - 1
                      /\ drafts'[i - drafts'[i].id[3]].id = <<"turn", drafts'[i].id[2], 0>>
                      /\ drafts'[i].id[3] <= drafts'[i - drafts'[i].id[3]].calls
    BY DEF AnswersHaveTurns
  <2>1. CASE i = n + 1
    <3>1. drafts'[i].id[3] = l + 1 /\ drafts'[i].id[2] = round /\ i - (l + 1) = o
      BY <1>1, <1>2, <1>3, <1>5, <1>7, <2>1
    <3>2. drafts'[o] = drafts[o]
      BY <1>2, <1>7
    <3>3. l + 1 \in 1 .. i - 1 /\ l + 1 <= drafts[o].calls
      BY <1>1, <1>2, <1>3, <1>4, <2>1
    <3> QED BY <1>2, <3>1, <3>2, <3>3
  <2>2. CASE i \in 1 .. n
    <3>1. drafts'[i] = drafts[i]
      BY <1>7, <2>2
    <3>2. /\ drafts[i].id[3] \in 1 .. i - 1
          /\ drafts[i - drafts[i].id[3]].id = <<"turn", drafts[i].id[2], 0>>
          /\ drafts[i].id[3] <= drafts[i - drafts[i].id[3]].calls
      BY <1>1, <2>2, <3>1 DEF Dialogue, AnswersHaveTurns
    <3>3. i - drafts[i].id[3] \in 1 .. n
      BY <1>1, <2>2, <3>2
    <3> QED BY <1>7, <3>1, <3>2, <3>3
  <2> QED BY <1>1, <1>7, <2>1, <2>2
<1>13. OpenIsOpen'
  <2> SUFFICES ASSUME pc' = "tools"
               PROVE  /\ calls' # <<>> /\ drafts' # <<>> /\ Open' \in DOMAIN drafts'
                      /\ drafts'[Open'].role = "assistant" /\ drafts'[Open'].id = <<"turn", round', 0>>
                      /\ drafts'[Open'].calls = drafts'[Len(drafts')].id[3] + Len(calls')
    BY DEF OpenIsOpen
  <2>1. calls' # <<>> /\ round' = round
    BY <1>8
  <2>2. Open' \in DOMAIN drafts' /\ drafts'[Open'] = drafts[o] /\ drafts' # <<>>
    BY <1>1, <1>2, <1>7, <1>10
  <2>3. drafts'[Len(drafts')].id[3] = l + 1
    BY <1>5, <1>7
  <2>4. drafts[o].calls = (l + 1) + Len(calls')
    BY <1>2, <1>3, <1>4, <1>6
  <2> QED BY <1>2, <2>1, <2>2, <2>3, <2>4
<1>14. TurnsAreKept'
  <2>1. \A r \in 0 .. round : \E i \in DOMAIN drafts : drafts[i].id = <<"turn", r, 0>>
    BY <1>1 DEF Dialogue, TurnsAreKept
  <2>2. \A r \in 0 .. round : \E i \in DOMAIN drafts' : drafts'[i].id = <<"turn", r, 0>>
    <3> TAKE r \in 0 .. round
    <3>1. PICK i \in DOMAIN drafts : drafts[i].id = <<"turn", r, 0>>
      BY <2>1
    <3> QED BY <1>1, <1>7, <3>1
  <2>3. (IF pc' = "tools" THEN round' ELSE round' - 1) = round
    BY <1>1, <1>8
  <2> QED BY <2>2, <2>3 DEF TurnsAreKept
<1> QED BY <1>9, <1>11, <1>12, <1>13, <1>14 DEF TalkInv, Dialogue
-----------------------------------------------------------------------------
(* What is sent.                                                           *)

\* A refusal, or the sections of a finished exchange, whose trust was checked;
\* the records of it never fail.
LEMMA AssembleSends ==
    ASSUME Assemble
    PROVE  \/ End("contract")
           \/ (\A i \in DOMAIN drafts : Trusted(drafts[i])) /\ Send(Sections(drafts))
<1>1. SectionsAreValid(Sections(drafts)) /\ (Distinct(drafts) => EnvelopeIsValid(Sections(drafts)))
  BY SectionsKeep
<1>2. Distinct(drafts) => ManifestIsValid(Sections(drafts))
  BY <1>1, EntriesHold DEF ManifestIsValid
<1> QED BY <1>1, <1>2 DEF Assemble

LEMMA SentIsSound ==
    ASSUME TalkInv, ConversationIsSound, pc = "assemble",
           \A i \in DOMAIN drafts : Trusted(drafts[i]), Send(Sections(drafts))
    PROVE  ConversationIsSound'
<1> DEFINE n == Len(drafts)
<1>1. /\ drafts \in Seq(Drafts) /\ n \in Nat /\ DOMAIN drafts = 1 .. n /\ Dialogue
      /\ \A i \in 1 .. n : drafts[i] \in Drafts
  BY DEF TalkInv, WorkerTypes
<1>2. \A i \in 1 .. n : drafts[i].calls \in Nat
  BY <1>1 DEF Drafts
<1>3. /\ sent' = Sections(drafts) /\ pc' = "post" /\ round' = round /\ outcome' = outcome
      /\ DOMAIN sent' = 1 .. n /\ \A i \in 1 .. n : sent'[i].draft = drafts[i]
  BY <1>1, SectionsKeep DEF Send
<1>4. TurnsAreAnswered'
  <2> SUFFICES ASSUME NEW i \in 1 .. n
               PROVE  LET d == sent'[i].draft IN
                 /\ d.role = "assistant" => \A k \in 1 .. d.calls :
                        i + k \in DOMAIN sent' /\ sent'[i + k].draft.id = <<"observation", d.id[2], k>>
                 /\ d.role = "tool" =>
                        /\ d.id[3] \in 1 .. i - 1
                        /\ sent'[i - d.id[3]].draft.id = <<"turn", d.id[2], 0>>
                        /\ d.id[3] <= sent'[i - d.id[3]].draft.calls
                 /\ d.role \in {"assistant", "tool"} => i \in Starts(sent') /\ Message(sent', i) = {i}
    BY <1>3 DEF TurnsAreAnswered
  <2> DEFINE d == drafts[i]
  <2>1. sent'[i].draft = d
    BY <1>3
  <2>2. ASSUME d.role = "assistant", NEW k \in 1 .. d.calls
        PROVE  i + k \in DOMAIN sent' /\ sent'[i + k].draft.id = <<"observation", d.id[2], k>>
    <3>1. /\ \A q \in 1 .. d.calls : i + q <= n =>
                 drafts[i + q].id = <<"observation", d.id[2], q>>
          /\ i + d.calls <= n
      BY <1>1, <2>2 DEF Dialogue, TurnsGetAnswers
    <3>2. i + k <= n /\ i + k \in 1 .. n
      BY <1>1, <1>2, <2>2, <3>1
    <3>3. drafts[i + k].id = <<"observation", d.id[2], k>>
      BY <2>2, <3>1, <3>2
    <3> QED BY <1>3, <3>2, <3>3
  <2>3. ASSUME d.role = "tool"
        PROVE  /\ d.id[3] \in 1 .. i - 1
               /\ sent'[i - d.id[3]].draft.id = <<"turn", d.id[2], 0>>
               /\ d.id[3] <= sent'[i - d.id[3]].draft.calls
    <3>1. /\ d.id[3] \in 1 .. i - 1
          /\ drafts[i - d.id[3]].id = <<"turn", d.id[2], 0>>
          /\ d.id[3] <= drafts[i - d.id[3]].calls
      BY <1>1, <2>3 DEF Dialogue, AnswersHaveTurns
    <3>2. i - d.id[3] \in 1 .. n
      BY <1>1, <3>1
    <3> HIDE DEF d
    <3> QED BY <1>3, <3>1, <3>2
  <2>4. d.role \in {"assistant", "tool"} => i \in Starts(sent') /\ Message(sent', i) = {i}
    BY <1>1, <1>3, OwnMessage
  <2> HIDE DEF d
  <2> QED BY <2>1, <2>2, <2>3, <2>4
<1>5. RoundsAreKept'
  <2> SUFFICES ASSUME NEW r \in 0 .. round - 1
               PROVE  \E i \in DOMAIN sent' : sent'[i].draft.id = <<"turn", r, 0>>
    BY <1>3 DEF RoundsAreKept
  <2>1. PICK i \in DOMAIN drafts : drafts[i].id = <<"turn", r, 0>>
    BY <1>1 DEF Dialogue, TurnsAreKept
  <2> QED BY <1>1, <1>3, <2>1
<1>6. TrustIsDeclared'
  <2> SUFFICES ASSUME NEW m \in 1 .. n, NEW i \in Message(sent', m)
               PROVE  /\ sent'[i].draft.role = "system" => sent'[i].draft.trust = "instruction"
                      /\ EntryTrust(sent', Message(sent', m)) = "instruction" =>
                            sent'[i].draft.trust = "instruction"
    BY <1>3 DEF TrustIsDeclared
  <2>1. Message(sent', m) \subseteq 1 .. n
    BY <1>3 DEF Message
  <2>2. \A j \in Message(sent', m) :
           sent'[j].draft.trust \in {"instruction", "generated_summary", "untrusted_evidence"}
    BY <1>1, <1>3, <2>1 DEF Drafts
  <2>3. sent'[i].draft.role = "system" => sent'[i].draft.trust = "instruction"
    BY <1>1, <1>3, <2>1 DEF Trusted
  <2>4. EntryTrust(sent', Message(sent', m)) = "instruction" => sent'[i].draft.trust = "instruction"
    BY <2>2, WeakestIsWeakest
  <2> QED BY <2>3, <2>4
<1> QED BY <1>3, <1>4, <1>5, <1>6 DEF ConversationIsSound

\* As long as the same is sent, and no round is over, it stays sound.
LEMMA SentStays ==
    ASSUME ConversationIsSound, sent' = sent, outcome' # "malformed",
           pc' \in {"post", "tools"} => pc \in {"post", "tools"} /\ round' = round
    PROVE  ConversationIsSound'
<1>1. TurnsAreAnswered' /\ TrustIsDeclared'
  BY DEF ConversationIsSound, TurnsAreAnswered, TrustIsDeclared
<1>2. RoundsAreKept'
  BY DEF ConversationIsSound, RoundsAreKept
<1> QED BY <1>1, <1>2 DEF ConversationIsSound

LEMMA WorkerKeeps ==
    ASSUME TalkInv, ConversationIsSound, [WorkerNext]_worker
    PROVE  TalkInv' /\ ConversationIsSound'
<1>1. ASSUME NEW c \in Contracts, Start(c) PROVE TalkInv' /\ ConversationIsSound'
  <2>1. sent' = <<>> /\ pc' = "assemble" /\ outcome' = "none"
    BY <1>1 DEF Start
  <2>2. ConversationIsSound'
    BY <2>1 DEF ConversationIsSound, TurnsAreAnswered, RoundsAreKept, TrustIsDeclared
  <2> QED BY <1>1, <2>2, StartTalks
<1>2. ASSUME NEW how, how # "malformed", End(how) PROVE TalkInv' /\ ConversationIsSound'
  <2>1. sent' = sent /\ pc' = "idle" /\ outcome' = how
    BY <1>2 DEF End
  <2> QED BY <1>2, <2>1, EndTalks, SentStays
<1>3. CASE Assemble
  <2>1. pc = "assemble"
    BY <1>3 DEF Assemble
  <2>2. CASE End("contract")
    BY <1>2, <2>2
  <2>3. CASE (\A i \in DOMAIN drafts : Trusted(drafts[i])) /\ Send(Sections(drafts))
    BY <2>1, <2>3, SendTalks, SentIsSound
  <2> QED BY <1>3, <2>2, <2>3, AssembleSends
<1>4. ASSUME NEW reply \in Replies, Reply(reply) PROVE TalkInv' /\ ConversationIsSound'
  <2>1. CASE End("output")
    BY <1>2, <2>1
  <2>2. CASE ~Final(reply) /\ ~End("output")
    <3>1. /\ pc = "post" /\ drafts' = Append(drafts, Turn(reply)) /\ calls' = reply.calls
          /\ pc' = "tools" /\ round' = round /\ sent' = sent /\ outcome' = outcome
      BY <1>4, <2>2 DEF Reply
    <3>2. outcome' # "malformed"
      BY <3>1 DEF ConversationIsSound
    <3> QED BY <2>2, <3>1, <3>2, ReplyTalks, SentStays
  <2> QED BY <1>4, <2>1, <2>2 DEF Reply
<1>5. ASSUME NEW how \in {"timeout", "error"}, PostFails(how) PROVE TalkInv' /\ ConversationIsSound'
  BY <1>2, <1>5 DEF PostFails
<1>6. ASSUME NEW size \in Results, CallTool(size) PROVE TalkInv' /\ ConversationIsSound'
  <2>1. /\ pc = "tools" /\ sent' = sent /\ outcome' = outcome
        /\ (pc' = "tools" /\ round' = round) \/ pc' = "assemble"
    BY <1>6 DEF CallTool
  <2>2. outcome' # "malformed"
    BY <2>1 DEF ConversationIsSound
  <2> QED BY <1>6, <2>1, <2>2, CallTalks, SentStays
<1>7. CASE CallFails
  BY <1>2, <1>7 DEF CallFails
<1>8. CASE UNCHANGED attempt
  <2>1. /\ pc' = pc /\ round' = round /\ drafts' = drafts /\ calls' = calls
        /\ sent' = sent /\ outcome' = outcome
    BY <1>8 DEF attempt
  <2>2. TalkInv'
    BY <2>1 DEF TalkInv, WorkerTypes, Dialogue, TurnsGetAnswers, AnswersHaveTurns, OpenIsOpen, TurnsAreKept, Open
  <2>3. outcome' # "malformed"
    BY <2>1 DEF ConversationIsSound
  <2> QED BY <2>1, <2>2, <2>3, SentStays
<1>9. ASSUME NEW tool \in External, Reload(tool) PROVE TalkInv' /\ ConversationIsSound'
  BY <1>8, <1>9 DEF Reload
<1>10. CASE UNCHANGED worker
  BY <1>8, <1>10 DEF worker
<1> QED BY <1>1, <1>3, <1>4, <1>5, <1>6, <1>7, <1>9, <1>10 DEF WorkerNext

\* Whatever tasks, tools, replies and room there are, however many rounds: every
\* turn that is sent is followed by the answers to its calls, nothing of an
\* earlier round is missing, the system message and the manifest trust nothing
\* they may not, and the records of a context never fail.
THEOREM ConversationIsSoundHolds == WorkerSpec => []ConversationIsSound
<1>1. WorkerInit => ConversationIsSound
  BY DEF WorkerInit, ConversationIsSound, TurnsAreAnswered, RoundsAreKept, TrustIsDeclared
<1>2. TalkInv /\ ConversationIsSound /\ [WorkerNext]_worker => TalkInv' /\ ConversationIsSound'
  BY WorkerKeeps
<1> HIDE DEF WorkerInit, WorkerNext, worker, TalkInv, ConversationIsSound
<1> QED BY <1>1, <1>2, WorkerStarts, PTL DEF WorkerSpec
=============================================================================
