----------------------------- MODULE RecordsMC -----------------------------
(* Small records of everything: the campaign of ScaffoldCampaignMC, and    *)
(* two words, packs and procedures.                                        *)
EXTENDS Records, ScaffoldCampaignMC, TLC

CONSTANTS x, y

\* The processes on a pack differ by nothing.
Twins == Permutations(Procs)

\* A secret record of one run, which an operator may commit, before a snapshot
\* that sees every run but nothing secret.
TwoWords == {x, y}
TwoTexts == {<<x>>, <<y, x>>}
OneRunOrAll == {Project, "r1"}
Secret == {[scope |-> "r1", text |-> <<y, x>>, sens |-> "secret", life |-> "candidate",
            act |-> "active", sources |-> {}, supersedes |-> {}]}
Snapshot == [scope |-> Project, sensitivities |-> {"internal"}, lifecycles |-> {"candidate", "active"},
             limit |-> 2, budget |-> 2, keep |-> 1]

\* Two packs own topic t, only p covers it.
Claims == [p |-> [t |-> "covered", u |-> "claimed"], q |-> [t |-> "claimed"]]

\* One source per procedure.
FromProcedures == [a |-> 1, c |-> 2]
=============================================================================
