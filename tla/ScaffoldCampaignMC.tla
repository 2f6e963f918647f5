-------------------------- MODULE ScaffoldCampaignMC --------------------------
\* A specification of three cases per split at most, over two views, and the
\* outcomes its gates tell apart.
EXTENDS ScaffoldCampaign

Case(id, split, view, mandatory, target) ==
    [id |-> id, split |-> split, view |-> view, mandatory |-> mandatory, target |-> target]

\* The target is the approved_target case, as the name of the view suggests;
\* in Misfiled it is the case of the other view.
CasesWith(misfiled) ==
    {Case("d1", "development", "approved_target", TRUE, FALSE),
     Case("d2", "development", "transfer", TRUE, FALSE),
     Case("v1", "validation", "approved_target", TRUE, ~misfiled),
     Case("v2", "validation", "transfer", TRUE, misfiled),
     Case("h1", "holdout", "approved_target", TRUE, FALSE),
     Case("h2", "holdout", "transfer", TRUE, FALSE)}
FiledCases == CasesWith(FALSE)
FirstDevelopment == <<Case("d1", "development", "approved_target", TRUE, FALSE)>>
TwoReps == 1 .. 2

\* base and optimized outputs of the two cases of a split; x: the output of a
\* second repetition that may differ.
Trial(split, b1, b2, o1, o2, x, bearing, tokens) ==
    LET first == CHOOSE c \in {"d1", "v1", "h1"} : \E k \in FiledCases : k.id = c /\ k.split = split
        second == CHOOSE c \in {"d2", "v2", "h2"} : \E k \in FiledCases : k.id = c /\ k.split = split
        Of2(p, q) == [c \in {first, second} |-> IF c = first THEN p ELSE q]
    IN [split |-> split, bearing |-> bearing, tokens |-> tokens,
        out |-> [cell \in {"base_scaffold", "optimized_scaffold"} |->
                   IF cell = "base_scaffold" THEN Of2(<<b1, b1>>, <<b2, b2>>)
                                             ELSE Of2(<<o1, x>>, <<o2, o2>>)]]

E == "expected"
O == "other"
F == "forbidden"
SmallTrials ==
    {Trial("development", O, E, E, E, E, TRUE, 1), Trial("development", O, E, E, E, O, TRUE, 1),
     Trial("development", O, E, E, E, E, FALSE, 1), Trial("development", F, E, E, O, E, TRUE, 1),
     Trial("validation", O, E, E, E, E, TRUE, 1), Trial("validation", O, E, E, F, E, TRUE, 1),
     Trial("validation", E, O, E, E, E, TRUE, 1), Trial("validation", O, E, E, E, E, FALSE, 2),
     Trial("holdout", O, O, E, E, E, TRUE, 1), Trial("holdout", O, E, O, E, E, TRUE, 1),
     Trial("holdout", E, E, E, E, O, TRUE, 1), Trial("holdout", E, E, E, E, E, TRUE, 2)}
=============================================================================
