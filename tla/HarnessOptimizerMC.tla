------------------------- MODULE HarnessOptimizerMC -------------------------
(* A suite for HarnessOptimizer: three held-out tasks of two types.        *)
EXTENDS HarnessOptimizer

CONSTANTS k0, k1, good, leaky, t1, t2, t3

Bare == [knobs |-> k0, code |-> NoCode]
TwoTypes == {{t1}, {t2, t3}}

\* One value per configuration: the bare stack, other knobs, the artifact on
\* the bare stack, both.
By(bare, knobs, code, both) ==
    [c \in Configs |->
        IF c.code = NoCode
        THEN IF c.knobs = k0 THEN bare ELSE knobs
        ELSE IF c.knobs = k0 THEN code ELSE both]

\* On the search suite both together are best and the artifact is cheapest.
HatOf == By(1, 2, 2, 3)
TokensOf == By(3, 3, 1, 2)
\* Held out, the knobs pass more, the artifact gives up a task type and both
\* together only save tokens.
PassedOf == By({t1}, {t1, t2}, {t2, t3}, {t1})
HeldOutTokensOf == By(3, 3, 3, 2)
=============================================================================
