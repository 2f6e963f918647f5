----------------------------- MODULE ConsoleMC -----------------------------
(* A small console: the suite of HarnessOptimizerMC, and workers for two   *)
(* tiers.                                                                  *)
EXTENDS Console, HarnessOptimizerMC

\* mock-small for the small tier, mock-mid for the mid tier.
StandIns == [t \in Tiers |-> IF t = "small" THEN "mock-small" ELSE "mock-mid"]
=============================================================================
