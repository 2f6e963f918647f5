-------------------------------- MODULE Locks --------------------------------
(* The programs that lock with files, in one specification: the lease of a *)
(* workspace (CodingWorker), the questions added to a suite (SuiteExtras)  *)
(* and the board of one machine (LocalWorkplan).  They share no state; a   *)
(* behaviour is one of them.  Boards come in two kinds, between which only *)
(* a bounded instance makes a difference.                                  *)
EXTENDS CodingWorker

CONSTANTS
    Commanders, LocalCards, Owners, Nil, Overlapping, Deps, MayTake, Tree, Rank, Heads,
    Requests, Harvests, Questions, Search, HeldOut, MaxBatch, MaxFailures

VARIABLES
    part, board, lock, guard, pc, plan,
    file, hold, at, batch, fresh, searched, gated, repeated, failures

Board == INSTANCE LocalWorkplan WITH Procs <- Commanders, Cards <- LocalCards, Allowed <- MayTake, None <- Nil
Suite == INSTANCE SuiteExtras WITH lock <- hold, pc <- at, None <- Nil

\* Nil is no command, no writer, no commit and no plan; a suite's built-in
\* questions are split.
ASSUME LocksAssumption ==
    /\ Nil \notin Commanders /\ Nil \notin Requests \cup Harvests /\ Nil \notin Heads
    /\ Search \cup HeldOut \subseteq Questions /\ Search \cap HeldOut = {}
    /\ MaxBatch \in Nat

local == <<board, lock, guard, pc, plan>>
suite == <<file, hold, at, batch, fresh, searched, gated, repeated, failures>>
locks == <<part, vars, local, suite>>

LocksInit == part \in {"lease", "suite", "commands", "board"} /\ Init /\ Suite!Init /\ Board!Init

LocksNext ==
    /\ UNCHANGED part
    /\ \/ part = "lease" /\ Next /\ UNCHANGED <<local, suite>>
       \/ part = "suite" /\ Suite!Next /\ UNCHANGED <<vars, local>>
       \/ part \in {"commands", "board"} /\ Board!Next /\ UNCHANGED <<vars, suite>>

\* What the board shows is sound, and no step of any command leaves it other
\* than a whole command would.
BoardIsSound ==
    /\ [](Board!OwnersAreApart /\ Board!VerifiedIsFrozen)
    /\ Board!BoardStepsAreAtomic

\* What a search was given never judges it, but for a built-in held-out question
\* that a generator wrote again; no question is in the file twice, and no writer
\* loses what another added.
SuiteIsSound ==
    /\ [](Suite!SidesStayApart /\ Suite!FileIsSound)
    /\ Suite!FileOnlyGrows
=============================================================================
