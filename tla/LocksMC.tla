------------------------------- MODULE LocksMC -------------------------------
(* Small locks: the lease of CodingWorkerMC, four questions, and a board   *)
(* once with three cards and one command at a time, once with one card and *)
(* many commands that die.                                                 *)
EXTENDS Locks, CodingWorkerMC, TLC

CONSTANTS k1, k2, k3, w1, w2

SharedPaths == {{k1, k2}}
DepsOn == (k1 :> {}) @@ (k2 :> {}) @@ (k3 :> {k1})
For == (k1 :> {w1, w2}) @@ (k2 :> {w1}) @@ (k3 :> {w1})
In == (k1 :> "a") @@ (k2 :> "b") @@ (k3 :> "a")
Order == (k1 :> 1) @@ (k2 :> 2) @@ (k3 :> 3)

\* Everybody works on the first card, for one owner and with one commit.
OneCard ==
    \A p \in Commanders : LET b == plan'[p] IN
        b # Nil => /\ \A c \in LocalCards \ {k1} : b[c] = board[c]
                    /\ b[k1].owner \in {Nil, w1} /\ b[k1].freeze \in {Nil, 1}

\* One command at a time, and none dies.
OneCommand == pc'[1] # "dead" /\ \A p \in Commanders \ {1} : pc'[p] = "idle"

LocksSpec ==
    /\ LocksInit
    /\ [][LocksNext /\ (part = "commands" => OneCard) /\ (part = "board" => OneCommand)]_locks
    /\ \A c \in Calls : WF_vars(part = "lease" /\ Step(c))
=============================================================================
