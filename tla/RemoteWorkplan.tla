---------------------------- MODULE RemoteWorkplan ----------------------------
(***************************************************************************)
(* The gateway that coordinates development across hosts (development/     *)
(* remote_workplan/gateway.py).  Coordinators qualify cards, workers claim *)
(* them under a lease and a fence, bind a worktree, submit; coordinators   *)
(* integrate and accept.  Every call is one database transaction, but for  *)
(* the calls on a claim: their first transaction refuses an expired lease, *)
(* their second one does the work and does not look again.                 *)
(*                                                                         *)
(* A call carries the revision its caller saw, and every change of a card  *)
(* raises the revision, so a call that overlaps a change is refused.  Only *)
(* what such a call can still do is kept, in `lease'.  Refused calls, the  *)
(* calls with a bad credential among them, change nothing and are left out.*)
(***************************************************************************)
EXTENDS Integers, FiniteSetsExt

CONSTANTS
    Cards, Workers, Deliveries, None,
    Paths, Nested,           \* Nested: pairs of a path and one below it
    Defs, Trees, Lineage,    \* of a definition: its worktree, branch and base
    Allowed,                 \* of a definition: who may work on it
    DefsOf, PathsOf, DepsOf, \* of a card: what it may be qualified with
    HeadsOf,                 \* of a card: what may be submitted
    MaxFence, MaxEpoch       \* bounds: on the fences of all cards, on the epoch

Claims == [owner : Workers, fence : Nat, bound : Trees \cup {None}, lease : {"live", "late", "over", "void"},
           bundle : [def : Defs, paths : SUBSET Paths, deps : SUBSET Cards, owner : Workers, fence : Nat]]

ASSUME WorkplanAssumption ==
    /\ Lineage \in [Defs -> Trees] /\ None \notin Trees \cup Claims \cup Workers
    /\ \A c \in Cards : /\ DefsOf[c] \subseteq Defs /\ None \notin HeadsOf[c]
                       /\ PathsOf[c] \subseteq SUBSET Paths /\ DepsOf[c] \subseteq SUBSET Cards

VARIABLES
    card,      \* [status, owner, def, paths, deps, fence, attention, frozen]
    claim,     \* the open claim of a card: [owner, fence, bound, lease, bundle]
    reserved,  \* path_reservations of a card
    submitted, integrated,  \* heads of the latest receipts of the two kinds
    inbox,     \* webhook deliveries seen
    epoch      \* of the backend: the gateway coordinates in the odd ones

receipts == <<submitted, integrated>>
workplan == <<card, claim, reserved, receipts, inbox, epoch>>

NoCard == [status |-> "none", owner |-> None, def |-> None, paths |-> {}, deps |-> {},
           fence |-> 0, attention |-> FALSE, frozen |-> FALSE]

WorkplanInit ==
    /\ card = [c \in Cards |-> NoCard] /\ claim = [c \in Cards |-> None]
    /\ reserved = [c \in Cards |-> {}]
    /\ submitted = [c \in Cards |-> None] /\ integrated = [c \in Cards |-> None]
    /\ inbox = {} /\ epoch = 1

MayFence == MapThenSumSet(LAMBDA c : card[c].fence, Cards) < MaxFence

Active == {"claimed", "in_progress", "review", "verifying", "blocked"}

-----------------------------------------------------------------------------
(* Paths.                                                                  *)

Overlap(p, q) == p = q \/ <<p, q>> \in Nested \/ <<q, p>> \in Nested
Clash(ps, qs) == \E p \in ps, q \in qs : Overlap(p, q)

\* Mutant: a path is compared by its name alone.
FreeOfNames(c, ps) == \A d \in Cards \ {c} : ps \cap reserved[d] = {}

FreeFor(c, ps) == \A d \in Cards \ {c} : ~Clash(ps, reserved[d])

\* A card nobody has qualified is not done.
Startable(c, ps, deps) ==
    /\ \A d \in deps : card[d].status = "done"
    /\ FreeFor(c, ps)

ReservePaths(c, ps) == reserved' = [reserved EXCEPT ![c] = ps]

-----------------------------------------------------------------------------
(* Claims.                                                                 *)

Claimed(c) == claim[c] # None

\* Mutant: a card that is blocked does not count.
WorksOnNothing(w) == \A c \in Cards : Claimed(c) /\ card[c].status # "blocked" => claim[c].owner # w

HoldsNothing(w) == \A c \in Cards : Claimed(c) => claim[c].owner # w

\* _bundle_material: what the claimant was told, in the fields that can change.
Bundle(c, def, owner, fence) ==
    [def |-> def, paths |-> card[c].paths, deps |-> card[c].deps, owner |-> owner, fence |-> fence]

NewClaim(c, w, fence) ==
    [owner |-> w, fence |-> fence, bound |-> None, lease |-> "live",
     bundle |-> Bundle(c, card[c].def, w, fence)]

\* A lease that runs out is "late" while a call that began in time may be under
\* way, "over" when a change of the card has voided it, and a heartbeat names no
\* revision, and "void" when a new fence has voided that as well.
Touched(c) == IF Claimed(c) /\ claim[c].lease = "late" THEN [claim EXCEPT ![c].lease = "over"] ELSE claim
Fenced(c) ==
    /\ Claimed(c) /\ claim[c].fence = card[c].fence
    /\ claim[c].bundle = Bundle(c, card[c].def, claim[c].owner, claim[c].fence)

CoordinatorMay(c) == Fenced(c) /\ claim[c].lease \in {"live", "late"}
WorkerMay(c) == CoordinatorMay(c) /\ ~card[c].frozen

HandTo(c, w) ==
    /\ MayFence
    /\ LET fence == card[c].fence + 1
       IN /\ card' = [card EXCEPT ![c].status = "claimed", ![c].owner = w, ![c].fence = fence,
                                  ![c].attention = FALSE]
          /\ claim' = [claim EXCEPT ![c] = NewClaim(c, w, fence)]

SetStatus(c, status) == card' = [card EXCEPT ![c].status = status]
Moved(c, status) == SetStatus(c, status) /\ claim' = Touched(c) /\ UNCHANGED <<inbox, epoch>>

-----------------------------------------------------------------------------
(* Coordinators prepare cards.                                             *)

Qualify(c, def, ps, deps, ready) ==
    /\ card[c].status \in {"none", "backlog", "ready"}
    /\ ready => Startable(c, ps, deps)
    /\ card' = [card EXCEPT ![c].status = IF ready THEN "ready" ELSE "backlog",
                            ![c].def = def, ![c].paths = ps, ![c].deps = deps]
    /\ ReservePaths(c, IF ready THEN ps ELSE {})
    /\ UNCHANGED <<claim, receipts, inbox, epoch>>

\* Whatever the epoch: claim does not look at it.
Claim(c, w) ==
    /\ card[c].status = "ready" /\ w \in Allowed[card[c].def] /\ HoldsNothing(w)
    /\ Startable(c, card[c].paths, card[c].deps) /\ reserved[c] = card[c].paths
    /\ HandTo(c, w)
    /\ UNCHANGED <<reserved, receipts, inbox, epoch>>

-----------------------------------------------------------------------------
(* The worker of a claim.                                                  *)

\* From any status, "blocked" with its paths given up included.
Bind(c) ==
    /\ WorkerMay(c) /\ claim[c].bound = None
    /\ SetStatus(c, "in_progress")
    /\ claim' = [Touched(c) EXCEPT ![c].bound = Lineage[card[c].def]]
    /\ UNCHANGED <<reserved, receipts, inbox, epoch>>

OnLineage(c) == claim[c].bound # None /\ claim[c].bound = Lineage[card[c].def]

Checkpoint(c) ==
    /\ WorkerMay(c) /\ card[c].status = "in_progress" /\ OnLineage(c)
    /\ Moved(c, "in_progress") /\ UNCHANGED <<reserved, receipts>>

Submit(c, head) ==
    /\ WorkerMay(c) /\ card[c].status = "in_progress" /\ OnLineage(c)
    /\ submitted' = [submitted EXCEPT ![c] = head]
    /\ Moved(c, "review") /\ UNCHANGED <<reserved, integrated>>

Block(c, retain) ==
    /\ WorkerMay(c) /\ card[c].status \in Active \ {"blocked"}
    /\ ReservePaths(c, IF retain THEN reserved[c] ELSE {})
    /\ Moved(c, "blocked") /\ UNCHANGED receipts

Resume(c) ==
    /\ WorkerMay(c) /\ card[c].status = "blocked"
    /\ IF reserved[c] = {} THEN FreeFor(c, card[c].paths) /\ ReservePaths(c, card[c].paths)
                           ELSE UNCHANGED reserved
    /\ Moved(c, "in_progress") /\ UNCHANGED receipts

Heartbeat(c) ==
    /\ Fenced(c) /\ claim[c].lease # "void" /\ ~card[c].frozen
    /\ claim' = [claim EXCEPT ![c].lease = "live"]
    /\ UNCHANGED <<card, reserved, receipts, inbox, epoch>>

-----------------------------------------------------------------------------
(* Coordinators approve, and take cards back.                              *)

\* The head it names is that of the latest submission.
Integrate(c) ==
    /\ CoordinatorMay(c) /\ card[c].status = "review" /\ submitted[c] # None
    /\ integrated' = [integrated EXCEPT ![c] = submitted[c]]
    /\ Moved(c, "verifying") /\ UNCHANGED <<reserved, submitted>>

Closed(c, status) ==
    /\ card' = [card EXCEPT ![c].status = status, ![c].owner = None]
    /\ claim' = [claim EXCEPT ![c] = None]

\* Mutant: a card in review that was integrated once may be accepted.
AcceptableAgain(c) == card[c].status \in {"review", "verifying"} /\ integrated[c] # None

Acceptable(c) == card[c].status = "verifying" /\ integrated[c] # None

Accept(c) ==
    /\ CoordinatorMay(c) /\ Acceptable(c)
    /\ Closed(c, "done") /\ ReservePaths(c, {})
    /\ UNCHANGED <<receipts, inbox, epoch>>

CancelCard(c) ==
    /\ card[c].status \in Active \cup {"ready", "backlog"}
    /\ Closed(c, "cancelled") /\ ReservePaths(c, {})
    /\ UNCHANGED <<receipts, inbox, epoch>>

Requeue(c) ==
    /\ card[c].status \in Active /\ FreeFor(c, card[c].paths)
    /\ Closed(c, "ready") /\ ReservePaths(c, card[c].paths)
    /\ UNCHANGED <<receipts, inbox, epoch>>

Reassign(c, w) ==
    /\ card[c].status \in Active /\ Claimed(c) /\ HoldsNothing(w)
    /\ w \in Allowed[card[c].def] /\ FreeFor(c, card[c].paths)
    /\ HandTo(c, w)
    /\ ReservePaths(c, card[c].paths) /\ UNCHANGED <<receipts, inbox, epoch>>

Lapsed(c) == IF claim[c].lease = "live" THEN "live" ELSE "void"

Retold(c, def, fence) ==
    [claim[c] EXCEPT !.fence = fence, !.lease = Lapsed(c), !.bundle = Bundle(c, def, claim[c].owner, fence)]

\* A new definition for a card in any status; a claim on it gets a new fence.
Revalidate(c, def) ==
    /\ card[c].status # "none"
    /\ Claimed(c) => claim[c].owner \in Allowed[def] /\ MayFence
    /\ LET fence == card[c].fence + IF Claimed(c) THEN 1 ELSE 0
       IN /\ card' = [card EXCEPT ![c].def = def, ![c].fence = fence, ![c].frozen = FALSE]
          /\ claim' = IF Claimed(c) THEN [claim EXCEPT ![c] = Retold(c, def, fence)] ELSE claim
    /\ UNCHANGED <<reserved, receipts, inbox, epoch>>

BackendEpoch ==
    /\ epoch < MaxEpoch /\ \A c \in Cards : ~Claimed(c)
    /\ epoch' = epoch + 1
    /\ UNCHANGED <<card, claim, reserved, receipts, inbox>>

-----------------------------------------------------------------------------
(* Time, and Linear.                                                       *)

Expire(c) ==
    /\ Claimed(c) /\ claim[c].lease = "live"
    /\ claim' = [claim EXCEPT ![c].lease = "late"]
    /\ UNCHANGED <<card, reserved, receipts, inbox, epoch>>

\* _expiry_preflight of a call it refuses.
NoteExpiry(c) ==
    /\ Claimed(c) /\ claim[c].lease # "live" /\ ~card[c].attention
    /\ card' = [card EXCEPT ![c].attention = TRUE] /\ claim' = Touched(c)
    /\ UNCHANGED <<reserved, receipts, inbox, epoch>>

\* A change of a protected field, once per delivery.
Webhook(c, delivery) ==
    /\ delivery \notin inbox /\ inbox' = inbox \cup {delivery}
    /\ IF Claimed(c) /\ ~card[c].frozen
         THEN /\ card' = [card EXCEPT ![c].frozen = TRUE, ![c].attention = TRUE]
              /\ claim' = Touched(c)
         ELSE UNCHANGED <<card, claim>>
    /\ UNCHANGED <<reserved, receipts, epoch>>

-----------------------------------------------------------------------------
WorkplanNext ==
    \/ \E c \in Cards :
        \/ \E def \in DefsOf[c], ps \in PathsOf[c], deps \in DepsOf[c], ready \in BOOLEAN :
               Qualify(c, def, ps, deps, ready)
        \/ \E w \in Workers : Claim(c, w) \/ Reassign(c, w)
        \/ Bind(c) \/ Checkpoint(c) \/ (\E h \in HeadsOf[c] : Submit(c, h))
        \/ (\E retain \in BOOLEAN : Block(c, retain)) \/ Resume(c) \/ Heartbeat(c)
        \/ Integrate(c) \/ Accept(c) \/ CancelCard(c) \/ Requeue(c)
        \/ (\E def \in DefsOf[c] : Revalidate(c, def))
        \/ Expire(c) \/ NoteExpiry(c) \/ (\E d \in Deliveries : Webhook(c, d))
    \/ BackendEpoch

WorkplanSpec == WorkplanInit /\ [][WorkplanNext]_workplan

-----------------------------------------------------------------------------
(* Properties.                                                             *)

\* No two cards hold reservations that overlap; a card anybody may claim, or
\* one that is finished, holds exactly what it should: it is neither refused
\* for ever as "reservation_lost" nor in the way of others.
ReservationsApart ==
    \A c \in Cards :
      /\ card[c].status = "ready" => reserved[c] = card[c].paths
      /\ card[c].status \in {"none", "backlog", "done", "cancelled"} => reserved[c] = {}
      /\ \A d \in Cards \ {c} : ~Clash(reserved[c], reserved[d])

\* A worker has one card at a time, and the card names the one who has it.
OneCardPerSeat ==
    /\ \A c \in Cards : Claimed(c) <=> card[c].status \in Active
    /\ \A c \in Cards : Claimed(c) => claim[c].owner = card[c].owner
    /\ \A c, d \in Cards : Claimed(c) /\ Claimed(d) /\ claim[c].owner = claim[d].owner => c = d

\* Whoever holds a claim was told the task as it stands under the fence it has:
\* no sequence of calls leaves a claim that every later call would refuse.
SeatKnowsItsTask == \A c \in Cards : Claimed(c) => Fenced(c)

\* No worker has two cards, and none has a card that no call can move.
SeatsAreSound == OneCardPerSeat /\ SeatKnowsItsTask

\* What is verified or done is what was submitted last, not an earlier head
\* that happened to be integrated.
DoneIsIntegrated ==
    \A c \in Cards : card[c].status \in {"verifying", "done"} =>
        submitted[c] # None /\ integrated[c] = submitted[c]

=============================================================================
