---------------------------- MODULE DiscoveryMC ----------------------------
(* A small discovery: two lineages, two attempts that anybody can mint an  *)
(* assignment for, four policies, two populations and four heartbeats.     *)
EXTENDS Discovery, TLC

CONSTANTS a, b, Attempt1, Attempt2

\* Two attempts, each of which anybody can mint for lineage a or b.
Assignments == [attempt : {Attempt1, Attempt2}, lineage : {a, b}]
Twins == Permutations({a, b}) \cup Permutations({Attempt1, Attempt2})

\* Policies around the root one, each of which may follow it, but not one
\* another: a baseline, a wider one of another selector, and a more diverse one
\* that reseeds less often.
Dsl(selector, width, floor, reseed, cap) ==
    [selector |-> selector, explorers |-> 1, width |-> width, concurrency |-> width, depth |-> 2,
     floor |-> floor, reseed |-> reseed, cap |-> cap, cost |-> 2]
Root == Dsl("elite", 2, 1, 2, 3)
Others == {Dsl("baseline", 2, 1, 2, 2), Dsl("diverse", 3, 1, 2, 3), Dsl("elite", 2, 2, 3, 4)}

\* A population that crowds on one lineage, one that is spread, and one of a
\* single node.
Node(lineage, tier) == [lineage |-> lineage, tier |-> tier, label |-> 3 - tier, structure |-> (lineage + tier) % 2]
Shape(nodes, concentration, cost, left) ==
    [nodes |-> nodes, depth |-> 1, concentration |-> concentration, diversity |-> 2, coverage |-> 1,
     spent |-> cost, cost |-> left]
Crowded == Shape(<<Node(1, 1), Node(1, 2), Node(2, 1)>>, 2, 1, 1)
Lone == Shape(<<Node(1, 1)>>, 4, 1, 1)
Described == {Crowded, Lone, Shape(<<Node(1, 1), Node(2, 2), Node(3, 1)>>, 1, 0, 2)}

HeartbeatOf(id, trigger, kind, cooldown, cost) ==
    [id |-> id, trigger |-> trigger, kind |-> kind, epsilon |-> 1, cooldown |-> cooldown, cost |-> cost]
Heart == <<HeartbeatOf("a", "plateau", "reflection", 2, 1),
           HeartbeatOf("b", "evidence", "redirection", 1, 0),
           HeartbeatOf("c", "evidence", "consolidation", 1, 1),
           HeartbeatOf("d", "time", "consolidation", 2, 1)>>
Counted == {[steps |-> 4, cost |-> 2], [steps |-> 0, cost |-> 1], [steps |-> 4, cost |-> -1]}

\* The population of the other parts does not matter.
SmallInit == DiscoveryInit /\ (part # "steering" => window.shape = Lone)
SmallSpec == SmallInit /\ [][DiscoveryNext]_discovery
=============================================================================
