-------------------------------- MODULE Fleet --------------------------------
(* The workers of a console (web/app.py, web/state.py): the durable agents   *)
(* and providers of config.json, the registry of identities                  *)
(* (identity/registry.py) and the pools the router takes workers from.  An   *)
(* admission waits for the endpoint in the middle, and other requests run    *)
(* meanwhile; the console is started again from the file.                    *)
(*                                                                           *)
(* A key is the number of the worker's admission; of an agent its id, tier   *)
(* and provider are kept, of a provider whether it has an address.  The      *)
(* order of agents and of the workers in a pool, which decides between equal *)
(* ones, is left out.                                                        *)
EXTENDS Integers

CONSTANTS Tiers, Ids, Providers, None,
          Default,       \* [Tiers -> Ids]: who fills a tier that nobody was configured for
          Clients, MaxAdds, MaxUpdates, MaxRestarts

VARIABLES
    agents,      \* the durable agents: [id, tier, provider]
    providers,   \* [Providers -> {None, "url", "empty"}]
    disk,        \* [agents, providers]: the file
    registry,    \* [Ids -> None or [key, tier, active]]
    pools,       \* [Tiers -> sets of [id, key]]
    request,     \* the admission each client waits for
    up,          \* the console runs; if not, it did not start
    adds, updates, restarts

vars == <<agents, providers, disk, registry, pools, request, up, adds, updates, restarts>>

NoRequest == [id |-> None, tier |-> None, provider |-> None, persist |-> FALSE]
Runner(id, key) == [id |-> id, key |-> key]
Identity(key, tier) == [key |-> key, tier |-> tier, active |-> TRUE]
Active(id) == registry[id] # None /\ registry[id].active

(***************************************************************************)
(* Starting.                                                               *)

Configured(file, t) == {a \in file.agents : a.tier = t}
Fills(file, t) == Configured(file, t) = {}
AgentIds(file) == {a.id : a \in file.agents}

\* An agent without an address, or a stand-in whose name is taken, stops it.
Boots(file) ==
    /\ \A a \in file.agents : file.providers[a.provider] = "url"
    /\ \A t \in Tiers : Fills(file, t) => Default[t] \notin AgentIds(file)

\* Every agent of the file in its pool, and a stand-in for each tier without.
BootedPools(file) ==
    [t \in Tiers |-> IF Fills(file, t) THEN {Runner(Default[t], 0)}
                     ELSE {Runner(a.id, 0) : a \in Configured(file, t)}]
BootedRegistry(file) ==
    LET In(id, t) == Runner(id, 0) \in BootedPools(file)[t]
    IN  [id \in Ids |-> IF \E t \in Tiers : In(id, t) THEN Identity(0, CHOOSE t \in Tiers : In(id, t)) ELSE None]

Init ==
    /\ agents = {} /\ providers \in [Providers -> {None, "url"}]
    /\ disk = [agents |-> agents, providers |-> providers]
    /\ pools = BootedPools(disk) /\ registry = BootedRegistry(disk)
    /\ request = [c \in Clients |-> NoRequest]
    /\ up = TRUE /\ adds = 0 /\ updates = 0 /\ restarts = 0

Restart ==
    /\ up /\ restarts < MaxRestarts /\ restarts' = restarts + 1
    /\ agents' = disk.agents /\ providers' = disk.providers
    /\ request' = [c \in Clients |-> NoRequest]
    /\ up' = Boots(disk)
    /\ pools' = IF up' THEN BootedPools(disk) ELSE [t \in Tiers |-> {}]
    /\ registry' = IF up' THEN BootedRegistry(disk) ELSE [id \in Ids |-> None]
    /\ UNCHANGED <<disk, adds, updates>>

(***************************************************************************)
(* Requests.                                                               *)

Saved == disk' = [agents |-> agents', providers |-> providers']

\* A patch of a provider that is kept or made: with an address, or without.
Patched(p) ==
    LET address == IF providers[p] = None THEN "empty" ELSE providers[p]
    IN  {[providers EXCEPT ![p] = a] : a \in {"url", address}}

\* The key that comes with the request goes to its provider, in memory only;
\* then the console waits for the endpoint, if there is an address.
AddBegins(c, id, tier, p, keyed, persist) ==
    /\ up /\ request[c] = NoRequest /\ adds < MaxAdds /\ adds' = adds + 1
    /\ \/ keyed /\ providers' \in Patched(p)
       \/ ~keyed /\ UNCHANGED providers
    /\ request' = IF providers'[p] = "url"
                  THEN [request EXCEPT ![c] = [id |-> id, tier |-> tier, provider |-> p, persist |-> persist]]
                  ELSE request
    /\ UNCHANGED <<agents, disk, registry, pools, up, updates, restarts>>

\* The endpoint is not there, or does not serve the model.
AddRefused(c) ==
    /\ request[c] # NoRequest
    /\ request' = [request EXCEPT ![c] = NoRequest]
    /\ UNCHANGED <<agents, providers, disk, registry, pools, up, adds, updates, restarts>>

\* The pools without the worker, whichever it was in.
Without(id) == [t \in Tiers |-> {r \in pools[t] : r.id # id}]

\* Mutant: only the pool that is about to get the worker is looked at.
ClearedThere(id, tier) == [pools EXCEPT ![tier] = Without(id)[tier]]
Cleared(id, tier) == Without(id)

Place(r, tier) == [Cleared(r.id, tier) EXCEPT ![tier] = @ \cup {r}]

Upserted(a) == {b \in agents : b.id # a.id} \cup {a}

\* The number of an identity's next admission.
NextKey(id) == IF registry[id] = None THEN 0 ELSE registry[id].key + 1

Admitted(id, tier) == [registry EXCEPT ![id] = Identity(NextKey(id), tier)]

Buildable(p) == providers[p] = "url"

\* The endpoint answered: the runner is built from what the configuration says
\* now, an identity that is live is retired first, the registry counts the
\* admission, the pool gets the runner, and the definition is kept.
AddEnds(c) ==
    /\ request[c] # NoRequest /\ Buildable(request[c].provider)
    /\ LET q == request[c]
       IN  /\ registry' = Admitted(q.id, q.tier)
           /\ pools' = Place(Runner(q.id, NextKey(q.id)), q.tier)
           /\ agents' = IF q.persist THEN Upserted([id |-> q.id, tier |-> q.tier, provider |-> q.provider]) ELSE agents
           /\ UNCHANGED providers
           /\ IF q.persist THEN Saved ELSE UNCHANGED disk
    /\ request' = [request EXCEPT ![c] = NoRequest]
    /\ UNCHANGED <<up, adds, updates, restarts>>

RemoveWorker(id) ==
    /\ up /\ registry[id] # None
    /\ registry' = [registry EXCEPT ![id].active = FALSE]
    /\ pools' = Without(id)
    /\ agents' = {a \in agents : a.id # id}
    /\ UNCHANGED <<providers, request, up, adds, updates, restarts>>
    /\ IF agents' # agents THEN Saved ELSE UNCHANGED disk

\* A provider is given another address, which may be none, or deleted if no
\* durable agent uses it.
UpdateProvider(p) ==
    /\ up /\ updates < MaxUpdates /\ updates' = updates + 1
    /\ providers' \in Patched(p) \cup {[providers EXCEPT ![p] = "empty"]}
    /\ UNCHANGED <<agents, registry, pools, request, up, adds, restarts>> /\ Saved

DeleteProvider(p) ==
    /\ up /\ providers[p] # None /\ \A a \in agents : a.provider # p
    /\ providers' = [providers EXCEPT ![p] = None]
    /\ UNCHANGED <<agents, registry, pools, request, up, adds, updates, restarts>> /\ Saved

Next ==
    \/ Restart
    \/ \E c \in Clients :
          \/ AddRefused(c) \/ AddEnds(c)
          \/ \E id \in Ids, t \in Tiers, p \in Providers, keyed, persist \in BOOLEAN :
                AddBegins(c, id, t, p, keyed, persist)
    \/ \E id \in Ids : RemoveWorker(id)
    \/ \E p \in Providers : DeleteProvider(p) \/ UpdateProvider(p)

Spec == Init /\ [][Next]_vars

(***************************************************************************)
(* Properties.                                                             *)

\* What is routed to is what is registered: however admissions, removals and
\* changes of tier overlap, a worker is in a pool exactly if its identity is
\* active, once, in the tier it was last admitted to and with the key the
\* registry checks its results against.
PoolsAreTheRegistry ==
    /\ \A id \in Ids, t \in Tiers :
          Active(id) /\ registry[id].tier = t <=> (\E r \in pools[t] : r.id = id)
    /\ \A t \in Tiers : \A r \in pools[t] :
          /\ r.key = registry[r.id].key
          /\ \A other \in pools[t] : other.id = r.id => other = r

\* What is kept comes back: whatever admissions wait and whatever is changed
\* meanwhile, every durable agent is live and in the file with its provider, so
\* that only an emptied address or the name of a stand-in of another tier can
\* keep the console from starting again with it.
KeptComesBack ==
    up => /\ disk.agents = agents
          /\ \A a \in agents : Active(a.id) /\ disk.providers[a.provider] # None
=============================================================================
