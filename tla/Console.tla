------------------------------- MODULE Console -------------------------------
(* What a console keeps, in one specification: the searches of a suite       *)
(* (HarnessOptimizer), its catalog of artifacts (ArtifactStore), its workers *)
(* (Fleet) and the tools of its MCP servers (ToolServers).  They share no    *)
(* state here; a behaviour is one of either.                                 *)
EXTENDS HarnessOptimizer

CONSTANTS
    Ids, Clients, Contents, None, MaxVersion, MaxRevision, MaxDrafts, MaxDeaths,
    Tiers, Workers, Providers, StandIn, MaxAdds, MaxUpdates, MaxReboots,
    McpServers, Tools, Settings, Loads, MaxEdits, MaxRestarts

VARIABLES
    part,
    catalog, draft, intent, versions, lock, client, births, deaths,
    agents, providers, file, registry, pools, request, up, adds, updates, reboots,
    config, tools, outcome, load, answered, crowded, edits, restarts

Store == INSTANCE ArtifactStore
Fleet == INSTANCE Fleet WITH Ids <- Workers, Default <- StandIn, MaxRestarts <- MaxReboots,
                             disk <- file, restarts <- reboots
Servers == INSTANCE ToolServers WITH Servers <- McpServers, Contents <- Settings

\* None is no caller and no artifact, no record of the store, of the registry or
\* of a provider, no server and no configuration of one; a tier's stand-in has a
\* name of its own.
ASSUME ConsoleAssumption ==
    /\ None \notin Clients \cup Ids
    /\ None \notin Store!Entries \cup Store!Drafts \cup Store!Intents \cup Store!Versions
    /\ {MaxVersion, MaxDrafts} \subseteq Nat
    /\ None \notin McpServers \cup Servers!Configs
    /\ StandIn \in [Tiers -> Workers] /\ \A s, t \in Tiers : StandIn[s] = StandIn[t] => s = t
    /\ None \notin [key : Nat, tier : Tiers, active : BOOLEAN] \cup {"url", "empty"}

store == <<catalog, draft, intent, versions, lock, client, births, deaths>>
fleet == <<agents, providers, file, registry, pools, request, up, adds, updates, reboots>>
servers == <<config, tools, outcome, load, answered, crowded, edits, restarts>>
all == <<part, vars, store, fleet, servers>>

ConsoleInit ==
    /\ part \in {"searches", "stores", "fleet", "servers"}
    /\ Init /\ Store!Init /\ Fleet!Init /\ Servers!Init
    /\ part # "fleet" => \A p \in Providers : providers[p] = None
    /\ part # "servers" => \A s \in McpServers : config[s] = None

ConsoleNext ==
    /\ UNCHANGED part
    /\ \/ part = "searches" /\ Next /\ UNCHANGED <<store, fleet, servers>>
       \/ part = "stores" /\ Store!Next /\ UNCHANGED <<vars, fleet, servers>>
       \/ part = "fleet" /\ Fleet!Next /\ UNCHANGED <<vars, store, servers>>
       \/ part = "servers" /\ Servers!Next /\ UNCHANGED <<vars, store, fleet>>

ConsoleSpec == ConsoleInit /\ [][ConsoleNext]_all /\ WF_vars(part = "searches" /\ Step)

\* The properties of the parts, under names a configuration can give.
PublicationsComplete == Store!PendingCanComplete /\ Store!PublishedOnce
FleetIsSound == Fleet!PoolsAreTheRegistry /\ Fleet!KeptComesBack
ToolsAreCurrent == Servers!ToolsAreCurrent
=============================================================================
