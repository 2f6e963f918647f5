----------------------------- MODULE ToolServers -----------------------------
(* The MCP servers of a console (web/app.py, tools/mcp.py): their            *)
(* configurations, the tools that were mirrored from them into the registry  *)
(* (tools/registry.py), and the outcome of the last load, by which the       *)
(* engine decides whether a tool may be used.  A load clears the tools,      *)
(* waits for the server, and registers what it listed; servers are changed,  *)
(* deleted and loaded again meanwhile.                                       *)
EXTENDS Integers, Functions

CONSTANTS Servers, Tools, Contents, None, Loads, MaxEdits, MaxRestarts

VARIABLES
    config,     \* [Servers -> None or [content, on, plain]], as in the file
    tools,      \* [Servers -> the tools registered, each with the content its handler was made from]
    outcome,    \* [Servers -> [kind, of]]: the last load and the configuration it was of
    load,       \* [Loads -> [server, made]]: the loads that wait for a server
    answered,   \* [Servers -> BOOLEAN]: the load of the configuration as it is was answered with success
    crowded,    \* [Servers -> BOOLEAN]: two loads of the server have overlapped
    edits, restarts

vars == <<config, tools, outcome, load, answered, crowded, edits, restarts>>

Configs == [content : Contents, on : BOOLEAN, plain : BOOLEAN]
NoTools == [t \in {} |-> 0]
NoLoad == [server |-> None, made |-> None]
Nothing == [kind |-> "none", of |-> None]
Failed == [kind |-> "failed", of |-> None]
Loaded(made) == [kind |-> "loaded", of |-> made]

Waiting(s) == \E l \in Loads : load[l].server = s

(***************************************************************************)
(* Starting: every enabled server is loaded before the first request.      *)

Lists(s, listing) == config[s] = None \/ ~config[s].on => listing = {}
BootTools(listing) == [s \in Servers |-> [t \in listing[s] |-> config[s].content]]
BootOutcome(listing) ==
    [s \in Servers |-> IF config[s] = None THEN Nothing
                       ELSE IF listing[s] = {} THEN Failed ELSE Loaded(config[s])]
\* What the servers may answer.
Answers == {listing \in [Servers -> SUBSET Tools] : \A s \in Servers : Lists(s, listing[s])}
Calm == [s \in Servers |-> FALSE]

\* The file may have been written by hand.
Init ==
    /\ config \in [Servers -> Configs \cup {None}]
    /\ \E listing \in Answers : tools = BootTools(listing) /\ outcome = BootOutcome(listing)
    /\ load = [l \in Loads |-> NoLoad]
    /\ answered = Calm /\ crowded = Calm
    /\ edits = 0 /\ restarts = 0

Restart ==
    /\ restarts < MaxRestarts /\ restarts' = restarts + 1
    /\ \E listing \in Answers : tools' = BootTools(listing) /\ outcome' = BootOutcome(listing)
    /\ load' = [l \in Loads |-> NoLoad]
    /\ answered' = Calm /\ crowded' = Calm
    /\ UNCHANGED <<config, edits>>

(***************************************************************************)
(* The configuration.  To save the file obscures the secrets in memory too. *)

Obscured(c) == [s \in Servers |-> IF c[s] = None THEN None ELSE [c[s] EXCEPT !.plain = FALSE]]

\* A server is changed or deleted: its tools and its outcome go.
Edit(s, new) ==
    /\ edits < MaxEdits /\ edits' = edits + 1
    /\ config' = Obscured([config EXCEPT ![s] = new])
    /\ tools' = [tools EXCEPT ![s] = NoTools]
    /\ outcome' = [outcome EXCEPT ![s] = Nothing]
    /\ answered' = [answered EXCEPT ![s] = FALSE]
    /\ crowded' = [crowded EXCEPT ![s] = @ /\ Waiting(s)]
    /\ UNCHANGED <<load, restarts>>
Update(s) == \E new \in Configs : new.plain /\ Edit(s, new)
Delete(s) == config[s] # None /\ Edit(s, None)

\* Something else of the file is saved.
SaveOther ==
    /\ config' = Obscured(config) /\ config' # config
    /\ UNCHANGED <<tools, outcome, load, answered, crowded, edits, restarts>>

(***************************************************************************)
(* A load.                                                                 *)

\* The tools go first, whatever comes; a server that is switched off is not asked.
LoadBegins(l, s) ==
    /\ load[l] = NoLoad /\ config[s] # None
    /\ tools' = [tools EXCEPT ![s] = NoTools]
    /\ answered' = [answered EXCEPT ![s] = FALSE]
    /\ crowded' = [crowded EXCEPT ![s] = Waiting(s)]
    /\ IF config[s].on
       THEN load' = [load EXCEPT ![l] = [server |-> s, made |-> config[s]]] /\ UNCHANGED outcome
       ELSE outcome' = [outcome EXCEPT ![s] = Failed] /\ UNCHANGED load
    /\ UNCHANGED <<config, edits, restarts>>

\* The server cannot be reached, or does not answer in time.
LoadFails(l) ==
    /\ load[l] # NoLoad
    /\ outcome' = [outcome EXCEPT ![load[l].server] = Failed]
    /\ load' = [load EXCEPT ![l] = NoLoad]
    /\ UNCHANGED <<config, tools, answered, crowded, edits, restarts>>

\* Mutant: the fingerprint is taken when the server has answered.
FingerprintAfter(l) == config[load[l].server]

\* The configuration the load was of: its fingerprint is taken before the wait.
Fingerprint(l) == load[l].made

\* The server answers: what it lists is registered one by one, until a name is
\* taken, which ends the request without an outcome.
LoadLists(l, listing) ==
    /\ load[l] # NoLoad
    /\ LET s == load[l].server
           taken == listing \cap DOMAIN tools[s]
           Registered(some) == [t \in DOMAIN tools[s] \cup some |->
                                   IF t \in some THEN load[l].made.content ELSE tools[s][t]]
       IN  \/ /\ taken = {}
              /\ tools' = [tools EXCEPT ![s] = Registered(listing)]
              /\ outcome' = [outcome EXCEPT ![s] = IF listing = {} THEN Failed ELSE Loaded(Fingerprint(l))]
              /\ answered' = [answered EXCEPT ![s] = listing # {} /\ config[s] = load[l].made]
           \/ /\ taken # {}
              /\ \E some \in SUBSET (listing \ taken) : tools' = [tools EXCEPT ![s] = Registered(some)]
              /\ UNCHANGED <<outcome, answered>>
    /\ load' = [load EXCEPT ![l] = NoLoad]
    /\ UNCHANGED <<config, crowded, edits, restarts>>

Next ==
    \/ Restart \/ SaveOther
    \/ \E s \in Servers : Update(s) \/ Delete(s)
    \/ \E l \in Loads : \/ \E s \in Servers : LoadBegins(l, s)
                        \/ \E listing \in SUBSET Tools : LoadLists(l, listing)
                        \/ LoadFails(l)

Spec == Init /\ [][Next]_vars

\* What the engine asks before a step uses a tool.
MayBeUsed(s, t) ==
    /\ t \in DOMAIN tools[s]
    /\ config[s] # None /\ config[s].on
    /\ outcome[s] = Loaded(config[s])

(***************************************************************************)
(* Properties.                                                             *)

\* A tool that may be used calls the server as it is configured now, and a load
\* that was answered with success makes its tools usable until somebody changes
\* the server or loads it anew: unless two loads of the server overlapped, or
\* its secrets were still in the clear when it was loaded.
ToolsAreCurrent ==
    \A s \in Servers : ~crowded[s] =>
        /\ \A t \in DOMAIN tools[s] : MayBeUsed(s, t) => tools[s][t] = config[s].content
        /\ answered[s] => \/ DOMAIN tools[s] # {} /\ \A t \in DOMAIN tools[s] : MayBeUsed(s, t)
                          \/ outcome[s].of.plain
=============================================================================
