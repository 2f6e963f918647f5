----------------------------- MODULE LocalWorker -----------------------------
(***************************************************************************)
(* OpenAICompatWorker (harness/local.py) at work: in up to MaxRounds       *)
(* rounds the model may call tools, and every round declares what was said *)
(* as sections, fits them to the budget, and sends the whole context again *)
(* or refuses to (assemble_live in context/live.py).  A text is its        *)
(* length; what is redacted in it, and the hashes over it, are left out.   *)
(*                                                                         *)
(* The registry of tools is the harness's: what an MCP server brought into *)
(* it comes and goes while the worker waits for the model or for a tool.   *)
(***************************************************************************)
EXTENDS Integers, Sequences, FiniteSetsExt

CONSTANTS
    Contracts,  \* the tasks: [given : [Fields -> length, 0 when there is none], tools : SUBSET Tools]
    Tools, External,                 \* External: from an MCP server, not builtin
    Replies,    \* of the model: [size, calls : Seq(names), tokens], tokens: of the calls as JSON
    Results,    \* lengths of a tool's answers, an error it reports included
    Weight, Room, MaxRounds,         \* Room: budget_for, in tokens
    SchemaTokens, IdTokens, Marker   \* of a tool's schema, of a tool_call_id; length of "[...pruned n chars...]"

Fields == {"system", "boundaries", "schema", "objective", "inputs", "advice"}
Slots == {"system_instructions", "response_contract"}
Types == Slots \cup {"task_contract", "workflow_state", "verifier_feedback", "prior_outputs"}

ASSUME LocalWorkerAssumption ==
    /\ \A c \in Contracts : c.given \in [Fields -> Nat] /\ c.tools \subseteq Tools
    /\ External \subseteq Tools /\ Results \subseteq Nat
    /\ \A r \in Replies : r.size \in Nat /\ r.tokens \in Nat /\ r.calls \in Seq(STRING)
    /\ Weight \in [Types -> Nat \ {0}]
    /\ {Room, MaxRounds, SchemaTokens, IdTokens, Marker} \subseteq Nat

VARIABLES
    tools,         \* the registry
    contract, pc,  \* pc: "idle", "assemble", "post" (the model is asked), "tools"
    round,
    offered,       \* the tools whose schemas are sent, as of the beginning
    drafts,        \* the sections declared so far
    sent,          \* the sections as they were sent last
    calls,         \* of this round, not yet made
    outcome,
    refused        \* an attempt of this task was refused

attempt == <<contract, pc, round, offered, drafts, sent, calls, outcome, refused>>
worker == <<tools, attempt>>

-----------------------------------------------------------------------------
(* What is declared.  Trust is, too: it does not follow from the role.     *)

Draft(id, type, trust, role, size) ==
    [id |-> id, type |-> type, trust |-> trust, role |-> role, size |-> size, extra |-> 0, calls |-> 0]

Given(draft) == IF draft.size = 0 THEN <<>> ELSE <<draft>>

Declared(c) ==
    LET own(field, type, trust, role) == Draft(<<field, 0, 0>>, type, trust, role, c.given[field])
    IN  <<own("system", "system_instructions", "instruction", "system")>>
        \o Given(own("boundaries", "response_contract", "instruction", "system"))
        \o Given(own("schema", "response_contract", "instruction", "system"))
        \o <<own("objective", "task_contract", "instruction", "user")>>
        \o Given(own("inputs", "workflow_state", "untrusted_evidence", "user"))
        \o Given(own("advice", "verifier_feedback", "generated_summary", "user"))

Said(kind, n, role, size, extra, asked) ==
    [id |-> <<kind, round, n>>, type |-> "prior_outputs", trust |-> "untrusted_evidence",
     role |-> role, size |-> size, extra |-> extra, calls |-> asked]

Turn(reply) == Said("turn", 0, "assistant", reply.size, reply.tokens, Len(reply.calls))

\* The answer to the next call: drafts ends with the turn and the answers before.
Observation(size) == Said("observation", drafts[Len(drafts)].id[3] + 1, "tool", size, IdTokens, 0)

-----------------------------------------------------------------------------
(* assemble_live.                                                          *)

Distinct(ds) == \A i, j \in DOMAIN ds : ds[i].id = ds[j].id => i = j

\* Only an instruction is in an instruction's place.
Trusted(draft) ==
    /\ draft.type \in Slots => draft.trust = "instruction"
    /\ draft.role = "system" => draft.trust = "instruction" /\ draft.type \in Slots

Estimate(size) == size \div 4 + 1

\* The budget in parts by weight; the largest remainders get what is left.
Shares(ds) ==
    LET all == MapThenSumSet(LAMBDA i : Weight[ds[i].type], DOMAIN ds)
        part == [i \in DOMAIN ds |-> Room * Weight[ds[i].type]]
        left == Room - MapThenSumSet(LAMBDA i : part[i] \div all, DOMAIN ds)
        before(i) == {j \in DOMAIN ds : \/ part[j] % all > part[i] % all
                                        \/ part[j] % all = part[i] % all /\ j < i}
    IN  [i \in DOMAIN ds |-> part[i] \div all + (IF Cardinality(before(i)) < left THEN 1 ELSE 0)]

\* digest_text: head, marker and tail of a text that is too long.
Digest(size, most) ==
    IF size <= most THEN size
    ELSE (7 * most) \div 10 + Marker + (IF most > 10 THEN (3 * most) \div 10 ELSE 0)

Fitted(draft, share) ==
    LET as(size, action) == [draft |-> draft, size |-> size, action |-> action]
        most == IF share = 0 THEN 1 ELSE 4 * share
    IN  CASE Estimate(draft.size) <= share -> as(draft.size, "none")
          [] share = 0 /\ draft.type \notin Slots /\ draft.size # 0 -> as(0, "omitted")
          [] OTHER -> as(Digest(draft.size, most), IF draft.size <= most THEN "none" ELSE "head_tail")

Sections(ds) == LET share == Shares(ds) IN [i \in DOMAIN ds |-> Fitted(ds[i], share[i])]

\* Neighbouring texts of one role become one message; a turn of the assistant
\* and an answer of a tool are messages of their own.
Text(section) == section.draft.role \in {"system", "user"}
\* Mutant: whatever has one role becomes one message.
JoinsByRole(ss, i) == i > 1 /\ ss[i].draft.role = ss[i - 1].draft.role
Joins(ss, i) ==
    i > 1 /\ Text(ss[i]) /\ Text(ss[i - 1]) /\ ss[i].draft.role = ss[i - 1].draft.role
Starts(ss) == {i \in DOMAIN ss : ~Joins(ss, i)}
Message(ss, i) == {j \in DOMAIN ss : i <= j /\ \A k \in i + 1 .. j : Joins(ss, k)}

\* What is sent, in tokens; an empty line stands between the texts of a message.
Total(ss) ==
    LET content(msg) == MapThenSumSet(LAMBDA i : ss[i].size, msg) + 2 * (Cardinality(msg) - 1)
    IN  MapThenSumSet(LAMBDA i : Estimate(content(Message(ss, i))), Starts(ss))
        + MapThenSumSet(LAMBDA i : ss[i].draft.extra, DOMAIN ss)
        + SchemaTokens * Cardinality(offered)

\* What the manifest says of a message: it is trusted as little as its least
\* trusted part; of a tool: by where it came from.
Trusting(trust) == CASE trust = "untrusted_evidence" -> 0 [] trust = "generated_summary" -> 1 [] OTHER -> 2
Weakest(ss, msg) == CHOOSE i \in msg : \A j \in msg : Trusting(ss[i].draft.trust) <= Trusting(ss[j].draft.trust)
EntryTrust(ss, msg) == ss[Weakest(ss, msg)].draft.trust
SchemaTrust(tool) == IF tool \in External THEN "untrusted_evidence" ELSE "instruction"
SchemaEntries == [tool \in offered |-> SchemaTrust(tool)]

\* What the records check of themselves (context/models.py); an exception of
\* theirs is no refusal.
SectionsAreValid(ss) ==
    \A i \in DOMAIN ss :
        /\ ss[i].action = "none" => ss[i].size = ss[i].draft.size
        /\ ss[i].action = "omitted" => ss[i].size = 0 /\ ss[i].draft.type \notin Slots

EnvelopeIsValid(ss) == Distinct([i \in DOMAIN ss |-> ss[i].draft])

EntriesAreValid == \A tool \in offered \cap External : SchemaEntries[tool] # "instruction"

\* It checks the envelope again, as it is written out.
ManifestIsValid(ss) == EntriesAreValid /\ EnvelopeIsValid(ss)

-----------------------------------------------------------------------------
(* An attempt: BaseRunner.run makes a result of whatever happens.          *)

WorkerInit ==
    /\ tools = Tools
    /\ contract \in Contracts /\ pc = "idle" /\ round = 0 /\ offered = {}
    /\ drafts = <<>> /\ sent = <<>> /\ calls = <<>>
    /\ outcome = "none" /\ refused = FALSE

End(how) ==
    /\ pc' = "idle" /\ outcome' = how
    /\ refused' = (refused \/ how = "contract")
    /\ UNCHANGED <<tools, contract, round, offered, drafts, sent, calls>>

\* A task may name tools that have gone.
Schemas(c) == c.tools \cap tools

Start(c) ==
    /\ pc = "idle" /\ pc' = "assemble"
    /\ contract' = c /\ round' = 0 /\ offered' = Schemas(c)
    /\ drafts' = Declared(c) /\ sent' = <<>> /\ calls' = <<>> /\ outcome' = "none"
    /\ refused' = (refused /\ c = contract)
    /\ UNCHANGED tools

Send(ss) ==
    /\ sent' = ss /\ pc' = "post"
    /\ UNCHANGED <<tools, contract, round, offered, drafts, calls, outcome, refused>>

\* First who may say what, then the records of the sections, then the budget,
\* then the manifest.
Assemble ==
    /\ pc = "assemble"
    /\ LET ss == Sections(drafts)
           trusted == Distinct(drafts) /\ \A i \in DOMAIN drafts : Trusted(drafts[i])
           valid == SectionsAreValid(ss) /\ EnvelopeIsValid(ss)
           fits == Total(ss) <= Room
       IN  \/ ~trusted /\ End("contract")
           \/ trusted /\ ~valid /\ End("malformed")
           \/ trusted /\ valid /\ ~fits /\ End("contract")
           \/ trusted /\ valid /\ fits /\ ~ManifestIsValid(ss) /\ End("malformed")
           \/ trusted /\ valid /\ fits /\ ManifestIsValid(ss) /\ Send(ss)

\* The last round's answer is final, even when it calls tools.
Final(reply) == reply.calls = <<>> \/ offered = {} \/ round = MaxRounds

Reply(reply) ==
    /\ pc = "post"
    /\ \/ Final(reply) /\ End("output")
       \/ /\ ~Final(reply)
          /\ drafts' = Append(drafts, Turn(reply)) /\ calls' = reply.calls /\ pc' = "tools"
          /\ UNCHANGED <<tools, contract, round, offered, sent, outcome, refused>>

PostFails(how) == pc = "post" /\ End(how)

CallTool(size) ==
    /\ pc = "tools" /\ Head(calls) \in tools
    /\ drafts' = Append(drafts, Observation(size)) /\ calls' = Tail(calls)
    /\ pc' = IF calls' = <<>> THEN "assemble" ELSE "tools"
    /\ round' = IF calls' = <<>> THEN round + 1 ELSE round
    /\ UNCHANGED <<tools, contract, offered, sent, outcome, refused>>

\* The tool is not there (any more), or its handler raises.
CallFails == pc = "tools" /\ End("error")

\* An MCP server is loaded again, or goes.
Reload(tool) ==
    /\ tools' \in {tools \cup {tool}, tools \ {tool}}
    /\ UNCHANGED attempt

WorkerNext ==
    \/ \E c \in Contracts : Start(c)
    \/ Assemble
    \/ \E reply \in Replies : Reply(reply)
    \/ \E how \in {"timeout", "error"} : PostFails(how)
    \/ \E size \in Results : CallTool(size)
    \/ CallFails
    \/ \E tool \in External : Reload(tool)

WorkerSpec == WorkerInit /\ [][WorkerNext]_worker

-----------------------------------------------------------------------------

\* Every turn of the assistant that is sent is followed by the answers to its
\* calls, all of them and in their order, every answer follows its turn, and each
\* is a message of its own.
TurnsAreAnswered ==
    \A i \in DOMAIN sent : LET d == sent[i].draft IN
        /\ d.role = "assistant" => \A k \in 1 .. d.calls :
               i + k \in DOMAIN sent /\ sent[i + k].draft.id = <<"observation", d.id[2], k>>
        /\ d.role = "tool" =>
               /\ d.id[3] \in 1 .. i - 1
               /\ sent[i - d.id[3]].draft.id = <<"turn", d.id[2], 0>>
               /\ d.id[3] <= sent[i - d.id[3]].draft.calls
        /\ d.role \in {"assistant", "tool"} => i \in Starts(sent) /\ Message(sent, i) = {i}

\* What the model is asked in a round holds its turns of all the rounds before.
RoundsAreKept ==
    pc \in {"post", "tools"} =>
        \A r \in 0 .. round - 1 : \E i \in DOMAIN sent : sent[i].draft.id = <<"turn", r, 0>>

\* The system message holds instructions only, and the manifest trusts no
\* message more than what is in it.
TrustIsDeclared ==
    \A m \in DOMAIN sent : \A i \in Message(sent, m) :
        /\ sent[i].draft.role = "system" => sent[i].draft.trust = "instruction"
        /\ EntryTrust(sent, Message(sent, m)) = "instruction" => sent[i].draft.trust = "instruction"

\* Whatever the model and the tools say and however little room there is, what is
\* sent is a conversation: its texts may be cut, its order and its trust may not;
\* and when it cannot be sent the assembler refuses it, it does not fail.
ConversationIsSound ==
    /\ TurnsAreAnswered /\ RoundsAreKept /\ TrustIsDeclared
    /\ outcome # "malformed"

\* An attempt of a task that was refused is refused again: no attempt of it
\* answers (context/live.py:84-86, core/executor.py:525-528).
RefusalsRepeat == ~(refused /\ outcome = "output")
=============================================================================
