---------------------------- MODULE WorkflowRunMC ----------------------------
(***************************************************************************)
(* Instances of WorkflowRun for TLC: small workflows that reach each branch*)
(* of the step loop.                                                       *)
(***************************************************************************)
EXTENDS WorkflowRun, TLC

Plain == [deps |-> {}, gate |-> "none", toolGate |-> FALSE, tools |-> FALSE,
          refs |-> {}, src |-> NoStep, accepts |-> {}]

Reads(s) == {[step |-> s, readable |-> {"yes"}]}

\* A draft reviewed as an artifact, a branch on its output behind a before
\* gate, and a step that depends on the branch.
Branching ==
    [order |-> <<"a", "b", "c">>,
     step |-> [a |-> [Plain EXCEPT !.gate = "after"],
               b |-> [Plain EXCEPT !.deps = {"a"}, !.gate = "before",
                                   !.src = "a", !.accepts = {"yes"}],
               c |-> [Plain EXCEPT !.deps = {"b"}]]]

\* A step with an external tool, and two that read the output of another.
Tooled ==
    [order |-> <<"a", "b", "c">>,
     step |-> [a |-> [Plain EXCEPT !.toolGate = TRUE, !.tools = TRUE],
               b |-> [Plain EXCEPT !.deps = {"a"}, !.refs = Reads("a")],
               c |-> [Plain EXCEPT !.deps = {"a"}]]]

\* Both kinds of gate and a condition on the reviewed output.
Reviewed ==
    [order |-> <<"a", "b">>,
     step |-> [a |-> [Plain EXCEPT !.gate = "after"],
               b |-> [Plain EXCEPT !.deps = {"a"}, !.gate = "before",
                                   !.src = "a", !.accepts = {"yes"}]]]

GatedFlows == {Branching, Tooled}
ReviewedFlows == {Reviewed}

=============================================================================
