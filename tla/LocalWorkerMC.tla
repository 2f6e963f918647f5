---------------------------- MODULE LocalWorkerMC ----------------------------
(* LocalWorker with four tasks, scaled down: a dozen tokens of room, texts *)
(* of some letters, and a marker of four.                                  *)
EXTENDS LocalWorker, TLC

Frontier ==
    ("system_instructions" :> 16) @@ ("response_contract" :> 4) @@ ("task_contract" :> 18)
    @@ ("workflow_state" :> 10) @@ ("verifier_feedback" :> 6) @@ ("prior_outputs" :> 18)

Lengths(system, boundaries, schema, objective, inputs, advice) ==
    [system |-> system, boundaries |-> boundaries, schema |-> schema,
     objective |-> objective, inputs |-> inputs, advice |-> advice]

\* Many small sections; a long system prompt; a short task; one that never fits.
FourTasks == {
    [given |-> Lengths(1, 1, 1, 1, 1, 1), tools |-> {"read", "find"}],
    [given |-> Lengths(40, 0, 0, 2, 2, 0), tools |-> {"find"}],
    [given |-> Lengths(3, 0, 0, 3, 0, 0), tools |-> {"find"}],
    [given |-> Lengths(30, 30, 30, 90, 40, 30), tools |-> {}]}

\* A plain answer, one call, two calls, and two with long arguments.
FourReplies == {
    [size |-> 8, calls |-> <<>>, tokens |-> 1],
    [size |-> 0, calls |-> <<"find">>, tokens |-> 1],
    [size |-> 3, calls |-> <<"read", "find">>, tokens |-> 2],
    [size |-> 3, calls |-> <<"read", "find">>, tokens |-> 20]}
=============================================================================
