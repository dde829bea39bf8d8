--------------------------- MODULE MCPolicyServing ---------------------------
(* Small instances of PolicyServing. *)
EXTENDS PolicyServing

MCPolicyFiles == <<"a", "b", "t">>
PolicyWorld(edits, crashes, faults, decisions, published, pin) ==
  [test |-> [f \in ToSet(MCPolicyFiles) |-> f = "t"], models |-> 1, pinned |-> pin,
   budget |-> [edits |-> edits, crashes |-> crashes, faults |-> faults, decisions |-> decisions,
               models |-> published]]

Editing == PolicyWorld(2, 1, 1, 1, 0, 1)
Deciding == PolicyWorld(1, 1, 1, 2, 0, 1)
\* Only the authorization model changes: the directory holds no policies.
Bare == [f \in ToSet(MCPolicyFiles) |-> TRUE]
Modelling == [PolicyWorld(0, 1, 1, 2, 2, 0) EXCEPT !.test = Bare]
Unmodelled == [PolicyWorld(0, 1, 1, 1, 1, 0) EXCEPT !.models = 0]

\* The component at rest while another one runs: no policies, nothing to serve.
Unserved == [Editing EXCEPT !.test = Bare]

MCPolicyWorlds == {Editing, Deciding, Modelling, Unmodelled}
=============================================================================
