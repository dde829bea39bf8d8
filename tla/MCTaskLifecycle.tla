--------------------------- MODULE MCTaskLifecycle ---------------------------
(* Instances of TaskLifecycle for TLC.  alice owns the task; bob and carol *)
(* are the tenant's other approvers.                                       *)
EXTENDS TaskLifecycle, TLC

CONSTANTS alice, bob, carol

\* bob and carol hold the same grants, and calls of one kind run the same code.
Symmetric ==
    Permutations({bob, carol}) \cup Permutations(Submitters)
        \cup Permutations(Invokers) \cup Permutations(Voters)

Step(args, cost, decision) == [tool |-> "t1", args |-> args, cost |-> cost, decision |-> decision]

\* One step per plan, as the gateway submits them: gated by one approver or
\* by step-up, with two argument objects so that digests differ.
GatedPlans ==
    {[s \in {1} |-> Step("a1", 1, "APPROVAL_REQUIRED")],
     [s \in {1} |-> Step("a2", 1, "STEP_UP_REQUIRED")],
     [s \in {1} |-> Step("a1", 1, "DENY")]}

\* A plan of two steps that is allowed outright, and a gated plan that keeps
\* one of its step numbers.
ReplanPlans ==
    {[s \in {1, 2} |-> Step("a1", 1, "ALLOW")],
     [s \in {2} |-> Step("a2", 1, "APPROVAL_REQUIRED")]}

\* Two allowed steps, with estimates below and above their actual cost.
ExecutionPlans ==
    {[s \in {1, 2} |-> IF s = 1 THEN Step("a1", 0, "ALLOW") ELSE Step("a1", 2, "ALLOW")]}
=============================================================================
