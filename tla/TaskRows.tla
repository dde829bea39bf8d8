------------------------------- MODULE TaskRows -------------------------------
(***************************************************************************)
(* The rows of one task and the statements the broker runs on them         *)
(* (broker/internal/db/tasks.go and approvals.go): the task state machine, *)
(* the plan_steps upsert and claim, and the approval_requests votes.  Each *)
(* operator is one SQL statement or one transaction, so it is atomic; the  *)
(* handlers that call them, one statement at a time, are in TaskLifecycle. *)
(***************************************************************************)
EXTENDS Integers, FiniteSets

Terminal == {"COMPLETED", "FAILED", "DENIED", "CANCELLED", "TERMINATED", "TIMEOUT"}

TaskStates ==
    Terminal \cup {"CREATED", "PLANNING", "VALIDATING", "AWAITING_APPROVAL", "APPROVED", "EXECUTING"}

(* isValidTransition: the edges of the state machine.                      *)
Edges ==
    {<<"CREATED", "PLANNING">>, <<"CREATED", "CANCELLED">>,
     <<"PLANNING", "VALIDATING">>, <<"PLANNING", "DENIED">>, <<"PLANNING", "CANCELLED">>,
     <<"VALIDATING", "AWAITING_APPROVAL">>, <<"VALIDATING", "APPROVED">>,
     <<"VALIDATING", "DENIED">>, <<"VALIDATING", "CANCELLED">>,
     <<"AWAITING_APPROVAL", "APPROVED">>, <<"AWAITING_APPROVAL", "DENIED">>,
     <<"AWAITING_APPROVAL", "CANCELLED">>, <<"AWAITING_APPROVAL", "TIMEOUT">>,
     <<"APPROVED", "EXECUTING">>, <<"APPROVED", "FAILED">>, <<"APPROVED", "CANCELLED">>,
     <<"EXECUTING", "PLANNING">>, <<"EXECUTING", "COMPLETED">>, <<"EXECUTING", "FAILED">>,
     <<"EXECUTING", "TERMINATED">>, <<"EXECUTING", "TIMEOUT">>, <<"EXECUTING", "CANCELLED">>}

(* Transition(from, to) succeeds when the edge exists and the guarded      *)
(* UPDATE still finds the row in state from.                               *)
CanMove(state, from, to) == <<from, to>> \in Edges /\ state = from
Move(state, from, to) == IF CanMove(state, from, to) THEN to ELSE state

-----------------------------------------------------------------------------
(* A plan_steps row; plan is a history field, the number of the plan that  *)
(* wrote the row last.  An absent row has no decision.                     *)
NoStep == [tool |-> "none", args |-> "none", decision |-> "none", cost |-> 0,
           consumed |-> FALSE, plan |-> 0]

Gated == {"APPROVAL_REQUIRED", "STEP_UP_REQUIRED"}
Decisions == Gated \cup {"ALLOW", "DENY"}

Present(st) == st.decision # "none"

\* Mutant: the other seqs are not deleted.
UpsertKeeping(steps, plan, no) ==
    [s \in DOMAIN steps |->
        IF s \in DOMAIN plan
        THEN [tool |-> plan[s].tool, args |-> plan[s].args, decision |-> plan[s].decision,
              cost |-> plan[s].cost, consumed |-> steps[s].consumed, plan |-> no]
        ELSE steps[s]]

(* insertPlanStepBatch: upsert every step of the plan, keeping consumed_at *)
(* of a row that was already there, and delete the other seqs.  A plan     *)
(* without steps skips the batch, deletion included.                       *)
Upsert(steps, plan, no) ==
    IF DOMAIN plan = {} THEN steps
    ELSE [s \in DOMAIN steps |->
            IF s \in DOMAIN plan
            THEN [tool |-> plan[s].tool, args |-> plan[s].args, decision |-> plan[s].decision,
                  cost |-> plan[s].cost, consumed |-> steps[s].consumed, plan |-> no]
            ELSE NoStep]

\* Mutant: consumed_at is not re-checked.
ClaimableAgain(st, tool, args) ==
    /\ Present(st) /\ st.tool = tool /\ st.args = args
    /\ st.decision \in Gated \cup {"ALLOW"}

(* ClaimPlanStep's WHERE clause.                                           *)
Claimable(st, tool, args) ==
    /\ Present(st) /\ ~st.consumed
    /\ st.tool = tool /\ st.args = args
    /\ st.decision \in Gated \cup {"ALLOW"}

(* ReserveCost's e.u: the step's estimate, at least one; one for no row.   *)
Units(st) == IF st.cost > 1 THEN st.cost ELSE 1

(* ListMintableSteps, and the tools its tokens are minted for.             *)
Mintable(steps) == {s \in DOMAIN steps : Present(steps[s]) /\ steps[s].decision # "DENY"}
MintableTools(steps) == {steps[s].tool : s \in Mintable(steps)}

(* ArgsDigest: the arguments of the mintable steps in seq order, as the    *)
(* pairs <<position, args>>.  Neither the seq nor the tool is part of it.  *)
ArgsDigest(steps) ==
    LET M == Mintable(steps)
    IN  {<<Cardinality({t \in M : t <= s}), steps[s].args>> : s \in M}

-----------------------------------------------------------------------------
(* An approval_requests row; due stands for expires_at <= NOW(), and saw   *)
(* is a history field: the digests its counted yes votes carried.          *)
NoGate == [state |-> "none", n |-> 1, stepUp |-> FALSE, approvers |-> {}, yes |-> {}, no |-> {},
           due |-> FALSE, saw |-> {}]

Votable(g) == g.state = "PENDING" /\ ~g.due

(* MayVote: a member of approver_set, never the requester once n >= 2.     *)
MayVote(g, requester, u) == ~(g.n >= 2 /\ u = requester) /\ u \in g.approvers

(* ResolveApproval's new row: any denial denies, n distinct approvals approve. *)
Vote(g, u, approved, digest) ==
    LET yes == IF approved THEN g.yes \cup {u} ELSE g.yes
        no  == IF approved THEN g.no ELSE g.no \cup {u}
    IN  [g EXCEPT !.yes = yes, !.no = no,
                  !.saw = IF approved THEN @ \cup {digest} ELSE @,
                  !.state = IF no # {} THEN "DENIED"
                            ELSE IF Cardinality(yes) >= g.n THEN "APPROVED" ELSE "PENDING"]

(* SubmitPlan's aggregation of the step decisions into the plan outcome.   *)
Outcome(plan) ==
    LET ds == {plan[s].decision : s \in DOMAIN plan}
    IN  IF "DENY" \in ds THEN "DENIED"
        ELSE IF "STEP_UP_REQUIRED" \in ds THEN "NEEDS_STEP_UP"
        ELSE IF "APPROVAL_REQUIRED" \in ds THEN "NEEDS_HUMAN" ELSE "APPROVED"
=============================================================================
