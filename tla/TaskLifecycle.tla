---------------------------- MODULE TaskLifecycle ----------------------------
(***************************************************************************)
(* One governed task, from CreateTask to a terminal state, and every RPC   *)
(* handler and sweep of the broker that writes its rows: SubmitPlan,       *)
(* InvokeTool, ApproveTask / ApproveGatewayTask (approvalsvc.Resolve),     *)
(* GetGatewayApproval, CancelTask, EmitStatus and SweepExpiredApprovals.   *)
(*                                                                         *)
(* A handler is a process that takes one step per database statement, so   *)
(* whatever it read earlier may be stale when it acts.  It can also die    *)
(* between two statements (broker crash, cancelled request context, failed *)
(* statement): Abort.  A handler that refuses before it has written        *)
(* anything is one that never begins, or one that aborts.                  *)
(***************************************************************************)
EXTENDS TaskRows, Functions

CONSTANTS
    Seqs,             \* step numbers a plan may use
    Tools, Args,      \* tool ids and argument objects
    Plans,            \* the plans submitted, with the decision each step was routed to
    MaxPlans,         \* bound on the number of plans stored
    Budget,           \* tasks.cost_budget
    ActualCosts,      \* what a tool call may report as its cost
    Users, Owner,     \* the tenant's users; the task's owner and requester
    TaskApprovers,    \* holders of FGA approver on the task
    TenantApprovers,  \* holders of FGA approver or admin on the tenant
    CanApprove,       \* users for whom FGA can_approve on the task holds
    RequiredN,        \* values approval_required_n may have
    ReportedStatuses, \* statuses the gateway reports through EmitStatus
    Submitters,       \* concurrent SubmitPlan calls
    Invokers,         \* concurrent InvokeTool calls
    Voters,           \* concurrent approval votes
    Callers,          \* which of CancelTask, EmitStatus and GetGatewayApproval are called
    Abortable         \* the kinds of handler that may die between two steps

PlanStep == [tool : Tools, args : Args, cost : Nat, decision : Decisions]
PlanNos == 1..MaxPlans
Kinds == {"submit", "invoke", "vote", "cancel", "sweep", "report", "poll"}

ASSUME LifecycleAssumption ==
    /\ Seqs \subseteq Nat /\ IsFiniteSet(Seqs)
    /\ \A plan \in Plans : DOMAIN plan \subseteq Seqs /\ plan \in [DOMAIN plan -> PlanStep]
    /\ MaxPlans \in Nat /\ Budget \in Nat
    /\ ActualCosts \subseteq Nat
    /\ IsFiniteSet(Users) /\ Owner \in Users
    /\ TaskApprovers \subseteq Users /\ TaskApprovers # {}
    /\ TenantApprovers \subseteq Users /\ CanApprove \subseteq Users
    /\ RequiredN \subseteq Nat
    /\ ReportedStatuses \subseteq {"PLANNING", "VALIDATING", "EXECUTING", "COMPLETED", "FAILED"}
    /\ Callers \subseteq {"cancel", "report", "poll"}
    /\ Abortable \subseteq Kinds

VARIABLES
    \* the rows
    state, consumed,  \* tasks.state, tasks.cost_consumed
    steps,            \* plan_steps by seq
    gates,            \* approval_requests by the number of the plan that created them
    tokens,           \* tools the gateway holds a capability token for
    \* the handlers in flight
    sub, inv, vote, can, sweep, rep, poll,
    \* history
    planNo,           \* plans stored so far
    auto,             \* plans stored with outcome APPROVED
    shown,            \* the args digest of each plan, as SubmitPlan and the inbox hand it out
    claimed,          \* <<plan, seq>> of the steps claimed
    ran,              \* how often each step of each plan reached its tool
    spent, leaked,    \* cost of finished calls; reservations whose call died
    overrun           \* by how much actual costs exceeded their reservations

rows == <<state, consumed, steps, gates>>
handlers == <<sub, inv, vote, can, sweep, rep, poll>>
history == <<planNo, auto, shown, claimed, ran, spent, leaked, overrun>>
vars == <<rows, tokens, handlers, history>>

IdleSub == [pc |-> "idle", seen |-> "CREATED", outcome |-> "APPROVED", n |-> 1, plan |-> 0,
            mint |-> {}]
IdleInv == [pc |-> "idle", seen |-> "CREATED", seq |-> 0, tool |-> "none", args |-> "none",
            reserved |-> 0, actual |-> 0, plan |-> 0]
IdleVote == [pc |-> "idle", user |-> Owner, approved |-> FALSE, gate |-> 0,
             digest |-> {}, mint |-> {}]
IdleCan == [pc |-> "idle", seen |-> "CREATED"]
IdleSweep == [pc |-> "idle", gate |-> 0]

Init ==
    /\ state = "CREATED" /\ consumed = 0
    /\ steps = [s \in Seqs |-> NoStep]
    /\ gates = [p \in PlanNos |-> NoGate]
    /\ tokens = {}
    /\ sub = [h \in Submitters |-> IdleSub]
    /\ inv = [h \in Invokers |-> IdleInv]
    /\ vote = [h \in Voters |-> IdleVote]
    /\ can = IdleCan /\ rep = IdleCan /\ sweep = IdleSweep
    /\ poll = IdleCan
    /\ planNo = 0 /\ auto = {} /\ claimed = {}
    /\ shown = [p \in PlanNos |-> {}]
    /\ ran = [p \in PlanNos |-> [s \in Seqs |-> 0]]
    /\ spent = 0 /\ leaked = 0 /\ overrun = 0

-----------------------------------------------------------------------------
\* Mutants: no floor for a plain gate; the same floor for a step-up gate.
FloorZero(outcome) == IF outcome = "NEEDS_STEP_UP" THEN 2 ELSE 0
ThresholdConfigOnly(outcome, cfgN) == IF cfgN > 1 THEN cfgN ELSE 1

(* approvalsvc.Plan: the threshold, config-raised above the floor of the   *)
(* outcome, and the approver set.  With n >= 2 the requester is excluded.  *)
Floor(outcome) == IF outcome = "NEEDS_STEP_UP" THEN 2 ELSE 1
Threshold(outcome, cfgN) == IF cfgN > Floor(outcome) THEN cfgN ELSE Floor(outcome)
Approvers(n) ==
    IF n = 1 THEN TaskApprovers
    ELSE ((TaskApprovers \cup TenantApprovers) \ {Owner}) \cap CanApprove

(* A gate with fewer eligible approvers than it needs turns the plan down. *)
GatedOutcome(outcome, n) ==
    IF outcome \in {"NEEDS_HUMAN", "NEEDS_STEP_UP"} /\ n >= 2 /\ Cardinality(Approvers(n)) < n
    THEN "DENIED" ELSE outcome

(* SubmitPlan: read the task row; refusals up to here leave it as it is.   *)
SubmitBegin(h) ==
    /\ sub[h].pc = "idle"
    /\ planNo < MaxPlans
    /\ sub' = [sub EXCEPT ![h] = [IdleSub EXCEPT !.pc = "advance", !.seen = state]]
    /\ UNCHANGED <<rows, tokens, inv, vote, can, sweep, rep, poll, history>>

(* advanceToValidating: one transition per step, from the state last seen. *)
SubmitAdvance(h) ==
    /\ sub[h].pc = "advance"
    /\ LET seen == sub[h].seen
           to == IF seen = "CREATED" THEN "PLANNING" ELSE "VALIDATING"
       IN  /\ state' = IF seen = "VALIDATING" THEN state ELSE Move(state, seen, to)
           /\ sub' = [sub EXCEPT ![h] =
                 IF seen = "VALIDATING" \/ (seen = "PLANNING" /\ CanMove(state, seen, to))
                 THEN [@ EXCEPT !.pc = "validate", !.seen = "VALIDATING"]
                 ELSE IF seen = "CREATED" /\ CanMove(state, seen, to)
                 THEN [@ EXCEPT !.seen = "PLANNING"]
                 ELSE IdleSub]
    /\ UNCHANGED <<consumed, steps, gates, tokens, inv, vote, can, sweep, rep, poll, history>>

(* A plan outside the agent's skills, the delegated scopes or              *)
(* plan_validation ends the task without storing a step (denyTask).        *)
SubmitRefuse(h) ==
    /\ sub[h].pc = "validate"
    /\ state' = Move(state, "VALIDATING", "DENIED")
    /\ sub' = [sub EXCEPT ![h] = IdleSub]
    /\ UNCHANGED <<consumed, steps, gates, tokens, inv, vote, can, sweep, rep, poll, history>>

\* Mutants: a step-up plan stays VALIDATING; the task row may be APPROVED
\* already.
NextStateStepUpForgotten(outcome) ==
    IF outcome = "APPROVED" THEN "APPROVED"
    ELSE IF outcome = "NEEDS_HUMAN" THEN "AWAITING_APPROVAL" ELSE "VALIDATING"
InsertAllowedWhenApproved == state \in {"VALIDATING", "APPROVED"}

(* InsertPlanSteps: the exit from VALIDATING and the steps commit in one   *)
(* transaction; a plan that lost the race, or whose task was cancelled, is *)
(* refused.  A DENIED plan is stored too, and leaves the task VALIDATING.  *)
NextState(outcome) ==
    IF outcome = "APPROVED" THEN "APPROVED"
    ELSE IF outcome = "DENIED" THEN "VALIDATING" ELSE "AWAITING_APPROVAL"

InsertAllowed == state = "VALIDATING"

SubmitStore(h, plan, cfgN) ==
    /\ sub[h].pc = "validate"
    /\ planNo < MaxPlans
    /\ InsertAllowed
    /\ LET n == Threshold(Outcome(plan), cfgN)
           outcome == GatedOutcome(Outcome(plan), n)
       IN  /\ state' = NextState(outcome)
           /\ auto' = IF outcome = "APPROVED" THEN auto \cup {planNo + 1} ELSE auto
           /\ sub' = [sub EXCEPT ![h] = [@ EXCEPT !.pc = "finish", !.outcome = outcome, !.n = n,
                                                  !.plan = planNo + 1,
                                                  !.mint = {plan[s].tool : s \in DOMAIN plan}]]
    /\ steps' = Upsert(steps, plan, planNo + 1)
    /\ planNo' = planNo + 1
    /\ shown' = [shown EXCEPT ![planNo + 1] = ArgsDigest(steps')]
    /\ UNCHANGED <<consumed, gates, tokens, inv, vote, can, sweep, rep, poll,
                   claimed, ran, spent, leaked, overrun>>

(* The insert is refused because another handler moved the task.           *)
SubmitLost(h) ==
    /\ sub[h].pc = "validate"
    /\ ~InsertAllowed
    /\ sub' = [sub EXCEPT ![h] = IdleSub]
    /\ UNCHANGED <<rows, tokens, inv, vote, can, sweep, rep, poll, history>>

(* After the commit: end a denied task, mint the tokens of an approved one, *)
(* or create the approval request of a gated one (approvalsvc.Create).     *)
NewGate(h) ==
    [NoGate EXCEPT !.state = "PENDING", !.n = sub[h].n,
                   !.stepUp = (sub[h].outcome = "NEEDS_STEP_UP"),
                   !.approvers = Approvers(sub[h].n)]

SubmitFinish(h) ==
    /\ sub[h].pc = "finish"
    /\ LET outcome == sub[h].outcome
       IN  /\ state' = IF outcome = "DENIED" THEN Move(state, "VALIDATING", "DENIED") ELSE state
           /\ tokens' = IF outcome = "APPROVED" THEN tokens \cup sub[h].mint ELSE tokens
           /\ gates' = IF outcome \in {"APPROVED", "DENIED"} THEN gates
                       ELSE [gates EXCEPT ![sub[h].plan] = NewGate(h)]
    /\ sub' = [sub EXCEPT ![h] = IdleSub]
    /\ UNCHANGED <<consumed, steps, inv, vote, can, sweep, rep, poll, history>>

-----------------------------------------------------------------------------
(* InvokeTool: the task row is read once; its state and spent budget are   *)
(* judged on that read, as is the token.  The other gates (disabled tools, *)
(* org switches, revocation, skills, MCP grants, memory groups, rate       *)
(* limit) only refuse: a call they refuse does not begin.                  *)
InvokeBegin(h, s, tool, args) ==
    /\ inv[h].pc = "idle"
    /\ state \in {"APPROVED", "EXECUTING"}
    /\ consumed < Budget
    /\ tool \in tokens
    /\ inv' = [inv EXCEPT ![h] = [IdleInv EXCEPT !.pc = "gated", !.seen = state, !.seq = s,
                                                 !.tool = tool, !.args = args]]
    /\ UNCHANGED <<rows, tokens, sub, vote, can, sweep, rep, poll, history>>

\* Mutant: the pre-check of InvokeTool repeated instead of the sum.
FitsStale(units) == consumed < Budget

(* ReserveCost: the step's units, only while they fit the budget.          *)
Fits(units) == consumed + units <= Budget

InvokeReserve(h) ==
    /\ inv[h].pc = "gated"
    /\ LET units == Units(steps[inv[h].seq])
       IN  IF Fits(units)
           THEN /\ consumed' = consumed + units
                /\ inv' = [inv EXCEPT ![h] = [@ EXCEPT !.pc = "reserved", !.reserved = units]]
           ELSE /\ inv' = [inv EXCEPT ![h] = IdleInv]
                /\ UNCHANGED consumed
    /\ UNCHANGED <<state, steps, gates, tokens, sub, vote, can, sweep, rep, poll, history>>

(* ClaimPlanStep; a call that does not match the step gives its            *)
(* reservation back.                                                       *)
InvokeClaim(h) ==
    /\ inv[h].pc = "reserved"
    /\ LET s == inv[h].seq
       IN  IF Claimable(steps[s], inv[h].tool, inv[h].args)
           THEN /\ steps' = [steps EXCEPT ![s].consumed = TRUE]
                /\ inv' = [inv EXCEPT ![h] = [@ EXCEPT !.pc = "claimed", !.plan = steps[s].plan]]
                /\ claimed' = claimed \cup {<<steps[s].plan, s>>}
           ELSE /\ inv' = [inv EXCEPT ![h].pc = "release"]
                /\ UNCHANGED <<steps, claimed>>
    /\ UNCHANGED <<state, consumed, gates, tokens, sub, vote, can, sweep, rep, poll,
                   planNo, auto, shown, ran, spent, leaked, overrun>>

(* APPROVED -> EXECUTING when the row was read as APPROVED; a failed       *)
(* transition is only logged.                                              *)
InvokeMark(h) ==
    /\ inv[h].pc = "claimed"
    /\ state' = IF inv[h].seen = "APPROVED" THEN Move(state, "APPROVED", "EXECUTING") ELSE state
    /\ inv' = [inv EXCEPT ![h].pc = "dispatch"]
    /\ UNCHANGED <<consumed, steps, gates, tokens, sub, vote, can, sweep, rep, poll, history>>

(* ToolProxy.Invoke: the tool runs and reports a cost (a failed call costs *)
(* nothing), or the proxy itself fails before reaching the tool.           *)
InvokeDispatch(h, cost) ==
    /\ inv[h].pc = "dispatch"
    /\ ran' = [ran EXCEPT ![inv[h].plan][inv[h].seq] = @ + 1]
    /\ inv' = [inv EXCEPT ![h] = [@ EXCEPT !.pc = "settle", !.actual = cost]]
    /\ UNCHANGED <<rows, tokens, sub, vote, can, sweep, rep, poll,
                   planNo, auto, shown, claimed, spent, leaked, overrun>>

\* Mutant: a proxy error returns without giving the reservation back.
InvokeProxyErrorKeeps(h) ==
    /\ inv[h].pc = "dispatch"
    /\ inv' = [inv EXCEPT ![h] = IdleInv]
    /\ UNCHANGED <<rows, tokens, sub, vote, can, sweep, rep, poll, history>>

InvokeProxyError(h) ==
    /\ inv[h].pc = "dispatch"
    /\ inv' = [inv EXCEPT ![h].pc = "release"]
    /\ UNCHANGED <<rows, tokens, sub, vote, can, sweep, rep, poll, history>>

InvokeRelease(h) ==
    /\ inv[h].pc = "release"
    /\ consumed' = consumed - inv[h].reserved
    /\ inv' = [inv EXCEPT ![h] = IdleInv]
    /\ UNCHANGED <<state, steps, gates, tokens, sub, vote, can, sweep, rep, poll, history>>

(* The reservation is trued up to the actual cost, over budget or not.     *)
InvokeSettle(h) ==
    /\ inv[h].pc = "settle"
    /\ LET delta == inv[h].actual - inv[h].reserved
       IN  /\ consumed' = consumed + delta
           /\ overrun' = IF delta > 0 THEN overrun + delta ELSE overrun
    /\ spent' = spent + inv[h].actual
    /\ inv' = [inv EXCEPT ![h] = IdleInv]
    /\ UNCHANGED <<state, steps, gates, tokens, sub, vote, can, sweep, rep, poll,
                   planNo, auto, shown, claimed, ran, leaked>>

-----------------------------------------------------------------------------
(* A vote (approvalsvc.Resolve): find the newest open gate and check FGA   *)
(* can_approve; read the stored steps, compare their digest with the one   *)
(* the approver was shown, and ask a yes on a step-up gate for a recent    *)
(* MFA sign-in; record the vote; mint on approval.                         *)
VoteBegin(h, u, approved, digest) ==
    /\ vote[h].pc = "idle"
    /\ u \in CanApprove
    /\ \E p \in PlanNos :
          /\ Votable(gates[p])
          /\ \A q \in PlanNos : Votable(gates[q]) => q <= p
          /\ vote' = [vote EXCEPT ![h] = [pc |-> "loaded", user |-> u, approved |-> approved,
                                          gate |-> p, digest |-> digest, mint |-> {}]]
    /\ UNCHANGED <<rows, tokens, sub, inv, can, sweep, rep, poll, history>>

(* A denial needs no digest.                                               *)
VoteCheck(h) ==
    /\ vote[h].pc = "loaded"
    /\ vote[h].approved => vote[h].digest = ArgsDigest(steps)
    /\ vote' = [vote EXCEPT ![h] = [@ EXCEPT !.pc = "checked", !.mint = MintableTools(steps)]]
    /\ UNCHANGED <<rows, tokens, sub, inv, can, sweep, rep, poll, history>>

(* The digest does not match, or the sign-in is not stepped up.            *)
VoteRefuse(h) ==
    /\ vote[h].pc = "loaded"
    /\ vote[h].approved
    /\ vote[h].digest # ArgsDigest(steps) \/ gates[vote[h].gate].stepUp
    /\ vote' = [vote EXCEPT ![h] = IdleVote]
    /\ UNCHANGED <<rows, tokens, sub, inv, can, sweep, rep, poll, history>>

(* ResolveApproval: one transaction.  The vote that resolves the gate also *)
(* moves the task, and is rolled back when the task does not await         *)
(* approval any more.                                                      *)
VoteResolve(h) ==
    /\ vote[h].pc = "checked"
    /\ LET g == gates[vote[h].gate]
           voted == Vote(g, vote[h].user, vote[h].approved, vote[h].digest)
           to == IF voted.state = "DENIED" THEN "DENIED" ELSE "APPROVED"
           accepted == /\ Votable(g) /\ MayVote(g, Owner, vote[h].user)
                       /\ voted.state # "PENDING" => CanMove(state, "AWAITING_APPROVAL", to)
       IN  /\ gates' = IF accepted THEN [gates EXCEPT ![vote[h].gate] = voted] ELSE gates
           /\ state' = IF accepted /\ voted.state # "PENDING" THEN to ELSE state
           /\ vote' = [vote EXCEPT ![h] = IF accepted /\ voted.state = "APPROVED"
                                          THEN [@ EXCEPT !.pc = "mint"] ELSE IdleVote]
    /\ UNCHANGED <<consumed, steps, tokens, sub, inv, can, sweep, rep, poll, history>>

VoteMint(h) ==
    /\ vote[h].pc = "mint"
    /\ tokens' = tokens \cup vote[h].mint
    /\ vote' = [vote EXCEPT ![h] = IdleVote]
    /\ UNCHANGED <<rows, sub, inv, can, sweep, rep, poll, history>>

(* A gate's expires_at passes.                                             *)
GateDue(p) ==
    /\ Votable(gates[p])
    /\ gates' = [gates EXCEPT ![p].due = TRUE]
    /\ UNCHANGED <<state, consumed, steps, tokens, handlers, history>>

-----------------------------------------------------------------------------
(* CancelTask: read the row; close an open gate first; then transition     *)
(* from the state that was read.                                           *)
CancelBegin ==
    /\ "cancel" \in Callers /\ can.pc = "idle"
    /\ can' = [pc |-> IF state = "AWAITING_APPROVAL" THEN "withdraw" ELSE "cancel", seen |-> state]
    /\ UNCHANGED <<rows, tokens, sub, inv, vote, sweep, rep, poll, history>>

(* WithdrawApproval: every PENDING row of the task, due or not, is denied; *)
(* the owner stands for whoever may cancel.                                *)
CancelWithdraw ==
    /\ can.pc = "withdraw"
    /\ gates' = [p \in PlanNos |->
          IF gates[p].state = "PENDING"
          THEN [gates[p] EXCEPT !.state = "DENIED", !.no = @ \cup {Owner}] ELSE gates[p]]
    /\ can' = [can EXCEPT !.pc = "cancel"]
    /\ UNCHANGED <<state, consumed, steps, tokens, sub, inv, vote, sweep, rep, poll, history>>

CancelTransition ==
    /\ can.pc = "cancel"
    /\ state' = Move(state, can.seen, "CANCELLED")
    /\ can' = IdleCan
    /\ UNCHANGED <<consumed, steps, gates, tokens, sub, inv, vote, sweep, rep, poll, history>>

\* Mutants: the expiry does not ask for PENDING; the task is not timed out.
SweepExpireAnyState(p) ==
    /\ sweep.pc = "idle"
    /\ gates[p].state # "EXPIRED" /\ gates[p].due
    /\ gates' = [gates EXCEPT ![p].state = "EXPIRED"]
    /\ sweep' = [pc |-> "timeout", gate |-> p]
    /\ UNCHANGED <<state, consumed, steps, tokens, sub, inv, vote, can, rep, poll, history>>
SweepTimeoutForgotten ==
    /\ sweep.pc = "timeout"
    /\ sweep' = IdleSweep
    /\ UNCHANGED <<rows, tokens, sub, inv, vote, can, rep, poll, history>>

(* SweepExpiredApprovals, for one listed row: expire the gate, then time   *)
(* the task out.                                                           *)
SweepExpire(p) ==
    /\ sweep.pc = "idle"
    /\ gates[p].state = "PENDING" /\ gates[p].due
    /\ gates' = [gates EXCEPT ![p].state = "EXPIRED"]
    /\ sweep' = [pc |-> "timeout", gate |-> p]
    /\ UNCHANGED <<state, consumed, steps, tokens, sub, inv, vote, can, rep, poll, history>>

SweepTimeout ==
    /\ sweep.pc = "timeout"
    /\ state' = Move(state, "AWAITING_APPROVAL", "TIMEOUT")
    /\ sweep' = IdleSweep
    /\ UNCHANGED <<consumed, steps, gates, tokens, sub, inv, vote, can, rep, poll, history>>

(* EmitStatus: read the row, then transition from the state that was read. *)
ReportBegin ==
    /\ "report" \in Callers /\ rep.pc = "idle"
    /\ rep' = [pc |-> "report", seen |-> state]
    /\ UNCHANGED <<rows, tokens, sub, inv, vote, can, sweep, poll, history>>

ReportTransition(to) ==
    /\ rep.pc = "report"
    /\ state' = Move(state, rep.seen, to)
    /\ rep' = IdleCan
    /\ UNCHANGED <<consumed, steps, gates, tokens, sub, inv, vote, can, sweep, poll, history>>

(* GetGatewayApproval on an APPROVED task: read the row, then mint tokens  *)
(* for the steps stored by then.  In any other state it writes nothing.    *)
PollBegin ==
    /\ "poll" \in Callers /\ poll.pc = "idle"
    /\ state = "APPROVED"
    /\ poll' = [pc |-> "mint", seen |-> state]
    /\ UNCHANGED <<rows, tokens, sub, inv, vote, can, sweep, rep, history>>

\* Mutant: mints for ListExecutableSteps (ALLOW only) instead of every step
\* the policy did not deny.
PollMintAllowOnly ==
    /\ poll.pc = "mint"
    /\ tokens' = tokens \cup {steps[s].tool : s \in {t \in Seqs : steps[t].decision = "ALLOW"}}
    /\ poll' = IdleCan
    /\ UNCHANGED <<rows, sub, inv, vote, can, sweep, rep, history>>

PollMint ==
    /\ poll.pc = "mint"
    /\ tokens' = tokens \cup MintableTools(steps)
    /\ poll' = IdleCan
    /\ UNCHANGED <<rows, sub, inv, vote, can, sweep, rep, history>>

-----------------------------------------------------------------------------
(* A handler dies where it stands; what it wrote stays written.            *)
AbortSubmit(h) ==
    /\ "submit" \in Abortable /\ sub[h].pc # "idle"
    /\ sub' = [sub EXCEPT ![h] = IdleSub]
    /\ UNCHANGED <<rows, tokens, inv, vote, can, sweep, rep, poll, history>>

AbortInvoke(h) ==
    /\ "invoke" \in Abortable /\ inv[h].pc # "idle"
    /\ leaked' = leaked + inv[h].reserved
    /\ inv' = [inv EXCEPT ![h] = IdleInv]
    /\ UNCHANGED <<rows, tokens, sub, vote, can, sweep, rep, poll,
                   planNo, auto, shown, claimed, ran, spent, overrun>>

AbortVote(h) ==
    /\ "vote" \in Abortable /\ vote[h].pc # "idle"
    /\ vote' = [vote EXCEPT ![h] = IdleVote]
    /\ UNCHANGED <<rows, tokens, sub, inv, can, sweep, rep, poll, history>>

AbortOther ==
    /\ \/ "cancel" \in Abortable /\ can.pc # "idle" /\ can' = IdleCan /\ UNCHANGED <<sweep, rep, poll>>
       \/ "sweep" \in Abortable /\ sweep.pc # "idle" /\ sweep' = IdleSweep /\ UNCHANGED <<can, rep, poll>>
       \/ "report" \in Abortable /\ rep.pc # "idle" /\ rep' = IdleCan /\ UNCHANGED <<can, sweep, poll>>
       \/ "poll" \in Abortable /\ poll.pc # "idle" /\ poll' = IdleCan /\ UNCHANGED <<can, sweep, rep>>
    /\ UNCHANGED <<rows, tokens, sub, inv, vote, history>>

SubmitStep(h) ==
    \/ SubmitAdvance(h) \/ SubmitRefuse(h) \/ SubmitLost(h) \/ SubmitFinish(h)
    \/ \E plan \in Plans, cfgN \in RequiredN : SubmitStore(h, plan, cfgN)

InvokeStep(h) ==
    \/ InvokeReserve(h) \/ InvokeClaim(h) \/ InvokeMark(h)
    \/ \E cost \in ActualCosts \cup {0} : InvokeDispatch(h, cost)
    \/ InvokeProxyError(h) \/ InvokeRelease(h) \/ InvokeSettle(h)

VoteStep(h) == VoteCheck(h) \/ VoteRefuse(h) \/ VoteResolve(h) \/ VoteMint(h)
CancelStep == CancelWithdraw \/ CancelTransition
ReportStep == \E to \in ReportedStatuses : ReportTransition(to)

Next ==
    \/ \E h \in Submitters : SubmitBegin(h) \/ SubmitStep(h) \/ AbortSubmit(h)
    \/ \E h \in Invokers :
          \/ \E s \in Seqs, tool \in Tools, args \in Args : InvokeBegin(h, s, tool, args)
          \/ InvokeStep(h) \/ AbortInvoke(h)
    \/ \E h \in Voters :
          \/ \E u \in Users, approved \in BOOLEAN, p \in 1..planNo : VoteBegin(h, u, approved, shown[p])
          \/ VoteStep(h) \/ AbortVote(h)
    \/ \E p \in PlanNos : GateDue(p) \/ SweepExpire(p)
    \/ CancelBegin \/ CancelStep
    \/ SweepTimeout
    \/ ReportBegin \/ ReportStep
    \/ PollBegin \/ PollMint
    \/ AbortOther

Spec == Init /\ [][Next]_vars

(* Fairness: a handler that has begun keeps running (goroutines are        *)
(* scheduled), gates come due, the expiry sweep ticks and the gateway's    *)
(* waiting run polls.  Nobody has to submit, vote, cancel or report.       *)
Fairness ==
    /\ \A h \in Submitters : WF_vars(SubmitStep(h))
    /\ \A h \in Invokers : WF_vars(InvokeStep(h))
    /\ \A h \in Voters : WF_vars(VoteStep(h))
    /\ \A p \in PlanNos : WF_vars(GateDue(p)) /\ WF_vars(SweepExpire(p))
    /\ WF_vars(CancelStep) /\ WF_vars(SweepTimeout) /\ WF_vars(ReportStep)
    /\ WF_vars(PollBegin) /\ WF_vars(PollMint)

FairSpec == Spec /\ Fairness

-----------------------------------------------------------------------------
Digest == SUBSET ({Cardinality(S) : S \in SUBSET Seqs} \X Args)
StepRow == [tool : Tools, args : Args, decision : Decisions, cost : Nat, consumed : BOOLEAN,
            plan : PlanNos]
GateRow == [state : {"none", "PENDING", "APPROVED", "DENIED", "EXPIRED"}, n : Nat \ {0},
            stepUp : BOOLEAN, approvers : SUBSET Users, yes : SUBSET Users, no : SUBSET Users,
            due : BOOLEAN, saw : SUBSET Digest]
SubmitCall == [pc : {"idle", "advance", "validate", "finish"}, seen : TaskStates,
               outcome : {"APPROVED", "DENIED", "NEEDS_HUMAN", "NEEDS_STEP_UP"}, n : Nat \ {0},
               plan : 0..MaxPlans, mint : SUBSET Tools]
InvokeCall == [pc : {"idle", "gated", "reserved", "claimed", "dispatch", "settle", "release"},
               seen : TaskStates, seq : Seqs \cup {0}, tool : Tools \cup {"none"},
               args : Args \cup {"none"}, reserved : Nat, actual : Nat, plan : 0..MaxPlans]
VoteCall == [pc : {"idle", "loaded", "checked", "mint"}, user : Users, approved : BOOLEAN,
             gate : 0..MaxPlans, digest : Digest, mint : SUBSET Tools]

(* Every row and every handler's local state has its type, and a call that *)
(* has begun names a step number.                                          *)
TypeOK ==
    /\ state \in TaskStates /\ consumed \in Int
    /\ steps \in [Seqs -> StepRow \cup {NoStep}]
    /\ gates \in [PlanNos -> GateRow]
    /\ tokens \subseteq Tools
    /\ sub \in [Submitters -> SubmitCall]
    /\ inv \in [Invokers -> InvokeCall]
    /\ \A h \in Invokers : inv[h].pc # "idle" => inv[h].seq \in Seqs
    /\ vote \in [Voters -> VoteCall]
    /\ can \in [pc : {"idle", "withdraw", "cancel"}, seen : TaskStates]
    /\ sweep \in [pc : {"idle", "timeout"}, gate : 0..MaxPlans]
    /\ rep \in [pc : {"idle", "report"}, seen : TaskStates]
    /\ poll \in [pc : {"idle", "mint"}, seen : TaskStates]
    /\ planNo \in 0..MaxPlans /\ auto \subseteq PlanNos
    /\ shown \in [PlanNos -> Digest]
    /\ claimed \subseteq PlanNos \X Seqs
    /\ ran \in [PlanNos -> [Seqs -> Nat]]
    /\ spent \in Nat /\ leaked \in Nat /\ overrun \in Nat

(* A plan is released when every step was allowed outright, or when its    *)
(* own approval request was approved.                                      *)
Released(p) == p \in auto \/ gates[p].state = "APPROVED"

(* Gate and task agree, whatever concurrent SubmitPlans, votes, cancels,   *)
(* sweeps, replans and crashes do: the task is executable only while the   *)
(* plan stored last is released, so no plan's approval opens the task for  *)
(* another plan (InsertPlanSteps: "only the plan whose steps are stored    *)
(* can win the transition"), and no crash leaves "an APPROVED gate on a    *)
(* task stuck in AWAITING_APPROVAL" (ResolveApproval).                     *)
GateAndTaskAgree ==
    /\ state \in {"APPROVED", "EXECUTING"} => planNo \in PlanNos /\ Released(planNo)
    /\ state = "AWAITING_APPROVAL" => planNo \in PlanNos /\ ~Released(planNo)

(* While the task is executable, a step that can still be claimed belongs  *)
(* to the plan stored last (insertPlanStepBatch: "InvokeTool's step        *)
(* binding (ClaimPlanStep) can only match a step of the current plan").    *)
StepsAreCurrent ==
    state \in {"APPROVED", "EXECUTING"} =>
        \A s \in Seqs : Claimable(steps[s], steps[s].tool, steps[s].args) => steps[s].plan = planNo

(* An approved gate was approved by n distinct users of its approver set,  *)
(* never by the requester when n >= 2, never over a recorded denial, at    *)
(* least two of them on a step-up gate, and every counted yes carried the  *)
(* digest of the arguments of the plan the gate guards (ResolveApproval,   *)
(* MayVote, and AG-07 in approvalsvc.Resolve).                             *)
ApprovalIsGenuine ==
    \A p \in PlanNos : gates[p].state = "APPROVED" =>
        /\ Cardinality(gates[p].yes) >= gates[p].n
        /\ gates[p].yes \subseteq gates[p].approvers
        /\ gates[p].n >= 2 => Owner \notin gates[p].yes
        /\ gates[p].stepUp => gates[p].n >= 2
        /\ gates[p].no = {}
        /\ gates[p].saw \subseteq {shown[p]}

(* Each step of a stored plan reaches its tool at most once, however many  *)
(* InvokeTool calls race for it and whichever of them die (ClaimPlanStep:  *)
(* "two concurrent calls cannot both claim the step").                     *)
StepRunsOnce == \A p \in PlanNos, s \in Seqs : ran[p][s] <= 1

(* A call about to reach its tool claimed a step of a released plan: what  *)
(* runs was approved, although the task row was read, and judged, several  *)
(* statements earlier (InvokeTool: "the call must be the approved plan     *)
(* step named by step_id").                                                *)
OnlyReleasedStepsRun ==
    \A h \in Invokers : inv[h].pc \in {"claimed", "dispatch"} => Released(inv[h].plan)

(* Parallel calls never reserve more than the budget between them: what is *)
(* consumed beyond it is exactly bounded by what tools charged beyond      *)
(* their estimates (ReserveCost: "parallel calls cannot all pass a stale   *)
(* pre-check").                                                            *)
BudgetHolds == consumed <= Budget + overrun

(* Every unit on the task row is accounted for: it was charged by a        *)
(* finished call, is reserved by a call in flight, or was reserved by a    *)
(* call that died.  No path releases a reservation twice or forgets one.   *)
CostConserved ==
    consumed = spent + leaked + SumFunction([h \in Invokers |-> inv[h].reserved])

(* A task completes only if some step was claimed (isValidTransition: "a   *)
(* task cannot complete work it never started").                           *)
CompletedWorkStarted == state = "COMPLETED" => claimed # {}

Contents(st) == [s \in Seqs |-> [st[s] EXCEPT !.consumed = FALSE]]

(* While a plan awaits approval, is approved or executes, no handler       *)
(* changes its steps other than by consuming them: what was approved is    *)
(* what InvokeTool matches calls against.                                  *)
PlanIsFrozen ==
    [][(state \in {"AWAITING_APPROVAL", "APPROVED", "EXECUTING"}) =>
          /\ Contents(steps') = Contents(steps)
          /\ \A s \in Seqs : steps[s].consumed => steps'[s].consumed]_vars

(* A decision is final: votes, withdrawals, sweeps and late handlers never *)
(* reopen or rewrite a resolved gate, nor revive a task in a terminal      *)
(* state.                                                                  *)
DecisionsAreFinal ==
    [][/\ state \in Terminal => state' = state
       /\ \A p \in PlanNos : gates[p].state \in {"APPROVED", "DENIED", "EXPIRED"} => gates'[p] = gates[p]]_vars

(* A task that waits for approval does not wait for ever: its gate is      *)
(* decided, withdrawn or expires, and the task moves with it               *)
(* (SweepExpiredApprovals "frees the task").                               *)
AwaitingIsDecided == state = "AWAITING_APPROVAL" ~> state # "AWAITING_APPROVAL"

(* The tokens of an approved plan reach the gateway even when the handler  *)
(* whose vote approved it died before minting: GetGatewayApproval mints    *)
(* them again.                                                             *)
LostMintIsRecovered ==
    state = "APPROVED" ~> (state # "APPROVED" \/ MintableTools(steps) \subseteq tokens)
=============================================================================
