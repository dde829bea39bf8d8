------------------------ MODULE TaskExecution_proofs ------------------------
(***************************************************************************)
(* The execution side of TaskLifecycle, for every value of the constants,  *)
(* any number of concurrent calls included.  First StepRunsOnce,           *)
(* BudgetHolds and PlanIsFrozen; then what InvokeTool may claim, which     *)
(* takes the approval side too: StepsAreCurrent, OnlyReleasedStepsRun and  *)
(* CompletedWorkStarted.  Each of these three holds under a condition on   *)
(* the calls that the code does not enforce; the condition is the          *)
(* hypothesis of its theorem.                                              *)
(***************************************************************************)
EXTENDS TaskLifecycle_proofs

(* The InvokeTool call h has claimed step s of plan p and not run it yet.  *)
Holds(h, p, s) == inv[h].pc \in {"claimed", "dispatch"} /\ inv[h].plan = p /\ inv[h].seq = s

(* Why a step runs once.  A row that can still be claimed has not run and  *)
(* is held by no call; a held step has not run and has one holder; nothing *)
(* of a plan that is not stored yet has run.                               *)
ClaimInv ==
    /\ \A s \in Seqs : Present(steps[s]) => steps[s].plan \in 1..planNo
    /\ \A s \in Seqs : Present(steps[s]) /\ ~steps[s].consumed =>
          ran[steps[s].plan][s] = 0 /\ \A h \in Invokers : ~Holds(h, steps[s].plan, s)
    /\ \A h \in Invokers, p \in 0..MaxPlans, s \in Seqs : Holds(h, p, s) => p \in 1..planNo /\ ran[p][s] = 0
    /\ \A h, k \in Invokers, p \in PlanNos, s \in Seqs : Holds(h, p, s) /\ Holds(k, p, s) => h = k
    /\ \A p \in PlanNos, s \in Seqs : p > planNo => ran[p][s] = 0
    /\ StepRunsOnce

ExecutionInv == TypeOK /\ ClaimInv /\ BudgetHolds

-----------------------------------------------------------------------------
(* Most steps are calm: the steps, the plans and what has run stay as they *)
(* are, and no call comes to hold a step.                                  *)
Calm ==
    /\ UNCHANGED <<steps, ran, planNo>>
    /\ \A h \in Invokers, p \in 0..MaxPlans, s \in Seqs : Holds(h, p, s)' => Holds(h, p, s)

LEMMA CalmKeepsClaimInv ==
    ASSUME TypeOK, ClaimInv, Calm
    PROVE  ClaimInv'
<1>1. PlanNos \subseteq 0..MaxPlans /\ 1..planNo \subseteq 0..MaxPlans
  BY LifecycleAssumption DEF TypeOK, PlanNos
<1>2. \A s \in Seqs : Present(steps[s]) /\ ~steps[s].consumed =>
        ran[steps[s].plan][s] = 0 /\ \A h \in Invokers : ~Holds(h, steps[s].plan, s)'
  BY <1>1 DEF ClaimInv, Calm
<1>3. \A h \in Invokers, p \in 0..MaxPlans, s \in Seqs : Holds(h, p, s)' => p \in 1..planNo /\ ran[p][s] = 0
  BY DEF ClaimInv, Calm
<1>4. \A h, k \in Invokers, p \in PlanNos, s \in Seqs : Holds(h, p, s)' /\ Holds(k, p, s)' => h = k
  BY <1>1 DEF ClaimInv, Calm
<1>5. UNCHANGED <<steps, ran, planNo>>
  BY DEF Calm
<1> QED
  BY <1>2, <1>3, <1>4, <1>5, Zenon DEF ClaimInv, StepRunsOnce

(* A call that goes idle, or on to a point where it holds nothing, is calm. *)
LEMMA LettingGoIsCalm ==
    ASSUME TypeOK, NEW h \in Invokers, NEW call, inv' = [inv EXCEPT ![h] = call],
           call.pc \notin {"claimed", "dispatch"}, UNCHANGED <<steps, ran, planNo>>
    PROVE  Calm
<1>1. inv'[h] = call /\ \A k \in Invokers \ {h} : inv'[k] = inv[k]
  BY DEF TypeOK
<1> QED
  BY <1>1 DEF Calm, Holds

LEMMA IdleHandlersAreCalm ==
    ASSUME UNCHANGED <<steps, ran, planNo, inv>>
    PROVE  Calm
  BY DEF Calm, Holds

-----------------------------------------------------------------------------
(* Storing a plan gives the rows it writes a plan number of which nothing  *)
(* has run and nothing is held.                                            *)
LEMMA StoreKeepsClaimInv ==
    ASSUME TypeOK, ClaimInv, NEW h \in Submitters, NEW plan \in Plans, NEW cfgN \in RequiredN,
           SubmitStore(h, plan, cfgN)
    PROVE  ClaimInv'
<1>1. /\ steps' = Upsert(steps, plan, planNo + 1) /\ planNo' = planNo + 1
      /\ UNCHANGED <<ran, inv>> /\ planNo < MaxPlans
  BY DEF SubmitStore
<1>2. planNo \in 0..MaxPlans /\ MaxPlans \in Nat /\ planNo + 1 \in PlanNos
  BY <1>1, LifecycleAssumption DEF TypeOK, PlanNos
<1>3. \A s \in Seqs : \/ steps'[s] = steps[s]
                      \/ ~Present(steps'[s])
                      \/ steps'[s].plan = planNo + 1
  BY <1>1 DEF Upsert, TypeOK, NoStep, Present
<1>4. \A s \in Seqs : ran[planNo + 1][s] = 0 /\ \A k \in Invokers : ~Holds(k, planNo + 1, s)
  BY <1>2 DEF ClaimInv, PlanNos
<1>5. \A k \in Invokers : \A p, s : Holds(k, p, s)' <=> Holds(k, p, s)
  BY <1>1 DEF Holds
<1>6. \A s \in Seqs : Present(steps'[s]) => steps'[s].plan \in 1..planNo'
  BY <1>1, <1>2, <1>3 DEF ClaimInv
<1>7. \A s \in Seqs : Present(steps'[s]) /\ ~steps'[s].consumed =>
        ran[steps'[s].plan][s] = 0 /\ \A k \in Invokers : ~Holds(k, steps'[s].plan, s)
  BY <1>3, <1>4 DEF ClaimInv
<1>8. \A k \in Invokers, p \in 0..MaxPlans, s \in Seqs : Holds(k, p, s) => p \in 1..planNo' /\ ran[p][s] = 0
  BY <1>1, <1>2 DEF ClaimInv
<1>9. \A p \in PlanNos, s \in Seqs : p > planNo' => ran[p][s] = 0
  BY <1>1, <1>2 DEF ClaimInv, PlanNos
<1> QED
  BY <1>1, <1>5, <1>6, <1>7, <1>8, <1>9 DEF ClaimInv, StepRunsOnce

(* ClaimPlanStep consumes the row and makes the caller its only holder.    *)
LEMMA ClaimKeepsClaimInv ==
    ASSUME TypeOK, ClaimInv, NEW h \in Invokers, InvokeClaim(h)
    PROVE  ClaimInv'
<1> DEFINE s == inv[h].seq
<1>0. inv[h] \in InvokeCall /\ s \in Seqs /\ planNo \in 0..MaxPlans /\ MaxPlans \in Nat
  BY LifecycleAssumption DEF TypeOK, InvokeClaim
<1>1. UNCHANGED <<ran, planNo>>
  BY DEF InvokeClaim
<1>2. CASE Claimable(steps[s], inv[h].tool, inv[h].args)
  <2> DEFINE call == [inv[h] EXCEPT !.pc = "claimed", !.plan = steps[s].plan]
  <2>1. steps' = [steps EXCEPT ![s].consumed = TRUE] /\ inv' = [inv EXCEPT ![h] = call]
    BY <1>2, Zenon DEF InvokeClaim
  <2>2. call.pc = "claimed" /\ call.plan = steps[s].plan /\ call.seq = s
    BY <1>0 DEF InvokeCall
  <2> HIDE DEF call
  <2>3. inv'[h] = call /\ \A k \in Invokers \ {h} : inv'[k] = inv[k]
    BY <2>1 DEF TypeOK
  <2>4. /\ Present(steps[s]) /\ ~steps[s].consumed /\ steps[s].plan \in 1..planNo
        /\ ran[steps[s].plan][s] = 0 /\ \A k \in Invokers : ~Holds(k, steps[s].plan, s)
    BY <1>0, <1>2 DEF Claimable, ClaimInv
  <2>5. steps[s] \in StepRow
    BY <1>0, <2>4 DEF TypeOK, Present, NoStep
  <2>6. /\ steps'[s].consumed = TRUE /\ steps'[s].plan = steps[s].plan
        /\ \A t \in Seqs \ {s} : steps'[t] = steps[t]
    BY <1>0, <2>1, <2>5 DEF TypeOK, StepRow
  <2> HIDE DEF s
  <2>7. /\ \A k \in Invokers \ {h} : \A p, t : Holds(k, p, t)' <=> Holds(k, p, t)
        /\ \A p, t : Holds(h, p, t)' <=> p = steps[s].plan /\ t = s
    BY <2>2, <2>3 DEF Holds
  <2>8. \A t \in Seqs : Present(steps'[t]) => steps'[t].plan \in 1..planNo'
    BY <1>1, <2>4, <2>6 DEF ClaimInv
  <2>9. ASSUME NEW t \in Seqs, Present(steps'[t]), ~steps'[t].consumed
        PROVE  (ran[steps[t].plan][t] = 0 /\ \A k \in Invokers : ~Holds(k, steps[t].plan, t))'
    <3>1. t # s /\ steps'[t] = steps[t]
      BY <2>6, <2>9
    <3>2. ran[steps[t].plan][t] = 0 /\ \A k \in Invokers : ~Holds(k, steps[t].plan, t)
      BY <2>9, <3>1 DEF ClaimInv
    <3> QED
      BY <1>1, <2>3, <2>2, <3>1, <3>2 DEF Holds
  <2>10. \A k \in Invokers, p \in 0..MaxPlans, t \in Seqs : Holds(k, p, t)' => p \in 1..planNo' /\ ran'[p][t] = 0
    BY <1>1, <2>4, <2>7 DEF ClaimInv
  <2>11. \A j, k \in Invokers, p \in PlanNos, t \in Seqs : Holds(j, p, t)' /\ Holds(k, p, t)' => j = k
    BY <2>4, <2>7 DEF ClaimInv
  <2>12. (\A p \in PlanNos, t \in Seqs : p > planNo' => ran'[p][t] = 0) /\ StepRunsOnce'
    BY <1>1 DEF ClaimInv, StepRunsOnce
  <2> QED
    BY <2>8, <2>9, <2>10, <2>11, <2>12, Zenon DEF ClaimInv
<1>3. CASE ~Claimable(steps[s], inv[h].tool, inv[h].args)
  <2>1. inv' = [inv EXCEPT ![h] = [inv[h] EXCEPT !.pc = "release"]] /\ steps' = steps
    BY <1>3 DEF InvokeClaim
  <2>2. [inv[h] EXCEPT !.pc = "release"].pc = "release"
    BY <1>0 DEF InvokeCall
  <2> QED
    BY <1>1, <2>1, <2>2, LettingGoIsCalm, CalmKeepsClaimInv, Zenon
<1> QED
  BY <1>2, <1>3

(* Dispatching the held step: it runs for the first time, and its holder   *)
(* lets it go.                                                             *)
LEMMA DispatchKeepsClaimInv ==
    ASSUME TypeOK, ClaimInv, NEW h \in Invokers, NEW cost \in ActualCosts \cup {0}, InvokeDispatch(h, cost)
    PROVE  ClaimInv'
<1> DEFINE r == inv[h].plan
           s == inv[h].seq
           call == [inv[h] EXCEPT !.pc = "settle", !.actual = cost]
<1>0. /\ inv[h] \in InvokeCall /\ s \in Seqs /\ planNo \in 0..MaxPlans /\ MaxPlans \in Nat
      /\ r \in 0..MaxPlans /\ Holds(h, r, s)
  BY LifecycleAssumption DEF TypeOK, InvokeDispatch, InvokeCall, Holds
<1>1. r \in 1..planNo /\ r \in PlanNos /\ ran[r][s] = 0
  BY <1>0 DEF ClaimInv, PlanNos
<1>2. /\ ran' = [ran EXCEPT ![r][s] = @ + 1] /\ inv' = [inv EXCEPT ![h] = call] /\ UNCHANGED <<steps, planNo>>
  BY Zenon DEF InvokeDispatch, rows
<1>3. call.pc = "settle"
  BY <1>0 DEF InvokeCall
<1> HIDE DEF call
<1>4. inv'[h] = call /\ \A k \in Invokers \ {h} : inv'[k] = inv[k]
  BY <1>2 DEF TypeOK
<1>5. \A p \in PlanNos, t \in Seqs : ran'[p][t] = IF p = r /\ t = s THEN 1 ELSE ran[p][t]
  BY <1>0, <1>1, <1>2 DEF TypeOK
<1> HIDE DEF r, s
<1>6. \A k \in Invokers : \A p, t : Holds(k, p, t)' <=> Holds(k, p, t) /\ k # h
  BY <1>3, <1>4 DEF Holds
<1>7. ASSUME NEW t \in Seqs, Present(steps[t]), ~steps[t].consumed
      PROVE  ran'[steps[t].plan][t] = 0 /\ \A k \in Invokers : ~Holds(k, steps[t].plan, t)'
  <2>1. steps[t].plan \in PlanNos
    BY <1>0, <1>7 DEF ClaimInv, PlanNos
  <2>2. ran[steps[t].plan][t] = 0 /\ \A k \in Invokers : ~Holds(k, steps[t].plan, t)
    BY <1>7 DEF ClaimInv
  <2>3. ~(steps[t].plan = r /\ t = s)
    BY <1>0, <2>2
  <2> QED
    BY <1>2, <1>5, <1>6, <2>1, <2>2, <2>3
<1>8. \A k \in Invokers, p \in 0..MaxPlans, t \in Seqs : Holds(k, p, t)' => p \in 1..planNo /\ ran'[p][t] = 0
  <2>1. \A p \in 1..planNo : p \in PlanNos
    BY <1>0 DEF PlanNos
  <2> QED
    BY <1>0, <1>1, <1>5, <1>6, <2>1 DEF ClaimInv
<1>9. \A j, k \in Invokers, p \in PlanNos, t \in Seqs : Holds(j, p, t)' /\ Holds(k, p, t)' => j = k
  BY <1>6 DEF ClaimInv
<1>10. \A p \in PlanNos, t \in Seqs : p > planNo => ran'[p][t] = 0
  BY <1>0, <1>1, <1>5 DEF ClaimInv, PlanNos
<1>11. StepRunsOnce'
  BY <1>5 DEF ClaimInv, StepRunsOnce
<1> QED
  BY <1>2, <1>7, <1>8, <1>9, <1>10, <1>11 DEF ClaimInv

-----------------------------------------------------------------------------
(* Which steps touch the calls, the steps, what has run and the budget:    *)
(* the statements of InvokeTool, and the storing of a plan.                *)
Elsewhere == UNCHANGED <<steps, ran, planNo, inv, consumed, overrun>>

InvokeAction(h) ==
    \/ \E s \in Seqs, tool \in Tools, args \in Args : InvokeBegin(h, s, tool, args)
    \/ InvokeStep(h) \/ AbortInvoke(h)

LEMMA NextIsLocal ==
    ASSUME [Next]_vars
    PROVE  \/ Elsewhere
           \/ \E h \in Submitters, plan \in Plans, cfgN \in RequiredN : SubmitStore(h, plan, cfgN)
           \/ \E h \in Invokers : InvokeAction(h)
<1> USE DEF rows, handlers, history
<1>1. ASSUME NEW h \in Submitters,
             SubmitBegin(h) \/ SubmitAdvance(h) \/ SubmitRefuse(h) \/ SubmitLost(h) \/ SubmitFinish(h) \/ AbortSubmit(h)
      PROVE  Elsewhere
  BY <1>1, Zenon DEF Elsewhere, SubmitBegin, SubmitAdvance, SubmitRefuse, SubmitLost, SubmitFinish, AbortSubmit
<1>2. ASSUME NEW h \in Voters, NEW u \in Users, NEW b \in BOOLEAN, NEW d, VoteBegin(h, u, b, d) PROVE Elsewhere
  BY <1>2, Zenon DEF Elsewhere, VoteBegin
<1>3. ASSUME NEW h \in Voters, VoteCheck(h) \/ VoteRefuse(h) \/ VoteResolve(h) \/ VoteMint(h) \/ AbortVote(h)
      PROVE  Elsewhere
  BY <1>3, Zenon DEF Elsewhere, VoteCheck, VoteRefuse, VoteResolve, VoteMint, AbortVote
<1>4. ASSUME NEW p \in PlanNos, GateDue(p) \/ SweepExpire(p) PROVE Elsewhere
  BY <1>4, Zenon DEF Elsewhere, GateDue, SweepExpire
<1>5. ASSUME NEW to \in ReportedStatuses, ReportTransition(to) PROVE Elsewhere
  BY <1>5, Zenon DEF Elsewhere, ReportTransition
<1>6. CASE \/ CancelBegin \/ CancelWithdraw \/ CancelTransition \/ SweepTimeout \/ ReportBegin
           \/ PollBegin \/ PollMint \/ AbortOther
  <2>1. Elsewhere
    BY <1>6, Zenon DEF Elsewhere, CancelBegin, CancelWithdraw, CancelTransition, SweepTimeout, ReportBegin,
                       PollBegin, PollMint, AbortOther
  <2> QED
    BY <2>1
<1>7. CASE UNCHANGED vars
  BY <1>7 DEF vars, Elsewhere
<1> QED
  BY <1>1, <1>2, <1>3, <1>4, <1>5, <1>6, <1>7 DEF Next, SubmitStep, VoteStep, CancelStep, ReportStep, InvokeAction

LEMMA NextKeepsClaimInv == TypeOK /\ ClaimInv /\ [Next]_vars => ClaimInv'
<1> SUFFICES ASSUME TypeOK, ClaimInv, [Next]_vars PROVE ClaimInv'
  OBVIOUS
<1> USE DEF rows, handlers, history
<1>1. CASE Elsewhere
  BY <1>1, IdleHandlersAreCalm, CalmKeepsClaimInv DEF Elsewhere
<1>2. ASSUME NEW h \in Submitters, NEW plan \in Plans, NEW cfgN \in RequiredN, SubmitStore(h, plan, cfgN)
      PROVE  ClaimInv'
  BY <1>2, StoreKeepsClaimInv
<1>3. ASSUME NEW h \in Invokers, InvokeAction(h)
      PROVE  ClaimInv'
  <2>0. inv[h] \in InvokeCall /\ IdleInv.pc = "idle"
    BY DEF TypeOK, IdleInv
  <2>1. ASSUME NEW s \in Seqs, NEW tool \in Tools, NEW args \in Args, InvokeBegin(h, s, tool, args)
        PROVE  ClaimInv'
    <3>1. [IdleInv EXCEPT !.pc = "gated", !.seen = state, !.seq = s, !.tool = tool, !.args = args].pc = "gated"
      BY DEF IdleInv
    <3> QED
      BY <2>1, <3>1, LettingGoIsCalm, CalmKeepsClaimInv, Zenon DEF InvokeBegin
  <2>2. CASE InvokeReserve(h)
    <3> DEFINE units == Units(steps[inv[h].seq])
               call == IF Fits(units) THEN [inv[h] EXCEPT !.pc = "reserved", !.reserved = units] ELSE IdleInv
    <3>1. inv' = [inv EXCEPT ![h] = call] /\ UNCHANGED <<steps, ran, planNo>>
      BY <2>2, Zenon DEF InvokeReserve
    <3>2. [inv[h] EXCEPT !.pc = "reserved", !.reserved = units].pc = "reserved"
      BY <2>0 DEF InvokeCall
    <3>3. call.pc \notin {"claimed", "dispatch"}
      BY <2>0, <3>2
    <3> HIDE DEF call
    <3> QED
      BY <3>1, <3>3, LettingGoIsCalm, CalmKeepsClaimInv, Zenon
  <2>3. CASE InvokeClaim(h)
    BY <2>3, ClaimKeepsClaimInv
  <2>4. CASE InvokeMark(h)
    <3>1. inv[h].pc = "claimed" /\ inv' = [inv EXCEPT ![h].pc = "dispatch"] /\ UNCHANGED <<steps, ran, planNo>>
      BY <2>4 DEF InvokeMark
    <3>2. /\ inv'[h].pc = "dispatch" /\ inv'[h].plan = inv[h].plan /\ inv'[h].seq = inv[h].seq
          /\ \A k \in Invokers \ {h} : inv'[k] = inv[k]
      BY <2>0, <3>1 DEF TypeOK, InvokeCall
    <3>3. Calm
      BY <3>1, <3>2 DEF Calm, Holds
    <3> QED
      BY <3>3, CalmKeepsClaimInv
  <2>5. ASSUME NEW cost \in ActualCosts \cup {0}, InvokeDispatch(h, cost) PROVE ClaimInv'
    BY <2>5, DispatchKeepsClaimInv
  <2>6. CASE InvokeProxyError(h)
    <3>1. inv' = [inv EXCEPT ![h] = [inv[h] EXCEPT !.pc = "release"]] /\ UNCHANGED <<steps, ran, planNo>>
      BY <2>6 DEF InvokeProxyError
    <3>2. [inv[h] EXCEPT !.pc = "release"].pc = "release"
      BY <2>0 DEF InvokeCall
    <3> QED
      BY <3>1, <3>2, LettingGoIsCalm, CalmKeepsClaimInv, Zenon
  <2>7. CASE InvokeRelease(h) \/ InvokeSettle(h) \/ AbortInvoke(h)
    <3>1. inv' = [inv EXCEPT ![h] = IdleInv] /\ UNCHANGED <<steps, ran, planNo>>
      BY <2>7 DEF InvokeRelease, InvokeSettle, AbortInvoke
    <3> QED
      BY <2>0, <3>1, LettingGoIsCalm, CalmKeepsClaimInv, Zenon
  <2> QED
    BY <1>3, <2>1, <2>2, <2>3, <2>4, <2>5, <2>6, <2>7 DEF InvokeAction, InvokeStep
<1> QED
  BY <1>1, <1>2, <1>3, NextIsLocal

(* ReserveCost is the only statement that raises what is consumed without  *)
(* recording an overrun, and it checks the sum.                            *)
LEMMA NextKeepsBudget == TypeOK /\ BudgetHolds /\ [Next]_vars => BudgetHolds'
<1> SUFFICES ASSUME TypeOK, BudgetHolds, [Next]_vars PROVE BudgetHolds'
  OBVIOUS
<1> USE DEF rows, handlers, history
<1>0. consumed \in Int /\ overrun \in Nat /\ Budget \in Nat
  BY LifecycleAssumption DEF TypeOK
<1>1. CASE consumed' = consumed /\ overrun' = overrun
  BY <1>1 DEF BudgetHolds
<1>2. ASSUME NEW h \in Invokers, InvokeAction(h)
      PROVE  BudgetHolds'
  <2>0. inv[h].reserved \in Nat /\ inv[h].actual \in Nat
    BY DEF TypeOK, InvokeCall
  <2>1. ASSUME NEW s \in Seqs, NEW tool \in Tools, NEW args \in Args, InvokeBegin(h, s, tool, args)
        PROVE  BudgetHolds'
    BY <1>1, <2>1, Zenon DEF InvokeBegin
  <2>2. CASE InvokeReserve(h)
    <3>1. \/ consumed' = consumed /\ overrun' = overrun
          \/ \E units : consumed' = consumed + units /\ consumed + units <= Budget /\ overrun' = overrun
      BY <2>2, Zenon DEF InvokeReserve, Fits
    <3>2. consumed' \in Int
      BY NextTyped DEF TypeOK
    <3> QED
      BY <1>0, <1>1, <3>1, <3>2 DEF BudgetHolds
  <2>3. CASE InvokeClaim(h) \/ InvokeMark(h) \/ InvokeProxyError(h) \/ AbortInvoke(h)
    BY <1>1, <2>3, Zenon DEF InvokeClaim, InvokeMark, InvokeProxyError, AbortInvoke
  <2>4. ASSUME NEW cost \in ActualCosts \cup {0}, InvokeDispatch(h, cost) PROVE BudgetHolds'
    BY <1>1, <2>4, Zenon DEF InvokeDispatch
  <2>5. CASE InvokeRelease(h)
    BY <1>0, <2>0, <2>5 DEF InvokeRelease, BudgetHolds
  <2>6. CASE InvokeSettle(h)
    BY <1>0, <2>0, <2>6 DEF InvokeSettle, BudgetHolds
  <2> QED
    BY <1>2, <2>1, <2>2, <2>3, <2>4, <2>5, <2>6 DEF InvokeAction, InvokeStep
<1>3. ASSUME NEW h \in Submitters, NEW plan \in Plans, NEW cfgN \in RequiredN, SubmitStore(h, plan, cfgN)
      PROVE  BudgetHolds'
  BY <1>1, <1>3 DEF SubmitStore
<1> QED
  BY <1>1, <1>2, <1>3, NextIsLocal DEF Elsewhere

(* What a step does to the stored steps of a task that awaits approval or  *)
(* may execute.                                                            *)
Frozen ==
    /\ Contents(steps') = Contents(steps)
    /\ \A s \in Seqs : steps[s].consumed => steps'[s].consumed

LEMMA NextFreezesPlan ==
    ASSUME TypeOK, [Next]_vars, state \in {"AWAITING_APPROVAL", "APPROVED", "EXECUTING"}
    PROVE  Frozen
<1> USE DEF rows, handlers, history
<1>1. CASE steps' = steps
  BY <1>1 DEF Frozen
<1>2. ASSUME NEW h \in Invokers, InvokeAction(h)
      PROVE  Frozen
  <2>1. ASSUME NEW s \in Seqs, NEW tool \in Tools, NEW args \in Args, InvokeBegin(h, s, tool, args)
        PROVE  Frozen
    BY <1>1, <2>1, Zenon DEF InvokeBegin
  <2>2. CASE InvokeClaim(h) /\ steps' # steps
    <3> DEFINE s == inv[h].seq
    <3>1. s \in Seqs /\ Present(steps[s]) /\ steps' = [steps EXCEPT ![s].consumed = TRUE]
      BY <2>2, Zenon DEF InvokeClaim, Claimable, TypeOK
    <3>2. steps[s] \in StepRow
      BY <3>1 DEF TypeOK, Present, NoStep
    <3> HIDE DEF s
    <3>3. steps'[s] = [steps[s] EXCEPT !.consumed = TRUE] /\ \A t \in Seqs \ {s} : steps'[t] = steps[t]
      BY <3>1 DEF TypeOK
    <3>4. [steps'[s] EXCEPT !.consumed = FALSE] = [steps[s] EXCEPT !.consumed = FALSE] /\ steps'[s].consumed
      BY <3>2, <3>3, Zenon DEF StepRow
    <3>5. \A t \in Seqs : [steps'[t] EXCEPT !.consumed = FALSE] = [steps[t] EXCEPT !.consumed = FALSE]
      BY <3>3, <3>4, Zenon
    <3>6. Contents(steps') = Contents(steps)
      BY <3>5, Zenon DEF Contents
    <3> QED
      BY <3>3, <3>4, <3>6, Zenon DEF Frozen
  <2>3. CASE InvokeReserve(h) \/ InvokeMark(h) \/ InvokeProxyError(h) \/ InvokeRelease(h) \/ InvokeSettle(h) \/ AbortInvoke(h)
    BY <1>1, <2>3, Zenon DEF InvokeReserve, InvokeMark, InvokeProxyError, InvokeRelease, InvokeSettle, AbortInvoke
  <2>4. ASSUME NEW cost \in ActualCosts \cup {0}, InvokeDispatch(h, cost) PROVE Frozen
    BY <1>1, <2>4, Zenon DEF InvokeDispatch
  <2> QED
    BY <1>1, <1>2, <2>1, <2>2, <2>3, <2>4 DEF InvokeAction, InvokeStep
<1>3. ASSUME NEW h \in Submitters, NEW plan \in Plans, NEW cfgN \in RequiredN, SubmitStore(h, plan, cfgN)
      PROVE  FALSE
  BY <1>3 DEF SubmitStore, InsertAllowed
<1> QED
  BY <1>1, <1>2, <1>3, NextIsLocal DEF Elsewhere

LEMMA InitExecutionInv == Init => ExecutionInv
<1> SUFFICES ASSUME Init PROVE ExecutionInv
  OBVIOUS
<1>1. TypeOK
  BY InitTyped
<1>2. /\ \A s \in Seqs : ~Present(steps[s])
      /\ \A h \in Invokers : inv[h].pc = "idle"
      /\ \A p \in PlanNos, s \in Seqs : ran[p][s] = 0
      /\ consumed = 0 /\ overrun = 0
  BY DEF Init, IdleInv, NoStep, Present
<1>3. BudgetHolds
  BY <1>2, LifecycleAssumption DEF BudgetHolds
<1> QED
  BY <1>1, <1>2, <1>3 DEF ExecutionInv, ClaimInv, Holds, StepRunsOnce

(* The inductive invariant.                                                *)
THEOREM ExecutionInvariant == Spec => []ExecutionInv
<1>1. Init => ExecutionInv
  BY InitExecutionInv
<1>2. ExecutionInv /\ [Next]_vars => ExecutionInv'
  BY NextTyped, NextKeepsClaimInv, NextKeepsBudget DEF ExecutionInv
<1> QED
  BY <1>1, <1>2, PTL DEF Spec

(* No step of a stored plan reaches its tool twice, for any number of      *)
(* concurrent InvokeTool calls, replans and crashes.                       *)
THEOREM StepsRunOnce == Spec => []StepRunsOnce
<1>1. ExecutionInv => StepRunsOnce
  BY DEF ExecutionInv, ClaimInv
<1> QED
  BY <1>1, ExecutionInvariant, PTL

(* Whatever the number of parallel calls, the task row exceeds its budget  *)
(* only by what tools charged beyond their estimates.                      *)
THEOREM BudgetIsKept == Spec => []BudgetHolds
<1>1. ExecutionInv => BudgetHolds
  BY DEF ExecutionInv
<1> QED
  BY <1>1, ExecutionInvariant, PTL

(* The steps an approver decides on are the steps that calls are matched   *)
(* against: no handler rewrites them while the task is gated or executable. *)
THEOREM PlansAreFrozen == Spec => PlanIsFrozen
<1>1. ExecutionInv /\ [Next]_vars =>
        [(state \in {"AWAITING_APPROVAL", "APPROVED", "EXECUTING"}) =>
            /\ Contents(steps') = Contents(steps)
            /\ \A s \in Seqs : steps[s].consumed => steps'[s].consumed]_vars
  BY NextFreezesPlan DEF ExecutionInv, Frozen
<1> QED
  BY <1>1, ExecutionInvariant, PTL DEF Spec, PlanIsFrozen

-----------------------------------------------------------------------------
(* Every plan has a step.  A plan without steps skips the batch that       *)
(* deletes the rows of earlier plans.                                      *)
PlansHaveSteps == \A plan \in Plans : DOMAIN plan # {}

(* The gateway does not report PLANNING: once released, a task does not    *)
(* replan.                                                                 *)
NoReplan == "PLANNING" \notin ReportedStatuses

(* The gateway does not report EXECUTING itself: InvokeTool moves the task *)
(* there when it has claimed a step.                                       *)
NoReportedStart == "EXECUTING" \notin ReportedStatuses

(* The states of a task some plan of which was released, unless it ended   *)
(* before.                                                                 *)
Begun == Terminal \cup Executable

(* Every stored row was written by the plan stored last.                   *)
RowsInv == \A s \in Seqs : Present(steps[s]) => steps[s].plan = planNo

(* Why a call that judged the task several statements ago may still act:   *)
(* as long as it runs, the plan stored last is released and no other plan  *)
(* can be stored, and what it has claimed is a step of that plan.          *)
CallInv ==
    \A h \in Invokers : inv[h].pc # "idle" =>
        /\ state \in Begun /\ planNo \in PlanNos /\ Released(planNo)
        /\ inv[h].pc \in {"claimed", "dispatch"} => inv[h].plan = planNo

(* The task executes only after a step was claimed.                        *)
StartInv ==
    /\ state \in {"EXECUTING", "COMPLETED"} => claimed # {}
    /\ \A h \in Invokers : inv[h].pc = "claimed" => claimed # {}

-----------------------------------------------------------------------------
(* Storing a plan with steps rewrites or removes every row.                *)
LEMMA StoreKeepsRowsInv ==
    ASSUME PlansHaveSteps, TypeOK, NEW h \in Submitters, NEW plan \in Plans, NEW cfgN \in RequiredN,
           SubmitStore(h, plan, cfgN)
    PROVE  RowsInv'
<1>1. steps' = Upsert(steps, plan, planNo + 1) /\ planNo' = planNo + 1 /\ DOMAIN plan # {}
  BY DEF SubmitStore, PlansHaveSteps
<1>2. \A s \in Seqs : ~Present(steps'[s]) \/ steps'[s].plan = planNo + 1
  BY <1>1 DEF Upsert, TypeOK, NoStep, Present
<1> QED
  BY <1>1, <1>2 DEF RowsInv

(* What a statement of InvokeTool does to the rows: at most it consumes    *)
(* one.                                                                    *)
LEMMA InvokeKeepsRowsInv ==
    ASSUME TypeOK, RowsInv, NEW h \in Invokers, InvokeAction(h)
    PROVE  RowsInv'
<1> USE DEF rows, handlers, history
<1>1. CASE UNCHANGED <<steps, planNo>>
  BY <1>1 DEF RowsInv
<1>2. CASE InvokeClaim(h) /\ steps' # steps
  <2> DEFINE s == inv[h].seq
  <2>1. s \in Seqs /\ Present(steps[s]) /\ steps' = [steps EXCEPT ![s].consumed = TRUE] /\ planNo' = planNo
    BY <1>2, Zenon DEF InvokeClaim, Claimable, TypeOK
  <2>2. steps[s] \in StepRow
    BY <2>1 DEF TypeOK, Present, NoStep
  <2> HIDE DEF s
  <2>3. steps'[s].plan = steps[s].plan /\ \A t \in Seqs \ {s} : steps'[t] = steps[t]
    BY <2>1, <2>2 DEF TypeOK, StepRow
  <2> QED
    BY <2>1, <2>3 DEF RowsInv
<1>3. \/ UNCHANGED <<steps, planNo>>
      \/ InvokeClaim(h) /\ steps' # steps
  <2>1. ASSUME NEW s \in Seqs, NEW tool \in Tools, NEW args \in Args, InvokeBegin(h, s, tool, args)
        PROVE  UNCHANGED <<steps, planNo>>
    BY <2>1, Zenon DEF InvokeBegin
  <2>2. ASSUME \/ InvokeReserve(h) \/ InvokeMark(h) \/ InvokeProxyError(h) \/ InvokeRelease(h)
               \/ InvokeSettle(h) \/ AbortInvoke(h)
        PROVE  UNCHANGED <<steps, planNo>>
    BY <2>2, Zenon DEF InvokeReserve, InvokeMark, InvokeProxyError, InvokeRelease, InvokeSettle, AbortInvoke
  <2>3. ASSUME NEW cost \in ActualCosts \cup {0}, InvokeDispatch(h, cost) PROVE UNCHANGED <<steps, planNo>>
    BY <2>3, Zenon DEF InvokeDispatch
  <2>4. InvokeClaim(h) => planNo' = planNo
    BY DEF InvokeClaim
  <2> QED
    BY <2>1, <2>2, <2>3, <2>4 DEF InvokeAction, InvokeStep
<1> QED
  BY <1>1, <1>2, <1>3

LEMMA NextKeepsRowsInv ==
    ASSUME PlansHaveSteps, TypeOK, RowsInv, [Next]_vars
    PROVE  RowsInv'
<1>1. CASE Elsewhere
  BY <1>1 DEF Elsewhere, RowsInv
<1> QED
  BY <1>1, StoreKeepsRowsInv, InvokeKeepsRowsInv, NextIsLocal

-----------------------------------------------------------------------------
(* A guarded transition leaves the states of a released task only by the   *)
(* replan edge.                                                            *)
LEMMA MoveKeepsBegun ==
    ASSUME NEW st \in Begun, NEW from, NEW to, to # "PLANNING"
    PROVE  Move(st, from, to) \in Begun
<1>1. CASE Move(st, from, to) = st
  BY <1>1
<1>2. CASE Move(st, from, to) # st
  <2>1. st = from /\ <<from, to>> \in Edges /\ Move(st, from, to) = to
    BY <1>2 DEF Move, CanMove
  <2>2. from \in Executable
    BY <2>1 DEF Edges, Begun, Terminal, Executable
  <2>3. to \in Begun
    BY <2>1, <2>2 DEF Edges, Begun, Terminal, Executable
  <2> QED
    BY <2>1, <2>3
<1> QED
  BY <1>1, <1>2

LEMMA MoveToPlanning ==
    ASSUME NEW st \in Begun
    PROVE  Move(st, "CREATED", "PLANNING") = st
  BY DEF Move, CanMove, Begun, Terminal, Executable

LEMMA NextKeepsBegun ==
    ASSUME NoReplan, ApprovalInv, state \in Begun, [Next]_vars
    PROVE  state' \in Begun /\ UNCHANGED <<planNo, auto>>
<1> USE DEF rows, handlers, history
<1>0. TypeOK /\ state \notin {"AWAITING_APPROVAL", "VALIDATING"}
  BY DEF ApprovalInv, Begun, Terminal, Executable
<1>1. ASSUME UNCHANGED <<state, planNo, auto>> PROVE state' \in Begun /\ UNCHANGED <<planNo, auto>>
  BY <1>1
<1>2. ASSUME NEW h \in Submitters, SubmitBegin(h) \/ SubmitStep(h) \/ AbortSubmit(h)
      PROVE  state' \in Begun /\ UNCHANGED <<planNo, auto>>
  <2>1. CASE SubmitBegin(h) \/ SubmitLost(h) \/ AbortSubmit(h)
    BY <2>1, Zenon DEF SubmitBegin, SubmitLost, AbortSubmit
  <2>2. CASE SubmitAdvance(h)
    <3>1. UNCHANGED <<planNo, auto>>
      BY <2>2, Zenon DEF SubmitAdvance
    <3>2. \/ state' = state
          \/ state' = Move(state, "CREATED", "PLANNING")
          \/ state' = Move(state, sub[h].seen, "VALIDATING")
      BY <2>2, Zenon DEF SubmitAdvance
    <3> QED
      BY <3>1, <3>2, MoveKeepsBegun, MoveToPlanning
  <2>3. CASE SubmitRefuse(h)
    BY <2>3, MoveKeepsBegun DEF SubmitRefuse
  <2>4. ASSUME NEW plan \in Plans, NEW cfgN \in RequiredN, SubmitStore(h, plan, cfgN) PROVE FALSE
    BY <1>0, <2>4 DEF SubmitStore, InsertAllowed
  <2>5. CASE SubmitFinish(h)
    <3>1. state' = state \/ state' = Move(state, "VALIDATING", "DENIED")
      BY <2>5, Zenon DEF SubmitFinish
    <3> QED
      BY <2>5, <3>1, MoveKeepsBegun DEF SubmitFinish
  <2> QED
    BY <1>2, <2>1, <2>2, <2>3, <2>4, <2>5 DEF SubmitStep
<1>3. ASSUME NEW h \in Invokers, InvokeAction(h)
      PROVE  state' \in Begun /\ UNCHANGED <<planNo, auto>>
  <2>1. ASSUME NEW s \in Seqs, NEW tool \in Tools, NEW args \in Args, InvokeBegin(h, s, tool, args)
        PROVE  UNCHANGED <<state, planNo, auto>>
    BY <2>1, Zenon DEF InvokeBegin
  <2>2. ASSUME \/ InvokeReserve(h) \/ InvokeClaim(h) \/ InvokeProxyError(h) \/ InvokeRelease(h)
               \/ InvokeSettle(h) \/ AbortInvoke(h)
        PROVE  UNCHANGED <<state, planNo, auto>>
    BY <2>2, Zenon DEF InvokeReserve, InvokeClaim, InvokeProxyError, InvokeRelease, InvokeSettle, AbortInvoke
  <2>3. ASSUME NEW cost \in ActualCosts \cup {0}, InvokeDispatch(h, cost) PROVE UNCHANGED <<state, planNo, auto>>
    BY <2>3, Zenon DEF InvokeDispatch
  <2>4. CASE InvokeMark(h)
    <3>1. state' = state \/ state' = Move(state, "APPROVED", "EXECUTING")
      BY <2>4, Zenon DEF InvokeMark
    <3> QED
      BY <2>4, <3>1, MoveKeepsBegun DEF InvokeMark
  <2> QED
    BY <1>3, <2>1, <2>2, <2>3, <2>4 DEF InvokeAction, InvokeStep
<1>4. ASSUME NEW h \in Voters, NEW u \in Users, NEW b \in BOOLEAN, NEW d, VoteBegin(h, u, b, d)
      PROVE  UNCHANGED <<state, planNo, auto>>
  BY <1>4, Zenon DEF VoteBegin
<1>5. ASSUME NEW h \in Voters, VoteCheck(h) \/ VoteRefuse(h) \/ VoteMint(h) \/ AbortVote(h)
      PROVE  UNCHANGED <<state, planNo, auto>>
  BY <1>5, Zenon DEF VoteCheck, VoteRefuse, VoteMint, AbortVote
<1>6. ASSUME NEW h \in Voters, VoteResolve(h)
      PROVE  UNCHANGED <<state, planNo, auto>>
  <2>1. \A to : ~CanMove(state, "AWAITING_APPROVAL", to)
    BY <1>0 DEF CanMove
  <2> QED
    BY <1>6, <2>1, Zenon DEF VoteResolve
<1>7. ASSUME NEW p \in PlanNos, GateDue(p) \/ SweepExpire(p) PROVE UNCHANGED <<state, planNo, auto>>
  BY <1>7, Zenon DEF GateDue, SweepExpire
<1>8. ASSUME CancelBegin \/ CancelWithdraw \/ ReportBegin \/ PollBegin \/ PollMint \/ AbortOther
      PROVE  UNCHANGED <<state, planNo, auto>>
  BY <1>8, Zenon DEF CancelBegin, CancelWithdraw, ReportBegin, PollBegin, PollMint, AbortOther
<1>9. ASSUME CancelTransition \/ SweepTimeout PROVE state' \in Begun /\ UNCHANGED <<planNo, auto>>
  BY <1>9, MoveKeepsBegun DEF CancelTransition, SweepTimeout
<1>10. ASSUME NEW to \in ReportedStatuses, ReportTransition(to)
       PROVE  state' \in Begun /\ UNCHANGED <<planNo, auto>>
  BY <1>10, MoveKeepsBegun DEF ReportTransition, NoReplan
<1>11. ASSUME UNCHANGED vars PROVE UNCHANGED <<state, planNo, auto>>
  BY <1>11 DEF vars
<1> QED
  BY <1>1, <1>2, <1>3, <1>4, <1>5, <1>6, <1>7, <1>8, <1>9, <1>10, <1>11
  DEF Next, VoteStep, CancelStep, ReportStep, InvokeAction

(* A released plan stays released: no step takes an approval back.         *)
LEMMA NextKeepsReleased ==
    ASSUME NoReplan, ApprovalInv, state \in Begun, planNo \in PlanNos, Released(planNo), [Next]_vars
    PROVE  state' \in Begun /\ planNo' = planNo /\ Released(planNo)'
<1>1. state' \in Begun /\ UNCHANGED <<planNo, auto>>
  BY NextKeepsBegun
<1>2. gates[planNo].state = "APPROVED" => gates'[planNo] = gates[planNo]
  BY NextKeepsApprovalInv DEF StepKeeps
<1> QED
  BY <1>1, <1>2 DEF Released

(* How the call h can have moved: it did not, it let go, it began while    *)
(* the task was executable, it went on holding what it held, or it claimed *)
(* a stored row.                                                           *)
Moved(h) ==
    \/ inv'[h] = inv[h]
    \/ inv'[h].pc \notin {"claimed", "dispatch"} /\ inv[h].pc # "idle"
    \/ inv'[h].pc = "gated" /\ state \in Executable
    \/ inv[h].pc = "claimed" /\ inv'[h].pc = "dispatch" /\ inv'[h].plan = inv[h].plan
    \/ /\ inv[h].pc = "reserved" /\ inv'[h].pc = "claimed" /\ claimed' # {}
       /\ \E s \in Seqs : Present(steps[s]) /\ inv'[h].plan = steps[s].plan

LEMMA InvokeMoves ==
    ASSUME TypeOK, NEW h \in Invokers, InvokeAction(h)
    PROVE  Moved(h) /\ \A k \in Invokers \ {h} : inv'[k] = inv[k]
<1> USE DEF rows, handlers, history
<1>0. inv[h] \in InvokeCall /\ IdleInv.pc = "idle"
  BY DEF TypeOK, IdleInv
<1>a. ASSUME NEW call, inv' = [inv EXCEPT ![h] = call]
      PROVE  inv'[h] = call /\ \A k \in Invokers \ {h} : inv'[k] = inv[k]
  BY <1>a DEF TypeOK
<1>b. ASSUME NEW call, inv' = [inv EXCEPT ![h] = call], call.pc \notin {"claimed", "dispatch"}, inv[h].pc # "idle"
      PROVE  Moved(h) /\ \A k \in Invokers \ {h} : inv'[k] = inv[k]
  BY <1>a, <1>b, Zenon DEF Moved
<1>1. ASSUME NEW s \in Seqs, NEW tool \in Tools, NEW args \in Args, InvokeBegin(h, s, tool, args)
      PROVE  Moved(h) /\ \A k \in Invokers \ {h} : inv'[k] = inv[k]
  <2> DEFINE call == [IdleInv EXCEPT !.pc = "gated", !.seen = state, !.seq = s, !.tool = tool, !.args = args]
  <2>1. call.pc = "gated"
    BY DEF IdleInv
  <2>2. inv' = [inv EXCEPT ![h] = call] /\ state \in Executable
    BY <1>1, Zenon DEF InvokeBegin, Executable
  <2> HIDE DEF call
  <2> QED
    BY <1>a, <2>1, <2>2, Zenon DEF Moved
<1>2. CASE InvokeReserve(h)
  <2> DEFINE units == Units(steps[inv[h].seq])
             call == IF Fits(units) THEN [inv[h] EXCEPT !.pc = "reserved", !.reserved = units] ELSE IdleInv
  <2>1. inv' = [inv EXCEPT ![h] = call] /\ inv[h].pc # "idle"
    BY <1>2, Zenon DEF InvokeReserve
  <2>2. [inv[h] EXCEPT !.pc = "reserved", !.reserved = units].pc = "reserved"
    BY <1>0 DEF InvokeCall
  <2>3. call.pc \notin {"claimed", "dispatch"}
    BY <1>0, <2>2
  <2> HIDE DEF call
  <2> QED
    BY <1>b, <2>1, <2>3, Zenon
<1>3. CASE InvokeClaim(h) /\ Claimable(steps[inv[h].seq], inv[h].tool, inv[h].args)
  <2> DEFINE s == inv[h].seq
             call == [inv[h] EXCEPT !.pc = "claimed", !.plan = steps[s].plan]
  <2>1. /\ inv[h].pc = "reserved" /\ s \in Seqs /\ Present(steps[s])
        /\ inv' = [inv EXCEPT ![h] = call] /\ claimed' = claimed \cup {<<steps[s].plan, s>>}
    BY <1>3, Zenon DEF InvokeClaim, Claimable, TypeOK
  <2>2. call.pc = "claimed" /\ call.plan = steps[s].plan
    BY <1>0 DEF InvokeCall
  <2>3. claimed' # {}
    BY <2>1, Zenon
  <2> HIDE DEF call, s
  <2> QED
    BY <1>a, <2>1, <2>2, <2>3, Zenon DEF Moved
<1>4. CASE InvokeClaim(h) /\ ~Claimable(steps[inv[h].seq], inv[h].tool, inv[h].args)
  <2>1. inv' = [inv EXCEPT ![h] = [inv[h] EXCEPT !.pc = "release"]] /\ inv[h].pc # "idle"
    BY <1>4 DEF InvokeClaim
  <2>2. [inv[h] EXCEPT !.pc = "release"].pc = "release"
    BY <1>0 DEF InvokeCall
  <2> QED
    BY <1>b, <2>1, <2>2, Zenon
<1>5. CASE InvokeMark(h)
  <2> DEFINE call == [inv[h] EXCEPT !.pc = "dispatch"]
  <2>1. inv' = [inv EXCEPT ![h] = call] /\ inv[h].pc = "claimed"
    BY <1>5 DEF InvokeMark
  <2>2. call.pc = "dispatch" /\ call.plan = inv[h].plan
    BY <1>0 DEF InvokeCall
  <2> HIDE DEF call
  <2> QED
    BY <1>a, <2>1, <2>2, Zenon DEF Moved
<1>6. ASSUME NEW cost \in ActualCosts \cup {0}, InvokeDispatch(h, cost)
      PROVE  Moved(h) /\ \A k \in Invokers \ {h} : inv'[k] = inv[k]
  <2>1. inv' = [inv EXCEPT ![h] = [inv[h] EXCEPT !.pc = "settle", !.actual = cost]] /\ inv[h].pc # "idle"
    BY <1>6 DEF InvokeDispatch
  <2>2. [inv[h] EXCEPT !.pc = "settle", !.actual = cost].pc = "settle"
    BY <1>0 DEF InvokeCall
  <2> QED
    BY <1>b, <2>1, <2>2, Zenon
<1>7. CASE InvokeProxyError(h)
  <2>1. inv' = [inv EXCEPT ![h] = [inv[h] EXCEPT !.pc = "release"]] /\ inv[h].pc # "idle"
    BY <1>7 DEF InvokeProxyError
  <2>2. [inv[h] EXCEPT !.pc = "release"].pc = "release"
    BY <1>0 DEF InvokeCall
  <2> QED
    BY <1>b, <2>1, <2>2, Zenon
<1>8. CASE InvokeRelease(h) \/ InvokeSettle(h) \/ AbortInvoke(h)
  <2>1. inv' = [inv EXCEPT ![h] = IdleInv] /\ inv[h].pc # "idle"
    BY <1>8 DEF InvokeRelease, InvokeSettle, AbortInvoke
  <2> QED
    BY <1>0, <1>b, <2>1, Zenon
<1> QED
  BY <1>1, <1>2, <1>3, <1>4, <1>5, <1>6, <1>7, <1>8, Zenon DEF InvokeAction, InvokeStep

LEMMA CallsMove ==
    ASSUME TypeOK, [Next]_vars, NEW h \in Invokers
    PROVE  Moved(h)
<1>1. ASSUME Elsewhere PROVE Moved(h)
  BY <1>1 DEF Elsewhere, Moved
<1>2. ASSUME NEW g \in Submitters, NEW plan \in Plans, NEW cfgN \in RequiredN, SubmitStore(g, plan, cfgN)
      PROVE  Moved(h)
  BY <1>2 DEF SubmitStore, Moved
<1>3. ASSUME NEW k \in Invokers, InvokeAction(k) PROVE Moved(h)
  BY <1>3, InvokeMoves DEF Moved
<1> QED
  BY <1>1, <1>2, <1>3, NextIsLocal

LEMMA NextKeepsCallInv ==
    ASSUME NoReplan, ApprovalInv, RowsInv, CallInv, [Next]_vars
    PROVE  CallInv'
<1>0. TypeOK
  BY DEF ApprovalInv
<1>1. SUFFICES ASSUME NEW h \in Invokers, inv'[h].pc # "idle"
               PROVE  /\ state' \in Begun /\ planNo' \in PlanNos /\ Released(planNo)'
                      /\ inv'[h].pc \in {"claimed", "dispatch"} => inv'[h].plan = planNo'
  BY DEF CallInv
<1>2. Moved(h)
  BY <1>0, CallsMove
<1>3. CASE inv[h].pc # "idle"
  <2>1. /\ state \in Begun /\ planNo \in PlanNos /\ Released(planNo)
        /\ inv[h].pc \in {"claimed", "dispatch"} => inv[h].plan = planNo
    BY <1>3 DEF CallInv
  <2>2. state' \in Begun /\ planNo' = planNo /\ Released(planNo)'
    BY <2>1, NextKeepsReleased
  <2>3. inv'[h].pc \in {"claimed", "dispatch"} => inv'[h].plan = planNo
    BY <1>2, <1>3, <2>1 DEF Moved, RowsInv
  <2> QED
    BY <2>1, <2>2, <2>3
<1>4. CASE inv[h].pc = "idle"
  <2>1. inv'[h].pc = "gated" /\ state \in Executable
    BY <1>1, <1>2, <1>4 DEF Moved
  <2>2. state \in Begun /\ planNo \in PlanNos /\ Released(planNo)
    BY <2>1 DEF ApprovalInv, GateAndTaskAgree, Executable, Begun
  <2> QED
    BY <2>1, <2>2, NextKeepsReleased
<1> QED
  BY <1>3, <1>4

-----------------------------------------------------------------------------
(* A guarded transition to COMPLETED starts from EXECUTING, and only one   *)
(* to EXECUTING reaches EXECUTING.                                         *)
LEMMA MoveToWork ==
    ASSUME NEW st, NEW from, NEW to, to # "EXECUTING"
    PROVE  Move(st, from, to) \in {"EXECUTING", "COMPLETED"} => st \in {"EXECUTING", "COMPLETED"}
  BY DEF Move, CanMove, Edges

(* Work starts by InvokeTool marking the task when it has claimed a step.  *)
WorkStarts ==
    state' \in {"EXECUTING", "COMPLETED"} =>
        state \in {"EXECUTING", "COMPLETED"} \/ \E h \in Invokers : inv[h].pc = "claimed"

LEMMA NextStartsWork ==
    ASSUME NoReportedStart, [Next]_vars
    PROVE  WorkStarts /\ claimed \subseteq claimed'
<1> USE DEF rows, handlers, history
<1>a. ASSUME UNCHANGED <<state, claimed>> PROVE WorkStarts /\ claimed \subseteq claimed'
  BY <1>a DEF WorkStarts
<1>b. ASSUME NEW from, NEW to, to # "EXECUTING", state' = state \/ state' = Move(state, from, to), claimed' = claimed
      PROVE  WorkStarts /\ claimed \subseteq claimed'
  BY <1>b, MoveToWork DEF WorkStarts
<1>1. ASSUME NEW h \in Submitters, SubmitBegin(h) \/ SubmitStep(h) \/ AbortSubmit(h)
      PROVE  WorkStarts /\ claimed \subseteq claimed'
  <2>1. CASE SubmitBegin(h) \/ SubmitLost(h) \/ AbortSubmit(h)
    BY <1>a, <2>1, Zenon DEF SubmitBegin, SubmitLost, AbortSubmit
  <2>2. CASE SubmitAdvance(h)
    <3>1. /\ claimed' = claimed
          /\ \/ state' = state
             \/ state' = Move(state, sub[h].seen, "PLANNING")
             \/ state' = Move(state, sub[h].seen, "VALIDATING")
      BY <2>2, Zenon DEF SubmitAdvance
    <3> QED
      BY <1>b, <3>1
  <2>3. CASE SubmitRefuse(h)
    BY <1>b, <2>3 DEF SubmitRefuse
  <2>4. ASSUME NEW plan \in Plans, NEW cfgN \in RequiredN, SubmitStore(h, plan, cfgN)
        PROVE  WorkStarts /\ claimed \subseteq claimed'
    <3>1. \A outcome : NextState(outcome) \notin {"EXECUTING", "COMPLETED"}
      BY DEF NextState
    <3>2. state' \notin {"EXECUTING", "COMPLETED"} /\ claimed' = claimed
      BY <2>4, <3>1, Zenon DEF SubmitStore
    <3> QED
      BY <3>2 DEF WorkStarts
  <2>5. CASE SubmitFinish(h)
    <3>1. /\ state' = state \/ state' = Move(state, "VALIDATING", "DENIED")
          /\ claimed' = claimed
      BY <2>5, Zenon DEF SubmitFinish
    <3> QED
      BY <1>b, <3>1
  <2> QED
    BY <1>1, <2>1, <2>2, <2>3, <2>4, <2>5 DEF SubmitStep
<1>2. ASSUME NEW h \in Invokers, InvokeAction(h)
      PROVE  WorkStarts /\ claimed \subseteq claimed'
  <2>1. ASSUME NEW s \in Seqs, NEW tool \in Tools, NEW args \in Args, InvokeBegin(h, s, tool, args)
        PROVE  UNCHANGED <<state, claimed>>
    BY <2>1, Zenon DEF InvokeBegin
  <2>2. ASSUME \/ InvokeReserve(h) \/ InvokeProxyError(h) \/ InvokeRelease(h)
               \/ InvokeSettle(h) \/ AbortInvoke(h)
        PROVE  UNCHANGED <<state, claimed>>
    BY <2>2, Zenon DEF InvokeReserve, InvokeProxyError, InvokeRelease, InvokeSettle, AbortInvoke
  <2>3. ASSUME NEW cost \in ActualCosts \cup {0}, InvokeDispatch(h, cost) PROVE UNCHANGED <<state, claimed>>
    BY <2>3, Zenon DEF InvokeDispatch
  <2>4. CASE InvokeClaim(h)
    <3>1. state' = state /\ claimed \subseteq claimed'
      BY <2>4, Zenon DEF InvokeClaim
    <3> QED
      BY <3>1 DEF WorkStarts
  <2>5. CASE InvokeMark(h)
    BY <2>5, Zenon DEF InvokeMark, WorkStarts
  <2> QED
    BY <1>2, <1>a, <2>1, <2>2, <2>3, <2>4, <2>5 DEF InvokeAction, InvokeStep
<1>3. ASSUME NEW h \in Voters, NEW u \in Users, NEW b \in BOOLEAN, NEW d, VoteBegin(h, u, b, d)
      PROVE  UNCHANGED <<state, claimed>>
  BY <1>3, Zenon DEF VoteBegin
<1>4. ASSUME NEW h \in Voters, VoteCheck(h) \/ VoteRefuse(h) \/ VoteMint(h) \/ AbortVote(h)
      PROVE  UNCHANGED <<state, claimed>>
  BY <1>4, Zenon DEF VoteCheck, VoteRefuse, VoteMint, AbortVote
<1>5. ASSUME NEW h \in Voters, VoteResolve(h)
      PROVE  WorkStarts /\ claimed \subseteq claimed'
  <2>1. state' \in {state, "DENIED", "APPROVED"} /\ claimed' = claimed
    BY <1>5, Zenon DEF VoteResolve
  <2> QED
    BY <2>1 DEF WorkStarts
<1>6. ASSUME NEW p \in PlanNos, GateDue(p) \/ SweepExpire(p) PROVE UNCHANGED <<state, claimed>>
  BY <1>6, Zenon DEF GateDue, SweepExpire
<1>7. ASSUME CancelBegin \/ CancelWithdraw \/ ReportBegin \/ PollBegin \/ PollMint \/ AbortOther
      PROVE  UNCHANGED <<state, claimed>>
  BY <1>7, Zenon DEF CancelBegin, CancelWithdraw, ReportBegin, PollBegin, PollMint, AbortOther
<1>8. ASSUME CancelTransition \/ SweepTimeout PROVE WorkStarts /\ claimed \subseteq claimed'
  BY <1>8, <1>b DEF CancelTransition, SweepTimeout
<1>9. ASSUME NEW to \in ReportedStatuses, ReportTransition(to)
      PROVE  WorkStarts /\ claimed \subseteq claimed'
  BY <1>9, <1>b DEF ReportTransition, NoReportedStart
<1>10. ASSUME UNCHANGED vars PROVE UNCHANGED <<state, claimed>>
  BY <1>10 DEF vars
<1> QED
  BY <1>a, <1>1, <1>2, <1>3, <1>4, <1>5, <1>6, <1>7, <1>8, <1>9, <1>10
  DEF Next, VoteStep, CancelStep, ReportStep, InvokeAction

LEMMA NextKeepsStartInv ==
    ASSUME NoReportedStart, TypeOK, StartInv, [Next]_vars
    PROVE  StartInv'
<1>1. WorkStarts /\ claimed \subseteq claimed'
  BY NextStartsWork
<1>2. state' \in {"EXECUTING", "COMPLETED"} => claimed' # {}
  BY <1>1, Zenon DEF StartInv, WorkStarts
<1>3. ASSUME NEW h \in Invokers, inv'[h].pc = "claimed" PROVE claimed' # {}
  <2>1. Moved(h)
    BY CallsMove
  <2>2. inv[h].pc = "claimed" \/ claimed' # {}
    BY <1>3, <2>1 DEF Moved
  <2> QED
    BY <1>1, <2>2, Zenon DEF StartInv
<1> QED
  BY <1>2, <1>3 DEF StartInv

LEMMA InitReleaseInv == Init => RowsInv /\ CallInv /\ StartInv
<1> SUFFICES ASSUME Init PROVE RowsInv /\ CallInv /\ StartInv
  OBVIOUS
<1>1. (\A s \in Seqs : ~Present(steps[s])) /\ (\A h \in Invokers : inv[h].pc = "idle") /\ state = "CREATED"
  BY DEF Init, IdleInv, NoStep, Present
<1> QED
  BY <1>1 DEF RowsInv, CallInv, StartInv

-----------------------------------------------------------------------------
(* When every plan has a step, each row that InvokeTool can still claim    *)
(* belongs to the plan stored last, whatever SubmitPlans race and however  *)
(* often the task replans (insertPlanStepBatch deletes the other rows in   *)
(* the transaction that stores the plan).                                  *)
THEOREM RowsAreCurrent == PlansHaveSteps => (Spec => []StepsAreCurrent)
<1> SUFFICES ASSUME PlansHaveSteps PROVE Spec => []StepsAreCurrent
  OBVIOUS
<1>1. Init => TypeOK /\ RowsInv
  BY InitTyped, InitReleaseInv
<1>2. TypeOK /\ RowsInv /\ [Next]_vars => TypeOK' /\ RowsInv'
  BY NextTyped, NextKeepsRowsInv
<1>3. RowsInv => StepsAreCurrent
  BY DEF RowsInv, StepsAreCurrent, Claimable
<1> QED
  BY <1>1, <1>2, <1>3, PTL DEF Spec

(* When every plan has a step and the gateway does not send the task back  *)
(* to PLANNING, a call that is about to reach its tool holds a step of a   *)
(* released plan, although InvokeTool read the task row and judged it      *)
(* several statements before it claimed the step.                          *)
THEOREM RunsAreReleased == PlansHaveSteps /\ NoReplan => (Spec => []OnlyReleasedStepsRun)
<1> SUFFICES ASSUME PlansHaveSteps, NoReplan PROVE Spec => []OnlyReleasedStepsRun
  OBVIOUS
<1>1. Init => ApprovalInv /\ RowsInv /\ CallInv
  BY InitApprovalInv, InitReleaseInv
<1>2. ApprovalInv /\ RowsInv /\ CallInv /\ [Next]_vars => ApprovalInv' /\ RowsInv' /\ CallInv'
  <2> SUFFICES ASSUME ApprovalInv, RowsInv, CallInv, [Next]_vars PROVE ApprovalInv' /\ RowsInv' /\ CallInv'
    OBVIOUS
  <2>1. TypeOK
    BY DEF ApprovalInv
  <2> QED
    BY <2>1, NextKeepsApprovalInv, NextKeepsRowsInv, NextKeepsCallInv DEF StepKeeps
<1>3. CallInv => OnlyReleasedStepsRun
  BY DEF CallInv, OnlyReleasedStepsRun
<1> QED
  BY <1>1, <1>2, <1>3, PTL DEF Spec

(* When the gateway leaves it to InvokeTool to start the task, a task is   *)
(* completed only after a step of it was claimed (isValidTransition: "a    *)
(* task cannot complete work it never started").                           *)
THEOREM CompletionNeedsWork == NoReportedStart => (Spec => []CompletedWorkStarted)
<1> SUFFICES ASSUME NoReportedStart PROVE Spec => []CompletedWorkStarted
  OBVIOUS
<1>1. Init => TypeOK /\ StartInv
  BY InitTyped, InitReleaseInv
<1>2. TypeOK /\ StartInv /\ [Next]_vars => TypeOK' /\ StartInv'
  BY NextTyped, NextKeepsStartInv
<1>3. StartInv => CompletedWorkStarted
  BY DEF StartInv, CompletedWorkStarted
<1> QED
  BY <1>1, <1>2, <1>3, PTL DEF Spec
=============================================================================
