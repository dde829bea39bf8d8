------------------------ MODULE TaskLifecycle_proofs ------------------------
(***************************************************************************)
(* Proofs about TaskLifecycle for every value of its constants: any number *)
(* of users, plans, steps and concurrent calls, any of which may die.      *)
(* First the types, then the approval gates: GateAndTaskAgree,             *)
(* ApprovalIsGenuine and DecisionsAreFinal.                                *)
(***************************************************************************)
EXTENDS TaskLifecycle, TLAPS

-----------------------------------------------------------------------------
(* Transition leaves the row alone or writes the target state.             *)
LEMMA MoveIsTyped ==
    ASSUME NEW st \in TaskStates, NEW from, NEW to \in TaskStates
    PROVE  Move(st, from, to) \in TaskStates
  BY DEF Move

(* A row is a step or absent, and only a step is mintable or claimable.    *)
LEMMA PresentRows ==
    ASSUME NEW row \in StepRow \cup {NoStep}
    PROVE  /\ Present(row) <=> row \in StepRow
           /\ row.cost \in Nat /\ row.plan \in 0..MaxPlans /\ row.consumed \in BOOLEAN
<1>1. CASE row = NoStep
  BY <1>1, LifecycleAssumption DEF StepRow, NoStep, Present, Decisions, Gated
<1>2. CASE row \in StepRow
  BY <1>2, LifecycleAssumption DEF StepRow, Present, Decisions, Gated, PlanNos
<1> QED
  BY <1>1, <1>2

LEMMA MintableRows ==
    ASSUME NEW st \in [Seqs -> StepRow \cup {NoStep}]
    PROVE  /\ Mintable(st) \subseteq Seqs
           /\ \A s \in Mintable(st) : st[s].args \in Args /\ st[s].tool \in Tools
           /\ MintableTools(st) \subseteq Tools
<1>1. \A s \in Mintable(st) : s \in Seqs /\ st[s] \in StepRow
  BY PresentRows DEF Mintable
<1> QED
  BY <1>1 DEF StepRow, MintableTools

(* A digest of well-typed step rows is a digest.                           *)
LEMMA DigestIsTyped ==
    ASSUME NEW st \in [Seqs -> StepRow \cup {NoStep}]
    PROVE  ArgsDigest(st) \in Digest
<1>1. SUFFICES ASSUME NEW s \in Mintable(st)
               PROVE  <<Cardinality({t \in Mintable(st) : t <= s}), st[s].args>>
                        \in {Cardinality(S) : S \in SUBSET Seqs} \X Args
  BY Zenon DEF ArgsDigest, Digest
<1>2. {t \in Mintable(st) : t <= s} \subseteq Seqs /\ st[s].args \in Args
  BY MintableRows
<1>3. Cardinality({t \in Mintable(st) : t <= s}) \in {Cardinality(S) : S \in SUBSET Seqs}
  BY <1>2, Zenon
<1> QED
  BY <1>2, <1>3

(* What approvalsvc.Plan and the upsert compute is well typed.             *)
LEMMA ThresholdIsTyped ==
    ASSUME NEW outcome, NEW cfgN \in RequiredN
    PROVE  /\ Threshold(outcome, cfgN) \in Nat \ {0}
           /\ outcome = "NEEDS_STEP_UP" => Threshold(outcome, cfgN) >= 2
  BY LifecycleAssumption DEF Threshold, Floor

LEMMA OutcomeIsTyped ==
    ASSUME NEW plan, NEW n
    PROVE  /\ GatedOutcome(Outcome(plan), n) \in {"APPROVED", "DENIED", "NEEDS_HUMAN", "NEEDS_STEP_UP"}
           /\ GatedOutcome(Outcome(plan), n) = "NEEDS_STEP_UP" => Outcome(plan) = "NEEDS_STEP_UP"
  BY DEF GatedOutcome, Outcome

LEMMA UpsertIsTyped ==
    ASSUME NEW plan \in Plans, NEW st \in [Seqs -> StepRow \cup {NoStep}], NEW no \in PlanNos
    PROVE  Upsert(st, plan, no) \in [Seqs -> StepRow \cup {NoStep}]
<1>1. DOMAIN plan \subseteq Seqs /\ plan \in [DOMAIN plan -> PlanStep]
  BY LifecycleAssumption
<1>2. ASSUME NEW s \in Seqs, s \in DOMAIN plan
      PROVE  [tool |-> plan[s].tool, args |-> plan[s].args, decision |-> plan[s].decision,
              cost |-> plan[s].cost, consumed |-> st[s].consumed, plan |-> no] \in StepRow
  <2>1. plan[s] \in PlanStep /\ st[s].consumed \in BOOLEAN
    BY <1>1, <1>2, PresentRows
  <2> QED
    BY <2>1 DEF StepRow, PlanStep
<1> QED
  BY <1>2 DEF Upsert

LEMMA VoteIsTyped ==
    ASSUME NEW g \in GateRow, NEW u \in Users, NEW b \in BOOLEAN, NEW d \in Digest
    PROVE  Vote(g, u, b, d) \in GateRow
  BY Zenon DEF Vote, GateRow

LEMMA InitTyped == Init => TypeOK
  BY LifecycleAssumption
  DEF Init, TypeOK, TaskStates, Terminal, NoStep, NoGate, IdleSub, IdleInv, IdleVote, IdleCan, IdleSweep,
      StepRow, GateRow, SubmitCall, InvokeCall, VoteCall, Digest, PlanNos

(* The idle calls are well typed.                                          *)
LEMMA IdleTyped ==
    /\ IdleSub \in SubmitCall /\ IdleInv \in InvokeCall /\ IdleVote \in VoteCall
    /\ IdleCan \in [pc : {"idle"}, seen : TaskStates] /\ IdleSweep \in [pc : {"idle"}, gate : 0..MaxPlans]
  BY LifecycleAssumption
  DEF IdleSub, IdleInv, IdleVote, IdleCan, IdleSweep, SubmitCall, InvokeCall, VoteCall,
      TaskStates, Terminal, Digest

(* Every step of every handler keeps the types.                            *)
LEMMA NextTyped == TypeOK /\ [Next]_vars => TypeOK'
<1> SUFFICES ASSUME TypeOK, [Next]_vars PROVE TypeOK'
  OBVIOUS
<1> USE DEF rows, handlers, history
<1>1. ASSUME NEW h \in Submitters, SubmitBegin(h)
      PROVE  TypeOK'
  <2>1. sub' \in [Submitters -> SubmitCall]
    BY <1>1, IdleTyped, Zenon DEF TypeOK, SubmitBegin, SubmitCall
  <2> QED
    BY <1>1, <2>1 DEF TypeOK, SubmitBegin
<1>2. ASSUME NEW h \in Submitters, SubmitAdvance(h)
      PROVE  TypeOK'
  <2>1. state' \in TaskStates
    BY <1>2, MoveIsTyped DEF TypeOK, SubmitAdvance, TaskStates, Terminal
  <2>2. sub[h] \in SubmitCall
    BY <1>2 DEF TypeOK, SubmitAdvance
  <2>3. [sub[h] EXCEPT !.pc = "validate", !.seen = "VALIDATING"] \in SubmitCall
    BY <2>2, Zenon DEF SubmitCall, TaskStates, Terminal
  <2>4. [sub[h] EXCEPT !.seen = "PLANNING"] \in SubmitCall
    BY <2>2, Zenon DEF SubmitCall, TaskStates, Terminal
  <2>5. sub' \in [Submitters -> SubmitCall]
    BY <1>2, <2>3, <2>4, IdleTyped DEF TypeOK, SubmitAdvance
  <2> QED
    BY <1>2, <2>1, <2>2, <2>3, <2>4, <2>5 DEF TypeOK, SubmitAdvance
<1>3. ASSUME NEW h \in Submitters, SubmitRefuse(h)
      PROVE  TypeOK'
  <2>1. state' \in TaskStates
    BY <1>3, MoveIsTyped DEF TypeOK, SubmitRefuse, TaskStates, Terminal
  <2>2. sub' \in [Submitters -> SubmitCall]
    BY <1>3, IdleTyped DEF TypeOK, SubmitRefuse
  <2> QED
    BY <1>3, <2>1, <2>2 DEF TypeOK, SubmitRefuse
<1>4. ASSUME NEW h \in Submitters, SubmitLost(h)
      PROVE  TypeOK'
  <2>1. sub' \in [Submitters -> SubmitCall]
    BY <1>4, IdleTyped DEF TypeOK, SubmitLost
  <2> QED
    BY <1>4, <2>1 DEF TypeOK, SubmitLost
<1>5. ASSUME NEW h \in Submitters, SubmitFinish(h)
      PROVE  TypeOK'
  <2>1. state' \in TaskStates
    BY <1>5, MoveIsTyped DEF TypeOK, SubmitFinish, TaskStates, Terminal
  <2>2. sub' \in [Submitters -> SubmitCall]
    BY <1>5, IdleTyped DEF TypeOK, SubmitFinish
  <2>3. sub[h].mint \subseteq Tools /\ sub[h].n \in Nat \ {0}
    BY <1>5 DEF TypeOK, SubmitFinish, SubmitCall
  <2>4. NewGate(h) \in GateRow
    BY <1>5, <2>3, LifecycleAssumption, Zenon DEF TypeOK, SubmitFinish, NewGate, NoGate, GateRow, Approvers
  <2>5. gates' \in [PlanNos -> GateRow]
    BY <1>5, <2>4, Zenon DEF TypeOK, SubmitFinish
  <2> QED
    BY <1>5, <2>1, <2>2, <2>3, <2>4, <2>5 DEF TypeOK, SubmitFinish
<1>6. ASSUME NEW h \in Submitters, NEW plan \in Plans, NEW cfgN \in RequiredN, SubmitStore(h, plan, cfgN)
      PROVE  TypeOK'
  <2>1. planNo + 1 \in PlanNos
    BY <1>6, LifecycleAssumption DEF TypeOK, SubmitStore, PlanNos
  <2>2. steps' \in [Seqs -> StepRow \cup {NoStep}]
    BY <1>6, <2>1, UpsertIsTyped, LifecycleAssumption, Zenon DEF TypeOK, SubmitStore, PlanNos
  <2>3. shown' \in [PlanNos -> Digest]
    BY <1>6, <2>2, DigestIsTyped, Zenon DEF TypeOK, SubmitStore
  <2>4. \A n : NextState(GatedOutcome(Outcome(plan), n)) \in TaskStates
    BY DEF NextState, TaskStates, Terminal
  <2>5. {plan[s].tool : s \in DOMAIN plan} \subseteq Tools
    BY LifecycleAssumption DEF PlanStep
  <2>6. \A n \in Nat \ {0} :
           [sub[h] EXCEPT !.pc = "finish", !.outcome = GatedOutcome(Outcome(plan), n), !.n = n,
                          !.plan = planNo + 1, !.mint = {plan[s].tool : s \in DOMAIN plan}] \in SubmitCall
    <3>1. sub[h] \in SubmitCall /\ planNo + 1 \in 0..MaxPlans
      BY <2>1, LifecycleAssumption DEF TypeOK, PlanNos
    <3> QED
      BY <2>5, <3>1, OutcomeIsTyped, Zenon DEF SubmitCall
  <2>7. sub' \in [Submitters -> SubmitCall]
    BY <1>6, <2>6, ThresholdIsTyped, Zenon DEF TypeOK, SubmitStore
  <2>8. state' \in TaskStates /\ planNo' \in 0..MaxPlans /\ auto' \subseteq PlanNos
    BY <1>6, <2>1, <2>4, LifecycleAssumption DEF TypeOK, SubmitStore, PlanNos
  <2> QED
    BY <1>6, <2>2, <2>3, <2>7, <2>8 DEF TypeOK, SubmitStore
<1>7. ASSUME NEW h \in Submitters, AbortSubmit(h)
      PROVE  TypeOK'
  <2>1. sub' \in [Submitters -> SubmitCall]
    BY <1>7, IdleTyped DEF TypeOK, AbortSubmit
  <2> QED
    BY <1>7, <2>1 DEF TypeOK, AbortSubmit
<1>8. ASSUME NEW h \in Invokers, NEW s \in Seqs, NEW tool \in Tools, NEW args \in Args, InvokeBegin(h, s, tool, args)
      PROVE  TypeOK'
  <2>1. [IdleInv EXCEPT !.pc = "gated", !.seen = state, !.seq = s, !.tool = tool, !.args = args] \in InvokeCall
    BY <1>8, IdleTyped, Zenon DEF TypeOK, InvokeBegin, InvokeCall
  <2>2. inv' \in [Invokers -> InvokeCall]
    BY <1>8, <2>1 DEF TypeOK, InvokeBegin
  <2>3. \A k \in Invokers : inv'[k].pc # "idle" => inv'[k].seq \in Seqs
    BY <1>8 DEF TypeOK, InvokeBegin, InvokeCall, IdleInv
  <2> QED
    BY <1>8, <2>1, <2>2, <2>3 DEF TypeOK, InvokeBegin
<1>9. ASSUME NEW h \in Invokers, InvokeReserve(h)
      PROVE  TypeOK'
  <2>1. Units(steps[inv[h].seq]) \in Nat
    BY <1>9, PresentRows DEF TypeOK, InvokeReserve, Units
  <2>2. consumed' \in Int
    BY <1>9, <2>1 DEF TypeOK, InvokeReserve
  <2>3. inv[h] \in InvokeCall
    BY <1>9 DEF TypeOK, InvokeReserve
  <2>4. [inv[h] EXCEPT !.pc = "reserved", !.reserved = Units(steps[inv[h].seq])] \in InvokeCall
    BY <2>1, <2>3, Zenon DEF InvokeCall
  <2>5. inv' \in [Invokers -> InvokeCall]
    BY <1>9, <2>4, IdleTyped DEF TypeOK, InvokeReserve
  <2>6. inv[h].seq \in Seqs /\ [inv[h] EXCEPT !.pc = "reserved", !.reserved = Units(steps[inv[h].seq])].seq = inv[h].seq
    BY <1>9, <2>3 DEF TypeOK, InvokeReserve, InvokeCall
  <2>7. inv' = [inv EXCEPT ![h] = [inv[h] EXCEPT !.pc = "reserved", !.reserved = Units(steps[inv[h].seq])]]
        \/ inv' = [inv EXCEPT ![h] = IdleInv]
    BY <1>9, Zenon DEF InvokeReserve
  <2>8. \A k \in Invokers : inv'[k].pc # "idle" => inv'[k].seq \in Seqs
    <3> DEFINE new == [inv[h] EXCEPT !.pc = "reserved", !.reserved = Units(steps[inv[h].seq])]
    <3>1. \A k \in Invokers : inv'[k] = inv[k] \/ inv'[k] = IdleInv \/ inv'[k] = new
      BY <2>7 DEF TypeOK
    <3>2. IdleInv.pc = "idle"
      BY DEF IdleInv
    <3> QED
      BY <2>6, <3>1, <3>2, Zenon DEF TypeOK
  <2> QED
    BY <1>9, <2>1, <2>2, <2>3, <2>4, <2>5, <2>6, <2>7, <2>8 DEF TypeOK, InvokeReserve
<1>10. ASSUME NEW h \in Invokers, InvokeClaim(h)
      PROVE  TypeOK'
  <2> DEFINE s == inv[h].seq
  <2>1. s \in Seqs /\ inv[h] \in InvokeCall /\ steps[s] \in StepRow \cup {NoStep}
    BY <1>10 DEF TypeOK, InvokeClaim
  <2>2. CASE Claimable(steps[s], inv[h].tool, inv[h].args)
    <3>1. steps[s] \in StepRow
      BY <2>1, <2>2, PresentRows DEF Claimable
    <3>2. [steps[s] EXCEPT !.consumed = TRUE] \in StepRow /\ steps[s].plan \in PlanNos
      BY <3>1, Zenon DEF StepRow
    <3>3. [inv[h] EXCEPT !.pc = "claimed", !.plan = steps[s].plan] \in InvokeCall
      <4>1. steps[s].plan \in 0..MaxPlans
        BY <2>1, PresentRows
      <4> QED
        BY <2>1, <4>1, Zenon DEF InvokeCall
    <3>4. /\ steps' = [steps EXCEPT ![s] = [steps[s] EXCEPT !.consumed = TRUE]]
          /\ inv' = [inv EXCEPT ![h] = [inv[h] EXCEPT !.pc = "claimed", !.plan = steps[s].plan]]
          /\ claimed' = claimed \cup {<<steps[s].plan, s>>}
      BY <1>10, <2>2, Zenon DEF InvokeClaim
    <3>5. steps' \in [Seqs -> StepRow \cup {NoStep}] /\ claimed' \subseteq PlanNos \X Seqs
      BY <2>1, <3>2, <3>4 DEF TypeOK
    <3>6. inv' \in [Invokers -> InvokeCall]
      BY <3>3, <3>4 DEF TypeOK
    <3>7. \A k \in Invokers : inv'[k].pc # "idle" => inv'[k].seq \in Seqs
      BY <2>1, <3>4 DEF TypeOK, InvokeCall
    <3> QED
      BY <1>10, <3>5, <3>6, <3>7 DEF TypeOK, InvokeClaim
  <2>3. CASE ~Claimable(steps[s], inv[h].tool, inv[h].args)
    <3>1. [inv[h] EXCEPT !.pc = "release"] \in InvokeCall
      BY <2>1, Zenon DEF InvokeCall
    <3>2. inv' = [inv EXCEPT ![h] = [inv[h] EXCEPT !.pc = "release"]] /\ UNCHANGED <<steps, claimed>>
      BY <1>10, <2>3, Zenon DEF InvokeClaim
    <3>3. inv' \in [Invokers -> InvokeCall]
      BY <3>1, <3>2 DEF TypeOK
    <3>4. \A k \in Invokers : inv'[k].pc # "idle" => inv'[k].seq \in Seqs
      BY <2>1, <3>2 DEF TypeOK, InvokeCall
    <3> QED
      BY <1>10, <3>2, <3>3, <3>4 DEF TypeOK, InvokeClaim
  <2> QED
    BY <2>2, <2>3
<1>11. ASSUME NEW h \in Invokers, InvokeMark(h)
      PROVE  TypeOK'
  <2>1. state' \in TaskStates
    BY <1>11, MoveIsTyped DEF TypeOK, InvokeMark, TaskStates, Terminal
  <2>2. inv[h] \in InvokeCall
    BY <1>11 DEF TypeOK, InvokeMark
  <2>3. [inv[h] EXCEPT !.pc = "dispatch"] \in InvokeCall
    BY <2>2, Zenon DEF InvokeCall
  <2>4. inv' \in [Invokers -> InvokeCall]
    BY <1>11, <2>3 DEF TypeOK, InvokeMark
  <2>5. \A k \in Invokers : inv'[k].pc # "idle" => inv'[k].seq \in Seqs
    BY <1>11 DEF TypeOK, InvokeMark, InvokeCall
  <2> QED
    BY <1>11, <2>1, <2>2, <2>3, <2>4, <2>5 DEF TypeOK, InvokeMark
<1>12. ASSUME NEW h \in Invokers, NEW cost \in ActualCosts \cup {0}, InvokeDispatch(h, cost)
      PROVE  TypeOK'
  <2>1. cost \in Nat
    BY <1>12, LifecycleAssumption DEF TypeOK, InvokeDispatch
  <2>2. inv[h] \in InvokeCall
    BY <1>12 DEF TypeOK, InvokeDispatch
  <2>3. [inv[h] EXCEPT !.pc = "settle", !.actual = cost] \in InvokeCall
    BY <2>1, <2>2, Zenon DEF InvokeCall
  <2>4. inv' \in [Invokers -> InvokeCall]
    BY <1>12, <2>3 DEF TypeOK, InvokeDispatch
  <2>5. \A k \in Invokers : inv'[k].pc # "idle" => inv'[k].seq \in Seqs
    BY <1>12, <2>2 DEF TypeOK, InvokeDispatch, InvokeCall
  <2>6. \A p \in PlanNos : [ran[p] EXCEPT ![inv[h].seq] = @ + 1] \in [Seqs -> Nat]
    BY <1>12 DEF TypeOK, InvokeDispatch
  <2>7. ran' \in [PlanNos -> [Seqs -> Nat]]
    BY <1>12, <2>6, Zenon DEF TypeOK, InvokeDispatch
  <2> QED
    BY <1>12, <2>1, <2>2, <2>3, <2>4, <2>5, <2>6, <2>7 DEF TypeOK, InvokeDispatch
<1>13. ASSUME NEW h \in Invokers, InvokeProxyError(h)
      PROVE  TypeOK'
  <2>1. inv[h] \in InvokeCall
    BY <1>13 DEF TypeOK, InvokeProxyError
  <2>2. [inv[h] EXCEPT !.pc = "release"] \in InvokeCall
    BY <2>1, Zenon DEF InvokeCall
  <2>3. inv' \in [Invokers -> InvokeCall]
    BY <1>13, <2>2 DEF TypeOK, InvokeProxyError
  <2>4. \A k \in Invokers : inv'[k].pc # "idle" => inv'[k].seq \in Seqs
    BY <1>13 DEF TypeOK, InvokeProxyError, InvokeCall
  <2> QED
    BY <1>13, <2>1, <2>2, <2>3, <2>4 DEF TypeOK, InvokeProxyError
<1>14. ASSUME NEW h \in Invokers, InvokeRelease(h)
      PROVE  TypeOK'
  <2>1. consumed' \in Int
    BY <1>14 DEF TypeOK, InvokeRelease, InvokeCall
  <2>2. inv' \in [Invokers -> InvokeCall]
    BY <1>14, IdleTyped DEF TypeOK, InvokeRelease
  <2>3. \A k \in Invokers : inv'[k].pc # "idle" => inv'[k].seq \in Seqs
    BY <1>14 DEF TypeOK, InvokeRelease, IdleInv
  <2> QED
    BY <1>14, <2>1, <2>2, <2>3 DEF TypeOK, InvokeRelease
<1>15. ASSUME NEW h \in Invokers, InvokeSettle(h)
      PROVE  TypeOK'
  <2>1. inv[h].actual \in Nat /\ inv[h].reserved \in Nat
    BY <1>15 DEF TypeOK, InvokeSettle, InvokeCall
  <2>2. consumed' \in Int /\ overrun' \in Nat /\ spent' \in Nat
    BY <1>15, <2>1 DEF TypeOK, InvokeSettle
  <2>3. inv' \in [Invokers -> InvokeCall]
    BY <1>15, IdleTyped DEF TypeOK, InvokeSettle
  <2>4. \A k \in Invokers : inv'[k].pc # "idle" => inv'[k].seq \in Seqs
    BY <1>15 DEF TypeOK, InvokeSettle, IdleInv
  <2> QED
    BY <1>15, <2>1, <2>2, <2>3, <2>4 DEF TypeOK, InvokeSettle
<1>16. ASSUME NEW h \in Invokers, AbortInvoke(h)
      PROVE  TypeOK'
  <2>1. leaked' \in Nat
    BY <1>16 DEF TypeOK, AbortInvoke, InvokeCall
  <2>2. inv' \in [Invokers -> InvokeCall]
    BY <1>16, IdleTyped DEF TypeOK, AbortInvoke
  <2>3. \A k \in Invokers : inv'[k].pc # "idle" => inv'[k].seq \in Seqs
    BY <1>16, SMTT(30) DEF TypeOK, AbortInvoke, IdleInv
  <2> QED
    BY <1>16, <2>1, <2>2, <2>3 DEF TypeOK, AbortInvoke
<1>17. ASSUME NEW h \in Voters, NEW u \in Users, NEW approved \in BOOLEAN, NEW q \in 1..planNo, VoteBegin(h, u, approved, shown[q])
      PROVE  TypeOK'
  <2>1. shown[q] \in Digest
    BY <1>17, LifecycleAssumption DEF TypeOK, VoteBegin, PlanNos
  <2>2. \A p \in PlanNos : [pc |-> "loaded", user |-> u, approved |-> approved, gate |-> p,
                        digest |-> shown[q], mint |-> {}] \in VoteCall
    BY <1>17, <2>1, LifecycleAssumption DEF TypeOK, VoteBegin, VoteCall, PlanNos
  <2>3. vote' \in [Voters -> VoteCall]
    BY <1>17, <2>2 DEF TypeOK, VoteBegin
  <2> QED
    BY <1>17, <2>1, <2>2, <2>3, Zenon DEF TypeOK, VoteBegin
<1>18. ASSUME NEW h \in Voters, VoteCheck(h)
      PROVE  TypeOK'
  <2>1. MintableTools(steps) \subseteq Tools
    BY MintableRows DEF TypeOK
  <2>2. vote[h] \in VoteCall
    BY <1>18 DEF TypeOK, VoteCheck
  <2>3. [vote[h] EXCEPT !.pc = "checked", !.mint = MintableTools(steps)] \in VoteCall
    BY <2>1, <2>2, Zenon DEF VoteCall
  <2>4. vote' \in [Voters -> VoteCall]
    BY <1>18, <2>3, SMTT(30) DEF TypeOK, VoteCheck
  <2> QED
    BY <1>18, <2>1, <2>2, <2>3, <2>4 DEF TypeOK, VoteCheck
<1>19. ASSUME NEW h \in Voters, VoteRefuse(h)
      PROVE  TypeOK'
  <2>1. vote' \in [Voters -> VoteCall]
    BY <1>19, IdleTyped, SMTT(30) DEF TypeOK, VoteRefuse
  <2> QED
    BY <1>19, <2>1, Zenon DEF TypeOK, VoteRefuse
<1>20. ASSUME NEW h \in Voters, VoteResolve(h)
      PROVE  TypeOK'
  <2>1. vote[h] \in VoteCall
    BY DEF TypeOK
  <2>2. Vote(gates[vote[h].gate], vote[h].user, vote[h].approved, vote[h].digest) \in GateRow
        \/ vote[h].gate \notin PlanNos
    BY <2>1, VoteIsTyped DEF TypeOK, VoteCall
  <2>3. gates' \in [PlanNos -> GateRow]
    BY <1>20, <2>2, Zenon DEF TypeOK, VoteResolve
  <2>4. [vote[h] EXCEPT !.pc = "mint"] \in VoteCall
    BY <2>1 DEF VoteCall
  <2>5. vote' \in [Voters -> VoteCall]
    BY <1>20, <2>4, IdleTyped DEF TypeOK, VoteResolve
  <2>6. state' \in TaskStates
    BY <1>20 DEF TypeOK, VoteResolve, TaskStates, Terminal
  <2> QED
    BY <1>20, <2>3, <2>5, <2>6, Zenon DEF TypeOK, VoteResolve
<1>21. ASSUME NEW h \in Voters, VoteMint(h)
      PROVE  TypeOK'
  <2>1. vote[h].mint \subseteq Tools
    BY <1>21 DEF TypeOK, VoteMint, VoteCall
  <2>2. vote' \in [Voters -> VoteCall]
    BY <1>21, IdleTyped DEF TypeOK, VoteMint
  <2> QED
    BY <1>21, <2>1, <2>2 DEF TypeOK, VoteMint
<1>22. ASSUME NEW h \in Voters, AbortVote(h)
      PROVE  TypeOK'
  <2>1. vote' \in [Voters -> VoteCall]
    BY <1>22, IdleTyped DEF TypeOK, AbortVote
  <2> QED
    BY <1>22, <2>1 DEF TypeOK, AbortVote
<1>23. ASSUME NEW p \in PlanNos, GateDue(p)
      PROVE  TypeOK'
  <2>1. gates[p] \in GateRow
    BY <1>23 DEF TypeOK, GateDue
  <2>2. [gates[p] EXCEPT !.due = TRUE] \in GateRow
    BY <2>1, Zenon DEF GateRow
  <2>3. gates' \in [PlanNos -> GateRow]
    BY <1>23, <2>2 DEF TypeOK, GateDue
  <2> QED
    BY <1>23, <2>1, <2>2, <2>3 DEF TypeOK, GateDue
<1>24. ASSUME NEW p \in PlanNos, SweepExpire(p)
      PROVE  TypeOK'
  <2>1. gates[p] \in GateRow
    BY <1>24 DEF TypeOK, SweepExpire
  <2>2. [gates[p] EXCEPT !.state = "EXPIRED"] \in GateRow
    BY <2>1, Zenon DEF GateRow
  <2>3. gates' \in [PlanNos -> GateRow]
    BY <1>24, <2>2 DEF TypeOK, SweepExpire
  <2>4. sweep' \in [pc : {"idle", "timeout"}, gate : 0..MaxPlans]
    BY <1>24, LifecycleAssumption DEF TypeOK, SweepExpire, PlanNos
  <2> QED
    BY <1>24, <2>1, <2>2, <2>3, <2>4 DEF TypeOK, SweepExpire
<1>25. ASSUME CancelBegin
      PROVE  TypeOK'
  BY <1>25 DEF TypeOK, CancelBegin, TaskStates, Terminal
<1>26. ASSUME CancelWithdraw
      PROVE  TypeOK'
  <2>1. \A g \in GateRow : [g EXCEPT !.state = "DENIED", !.no = @ \cup {Owner}] \in GateRow
    BY LifecycleAssumption, Zenon DEF GateRow
  <2>2. gates' \in [PlanNos -> GateRow]
    BY <1>26, <2>1, Zenon DEF TypeOK, CancelWithdraw
  <2> QED
    BY <1>26, <2>1, <2>2, Zenon DEF TypeOK, CancelWithdraw
<1>27. ASSUME CancelTransition
      PROVE  TypeOK'
  <2>1. state' \in TaskStates
    BY <1>27, MoveIsTyped DEF TypeOK, CancelTransition, TaskStates, Terminal
  <2>2. can' \in [pc : {"idle", "withdraw", "cancel"}, seen : TaskStates]
    BY <1>27, IdleTyped DEF TypeOK, CancelTransition
  <2> QED
    BY <1>27, <2>1, <2>2 DEF TypeOK, CancelTransition
<1>28. ASSUME SweepTimeout
      PROVE  TypeOK'
  <2>1. state' \in TaskStates
    BY <1>28, MoveIsTyped DEF TypeOK, SweepTimeout, TaskStates, Terminal
  <2>2. sweep' \in [pc : {"idle", "timeout"}, gate : 0..MaxPlans]
    BY <1>28, IdleTyped DEF TypeOK, SweepTimeout
  <2> QED
    BY <1>28, <2>1, <2>2 DEF TypeOK, SweepTimeout
<1>29. ASSUME ReportBegin
      PROVE  TypeOK'
  BY <1>29 DEF TypeOK, ReportBegin, TaskStates, Terminal
<1>30. ASSUME NEW to \in ReportedStatuses, ReportTransition(to)
      PROVE  TypeOK'
  <2>1. to \in TaskStates
    BY <1>30, LifecycleAssumption DEF TypeOK, ReportTransition, TaskStates, Terminal
  <2>2. state' \in TaskStates
    BY <1>30, MoveIsTyped, <2>1 DEF TypeOK, ReportTransition
  <2>3. rep' \in [pc : {"idle", "report"}, seen : TaskStates]
    BY <1>30, IdleTyped DEF TypeOK, ReportTransition
  <2> QED
    BY <1>30, <2>1, <2>2, <2>3 DEF TypeOK, ReportTransition
<1>31. ASSUME PollBegin
      PROVE  TypeOK'
  BY <1>31 DEF TypeOK, PollBegin, TaskStates, Terminal
<1>32. ASSUME PollMint
      PROVE  TypeOK'
  <2>1. MintableTools(steps) \subseteq Tools
    BY MintableRows DEF TypeOK
  <2>2. poll' \in [pc : {"idle", "mint"}, seen : TaskStates]
    BY <1>32, IdleTyped DEF TypeOK, PollMint
  <2> QED
    BY <1>32, <2>1, <2>2 DEF TypeOK, PollMint
<1>33. ASSUME AbortOther
      PROVE  TypeOK'
  <2>1. can' \in [pc : {"idle", "withdraw", "cancel"}, seen : TaskStates]
    BY <1>33, IdleTyped DEF TypeOK, AbortOther
  <2>2. sweep' \in [pc : {"idle", "timeout"}, gate : 0..MaxPlans]
    BY <1>33, IdleTyped DEF TypeOK, AbortOther
  <2>3. rep' \in [pc : {"idle", "report"}, seen : TaskStates]
    BY <1>33, IdleTyped DEF TypeOK, AbortOther
  <2>4. poll' \in [pc : {"idle", "mint"}, seen : TaskStates]
    BY <1>33, IdleTyped DEF TypeOK, AbortOther
  <2> QED
    BY <1>33, <2>1, <2>2, <2>3, <2>4 DEF TypeOK, AbortOther
<1>34. CASE UNCHANGED vars
  BY <1>34 DEF TypeOK, vars
<1> QED
  BY <1>1, <1>2, <1>3, <1>4, <1>5, <1>6, <1>7, <1>8, <1>9, <1>10, <1>11, <1>12,
     <1>13, <1>14, <1>15, <1>16, <1>17, <1>18, <1>19, <1>20, <1>21, <1>22, <1>23, <1>24,
     <1>25, <1>26, <1>27, <1>28, <1>29, <1>30, <1>31, <1>32, <1>33, <1>34
  DEF Next, SubmitStep, InvokeStep, VoteStep, CancelStep, ReportStep

(* Every reachable state is well typed: the broker's handlers, each a      *)
(* sequence of single statements that may be cut off anywhere, never write *)
(* an ill-formed task, step, gate or local state.                          *)
THEOREM TypeCorrect == Spec => []TypeOK
<1>1. Init => TypeOK
  BY InitTyped
<1>2. TypeOK /\ [Next]_vars => TypeOK'
  BY NextTyped
<1> QED
  BY <1>1, <1>2, PTL DEF Spec

-----------------------------------------------------------------------------
(* The approval gates.                                                     *)

(* A SubmitPlan call that has stored a gated plan and has not created its  *)
(* approval request yet.                                                   *)
Gating(h) == sub[h].pc = "finish" /\ sub[h].outcome \in {"NEEDS_HUMAN", "NEEDS_STEP_UP"}

(* The states no plan is stored in, now or later, without a decision.      *)
Held == Terminal \cup {"AWAITING_APPROVAL"}

(* Why an approval cannot reach the wrong plan.  Plan numbers above planNo *)
(* are unused.  An undecided plan - its call is still gating, or its gate  *)
(* is PENDING - is the plan stored last, it holds the task in a state that *)
(* no other plan is stored in, and at most one call is gating.             *)
GateInv ==
    /\ \A p \in PlanNos : p > planNo => gates[p] = NoGate /\ p \notin auto
    /\ \A p \in PlanNos : gates[p].state = "PENDING" => p = planNo /\ state \in Held
    /\ \A h \in Submitters : Gating(h) =>
          /\ sub[h].plan = planNo /\ planNo \in PlanNos /\ state \in Held
          /\ gates[planNo] = NoGate
          /\ sub[h].outcome = "NEEDS_STEP_UP" => sub[h].n >= 2
    /\ \A h, k \in Submitters : Gating(h) /\ Gating(k) => h = k

(* A vote on its way is for a stored plan whose gate was created, and a    *)
(* checked yes carries the digest of that plan.                            *)
Carries(h) ==
    /\ vote[h].pc \in {"loaded", "checked"} =>
          vote[h].gate \in 1..planNo /\ gates[vote[h].gate].state # "none"
    /\ vote[h].pc = "checked" /\ vote[h].approved /\ gates[vote[h].gate].state = "PENDING"
          => vote[h].digest = shown[vote[h].gate]

(* What an undecided or approved gate has recorded.                        *)
VoteInv ==
    /\ \A p \in PlanNos : gates[p].state \in {"PENDING", "APPROVED"} =>
          /\ gates[p].yes \subseteq gates[p].approvers
          /\ gates[p].n >= 2 => Owner \notin gates[p].yes
          /\ gates[p].stepUp => gates[p].n >= 2
          /\ gates[p].no = {}
          /\ gates[p].saw \subseteq {shown[p]}
    /\ \A p \in PlanNos : gates[p].state = "APPROVED" => Cardinality(gates[p].yes) >= gates[p].n
    /\ planNo \in PlanNos => shown[planNo] = ArgsDigest(steps)
    /\ \A h \in Voters : Carries(h)

ApprovalInv == TypeOK /\ GateInv /\ VoteInv /\ GateAndTaskAgree

-----------------------------------------------------------------------------
(* Most steps are quiet: they store no plan, create and approve no gate,   *)
(* and let no undecided task go.                                           *)
Executable == {"APPROVED", "EXECUTING"}
Due(p) == gates[p].state = "PENDING" /\ gates'[p] = [gates[p] EXCEPT !.due = TRUE]
Closed(p) == gates[p].state = "PENDING" /\ gates'[p].state \in {"DENIED", "EXPIRED"}

QuietState ==
    /\ state \in Terminal => state' = state
    /\ state \in Held => state' \in Held
    /\ state' \in Executable => state \in Executable
    /\ state' = "AWAITING_APPROVAL" => state = "AWAITING_APPROVAL"

Quiet ==
    /\ QuietState
    /\ UNCHANGED <<planNo, auto, shown>> /\ ArgsDigest(steps') = ArgsDigest(steps)
    /\ \A h \in Submitters : Gating(h)' => sub'[h] = sub[h]
    /\ \A p \in PlanNos : gates'[p] = gates[p] \/ Due(p) \/ Closed(p)
    /\ \A h \in Voters : vote'[h] = vote[h] \/ Carries(h)'

LEMMA QuietKeepsGateInv ==
    ASSUME ApprovalInv, TypeOK', Quiet
    PROVE  GateInv' /\ GateAndTaskAgree'
<1>1. \A p \in PlanNos : gates'[p].state = "PENDING" => gates[p].state = "PENDING"
  BY DEF Quiet, Due, Closed, ApprovalInv, TypeOK, GateRow
<1>2. \A p \in PlanNos : gates'[p].state = "APPROVED" <=> gates[p].state = "APPROVED"
  BY Zenon DEF Quiet, Due, Closed, ApprovalInv, TypeOK, GateRow
<1>3. \A p \in PlanNos : gates[p] = NoGate => gates'[p] = NoGate
  <2>1. NoGate.state # "PENDING"
    BY DEF NoGate
  <2> QED
    BY <2>1, Zenon DEF Quiet, Due, Closed
<1>4. GateInv'
  BY <1>1, <1>3 DEF Quiet, QuietState, ApprovalInv, GateInv, Gating
<1>5. GateAndTaskAgree'
  BY <1>2 DEF Quiet, QuietState, Executable, ApprovalInv, GateAndTaskAgree, Released
<1> QED
  BY <1>4, <1>5

LEMMA QuietKeepsVoteInv ==
    ASSUME ApprovalInv, TypeOK', Quiet
    PROVE  VoteInv'
<1>1. ASSUME NEW p \in PlanNos, gates'[p].state \in {"PENDING", "APPROVED"}
      PROVE  /\ gates[p].state = gates'[p].state /\ gates[p].n = gates'[p].n
             /\ gates[p].stepUp = gates'[p].stepUp /\ gates[p].approvers = gates'[p].approvers
             /\ gates[p].yes = gates'[p].yes /\ gates[p].no = gates'[p].no /\ gates[p].saw = gates'[p].saw
  BY <1>1, Zenon DEF Quiet, Due, Closed, ApprovalInv, TypeOK, GateRow
<1>2. ASSUME NEW h \in Voters, vote'[h] = vote[h]
      PROVE  Carries(h)'
  <2>1. Carries(h) /\ planNo \in 0..MaxPlans /\ MaxPlans \in Nat
    BY LifecycleAssumption DEF ApprovalInv, VoteInv, TypeOK
  <2>2. \A p \in PlanNos : gates[p].state # "none" => gates'[p].state # "none"
    BY Zenon DEF Quiet, Due, Closed, ApprovalInv, TypeOK, GateRow
  <2> QED
    BY <1>1, <1>2, <2>1, <2>2 DEF Carries, Quiet, PlanNos
<1>3. \A h \in Voters : Carries(h)'
  BY <1>2 DEF Quiet
<1>4. planNo' \in PlanNos => shown'[planNo'] = ArgsDigest(steps')
  BY Zenon DEF Quiet, ApprovalInv, VoteInv
<1> QED
  BY <1>1, <1>3, <1>4, Zenon DEF Quiet, ApprovalInv, VoteInv

-----------------------------------------------------------------------------
(* A guarded transition to a state other than the gated and executable     *)
(* ones is quiet: nothing terminal ever moves.                             *)
LEMMA MoveIsQuiet ==
    ASSUME state \in TaskStates, NEW from,
           NEW to \in {"PLANNING", "VALIDATING", "EXECUTING"} \cup Terminal,
           state' = Move(state, from, to)
    PROVE  QuietState
<1>1. CASE state' = state
  BY <1>1 DEF QuietState
<1>2. CASE state' # state
  <2>1. state = from /\ <<from, to>> \in Edges /\ state' = to
    BY <1>2 DEF Move, CanMove
  <2>2. from \notin Terminal
    BY <2>1 DEF Edges, Terminal
  <2>3. from = "AWAITING_APPROVAL" => to \in Terminal
    BY <2>1 DEF Edges, Terminal
  <2>4. to = "EXECUTING" => from = "APPROVED"
    BY <2>1 DEF Edges, Terminal
  <2> QED
    BY <2>1, <2>2, <2>3, <2>4 DEF QuietState, Held, Executable, Terminal
<1> QED
  BY <1>1, <1>2

(* The digest depends on the decision and arguments of the rows only, so   *)
(* consuming a step leaves it alone.                                       *)
LEMMA DigestIgnoresConsumed ==
    ASSUME NEW st, NEW new, DOMAIN new = DOMAIN st,
           \A t \in DOMAIN st : new[t].decision = st[t].decision /\ new[t].args = st[t].args
    PROVE  ArgsDigest(new) = ArgsDigest(st)
<1>1. Mintable(new) = Mintable(st)
  BY DEF Mintable, Present
<1>2. \A t \in Mintable(st) : new[t].args = st[t].args
  BY DEF Mintable
<1> QED
  BY <1>1, <1>2, Zenon DEF ArgsDigest

LEMMA ClaimKeepsDigest ==
    ASSUME TypeOK, NEW h \in Invokers, InvokeClaim(h)
    PROVE  ArgsDigest(steps') = ArgsDigest(steps)
<1>1. CASE UNCHANGED steps
  BY <1>1
<1>2. CASE steps' = [steps EXCEPT ![inv[h].seq].consumed = TRUE]
  <2>1. \A t \in Seqs : steps[t] = NoStep \/ steps[t] \in StepRow
    BY DEF TypeOK
  <2>2. \A t \in Seqs : steps'[t].decision = steps[t].decision /\ steps'[t].args = steps[t].args
    BY <1>2, <2>1 DEF TypeOK, StepRow, NoStep
  <2>3. DOMAIN steps' = Seqs /\ DOMAIN steps = Seqs
    BY <1>2 DEF TypeOK
  <2> QED
    BY <2>2, <2>3, DigestIgnoresConsumed
<1> QED
  BY <1>1, <1>2, Zenon DEF InvokeClaim

(* The quiet steps.                                                        *)
LEMMA QuietSteps ==
    ASSUME ApprovalInv
    PROVE  /\ \A h \in Submitters :
                 /\ SubmitBegin(h) \/ SubmitAdvance(h) \/ SubmitRefuse(h) \/ SubmitLost(h) \/ AbortSubmit(h)
                       => Quiet
                 /\ SubmitFinish(h) /\ ~Gating(h) => Quiet
           /\ \A h \in Invokers :
                 /\ \A s \in Seqs, tool \in Tools, args \in Args : InvokeBegin(h, s, tool, args) => Quiet
                 /\ InvokeStep(h) \/ AbortInvoke(h) => Quiet
           /\ \A h \in Voters : VoteRefuse(h) \/ VoteMint(h) \/ AbortVote(h) => Quiet
           /\ \A p \in PlanNos : GateDue(p) \/ SweepExpire(p) => Quiet
           /\ CancelBegin \/ CancelStep \/ SweepTimeout => Quiet
           /\ ReportBegin \/ ReportStep \/ PollBegin \/ PollMint \/ AbortOther => Quiet
           /\ UNCHANGED vars => Quiet
<1> USE DEF rows, handlers, history
<1>0. TypeOK
  BY DEF ApprovalInv
<1>a. ASSUME UNCHANGED <<state, gates, steps, planNo, auto, shown, sub, vote>> PROVE Quiet
  BY <1>a DEF Quiet, QuietState
<1>b. ASSUME QuietState, UNCHANGED <<gates, steps, planNo, auto, shown, sub, vote>> PROVE Quiet
  BY <1>b DEF Quiet
<1>c. ASSUME NEW h \in Submitters, NEW call, call.pc # "finish", sub' = [sub EXCEPT ![h] = call],
             QuietState, UNCHANGED <<gates, steps, planNo, auto, shown, vote>>
      PROVE  Quiet
  <2>1. \A k \in Submitters : sub'[k] = sub[k] \/ sub'[k].pc # "finish"
    BY <1>0, <1>c DEF TypeOK
  <2> QED
    BY <1>c, <2>1 DEF Quiet, Gating
<1>d. ASSUME NEW h \in Voters, vote' = [vote EXCEPT ![h] = IdleVote],
             UNCHANGED <<state, gates, steps, planNo, auto, shown, sub>>
      PROVE  Quiet
  <2>1. \A k \in Voters : vote'[k] = vote[k] \/ vote'[k].pc = "idle"
    BY <1>0, <1>d DEF TypeOK, IdleVote
  <2> QED
    BY <1>d, <2>1 DEF Quiet, QuietState, Carries
<1>e. IdleSub.pc # "finish"
  BY DEF IdleSub
<1>1. ASSUME NEW h \in Submitters, SubmitBegin(h) PROVE Quiet
  <2>1. [IdleSub EXCEPT !.pc = "advance", !.seen = state].pc # "finish"
    BY DEF IdleSub
  <2> QED
    BY <1>1, <1>c, <2>1, Zenon DEF SubmitBegin, QuietState
<1>2. ASSUME NEW h \in Submitters, SubmitAdvance(h) PROVE Quiet
  <2> DEFINE seen == sub[h].seen
             to == IF seen = "CREATED" THEN "PLANNING" ELSE "VALIDATING"
             call == IF seen = "VALIDATING" \/ (seen = "PLANNING" /\ CanMove(state, seen, to))
                     THEN [sub[h] EXCEPT !.pc = "validate", !.seen = "VALIDATING"]
                     ELSE IF seen = "CREATED" /\ CanMove(state, seen, to)
                     THEN [sub[h] EXCEPT !.seen = "PLANNING"]
                     ELSE IdleSub
  <2>1. sub[h] \in SubmitCall /\ sub[h].pc = "advance"
    BY <1>0, <1>2 DEF TypeOK, SubmitAdvance
  <2>2. /\ [sub[h] EXCEPT !.pc = "validate", !.seen = "VALIDATING"].pc = "validate"
        /\ [sub[h] EXCEPT !.seen = "PLANNING"].pc = "advance"
    BY <2>1 DEF SubmitCall
  <2>3. call.pc # "finish"
    BY <2>2, <1>e, Zenon
  <2>4. QuietState
    <3>1. to \in {"PLANNING", "VALIDATING", "EXECUTING"} \cup Terminal /\ state \in TaskStates
      BY <1>0 DEF TypeOK
    <3>2. state' = state \/ state' = Move(state, seen, to)
      BY <1>2, Zenon DEF SubmitAdvance
    <3>3. CASE state' = state
      BY <3>3 DEF QuietState
    <3>4. CASE state' = Move(state, seen, to)
      <4> HIDE DEF to, seen
      <4> QED
        BY <3>1, <3>4, MoveIsQuiet
    <3> QED
      BY <3>2, <3>3, <3>4
  <2>5. sub' = [sub EXCEPT ![h] = call] /\ UNCHANGED <<gates, steps, planNo, auto, shown, vote>>
    BY <1>2, Zenon DEF SubmitAdvance
  <2> HIDE DEF call
  <2> QED
    BY <1>c, <2>3, <2>4, <2>5, Zenon
<1>3. ASSUME NEW h \in Submitters, SubmitRefuse(h) PROVE Quiet
  <2>1. QuietState
    BY <1>0, <1>3, MoveIsQuiet DEF TypeOK, SubmitRefuse, Terminal
  <2> QED
    BY <1>3, <1>c, <1>e, <2>1, Zenon DEF SubmitRefuse
<1>4. ASSUME NEW h \in Submitters, SubmitLost(h) \/ AbortSubmit(h) PROVE Quiet
  BY <1>4, <1>c, <1>e DEF SubmitLost, AbortSubmit, QuietState
<1>5. ASSUME NEW h \in Submitters, SubmitFinish(h), ~Gating(h) PROVE Quiet
  <2>1. sub[h].outcome \in {"APPROVED", "DENIED"}
    BY <1>0, <1>5 DEF TypeOK, SubmitCall, SubmitFinish, Gating
  <2>2. QuietState
    <3>1. CASE state' = state
      BY <3>1 DEF QuietState
    <3>2. CASE state' = Move(state, "VALIDATING", "DENIED")
      BY <1>0, <3>2, MoveIsQuiet DEF TypeOK, Terminal
    <3> QED
      BY <1>5, <3>1, <3>2 DEF SubmitFinish
  <2> QED
    BY <1>5, <1>c, <1>e, <2>1, <2>2, Zenon DEF SubmitFinish
<1>6. ASSUME NEW h \in Invokers, NEW s \in Seqs, NEW tool \in Tools, NEW args \in Args,
             InvokeBegin(h, s, tool, args)
      PROVE  Quiet
  BY <1>6, <1>a, Zenon DEF InvokeBegin
<1>7. ASSUME NEW h \in Invokers, InvokeReserve(h) PROVE Quiet
  BY <1>7, <1>a, Zenon DEF InvokeReserve
<1>8. ASSUME NEW h \in Invokers, InvokeClaim(h) PROVE Quiet
  BY <1>0, <1>8, ClaimKeepsDigest, Zenon DEF InvokeClaim, Quiet, QuietState
<1>9. ASSUME NEW h \in Invokers, InvokeMark(h) PROVE Quiet
  <2>1. state' = state \/ state' = Move(state, "APPROVED", "EXECUTING")
    BY <1>9 DEF InvokeMark
  <2>2. QuietState
    BY <1>0, <2>1, MoveIsQuiet DEF TypeOK, QuietState
  <2> QED
    BY <1>9, <1>b, <2>2 DEF InvokeMark
<1>10. ASSUME NEW h \in Invokers, NEW cost \in ActualCosts \cup {0}, InvokeDispatch(h, cost) PROVE Quiet
  BY <1>10, <1>a, Zenon DEF InvokeDispatch
<1>11. ASSUME NEW h \in Invokers, InvokeProxyError(h) \/ InvokeRelease(h) PROVE Quiet
  BY <1>11, <1>a, Zenon DEF InvokeProxyError, InvokeRelease
<1>12. ASSUME NEW h \in Invokers, InvokeSettle(h) \/ AbortInvoke(h) PROVE Quiet
  BY <1>12, <1>a, Zenon DEF InvokeSettle, AbortInvoke
<1>13. ASSUME NEW h \in Voters, VoteRefuse(h) \/ VoteMint(h) \/ AbortVote(h) PROVE Quiet
  BY <1>13, <1>d, Zenon DEF VoteRefuse, VoteMint, AbortVote
<1>14. ASSUME NEW p \in PlanNos, GateDue(p) PROVE Quiet
  <2>1. \A q \in PlanNos : gates'[q] = gates[q] \/ Due(q)
    BY <1>0, <1>14, Zenon DEF TypeOK, GateDue, Votable, Due
  <2> QED
    BY <1>14, <2>1, Zenon DEF GateDue, Quiet, QuietState
<1>15. ASSUME NEW p \in PlanNos, SweepExpire(p) PROVE Quiet
  <2>1. gates[p].state = "PENDING" /\ gates' = [gates EXCEPT ![p] = [gates[p] EXCEPT !.state = "EXPIRED"]]
    BY <1>15, Zenon DEF SweepExpire
  <2>2. [gates[p] EXCEPT !.state = "EXPIRED"].state = "EXPIRED"
    BY <1>0 DEF TypeOK, GateRow
  <2>3. \A q \in PlanNos : gates'[q] = gates[q] \/ Closed(q)
    BY <1>0, <2>1, <2>2 DEF TypeOK, Closed
  <2> QED
    BY <1>15, <2>3 DEF SweepExpire, Quiet, QuietState
<1>16. ASSUME CancelBegin PROVE Quiet
  BY <1>16, <1>a DEF CancelBegin
<1>17. ASSUME CancelWithdraw PROVE Quiet
  <2>1. \A g \in GateRow : [g EXCEPT !.state = "DENIED", !.no = @ \cup {Owner}].state = "DENIED"
    BY DEF GateRow
  <2>2. \A q \in PlanNos : gates'[q] = gates[q] \/ Closed(q)
    BY <1>0, <1>17, <2>1, Zenon DEF TypeOK, CancelWithdraw, Closed
  <2> QED
    BY <1>17, <2>2, Zenon DEF CancelWithdraw, Quiet, QuietState
<1>18. ASSUME CancelTransition \/ SweepTimeout PROVE Quiet
  <2>1. QuietState
    BY <1>0, <1>18, MoveIsQuiet DEF TypeOK, CancelTransition, SweepTimeout, Terminal
  <2> QED
    BY <1>18, <1>b, <2>1 DEF CancelTransition, SweepTimeout
<1>19. ASSUME ReportBegin \/ PollBegin \/ PollMint \/ AbortOther PROVE Quiet
  BY <1>19, <1>a, Zenon DEF ReportBegin, PollBegin, PollMint, AbortOther
<1>20. ASSUME NEW to \in ReportedStatuses, ReportTransition(to) PROVE Quiet
  <2>1. to \in {"PLANNING", "VALIDATING", "EXECUTING"} \cup Terminal
    BY LifecycleAssumption DEF Terminal
  <2>2. QuietState
    BY <1>0, <1>20, <2>1, MoveIsQuiet DEF TypeOK, ReportTransition
  <2> QED
    BY <1>20, <1>b, <2>2 DEF ReportTransition
<1>21. ASSUME UNCHANGED vars PROVE Quiet
  BY <1>21, <1>a DEF vars
<1> QED
  BY <1>1, <1>2, <1>3, <1>4, <1>5, <1>6, <1>7, <1>8, <1>9, <1>10, <1>11, <1>12, <1>13, <1>14, <1>15,
     <1>16, <1>17, <1>18, <1>19, <1>20, <1>21
  DEF InvokeStep, CancelStep, ReportStep

(* Beginning and checking a vote is quiet too: the open gate belongs to    *)
(* the plan stored last, so the digest compared with the stored steps is   *)
(* the one that plan was shown with.                                       *)
LEMMA VoteStepsAreQuiet ==
    ASSUME ApprovalInv, NEW h \in Voters
    PROVE  /\ \A u \in Users, approved \in BOOLEAN, digest \in Digest : VoteBegin(h, u, approved, digest) => Quiet
           /\ VoteCheck(h) => Quiet
<1> USE DEF rows, handlers, history
<1>0. /\ TypeOK /\ GateInv /\ Carries(h) /\ planNo \in 0..MaxPlans /\ MaxPlans \in Nat
      /\ planNo \in PlanNos => shown[planNo] = ArgsDigest(steps)
  BY LifecycleAssumption DEF ApprovalInv, VoteInv, TypeOK
<1>1. ASSUME NEW u \in Users, NEW approved \in BOOLEAN, NEW digest \in Digest, VoteBegin(h, u, approved, digest)
      PROVE  Quiet
  <2>1. PICK p \in PlanNos :
          /\ Votable(gates[p])
          /\ vote' = [vote EXCEPT ![h] = [pc |-> "loaded", user |-> u, approved |-> approved,
                                          gate |-> p, digest |-> digest, mint |-> {}]]
    BY <1>1, Zenon DEF VoteBegin
  <2>2. p = planNo /\ gates[p].state = "PENDING"
    BY <1>0, <2>1, Zenon DEF GateInv, Votable
  <2>3. vote'[h].pc = "loaded" /\ vote'[h].gate = p /\ \A k \in Voters \ {h} : vote'[k] = vote[k]
    BY <1>0, <2>1 DEF TypeOK
  <2>4. UNCHANGED <<state, gates, steps, planNo, auto, shown, sub>>
    BY <1>1 DEF VoteBegin
  <2>5. Carries(h)'
    <3>1. p \in 1..planNo
      BY <1>0, <2>2 DEF PlanNos
    <3>2. vote'[h].gate \in 1..planNo' /\ gates'[vote'[h].gate].state # "none" /\ vote'[h].pc # "checked"
      BY <2>2, <2>3, <2>4, <3>1, Zenon
    <3> QED
      BY <3>2, Zenon DEF Carries
  <2> QED
    BY <2>3, <2>4, <2>5, Zenon DEF Quiet, QuietState
<1>2. ASSUME VoteCheck(h)
      PROVE  Quiet
  <2> DEFINE call == [vote[h] EXCEPT !.pc = "checked", !.mint = MintableTools(steps)]
  <2>1. vote' = [vote EXCEPT ![h] = call] /\ UNCHANGED <<state, gates, steps, planNo, auto, shown, sub>>
    BY <1>2 DEF VoteCheck
  <2>2. vote[h] \in VoteCall /\ vote[h].pc = "loaded" /\ (vote[h].approved => vote[h].digest = ArgsDigest(steps))
    BY <1>0, <1>2 DEF TypeOK, VoteCheck
  <2>3. call.pc = "checked" /\ call.gate = vote[h].gate /\ call.approved = vote[h].approved
        /\ call.digest = vote[h].digest
    BY <2>2 DEF VoteCall
  <2> HIDE DEF call
  <2>4. vote'[h] = call /\ \A k \in Voters \ {h} : vote'[k] = vote[k]
    BY <1>0, <2>1 DEF TypeOK
  <2>5. vote[h].gate \in 1..planNo /\ vote[h].gate \in PlanNos /\ gates[vote[h].gate].state # "none"
    BY <1>0, <2>2 DEF Carries, PlanNos
  <2>6. gates[vote[h].gate].state = "PENDING" => vote[h].gate = planNo
    BY <1>0, <2>5 DEF GateInv
  <2>7. Carries(h)'
    BY <1>0, <2>1, <2>2, <2>3, <2>4, <2>5, <2>6 DEF Carries
  <2> QED
    BY <2>1, <2>4, <2>7 DEF Quiet, QuietState
<1> QED
  BY <1>1, <1>2

(* Storing a plan: the task is VALIDATING, so no other plan is undecided,  *)
(* and the plan's own gate is still to be created.                         *)
LEMMA StoreKeepsApprovalInv ==
    ASSUME ApprovalInv, TypeOK', NEW h \in Submitters, NEW plan \in Plans, NEW cfgN \in RequiredN,
           SubmitStore(h, plan, cfgN)
    PROVE  ApprovalInv'
<1> DEFINE n == Threshold(Outcome(plan), cfgN)
           outcome == GatedOutcome(Outcome(plan), n)
           call == [sub[h] EXCEPT !.pc = "finish", !.outcome = outcome, !.n = n, !.plan = planNo + 1,
                                  !.mint = {plan[s].tool : s \in DOMAIN plan}]
<1>0. /\ TypeOK /\ planNo \in 0..MaxPlans /\ MaxPlans \in Nat /\ planNo < MaxPlans
      /\ state = "VALIDATING" /\ state \notin Held
      /\ planNo' = planNo + 1 /\ planNo' \in PlanNos
  BY LifecycleAssumption DEF ApprovalInv, TypeOK, SubmitStore, InsertAllowed, Held, Terminal, PlanNos
<1>1. /\ state' = NextState(outcome)
      /\ auto' = IF outcome = "APPROVED" THEN auto \cup {planNo + 1} ELSE auto
      /\ sub' = [sub EXCEPT ![h] = call]
      /\ shown' = [shown EXCEPT ![planNo + 1] = ArgsDigest(steps')]
      /\ UNCHANGED <<gates, vote>>
  BY Zenon DEF SubmitStore
<1>2. /\ outcome \in {"APPROVED", "DENIED", "NEEDS_HUMAN", "NEEDS_STEP_UP"}
      /\ outcome = "NEEDS_STEP_UP" => n >= 2
  BY OutcomeIsTyped, ThresholdIsTyped
<1>3. call.outcome = outcome /\ call.n = n /\ call.plan = planNo + 1
  <2>1. sub[h] \in SubmitCall
    BY <1>0 DEF TypeOK
  <2> HIDE DEF outcome, n
  <2> QED
    BY <2>1 DEF SubmitCall
<1> HIDE DEF outcome, n, call
<1>4. sub'[h] = call /\ \A k \in Submitters \ {h} : sub'[k] = sub[k]
  BY <1>0, <1>1 DEF TypeOK
<1>5. \A k \in Submitters : ~Gating(k)
  BY <1>0 DEF ApprovalInv, GateInv
<1>6. \A p \in PlanNos : gates[p].state # "PENDING"
  BY <1>0 DEF ApprovalInv, GateInv
<1>7. gates[planNo + 1] = NoGate /\ NoGate.state = "none" /\ planNo + 1 \notin auto
  <2>1. planNo + 1 \in PlanNos /\ planNo + 1 > planNo
    BY <1>0
  <2>2. NoGate.state = "none"
    BY DEF NoGate
  <2> QED
    BY <2>1, <2>2, Zenon DEF ApprovalInv, GateInv
<1>8. \A k \in Submitters : Gating(k)' => k = h
  BY <1>4, <1>5 DEF Gating
<1>9. Gating(h)' => outcome \in {"NEEDS_HUMAN", "NEEDS_STEP_UP"} /\ state' = "AWAITING_APPROVAL"
  BY <1>1, <1>3, <1>4 DEF Gating, NextState
<1>10. GateInv'
  <2>1. \A p \in PlanNos : p > planNo' => gates'[p] = NoGate /\ p \notin auto'
    <3>1. \A p \in PlanNos : p > planNo' => p > planNo /\ p # planNo + 1
      BY <1>0 DEF PlanNos
    <3>2. \A p \in PlanNos : p > planNo' => gates[p] = NoGate /\ p \notin auto
      BY <3>1, Zenon DEF ApprovalInv, GateInv
    <3> QED
      BY <1>1, <3>1, <3>2, Zenon
  <2>2. Gating(h)' => /\ sub'[h].plan = planNo' /\ state' \in Held /\ gates'[planNo'] = NoGate
                      /\ sub'[h].outcome = "NEEDS_STEP_UP" => sub'[h].n >= 2
    <3>1. "AWAITING_APPROVAL" \in Held
      BY DEF Held
    <3>2. sub'[h].plan = planNo' /\ sub'[h].outcome = outcome /\ sub'[h].n = n
      BY <1>0, <1>3, <1>4, Zenon
    <3>3. gates'[planNo'] = NoGate
      BY <1>0, <1>1, <1>7, Zenon
    <3> QED
      BY <1>2, <1>9, <3>1, <3>2, <3>3, Zenon
  <2> QED
    BY <1>0, <1>1, <1>6, <1>8, <2>1, <2>2, Zenon DEF GateInv
<1>11. VoteInv'
  <2>1. \A p \in PlanNos : gates'[p].state \in {"PENDING", "APPROVED"} => p # planNo + 1 /\ shown'[p] = shown[p]
    BY <1>0, <1>1, <1>7 DEF TypeOK
  <2>2. shown'[planNo'] = ArgsDigest(steps')
    BY <1>0, <1>1 DEF TypeOK
  <2>3. ASSUME NEW k \in Voters PROVE Carries(k)'
    <3>1. Carries(k)
      BY DEF ApprovalInv, VoteInv
    <3>2. vote[k].gate \in 1..planNo => vote[k].gate \in PlanNos /\ vote[k].gate \in 1..planNo'
      BY <1>0 DEF PlanNos
    <3> QED
      BY <1>1, <1>6, <3>1, <3>2, Zenon DEF Carries
  <2> QED
    BY <1>1, <2>1, <2>2, <2>3, Zenon DEF ApprovalInv, VoteInv
<1>12. GateAndTaskAgree'
  <2>1. state' \in {"APPROVED", "EXECUTING"} => outcome = "APPROVED"
    BY <1>1, <1>2 DEF NextState
  <2>2. state' = "AWAITING_APPROVAL" => outcome # "APPROVED"
    BY <1>1, <1>2 DEF NextState
  <2> QED
    BY <1>0, <1>1, <1>7, <2>1, <2>2 DEF GateAndTaskAgree, Released
<1> QED
  BY <1>10, <1>11, <1>12 DEF ApprovalInv

(* Creating the gate of the plan stored last.                              *)
LEMMA GatingKeepsApprovalInv ==
    ASSUME ApprovalInv, TypeOK', NEW h \in Submitters, SubmitFinish(h), Gating(h)
    PROVE  ApprovalInv'
<1>0. TypeOK
  BY DEF ApprovalInv
<1>1. /\ sub[h].plan = planNo /\ planNo \in PlanNos /\ state \in Held /\ gates[planNo] = NoGate
      /\ sub[h].outcome = "NEEDS_STEP_UP" => sub[h].n >= 2
      /\ \A k \in Submitters \ {h} : ~Gating(k)
  BY DEF ApprovalInv, GateInv
<1>2. /\ state' = state /\ sub' = [sub EXCEPT ![h] = IdleSub]
      /\ gates' = [gates EXCEPT ![planNo] = NewGate(h)]
      /\ UNCHANGED <<steps, vote, planNo, auto, shown>>
  BY <1>1, Zenon DEF SubmitFinish, Gating, history
<1>3. /\ NewGate(h).state = "PENDING" /\ NewGate(h).yes = {} /\ NewGate(h).no = {} /\ NewGate(h).saw = {}
      /\ NewGate(h).n = sub[h].n /\ NewGate(h).stepUp = (sub[h].outcome = "NEEDS_STEP_UP")
  BY DEF NewGate, NoGate
<1>4. gates'[planNo] = NewGate(h) /\ \A p \in PlanNos \ {planNo} : gates'[p] = gates[p]
  BY <1>0, <1>1, <1>2 DEF TypeOK
<1>5. \A k \in Submitters : ~Gating(k)'
  <2>1. sub'[h].pc = "idle" /\ \A k \in Submitters \ {h} : sub'[k] = sub[k]
    BY <1>0, <1>2, Zenon DEF TypeOK, IdleSub
  <2> QED
    BY <1>1, <2>1, Zenon DEF Gating
<1>6. GateInv'
  <2>1. \A p \in PlanNos : p > planNo => p # planNo
    BY <1>0, LifecycleAssumption DEF TypeOK, PlanNos
  <2> QED
    BY <1>1, <1>2, <1>4, <1>5, <2>1 DEF ApprovalInv, GateInv
<1>7. \A k \in Voters : Carries(k)'
  <2>1. ASSUME NEW k \in Voters PROVE Carries(k)'
    <3>1. Carries(k)
      BY Zenon DEF ApprovalInv, VoteInv
    <3>2. planNo \in 0..MaxPlans /\ MaxPlans \in Nat
      BY <1>0, LifecycleAssumption DEF TypeOK
    <3>3. vote[k].gate \in 1..planNo => vote[k].gate \in PlanNos
      BY <3>2 DEF PlanNos
    <3>4. NoGate.state = "none"
      BY DEF NoGate
    <3>5. gates[planNo].state = "none"
      BY <1>1, <3>4, SMTT(30)
    <3> QED
      BY <1>2, <1>4, <3>1, <3>3, <3>5 DEF Carries
  <2> QED
    BY <2>1
<1>8. VoteInv'
  <2>1. /\ gates'[planNo].yes \subseteq gates'[planNo].approvers
        /\ Owner \notin gates'[planNo].yes
        /\ gates'[planNo].stepUp => gates'[planNo].n >= 2
        /\ gates'[planNo].no = {}
        /\ gates'[planNo].saw \subseteq {shown[planNo]}
        /\ gates'[planNo].state # "APPROVED"
    BY <1>1, <1>3, <1>4, Zenon
  <2> QED
    BY <1>2, <1>4, <1>7, <2>1, Zenon DEF ApprovalInv, VoteInv
<1>9. GateAndTaskAgree'
  BY <1>1, <1>2, <1>3, <1>4, Zenon DEF ApprovalInv, GateAndTaskAgree, Released, Held, Terminal
<1> QED
  BY <1>6, <1>8, <1>9 DEF ApprovalInv

(* A vote that is recorded is recorded on the gate of the plan stored      *)
(* last; when it resolves that gate, the task moves in the same step.      *)
RecordedAs(g, v, u, approved, d) ==
    /\ v.n = g.n /\ v.stepUp = g.stepUp /\ v.approvers = g.approvers
    /\ v.state \in {"PENDING", "APPROVED", "DENIED"}
    /\ v.yes = IF approved THEN g.yes \cup {u} ELSE g.yes
    /\ v.saw = IF approved THEN g.saw \cup {d} ELSE g.saw
    /\ v.state \in {"PENDING", "APPROVED"} => v.no = {}
    /\ v.state = "APPROVED" => Cardinality(v.yes) >= g.n

LEMMA RecordedVote ==
    ASSUME NEW g \in GateRow, NEW u, NEW approved \in BOOLEAN, NEW d
    PROVE  RecordedAs(g, Vote(g, u, approved, d), u, approved, d)
  BY DEF Vote, GateRow, RecordedAs

LEMMA ResolveKeepsApprovalInv ==
    ASSUME ApprovalInv, TypeOK', NEW h \in Voters, VoteResolve(h)
    PROVE  /\ ApprovalInv'
           /\ state \in Terminal => state' = state
           /\ \A p \in PlanNos : gates[p].state # "PENDING" => gates'[p] = gates[p]
<1> DEFINE g == gates[vote[h].gate]
           voted == Vote(g, vote[h].user, vote[h].approved, vote[h].digest)
           to == IF voted.state = "DENIED" THEN "DENIED" ELSE "APPROVED"
           accepted == /\ Votable(g) /\ MayVote(g, Owner, vote[h].user)
                       /\ voted.state # "PENDING" => CanMove(state, "AWAITING_APPROVAL", to)
           call == IF accepted /\ voted.state = "APPROVED" THEN [vote[h] EXCEPT !.pc = "mint"] ELSE IdleVote
<1>0. TypeOK /\ planNo \in 0..MaxPlans /\ MaxPlans \in Nat
  BY LifecycleAssumption DEF ApprovalInv, TypeOK
<1>1. /\ gates' = IF accepted THEN [gates EXCEPT ![vote[h].gate] = voted] ELSE gates
      /\ state' = IF accepted /\ voted.state # "PENDING" THEN to ELSE state
      /\ vote' = [vote EXCEPT ![h] = call]
      /\ UNCHANGED <<steps, sub, planNo, auto, shown>>
  BY Zenon DEF VoteResolve, history
<1>2. /\ vote[h] \in VoteCall /\ vote[h].pc = "checked" /\ vote[h].gate \in PlanNos /\ g \in GateRow
      /\ Carries(h)
  <2>1. vote[h] \in VoteCall /\ vote[h].pc = "checked" /\ Carries(h)
    BY <1>0, Zenon DEF VoteResolve, ApprovalInv, VoteInv, TypeOK
  <2>2. vote[h].gate \in PlanNos
    BY <1>0, <2>1 DEF Carries, PlanNos
  <2> QED
    BY <1>0, <2>1, <2>2, Zenon DEF TypeOK
<1>3. call.pc \in {"mint", "idle"}
  BY <1>2 DEF VoteCall, IdleVote
<1> HIDE DEF call
<1>4. vote'[h] = call /\ \A k \in Voters \ {h} : vote'[k] = vote[k]
  BY <1>0, <1>1, Zenon DEF TypeOK
<1>5. Carries(h)'
  BY <1>3, <1>4 DEF Carries
<1>6. CASE ~accepted
  <2>1. UNCHANGED <<state, gates>>
    BY <1>1, <1>6, Zenon
  <2>2. Quiet
    BY <1>1, <1>4, <1>5, <2>1, Zenon DEF Quiet, QuietState
  <2> QED
    BY <2>1, <2>2, QuietKeepsGateInv, QuietKeepsVoteInv DEF ApprovalInv
<1>7. CASE accepted
  <2>1. g.state = "PENDING" /\ vote[h].gate = planNo /\ planNo \in PlanNos /\ state \in Held
    BY <1>2, <1>7, Zenon DEF Votable, ApprovalInv, GateInv
  <2>2. /\ voted.n = g.n /\ voted.stepUp = g.stepUp /\ voted.approvers = g.approvers
        /\ voted.state \in {"PENDING", "APPROVED", "DENIED"}
        /\ voted.yes = IF vote[h].approved THEN g.yes \cup {vote[h].user} ELSE g.yes
        /\ voted.saw = IF vote[h].approved THEN g.saw \cup {vote[h].digest} ELSE g.saw
        /\ voted.state \in {"PENDING", "APPROVED"} => voted.no = {}
        /\ voted.state = "APPROVED" => Cardinality(voted.yes) >= g.n
    <3>1. vote[h].approved \in BOOLEAN
      BY <1>2 DEF VoteCall
    <3>2. RecordedAs(g, voted, vote[h].user, vote[h].approved, vote[h].digest)
      BY <1>2, <3>1, RecordedVote, Zenon
    <3> HIDE DEF g, voted
    <3> QED
      BY <3>2, Zenon DEF RecordedAs
  <2>3. vote[h].user \in g.approvers /\ ~(g.n >= 2 /\ vote[h].user = Owner)
        /\ (voted.state # "PENDING" => state = "AWAITING_APPROVAL")
    BY <1>7, Zenon DEF MayVote, CanMove
  <2>4. vote[h].approved => vote[h].digest = shown[planNo]
    BY <1>2, <2>1, Zenon DEF Carries
  <2>5. /\ g.yes \subseteq g.approvers /\ (g.n >= 2 => Owner \notin g.yes) /\ (g.stepUp => g.n >= 2)
        /\ g.saw \subseteq {shown[planNo]}
    BY <1>2, <2>1, Zenon DEF ApprovalInv, VoteInv
  <2>6. state' = IF voted.state # "PENDING" THEN to ELSE state
    BY <1>1, <1>7, Zenon
  <2>7. gates' = [gates EXCEPT ![planNo] = voted]
    BY <1>1, <1>7, <2>1, Zenon
  <2> HIDE DEF voted, accepted, g
  <2>8. gates'[planNo] = voted /\ gates[planNo] = g /\ \A p \in PlanNos \ {planNo} : gates'[p] = gates[p]
    BY <1>0, <2>1, <2>7 DEF TypeOK, g
  <2>9. \A k \in Submitters : ~Gating(k) /\ ~Gating(k)'
    <3>1. gates[planNo] # NoGate
      <4>1. NoGate.state = "none"
        BY DEF NoGate
      <4> QED
        BY <2>1, <2>8, <4>1
    <3>2. \A k \in Submitters : ~Gating(k)
      BY <3>1, Zenon DEF ApprovalInv, GateInv
    <3> QED
      BY <1>1, <3>2, Zenon DEF Gating
  <2>10. state' \in Held \/ voted.state = "APPROVED"
    BY <2>1, <2>2, <2>6 DEF Held, Terminal
  <2>11. GateInv'
    <3>1. \A p \in PlanNos : p > planNo => p # planNo
      BY <1>0 DEF PlanNos
    <3>2. \A p \in PlanNos : gates'[p].state = "PENDING" => p = planNo /\ state' \in Held
      BY <2>8, <2>10, Zenon DEF ApprovalInv, GateInv
    <3> QED
      BY <1>1, <2>8, <2>9, <3>1, <3>2, Zenon DEF ApprovalInv, GateInv
  <2>12. VoteInv'
    <3>1. voted.yes \subseteq voted.approvers /\ (voted.n >= 2 => Owner \notin voted.yes)
          /\ (voted.stepUp => voted.n >= 2) /\ voted.saw \subseteq {shown[planNo]}
      BY <2>2, <2>3, <2>4, <2>5, Zenon
    <3>2. ASSUME NEW k \in Voters \ {h} PROVE Carries(k)'
      <4>1. Carries(k)
        BY Zenon DEF ApprovalInv, VoteInv
      <4>2. vote[k].gate \in 1..planNo => vote[k].gate \in PlanNos
        BY <1>0 DEF PlanNos
      <4> QED
        <5>1. vote'[k] = vote[k] /\ planNo' = planNo /\ shown' = shown
          BY <1>1, <1>4
        <5>2. ASSUME vote[k].pc \in {"loaded", "checked"}
              PROVE  /\ gates'[vote[k].gate].state # "none"
                     /\ gates'[vote[k].gate].state = "PENDING" => gates[vote[k].gate].state = "PENDING"
          <6>1. vote[k].gate \in PlanNos /\ gates[vote[k].gate].state # "none"
            BY <4>1, <4>2, <5>2 DEF Carries
          <6>2. CASE vote[k].gate = planNo
            BY <2>1, <2>2, <2>8, <6>2
          <6>3. CASE vote[k].gate # planNo
            BY <2>8, <6>1, <6>3, Zenon
          <6> QED
            BY <6>2, <6>3
        <5> QED
          BY <4>1, <5>1, <5>2, Zenon DEF Carries
    <3>3. \A k \in Voters : Carries(k)'
      BY <1>5, <3>2
    <3>4. \A p \in PlanNos : gates'[p].state \in {"PENDING", "APPROVED"} =>
            /\ gates'[p].yes \subseteq gates'[p].approvers
            /\ gates'[p].n >= 2 => Owner \notin gates'[p].yes
            /\ gates'[p].stepUp => gates'[p].n >= 2
            /\ gates'[p].no = {}
            /\ gates'[p].saw \subseteq {shown[p]}
      <4>1. \A p \in PlanNos \ {planNo} : gates'[p].state \in {"PENDING", "APPROVED"} =>
              /\ gates'[p].yes \subseteq gates'[p].approvers
              /\ gates'[p].n >= 2 => Owner \notin gates'[p].yes
              /\ gates'[p].stepUp => gates'[p].n >= 2
              /\ gates'[p].no = {}
              /\ gates'[p].saw \subseteq {shown[p]}
        BY <2>8, Zenon DEF ApprovalInv, VoteInv
      <4> QED
        BY <2>2, <2>8, <3>1, <4>1, Zenon
    <3>5. \A p \in PlanNos : gates'[p].state = "APPROVED" => Cardinality(gates'[p].yes) >= gates'[p].n
      BY <2>2, <2>8, Zenon DEF ApprovalInv, VoteInv
    <3>6. planNo \in PlanNos => shown[planNo] = ArgsDigest(steps)
      BY Zenon DEF ApprovalInv, VoteInv
    <3> QED
      BY <1>1, <3>3, <3>4, <3>5, <3>6, Zenon DEF VoteInv
  <2>13. GateAndTaskAgree'
    <3>1. state' \in {"APPROVED", "EXECUTING"} => voted.state = "APPROVED"
      BY <2>1, <2>2, <2>6, Zenon DEF Held, Terminal
    <3>2. state' = "AWAITING_APPROVAL" => voted.state = "PENDING" /\ state = "AWAITING_APPROVAL"
      BY <2>1, <2>2, <2>6
    <3> QED
      BY <1>1, <2>1, <2>8, <3>1, <3>2 DEF ApprovalInv, GateAndTaskAgree, Released
  <2>14. state \in Terminal => state' = state
    BY <2>3, <2>6 DEF Terminal
  <2> QED
    BY <2>1, <2>8, <2>11, <2>12, <2>13, <2>14, Zenon DEF ApprovalInv
<1> QED
  BY <1>6, <1>7, Zenon

-----------------------------------------------------------------------------
(* The step of the induction: every step of a handler is quiet, stores a   *)
(* plan, creates its gate or records a vote.                               *)
StepKeeps ==
    /\ ApprovalInv'
    /\ state \in Terminal => state' = state
    /\ \A p \in PlanNos : gates[p].state \in {"APPROVED", "DENIED", "EXPIRED"} => gates'[p] = gates[p]

LEMMA NextKeepsApprovalInv == ApprovalInv /\ [Next]_vars => StepKeeps
<1> SUFFICES ASSUME ApprovalInv, [Next]_vars PROVE StepKeeps
  OBVIOUS
<1>0. TypeOK /\ TypeOK'
  BY NextTyped DEF ApprovalInv
<1>1. ASSUME Quiet PROVE StepKeeps
  <2>1. ApprovalInv'
    BY <1>0, <1>1, QuietKeepsGateInv, QuietKeepsVoteInv DEF ApprovalInv
  <2>2. \A p \in PlanNos : gates[p].state \in {"APPROVED", "DENIED", "EXPIRED"} => gates'[p] = gates[p]
    BY <1>1, Zenon DEF Quiet, Due, Closed
  <2> QED
    BY <1>1, <2>1, <2>2, Zenon DEF StepKeeps, Quiet, QuietState
<1>2. ASSUME NEW h \in Submitters, SubmitBegin(h) \/ SubmitStep(h) \/ AbortSubmit(h) PROVE StepKeeps
  <2>1. CASE SubmitBegin(h) \/ SubmitAdvance(h) \/ SubmitRefuse(h) \/ SubmitLost(h) \/ AbortSubmit(h)
    BY <1>1, <2>1, QuietSteps
  <2>2. ASSUME NEW plan \in Plans, NEW cfgN \in RequiredN, SubmitStore(h, plan, cfgN) PROVE StepKeeps
    <3>1. ApprovalInv'
      BY <1>0, <2>2, StoreKeepsApprovalInv
    <3>2. gates' = gates /\ state \notin Terminal
      BY <2>2 DEF SubmitStore, InsertAllowed, Terminal
    <3> QED
      BY <3>1, <3>2, Zenon DEF StepKeeps
  <2>3. CASE SubmitFinish(h) /\ ~Gating(h)
    BY <1>1, <2>3, QuietSteps
  <2>4. CASE SubmitFinish(h) /\ Gating(h)
    <3>1. ApprovalInv'
      BY <1>0, <2>4, GatingKeepsApprovalInv
    <3>2. state' = state /\ gates' = [gates EXCEPT ![sub[h].plan] = NewGate(h)]
      BY <2>4, Zenon DEF SubmitFinish, Gating
    <3>3. sub[h].plan \in PlanNos /\ gates[sub[h].plan] = NoGate /\ NoGate.state = "none"
      BY <2>4, Zenon DEF ApprovalInv, GateInv, NoGate
    <3>4. \A p \in PlanNos : gates[p].state \in {"APPROVED", "DENIED", "EXPIRED"} => gates'[p] = gates[p]
      BY <1>0, <3>2, <3>3, Zenon DEF TypeOK
    <3> QED
      BY <3>1, <3>2, <3>4 DEF StepKeeps
  <2> QED
    BY <1>2, <2>1, <2>2, <2>3, <2>4 DEF SubmitStep
<1>3. ASSUME NEW h \in Invokers, NEW s \in Seqs, NEW tool \in Tools, NEW args \in Args,
             InvokeBegin(h, s, tool, args)
      PROVE  StepKeeps
  BY <1>1, <1>3, QuietSteps
<1>4. ASSUME NEW h \in Invokers, InvokeStep(h) \/ AbortInvoke(h) PROVE StepKeeps
  BY <1>1, <1>4, QuietSteps
<1>5. ASSUME NEW h \in Voters, NEW u \in Users, NEW approved \in BOOLEAN, NEW p \in 1..planNo,
             VoteBegin(h, u, approved, shown[p])
      PROVE  StepKeeps
  <2>1. shown[p] \in Digest
    BY <1>0, LifecycleAssumption DEF TypeOK, PlanNos
  <2> QED
    BY <1>1, <1>5, <2>1, VoteStepsAreQuiet
<1>6. ASSUME NEW h \in Voters, VoteStep(h) \/ AbortVote(h) PROVE StepKeeps
  <2>1. CASE VoteCheck(h)
    BY <1>1, <2>1, VoteStepsAreQuiet
  <2>2. CASE VoteResolve(h)
    BY <1>0, <2>2, ResolveKeepsApprovalInv DEF StepKeeps
  <2>3. CASE VoteRefuse(h) \/ VoteMint(h) \/ AbortVote(h)
    BY <1>1, <2>3, QuietSteps
  <2> QED
    BY <1>6, <2>1, <2>2, <2>3 DEF VoteStep
<1>7. ASSUME NEW p \in PlanNos, GateDue(p) \/ SweepExpire(p) PROVE StepKeeps
  BY <1>1, <1>7, QuietSteps
<1>8. CASE CancelBegin \/ CancelStep \/ SweepTimeout
  BY <1>1, <1>8, QuietSteps
<1>9. CASE ReportBegin \/ ReportStep \/ PollBegin \/ PollMint \/ AbortOther
  BY <1>1, <1>9, QuietSteps
<1>10. CASE UNCHANGED vars
  BY <1>1, <1>10, QuietSteps
<1> QED
  BY <1>2, <1>3, <1>4, <1>5, <1>6, <1>7, <1>8, <1>9, <1>10 DEF Next

LEMMA InitApprovalInv == Init => ApprovalInv
<1> SUFFICES ASSUME Init PROVE ApprovalInv
  OBVIOUS
<1>1. TypeOK
  BY InitTyped
<1>2. /\ state = "CREATED" /\ planNo = 0 /\ auto = {}
      /\ \A p \in PlanNos : gates[p] = NoGate
      /\ \A h \in Submitters : sub[h].pc = "idle"
      /\ \A h \in Voters : vote[h].pc = "idle"
  BY DEF Init, IdleSub, IdleVote
<1>3. NoGate.state = "none"
  BY DEF NoGate
<1>4. planNo \notin PlanNos
  BY <1>2, LifecycleAssumption DEF PlanNos
<1> QED
  BY <1>1, <1>2, <1>3, <1>4, Zenon DEF ApprovalInv, GateInv, VoteInv, GateAndTaskAgree, Gating, Carries

(* The inductive invariant.                                                *)
THEOREM ApprovalInvariant == Spec => []ApprovalInv
<1>1. Init => ApprovalInv
  BY InitApprovalInv
<1>2. ApprovalInv /\ [Next]_vars => ApprovalInv'
  BY NextKeepsApprovalInv DEF StepKeeps
<1> QED
  BY <1>1, <1>2, PTL DEF Spec

(* The task is executable only while the plan stored last is released, and *)
(* awaits approval only while that plan is not: however SubmitPlans,       *)
(* votes, cancels, sweeps, reports and crashes interleave, an approval     *)
(* releases the plan it was given for and no other.                        *)
THEOREM GatesAgree == Spec => []GateAndTaskAgree
<1>1. ApprovalInv => GateAndTaskAgree
  BY DEF ApprovalInv
<1> QED
  BY <1>1, ApprovalInvariant, PTL

(* Every approved gate has its n distinct yes votes, from its approver set *)
(* and not from the requester when two are needed, no denial, and each of  *)
(* them carried the digest of the arguments of the plan the gate guards.   *)
THEOREM ApprovalsAreGenuine == Spec => []ApprovalIsGenuine
<1>1. ApprovalInv => ApprovalIsGenuine
  BY DEF ApprovalInv, VoteInv, ApprovalIsGenuine
<1> QED
  BY <1>1, ApprovalInvariant, PTL

(* No step of any handler rewrites a resolved gate or moves a task out of  *)
(* a terminal state.                                                       *)
THEOREM FinalDecisions == Spec => DecisionsAreFinal
<1>1. ApprovalInv /\ [Next]_vars =>
        [/\ state \in Terminal => state' = state
         /\ \A p \in PlanNos : gates[p].state \in {"APPROVED", "DENIED", "EXPIRED"} => gates'[p] = gates[p]]_vars
  BY NextKeepsApprovalInv DEF StepKeeps
<1> QED
  BY <1>1, ApprovalInvariant, PTL DEF Spec, DecisionsAreFinal
=============================================================================
