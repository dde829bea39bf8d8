-------------------------- MODULE Scheduler_proofs --------------------------
(***************************************************************************)
(* FiresDoNotOverlap, OnceFiresOnce and OnceIsNotLost for every value of   *)
(* the constants: any number of tickers and of concurrent owner calls, any *)
(* lifetimes of claims, runs and delegations.                              *)
(***************************************************************************)
EXTENDS Scheduler, TLAPS

(* A resume writes the fire time back that it read, unless the schedule    *)
(* recurs; the three properties need that no one-off is resumed.           *)
NoOnceResumed(w) == w.kinds = {"CRON"} \/ "resume" \notin w.ops

Busy(f) == fire[f].pc # "idle"
Out(f) == fire[f].pc \in {"running", "reporting"}

(* Why fires do not overlap.  A row that is due is held by no claim call,  *)
(* since the call that claimed it moved its next fire to a later slot and  *)
(* is over before that slot comes; the claim on the row is exactly as old  *)
(* as the fire that is out, so it is younger than the TTL as long as the   *)
(* fire runs.                                                              *)
OverlapInv ==
    /\ schedWorld.kinds = {"CRON"} => \A e \in Editors : edit[e].kind = "CRON"
    /\ "resume" \notin schedWorld.ops => \A e \in Editors : edit[e].pc # "resume"
    /\ row.state = "ACTIVE" /\ row.next = 0 => \A f \in Fires : fire[f].pc # "checking"
    /\ \A f, g \in Fires : Busy(f) /\ Busy(g) => f = g
    /\ \A f \in Fires : fire[f].pc = "checking" => fire[f].age = 0
    /\ \A f \in Fires : Out(f) => row.claimed = fire[f].age

(* A one-off that was claimed is not due again.                            *)
OnceInv ==
    row.kind = "ONCE" => claims <= 1 /\ (claims = 1 /\ row.state = "ACTIVE" => row.next = None)

(* A call that took the schedule for a recurring one, while the owner made *)
(* it a one-off, leaves it its fire.                                       *)
LostInv ==
    /\ OnceIsNotLost
    /\ \A f \in Fires :
          (/\ fire[f].pc \in {"checking", "reporting"} /\ fire[f].kind = "CRON"
           /\ row.kind = "ONCE" /\ row.state = "ACTIVE") => row.next = 1

-----------------------------------------------------------------------------
RowType == [present : BOOLEAN, kind : schedWorld.kinds, state : {"ACTIVE", "PAUSED", "COMPLETED", "FAILED"},
            next : {None, 0, 1}, claimed : {None} \cup 0..(ClaimTTL + 1),
            left : 0..DelegationTTL, revoked : BOOLEAN]
FireType == [pc : {"idle", "checking", "running", "reporting"}, kind : {"CRON", "ONCE"}, age : 0..RunTimeout]
EditType == [pc : {"idle", "pause", "resume"}, kind : {"CRON", "ONCE"}, next : {None, 0, 1}]

LEMMA Numbers ==
    /\ ClaimTTL \in Nat \ {0} /\ DelegationTTL \in Nat \ {0} /\ RunTimeout \in Nat /\ RunTimeout <= ClaimTTL
    /\ None = -1 /\ IdleFire.pc = "idle" /\ IdleEdit.pc = "idle"
    /\ IdleFire \in FireType /\ IdleEdit \in EditType
    /\ IdleEdit.kind = "CRON" /\ IdleEdit.next = None
  BY SchedulerAssumption DEF None, IdleFire, IdleEdit, FireType, EditType

LEMMA Types ==
    ASSUME SchedTypeOK
    PROVE  /\ schedWorld \in SchedWorlds /\ schedWorld.kinds \subseteq {"CRON", "ONCE"}
           /\ schedWorld.editors \subseteq Editors
           /\ row \in RowType /\ fire \in [Fires -> FireType] /\ edit \in [Editors -> EditType]
           /\ claims \in 0..2
  BY SchedulerAssumption DEF SchedTypeOK, RowType, FireType, EditType

(* What a step makes of the row, as far as the invariants ask.             *)
Row(kind, state, next, claimed) ==
    /\ row'.kind = kind /\ row'.state = state /\ row'.next = next /\ row'.claimed = claimed
    /\ row'.present => row.present
Same == Row(row.kind, row.state, row.next, row.claimed)
Fire(f, call) == fire'[f] = call /\ \A g \in Fires \ {f} : fire'[g] = fire[g]
Edit(e, call) == edit'[e] = call /\ \A d \in Editors \ {e} : edit'[d] = edit[d]

LEMMA OneFire ==
    ASSUME SchedTypeOK, NEW f \in Fires, NEW call, fire' = [fire EXCEPT ![f] = call]
    PROVE  Fire(f, call) /\ (call \in FireType => fire' \in [Fires -> FireType])
  BY DEF SchedTypeOK, Fire, FireType

LEMMA OneEdit ==
    ASSUME SchedTypeOK, NEW e \in Editors, NEW call, edit' = [edit EXCEPT ![e] = call]
    PROVE  Edit(e, call) /\ (call \in EditType => edit' \in [Editors -> EditType])
  BY DEF SchedTypeOK, Edit, EditType

(* The steps, one by one.                                                  *)
LEMMA ClaimDueStep ==
    ASSUME SchedTypeOK, NEW f \in Fires, ClaimDue(f)
    PROVE  /\ row.state = "ACTIVE" /\ row.next = 0 /\ (row.claimed = None \/ row.claimed > ClaimTTL)
           /\ fire[f].pc = "idle" /\ Fire(f, [pc |-> "checking", kind |-> row.kind, age |-> 0])
           /\ Row(row.kind, row.state, IF row.kind = "CRON" THEN 1 ELSE None, row.claimed)
           /\ claims' = (IF claims < 2 THEN claims + 1 ELSE claims) /\ UNCHANGED <<schedWorld, edit>>
           /\ SchedTypeOK'
<1>1. /\ row.state = "ACTIVE" /\ row.next = 0 /\ (row.claimed = None \/ row.claimed > ClaimTTL)
      /\ fire[f].pc = "idle" /\ row' = [row EXCEPT !.next = IF row.kind = "CRON" THEN 1 ELSE None]
      /\ fire' = [fire EXCEPT ![f] = [pc |-> "checking", kind |-> row.kind, age |-> 0]]
      /\ claims' = (IF claims < 2 THEN claims + 1 ELSE claims) /\ UNCHANGED <<schedWorld, edit>>
  BY DEF ClaimDue, Due, ClaimOpen
<1>2. row' \in RowType /\ Row(row.kind, row.state, IF row.kind = "CRON" THEN 1 ELSE None, row.claimed)
  BY <1>1, Types DEF Row, RowType
<1>3. [pc |-> "checking", kind |-> row.kind, age |-> 0] \in FireType
  BY Types, Numbers DEF RowType, FireType
<1>4. Fire(f, [pc |-> "checking", kind |-> row.kind, age |-> 0]) /\ fire' \in [Fires -> FireType]
  BY <1>1, <1>3, OneFire, Zenon
<1>5. SchedTypeOK'
  BY <1>1, <1>2, <1>4, Types DEF SchedTypeOK, RowType, FireType
<1> QED
  BY <1>1, <1>2, <1>4, <1>5

(* A step that ends the call of f, or only moves the row.                  *)
LEMMA FireEnds ==
    ASSUME SchedTypeOK, NEW f \in Fires, fire' = [fire EXCEPT ![f] = IdleFire], row' \in RowType,
           claims' \in 0..2, UNCHANGED <<schedWorld, edit>>
    PROVE  Fire(f, IdleFire) /\ SchedTypeOK'
<1>1. Fire(f, IdleFire) /\ fire' \in [Fires -> FireType]
  BY OneFire, Numbers, Zenon
<1> QED
  BY <1>1, Types DEF SchedTypeOK, RowType, FireType

LEMMA RowMoves ==
    ASSUME SchedTypeOK, row' \in RowType, claims' \in 0..2, UNCHANGED <<schedWorld, fire, edit>>
    PROVE  SchedTypeOK'
  BY Types DEF SchedTypeOK, RowType, FireType

LEMMA ParksStep ==
    ASSUME SchedTypeOK, ClaimParks
    PROVE  /\ Row(row.kind, "PAUSED", None, row.claimed) /\ UNCHANGED <<schedWorld, fire, edit, claims>> /\ SchedTypeOK'
<1>1. row' = [row EXCEPT !.state = "PAUSED", !.next = None] /\ UNCHANGED <<schedWorld, fire, edit, claims>>
  BY DEF ClaimParks
<1>2. row' \in RowType /\ Row(row.kind, "PAUSED", None, row.claimed)
  BY <1>1, Types, Zenon DEF Row, RowType
<1> QED
  BY <1>1, <1>2, Types, RowMoves

LEMMA AbandonsStep ==
    ASSUME SchedTypeOK, ClaimAbandons
    PROVE  /\ Row(row.kind, "FAILED", row.next, None) /\ row.claimed > ClaimTTL
           /\ UNCHANGED <<schedWorld, fire, edit, claims>> /\ SchedTypeOK'
<1>1. /\ row' = [row EXCEPT !.state = "FAILED", !.claimed = None] /\ row.claimed > ClaimTTL
      /\ UNCHANGED <<schedWorld, fire, edit, claims>>
  BY DEF ClaimAbandons
<1>2. row' \in RowType /\ Row(row.kind, "FAILED", row.next, None)
  BY <1>1, Types, Zenon DEF Row, RowType
<1> QED
  BY <1>1, <1>2, Types, RowMoves

LEMMA HandOutStep ==
    ASSUME SchedTypeOK, NEW f \in Fires, HandOut(f)
    PROVE  /\ fire[f].pc = "checking" /\ Row(row.kind, row.state, row.next, 0)
           /\ fire'[f].pc = "running" /\ fire'[f].age = fire[f].age
           /\ \A g \in Fires \ {f} : fire'[g] = fire[g]
           /\ UNCHANGED <<schedWorld, edit, claims>> /\ SchedTypeOK'
<1> DEFINE call == [fire[f] EXCEPT !.pc = "running"]
<1>1. /\ fire[f].pc = "checking" /\ row' = [row EXCEPT !.claimed = 0] /\ fire' = [fire EXCEPT ![f] = call]
      /\ UNCHANGED <<schedWorld, edit, claims>>
  BY DEF HandOut
<1>2. row' \in RowType /\ Row(row.kind, row.state, row.next, 0)
  BY <1>1, Types, Numbers DEF Row, RowType
<1>3. fire[f] \in FireType
  BY Types
<1>4. call \in FireType /\ call.pc = "running" /\ call.age = fire[f].age
  BY <1>3 DEF FireType
<1> HIDE DEF call
<1>5. Fire(f, call) /\ fire' \in [Fires -> FireType]
  BY <1>1, <1>4, OneFire, Zenon
<1>6. SchedTypeOK'
  BY <1>1, <1>2, <1>5, Types DEF SchedTypeOK, RowType, FireType
<1> QED
  BY <1>1, <1>2, <1>4, <1>5, <1>6 DEF Fire

LEMMA RetryStep ==
    ASSUME SchedTypeOK, NEW f \in Fires, Retry(f)
    PROVE  /\ fire[f].pc = "checking" /\ Fire(f, IdleFire)
           /\ \/ /\ row.state = "ACTIVE" /\ row.next = None /\ Row(row.kind, row.state, 1, row.claimed)
                 /\ claims' = IF claims > 0 THEN claims - 1 ELSE 0
              \/ /\ ~(fire[f].kind = "ONCE" /\ row.present /\ row.state = "ACTIVE" /\ row.next = None)
                 /\ Same /\ UNCHANGED <<row, claims>>
           /\ UNCHANGED <<schedWorld, edit>> /\ SchedTypeOK'
<1>1. /\ fire[f].pc = "checking" /\ fire' = [fire EXCEPT ![f] = IdleFire]
      /\ \/ /\ row.state = "ACTIVE" /\ row.next = None /\ row' = [row EXCEPT !.next = 1]
            /\ claims' = IF claims > 0 THEN claims - 1 ELSE 0
         \/ /\ ~(fire[f].kind = "ONCE" /\ row.present /\ row.state = "ACTIVE" /\ row.next = None)
            /\ UNCHANGED <<row, claims>>
      /\ UNCHANGED <<schedWorld, edit>>
  BY Zenon DEF Retry
<1>2. CASE row' = [row EXCEPT !.next = 1] /\ claims' = IF claims > 0 THEN claims - 1 ELSE 0
  <2>1. row' \in RowType /\ Row(row.kind, row.state, 1, row.claimed)
    BY <1>2, Types DEF Row, RowType
  <2>2. claims' \in 0..2
    BY <1>2, Types
  <2>3. Fire(f, IdleFire) /\ SchedTypeOK'
    BY <1>1, <2>1, <2>2, FireEnds, Zenon
  <2>4. UNCHANGED <<row, claims>> => Same
    BY DEF Same, Row
  <2> QED
    BY <1>1, <1>2, <2>1, <2>3, <2>4, Zenon
<1>3. CASE UNCHANGED <<row, claims>>
  <2>1. Same /\ row' \in RowType /\ claims' \in 0..2
    BY <1>3, Types DEF Same, Row
  <2>2. Fire(f, IdleFire) /\ SchedTypeOK'
    BY <1>1, <2>1, FireEnds, Zenon
  <2>3. row' = [row EXCEPT !.next = 1] => Row(row.kind, row.state, 1, row.claimed)
    BY Types DEF Row, RowType
  <2> QED
    BY <1>1, <1>3, <2>1, <2>2, <2>3, Zenon
<1> QED
  BY <1>1, <1>2, <1>3, Zenon

LEMMA ParkStep ==
    ASSUME SchedTypeOK, NEW f \in Fires, Park(f)
    PROVE  /\ fire[f].pc = "checking" /\ Fire(f, IdleFire)
           /\ \/ Row(row.kind, "PAUSED", None, None)
              \/ Same /\ ~(row.present /\ row.state \in {"ACTIVE", "PAUSED"})
           /\ UNCHANGED <<schedWorld, edit, claims>> /\ SchedTypeOK'
<1>1. /\ fire[f].pc = "checking" /\ fire' = [fire EXCEPT ![f] = IdleFire]
      /\ \/ row' = [row EXCEPT !.state = "PAUSED", !.next = None, !.claimed = None]
         \/ row' = row /\ ~(row.present /\ row.state \in {"ACTIVE", "PAUSED"})
      /\ UNCHANGED <<schedWorld, edit, claims>>
  BY Zenon DEF Park
<1>2. /\ row' \in RowType
      /\ \/ Row(row.kind, "PAUSED", None, None)
         \/ Same /\ ~(row.present /\ row.state \in {"ACTIVE", "PAUSED"})
  BY <1>1, Types, Zenon DEF Row, Same, RowType
<1> QED
  BY <1>1, <1>2, Types, FireEnds, Zenon

(* A fire that ends without a trace.                                       *)
LEMMA QuitStep ==
    ASSUME SchedTypeOK, NEW f \in Fires, SkipCron(f) \/ RunLost(f) \/ ClaimDies(f)
    PROVE  /\ Fire(f, IdleFire) /\ Same
           /\ \/ fire[f].pc = "checking" /\ fire[f].kind = "CRON"
              \/ Out(f)
              \/ "broker" \in schedWorld.failures
           /\ UNCHANGED <<schedWorld, row, edit, claims>> /\ SchedTypeOK'
<1>1. /\ fire' = [fire EXCEPT ![f] = IdleFire] /\ UNCHANGED <<schedWorld, row, edit, claims>>
      /\ \/ fire[f].pc = "checking" /\ fire[f].kind = "CRON"
         \/ Out(f)
         \/ "broker" \in schedWorld.failures
  BY Zenon DEF SkipCron, RunLost, ClaimDies, Out
<1>2. row' \in RowType /\ Same /\ claims' \in 0..2
  BY <1>1, Types DEF Same, Row
<1> QED
  BY <1>1, <1>2, FireEnds, Zenon

LEMMA ReportedStep ==
    ASSUME SchedTypeOK, NEW f \in Fires, FireReported(f)
    PROVE  /\ fire[f].pc = "running" /\ fire'[f].pc = "reporting" /\ fire'[f].age = fire[f].age
           /\ fire'[f].kind = row.kind /\ \A g \in Fires \ {f} : fire'[g] = fire[g]
           /\ Same /\ UNCHANGED <<schedWorld, row, edit, claims>> /\ SchedTypeOK'
<1> DEFINE call == [fire[f] EXCEPT !.pc = "reporting", !.kind = row.kind]
<1>1. /\ fire[f].pc = "running" /\ fire' = [fire EXCEPT ![f] = call]
      /\ UNCHANGED <<schedWorld, row, edit, claims>>
  BY Zenon DEF FireReported
<1>2. fire[f] \in FireType /\ row.kind \in {"CRON", "ONCE"}
  BY Types DEF RowType
<1>3. call \in FireType /\ call.pc = "reporting" /\ call.age = fire[f].age /\ call.kind = row.kind
  BY <1>2, Zenon DEF FireType
<1> HIDE DEF call
<1>4. Fire(f, call) /\ fire' \in [Fires -> FireType]
  BY <1>1, <1>3, OneFire, Zenon
<1>5. SchedTypeOK'
  BY <1>1, <1>4, Types DEF SchedTypeOK, FireType
<1> QED
  BY <1>1, <1>3, <1>4, <1>5 DEF Fire, Same, Row

LEMMA ReportWriteStep ==
    ASSUME SchedTypeOK, NEW f \in Fires, NEW status \in {"COMPLETED", "FAILED"}, ReportWrite(f, status)
    PROVE  /\ fire[f].pc = "reporting" /\ Fire(f, IdleFire)
           /\ \/ Same /\ (~row.present \/ row.claimed = None)
              \/ Row(row.kind, status, None, None)
              \/ fire[f].kind # "ONCE" /\ Row(row.kind, row.state, row.next, None)
           /\ UNCHANGED <<schedWorld, edit, claims>> /\ SchedTypeOK'
<1>1. /\ fire[f].pc = "reporting" /\ fire' = [fire EXCEPT ![f] = IdleFire]
      /\ \/ row' = row /\ (~row.present \/ row.claimed = None)
         \/ row' = [row EXCEPT !.state = status, !.next = None, !.claimed = None]
         \/ fire[f].kind # "ONCE" /\ row' = [row EXCEPT !.claimed = None]
      /\ UNCHANGED <<schedWorld, edit, claims>>
  BY Zenon DEF ReportWrite
<1>2. /\ row' \in RowType
      /\ \/ Same /\ (~row.present \/ row.claimed = None)
         \/ Row(row.kind, status, None, None)
         \/ fire[f].kind # "ONCE" /\ Row(row.kind, row.state, row.next, None)
  BY <1>1, Types, Zenon DEF Row, Same, RowType
<1> QED
  BY <1>1, <1>2, Types, FireEnds, Zenon

LEMMA EditBeginStep ==
    ASSUME SchedTypeOK, NEW e \in Editors, PauseBegin(e) \/ ResumeBegin(e)
    PROVE  /\ edit'[e].kind = row.kind /\ \A d \in Editors \ {e} : edit'[d] = edit[d]
           /\ edit'[e].pc = "resume" => "resume" \in schedWorld.ops
           /\ Same /\ UNCHANGED <<schedWorld, row, fire, claims>> /\ SchedTypeOK'
<1>1. PICK pc \in {"pause", "resume"} :
        /\ edit' = [edit EXCEPT ![e] = [pc |-> pc, kind |-> row.kind, next |-> row.next]]
        /\ pc = "resume" => "resume" \in schedWorld.ops
        /\ UNCHANGED <<schedWorld, row, fire, claims>>
  BY Zenon DEF PauseBegin, ResumeBegin
<1> DEFINE call == [pc |-> pc, kind |-> row.kind, next |-> row.next]
<1>2. row.kind \in {"CRON", "ONCE"} /\ row.next \in {None, 0, 1}
  BY Types DEF RowType
<1>3. call \in EditType /\ call.kind = row.kind /\ call.pc = pc
  BY <1>2 DEF EditType
<1> HIDE DEF call
<1>4. Edit(e, call) /\ edit' \in [Editors -> EditType]
  BY <1>1, <1>3, OneEdit, Zenon DEF call
<1>5. SchedTypeOK'
  BY <1>1, <1>4, Types DEF SchedTypeOK, EditType
<1> QED
  BY <1>1, <1>3, <1>4, <1>5 DEF Edit, Same, Row

LEMMA EditWriteStep ==
    ASSUME SchedTypeOK, NEW e \in Editors, EditStep(e)
    PROVE  /\ Edit(e, IdleEdit)
           /\ \/ Row(row.kind, "PAUSED", edit[e].next, row.claimed)
              \/ edit[e].pc = "resume" /\ Row(row.kind, "ACTIVE", ResumeNext(e), row.claimed)
              \/ Same
           /\ UNCHANGED <<schedWorld, fire, claims>> /\ SchedTypeOK'
<1>1. /\ edit' = [edit EXCEPT ![e] = IdleEdit]
      /\ \/ row' = [row EXCEPT !.state = "PAUSED", !.next = edit[e].next]
         \/ edit[e].pc = "resume" /\ row' = [row EXCEPT !.state = "ACTIVE", !.next = ResumeNext(e)]
         \/ row' = row
      /\ UNCHANGED <<schedWorld, fire, claims>>
  BY Zenon DEF EditStep, PauseWrite, ResumeWrite
<1>2. edit[e].next \in {None, 0, 1}
  BY Types DEF EditType
<1>3. ResumeNext(e) \in {None, 0, 1}
  BY <1>2 DEF ResumeNext
<1>4. /\ row' \in RowType
      /\ \/ Row(row.kind, "PAUSED", edit[e].next, row.claimed)
         \/ edit[e].pc = "resume" /\ Row(row.kind, "ACTIVE", ResumeNext(e), row.claimed)
         \/ Same
  BY <1>1, <1>2, <1>3, Types, Zenon DEF Row, Same, RowType
<1>5. Edit(e, IdleEdit) /\ edit' \in [Editors -> EditType]
  BY <1>1, OneEdit, Numbers, Zenon
<1>6. SchedTypeOK'
  BY <1>1, <1>4, <1>5, Types DEF SchedTypeOK, EditType, RowType
<1> QED
  BY <1>1, <1>4, <1>5, <1>6

LEMMA OwnerStep ==
    ASSUME SchedTypeOK, RevokeDelegation \/ ExtendDelegation \/ Delete
    PROVE  /\ Same \/ (\E st \in {"PAUSED", "COMPLETED", "FAILED"} : Row(row.kind, st, None, row.claimed))
           /\ UNCHANGED <<schedWorld, fire, edit, claims>> /\ SchedTypeOK'
<1>0. UNCHANGED <<schedWorld, fire, edit, claims>>
  BY DEF RevokeDelegation, ExtendDelegation, Delete
<1>1. CASE RevokeDelegation
  <2> DEFINE st == IF row.state \in {"ACTIVE", "PAUSED"} THEN "PAUSED" ELSE row.state
  <2>1. row' = [row EXCEPT !.revoked = TRUE, !.next = None, !.state = st]
    BY <1>1, Zenon DEF RevokeDelegation
  <2>2. st \in {"PAUSED", "COMPLETED", "FAILED"}
    BY Types DEF RowType
  <2> HIDE DEF st
  <2>3. row' \in RowType /\ Row(row.kind, st, None, row.claimed)
    BY <2>1, <2>2, Types, Zenon DEF Row, RowType
  <2> QED
    BY <1>0, <2>2, <2>3, Types, RowMoves, Zenon
<1>2. CASE ExtendDelegation
  <2>1. row' = [row EXCEPT !.left = DelegationTTL]
    BY <1>2 DEF ExtendDelegation
  <2>2. row' \in RowType /\ Same
    BY <2>1, Types, Numbers DEF Row, Same, RowType
  <2> QED
    BY <1>0, <2>2, Types, RowMoves
<1>3. CASE Delete
  <2>1. row' = [row EXCEPT !.present = FALSE]
    BY <1>3 DEF Delete
  <2>2. row' \in RowType /\ Same
    BY <2>1, Types, Zenon DEF Row, Same, RowType
  <2> QED
    BY <1>0, <2>2, Types, RowMoves
<1> QED
  BY <1>1, <1>2, <1>3

LEMMA UpdateStep ==
    ASSUME SchedTypeOK, NEW k \in schedWorld.kinds, Update(k)
    PROVE  Row(k, row.state, 1, row.claimed) /\ claims' = 0 /\ UNCHANGED <<schedWorld, fire, edit>> /\ SchedTypeOK'
<1>1. row' = [row EXCEPT !.kind = k, !.next = 1] /\ claims' = 0 /\ UNCHANGED <<schedWorld, fire, edit>>
  BY DEF Update
<1>2. row' \in RowType /\ Row(k, row.state, 1, row.claimed)
  BY <1>1, Types, Zenon DEF Row, RowType
<1> QED
  BY <1>1, <1>2, RowMoves

LEMMA TickStep ==
    ASSUME SchedTypeOK, Tick
    PROVE  /\ \A f \in Fires : /\ fire[f].pc \in {"idle", "running"} /\ fire'[f].pc = fire[f].pc
                               /\ fire[f].pc = "running" => fire[f].age < RunTimeout /\ fire'[f].age = fire[f].age + 1
           /\ Row(row.kind, row.state, IF row.next = 1 THEN 0 ELSE row.next,
                  IF row.claimed \in 0..ClaimTTL THEN row.claimed + 1 ELSE row.claimed)
           /\ UNCHANGED <<schedWorld, edit, claims>> /\ SchedTypeOK'
<1>1. /\ row' = [row EXCEPT !.next = IF @ = 1 THEN 0 ELSE @,
                            !.claimed = IF @ \in 0..ClaimTTL THEN @ + 1 ELSE @,
                            !.left = IF @ > 0 THEN @ - 1 ELSE 0]
      /\ fire' = [f \in Fires |-> IF fire[f].pc = "running" THEN [fire[f] EXCEPT !.age = @ + 1] ELSE fire[f]]
      /\ UNCHANGED <<schedWorld, edit, claims>>
  BY DEF Tick
<1>2. /\ row' \in RowType
      /\ Row(row.kind, row.state, IF row.next = 1 THEN 0 ELSE row.next,
             IF row.claimed \in 0..ClaimTTL THEN row.claimed + 1 ELSE row.claimed)
  <2> DEFINE n == IF row.next = 1 THEN 0 ELSE row.next
             c == IF row.claimed \in 0..ClaimTTL THEN row.claimed + 1 ELSE row.claimed
             l == IF row.left > 0 THEN row.left - 1 ELSE 0
  <2>1. row' = [row EXCEPT !.next = n, !.claimed = c, !.left = l]
    BY <1>1
  <2>2. /\ row \in RowType /\ row.next \in {None, 0, 1} /\ row.left \in 0..DelegationTTL
        /\ row.claimed \in {None} \cup 0..(ClaimTTL + 1)
    BY Types DEF RowType
  <2>3. n \in {None, 0, 1}
    BY <2>2
  <2>4. c \in {None} \cup 0..(ClaimTTL + 1)
    BY <2>2, Numbers
  <2>5. l \in 0..DelegationTTL
    BY <2>2, Numbers
  <2> HIDE DEF n, c, l
  <2>6. row' \in RowType /\ Row(row.kind, row.state, n, c)
    BY <1>1, <2>1, <2>2, <2>3, <2>4, <2>5, Zenon DEF Row, RowType
  <2> QED
    BY <2>6 DEF n, c
<1>3. ASSUME NEW f \in Fires
      PROVE  /\ fire[f].pc \in {"idle", "running"} /\ fire'[f].pc = fire[f].pc
             /\ fire[f].pc = "running" => fire[f].age < RunTimeout /\ fire'[f].age = fire[f].age + 1
             /\ fire'[f] \in FireType
  <2>1. fire[f] \in FireType /\ fire[f].pc \notin {"checking", "reporting"}
        /\ (fire[f].pc = "running" => fire[f].age < RunTimeout)
    BY Types DEF Tick
  <2>2. fire[f].age \in Nat
    BY <2>1, Numbers DEF FireType
  <2>3. [fire[f] EXCEPT !.age = @ + 1].pc = fire[f].pc /\ [fire[f] EXCEPT !.age = @ + 1].age = fire[f].age + 1
    BY <2>1 DEF FireType
  <2>4. fire[f].pc = "running" => [fire[f] EXCEPT !.age = @ + 1] \in FireType
    BY <2>1, <2>2, Numbers DEF FireType
  <2>5. fire'[f] = IF fire[f].pc = "running" THEN [fire[f] EXCEPT !.age = @ + 1] ELSE fire[f]
    BY <1>1
  <2>6. fire[f].pc \in {"idle", "running"}
    BY <2>1 DEF FireType
  <2> QED
    BY <2>1, <2>3, <2>4, <2>5, <2>6
<1>4. fire' \in [Fires -> FireType]
  BY <1>1, <1>3
<1>5. SchedTypeOK'
  BY <1>1, <1>2, <1>4, Types DEF SchedTypeOK, RowType, FireType
<1> QED
  BY <1>1, <1>2, <1>3, <1>5, Zenon

-----------------------------------------------------------------------------
(* The types.                                                              *)
LEMMA TypeStep ==
    ASSUME SchedTypeOK, [SchedNext]_schedVars
    PROVE  SchedTypeOK'
<1>1. ASSUME NEW f \in Fires, ClaimDue(f) PROVE SchedTypeOK'
  BY <1>1, ClaimDueStep, Zenon
<1>2. ASSUME ClaimParks PROVE SchedTypeOK'
  BY <1>2, ParksStep, Zenon
<1>3. ASSUME ClaimAbandons PROVE SchedTypeOK'
  BY <1>3, AbandonsStep, Zenon
<1>4. ASSUME NEW f \in Fires, HandOut(f) PROVE SchedTypeOK'
  BY <1>4, HandOutStep, Zenon
<1>5. ASSUME NEW f \in Fires, Retry(f) PROVE SchedTypeOK'
  BY <1>5, RetryStep, Zenon
<1>6. ASSUME NEW f \in Fires, Park(f) PROVE SchedTypeOK'
  BY <1>6, ParkStep, Zenon
<1>7. ASSUME NEW f \in Fires, SkipCron(f) \/ RunLost(f) \/ ClaimDies(f) PROVE SchedTypeOK'
  BY <1>7, QuitStep, Zenon
<1>8. ASSUME NEW f \in Fires, FireReported(f) PROVE SchedTypeOK'
  BY <1>8, ReportedStep, Zenon
<1>9. ASSUME NEW f \in Fires, NEW status \in {"COMPLETED", "FAILED"}, ReportWrite(f, status) PROVE SchedTypeOK'
  BY <1>9, ReportWriteStep, Zenon
<1>10. ASSUME NEW e \in Editors, PauseBegin(e) \/ ResumeBegin(e) PROVE SchedTypeOK'
  BY <1>10, EditBeginStep, Zenon
<1>11. ASSUME NEW e \in Editors, EditStep(e) PROVE SchedTypeOK'
  BY <1>11, EditWriteStep, Zenon
<1>12. ASSUME RevokeDelegation \/ ExtendDelegation \/ Delete PROVE SchedTypeOK'
  BY <1>12, OwnerStep, Zenon
<1>13. ASSUME NEW k \in schedWorld.kinds, Update(k) PROVE SchedTypeOK'
  BY <1>13, UpdateStep, Zenon
<1>14. ASSUME Tick PROVE SchedTypeOK'
  BY <1>14, TickStep, Zenon
<1>15. CASE UNCHANGED schedVars
  BY <1>15 DEF schedVars, SchedTypeOK
<1> QED
  BY <1>1, <1>2, <1>3, <1>4, <1>5, <1>6, <1>7, <1>8, <1>9, <1>10, <1>11, <1>12, <1>13, <1>14, <1>15, Types, Zenon DEF SchedNext, Claim, FireStep

(* No two fires at once.                                                   *)
LEMMA OverlapStep ==
    ASSUME SchedTypeOK, OverlapInv, NoOnceResumed(schedWorld), [SchedNext]_schedVars
    PROVE  OverlapInv'
<1> USE DEF OverlapInv, Row, Same, Busy, Out
<1>0. /\ \A f \in Fires : fire[f].age \in 0..RunTimeout /\ fire[f].pc \in {"idle", "checking", "running", "reporting"}
      /\ row.kind \in schedWorld.kinds
  BY Types DEF FireType, RowType
<1>1. ASSUME NEW f \in Fires, ClaimDue(f) PROVE OverlapInv'
  BY <1>1, <1>0, ClaimDueStep, Numbers DEF Fire
<1>2. CASE ClaimParks
  BY <1>2, ParksStep, Numbers
<1>3. CASE ClaimAbandons
  BY <1>3, <1>0, AbandonsStep, Numbers
<1>4. ASSUME NEW f \in Fires, HandOut(f) PROVE OverlapInv'
  BY <1>4, HandOutStep
<1>5. ASSUME NEW f \in Fires, Retry(f) PROVE OverlapInv'
  BY <1>5, RetryStep, Numbers DEF Fire
<1>6. ASSUME NEW f \in Fires, Park(f) PROVE OverlapInv'
  BY <1>6, ParkStep, Numbers DEF Fire
<1>7. ASSUME NEW f \in Fires, SkipCron(f) \/ RunLost(f) \/ ClaimDies(f) PROVE OverlapInv'
  BY <1>7, QuitStep, Numbers DEF Fire
<1>8. ASSUME NEW f \in Fires, FireReported(f) PROVE OverlapInv'
  BY <1>8, ReportedStep
<1>9. ASSUME NEW f \in Fires, NEW status \in {"COMPLETED", "FAILED"}, ReportWrite(f, status) PROVE OverlapInv'
  BY <1>9, ReportWriteStep, Numbers DEF Fire
<1>10. ASSUME NEW e \in Editors, PauseBegin(e) \/ ResumeBegin(e) PROVE OverlapInv'
  BY <1>10, <1>0, EditBeginStep
<1>11. ASSUME NEW e \in Editors, EditStep(e) PROVE OverlapInv'
  <2>1. edit[e].pc = "resume" => ResumeNext(e) = 1
    BY DEF NoOnceResumed, ResumeNext
  <2>2. row'.state = "ACTIVE" /\ row'.next = 0 => row.state = "ACTIVE" /\ row.next = 0
    BY <1>11, <2>1, EditWriteStep
  <2>3. row'.claimed = row.claimed /\ UNCHANGED <<schedWorld, fire>> /\ Edit(e, IdleEdit)
    BY <1>11, EditWriteStep
  <2> QED
    BY <2>2, <2>3, Numbers DEF Edit
<1>12. CASE RevokeDelegation \/ ExtendDelegation \/ Delete
  BY <1>12, OwnerStep, Numbers
<1>13. ASSUME NEW k \in schedWorld.kinds, Update(k) PROVE OverlapInv'
  BY <1>13, UpdateStep
<1>14. CASE Tick
  <2>1. \A f \in Fires : /\ fire[f].pc \in {"idle", "running"} /\ fire'[f].pc = fire[f].pc
                         /\ fire[f].pc = "running" => fire[f].age < RunTimeout /\ fire'[f].age = fire[f].age + 1
    BY <1>14, TickStep
  <2>2. ASSUME NEW f \in Fires, fire[f].pc = "running" PROVE row'.claimed = fire'[f].age
    <3>1. row.claimed = fire[f].age /\ row.claimed \in 0..ClaimTTL
      BY <1>0, <2>1, <2>2, Numbers
    <3>2. row'.claimed = IF row.claimed \in 0..ClaimTTL THEN row.claimed + 1 ELSE row.claimed
      BY <1>14, TickStep
    <3>3. fire'[f].age = fire[f].age + 1
      BY <2>1, <2>2
    <3> QED
      BY <3>1, <3>2, <3>3, Zenon
  <2>3. UNCHANGED <<schedWorld, edit>>
    BY <1>14, TickStep
  <2>4. \A f \in Fires : fire'[f].pc = fire[f].pc /\ fire'[f].pc \in {"idle", "running"}
    BY <2>1
  <2>5. \A f, g \in Fires : fire'[f].pc # "idle" /\ fire'[g].pc # "idle" => f = g
    BY <2>4
  <2>6. \A f \in Fires : fire'[f].pc \in {"running", "reporting"} => row'.claimed = fire'[f].age
    BY <2>2, <2>4
  <2> QED
    BY <2>3, <2>4, <2>5, <2>6
<1>15. CASE UNCHANGED schedVars
  BY <1>15 DEF schedVars
<1> QED
  BY <1>1, <1>2, <1>3, <1>4, <1>5, <1>6, <1>7, <1>8, <1>9, <1>10, <1>11, <1>12, <1>13, <1>14, <1>15, Types, Zenon
  DEF SchedNext, Claim, FireStep

(* A one-off is claimed once.                                              *)
LEMMA OnceStep ==
    ASSUME SchedTypeOK, OverlapInv, OnceInv, "resume" \notin schedWorld.ops, [SchedNext]_schedVars
    PROVE  OnceInv'
<1> USE DEF OnceInv, Row, Same
<1>0. claims \in 0..2 /\ \A e \in Editors : edit[e].pc # "resume"
  BY Types DEF OverlapInv
<1>1. ASSUME NEW f \in Fires, ClaimDue(f) PROVE OnceInv'
  BY <1>1, <1>0, ClaimDueStep, Numbers
<1>2. CASE ClaimParks
  BY <1>2, ParksStep
<1>3. CASE ClaimAbandons
  BY <1>3, AbandonsStep
<1>4. ASSUME NEW f \in Fires, HandOut(f) PROVE OnceInv'
  BY <1>4, HandOutStep
<1>5. ASSUME NEW f \in Fires, Retry(f) PROVE OnceInv'
  BY <1>5, <1>0, RetryStep
<1>6. ASSUME NEW f \in Fires, Park(f) PROVE OnceInv'
  BY <1>6, ParkStep
<1>7. ASSUME NEW f \in Fires, SkipCron(f) \/ RunLost(f) \/ ClaimDies(f) PROVE OnceInv'
  BY <1>7, QuitStep
<1>8. ASSUME NEW f \in Fires, FireReported(f) PROVE OnceInv'
  BY <1>8, ReportedStep
<1>9. ASSUME NEW f \in Fires, NEW status \in {"COMPLETED", "FAILED"}, ReportWrite(f, status) PROVE OnceInv'
  BY <1>9, ReportWriteStep
<1>10. ASSUME NEW e \in Editors, PauseBegin(e) \/ ResumeBegin(e) PROVE OnceInv'
  BY <1>10, EditBeginStep
<1>11. ASSUME NEW e \in Editors, EditStep(e) PROVE OnceInv'
  BY <1>11, <1>0, EditWriteStep
<1>12. CASE RevokeDelegation \/ ExtendDelegation \/ Delete
  BY <1>12, OwnerStep
<1>13. ASSUME NEW k \in schedWorld.kinds, Update(k) PROVE OnceInv'
  BY <1>13, UpdateStep
<1>14. CASE Tick
  BY <1>14, TickStep, Numbers
<1>15. CASE UNCHANGED schedVars
  BY <1>15 DEF schedVars
<1> QED
  BY <1>1, <1>2, <1>3, <1>4, <1>5, <1>6, <1>7, <1>8, <1>9, <1>10, <1>11, <1>12, <1>13, <1>14, <1>15, Types, Zenon
  DEF SchedNext, Claim, FireStep

(* A one-off is not lost.                                                  *)
LEMMA LostStep ==
    ASSUME SchedTypeOK, OverlapInv, LostInv, "resume" \notin schedWorld.ops, "broker" \notin schedWorld.failures,
           [SchedNext]_schedVars
    PROVE  LostInv'
<1> USE DEF LostInv, OnceIsNotLost, Row, Same
<1>0. /\ \A f \in Fires : /\ fire[f].age \in 0..RunTimeout /\ fire[f].kind \in {"CRON", "ONCE"}
                           /\ fire[f].pc \in {"idle", "checking", "running", "reporting"}
      /\ row.kind \in {"CRON", "ONCE"} /\ row.present \in BOOLEAN
      /\ \A e \in Editors : edit[e].pc # "resume"
  BY Types DEF FireType, RowType, OverlapInv
<1>a. /\ \A f, g \in Fires : fire[f].pc # "idle" /\ fire[g].pc # "idle" => f = g
      /\ row.state = "ACTIVE" /\ row.next = 0 => \A f \in Fires : fire[f].pc # "checking"
      /\ \A f \in Fires : fire[f].pc \in {"running", "reporting"} =>
                            row.claimed # None /\ row.claimed \in 0..ClaimTTL
  BY <1>0, Numbers DEF OverlapInv, Busy, Out
<1>1. ASSUME NEW f \in Fires, ClaimDue(f) PROVE LostInv'
  <2>1. \A g \in Fires : fire[g].pc = "idle"
    BY <1>1, <1>0, <1>a, ClaimDueStep, Numbers
  <2> QED
    BY <1>1, <1>0, <2>1, ClaimDueStep DEF Fire
<1>2. CASE ClaimParks
  BY <1>2, ParksStep
<1>3. CASE ClaimAbandons
  BY <1>3, AbandonsStep
<1>4. ASSUME NEW f \in Fires, HandOut(f) PROVE LostInv'
  BY <1>4, <1>a, HandOutStep, Numbers
<1>5. ASSUME NEW f \in Fires, Retry(f) PROVE LostInv'
  BY <1>5, <1>0, <1>a, RetryStep, Numbers DEF Fire
<1>6. ASSUME NEW f \in Fires, Park(f) PROVE LostInv'
  BY <1>6, <1>0, <1>a, ParkStep, Numbers DEF Fire
<1>7. ASSUME NEW f \in Fires, SkipCron(f) \/ RunLost(f) \/ ClaimDies(f) PROVE LostInv'
  BY <1>7, <1>0, <1>a, QuitStep, Numbers DEF Fire, Out
<1>8. ASSUME NEW f \in Fires, FireReported(f) PROVE LostInv'
  BY <1>8, <1>a, ReportedStep
<1>9. ASSUME NEW f \in Fires, NEW status \in {"COMPLETED", "FAILED"}, ReportWrite(f, status) PROVE LostInv'
  BY <1>9, <1>0, <1>a, ReportWriteStep, Numbers DEF Fire
<1>10. ASSUME NEW e \in Editors, PauseBegin(e) \/ ResumeBegin(e) PROVE LostInv'
  BY <1>10, EditBeginStep
<1>11. ASSUME NEW e \in Editors, EditStep(e) PROVE LostInv'
  BY <1>11, <1>0, EditWriteStep
<1>12. CASE RevokeDelegation \/ ExtendDelegation \/ Delete
  BY <1>12, OwnerStep
<1>13. ASSUME NEW k \in schedWorld.kinds, Update(k) PROVE LostInv'
  BY <1>13, UpdateStep, Numbers
<1>14. CASE Tick
  <2>1. \A f \in Fires : fire[f].pc \notin {"checking", "reporting"} /\ fire'[f].pc = fire[f].pc
    BY <1>14, TickStep
  <2>2. /\ row'.kind = row.kind /\ row'.state = row.state /\ (row'.present => row.present)
        /\ row.next # None => row'.next # None
        /\ row.claimed # None => row'.claimed # None
    BY <1>14, TickStep, Numbers
  <2> QED
    BY <2>1, <2>2
<1>15. CASE UNCHANGED schedVars
  BY <1>15 DEF schedVars
<1> QED
  BY <1>1, <1>2, <1>3, <1>4, <1>5, <1>6, <1>7, <1>8, <1>9, <1>10, <1>11, <1>12, <1>13, <1>14, <1>15, Types, Zenon
  DEF SchedNext, Claim, FireStep

-----------------------------------------------------------------------------
LEMMA SchedStart ==
    ASSUME SchedInit
    PROVE  SchedTypeOK /\ OverlapInv /\ OnceInv /\ LostInv
<1>1. PICK k \in schedWorld.kinds :
         row = [present |-> TRUE, kind |-> k, state |-> "ACTIVE", next |-> 1, claimed |-> None,
                left |-> DelegationTTL, revoked |-> FALSE]
  BY Zenon DEF SchedInit
<1>2. row \in RowType /\ row.next = 1
  BY <1>1, Numbers DEF RowType
<1>3. /\ schedWorld \in SchedWorlds /\ claims = 0
      /\ fire = [f \in Fires |-> IdleFire] /\ edit = [e \in Editors |-> IdleEdit]
  BY DEF SchedInit
<1>4. /\ fire \in [Fires -> FireType] /\ edit \in [Editors -> EditType]
      /\ \A f \in Fires : fire[f].pc = "idle"
      /\ \A e \in Editors : edit[e].pc = "idle" /\ edit[e].kind = "CRON"
  BY <1>3, Numbers
<1>5. SchedTypeOK
  BY <1>2, <1>3, <1>4 DEF SchedTypeOK, RowType, FireType, EditType
<1>6. OverlapInv /\ OnceInv
  BY <1>2, <1>3, <1>4 DEF OverlapInv, OnceInv, Busy, Out
<1>7. LostInv
  BY <1>2, <1>4, Numbers DEF LostInv, OnceIsNotLost
<1> QED
  BY <1>5, <1>6, <1>7

(* The row of a schedule and the calls in flight have their types.         *)
THEOREM SchedTypeCorrect == SchedSpec => []SchedTypeOK
<1>1. SchedInit => SchedTypeOK
  BY SchedStart
<1>2. SchedTypeOK /\ [SchedNext]_schedVars => SchedTypeOK'
  BY TypeStep
<1> QED
  BY <1>1, <1>2, PTL DEF SchedSpec

(* No schedule has two fires out at once, as long as no one-off is         *)
(* resumed: ClaimDue hands a due row to one claim call, and the claim that *)
(* MarkClaimed records holds the row back longer than the fire runs.       *)
THEOREM FiresAlone ==
    (\A w \in SchedWorlds : NoOnceResumed(w)) => (SchedSpec => []FiresDoNotOverlap)
<1> SUFFICES ASSUME \A w \in SchedWorlds : NoOnceResumed(w) PROVE SchedSpec => []FiresDoNotOverlap
  OBVIOUS
<1>1. SchedInit => SchedTypeOK /\ OverlapInv
  BY SchedStart
<1>2. SchedTypeOK /\ OverlapInv /\ [SchedNext]_schedVars => (SchedTypeOK /\ OverlapInv)'
  BY TypeStep, OverlapStep, Types
<1>3. SchedTypeOK /\ OverlapInv => FiresDoNotOverlap
  BY DEF OverlapInv, FiresDoNotOverlap, Running, Busy
<1> QED
  BY <1>1, <1>2, <1>3, PTL DEF SchedSpec

(* A one-off that nobody resumes is claimed once for each time the owner   *)
(* gave it: ClaimDue takes its fire time away, and only Reschedule, which  *)
(* puts an unfired one back, and the owner's edit set another.             *)
THEOREM OneClaimEach ==
    (\A w \in SchedWorlds : "resume" \notin w.ops) => (SchedSpec => []OnceFiresOnce)
<1> SUFFICES ASSUME \A w \in SchedWorlds : "resume" \notin w.ops PROVE SchedSpec => []OnceFiresOnce
  OBVIOUS
<1>1. SchedInit => SchedTypeOK /\ OverlapInv /\ OnceInv
  BY SchedStart
<1>2. SchedTypeOK /\ OverlapInv /\ OnceInv /\ [SchedNext]_schedVars => (SchedTypeOK /\ OverlapInv /\ OnceInv)'
  BY TypeStep, OverlapStep, OnceStep, Types DEF NoOnceResumed
<1>3. OnceInv => OnceFiresOnce
  BY DEF OnceInv, OnceFiresOnce
<1> QED
  BY <1>1, <1>2, <1>3, PTL DEF SchedSpec

(* A one-off that nobody resumes keeps its only slot through every skip    *)
(* and failed check, as long as no claim call ends between ClaimDue and    *)
(* MarkClaimed.                                                            *)
THEOREM OnceKeepsItsSlot ==
    (\A w \in SchedWorlds : "resume" \notin w.ops /\ "broker" \notin w.failures) => (SchedSpec => []OnceIsNotLost)
<1> SUFFICES ASSUME \A w \in SchedWorlds : "resume" \notin w.ops /\ "broker" \notin w.failures
             PROVE  SchedSpec => []OnceIsNotLost
  OBVIOUS
<1>1. SchedInit => SchedTypeOK /\ OverlapInv /\ LostInv
  BY SchedStart
<1>2. SchedTypeOK /\ OverlapInv /\ LostInv /\ [SchedNext]_schedVars => (SchedTypeOK /\ OverlapInv /\ LostInv)'
  BY TypeStep, OverlapStep, LostStep, Types DEF NoOnceResumed
<1>3. LostInv => OnceIsNotLost
  BY DEF LostInv
<1> QED
  BY <1>1, <1>2, <1>3, PTL DEF SchedSpec

-----------------------------------------------------------------------------
DelegatedStep ==
    /\ row.revoked => row'.revoked
    /\ (~Live) => \A f \in Fires : fire'[f].pc = "checking" => fire[f] = fire'[f]

(* A step that leaves the revocation alone and puts no call in "checking". *)
LEMMA NoNewClaim ==
    ASSUME SchedTypeOK, NEW f \in Fires, Fire(f, IdleFire) \/ (fire'[f].pc # "checking" /\ \A g \in Fires \ {f} : fire'[g] = fire[g]),
           row'.revoked = row.revoked
    PROVE  DelegatedStep
  BY Numbers DEF Fire, DelegatedStep

LEMMA DelegatedOnly ==
    ASSUME SchedTypeOK, [SchedNext]_schedVars
    PROVE  DelegatedStep
<1>0. row \in RowType
  BY Types
<1>1. ASSUME NEW f \in Fires, ClaimDue(f) PROVE DelegatedStep
  BY <1>0, <1>1 DEF DelegatedStep, ClaimDue, MayFire, RowType
<1>2. CASE ClaimParks
  BY <1>0, <1>2 DEF DelegatedStep, ClaimParks, RowType
<1>3. CASE ClaimAbandons
  BY <1>0, <1>3 DEF DelegatedStep, ClaimAbandons, RowType
<1>4. ASSUME NEW f \in Fires, HandOut(f) PROVE DelegatedStep
  <2>1. row'.revoked = row.revoked
    BY <1>0, <1>4 DEF HandOut, RowType
  <2> QED
    BY <1>4, <2>1, HandOutStep, NoNewClaim
<1>5. ASSUME NEW f \in Fires, Retry(f) PROVE DelegatedStep
  <2>1. row'.revoked = row.revoked
    BY <1>0, <1>5 DEF Retry, RowType
  <2> QED
    BY <1>5, <2>1, RetryStep, NoNewClaim
<1>6. ASSUME NEW f \in Fires, Park(f) PROVE DelegatedStep
  <2>1. row'.revoked = row.revoked
    BY <1>0, <1>6 DEF Park, RowType
  <2> QED
    BY <1>6, <2>1, ParkStep, NoNewClaim
<1>7. ASSUME NEW f \in Fires, SkipCron(f) \/ RunLost(f) \/ ClaimDies(f) PROVE DelegatedStep
  BY <1>7, QuitStep, NoNewClaim
<1>8. ASSUME NEW f \in Fires, FireReported(f) PROVE DelegatedStep
  BY <1>8, ReportedStep, NoNewClaim
<1>9. ASSUME NEW f \in Fires, NEW status \in {"COMPLETED", "FAILED"}, ReportWrite(f, status) PROVE DelegatedStep
  <2>1. row'.revoked = row.revoked
    BY <1>0, <1>9 DEF ReportWrite, RowType
  <2> QED
    BY <1>9, <2>1, ReportWriteStep, NoNewClaim
<1>10. ASSUME NEW e \in Editors, PauseBegin(e) \/ ResumeBegin(e) PROVE DelegatedStep
  BY <1>10, EditBeginStep DEF DelegatedStep
<1>11. ASSUME NEW e \in Editors, EditStep(e) PROVE DelegatedStep
  BY <1>0, <1>11, Zenon DEF DelegatedStep, EditStep, PauseWrite, ResumeWrite, RowType
<1>12. CASE RevokeDelegation \/ ExtendDelegation \/ Delete
  BY <1>0, <1>12, Zenon DEF DelegatedStep, RevokeDelegation, ExtendDelegation, Delete, RowType
<1>13. ASSUME NEW k \in schedWorld.kinds, Update(k) PROVE DelegatedStep
  BY <1>0, <1>13 DEF DelegatedStep, Update, RowType
<1>14. CASE Tick
  <2>1. row'.revoked = row.revoked
    BY <1>0, <1>14 DEF Tick, RowType
  <2> QED
    BY <1>14, <2>1, TickStep DEF DelegatedStep
<1>15. CASE UNCHANGED schedVars
  BY <1>15 DEF schedVars, DelegatedStep
<1> QED
  BY <1>1, <1>2, <1>3, <1>4, <1>5, <1>6, <1>7, <1>8, <1>9, <1>10, <1>11, <1>12, <1>13, <1>14, <1>15, Types, Zenon
  DEF SchedNext, Claim, FireStep

(* A revocation of the delegation is for good, and without a live          *)
(* delegation no fire is claimed, whatever a resume or an edit that read   *)
(* the row earlier writes back.                                            *)
THEOREM RevokedForGood == SchedSpec => OnlyDelegatedFires
<1>1. SchedInit => SchedTypeOK
  BY SchedStart
<1>2. SchedTypeOK /\ [SchedNext]_schedVars => SchedTypeOK'
  BY TypeStep
<1>3. SchedTypeOK /\ [SchedNext]_schedVars =>
        [/\ row.revoked => row'.revoked
         /\ (~Live) => \A f \in Fires : fire'[f].pc = "checking" => fire[f] = fire'[f]]_schedVars
  BY DelegatedOnly DEF DelegatedStep
<1> QED
  BY <1>1, <1>2, <1>3, PTL DEF SchedSpec, OnlyDelegatedFires

=============================================================================
