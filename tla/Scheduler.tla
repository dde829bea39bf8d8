------------------------------ MODULE Scheduler ------------------------------
(***************************************************************************)
(* One scheduled run: the row of broker/internal/db/scheduled_runs.go, the *)
(* owner's UpdateScheduledRun and DeleteScheduledRun, the gateway's ticker *)
(* (ClaimDueScheduledRuns, the run, ReportScheduledRunResult).             *)
(*                                                                         *)
(* Time is relative and counted in slots, the distance of two cron fires:  *)
(* next is how far away next_fire_at is (0: due), claimed is the age of    *)
(* claimed_at, left what remains of the delegation.  Tick ages them all.   *)
(* A broker call is short: it does not span two slots.                     *)
(***************************************************************************)
EXTENDS Integers

CONSTANTS
    ClaimTTL,       \* scheduledRunClaimTTL, in slots
    RunTimeout,     \* the gateway's run timeout, in slots
    DelegationTTL,  \* delegationTTL, in slots
    Fires,          \* concurrent fires: a claim call and the run it hands out
    Editors,        \* concurrent pause and resume calls
    SchedWorlds     \* the kinds of schedule, the owner's calls, the failures and the
                    \* concurrent editors that occur

OwnerOps == {"pause", "resume", "revoke", "extend", "edit", "delete"}
FailureModes == {"transient", "unfit", "gateway", "broker"}

ASSUME SchedulerAssumption ==
    /\ ClaimTTL \in Nat \ {0} /\ DelegationTTL \in Nat \ {0}
    /\ RunTimeout \in 0..ClaimTTL
    /\ SchedWorlds \subseteq [kinds : SUBSET {"CRON", "ONCE"}, ops : SUBSET OwnerOps,
                             failures : SUBSET FailureModes, editors : SUBSET Editors]

VARIABLES
    schedWorld,
    row,      \* the scheduled_runs row
    fire,     \* claim calls and runs in flight
    edit,     \* pause and resume calls in flight
    claims    \* history: fires claimed, and not put back, since the owner last set the
              \* time (counted up to 2)

schedVars == <<schedWorld, row, fire, edit, claims>>

None == -1       \* SQL NULL
IdleFire == [pc |-> "idle", kind |-> "CRON", age |-> 0]
IdleEdit == [pc |-> "idle", kind |-> "CRON", next |-> None]

(* CreateScheduledRun: ACTIVE, with its first fire in the future.          *)
SchedInit ==
    /\ schedWorld \in SchedWorlds
    /\ \E k \in schedWorld.kinds :
          row = [present |-> TRUE, kind |-> k, state |-> "ACTIVE", next |-> 1, claimed |-> None,
                 left |-> DelegationTTL, revoked |-> FALSE]
    /\ fire = [f \in Fires |-> IdleFire]
    /\ edit = [e \in Editors |-> IdleEdit]
    /\ claims = 0

Live == ~row.revoked /\ row.left > 0      \* delegationLive

-----------------------------------------------------------------------------
(* Mutants: an outstanding claim holds nothing back; or holds the row back   *)
(* until it is reported.                                                     *)
ClaimOpenIgnored == TRUE
ClaimOpenOnceReported == row.claimed = None

(* A claim that is outstanding and younger than the TTL holds the row back. *)
ClaimOpen == row.claimed = None \/ row.claimed > ClaimTTL
Due == row.present /\ row.state = "ACTIVE" /\ row.next = 0 /\ ClaimOpen

(* The delegation's share of the skip reasons; the others (a blocked or    *)
(* revoked subject, a revoked or retired actor, a changed workflow) are    *)
(* the environment's and only make ClaimDue park.                          *)
MayFire == Live

(* ClaimDue: a due row is advanced, to its next slot or, for a one-off, to *)
(* no fire at all.                                                         *)
ClaimDue(f) ==
    /\ fire[f].pc = "idle"
    /\ Due /\ MayFire
    /\ row' = [row EXCEPT !.next = IF row.kind = "CRON" THEN 1 ELSE None]
    /\ fire' = [fire EXCEPT ![f] = [pc |-> "checking", kind |-> row.kind, age |-> 0]]
    /\ claims' = IF claims < 2 THEN claims + 1 ELSE claims
    /\ UNCHANGED <<schedWorld, edit>>

(* ClaimDue parks a row it refuses, in the same transaction.               *)
ClaimParks ==
    /\ Due
    /\ ~Live \/ "unfit" \in schedWorld.failures
    /\ row' = [row EXCEPT !.state = "PAUSED", !.next = None]
    /\ UNCHANGED <<schedWorld, fire, edit, claims>>

(* ClaimDue first fails the one-off that was handed out and never reported. *)
ClaimAbandons ==
    /\ row.present /\ row.state = "ACTIVE" /\ row.kind = "ONCE" /\ row.next = None
    /\ row.claimed > ClaimTTL
    /\ row' = [row EXCEPT !.state = "FAILED", !.claimed = None]
    /\ UNCHANGED <<schedWorld, fire, edit, claims>>

(* MarkClaimed, once the owner's skill and the actor have been checked and *)
(* the owner grant is minted: the run is handed to the gateway.            *)
HandOut(f) ==
    /\ fire[f].pc = "checking"
    /\ row.present
    /\ row' = [row EXCEPT !.claimed = 0]
    /\ fire' = [fire EXCEPT ![f].pc = "running"]
    /\ UNCHANGED <<schedWorld, edit, claims>>

(* A check, the mint or MarkClaimed failed: settleOnce(r, "") puts a       *)
(* one-off back (Reschedule); a cron run waits for its next slot.          *)
Retry(f) ==
    /\ fire[f].pc = "checking"
    /\ "transient" \in schedWorld.failures \/ ~row.present
    /\ fire' = [fire EXCEPT ![f] = IdleFire]
    /\ IF fire[f].kind = "ONCE" /\ row.present /\ row.state = "ACTIVE" /\ row.next = None
       THEN row' = [row EXCEPT !.next = 1] /\ claims' = IF claims > 0 THEN claims - 1 ELSE 0
       ELSE UNCHANGED <<row, claims>>
    /\ UNCHANGED <<schedWorld, edit>>

(* The owner lost skill:scheduler (any run is parked), or may not use the  *)
(* actor, or the actor is suspended (settleOnce parks a one-off).          *)
Park(f) ==
    /\ fire[f].pc = "checking"
    /\ "unfit" \in schedWorld.failures
    /\ fire' = [fire EXCEPT ![f] = IdleFire]
    /\ row' = IF row.present /\ row.state \in {"ACTIVE", "PAUSED"}
              THEN [row EXCEPT !.state = "PAUSED", !.next = None, !.claimed = None] ELSE row
    /\ UNCHANGED <<schedWorld, edit, claims>>

SkipCron(f) ==
    /\ fire[f].pc = "checking" /\ fire[f].kind = "CRON"
    /\ "unfit" \in schedWorld.failures
    /\ fire' = [fire EXCEPT ![f] = IdleFire]
    /\ UNCHANGED <<schedWorld, row, edit, claims>>

-----------------------------------------------------------------------------
(* The gateway's run ended, or timed out: ReportResult reads the kind, ... *)
FireReported(f) ==
    /\ fire[f].pc = "running"
    /\ row.present
    /\ fire' = [fire EXCEPT ![f].pc = "reporting", ![f].kind = row.kind]
    /\ UNCHANGED <<schedWorld, row, edit, claims>>

(* ... and consumes the claim; without one the report is refused.          *)
ReportWrite(f, status) ==
    /\ fire[f].pc = "reporting"
    /\ fire' = [fire EXCEPT ![f] = IdleFire]
    /\ row' = IF ~row.present \/ row.claimed = None THEN row
              ELSE IF fire[f].kind = "ONCE"
              THEN [row EXCEPT !.state = status, !.next = None, !.claimed = None]
              ELSE [row EXCEPT !.claimed = None]
    /\ UNCHANGED <<schedWorld, edit, claims>>

(* The gateway dies, loses the answer of the claim call or cannot deliver  *)
(* its report: nobody reports this fire.                                   *)
RunLost(f) ==
    /\ fire[f].pc \in {"running", "reporting"}
    /\ "gateway" \in schedWorld.failures \/ ~row.present
    /\ fire' = [fire EXCEPT ![f] = IdleFire]
    /\ UNCHANGED <<schedWorld, row, edit, claims>>

(* The claim call ends between ClaimDue and MarkClaimed: the broker stops, *)
(* or the request context, which settleOnce uses too, is cancelled.        *)
ClaimDies(f) ==
    /\ fire[f].pc = "checking"
    /\ "broker" \in schedWorld.failures
    /\ fire' = [fire EXCEPT ![f] = IdleFire]
    /\ UNCHANGED <<schedWorld, row, edit, claims>>

-----------------------------------------------------------------------------
(* UpdateScheduledRun.  Pause and resume act on the row they read first;   *)
(* the writes of the other requests do not depend on that read.            *)
PauseBegin(e) ==
    /\ "pause" \in schedWorld.ops /\ edit[e].pc = "idle" /\ row.present
    /\ edit' = [edit EXCEPT ![e] = [pc |-> "pause", kind |-> row.kind, next |-> row.next]]
    /\ UNCHANGED <<schedWorld, row, fire, claims>>

(* SetState(PAUSED), with the next_fire_at that was read.                  *)
PauseWrite(e) ==
    /\ edit[e].pc = "pause"
    /\ row' = IF row.present THEN [row EXCEPT !.state = "PAUSED", !.next = edit[e].next] ELSE row
    /\ edit' = [edit EXCEPT ![e] = IdleEdit]
    /\ UNCHANGED <<schedWorld, fire, claims>>

(* Resume is refused for a delegation that is not live; the owner's skill  *)
(* and the actor are checked too, which only refuses.                      *)
ResumeBegin(e) ==
    /\ "resume" \in schedWorld.ops /\ edit[e].pc = "idle" /\ row.present
    /\ Live
    /\ edit' = [edit EXCEPT ![e] = [pc |-> "resume", kind |-> row.kind, next |-> row.next]]
    /\ UNCHANGED <<schedWorld, row, fire, claims>>

(* A recurring run is re-anchored, a one-off keeps its time.               *)
ResumeNext(e) == IF edit[e].kind = "CRON" THEN 1 ELSE edit[e].next

ResumeWrite(e) ==
    /\ edit[e].pc = "resume"
    /\ row' = IF row.present THEN [row EXCEPT !.state = "ACTIVE", !.next = ResumeNext(e)] ELSE row
    /\ edit' = [edit EXCEPT ![e] = IdleEdit]
    /\ UNCHANGED <<schedWorld, fire, claims>>

RevokeDelegation ==
    /\ "revoke" \in schedWorld.ops /\ row.present
    /\ row' = [row EXCEPT !.revoked = TRUE, !.next = None,
                          !.state = IF @ \in {"ACTIVE", "PAUSED"} THEN "PAUSED" ELSE @]
    /\ UNCHANGED <<schedWorld, fire, edit, claims>>

ExtendDelegation ==
    /\ "extend" \in schedWorld.ops /\ row.present /\ ~row.revoked
    /\ row' = [row EXCEPT !.left = DelegationTTL]
    /\ UNCHANGED <<schedWorld, fire, edit, claims>>

(* A full edit sets the kind and a fire in the future.                     *)
Update(k) ==
    /\ "edit" \in schedWorld.ops /\ row.present /\ row.state \in {"ACTIVE", "PAUSED"}
    /\ row' = [row EXCEPT !.kind = k, !.next = 1]
    /\ claims' = 0
    /\ UNCHANGED <<schedWorld, fire, edit>>

Delete ==
    /\ "delete" \in schedWorld.ops /\ row.present
    /\ row' = [row EXCEPT !.present = FALSE]
    /\ UNCHANGED <<schedWorld, fire, edit, claims>>

-----------------------------------------------------------------------------
(* A slot passes.  Broker calls in flight finish first, and a run reports  *)
(* or is lost before its timeout is over.  Ages stop mattering one beyond  *)
(* the TTL.                                                                *)
Tick ==
    /\ \A f \in Fires : /\ fire[f].pc \notin {"checking", "reporting"}
                        /\ fire[f].pc = "running" => fire[f].age < RunTimeout
    /\ \A e \in Editors : edit[e].pc = "idle"
    /\ row' = [row EXCEPT !.next = IF @ = 1 THEN 0 ELSE @,
                          !.claimed = IF @ \in 0..ClaimTTL THEN @ + 1 ELSE @,
                          !.left = IF @ > 0 THEN @ - 1 ELSE 0]
    /\ fire' = [f \in Fires |-> IF fire[f].pc = "running"
                                THEN [fire[f] EXCEPT !.age = @ + 1] ELSE fire[f]]
    /\ UNCHANGED <<schedWorld, edit, claims>>

FireStep(f) ==
    \/ HandOut(f) \/ Retry(f) \/ Park(f) \/ SkipCron(f)
    \/ FireReported(f) \/ RunLost(f) \/ ClaimDies(f)
    \/ \E status \in {"COMPLETED", "FAILED"} : ReportWrite(f, status)
EditStep(e) == PauseWrite(e) \/ ResumeWrite(e)
Claim == ClaimParks \/ ClaimAbandons \/ \E f \in Fires : ClaimDue(f)

SchedNext ==
    \/ Claim \/ Tick
    \/ \E f \in Fires : FireStep(f)
    \/ \E e \in schedWorld.editors : PauseBegin(e) \/ ResumeBegin(e) \/ EditStep(e)
    \/ RevokeDelegation \/ ExtendDelegation \/ Delete
    \/ \E k \in schedWorld.kinds : Update(k)

SchedSpec == SchedInit /\ [][SchedNext]_schedVars

(* Fairness: time passes, however many calls come in; the ticker keeps     *)
(* claiming; calls and runs that have begun end.  Nobody has to edit,      *)
(* pause, resume or revoke.                                                *)
SchedFairness ==
    /\ SF_schedVars(Tick) /\ WF_schedVars(Claim)
    /\ \A f \in Fires : WF_schedVars(FireStep(f))
    /\ \A e \in Editors : WF_schedVars(EditStep(e))

SchedFairSpec == SchedSpec /\ SchedFairness

-----------------------------------------------------------------------------
(* The row and the calls in flight have their types.                       *)
SchedTypeOK ==
    /\ schedWorld \in SchedWorlds
    /\ row \in [present : BOOLEAN, kind : schedWorld.kinds, state : {"ACTIVE", "PAUSED", "COMPLETED", "FAILED"},
                next : {None, 0, 1}, claimed : {None} \cup 0..(ClaimTTL + 1),
                left : 0..DelegationTTL, revoked : BOOLEAN]
    /\ fire \in [Fires -> [pc : {"idle", "checking", "running", "reporting"},
                           kind : {"CRON", "ONCE"}, age : 0..RunTimeout]]
    /\ edit \in [Editors -> [pc : {"idle", "pause", "resume"}, kind : {"CRON", "ONCE"},
                             next : {None, 0, 1}]]
    /\ claims \in 0..2

Running == {f \in Fires : fire[f].pc \in {"running", "reporting"}}

(* Fires of a recurring schedule do not overlap, whatever the owner does   *)
(* and however many tickers claim (ClaimDue: "a run that outlasts its cron *)
(* interval delays the next fire instead of overlapping it").              *)
FiresDoNotOverlap == row.present => \A f, g \in Running : f = g

(* A revoked or expired delegation never fires again, also when a resume   *)
(* that read the row before the revocation lands after it                  *)
(* (RevokeDelegation: "for good").                                         *)
OnlyDelegatedFires ==
    [][/\ row.revoked => row'.revoked
       /\ (~Live) => \A f \in Fires : fire'[f].pc = "checking" => fire[f] = fire'[f]]_schedVars

(* A one-off that is ACTIVE will fire, is being claimed or is with the     *)
(* gateway: no skip and no failed check loses its only slot                *)
(* (ClaimDueScheduledRuns: "put it back for a transient skip, park it for  *)
(* a deliberate one, or it is lost").                                      *)
OnceIsNotLost ==
    row.present /\ row.kind = "ONCE" /\ row.state = "ACTIVE" =>
        \/ row.next # None \/ row.claimed # None
        \/ \E f \in Fires : fire[f].pc = "checking"

(* A one-off is claimed at most once for each time the owner gave it       *)
(* (validateScheduleTiming: "ONCE fires exactly once").                    *)
OnceFiresOnce == row.kind = "ONCE" => claims <= 1

(* A due schedule is not due for ever: it fires or is parked, although a   *)
(* fire whose gateway died holds it back for the claim TTL.                *)
DueIsClaimed == (row.present /\ row.state = "ACTIVE" /\ row.next = 0) ~>
                    ~(row.present /\ row.state = "ACTIVE" /\ row.next = 0)

=============================================================================
