----------------------------- MODULE MCProgress ------------------------------
(***************************************************************************)
(* What must eventually happen, on small instances: a task that awaits      *)
(* approval is decided, an edited policy decides and a due schedule fires.  *)
(* The three share no state, so one of them works in each behaviour and the *)
(* others stay as they began.                                               *)
(***************************************************************************)
EXTENDS MCTaskLifecycle, MCPolicyServing, MCScheduler

VARIABLE part

Edited == PolicyWorld(2, 1, 1, 0, 0, 1)
MCEditedWorlds == {Edited, Unserved}
Recurring == SchedWorld({"CRON"}, OwnerOps \ {"edit"}, {"transient", "gateway", "broker"}, One)
OneOff == SchedWorld({"ONCE"}, OwnerOps \ {"resume"}, FailureModes \ {"broker"}, One)
MCDueWorlds == {Recurring, OneOff}

ProgressInit ==
    /\ part \in {"task", "policy", "schedule"}
    /\ Init
    /\ PolicyInit /\ (part # "policy" <=> polWorld = Unserved)
    /\ SchedInit /\ (part # "schedule" => schedWorld = OneOff)

ProgressNext ==
    \/ part = "task" /\ Next /\ UNCHANGED <<part, polVars, schedVars>>
    \/ part = "policy" /\ PolicyNext /\ UNCHANGED <<part, vars, schedVars>>
    \/ part = "schedule" /\ SchedNext /\ UNCHANGED <<part, vars, polVars>>

\* The fairness of each component.  No task step is enabled in the
\* state it begins in, and no step of a fire or an edit; the bundle server, the
\* ticker and the clock are asked only of the part at work.
ProgressSpec ==
    /\ ProgressInit /\ [][ProgressNext]_<<part, vars, polVars, schedVars>>
    /\ Fairness
    /\ WF_polVars(part = "policy" /\ ServerStep) /\ WF_polVars(part = "policy" /\ Poll)
    /\ SF_schedVars(part = "schedule" /\ Tick) /\ WF_schedVars(part = "schedule" /\ Claim)
    /\ \A f \in Fires : WF_schedVars(FireStep(f))
    /\ \A e \in Editors : WF_schedVars(EditStep(e))
=============================================================================
