----------------------------- MODULE MCScheduler -----------------------------
(* What happens to a scheduled run, in the instances of Scheduler. *)
EXTENDS Scheduler

SchedWorld(kinds, ops, failures, editors) ==
    [kinds |-> kinds, ops |-> ops, failures |-> failures, editors |-> editors]
One == {CHOOSE e \in Editors : TRUE}

\* Every owner operation and every failure, for a recurring schedule; for
\* one-offs no resume and no stop of the broker.
MCSchedWorlds ==
    {SchedWorld({"CRON"}, OwnerOps, FailureModes, Editors)} \cup
    {SchedWorld({"CRON", "ONCE"}, OwnerOps \ {"resume"}, FailureModes \ {"broker"}, {e}) : e \in Editors}

\* A one-off that is parked and resumed; one that is paused and resumed.
MCParkedWorlds == {SchedWorld({"ONCE"}, {"resume"}, {"unfit"}, One)}
MCPausedWorlds == {SchedWorld({"ONCE"}, {"pause", "resume"}, {}, One)}
=============================================================================
