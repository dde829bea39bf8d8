CONSTANTS
    alice = alice
    bob = bob
    carol = carol
    Users = {alice, bob, carol}
    Owner = alice
    TaskApprovers = {alice}
    TenantApprovers = {bob, carol}
    CanApprove = {alice, bob, carol}
    RequiredN = {0}
    Seqs = {1, 2}
    Tools = {"t1"}
    Args = {"a1", "a2"}
    Plans <- ReplanPlans
    MaxPlans = 2
    Budget = 2
    ActualCosts = {1}
    ReportedStatuses = {"COMPLETED", "FAILED"}
    Submitters = {s1, s2}
    Invokers = {i1}
    Voters = {v1}
    Callers = {"report", "cancel"}
    Abortable = {"report", "invoke"}
SYMMETRY Symmetric
SPECIFICATION Spec
INVARIANTS OnlyReleasedStepsRun
