CONSTANTS
    alice = alice
    bob = bob
    carol = carol
    Users = {alice, bob, carol}
    Owner = alice
    TaskApprovers = {alice}
    TenantApprovers = {bob, carol}
    CanApprove = {alice, bob, carol}
    RequiredN = {0}
    Seqs = {1}
    Tools = {"t1"}
    Args = {"a1", "a2"}
    Plans <- GatedPlans
    MaxPlans = 2
    Budget = 2
    ActualCosts = {1}
    ReportedStatuses = {"COMPLETED", "FAILED"}
    Submitters = {s1, s2}
    Invokers = {}
    Voters = {v1, v2}
    Callers = {"cancel", "poll"}
    Abortable = {"submit", "vote", "cancel", "sweep"}
SYMMETRY Symmetric
SPECIFICATION Spec
INVARIANTS TypeOK GateAndTaskAgree ApprovalIsGenuine
PROPERTIES DecisionsAreFinal
