CONSTANTS
    alice = alice
    bob = bob
    carol = carol
    Users = {alice, bob, carol}
    Owner = alice
    TaskApprovers = {alice}
    TenantApprovers = {bob, carol}
    CanApprove = {alice, bob, carol}
    RequiredN = {0}
    Seqs = {1}
    Tools = {"t1"}
    Args = {"a1", "a2"}
    Plans <- GatedPlans
    MaxPlans = 1
    Budget = 2
    ActualCosts = {1}
    ReportedStatuses = {"COMPLETED", "FAILED"}
    Submitters = {s1}
    Invokers = {}
    Voters = {v1}
    Callers = {}
    Abortable = {"sweep"}
SPECIFICATION FairSpec
CHECK_DEADLOCK FALSE
PROPERTIES AwaitingIsDecided
