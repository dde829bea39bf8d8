CONSTANTS
    alice = alice
    bob = bob
    carol = carol
    Users = {alice, bob, carol}
    Owner = alice
    TaskApprovers = {alice}
    TenantApprovers = {bob, carol}
    CanApprove = {alice, bob, carol}
    RequiredN = {0}
    Seqs = {1}
    Tools = {"t1"}
    Args = {"a1", "a2"}
    Plans <- GatedPlans
    MaxPlans = 1
    Budget = 2
    ActualCosts = {1}
    ReportedStatuses = {"COMPLETED", "FAILED"}
    Submitters = {s1}
    Invokers = {}
    Voters = {v1, v2}
    Callers = {"cancel", "poll"}
    Abortable = {"vote"}
SPECIFICATION ProgressSpec
CHECK_DEADLOCK FALSE
CONSTANTS
    PolicyFiles <- MCPolicyFiles
    PolicyWorlds <- MCEditedWorlds
    ClaimTTL = 2
    RunTimeout = 1
    DelegationTTL = 4
    Fires = {f1, f2}
    Editors = {e1, e2}
    SchedWorlds <- MCDueWorlds
PROPERTIES AwaitingIsDecided LostMintIsRecovered EditsReachOPA DueIsClaimed
