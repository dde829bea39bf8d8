CONSTANTS
    RouteCalls = {c1, c2}
    CfgTTL = 1
    AclTTL = 1
    ReadTime = 1
    RouteWorlds <- MCRouteWorlds
    Replicas = {r1, r2}
    MaxUpsets = 3
    MaxVersions = 2
    BootWorlds <- MCBootWorlds
    Brokers = {b1, b2}
    Events <- MCEvents
    Async = {2}
    Day <- MCDay
    QueueCap = 1
    MaxVersion = 2
    Worlds <- MCWorlds
    PolicyFiles <- MCPolicyFiles
    PolicyWorlds <- MCServedWorlds
    alice = alice
    bob = bob
    carol = carol
    Users = {alice, bob, carol}
    Owner = alice
    TaskApprovers = {alice}
    TenantApprovers = {bob, carol}
    CanApprove = {alice, bob, carol}
    RequiredN = {0}
    Seqs = {1, 2}
    Tools = {"t1"}
    Args = {"a1"}
    Plans <- ExecutionPlans
    MaxPlans = 1
    Budget = 3
    ActualCosts = {1, 2}
    ReportedStatuses = {"COMPLETED", "FAILED"}
    Submitters = {s1}
    Invokers = {i1, i2}
    Voters = {}
    Callers = {"poll"}
    Abortable = {"submit", "invoke", "poll"}
SYMMETRY MCDecisionSymmetry
SPECIFICATION DecisionsSpec
CHECK_DEADLOCK FALSE
INVARIANTS RestrictionsBind StepRunsOnce BudgetHolds CostConserved ReplicasShareKeys TrailVerifies AnswersAreTrue DecisionsReplay
