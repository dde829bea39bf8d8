SPECIFICATION AdminSpec
CONSTANTS
    c1 = c1
    c2 = c2
    LinkCalls = {c1, c2}
    LinkStates = {"s1"}
    Endpoints = {"e1", "e2"}
    MaxIssued = 3
    LinkWorlds <- MCLinkWorlds
    McpAdmins = {"a1", "a2"}
    McpRequests <- MCMcpRequests
    McpServers <- MCMcpServers
    ClientMetadataURL = TRUE
    McpFaults = TRUE
    Providers = {"p1"}
    Targets = {"t1", "t2"}
    Capabilities = {"chat", "vision"}
    ProviderCalls = {c1, c2}
    ProviderWorlds <- MCProvWorlds
    Turns = {c1, c2}
    SpendTTL = 1
    MonthLength = 2
    PerUnit = 2
    MaxCost = 2
    MaxGen = 2
    SpendWorlds <- MCSpendWorlds
    Uids = {"i1", "i2", "i3"}
    Gids = {"g1", "g2", "g3"}
    GuidForms <- MCGuidForms
    Slugs <- MCSlugs
    ScimCalls = {c1, c2}
    ScimWorlds <- MCScimWorlds
    Agents = {"a1"}
    LimitedProviders = {"p1"}
    Calls = {c1, c2}
    PolicySets <- MCPolicySets
    MaxMinute = 3
    MaxTokens = 3
    ClaimTTL = 2
    RunTimeout = 1
    DelegationTTL = 4
    Fires = {c1, c2}
    Editors = {c1, c2}
    SchedWorlds <- MCSchedWorlds
SYMMETRY MCAdminSymmetry
CHECK_DEADLOCK FALSE
INVARIANTS TokensAreGuarded SecretsFollowTheRow StoredKeysFollowRows  BlocksHold SettledMembershipsMatch LimitsHold FiresDoNotOverlap
