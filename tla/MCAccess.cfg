CONSTANTS
    Replicas = {r1, r2}
    Keys = {"u", "a"}
    Followed = {r1}
    Readers = {p1}
    Writers = {w1}
    States <- CredStates
    TTL = 1
    MaxNow = 2
    SessionTTL = 5
    GrantTTL = 5
    TokenTTL = 5
    KeyTTL = 5
    Worlds <- MCWorlds
    Jtis = {"j1", "j2"}
    Requests = {"q1", "q2"}
    PublicKeyTTL = 3
    MaxAhead = 1
    Leeway = 1
    MaxTime = 4
    Users = {"u1", "u2"}
    Conns = {"c1", "c2"}
    Calls = {k1, k2}
    Grace = 1
    AgentWorlds <- MCAgentWorlds
    Members = {"u1", "u2", "u3"}
    Envs = {1, 2, 3}
    Mailers = {k1, k2}
    Scopes = {"s1", "s2"}
    EnvelopeTTL = 4
    Staleness = 1
    MaxFanOut = 2
    MaxStamps = 2
    Budget = 2
    MailWorlds <- MCMailWorlds
    Persons <- MCPersons
    JitBrokers = {k1, k2}
    JitWorlds <- MCJitWorlds
SYMMETRY MCAccessSymmetry
SPECIFICATION AccessSpec
CHECK_DEADLOCK FALSE
INVARIANTS VoidCredentialsStop AcceptedOnceWhileValid GrantsFollowServers RunsBindUsableAgents StampsAreEntitled GroupsAreGivenOnce
PROPERTIES AnswersAreFresh StatusFollowsOwners
