CONSTANTS
    ClaimTTL = 2
    RunTimeout = 1
    DelegationTTL = 2
    Fires = {f1, f2}
    Editors = {e1}
    SchedWorlds <- MCParkedWorlds
SPECIFICATION SchedSpec
INVARIANTS OnceIsNotLost
