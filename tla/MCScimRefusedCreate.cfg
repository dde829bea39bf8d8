CONSTANTS
    Uids = {"i1", "i2", "i3"}
    Gids = {"g1", "g2", "g3"}
    GuidForms <- MCGuidForms
    Slugs <- MCSlugs
    ScimCalls = {c1, c2}
    ScimWorlds <- MCRefusingWorlds
SPECIFICATION ScimSpec
CHECK_DEADLOCK FALSE
INVARIANTS InactiveUsersAreBlocked
