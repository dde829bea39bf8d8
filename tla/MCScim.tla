------------------------------- MODULE MCScim -------------------------------
(* Instances of Scim for TLC. *)
EXTENDS Scim, TLC

MCGuidForms == ("U1" :> "u1")
MCSlugs == ("Finance" :> "fin" @@ "finance" :> "fin")

SWorld(callers, subs, users, groups, reqs, admin, faulty) ==
    [callers |-> callers, subjects |-> subs, users |-> users, groups |-> groups,
     reqs |-> reqs, admin |-> admin, faulty |-> faulty, reserved |-> {"svc"}]
New(n, s, a) == [op |-> "createUser", name |-> n, ext |-> s, active |-> a]
Put(i, n, s, a) == [op |-> "putUser", id |-> i, name |-> n, ext |-> s, active |-> a]
Patch(i, n, a) == [op |-> "patchUser", id |-> i, name |-> n, ext |-> "keep", active |-> a]
Del(i) == [op |-> "deleteUser", id |-> i]
NewGroup(d, m) == [op |-> "createGroup", display |-> d, members |-> m]
PutGroup(i, m) == [op |-> "putGroup", id |-> i, members |-> m]
PatchGroup(i, k, m) == [op |-> "patchGroup", id |-> i, kind |-> k, members |-> m]
DelGroup(i) == [op |-> "deleteGroup", id |-> i]

\* A user stored before canonicalisation is switched off and on by two calls
\* while an admin blocks and unblocks.
Switching == SWorld(ScimCalls, {"u1", "U1"}, ("i1" :> UserRow("n1", "U1", TRUE)), <<>>,
    {Patch("i1", "keep", "off"), Patch("i1", "keep", "on")}, {"block", "unblock"}, TRUE)
\* Users come and go, with refused names and subjects.
Joining == SWorld(ScimCalls, {"u1", "u2"}, ("i1" :> UserRow("n1", "u1", TRUE)), <<>>,
    {Put("i1", "n2", "keep", "off"), Put("i1", "n1", "u2", "on"), Del("i1"),
     New("n1", "u2", "off"), New("n2", "u1", "on"), New("n3", "svc", "on")}, {}, TRUE)
\* One call at a time changes a group and its members; every store fails.
Staffing(c) == SWorld({c}, {"u1", "U1", "u2"},
    ("i1" :> UserRow("n1", "U1", TRUE) @@ "i2" :> UserRow("n2", "u2", TRUE)),
    ("g1" :> GroupRow("fin", {"i1"})),
    {PutGroup("g1", {"i2"}), PatchGroup("g1", "add", {"i1"}), PatchGroup("g1", "remove", {"i2"}),
     PatchGroup("g1", "replace", {"i1", "i2"}), DelGroup("g1"), Del("i1"),
     NewGroup("finance", {"i2"})}, {}, TRUE)
\* Two calls at a time on the members of a group; nothing fails.
Crossing == SWorld(ScimCalls, {"u1", "u2"},
    ("i1" :> UserRow("n1", "u1", TRUE) @@ "i2" :> UserRow("n2", "u2", TRUE)),
    ("g1" :> GroupRow("fin", {})),
    {PatchGroup("g1", "add", {"i1"}), PatchGroup("g1", "add", {"i2"}),
     PutGroup("g1", {"i1"}), Del("i2")}, {}, FALSE)
\* Two groups of the provider reduce to one name an admin may be using.
Claiming == SWorld(ScimCalls, {"u1"}, ("i1" :> UserRow("n1", "u1", TRUE)), <<>>,
    {NewGroup("Finance", {"i1"}), NewGroup("finance", {})}, {"assign"}, TRUE)
\* A deactivated user and a request that is refused; nothing fails.
Refusing(c) == SWorld({c}, {"u1"}, ("i1" :> UserRow("n1", "u1", TRUE)), <<>>,
    {Patch("i1", "keep", "off"), New("n2", "u1", "on")}, {}, FALSE)
MCRefusingWorlds == {Refusing(c) : c \in ScimCalls}

MCScimWorlds == {Switching, Joining, Crossing, Claiming} \cup {Staffing(c) : c \in ScimCalls}
=============================================================================
