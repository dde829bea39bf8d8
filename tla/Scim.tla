-------------------------------- MODULE Scim --------------------------------
(***************************************************************************)
(* SCIM provisioning: the identity provider creates, changes and deletes   *)
(* users and groups of one tenant through the gateway (scim/scim.go,       *)
(* broker/scim.go, db/scim.go).  A user row decides whether its subject    *)
(* carries an AG-06 block; a group row decides which membership tuples     *)
(* OpenFGA holds.  The row, the block and the tuples live in three stores  *)
(* with no transaction across them, and requests of the provider, the      *)
(* tenant's admins and failures of the stores interleave.                  *)
(*                                                                         *)
(* A call carries one request and takes one step per store request it      *)
(* makes, in the order of the code; each change may fail, and a failed     *)
(* read, which changes nothing, is left out.  So are the bearer token and  *)
(* the tenant's mode, which can only refuse a request before it reads, and *)
(* e-mails, display names, representation and the audit events.            *)
(***************************************************************************)
EXTENDS Naturals, FiniteSets, Sequences, SequencesExt

CONSTANTS
    Uids, Gids,       \* ids the database hands out, each once
    GuidForms,        \* non-canonical GUID |-> the form tokens carry
    Slugs,            \* display name |-> the group name derived from it
    ScimCalls,        \* concurrent calls of the provider
    ScimWorlds        \* the situations explored

VARIABLES
    scimWorld,
    suser,      \* id |-> Unborn, Gone or a user row                scim_users
    sgroup,     \* id |-> Unborn, Gone or a group row               scim_groups
    block,      \* subject |-> "none", "scim" or "admin"            kill_switches
    member,     \* set of <<subject, group>>                        OpenFGA
    granted,    \* groups that some grant names as group#member     OpenFGA
    scall,      \* what each call is doing
    wish        \* ghost: what the admins and the provider may count on

storesVars == <<suser, sgroup, block, member, granted>>
scimVars == <<scimWorld, suser, sgroup, block, member, granted, scall, wish>>

Unborn == [row |-> "unborn"]
Gone == [row |-> "gone"]
UserRow(n, e, a) == [row |-> "user", name |-> n, ext |-> e, active |-> a]
GroupRow(g, m) == [row |-> "group", fga |-> g, members |-> m]
Rows(table) == {i \in DOMAIN table : table[i].row \notin {"unborn", "gone"}}
Fresh(table) == CHOOSE i \in DOMAIN table : table[i].row = "unborn"
HasFresh(table) == \E i \in DOMAIN table : table[i].row = "unborn"

-----------------------------------------------------------------------------
(* Subjects *)

\* canonicalSubject: a GUID in the form tokens carry it, anything else as sent.
canonicalSubject(s) == IF s \in DOMAIN GuidForms THEN GuidForms[s] ELSE s

\* subjectForms: the stored form and, for a row stored before
\* canonicalisation, the form tokens carry.
subjectForms(s) ==
    IF canonicalSubject(s) = s THEN <<s>> ELSE <<s, canonicalSubject(s)>>

\* validateUser: service principals and group segments are no users.
validateUser(s) == s \notin scimWorld.reserved

\* memberTuples, over a set of user ids whose subjects are in subj.
memberTuples(subj, ids, g) ==
    {<<s, g>> : s \in UNION {Range(subjectForms(subj[i])) : i \in ids}}

\* getUser, getGroup: a row that is not there is a 404.
getUser(id) == id \in Rows(suser)
getGroup(id) == id \in Rows(sgroup)

\* FGAGroupName: the group a display name reduces to.
FGAGroupName(display) == Slugs[display]

-----------------------------------------------------------------------------
(* Calls *)

IdleScim == [pc |-> "idle"]
ScimAt(c, pc) == scall[c].pc = pc
ScimTo(c, r) == scall' = [scall EXCEPT ![c] = r @@ @]
InCall(c) == ~ScimAt(c, "idle")

\* A request that may lift a block, and the canonical subject it may lift.
MayLift(req) == req.op \in {"createUser", "putUser", "patchUser"} /\ req.active # "off"
Reactivates(req, s) ==
    /\ MayLift(req)
    /\ \/ req.op = "createUser" /\ canonicalSubject(req.ext) = s
       \/ /\ req.op # "createUser"
          /\ req.id \in Rows(suser) /\ canonicalSubject(suser[req.id].ext) = s

\* The groups whose tuples a call touches.
Touches(call) ==
    CASE call.req.op = "createGroup" -> {FGAGroupName(call.req.display)}
      [] call.req.op = "deleteUser" ->
            {sgroup[g].fga : g \in {h \in Rows(sgroup) : call.req.id \in sgroup[h].members}}
            \cup {h \in DOMAIN wish.drift : wish.drift[h] = call.req}
      [] call.req.op \in {"putGroup", "patchGroup", "deleteGroup"} ->
            IF call.req.id \in Rows(sgroup) THEN {sgroup[call.req.id].fga} ELSE {}
      [] OTHER -> {}

NoDrift == [op |-> "clean"]
Lost == [op |-> "lost"]

\* A call that has read what it is going to change, the groups whose tuples it
\* changes and the users, with their subjects, whose membership it changes.
Changing(d) == "who" \in DOMAIN scall[d]
GroupsOf(d) == IF scall[d].req.op = "deleteUser" THEN DOMAIN wish.drift ELSE {scall[d].fga}
Who(ids) == {<<i, suser[i].ext>> : i \in ids \cap Rows(suser)}
Crosses(c, d) == c # d /\ Changing(c) /\ Changing(d) /\ GroupsOf(c) \cap GroupsOf(d) # {}

\* The call answers.  done: acknowledged; refused: a SCIM error before any
\* change; error: a 5xx, with part of the work possibly done.
Answer(c, how) ==
    LET crossed == {d \in ScimCalls : Crosses(c, d)}
    IN
    /\ scall' = [d \in ScimCalls |-> IF d = c THEN IdleScim
                                     ELSE IF d \in crossed THEN [scall[d] EXCEPT !.met = TRUE]
                                     ELSE scall[d]]
    /\ wish' = [wish EXCEPT
         !.blur = [g \in DOMAIN @ |->
             IF ~Changing(c) \/ g \notin GroupsOf(c) THEN @[g]
             ELSE IF crossed # {} \/ scall[c].met THEN @[g] \cup scall[c].who
             ELSE IF how = "done" /\ scall[c].req.op # "deleteUser" THEN @[g] \ scall[c].who
             ELSE @[g]],
         !.drift = [g \in DOMAIN @ |->
             IF g \notin Touches(scall[c]) \/ how = "refused" THEN @[g]
             ELSE IF @[g] \notin {NoDrift, scall[c].req} THEN Lost
             ELSE IF how = "done" THEN NoDrift ELSE scall[c].req],
         !.down =
             IF how = "done" /\ "off" \in DOMAIN scall[c] /\ ~scall[c].contested
             THEN @ \cup {scall[c].off} ELSE @]
Fails(c) == scimWorld.faulty /\ Answer(c, "error") /\ UNCHANGED storesVars

\* Ghost: a block of this call's subject may be lifted while it runs.
Contested(c) == IF InCall(c) THEN [scall[c] EXCEPT !.contested = TRUE] ELSE scall[c]

\* The provider sends a request: route picks the handler.
AskScim(c) ==
    /\ ScimAt(c, "idle") /\ c \in scimWorld.callers
    /\ \E req \in scimWorld.reqs :
         /\ scall' = [d \in ScimCalls |->
               IF d = c
               THEN [pc |-> req.op, req |-> req, met |-> FALSE, contested |->
                       \E e \in ScimCalls \ {c} : InCall(e) /\ MayLift(scall[e].req)]
               ELSE IF MayLift(req) THEN Contested(d) ELSE scall[d]]
         /\ wish' = [wish EXCEPT !.down = {s \in @ : ~Reactivates(req, s)}]
    /\ UNCHANGED <<scimWorld, storesVars>>

-----------------------------------------------------------------------------
(* Users *)

\* After applyActive each handler goes on with its own store request.
AfterActive(op) ==
    CASE op = "createUser" -> "CreateUser"
      [] op = "deleteUser" -> "ListGroups"
      [] OTHER -> "UpdateUser"

\* applyActive for subject s: a block per form, or a read of the blocks.
applyActive(c, s, active, more) ==
    IF active
    THEN ScimTo(c, [pc |-> "UserBlocks", subject |-> s] @@ more)
    ELSE ScimTo(c, [pc |-> "BlockUser", todo |-> subjectForms(s),
                    off |-> canonicalSubject(s)] @@ more)

createUser(c) ==
    /\ ScimAt(c, "createUser")
    /\ LET req == scall[c].req
           s   == canonicalSubject(req.ext)
       IN  IF validateUser(s)
           THEN /\ applyActive(c, s, req.active # "off",
                     [next |-> UserRow(req.name, s, req.active # "off")])
                /\ UNCHANGED wish
           ELSE Answer(c, "refused")
    /\ UNCHANGED <<scimWorld, storesVars>>

\* saveUser up to applyActive: a row stored before canonicalisation keeps its
\* subject, and the subject cannot change.
saveUser(c, u, n) ==
    IF validateUser(canonicalSubject(n.ext))
       /\ canonicalSubject(n.ext) = canonicalSubject(u.ext)
    THEN applyActive(c, u.ext, n.active, [next |-> [n EXCEPT !.ext = u.ext]])
         /\ UNCHANGED wish
    ELSE Answer(c, "refused")

\* putUser: the whole resource; an omitted externalId or active keeps.
putUser(c) ==
    /\ ScimAt(c, "putUser")
    /\ LET req == scall[c].req
           u   == suser[req.id]
       IN  IF getUser(req.id)
           THEN saveUser(c, u,
                  UserRow(req.name, IF req.ext = "keep" THEN u.ext ELSE req.ext,
                          IF req.active = "keep" THEN u.active ELSE req.active = "on"))
           ELSE Answer(c, "refused")
    /\ UNCHANGED <<scimWorld, storesVars>>

\* setUserAttr: the attributes a patch names.
setUserAttr(u, req) ==
    UserRow(IF req.name = "keep" THEN u.name ELSE req.name,
            IF req.ext = "keep" THEN u.ext ELSE req.ext,
            IF req.active = "keep" THEN u.active ELSE req.active = "on")

patchUser(c) ==
    /\ ScimAt(c, "patchUser")
    /\ LET req == scall[c].req
       IN  IF getUser(req.id)
           THEN saveUser(c, suser[req.id], setUserAttr(suser[req.id], req))
           ELSE Answer(c, "refused")
    /\ UNCHANGED <<scimWorld, storesVars>>

(* Mutant: an active block is always kept. *)
BlockKept(s, by) == IF block[s] = "none" THEN [block EXCEPT ![s] = by] ELSE block

\* BlockUser: an active block is kept, but an admin's takes over SCIM's.
Block(s, by) ==
    IF block[s] = "none" \/ (block[s] = "scim" /\ by # "scim")
    THEN [block EXCEPT ![s] = by] ELSE block

BlockUser(c) ==
    /\ ScimAt(c, "BlockUser")
    /\ \/ /\ block' = Block(Head(scall[c].todo), "scim")
          /\ ScimTo(c, IF Len(scall[c].todo) = 1
                       THEN [pc |-> AfterActive(scall[c].req.op)]
                       ELSE [todo |-> Tail(scall[c].todo)])
          /\ UNCHANGED <<suser, sgroup, member, granted, wish>>
       \/ Fails(c)
    /\ UNCHANGED scimWorld

\* UserBlocks: the forms whose block is SCIM's own will be lifted.
UserBlocks(c) ==
    /\ ScimAt(c, "UserBlocks")
    /\ LET lift == SelectSeq(subjectForms(scall[c].subject),
                             LAMBDA s : block[s] = "scim")
       IN  \/ /\ ScimTo(c, [pc |-> IF lift = <<>> THEN AfterActive(scall[c].req.op)
                                   ELSE "UnblockUser",
                            todo |-> lift])
              /\ UNCHANGED <<storesVars, wish>>
           \/ Fails(c)
    /\ UNCHANGED scimWorld

UnblockUser(c) ==
    /\ ScimAt(c, "UnblockUser")
    /\ \/ /\ block' = [block EXCEPT ![Head(scall[c].todo)] = "none"]
          /\ ScimTo(c, IF Len(scall[c].todo) = 1
                       THEN [pc |-> AfterActive(scall[c].req.op)]
                       ELSE [todo |-> Tail(scall[c].todo)])
          /\ UNCHANGED <<suser, sgroup, member, granted, wish>>
       \/ Fails(c)
    /\ UNCHANGED scimWorld

\* CreateUser: userName and externalId are unique in the tenant.
CreateUser(c) ==
    /\ ScimAt(c, "CreateUser")
    /\ LET n == scall[c].next
           taken == \E i \in Rows(suser) :
                        suser[i].name = n.name \/ suser[i].ext = n.ext
       IN  \/ /\ ~taken /\ HasFresh(suser)
              /\ suser' = [suser EXCEPT ![Fresh(suser)] = n]
              /\ Answer(c, "done")
              /\ UNCHANGED <<sgroup, block, member, granted>>
           \/ taken /\ Answer(c, "refused") /\ UNCHANGED storesVars
           \/ Fails(c)
    /\ UNCHANGED scimWorld

UpdateUser(c) ==
    /\ ScimAt(c, "UpdateUser")
    /\ LET n  == scall[c].next
           id == scall[c].req.id
           taken == \E i \in Rows(suser) \ {id} : suser[i].name = n.name
       IN  \/ /\ id \in Rows(suser) /\ ~taken
              /\ suser' = [suser EXCEPT ![id] = n]
              /\ Answer(c, "done")
              /\ UNCHANGED <<sgroup, block, member, granted>>
           \/ /\ id \in Rows(suser) /\ taken
              /\ Answer(c, "refused") /\ UNCHANGED storesVars
           \/ /\ id \notin Rows(suser)
              /\ Answer(c, "error") /\ UNCHANGED storesVars
           \/ Fails(c)
    /\ UNCHANGED scimWorld

deleteUser(c) ==
    /\ ScimAt(c, "deleteUser")
    /\ LET id == scall[c].req.id
       IN  IF getUser(id)
           THEN applyActive(c, suser[id].ext, FALSE, [u |-> suser[id]]) /\ UNCHANGED wish
           ELSE Answer(c, "refused")
    /\ UNCHANGED <<scimWorld, storesVars>>

\* deleteUser's read of the groups that list the user.
ListGroups(c) ==
    /\ ScimAt(c, "ListGroups")
    /\ LET id == scall[c].req.id
       IN  \/ /\ ScimTo(c, [pc |-> "DeleteRelations", who |-> {<<id, scall[c].u.ext>>}, del |->
                    UNION {memberTuples([i \in {id} |-> scall[c].u.ext], {id}, sgroup[g].fga) :
                           g \in {h \in Rows(sgroup) : id \in sgroup[h].members}}])
              /\ UNCHANGED <<storesVars, wish>>
           \/ Fails(c)
    /\ UNCHANGED scimWorld

\* DeleteUser: the row and its memberships go in one transaction.
DeleteUser(c) ==
    /\ ScimAt(c, "DeleteUser")
    /\ LET id == scall[c].req.id
       IN  \/ /\ suser' = [suser EXCEPT ![id] = Gone]
              /\ sgroup' = [g \in Gids |->
                    IF g \in Rows(sgroup)
                    THEN [sgroup[g] EXCEPT !.members = @ \ {id}] ELSE sgroup[g]]
              /\ Answer(c, "done")
              /\ UNCHANGED <<block, member, granted>>
           \/ Fails(c)
    /\ UNCHANGED scimWorld

-----------------------------------------------------------------------------
(* Groups *)

\* subjects: every member id must be a provisioned user.
subjects(ids) == [i \in ids |-> suser[i].ext]

\* groupInUse: some tuple names the group as an object.  The grants that name
\* it as a subject are read after that.
groupInUse(g) == \E t \in member : t[2] = g

createGroup(c) ==
    /\ ScimAt(c, "createGroup")
    /\ LET req == scall[c].req
           g   == FGAGroupName(req.display)
       IN  \/ /\ req.members \subseteq Rows(suser)
              /\ ScimTo(c, [pc |-> "groupInUse", fga |-> g, add |-> req.members,
                            who |-> Who(req.members),
                            pre |-> groupInUse(g) \/ g \in granted])
              /\ UNCHANGED <<storesVars, wish>>
           \/ /\ ~(req.members \subseteq Rows(suser))
              /\ Answer(c, "refused") /\ UNCHANGED storesVars
           \/ Fails(c)
    /\ UNCHANGED scimWorld

ReadObjectTuples(c) ==
    /\ ScimAt(c, "groupInUse")
    /\ IF groupInUse(scall[c].fga) THEN Answer(c, "refused")
       ELSE ScimTo(c, [pc |-> "groupGranted"]) /\ UNCHANGED wish
    /\ UNCHANGED <<scimWorld, storesVars>>

ReadGrants(c) ==
    /\ ScimAt(c, "groupGranted")
    /\ IF scall[c].fga \in granted THEN Answer(c, "refused")
       ELSE ScimTo(c, [pc |-> "CreateGroup"]) /\ UNCHANGED wish
    /\ UNCHANGED <<scimWorld, storesVars>>

\* CreateGroup: the row first; fga_group is unique in the tenant.
CreateGroup(c) ==
    /\ ScimAt(c, "CreateGroup")
    /\ LET g == scall[c].fga
           taken == \E h \in Rows(sgroup) : sgroup[h].fga = g
       IN  \/ /\ ~taken /\ HasFresh(sgroup)
              /\ sgroup' = [sgroup EXCEPT ![Fresh(sgroup)] = GroupRow(g, scall[c].req.members)]
              /\ ScimTo(c, [pc |-> "writeMembers", gid |-> Fresh(sgroup), drop |-> {}])
              /\ wish' = [wish EXCEPT !.adopted = @ \cup (IF scall[c].pre THEN {g} ELSE {})]
              /\ UNCHANGED <<suser, block, member, granted>>
           \/ taken /\ Answer(c, "refused") /\ UNCHANGED storesVars
           \/ Fails(c)
    /\ UNCHANGED scimWorld

\* patchGroupOp on the members.
patchGroupOp(m, req) ==
    CASE req.kind = "add" -> m \cup req.members
      [] req.kind = "replace" -> req.members
      [] req.kind = "remove" -> IF req.members = {} THEN {} ELSE m \ req.members

(* Mutant: members that left are not dropped. *)
diffAdded(prev, next) == [add |-> next \ prev, drop |-> {}]

diff(prev, next) == [add |-> next \ prev, drop |-> prev \ next]

\* saveGroup starts from the row read and the members it should have.
saveGroup(c, next) ==
    LET g == sgroup[scall[c].req.id]
        d == diff(g.members, next)
    IN  ScimTo(c, d @@ [pc |-> "writeMembers", fga |-> g.fga, gid |-> scall[c].req.id,
                        next |-> next, who |-> Who((g.members \ next) \cup (next \ g.members))])

putGroup(c) ==
    /\ ScimAt(c, "putGroup")
    /\ IF getGroup(scall[c].req.id)
       THEN saveGroup(c, scall[c].req.members) /\ UNCHANGED wish
       ELSE Answer(c, "refused")
    /\ UNCHANGED <<scimWorld, storesVars>>

patchGroup(c) ==
    /\ ScimAt(c, "patchGroup")
    /\ LET req == scall[c].req
       IN  IF getGroup(req.id)
           THEN saveGroup(c, patchGroupOp(sgroup[req.id].members, req)) /\ UNCHANGED wish
           ELSE Answer(c, "refused")
    /\ UNCHANGED <<scimWorld, storesVars>>

deleteGroup(c) ==
    /\ ScimAt(c, "deleteGroup")
    /\ LET id == scall[c].req.id
       IN  IF getGroup(id)
           THEN /\ ScimTo(c, [pc |-> "writeMembers", fga |-> sgroup[id].fga, gid |-> id,
                              add |-> {}, drop |-> sgroup[id].members,
                              who |-> Who(sgroup[id].members)])
                /\ UNCHANGED wish
           ELSE Answer(c, "refused")
    /\ UNCHANGED <<scimWorld, storesVars>>

\* A failure of writeMembers ends the call; createGroup first takes its row
\* back.
WriteFails(c) ==
    IF scall[c].req.op = "createGroup"
    THEN ScimTo(c, [pc |-> "rollback"]) /\ UNCHANGED wish
    ELSE Answer(c, "error")

\* writeMembers: every id must still be a provisioned user, then the added
\* tuples are written and the removed ones deleted.
writeMembers(c) ==
    /\ ScimAt(c, "writeMembers")
    /\ LET ids == scall[c].add \cup scall[c].drop
       IN  \/ /\ ids \subseteq Rows(suser)
              /\ ScimTo(c, [pc  |-> "WriteRelations",
                            wr  |-> memberTuples(subjects(ids), scall[c].add, scall[c].fga),
                            del |-> memberTuples(subjects(ids), scall[c].drop, scall[c].fga)])
              /\ UNCHANGED wish
           \/ (~(ids \subseteq Rows(suser)) \/ scimWorld.faulty) /\ WriteFails(c)
    /\ UNCHANGED <<scimWorld, storesVars>>

\* WriteRelations, one tuple per request; a tuple that exists counts as
\* written.  A failed request may have been applied.
WriteRelations(c) ==
    /\ ScimAt(c, "WriteRelations")
    /\ IF scall[c].wr = {}
       THEN ScimTo(c, [pc |-> "DeleteRelations"]) /\ UNCHANGED <<member, wish>>
       ELSE LET t == CHOOSE x \in scall[c].wr : TRUE
            IN  \/ /\ member' = member \cup {t}
                   /\ ScimTo(c, [wr |-> scall[c].wr \ {t}]) /\ UNCHANGED wish
                \/ /\ scimWorld.faulty /\ WriteFails(c)
                   /\ member' \in {member, member \cup {t}}
    /\ UNCHANGED <<scimWorld, suser, sgroup, block, granted>>

\* The last store request of a handler that changes memberships.
LastRequest(op) ==
    CASE op = "createGroup" -> "created"
      [] op = "deleteGroup" -> "DeleteGroup"
      [] op = "deleteUser"  -> "DeleteUser"
      [] OTHER -> "UpdateGroup"

\* DeleteRelations: a tuple that does not exist counts as deleted.
DeleteRelations(c) ==
    /\ ScimAt(c, "DeleteRelations")
    /\ IF scall[c].del = {}
       THEN ScimTo(c, [pc |-> LastRequest(scall[c].req.op)]) /\ UNCHANGED <<member, wish>>
       ELSE LET t == CHOOSE x \in scall[c].del : TRUE
            IN  \/ /\ member' = member \ {t}
                   /\ ScimTo(c, [del |-> scall[c].del \ {t}]) /\ UNCHANGED wish
                \/ /\ scimWorld.faulty /\ Answer(c, "error")
                   /\ member' \in {member, member \ {t}}
    /\ UNCHANGED <<scimWorld, suser, sgroup, block, granted>>

GroupCreated(c) ==
    /\ ScimAt(c, "created") /\ Answer(c, "done")
    /\ UNCHANGED <<scimWorld, storesVars>>

\* createGroup's rollback deletes the row; its own failure is only logged.
RollbackGroup(c) ==
    /\ ScimAt(c, "rollback") /\ Answer(c, "error")
    /\ sgroup' \in {[sgroup EXCEPT ![scall[c].gid] = Gone]}
                   \cup (IF scimWorld.faulty THEN {sgroup} ELSE {})
    /\ UNCHANGED <<scimWorld, suser, block, member, granted>>

UpdateGroup(c) ==
    /\ ScimAt(c, "UpdateGroup")
    /\ \/ /\ scall[c].gid \in Rows(sgroup)
          /\ sgroup' = [sgroup EXCEPT ![scall[c].gid].members = scall[c].next]
          /\ Answer(c, "done") /\ UNCHANGED <<suser, block, member, granted>>
       \/ /\ scall[c].gid \notin Rows(sgroup)
          /\ Answer(c, "error") /\ UNCHANGED storesVars
       \/ Fails(c)
    /\ UNCHANGED scimWorld

DeleteGroup(c) ==
    /\ ScimAt(c, "DeleteGroup")
    /\ \/ /\ sgroup' = [sgroup EXCEPT ![scall[c].gid] = Gone]
          /\ Answer(c, "done") /\ UNCHANGED <<suser, block, member, granted>>
       \/ Fails(c)
    /\ UNCHANGED scimWorld

-----------------------------------------------------------------------------
(* The tenant's admins *)

\* An admin blocks a user.  A reactivation that has already read the blocks
\* and is about to lift this one is noted.
AdminBlocks(s) ==
    /\ "block" \in scimWorld.admin
    /\ block' = Block(s, "admin")
    /\ wish' = [wish EXCEPT !.blocked = @ \cup {s},
         !.raced = @ \cup {x \in {s} : \E c \in ScimCalls :
             ScimAt(c, "UnblockUser") /\ x \in Range(scall[c].todo)}]
    /\ UNCHANGED <<scimWorld, suser, sgroup, member, granted, scall>>

AdminUnblocks(s) ==
    /\ "unblock" \in scimWorld.admin
    /\ block' = [block EXCEPT ![s] = "none"]
    /\ wish' = [wish EXCEPT !.blocked = @ \ {s}, !.raced = @ \ {s}, !.down = @ \ {s}]
    /\ scall' = [c \in ScimCalls |-> Contested(c)]
    /\ UNCHANGED <<scimWorld, suser, sgroup, member, granted>>

\* An admin's role assignment puts a group to use, as an object or in a grant.
AdminAssigns(s, g) ==
    /\ "assign" \in scimWorld.admin
    /\ member' = member \cup {<<s, g>>}
    /\ wish' = [wish EXCEPT !.drift[g] = Lost]
    /\ UNCHANGED <<scimWorld, suser, sgroup, block, granted, scall>>

AdminGrants(g) ==
    /\ "assign" \in scimWorld.admin
    /\ granted' = granted \cup {g}
    /\ UNCHANGED <<scimWorld, suser, sgroup, block, member, scall, wish>>

-----------------------------------------------------------------------------
ScimInit ==
    /\ scimWorld \in ScimWorlds
    /\ suser = [i \in Uids |-> IF i \in DOMAIN scimWorld.users THEN scimWorld.users[i] ELSE Unborn]
    /\ sgroup = [g \in Gids |-> IF g \in DOMAIN scimWorld.groups THEN scimWorld.groups[g] ELSE Unborn]
    /\ block = [s \in scimWorld.subjects |->
                  IF \E i \in Rows(suser) : ~suser[i].active /\ s \in Range(subjectForms(suser[i].ext))
                  THEN "scim" ELSE "none"]
    /\ member = UNION {memberTuples(subjects(sgroup[g].members), sgroup[g].members, sgroup[g].fga) :
                       g \in Rows(sgroup)}
    /\ granted = {}
    /\ scall = [c \in ScimCalls |-> IdleScim]
    /\ wish = [blocked |-> {}, raced |-> {}, down |-> {}, adopted |-> {},
               drift |-> [g \in Range(Slugs) |-> NoDrift], blur |-> [g \in Range(Slugs) |-> {}]]

ScimStep(c) ==
    \/ AskScim(c)
    \/ createUser(c) \/ putUser(c) \/ patchUser(c) \/ deleteUser(c)
    \/ BlockUser(c) \/ UserBlocks(c) \/ UnblockUser(c)
    \/ CreateUser(c) \/ UpdateUser(c) \/ ListGroups(c) \/ DeleteUser(c)
    \/ createGroup(c) \/ ReadObjectTuples(c) \/ ReadGrants(c) \/ CreateGroup(c)
    \/ putGroup(c) \/ patchGroup(c) \/ deleteGroup(c) \/ writeMembers(c)
    \/ WriteRelations(c) \/ DeleteRelations(c) \/ GroupCreated(c)
    \/ RollbackGroup(c) \/ UpdateGroup(c) \/ DeleteGroup(c)

AdminStep ==
    \/ \E s \in DOMAIN block : AdminBlocks(s) \/ AdminUnblocks(s)
    \/ \E g \in Range(Slugs) : AdminGrants(g) \/ \E s \in DOMAIN block : AdminAssigns(s, g)

ScimNext == (\E c \in ScimCalls : ScimStep(c)) \/ AdminStep
ScimSpec == ScimInit /\ [][ScimNext]_scimVars

-----------------------------------------------------------------------------
Quiet == \A c \in ScimCalls : ~InCall(c)

\* Blocks hold.  An admin's outlives every reactivation by the identity
\* provider, also when it was set on a user SCIM had blocked already, as long
\* as it was not set between a reactivation's read of the blocks and its
\* UnblockUser.  And once the provider is told that a user is deactivated or
\* deleted, the subject its tokens carry stays blocked until the provider sends
\* a request that reactivates the user or an admin lifts the block: whatever
\* else the provider does and whatever fails meanwhile.
BlocksHold ==
    /\ \A s \in wish.blocked \ wish.raced : block[s] = "admin"
    /\ \A s \in wish.down : block[s] # "none"

\* Between calls, a user whose row is inactive is blocked: "Users.active=false
\* sets the AG-06 user block" (scim.go), "a failure leaves no active user
\* behind" (createUser).
InactiveUsersAreBlocked ==
    Quiet => \A i \in Rows(suser) :
        ~suser[i].active => block[canonicalSubject(suser[i].ext)] # "none"

\* SCIM creates no group over a name that an admin, a rule or a grant was using
\* when the request came in; and between calls, the membership tuples of a group
\* are those of the members of its row, each on every form of the subject,
\* unless a failed request on the group has been followed by a different one:
\* repeating a failed change or deletion until it succeeds brings the row and
\* the tuples together.  Requests that overlap - each writes the whole row from
\* the one it read, and nothing locks the group - confuse only the users whose
\* membership one of them changes, and those only until a request that overlaps
\* no other adds or removes them.
SettledMembershipsMatch ==
    /\ wish.adopted = {}
    /\ Quiet => \A g \in Rows(sgroup) :
        LET r == sgroup[g]
            clear == r.members \ {w[1] : w \in wish.blur[r.fga]}
            blurred == UNION {Range(subjectForms(w[2])) : w \in wish.blur[r.fga]}
        IN  wish.drift[r.fga] = NoDrift =>
                /\ clear \subseteq Rows(suser)
                /\ {t \in member : t[2] = r.fga /\ t[1] \notin blurred} =
                      {t \in memberTuples(subjects(clear), clear, r.fga) : t[1] \notin blurred}
=============================================================================
