------------------------------- MODULE Agents -------------------------------
(***************************************************************************)
(* The agent registry: one registered agent "a" and the tenant default     *)
(* agent "d", each a row in Postgres and a set of OpenFGA tuples that say  *)
(* who owns it, who may use it and which MCP connectors it may reach.      *)
(*                                                                         *)
(* The two stores share no transaction.  Every RPC is a call with a step   *)
(* per statement or request, so that two admins, a user, the orphan sweep  *)
(* and a starting broker interleave between them.  OpenFGA writes add to a *)
(* set and deletes take from it: writeTuples retries a rejected batch one  *)
(* tuple at a time and takes "already there" and "not there" for success.  *)
(***************************************************************************)
EXTENDS Naturals, FiniteSets

CONSTANTS
  Users,
  Conns,          \* MCP connectors
  Calls,          \* calls in flight
  Grace,          \* identity.orphan_grace_days
  AgentWorlds          \* bound: the RPCs of a behaviour and the rows it starts with

VARIABLES
  agentWorld,          \* the member of AgentWorlds this behaviour is about
  today,
  row,            \* row[x]: the agents row of x
  defaults,       \* number of rows with is_default
  owners,         \* owners[x]: subjects of owner_user and owner_group tuples
  usable,         \* usable[x]: subjects of usable_by tuples; "*" is user:*
  permitted,      \* permitted[x]: connectors with a permitted_agent tuple
  blockedAt,      \* blockedAt[u]: day user u was blocked, 0 if not
  pref,           \* pref[u]: user_default_agents, "" if no row
  statusCache,    \* revocation.Checker on the replica that resolves runs
  call,           \* call[p]
  ghost           \* what the properties remember of each call

regVars == <<row, defaults, owners, usable, permitted, blockedAt, pref>>
agentVars == <<agentWorld, today, regVars, statusCache, call, ghost>>

Ids == {"a", "d"}
Group == "group"
NoCall == [op |-> "none", pc |-> "idle"]

To(p, pc) == call' = [call EXCEPT ![p].pc = pc]
End(p) == call' = [call EXCEPT ![p] = NoCall]
At(p, op, pc) == call[p].op = op /\ call[p].pc = pc
Start(p, rec) == /\ call[p] = NoCall
                 /\ rec.op \in agentWorld.ops
                 /\ call' = [call EXCEPT ![p] = rec]

(* agentOrphaned: no owner, or every owner a blocked user; a group is live. *)
agentOrphaned(own, blocks) == \A o \in own : o # Group /\ blocks[o] > 0
LiveOwners(x) == {o \in owners[x] : o = Group \/ blockedAt[o] = 0}

(* can_use: usable_by or owner.  Membership of the group is left open by   *)
(* letting both outcomes of a group grant happen (agentWorld.members).          *)
MayOperate(u, x) ==
  \/ {u, "*"} \cap (usable[x] \cup owners[x]) # {}
  \/ u \in agentWorld.members /\ Group \in usable[x] \cup owners[x]

-----------------------------------------------------------------------------
(***************************************************************************)
(* CreateAgent: the staged row, then the connector and owner tuples.  An   *)
(* id is never used again.                                                 *)
(***************************************************************************)
CreateAgent(p, u, s) ==
  /\ row["a"].there = "never"
  /\ Start(p, [op |-> "create", pc |-> "grant", old |-> {}, s |-> s, u |-> u])
  /\ row' = [row EXCEPT !["a"] = [there |-> "yes", status |-> "staged",
                                  servers |-> s, creator |-> u, made |-> today]]
  /\ UNCHANGED <<defaults, owners, usable, permitted, blockedAt, pref>>

CreateGrant(p) ==
  /\ At(p, "create", "grant")
  /\ permitted' = [permitted EXCEPT !["a"] = @ \cup call[p].s]
  /\ owners' = [owners EXCEPT !["a"] = @ \cup {call[p].u}]
  /\ End(p)
  /\ UNCHANGED <<row, defaults, usable, blockedAt, pref>>

(***************************************************************************)
(* UpdateAgent: the old connector list is read, the row replaced, and the  *)
(* tuples reconciled by the difference of the two lists.                   *)
(***************************************************************************)
UpdateRead(p, s) ==
  /\ row["a"].there = "yes"
  /\ Start(p, [op |-> "update", pc |-> "write", s |-> s, old |-> row["a"].servers])
  /\ UNCHANGED regVars

UpdateWrite(p) ==
  /\ At(p, "update", "write")
  /\ IF row["a"].there = "yes"
       THEN row' = [row EXCEPT !["a"].servers = call[p].s] /\ To(p, "grant")
       ELSE UNCHANGED row /\ End(p)
  /\ UNCHANGED <<defaults, owners, usable, permitted, blockedAt, pref>>

(* Mutant: only what was added is reconciled. *)
DiffAddedOnly(old, new) == [added |-> new \ old, removed |-> {}]

diffMcpServers(old, new) == [added |-> new \ old, removed |-> old \ new]

UpdateGrant(p) ==
  /\ At(p, "update", "grant")
  /\ permitted' = [permitted EXCEPT !["a"] =
                     @ \cup diffMcpServers(call[p].old, call[p].s).added]
  /\ To(p, "revoke")
  /\ UNCHANGED <<row, defaults, owners, usable, blockedAt, pref>>

UpdateRevoke(p) ==
  /\ At(p, "update", "revoke")
  /\ permitted' = [permitted EXCEPT !["a"] =
                     @ \ diffMcpServers(call[p].old, call[p].s).removed]
  /\ End(p)
  /\ UNCHANGED <<row, defaults, owners, usable, blockedAt, pref>>

(***************************************************************************)
(* DeleteAgent: never the default agent; settings naming the agent go with *)
(* the row, its tuples afterwards, best effort.  A failed read of the row  *)
(* is logged only: the deletion goes on and knows no tuples.               *)
(***************************************************************************)
DeleteRead(p) ==
  /\ row["a"].there = "yes"
  /\ \E known \in BOOLEAN :
       Start(p, [op |-> "delete", pc |-> "delete", known |-> known, s |-> {},
                 old |-> IF known THEN row["a"].servers ELSE {},
                 u |-> IF known THEN row["a"].creator ELSE ""])
  /\ UNCHANGED regVars

DeleteRow(p) ==
  /\ At(p, "delete", "delete")
  /\ IF row["a"].there = "yes"
       THEN /\ row' = [row EXCEPT !["a"].there = "gone"]
            /\ pref' = [u \in Users |-> ""]
            /\ To(p, "clean")
       ELSE UNCHANGED <<row, pref>> /\ End(p)
  /\ UNCHANGED <<defaults, owners, usable, permitted, blockedAt>>

DeleteClean(p) ==
  /\ At(p, "delete", "clean")
  /\ permitted' = [permitted EXCEPT !["a"] = @ \ call[p].old]
  /\ owners' = [owners EXCEPT !["a"] = @ \ {call[p].u}]
  /\ End(p)
  /\ UNCHANGED <<row, defaults, usable, blockedAt, pref>>

(* OpenFGA or Postgres fails, or the broker stops: the call goes no        *)
(* further.  One that only reads before its last step may as well not      *)
(* have been made.                                                         *)
Fails(p) ==
  /\ call[p].op \in {"create", "update", "delete", "ensure"}
  /\ IF call[p].pc = "failed" THEN End(p) ELSE To(p, "failed")
  /\ UNCHANGED regVars

-----------------------------------------------------------------------------
(***************************************************************************)
(* AssignRole and RevokeRole.  validateManagedObject refuses the wildcard  *)
(* subject either way; the last owner of record is kept.                   *)
(***************************************************************************)
Assignable == Users \cup {Group}

AssignRole(x, rel, o) ==
  /\ "roles" \in agentWorld.ops
  /\ o \in Assignable /\ <<rel, o>> \in agentWorld.roles
  /\ \/ rel = "owner" /\ owners' = [owners EXCEPT ![x] = @ \cup {o}] /\ UNCHANGED usable
     \/ rel = "usable" /\ usable' = [usable EXCEPT ![x] = @ \cup {o}] /\ UNCHANGED owners
  /\ UNCHANGED <<row, defaults, permitted, blockedAt, pref, call>>

refuseLastAgentOwner(own, o) == own # {o}

RevokeOwner(p, o) ==
  /\ row["a"].there = "yes" /\ o \in owners["a"]
  /\ refuseLastAgentOwner(owners["a"], o)
  /\ Start(p, [op |-> "unown", pc |-> "delete", u |-> o])
  /\ UNCHANGED regVars

RevokeOwnerTuple(p) ==
  /\ At(p, "unown", "delete")
  /\ owners' = [owners EXCEPT !["a"] = @ \ {call[p].u}]
  /\ End(p)
  /\ UNCHANGED <<row, defaults, usable, permitted, blockedAt, pref>>

RevokeUsable(x, o) ==
  /\ "roles" \in agentWorld.ops
  /\ o \in Assignable /\ <<"usable", o>> \in agentWorld.roles
  /\ usable' = [usable EXCEPT ![x] = @ \ {o}]
  /\ UNCHANGED <<row, defaults, owners, permitted, blockedAt, pref, call>>

(* The wildcard grant can only be taken away in OpenFGA itself. *)
NarrowDefault ==
  /\ "roles" \in agentWorld.ops
  /\ usable' = [usable EXCEPT !["d"] = @ \ {"*"}]
  /\ UNCHANGED <<row, defaults, owners, permitted, blockedAt, pref, call>>

(* BackfillAgentOwners: the creator of an agent without an owner tuple. *)
BackfillRead(p) ==
  /\ row["a"].there = "yes" /\ owners["a"] = {}
  /\ Start(p, [op |-> "backfill", pc |-> "write", u |-> row["a"].creator])
  /\ UNCHANGED regVars

BackfillWrite(p) ==
  /\ At(p, "backfill", "write")
  /\ owners' = [owners EXCEPT !["a"] = @ \cup {call[p].u}]
  /\ End(p)
  /\ UNCHANGED <<row, defaults, usable, permitted, blockedAt, pref>>

SetUserBlocked(u) ==
  /\ "block" \in agentWorld.ops
  /\ blockedAt' = [blockedAt EXCEPT ![u] = IF @ = 0 THEN today ELSE 0]
  /\ UNCHANGED <<row, defaults, owners, usable, permitted, pref, call>>

-----------------------------------------------------------------------------
(***************************************************************************)
(* SetAgentStatus: activation reads the owners, then the blocks; the write *)
(* holds only if the status is still the one read.  Whatever came of it,   *)
(* the replica that wrote then drops its cached answers.                   *)
(***************************************************************************)
Transition(from, to) ==
  \/ from \in {"staged", "suspended"} /\ to = "active"
  \/ from = "active" /\ to = "suspended"
  \/ from # "retired" /\ to = "retired"

StatusRead(p, x, to, here) ==
  /\ row[x].there = "yes"
  /\ Transition(row[x].status, to)
  /\ x = "d" => to # "retired"
  /\ Start(p, [op |-> "status", pc |-> IF to = "active" /\ x # "d" THEN "owners" ELSE "cas",
               x |-> x, from |-> row[x].status, to |-> to, own |-> {},
               here |-> here])
  /\ UNCHANGED regVars

StatusOwners(p) ==
  /\ At(p, "status", "owners")
  /\ call' = [call EXCEPT ![p].own = owners[call[p].x], ![p].pc = "blocks"]
  /\ UNCHANGED regVars

requireLiveOwner(p) ==
  /\ At(p, "status", "blocks")
  /\ IF agentOrphaned(call[p].own, blockedAt) THEN End(p) ELSE To(p, "cas")
  /\ UNCHANGED regVars

Written(p) == IF call[p].here THEN To(p, "reset") ELSE End(p)

StatusCas(p) ==
  LET c == call[p]
  IN /\ At(p, "status", "cas")
     /\ row' = IF row[c.x].there = "yes" /\ row[c.x].status = c.from
                 THEN [row EXCEPT ![c.x].status = c.to] ELSE row
     /\ Written(p)
     /\ UNCHANGED <<defaults, owners, usable, permitted, blockedAt, pref>>

(***************************************************************************)
(* SweepOrphanedAgents: the rows, the blocks, then the tuples of each      *)
(* active agent; the default agent is exempt.                              *)
(***************************************************************************)
SweepRead(p, here) ==
  /\ row["a"].there = "yes" /\ row["a"].status = "active"
  /\ Start(p, [op |-> "sweep", pc |-> "blocks", made |-> row["a"].made,
               day |-> today, blocks |-> blockedAt, here |-> here])
  /\ UNCHANGED regVars

SweepBlocks(p) ==
  /\ At(p, "sweep", "blocks")
  /\ call' = [call EXCEPT ![p].blocks = blockedAt, ![p].pc = "tuples"]
  /\ UNCHANGED regVars

(* Mutant: one blocked owner makes an orphan. *)
OrphanedSinceAny(own, blocks, made) ==
  {IF own = {} THEN made ELSE blocks[o] : o \in {q \in own : q # Group /\ blocks[q] > 0}}

(* The days the orphan clock may start: the creation of an agent without   *)
(* owners, the latest block of one whose owners are all blocked.           *)
OrphanedSince(own, blocks, made) ==
  CASE own = {} -> {made}
    [] own # {} /\ agentOrphaned(own, blocks) ->
         {blocks[o] : o \in {q \in own : \A r \in own : blocks[r] <= blocks[q]}}
    [] OTHER -> {}

SweepTuples(p) ==
  LET c == call[p]
      since == OrphanedSince(owners["a"], c.blocks, c.made)
  IN /\ At(p, "sweep", "tuples")
     /\ IF \E t \in since : c.day >= t + Grace THEN To(p, "cas") ELSE End(p)
     /\ UNCHANGED regVars

SweepCas(p) ==
  /\ At(p, "sweep", "cas")
  /\ row' = IF row["a"].there = "yes" /\ row["a"].status = "active"
              THEN [row EXCEPT !["a"].status = "suspended"] ELSE row
  /\ Written(p)
  /\ UNCHANGED <<defaults, owners, usable, permitted, blockedAt, pref>>

-----------------------------------------------------------------------------
InsertDefault == defaults' = IF defaults = 0 THEN 1 ELSE defaults

EnsureRead(p, repair) ==
  /\ Start(p, [op |-> "ensure", pc |-> "insert", repair |-> repair])
  /\ UNCHANGED regVars

EnsureDefault(p) ==
  /\ At(p, "ensure", "insert")
  /\ InsertDefault
  /\ row' = IF defaults = 0
              THEN [row EXCEPT !["d"] = [there |-> "yes", status |-> "active",
                     servers |-> {}, creator |-> "", made |-> today]]
              ELSE row
  /\ IF defaults = 0 \/ call[p].repair THEN To(p, "tuples") ELSE End(p)
  /\ UNCHANGED <<owners, usable, permitted, blockedAt, pref>>

RepairNeeded(p) == IF usable["d"] = {} THEN To(p, "grant") ELSE End(p)

EnsureTuples(p) ==
  /\ At(p, "ensure", "tuples")
  /\ RepairNeeded(p)
  /\ UNCHANGED regVars

EnsureGrant(p) ==
  /\ At(p, "ensure", "grant")
  /\ usable' = [usable EXCEPT !["d"] = @ \cup {"*"}]
  /\ End(p)
  /\ UNCHANGED <<row, defaults, owners, permitted, blockedAt, pref>>

(***************************************************************************)
(* runAgent, for ResolveRunAgent and SetMyDefaultAgent: the block, then    *)
(* the setting if no agent is named, then row, can_use and status of each  *)
(* candidate.  A setting that fails falls back to the default agent.       *)
(***************************************************************************)
Resolve(p, u, x, kind) ==
  /\ Start(p, [op |-> kind, pc |-> IF x = "" THEN "pref" ELSE "operate",
               u |-> u, x |-> x, own |-> x = "", st |-> ""])
  /\ kind = "run" => blockedAt[u] = 0
  /\ kind = "setpref" => x # ""
  /\ UNCHANGED regVars

ReadPref(p) ==
  /\ call[p].pc = "pref"
  /\ call' = [call EXCEPT ![p].pc = "operate",
                          ![p].x = IF pref[call[p].u] = "" THEN "d" ELSE pref[call[p].u]]
  /\ UNCHANGED regVars

(* A candidate of the user's own setting falls back, a named one refuses. *)
Miss(p) ==
  IF call[p].own /\ call[p].x # "d"
    THEN call' = [call EXCEPT ![p].x = "d", ![p].pc = "operate"]
    ELSE End(p)

mayOperateActor(p) ==
  LET c == call[p]
  IN /\ c.pc = "operate"
     /\ IF row[c.x].there = "yes" /\ MayOperate(c.u, c.x)
          THEN To(p, "runnable") ELSE Miss(p)
     /\ UNCHANGED regVars

(***************************************************************************)
(* The status is asked through revocation.Checker: a cached one answers,   *)
(* else it is loaded, and cached unless a write on this replica was done   *)
(* meanwhile.  How old a cached answer may be is RevocationCache's matter: *)
(* here an entry expires at any time, and so does one still being loaded.  *)
(* A load that fails ends the call.                                        *)
(***************************************************************************)
NoStatuses == [entry |-> [x \in Ids |-> ""], loads |-> {}]

(* Mutant: only a named agent has its status asked. *)
activeIfNamed(p, st) == call[p].own \/ st = "active"

agentRunRefusal(p, st) == st = "active"

runnable(p, st) ==
  IF agentRunRefusal(p, st) THEN To(p, "bound") ELSE Miss(p)

StatusLookup(p) ==
  LET x == call[p].x
      hit == statusCache.entry[x]
  IN /\ call[p].pc = "runnable"
     /\ \/ hit # "" /\ runnable(p, hit) /\ UNCHANGED statusCache
        \/ /\ hit = ""
           /\ call' = [call EXCEPT ![p].pc = "loaded", ![p].st =
                         IF row[x].there = "yes" THEN row[x].status ELSE "missing"]
           /\ statusCache' = [statusCache EXCEPT !.loads = @ \cup {p}]
     /\ UNCHANGED regVars

StatusLoaded(p) ==
  LET c == call[p]
  IN /\ c.pc = "loaded"
     /\ statusCache' = IF p \in statusCache.loads
                         THEN [entry |-> [statusCache.entry EXCEPT ![c.x] = c.st],
                               loads |-> statusCache.loads \ {p}]
                         ELSE statusCache
     /\ runnable(p, c.st)
     /\ UNCHANGED regVars

StatusReset(p) ==
  /\ call[p].pc = "reset"
  /\ statusCache' = NoStatuses
  /\ End(p)
  /\ UNCHANGED regVars

StatusExpires(x) ==
  /\ statusCache.entry[x] # ""
  /\ statusCache' = [statusCache EXCEPT !.entry[x] = ""]
  /\ UNCHANGED <<regVars, call>>

(* The agent is returned to the gateway, or stored as the setting; the     *)
(* foreign key refuses a row that is gone.                                 *)
Bind(p) ==
  LET c == call[p]
  IN /\ c.pc = "bound"
     /\ pref' = IF c.op = "setpref" /\ row[c.x].there = "yes"
                  THEN [pref EXCEPT ![c.u] = IF c.x = "d" THEN "" ELSE c.x]
                  ELSE pref
     /\ End(p)
     /\ UNCHANGED <<row, defaults, owners, usable, permitted, blockedAt>>

-----------------------------------------------------------------------------
NoRow == [there |-> "never", status |-> "", servers |-> {}, creator |-> "", made |-> 0]

(* What the properties remember.  torn: the connectors that calls which    *)
(* overlapped or failed were changing.  lately: the agents active at some  *)
(* moment since their cached status began to be loaded.  Of a call: live,  *)
(* who has been a live owner since it began; still, that owners and blocks *)
(* have not changed since; could and ran, the agents its user could        *)
(* operate and that were active, or lately were, at some moment.           *)
NoGhost == [live |-> {}, still |-> TRUE, could |-> {}, ran |-> {}]

AgentsInit ==
  /\ agentWorld \in AgentWorlds
  /\ today = 1
  /\ row = agentWorld.row
  /\ defaults = IF agentWorld.row["d"].there = "yes" THEN 1 ELSE 0
  /\ owners = [x \in Ids |-> IF x = "a" THEN agentWorld.owners ELSE {}]
  /\ usable = [x \in Ids |-> IF x = "d" THEN agentWorld.usable ELSE {}]
  /\ permitted = [x \in Ids |-> {}]
  /\ blockedAt = [u \in Users |-> 0]
  /\ pref = [u \in Users |-> agentWorld.pref]
  /\ call = [p \in Calls |-> NoCall]
  /\ statusCache = NoStatuses
  /\ ghost = [torn |-> {},
              lately |-> {x \in Ids : row[x].status = "active"},
              calls |-> [p \in Calls |-> NoGhost]]

Registry ==
  \E p \in Calls :
    \/ \E u \in agentWorld.users, s \in SUBSET Conns : CreateAgent(p, u, s)
    \/ \E s \in SUBSET Conns : UpdateRead(p, s)
    \/ CreateGrant(p) \/ UpdateWrite(p) \/ UpdateGrant(p) \/ UpdateRevoke(p)
    \/ DeleteRead(p) \/ DeleteRow(p) \/ DeleteClean(p) \/ Fails(p)

Ownership ==
  \/ \E x \in agentWorld.objects, o \in Users \cup {Group} :
       \E rel \in {"owner", "usable"} : AssignRole(x, rel, o)
  \/ \E x \in agentWorld.objects, o \in Users \cup {Group} : RevokeUsable(x, o)
  \/ \E u \in Users : SetUserBlocked(u)
  \/ \E p \in Calls :
       \/ \E o \in Users \cup {Group} : RevokeOwner(p, o)
       \/ RevokeOwnerTuple(p) \/ BackfillRead(p) \/ BackfillWrite(p)
       \/ \E x \in agentWorld.objects, to \in {"active", "suspended", "retired"} :
            \E here \in agentWorld.here : StatusRead(p, x, to, here)
       \/ StatusOwners(p) \/ requireLiveOwner(p) \/ StatusCas(p)
       \/ \E here \in agentWorld.here : SweepRead(p, here)
       \/ SweepBlocks(p) \/ SweepTuples(p) \/ SweepCas(p)

DefaultAgent ==
  \/ NarrowDefault
  \/ \E p \in Calls :
       \/ \E r \in BOOLEAN : EnsureRead(p, r)
       \/ EnsureDefault(p) \/ EnsureTuples(p) \/ EnsureGrant(p)
       \/ \E u \in agentWorld.users, x \in {"", "a"}, k \in {"run", "setpref"} : Resolve(p, u, x, k)
       \/ ReadPref(p) \/ mayOperateActor(p) \/ Bind(p)

StatusSteps ==
  \/ \E p \in Calls : StatusLookup(p) \/ StatusLoaded(p) \/ StatusReset(p)
  \/ \E x \in Ids : StatusExpires(x)

NextDay == today < agentWorld.days /\ today' = today + 1 /\ UNCHANGED <<regVars, statusCache, call>>

InFlight == {p \in Calls : call[p].op \in {"create", "update", "delete"}}

(* The connectors a call grants or takes away; a deletion that could not   *)
(* read the row leaves them all.                                           *)
Regrants(c) ==
  IF c.op = "delete" /\ ~c.known THEN Conns ELSE (c.old \ c.s) \cup (c.s \ c.old)

Watch(p, c, d) ==
  LET g == IF c = NoCall
             THEN [NoGhost EXCEPT !.live = LiveOwners("a")'] ELSE ghost.calls[p]
      owns == d.op \in {"sweep", "status"}
      runs == c.op \in {"run", "setpref"}
      begins == c = NoCall /\ d.op \in {"run", "setpref"}
  IN [live |-> IF owns THEN g.live \cap LiveOwners("a")' ELSE {},
      still |-> owns => g.still /\ owners' = owners /\ blockedAt' = blockedAt,
      could |-> IF runs THEN g.could \cup {x \in Ids : MayOperate(c.u, x)} ELSE {},
      ran |-> IF runs THEN g.ran \cup {x \in Ids : row[x].status = "active"}
              ELSE IF begins THEN ghost.lately ELSE {}]

Remember ==
  ghost' =
    [torn |-> ghost.torn \cup
              UNION {Regrants(call'[p]) : p \in
                       {q \in InFlight' : \/ InFlight' # {q}
                                          \/ call'[q].pc = "failed"
                                          \/ call'[q].op = "delete" /\ ~call'[q].known}},
     lately |-> {x \in Ids :
                   \/ row'[x].status = "active"
                   \/ /\ x \in ghost.lately
                      /\ \/ statusCache'.entry[x] # ""
                         \/ \E p \in statusCache'.loads : call'[p].x = x},
     calls |-> [p \in Calls |-> Watch(p, call[p], call'[p])]]

AgentsNext ==
  /\ \/ (Registry \/ Ownership \/ DefaultAgent) /\ UNCHANGED <<today, statusCache>>
     \/ StatusSteps /\ UNCHANGED today
     \/ NextDay
  /\ Remember
  /\ UNCHANGED agentWorld

-----------------------------------------------------------------------------
(***************************************************************************)
(* Once no call is in flight, the connector grants of a live agent are the *)
(* connectors of its row, and a deleted agent has none, over any series of *)
(* creations, updates and deletions.  Excepted are exactly the connectors  *)
(* that a call was changing which overlapped another or stopped half way:  *)
(* the harm of either ends there (diffMcpServers, mcpPermittedAgentTuples).*)
(***************************************************************************)
GrantsFollowServers ==
  InFlight = {} =>
    \A c \in Conns \ ghost.torn :
      c \in permitted["a"] <=> row["a"].there = "yes" /\ c \in row["a"].servers

(***************************************************************************)
(* The orphan sweep suspends no agent that one and the same owner could    *)
(* answer for during all of the sweep, whatever owners come and go; and    *)
(* activation, while owners and blocks stand still, needs a live owner     *)
(* (requireLiveOwner, SweepOrphanedAgents).                                *)
(***************************************************************************)
StatusFollowsOwners ==
  [][\A p \in Calls :
       row'["a"].status # row["a"].status /\ call'[p] # call[p] =>
         /\ call[p].op = "sweep" => ghost.calls[p].live = {}
         /\ call[p].op = "status" /\ call[p].to = "active" /\ ghost.calls[p].still =>
              LiveOwners("a") # {}]_agentVars

(***************************************************************************)
(* The agent a run is bound to, named or from the user's setting or the    *)
(* fallback, was one its user could operate at some moment of the call,    *)
(* and was active at some moment of it or since the cached status that     *)
(* answered was loaded.  A status written on the replica that resolves     *)
(* the run is never missed by a call begun later, one written on another   *)
(* only for the life of a cached answer (runAgent, Checker.Agent).         *)
(***************************************************************************)
RunsBindUsableAgents ==
  \A p \in Calls :
    call[p].pc = "bound" => /\ call[p].x \in ghost.calls[p].could
                            /\ call[p].x \in ghost.calls[p].ran
=============================================================================
