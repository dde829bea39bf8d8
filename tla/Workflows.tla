----------------------------- MODULE Workflows -----------------------------
(***************************************************************************)
(* Versioned workflows: the RPCs of broker/internal/broker/                *)
(* service_workflows.go, their logic in broker/internal/workflowsvc and    *)
(* the rows of broker/internal/db/workflows.go, with the workflow schedules *)
(* that pin a version.                                                     *)
(*                                                                         *)
(* A handler reads the lineage on one connection, checks, and writes on    *)
(* another, so every RPC is a Load and later steps of a call.  A           *)
(* definition is its steps and whether Publish has merged the manifest     *)
(* computed from them; its hash is the definition.  Versions are the       *)
(* positions of a lineage's rows.                                          *)
(***************************************************************************)
EXTENDS Integers, Sequences, FiniteSets

CONSTANTS
    Users, Groups,
    Skilled,         \* users granted skill:workflows
    Operators,       \* users who may operate the agent a lineage is bound to
    Lineages,        \* 1..n, in the order they are created
    Calls,           \* RPCs in flight
    StepLists,       \* contents of definition_json
    KnownSteps,      \* those whose skills the registry resolves
    MaxVersion,      \* bound on the versions of a lineage
    MaxCalls         \* bound on the calls of a behaviour

ASSUME WorkflowAssumption ==
    /\ Lineages = 1..Cardinality(Lineages) /\ KnownSteps \subseteq StepLists
    /\ Skilled \subseteq Users /\ Operators \subseteq Users
    /\ MaxVersion \in Nat /\ MaxCalls \in Nat

VARIABLES
    fga,         \* whether OpenFGA is configured
    wf,          \* rows of each lineage; a lineage never created has none
    created,     \* how many lineages have been created
    reborn,      \* lineages that a call in flight has re-created after Delete
    rewritten,   \* those where a Publish in flight then replaced other steps
    pins,        \* workflow_version_pins: 0 is no pin
    member,      \* group membership in OpenFGA
    call,        \* the calls in flight
    made,        \* calls so far
    sched,       \* each user's workflow schedule
    reply       \* the last definition a read RPC returned

wfVars == <<fga, wf, created, reborn, rewritten, pins, member, call, made, sched, reply>>

None == "none"
NoCall == [op |-> None]
NoSched == [l |-> 0, v |-> 0, sha |-> None, confirmed |-> None]
NoReply == [to |-> None]

WorkflowInit ==
    /\ fga \in BOOLEAN
    /\ wf = [l \in Lineages |-> << >>] /\ created = 0
    /\ reborn = {} /\ rewritten = {}
    /\ pins = [u \in Users |-> [l \in Lineages |-> 0]]
    /\ member = Users \X Groups
    /\ call = [c \in Calls |-> NoCall] /\ made = 0
    /\ sched = [u \in Users |-> NoSched] /\ reply = NoReply

-----------------------------------------------------------------------------
(* GetCurrent: the highest approved version, 0 if there is none.           *)
CurrentVersion(l) ==
    LET ok == {v \in DOMAIN wf[l] : wf[l][v].appr = "approved"}
    IN  IF ok = {} THEN 0 ELSE CHOOSE v \in ok : \A w \in ok : w <= v

HasCurrent(l) == CurrentVersion(l) # 0
Current(l) == wf[l][CurrentVersion(l)]

(* workflowCallerNorth, workflowCallerSouth: the caller's identity is      *)
(* given, the skill gate is deny-by-default with OpenFGA.                  *)
WorkflowCaller(u) == fga => u \in Skilled

InGroup(u, gs) == \E g \in gs : <<u, g>> \in member

(* MayAccessWorkflow.                                                      *)
MayAccessWorkflow(u, row) == row.owner = u \/ (row.kind = "shared" /\ fga /\ InGroup(u, row.groups))

(* The visibility check of Fork.                                           *)
MayFork(u, row) ==
    \/ row.owner = u
    \/ row.status = "published" /\ row.groups # {} /\ (~fga \/ InGroup(u, row.groups))

(* MayOperateAgent, for a lineage bound to an agent.                       *)
MayOperateAgent(u, row) == row.agent /\ fga => u \in Operators

OwnerOps == {"save", "propose", "decide", "publish", "delete"}

(* What a handler asks of the lineage's current row before it goes on.     *)
MayCall(op, u, row) ==
    CASE op \in OwnerOps -> row.owner = u
      [] op = "fork" -> MayFork(u, row)
      [] OTHER -> MayAccessWorkflow(u, row)

(* The groups Publish shares with; the owner must be in each.              *)
MayPublishTo(op, u, gs) ==
    IF op = "publish" THEN fga => \A g \in gs : <<u, g>> \in member ELSE gs = {}

(* Save, Propose, Decide, Publish, Fork, Delete, Get, Pin and Rate up to   *)
(* their first write: load the current row (loadAccessible, GetCurrent).   *)
Load(c, u, op, l, gs) ==
    /\ made < MaxCalls /\ call[c] = NoCall /\ HasCurrent(l)
    /\ MayCall(op, u, Current(l)) /\ MayPublishTo(op, u, gs)
    /\ WorkflowCaller(u)
    /\ call' = [call EXCEPT ![c] = [op |-> op, user |-> u, l |-> l, cur |-> Current(l),
                                    groups |-> gs, v |-> 0, row |-> NoCall, pin |-> NoSched]]
    /\ made' = made + 1
    /\ UNCHANGED <<fga, wf, created, reborn, rewritten, pins, member, sched, reply>>

(* scheduledWorkflowPin: GetWorkflow under a scheduled grant reads the     *)
(* schedule's pin first, then the current row.  The scheduler's fires are  *)
(* not counted.                                                            *)
ScheduledWorkflowPin(c, u) ==
    /\ call[c] = NoCall /\ sched[u] # NoSched /\ WorkflowCaller(u)
    /\ call' = [call EXCEPT ![c] = [op |-> "fire", user |-> u, l |-> sched[u].l, cur |-> NoCall,
                                    groups |-> {}, v |-> sched[u].v, row |-> NoCall, pin |-> sched[u]]]
    /\ UNCHANGED <<fga, wf, created, reborn, rewritten, pins, member, made, sched, reply>>

FireLoad(c) ==
    /\ call[c].op = "fire" /\ call[c].cur = NoCall /\ HasCurrent(call[c].l)
    /\ MayAccessWorkflow(call[c].user, Current(call[c].l))
    /\ call' = [call EXCEPT ![c].cur = Current(call[c].l)]
    /\ UNCHANGED <<fga, wf, created, reborn, rewritten, pins, member, made, sched, reply>>

(* The RPCs, served alike north (bearer) and south (owner grant).          *)
SaveGetRpc(c, u, l) == \E op \in {"save", "get", "schedule"} : Load(c, u, op, l, {})
ReviewRpc(c, u, l) == \E op \in {"rate", "propose", "decide"} : Load(c, u, op, l, {})
SharingRpc(c, u, l) ==
    \/ \E gs \in SUBSET Groups : Load(c, u, "publish", l, gs)
    \/ \E op \in {"fork", "pin"} : Load(c, u, op, l, {})
DeleteRpc(c, u, l) == Load(c, u, "delete", l, {})

Ends(c) == call' = [call EXCEPT ![c] = NoCall]

(* CreateVersion, ProposeVersion: MAX(version) + 1 and the insert are one  *)
(* transaction.                                                            *)
AddVersion(l, row) ==
    /\ Len(wf[l]) < MaxVersion
    /\ wf' = [wf EXCEPT ![l] = Append(@, row)]
    /\ reborn' = IF wf[l] = << >> /\ l <= created THEN reborn \cup {l} ELSE reborn

NewRow(u, steps, agent) ==
    [owner |-> u, status |-> "private", kind |-> "private", groups |-> {},
     def |-> [steps |-> steps, requires |-> FALSE], appr |-> "approved", agent |-> agent]

(* Save without a lineage id; validateStepSkills refuses unknown skills.   *)
SaveNew(u, steps, agent) ==
    /\ WorkflowCaller(u) /\ made < MaxCalls /\ created < Cardinality(Lineages) /\ steps \in KnownSteps
    /\ AddVersion(created + 1, NewRow(u, steps, agent))
    /\ created' = created + 1 /\ made' = made + 1
    /\ UNCHANGED <<fga, rewritten, pins, member, call, sched, reply>>

(* Save of an edit: status, visibility and binding are the loaded row's.   *)
SaveEdit(c, steps) ==
    /\ call[c].op = "save" /\ steps \in KnownSteps
    /\ AddVersion(call[c].l, [call[c].cur EXCEPT !.owner = call[c].user, !.appr = "approved",
                                                 !.def = [steps |-> steps, requires |-> FALSE]])
    /\ Ends(c)
    /\ UNCHANGED <<fga, rewritten, created, pins, member, made, sched, reply>>

(* Propose: the visibility of the loaded row, but never its status.        *)
Propose(c, steps) ==
    /\ call[c].op = "propose" /\ steps \in KnownSteps
    /\ AddVersion(call[c].l, [call[c].cur EXCEPT !.owner = call[c].user, !.status = "private",
                                                 !.appr = "proposed",
                                                 !.def = [steps |-> steps, requires |-> FALSE]])
    /\ Ends(c)
    /\ UNCHANGED <<fga, rewritten, created, pins, member, made, sched, reply>>

(* Decide: ApproveVersion or RejectVersion of a version still proposed.    *)
Decide(c, v, to) ==
    LET l == call[c].l
    IN  /\ call[c].op = "decide" /\ v \in DOMAIN wf[l]
        /\ wf[l][v].appr = "proposed" /\ to \in {"approved", "rejected"}
        /\ wf' = [wf EXCEPT ![l][v].appr = to]
        /\ Ends(c)
        /\ UNCHANGED <<fga, created, reborn, rewritten, pins, member, made, sched, reply>>

(* GetVersion, the second read of Publish and Pin.                         *)
ReadVersion(c, v) ==
    /\ call[c].op \in {"publish", "pin"} /\ call[c].v = 0
    /\ v \in DOMAIN wf[call[c].l]
    /\ call' = [call EXCEPT ![c].v = v, ![c].row = wf[call[c].l][v]]
    /\ UNCHANGED <<fga, wf, created, reborn, rewritten, pins, member, made, sched, reply>>

(* Publish, PublishVersion: share the version, merge the manifest computed *)
(* from the steps that were read, and let the owner's own schedules follow *)
(* the new hash.                                                           *)
Publish(c) ==
    LET l == call[c].l
        v == call[c].v
        def == [call[c].row.def EXCEPT !.requires = TRUE]
        old == wf[l][v]
    IN  /\ call[c].op = "publish" /\ v # 0 /\ v \in DOMAIN wf[l]
        /\ wf' = [wf EXCEPT ![l][v] = [old EXCEPT !.status = "published", !.kind = "shared",
                                                  !.groups = call[c].groups, !.def = def]]
        /\ sched' = [u \in Users |->
                       IF u = old.owner /\ sched[u].l = l /\ sched[u].v = v /\ sched[u].sha = old.def
                       THEN [sched[u] EXCEPT !.sha = def] ELSE sched[u]]
        /\ rewritten' = IF def.steps = old.def.steps THEN rewritten ELSE rewritten \cup {l}
        /\ Ends(c)
        /\ UNCHANGED <<fga, created, reborn, pins, member, made, reply>>

(* Fork: a private copy in a fresh lineage.                                *)
Fork(c) ==
    /\ call[c].op = "fork" /\ created < Cardinality(Lineages)
    /\ AddVersion(created + 1, [call[c].cur EXCEPT !.owner = call[c].user, !.status = "private",
                                                   !.kind = "private", !.groups = {}])
    /\ created' = created + 1
    /\ Ends(c)
    /\ UNCHANGED <<fga, rewritten, pins, member, made, sched, reply>>

\* Mutant: any version can be pinned.
PinAny(c) ==
    /\ call[c].op = "pin" /\ call[c].v # 0
    /\ pins' = [pins EXCEPT ![call[c].user][call[c].l] = call[c].v]
    /\ Ends(c)
    /\ UNCHANGED <<fga, wf, created, reborn, rewritten, member, made, sched, reply>>

(* Pin: an approved version, for a non-owner one shared with them.         *)
Pin(c) ==
    /\ call[c].op = "pin" /\ call[c].v # 0
    /\ call[c].row.appr = "approved"
    /\ call[c].cur.owner = call[c].user \/ MayAccessWorkflow(call[c].user, call[c].row)
    /\ pins' = [pins EXCEPT ![call[c].user][call[c].l] = call[c].v]
    /\ Ends(c)
    /\ UNCHANGED <<fga, wf, created, reborn, rewritten, member, made, sched, reply>>

ClearPin(u, l) ==
    /\ WorkflowCaller(u) /\ pins[u][l] # 0
    /\ pins' = [pins EXCEPT ![u][l] = 0]
    /\ UNCHANGED <<fga, wf, created, reborn, rewritten, member, call, made, sched, reply>>

(* Delete, DeleteLineage: every version and every pin, in one transaction. *)
DeleteLineage(c) ==
    LET l == call[c].l
    IN  /\ call[c].op = "delete"
        /\ wf' = [wf EXCEPT ![l] = << >>]
        /\ pins' = [u \in Users |-> [pins[u] EXCEPT ![l] = 0]]
        /\ Ends(c)
        /\ UNCHANGED <<fga, created, reborn, rewritten, member, made, sched, reply>>

(* Rate stamps success_rated_at, which nothing reads.                      *)
Rate(c) ==
    /\ call[c].op = "rate" /\ Ends(c)
    /\ UNCHANGED <<fga, wf, created, reborn, rewritten, pins, member, made, sched, reply>>

-----------------------------------------------------------------------------
(* ResolveVersionForUser: the user's pin, or the current version.          *)
ResolveVersion(c) ==
    LET k == call[c]
        v == IF pins[k.user][k.l] # 0 THEN pins[k.user][k.l] ELSE CurrentVersion(k.l)
    IN  /\ k.op \in {"get", "schedule"} /\ k.v = 0 /\ v # 0
        /\ call' = [call EXCEPT ![c].v = v]
        /\ UNCHANGED <<fga, wf, created, reborn, rewritten, pins, member, made, sched, reply>>

\* Mutant: a fire is not held to its definition.
MayReadUnpinned(c, row) ==
    LET k == call[c]
    IN  k.cur.owner = k.user \/ (row.appr = "approved" /\ MayAccessWorkflow(k.user, row))
(* The checks of Get on the version's row: a non-owner reads an approved   *)
(* version shared with them; a fire only the definition it was pinned to.  *)
MayRead(c, row) ==
    LET k == call[c]
    IN  /\ k.cur.owner = k.user \/ (row.appr = "approved" /\ MayAccessWorkflow(k.user, row))
        /\ k.op = "fire" => row.appr = "approved" /\ row.def = k.pin.sha

(* Get answers; CreateScheduledRun and the owner's edit pin what it        *)
(* returned, unless the lineage is bound to an agent.                      *)
Serve(c) ==
    LET k == call[c]
        row == wf[k.l][k.v]
    IN  /\ k.op \in {"get", "fire", "schedule"} /\ k.cur # NoCall /\ k.v \in DOMAIN wf[k.l]
        /\ MayRead(c, row)
        /\ IF k.op = "schedule" /\ ~row.agent
           THEN sched' = [sched EXCEPT ![k.user] = [l |-> k.l, v |-> k.v, sha |-> row.def,
                                                    confirmed |-> row.def.steps]]
           ELSE UNCHANGED sched
        /\ reply' = [to |-> k.user, op |-> k.op, l |-> k.l, row |-> row,
                      confirmed |-> k.pin.confirmed,
                      ingroup |-> InGroup(k.user, row.groups)]
        /\ Ends(c)
        /\ UNCHANGED <<fga, wf, created, reborn, rewritten, pins, member, made>>

(* BeginWorkflowRun: who may read the current row and operate its agent    *)
(* gets a grant to run it.                                                 *)
BeginWorkflowRun(u, l) ==
    /\ WorkflowCaller(u) /\ HasCurrent(l)
    /\ MayAccessWorkflow(u, Current(l)) /\ MayOperateAgent(u, Current(l))
    /\ reply' = [to |-> u, op |-> "run", l |-> l, row |-> Current(l), confirmed |-> None,
                  ingroup |-> InGroup(u, Current(l).groups)]
    /\ UNCHANGED <<fga, wf, created, reborn, rewritten, pins, member, call, made, sched>>

(* A call that fails a check, or whose rows are gone, returns an error.    *)
Refuse(c) ==
    /\ call[c] # NoCall /\ Ends(c)
    /\ UNCHANGED <<fga, wf, created, reborn, rewritten, pins, member, made, sched, reply>>

Join(u, g) ==
    /\ member' = IF <<u, g>> \in member THEN member \ {<<u, g>>} ELSE member \cup {<<u, g>>}
    /\ made < MaxCalls /\ made' = made + 1
    /\ UNCHANGED <<fga, wf, created, reborn, rewritten, pins, call, sched, reply>>

WorkflowNext ==
    \/ \E u \in Users :
          \/ \E s \in StepLists, a \in BOOLEAN : SaveNew(u, s, a)
          \/ \E l \in Lineages : ClearPin(u, l)
          \/ \E g \in Groups : Join(u, g)
          \/ \E l \in Lineages : BeginWorkflowRun(u, l)
          \/ \E c \in Calls, l \in Lineages :
                SaveGetRpc(c, u, l) \/ ReviewRpc(c, u, l) \/ SharingRpc(c, u, l) \/ DeleteRpc(c, u, l)
          \/ \E c \in Calls : ScheduledWorkflowPin(c, u)
    \/ \E c \in Calls :
          \/ \E s \in StepLists : SaveEdit(c, s) \/ Propose(c, s)
          \/ \E v \in 1..MaxVersion : Decide(c, v, "approved") \/ Decide(c, v, "rejected") \/ ReadVersion(c, v)
          \/ Publish(c) \/ Fork(c) \/ Pin(c) \/ DeleteLineage(c) \/ Rate(c)
          \/ ResolveVersion(c) \/ FireLoad(c) \/ Serve(c) \/ Refuse(c)

-----------------------------------------------------------------------------
(* A lineage has one owner and one agent binding for good, whichever       *)
(* edits, proposals and deletions meet, and also when a call in flight     *)
(* re-creates a lineage that was deleted under it (the rule F15 added to   *)
(* Save).  And pins only ever target approved versions, the contract that  *)
(* ResolveVersionForUser relies on, in every lineage not re-created so.    *)
LineagesHold ==
    /\ \A l \in Lineages : \A v, w \in DOMAIN wf[l] :
          wf[l][v].owner = wf[l][w].owner /\ wf[l][v].agent = wf[l][w].agent
    /\ \A u \in Users, l \in Lineages \ reborn :
          (pins[u][l] # 0 /\ wf[l] # << >>) => wf[l][pins[u][l]].appr = "approved"

(* What the read RPCs and the fires serve.  A read or a run grant gives    *)
(* anyone but the owner an approved version shared with a group they are   *)
(* in - through a pin, a schedule, a withdrawn membership or an older      *)
(* private version alike.  And a scheduled fire runs the steps its owner   *)
(* confirmed (F18), although Publish rewrites the stored definition and    *)
(* moves the owner's pin, and although a late edit may re-create the       *)
(* version with other steps; only a Publish that read the version before   *)
(* that can replace the steps.                                             *)
ServesWhatIsAllowed ==
    /\ (reply # NoReply /\ reply.to # reply.row.owner) =>
          reply.row.appr = "approved" /\ reply.row.kind = "shared" /\ fga /\ reply.ingroup
    /\ (reply # NoReply /\ reply.op = "fire" /\ reply.l \notin rewritten)
          => reply.confirmed = reply.row.def.steps
=============================================================================
