----------------------------- MODULE StepRouting -----------------------------
(***************************************************************************)
(* How one plan step is routed (broker.routeStep and what it calls): the   *)
(* effect class taken from the tenant's skill overlay, the OPA decision    *)
(* with its extra gates, the network access list, disabled_tools, the      *)
(* overlay's disable and the effect_class_routing posture, while           *)
(* administrators change what those layers read.  SubmitPlan and           *)
(* SimulatePolicy are the two callers.  One tenant, one tool, one host.    *)
(***************************************************************************)
EXTENDS Integers, FiniteSets, FiniteSetsExt, Sequences, TLC

CONSTANTS
  RouteCalls,     \* calls in flight
  CfgTTL,         \* config.cacheTTL
  AclTTL,         \* netacl.Checker.ttl
  ReadTime,       \* bound: the longest a settings read is in flight
  RouteWorlds     \* what is configured and what changes; their time and edits are bounds

VARIABLES
  routeWorld, clk,
  setting,        \* setting[k]: the tenant's value of key k, when and by which edit it was written
  cfgCache,       \* config.Store.cache
  acl, aclCache,  \* the access-list rules and the Checker's copy
  grouping, groupCache, \* the user's groups and the Checker's copy
  overlay,        \* the skill overlay row of the tool
  snapshot,       \* the registry's copy of it
  gen, loaded,    \* skillOverlayLoader.gen, and the generation the copy was read at
  editor,         \* the administrator's operation in progress
  edits,          \* operations begun
  route           \* route[c]: the call c is serving

routeVars == <<routeWorld, clk, setting, cfgCache, acl, aclCache, grouping, groupCache, overlay,
               snapshot, gen, loaded, editor, edits, route>>

Classes == {"auto", "approval", "step_up", "internal"}
NoRow == [found |-> FALSE, enabled |-> TRUE, class |-> "auto"]
NoPosture == "none"
overlayLoadAttempts == 3

(* Severity: one representative class for each bucket of severityTable. *)
Severity(class) ==
  CASE class = "auto" -> 1 [] class = "approval" -> 2 [] class = "step_up" -> 3 [] OTHER -> 4

Stricter(a, b) == IF Severity(b) > Severity(a) THEN b ELSE a

(* Posture.Severity, 0 for none. *)
PostureSeverity(p) ==
  CASE p = "approval" -> 2 [] p = "step_up" -> 3 [] p = "deny" -> 4 [] OTHER -> 0

Decision(allow, approval, stepUp, deny) ==
  [allow |-> allow, approval |-> approval, stepUp |-> stepUp, deny |-> deny]

Denied == Decision(FALSE, FALSE, FALSE, TRUE)
NoOpinion == Decision(FALSE, FALSE, FALSE, FALSE)

(* decisionSeverity over classifyDecision: deny > step-up > approval > allow. *)
decisionSeverity(dec) ==
  CASE dec.deny \/ dec = NoOpinion -> 4
    [] dec.stepUp -> 3
    [] dec.approval -> 2
    [] OTHER -> 1

(* aikonos/tool_invocation: what the Rego answers for a class and a grant, *)
(* with or without a deny reason.                                          *)
toolInvocation(class, granted, denied) ==
  Decision(granted /\ ~denied /\ class = "auto",
           granted /\ ~denied /\ class \in {"approval", "step_up"},
           granted /\ class = "step_up",
           denied \/ ~granted)

(* aggregateExtraGates: extra gates escalate the core result, and a gate   *)
(* that cannot be evaluated denies.                                        *)
GateDenies(g) == ~g.ok \/ g.dec.deny

aggregateExtraGates(core, gates) ==
  IF gates = <<>> THEN core
  ELSE LET all == {gates[i] : i \in DOMAIN gates}
           anyDeny == core.deny \/ \E g \in all : GateDenies(g)
       IN Decision(core.allow /\ ~anyDeny,
                   core.approval \/ \E g \in all : g.ok /\ g.dec.approval,
                   core.stepUp \/ \E g \in all : g.ok /\ g.dec.stepUp,
                   anyDeny)

(***************************************************************************)
(* netacl: a rule is its scope (the tenant, the user or a group), how      *)
(* closely its pattern names the host, and its action.                     *)
(***************************************************************************)
AclGroups == {"g1", "g2"}
scopeRank(r) == CASE r.scope = "user" -> 3 [] r.scope \in AclGroups -> 2 [] OTHER -> 1
hostRank(r) == CASE r.pattern = "any" -> 1 [] r.pattern = "suffix" -> 2 [] OTHER -> 3
actionRank(a) == CASE a = "DENY" -> 3 [] a = "ASK" -> 2 [] OTHER -> 1

scopeApplies(r, groups) == r.scope \in {"tenant", "user"} \cup groups

Strictest(actions) == CHOOSE a \in actions : \A b \in actions : actionRank(b) <= actionRank(a)

(* Decide: the strictest action of the most specific matching rules. *)
AclDecide(rules, groups) ==
  LET matched == {r \in rules : scopeApplies(r, groups) /\ r.pattern # "other"}
      score(r) == scopeRank(r) * 10 + hostRank(r)
      best == {r \in matched : \A s \in matched : score(s) <= score(r)}
  IN IF matched = {} THEN "ALLOW" ELSE Strictest({r.action : r \in best})

DecideAnyGroups(rules) ==
  Strictest({AclDecide(rules, {})}
            \cup {AclDecide(rules, {g}) : g \in AclGroups \cap {r.scope : r \in rules}})

hasGroupRules(rules) == \E r \in rules : r.scope \in AclGroups

(* routeStep's layer 2 on the access list's answer. *)
afterNetacl(dec, action) ==
  CASE action = "DENY" -> Denied
    [] action = "ASK" /\ dec.allow -> [dec EXCEPT !.allow = FALSE, !.approval = TRUE]
    [] OTHER -> dec

(* Layer 5: a posture stricter than the decision replaces it. *)
applyPosture(dec, p) ==
  CASE PostureSeverity(p) <= decisionSeverity(dec) -> dec
    [] p = "approval" -> Decision(FALSE, TRUE, FALSE, FALSE)
    [] p = "step_up" -> Decision(FALSE, TRUE, TRUE, FALSE)
    [] OTHER -> Denied

Keys == {"disabled_tools", "effect_class_routing"}
Getting(k) == IF k = "disabled_tools" THEN "disabledGet" ELSE "routingGet"
Putting(k) == IF k = "disabled_tools" THEN "disabledPut" ELSE "routingPut"
Uncached == [has |-> FALSE, at |-> 0]
IdleRoute == [pc |-> "idle"]
IdleEditor == [pc |-> "idle", key |-> "none"]

(* Edits whose operation has returned. *)
Completed == IF editor.pc = "idle" THEN edits ELSE edits - 1

RouteInit ==
  /\ routeWorld \in RouteWorlds
  /\ clk = 1
  /\ setting = [k \in Keys |-> [val |-> routeWorld.settings[k], at |-> -CfgTTL - ReadTime]]
  /\ cfgCache = [k \in Keys |-> Uncached]
  /\ \E R \in routeWorld.rules : acl = [val |-> R, at |-> -AclTTL]
  /\ aclCache = Uncached
  /\ grouping = [val |-> routeWorld.groups, at |-> -AclTTL]
  /\ groupCache = Uncached
  /\ overlay = [row |-> routeWorld.row, edit |-> 0]
  /\ snapshot = IF routeWorld.loaded THEN routeWorld.row ELSE NoRow
  /\ gen = 0
  /\ loaded = IF routeWorld.loaded THEN 0 ELSE -1
  /\ editor = IdleEditor
  /\ edits = 0
  /\ route = [c \in RouteCalls |-> IdleRoute]

At(c, pc) == route[c].pc = pc
Goes(c, upd) == route' = [route EXCEPT ![c] = upd]
storesVars == <<setting, acl, grouping, overlay, editor, edits, routeWorld, clk>>
overlayVars == <<snapshot, gen, loaded>>
cachesVars == <<cfgCache, aclCache, groupCache>>

MayFail(dep) == dep \in routeWorld.faults

(* The call fails closed: nothing is routed. *)
Fail(c) == Goes(c, IdleRoute)

(* AuthoritativeEffectClass of the tool: a built-in's own class, the       *)
(* unconfirmed class (destructive) of an MCP tool, nothing if unknown.     *)
AuthoritativeEffectClass ==
  CASE routeWorld.tool = "builtin" -> {routeWorld.base}
    [] routeWorld.tool = "mcp" -> {"step_up"}
    [] OTHER -> {}

EffectClassForTenant(row) == IF row.found THEN {row.class} ELSE AuthoritativeEffectClass

(* A submitted plan or a simulation begins: ensureLoaded compares the      *)
(* generations under the lock.                                             *)
RouteBegin(c) ==
  /\ At(c, "idle")
  /\ Cardinality({d \in RouteCalls : ~At(d, "idle")}) < routeWorld.calls
  /\ \E kind \in routeWorld.kinds :
       Goes(c, [pc |-> IF loaded = gen THEN "evaluate" ELSE "load", kind |-> kind, g |-> gen,
                tries |-> 0, start |-> clk, begun |-> Completed, rows |-> NoRow])
  /\ UNCHANGED <<storesVars, overlayVars, cachesVars>>

(* ensureLoaded reads the rows, without the lock. *)
OverlayRead(c) ==
  /\ At(c, "load")
  /\ \/ Goes(c, [route[c] EXCEPT !.pc = "install", !.rows = overlay.row])
     \/ MayFail("overlay") /\ Fail(c)
  /\ UNCHANGED <<storesVars, overlayVars, cachesVars>>

(* Mutant: the rows are cached whatever was invalidated since they were    *)
(* read.                                                                   *)
OverlayInstallStale(c) ==
  /\ At(c, "install")
  /\ snapshot' = route[c].rows
  /\ loaded' = gen
  /\ Goes(c, [route[c] EXCEPT !.pc = "evaluate", !.rows = NoRow])
  /\ UNCHANGED <<storesVars, gen, cachesVars>>

(* ... and caches them if no invalidation came in between; otherwise it    *)
(* reads again, at most overlayLoadAttempts times.                         *)
OverlayInstall(c) ==
  /\ At(c, "install")
  /\ IF gen = route[c].g
     THEN /\ snapshot' = route[c].rows
          /\ loaded' = gen
          /\ Goes(c, [route[c] EXCEPT !.pc = "evaluate", !.rows = NoRow])
     ELSE /\ IF route[c].tries + 1 = overlayLoadAttempts THEN Fail(c)
             ELSE Goes(c, [route[c] EXCEPT !.pc = "load", !.rows = NoRow, !.g = gen,
                                           !.tries = @ + 1])
          /\ UNCHANGED <<snapshot, loaded>>
  /\ UNCHANGED <<storesVars, gen, cachesVars>>

(* The routing class and layer 1's core gate.  A plan routes with the      *)
(* stricter of the declared and the known class and the user's grant; a    *)
(* simulation with the class it asked about and no grant check.  OPA may   *)
(* answer with an undefined document, or fail.                             *)
Evaluate(c) ==
  /\ At(c, "evaluate")
  /\ \/ \E declared \in routeWorld.declared, granted \in routeWorld.grants, denied \in routeWorld.risk :
          LET known == EffectClassForTenant(snapshot)
              class == IF known = {} \/ route[c].kind = "simulate" THEN declared
                       ELSE Stricter(declared, CHOOSE k \in known : TRUE)
              core == toolInvocation(class, granted \/ route[c].kind = "simulate", denied)
          IN \E answer \in {core} \cup (IF MayFail("opa") THEN {NoOpinion} ELSE {}) :
               Goes(c, [pc |-> "gates", class |-> class, dec |-> answer, start |-> route[c].start,
                        begun |-> route[c].begun])
     \/ MayFail("opa") /\ Fail(c)
  /\ UNCHANGED <<storesVars, overlayVars, cachesVars>>

(* The extra gates are queried one by one; their results are folded into   *)
(* the core's.                                                             *)
Gates(c) ==
  /\ At(c, "gates")
  /\ \E results \in [1..routeWorld.gates -> routeWorld.gateResults] :
       Goes(c, [route[c] EXCEPT !.pc = IF routeWorld.acl THEN "rules" ELSE "disabled_tools",
                                !.dec = aggregateExtraGates(route[c].dec, results)])
  /\ UNCHANGED <<storesVars, overlayVars, cachesVars>>

(***************************************************************************)
(* Layer 2: Checker.Decide takes the time once, then resolves the rules    *)
(* and, if any names a group, the user's groups, each through its cache.   *)
(***************************************************************************)
Routed(c, dec) ==
  Goes(c, [pc |-> "disabled_tools", class |-> route[c].class, dec |-> dec,
           start |-> route[c].start, begun |-> route[c].begun])

Ruled(c, action) == Routed(c, afterNetacl(route[c].dec, action))

With(f, v) == (f :> v)

WithRules(c, rules, now) ==
  IF hasGroupRules(rules)
  THEN Goes(c, [pc |-> "groups", class |-> route[c].class, dec |-> route[c].dec, now |-> now,
                start |-> route[c].start, begun |-> route[c].begun, rules |-> rules])
  ELSE Ruled(c, AclDecide(rules, {}))

(* now.Before(e.exp). *)
Live(entry, now) == entry.has /\ now < entry.at + AclTTL

Rules(c) ==
  /\ At(c, "rules")
  /\ IF Live(aclCache, clk) THEN WithRules(c, aclCache.val, clk)
     ELSE Goes(c, [route[c] EXCEPT !.pc = "rulesGet"] @@ With("now", clk))
  /\ UNCHANGED <<storesVars, overlayVars, cachesVars>>

(* The rules are read; rules that cannot be loaded deny. *)
RulesGet(c) ==
  /\ At(c, "rulesGet")
  /\ \/ Goes(c, [route[c] EXCEPT !.pc = "rulesPut"] @@ With("rules", acl.val))
     \/ MayFail("acl") /\ Ruled(c, "DENY")
  /\ UNCHANGED <<storesVars, overlayVars, cachesVars>>

RulesPut(c) ==
  /\ At(c, "rulesPut")
  /\ aclCache' = [has |-> TRUE, at |-> route[c].now, val |-> route[c].rules]
  /\ WithRules(c, route[c].rules, route[c].now)
  /\ UNCHANGED <<storesVars, overlayVars, cfgCache, groupCache>>

Groups(c) ==
  /\ At(c, "groups")
  /\ IF Live(groupCache, route[c].now) THEN Ruled(c, AclDecide(route[c].rules, groupCache.val))
     ELSE Goes(c, [route[c] EXCEPT !.pc = "groupsGet"])
  /\ UNCHANGED <<storesVars, overlayVars, cachesVars>>

(* The groups are resolved; unknown groups take the strictest answer. *)
GroupsGet(c) ==
  /\ At(c, "groupsGet")
  /\ \/ Goes(c, [route[c] EXCEPT !.pc = "groupsPut"] @@ With("groups", grouping.val))
     \/ MayFail("acl") /\ Ruled(c, DecideAnyGroups(route[c].rules))
  /\ UNCHANGED <<storesVars, overlayVars, cachesVars>>

GroupsPut(c) ==
  /\ At(c, "groupsPut")
  /\ groupCache' = [has |-> TRUE, at |-> route[c].now, val |-> route[c].groups]
  /\ Ruled(c, AclDecide(route[c].rules, route[c].groups))
  /\ UNCHANGED <<storesVars, overlayVars, cfgCache, aclCache>>

(***************************************************************************)
(* Layers 3 to 5.  config.Store.get: a cached value, else a repo read      *)
(* whose answer is cached with the time it arrives.                        *)
(***************************************************************************)
(* ParseEffectClassRouting: the setting names one class. *)
PostureOf(class, v) == IF class = routeWorld.routed THEN v ELSE NoPosture

(* What the restrictions old enough demand of the decision. *)
Demanded(c) ==
  LET call == route[c]
      known(row, age) == row.at + age <= call.start
      disabled == setting["disabled_tools"]
      posture == setting["effect_class_routing"]
  IN Max({0}
     \cup (IF disabled.val /\ known(disabled, CfgTTL + ReadTime) THEN {4} ELSE {})
     \cup (IF known(posture, CfgTTL + ReadTime)
           THEN {PostureSeverity(PostureOf(call.class, posture.val))} ELSE {})
     \cup (IF overlay.row.found /\ ~overlay.row.enabled /\ overlay.edit <= call.begun
           THEN {4} ELSE {})
     \cup (IF routeWorld.acl /\ acl.at + AclTTL <= call.start /\ grouping.at + AclTTL <= call.start
           THEN CASE AclDecide(acl.val, grouping.val) = "DENY" -> {4}
                  [] AclDecide(acl.val, grouping.val) = "ASK" -> {2} [] OTHER -> {}
           ELSE {}))

(* A call ends with its decision.  What it had to obey is recorded with    *)
(* it: the restrictions written long enough before it began.               *)
Finish(c, dec) == Goes(c, [pc |-> "done", dec |-> dec, demand |-> Demanded(c)])

AfterSetting(c, k, v) ==
  IF k = "disabled_tools"
  THEN Goes(c, [pc |-> "isEnabled", class |-> route[c].class,
                dec |-> IF v THEN Denied ELSE route[c].dec,
                start |-> route[c].start, begun |-> route[c].begun])
  ELSE Finish(c, applyPosture(route[c].dec, PostureOf(route[c].class, v)))

(* time.Since(e.setAt) < cacheTTL. *)
Cached(k) == cfgCache[k].has /\ clk - cfgCache[k].at < CfgTTL

SettingHit(c, k) ==
  /\ At(c, k)
  /\ IF Cached(k) THEN AfterSetting(c, k, cfgCache[k].val)
     ELSE Goes(c, [route[c] EXCEPT !.pc = Getting(k)])
  /\ UNCHANGED <<storesVars, overlayVars, cachesVars>>

SettingGet(c, k) ==
  /\ At(c, Getting(k))
  /\ \/ Goes(c, [route[c] EXCEPT !.pc = Putting(k)] @@ With("val", setting[k].val) @@ With("now", clk))
     \/ MayFail("settings") /\ Fail(c)
  /\ UNCHANGED <<storesVars, overlayVars, cachesVars>>

SettingPut(c, k) ==
  /\ At(c, Putting(k))
  /\ cfgCache' = [cfgCache EXCEPT ![k] = [has |-> TRUE, at |-> clk, val |-> route[c].val]]
  /\ AfterSetting(c, k, route[c].val)
  /\ UNCHANGED <<storesVars, overlayVars, aclCache, groupCache>>

(* Layer 4: IsEnabled on the registry's snapshot. *)
IsEnabled(c) ==
  /\ At(c, "isEnabled")
  /\ Goes(c, [route[c] EXCEPT !.pc = "effect_class_routing",
              !.dec = IF snapshot.found /\ ~snapshot.enabled THEN Denied ELSE @])
  /\ UNCHANGED <<storesVars, overlayVars, cachesVars>>

RouteReturn(c) ==
  /\ At(c, "done")
  /\ Goes(c, IdleRoute)
  /\ UNCHANGED <<storesVars, overlayVars, cachesVars>>

(***************************************************************************)
(* The administrator.  A setting and an overlay row are written first and  *)
(* their cached copies invalidated after; access-list rules and group      *)
(* membership have no invalidation.                                        *)
(***************************************************************************)
Edits(op) ==
  /\ op \in routeWorld.ops
  /\ editor.pc = "idle"
  /\ edits < routeWorld.edits
  /\ edits' = edits + 1

(* SetPlatformConfig reads the old value for its audit event, which caches *)
(* it as any read does ...                                                 *)
SettingOld(k) ==
  /\ Edits(k)
  /\ cfgCache' = IF Cached(k) THEN cfgCache
                 ELSE [cfgCache EXCEPT ![k] = [has |-> TRUE, at |-> clk, val |-> setting[k].val]]
  /\ editor' = [pc |-> "write", key |-> k]
  /\ UNCHANGED <<routeWorld, clk, setting, acl, grouping, overlay, overlayVars, aclCache, groupCache,
                 route>>

(* ... then Set writes the row, and drops the cached value. *)
SettingSet ==
  /\ editor.pc = "write"
  /\ \E v \in routeWorld.values[editor.key] :
       setting' = [setting EXCEPT ![editor.key] = [val |-> v, at |-> clk]]
  /\ editor' = [editor EXCEPT !.pc = "invalidate"]
  /\ UNCHANGED <<routeWorld, clk, acl, grouping, overlay, edits, overlayVars, cachesVars, route>>

SettingInvalidate ==
  /\ editor.pc = "invalidate"
  /\ cfgCache' = [cfgCache EXCEPT ![editor.key] = Uncached]
  /\ editor' = IdleEditor
  /\ UNCHANGED <<routeWorld, clk, setting, acl, grouping, overlay, edits, overlayVars, aclCache,
                 groupCache, route>>

(* ResolveOverlayClass accepts any class for an MCP tool, and for a        *)
(* built-in one no weaker than its own.                                    *)
ResolveOverlayClass(declared) ==
  routeWorld.tool = "mcp" \/ Severity(declared) >= Severity(routeWorld.base)

(* validateSkillOverlay: a tool without an executor takes no overlay. *)
validateSkillOverlay(declared) == routeWorld.tool # "unknown" /\ ResolveOverlayClass(declared)

UpsertSkill ==
  /\ Edits("UpsertSkill")
  /\ \E class \in routeWorld.declared, enabled \in BOOLEAN :
       /\ validateSkillOverlay(class)
       /\ overlay' = [row |-> [found |-> TRUE, enabled |-> enabled, class |-> class], edit |-> edits + 1]
  /\ editor' = [IdleEditor EXCEPT !.pc = "bump"]
  /\ UNCHANGED <<routeWorld, clk, setting, acl, grouping, overlayVars, cachesVars, route>>

DeleteSkill ==
  /\ Edits("DeleteSkill")
  /\ overlay.row.found
  /\ overlay' = [row |-> NoRow, edit |-> edits + 1]
  /\ editor' = [IdleEditor EXCEPT !.pc = "bump"]
  /\ UNCHANGED <<routeWorld, clk, setting, acl, grouping, overlayVars, cachesVars, route>>

(* skillOverlayLoader.invalidate. *)
OverlayInvalidate ==
  /\ editor.pc = "bump"
  /\ gen' = gen + 1
  /\ editor' = IdleEditor
  /\ UNCHANGED <<routeWorld, clk, setting, acl, grouping, overlay, edits, snapshot, loaded,
                 cachesVars, route>>

SetRules(R) ==
  /\ acl' = [val |-> R, at |-> clk]
  /\ UNCHANGED <<routeWorld, clk, setting, grouping, overlay, editor, overlayVars, cachesVars, route>>

AddNetworkRule ==
  /\ Edits("AddNetworkRule")
  /\ \E r \in UNION routeWorld.rules \ acl.val : SetRules(acl.val \cup {r})

DeleteNetworkRule ==
  /\ Edits("DeleteNetworkRule")
  /\ \E r \in acl.val : SetRules(acl.val \ {r})

SetGroups ==
  /\ Edits("SetGroups")
  /\ \E G \in routeWorld.groupings \ {grouping.val} : grouping' = [val |-> G, at |-> clk]
  /\ UNCHANGED <<routeWorld, clk, setting, acl, overlay, editor, overlayVars, cachesVars, route>>

(* Time passes, though no settings read is in flight longer than ReadTime. *)
RouteTick ==
  /\ clk < routeWorld.time
  /\ \A c \in RouteCalls :
       (\E k \in Keys : At(c, Putting(k))) => clk < route[c].now + ReadTime
  /\ clk' = clk + 1
  /\ UNCHANGED <<routeWorld, setting, acl, grouping, overlay, editor, edits, overlayVars, cachesVars,
                 route>>

RouteNext ==
  \/ \E c \in RouteCalls :
       \/ RouteBegin(c) \/ OverlayRead(c) \/ OverlayInstall(c) \/ Evaluate(c) \/ Gates(c)
       \/ Rules(c) \/ RulesGet(c) \/ RulesPut(c) \/ Groups(c) \/ GroupsGet(c) \/ GroupsPut(c)
       \/ \E k \in Keys : SettingHit(c, k) \/ SettingGet(c, k) \/ SettingPut(c, k)
       \/ IsEnabled(c) \/ RouteReturn(c)
  \/ \E k \in Keys : SettingOld(k)
  \/ SettingSet \/ SettingInvalidate \/ UpsertSkill \/ DeleteSkill \/ OverlayInvalidate
  \/ AddNetworkRule \/ DeleteNetworkRule \/ SetGroups \/ RouteTick

RouteSpec == RouteInit /\ [][RouteNext]_routeVars

-----------------------------------------------------------------------------
(* A finished decision is at least as strict as every restriction that was *)
(* in force when the call began and is still: a disabled tool or a posture *)
(* written CfgTTL + ReadTime earlier, an access list and membership at     *)
(* least AclTTL old, an overlay disable whose operation had returned.  And *)
(* what a user with unknown groups gets is the strictest of what any       *)
(* membership would give (DecideAnyGroups), and some membership gives it.  *)
RestrictionsBind ==
  /\ \A c \in RouteCalls : At(c, "done") => decisionSeverity(route[c].dec) >= route[c].demand
  /\ LET ranks == {actionRank(AclDecide(acl.val, G)) : G \in SUBSET AclGroups}
     IN actionRank(DecideAnyGroups(acl.val)) = Max(ranks)
=============================================================================
