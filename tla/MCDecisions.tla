------------------------------ MODULE MCDecisions ------------------------------
(***************************************************************************)
(* What decides and what proves it, on small instances: the routing of a   *)
(* step, the execution of an approved plan, the broker's keys, the audit   *)
(* trail and the policy served.  They share no state, so one of them works *)
(* in each behaviour and the others stay as they began.                    *)
(***************************************************************************)
EXTENDS StepRouting, BrokerKeys, AuditChain, MCPolicyServing, MCTaskLifecycle, TLC

(* StepRouting *)
NoSettings == [k \in Keys |-> IF k = "disabled_tools" THEN FALSE ELSE NoPosture]
Rule(s, p, a) == [scope |-> s, pattern |-> p, action |-> a]
GateAnswers ==
  {[ok |-> FALSE, dec |-> NoOpinion]} \cup
  {[ok |-> TRUE, dec |-> Decision(al, ap, s, d)] : al \in BOOLEAN, ap \in BOOLEAN, s \in BOOLEAN, d \in BOOLEAN}

Plain ==
  [settings |-> NoSettings, values |-> [k \in Keys |-> {}], rules |-> {{}}, groups |-> {}, groupings |-> {},
   row |-> NoRow, kinds |-> {"plan"}, tool |-> "builtin", base |-> "auto",
   declared |-> {"auto"}, grants |-> {TRUE}, risk |-> {FALSE}, gates |-> 0, gateResults |-> {},
   acl |-> FALSE, faults |-> {}, loaded |-> TRUE, routed |-> "auto", ops |-> {}, edits |-> 0, time |-> 1,
   calls |-> 2]

(* Every class, grant and deny reason, under two extra gates. *)
Gating ==
  {[Plain EXCEPT !.calls = 1, !.kinds = {"plan", "simulate"}, !.tool = t, !.base = "approval",
                 !.declared = Classes, !.grants = BOOLEAN, !.risk = BOOLEAN, !.gates = 2,
                 !.gateResults = GateAnswers, !.faults = {"opa"}, !.routed = r,
                 !.settings = [NoSettings EXCEPT !["effect_class_routing"] = p]] :
     r \in {"approval", "step_up"}, p \in {"approval", "step_up", "deny"}, t \in {"builtin", "unknown"}}

(* Settings change under calls made one after the other. *)
Setting ==
  [Plain EXCEPT !.values = [k \in Keys |-> IF k = "disabled_tools" THEN BOOLEAN ELSE {NoPosture, "step_up"}],
                !.ops = Keys, !.faults = {"settings"}, !.calls = 1, !.edits = 2, !.time = 3]

(* The overlay changes under two calls, and reads may fail. *)
Curating ==
  [Plain EXCEPT !.ops = {"UpsertSkill", "DeleteSkill"}, !.edits = 2, !.faults = {"overlay"}, !.loaded = FALSE,
                !.base = "approval", !.declared = {"auto", "step_up"}]

McpTool == [Curating EXCEPT !.tool = "mcp", !.edits = 1]

(* Memberships, and access lists, change under two calls. *)
Grouping ==
  [Plain EXCEPT !.acl = TRUE, !.ops = {"SetGroups"}, !.edits = 1, !.time = 2, !.faults = {"acl"},
                !.groupings = {{}, {"g1"}},
                !.rules = {{Rule("g1", "exact", "ASK"), Rule("tenant", "suffix", "ALLOW")}}]

Listing ==
  [Plain EXCEPT !.acl = TRUE, !.ops = {"AddNetworkRule", "DeleteNetworkRule"}, !.edits = 1, !.time = 2,
                !.rules = {{Rule("tenant", "any", "DENY")}, {Rule("user", "other", "ALLOW")}}]

(* Every access list of at most three rules. *)
Scopes == {"tenant", "user"} \cup AclGroups
AllRules == {Rule(s, p, a) : s \in Scopes, p \in {"any", "exact"}, a \in {"ALLOW", "ASK", "DENY"}}
Ranking ==
  [Plain EXCEPT !.calls = 0, !.rules = {{a, b, c} : a \in AllRules, b \in AllRules, c \in AllRules}]

MCRouteWorlds == {Setting, Curating, McpTool, Grouping, Listing, Ranking} \cup Gating
RouteSymmetry == Permutations(RouteCalls)

(* BrokerKeys *)
MCDeployment(dev, holds, create, configured, audit, session) ==
    [dev |-> dev, vault |-> holds, create |-> create, configured |-> configured,
     env |-> [n \in KeyNames |-> IF n = "auditSigning" THEN audit
                                 ELSE IF n = "workspaceSession" THEN session ELSE "none"]]
Unkeyed == MCDeployment(TRUE, FALSE, FALSE, {}, "none", "weak")
MCBootWorlds ==
    {MCDeployment(FALSE, TRUE, TRUE, {}, "none", "none"),
     MCDeployment(FALSE, TRUE, TRUE, {"capability"}, "strong", "weak"),
     MCDeployment(FALSE, TRUE, FALSE, {}, "strong", "strong"),
     MCDeployment(FALSE, FALSE, FALSE, {"capability", "gatewayGrant"}, "strong", "none"),
     MCDeployment(FALSE, FALSE, FALSE, {"capability"}, "weak", "none"),
     MCDeployment(TRUE, TRUE, TRUE, {"gatewayGrant"}, "weak", "none"),
     Unkeyed}
(* AuditChain *)
MCEvents == 1..3
MCDay == [e \in MCEvents |-> IF e < 3 THEN 1 ELSE 2]
MCWorlds ==
    {[may |-> {"crash", "put", "rotate"}, upTo |-> 3], [may |-> {"crash", "put", "stop"}, upTo |-> 2],
     [may |-> {"lock"}, upTo |-> 2], [may |-> {"stat", "vault"}, upTo |-> 1],
     [may |-> {"vault", "crash", "dev"}, upTo |-> 2]}

VARIABLE part

MCDecisionSymmetry == RouteSymmetry
MCServedWorlds == MCPolicyWorlds \cup {Unserved}

DecisionsInit ==
    /\ part \in {"route", "execute", "keys", "audit", "policy"}
    /\ RouteInit /\ (part # "route" => routeWorld = McpTool)
    /\ Init
    /\ BootInit /\ (part # "keys" => deployment = Unkeyed)
    /\ ChainInit /\ (part # "audit" => world.may = {"lock"})
    /\ PolicyInit /\ (part # "policy" <=> polWorld = Unserved)

DecisionsNext ==
    \/ part = "route" /\ RouteNext /\ UNCHANGED <<part, vars, bootVars, chainVars, polVars>>
    \/ part = "execute" /\ Next /\ UNCHANGED <<part, routeVars, bootVars, chainVars, polVars>>
    \/ part = "keys" /\ BootNext /\ UNCHANGED <<part, routeVars, vars, chainVars, polVars>>
    \/ part = "audit" /\ ChainNext /\ UNCHANGED <<part, routeVars, vars, bootVars, polVars>>
    \/ part = "policy" /\ PolicyNext /\ UNCHANGED <<part, routeVars, vars, bootVars, chainVars>>

DecisionsSpec ==
    DecisionsInit /\ [][DecisionsNext]_<<part, routeVars, vars, bootVars, chainVars, polVars>>
=============================================================================
