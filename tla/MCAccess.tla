------------------------------ MODULE MCAccess ------------------------------
(***************************************************************************)
(* Who may act, on small instances: revocation and the credentials it ends, *)
(* signed user assertions, the agent registry, envelopes between users and  *)
(* the groups of a first sign-in.  They share no state here, so one of them *)
(* works in each behaviour and the others stay as they began; the slots of  *)
(* their calls and the replicas of a sign-in are the same model values.     *)
(***************************************************************************)
EXTENDS Credentials, AssertionReplay, Agents, Envelopes, Provisioning, TLC

(* Credentials *)
Nobody == [kind \in Kinds |-> None]
AtZero(subj, act) == [iat |-> 0, exp |-> MaxNow + 2, subj |-> subj, act |-> act]

Rows(blocked, status) ==
  [k \in Keys |-> IF k = "u" THEN [UserRow EXCEPT !.blocked = blocked]
                 ELSE [AgentRow EXCEPT !.status = status]]

SessionWorld(blocked) ==
  [ops |-> {"rpc", "mint"},
   changes |-> IF blocked THEN {"unblock"} ELSE {"block", "revokeUser"},
   issues |-> {"SignIn"}, cred |-> Nobody, rows |-> Rows(blocked, "active")]
KeyWorld(status) ==
  [ops |-> {"key"},
   changes |-> IF status = "active" THEN {"revokeAgent", "suspended"} ELSE {"active", "retired"},
   issues |-> {"MintAgentApiKey"}, rows |-> Rows(FALSE, status), cred |-> Nobody]
AssertWorld ==
  [ops |-> {"assert"}, changes |-> {"block", "revokeUser", "revokeAgent"},
   issues |-> {}, rows |-> Rows(FALSE, "active"),
   cred |-> [Nobody EXCEPT !["bearer"] = AtZero(TRUE, FALSE), !["key"] = AtZero(FALSE, TRUE)]]
RunWorld(subj, act) ==
  [ops |-> {"grant", "invoke"},
   changes |-> IF subj THEN {"block", "revokeUser", "revokeAgent"}
               ELSE {"revokeAgent", "suspended"},
   issues |-> {"MintStepToken"}, rows |-> Rows(FALSE, "active"),
   cred |-> [Nobody EXCEPT !["grant"] = AtZero(subj, act)]]

MCWorlds == {SessionWorld(FALSE), SessionWorld(TRUE), KeyWorld("active"), KeyWorld("suspended"),
             AssertWorld, RunWorld(FALSE, TRUE), RunWorld(TRUE, TRUE)}

(* Agents *)
Row(s) == [there |-> "yes", status |-> s, servers |-> {}, creator |-> "u1", made |-> 1]

World(ops, days, agents, own, roles) ==
  [ops |-> ops, days |-> days, users |-> {"u1"}, members |-> {"u1"},
   here |-> IF "run" \in ops THEN BOOLEAN ELSE {FALSE},
   pref |-> IF "run" \in ops /\ "setpref" \notin ops THEN "a" ELSE "",
   usable |-> {},
   row |-> agents, owners |-> own, roles |-> roles, objects |-> {x \in Ids : agents[x] # NoRow}]
Only(x, s) == [y \in Ids |-> IF y = x THEN Row(s) ELSE NoRow]

Attach == World({"create", "update", "delete"}, 1, [x \in Ids |-> NoRow], {}, {})
Sweeping == World({"unown", "roles", "block", "sweep"}, 2, Only("a", "active"), {"u1"},
                  {<<"owner", "u2">>})
Grouped == World({"block", "sweep", "status"}, 2, Only("a", "active"), {"u1", Group}, {})
Activating == World({"unown", "block", "status", "backfill"}, 1, Only("a", "staged"),
                    {"u1", "u2"}, {})
Starting == [World({"ensure", "roles"}, 1, Only("a", "active"), {}, {<<"usable", Group>>})
               EXCEPT !.objects = {"d"}]
Running == [World({"run", "status"}, 1, [x \in Ids |-> Row("active")], {"u1"}, {})
              EXCEPT !.usable = {"*"}, !.objects = {"a"}]
Setting == [World({"run", "setpref", "roles", "delete"}, 1, [x \in Ids |-> Row("active")], {},
                  {<<"usable", Group>>}) EXCEPT !.usable = {"*"}, !.objects = {"a"}]

MCAgentWorlds == {Attach, Sweeping, Activating, Grouped, Starting, Running, Setting}

(* Envelopes *)
Delivered(from, to, made) ==
  [state |-> "DELIVERED", from |-> from, to |-> to, att |-> {}, cost |-> 1, minted |-> {}, forwarded |-> FALSE,
   could |-> Scopes, made |-> made, exp |-> made + EnvelopeTTL]

MailWorld(ops, days, mails) ==
  [ops |-> ops, days |-> days, envs |-> [e \in Envs |-> IF e \in mails THEN Delivered("u1", "u2", 1) ELSE NoEnv],
   cohort |-> {}, peers |-> {<<"u1", "u2">>}, auto |-> {FALSE}, atts |-> {{}}, parents |-> {{}}, costs |-> {1},
   senders |-> {"u1"}, targets |-> {"u2"}, users |-> {"u2"}, slots |-> Envs]

Answering == [MailWorld({"respond", "dismiss", "revoke"}, 4, {1}) EXCEPT !.users = {"u2", "u3"}]
Stamping == MailWorld({"respond", "create"}, 2, {1})
Narrowing == [MailWorld({"send", "respond", "regrant"}, 1, {})
                EXCEPT !.atts = {{}, Scopes}, !.parents = {{}, {"s2"}}, !.costs = {1, 3},
                       !.auto = BOOLEAN, !.slots = {1}]
Fanning == [MailWorld({"send", "regroup"}, 1, {}) 
              EXCEPT !.cohort = Members, !.targets = {"u1", "u3", Cohort}, !.auto = BOOLEAN,
                     !.slots = {1, 2}]

MCMailWorlds == {Answering, Stamping, Narrowing, Fanning}

(* Provisioning *)
Ann == [local |-> "ann", domain |-> "x"]
Bob == [local |-> "bob", domain |-> "x"]
MCPersons == ("s1" :> Ann @@ "s2" :> Bob)
Rule(m, gs) == [matcher |-> m, groups |-> gs]

\* Failures, restarts and a console that deletes, removes and adds again.
Faulting == [people |-> {"s1"}, rules |-> {Rule(Exact(Ann), {"g1"}), Rule(Wildcard("x"), {"g2"})},
            adds |-> {Rule(Exact(Ann), {"g1"})}, admin |-> {"delete", "remove"},
            faulty |-> TRUE, crashes |-> TRUE]
\* Rules come while the users sign in for the first time.
Hiring == [people |-> {"s1"}, rules |-> {Rule(Wildcard("x"), {"g2"})},
           adds |-> {Rule(Exact(Ann), {"g1", "g3"}), Rule(Exact(Bob), {"g1"})},
           admin |-> {}, faulty |-> FALSE, crashes |-> FALSE]
\* The tenant moves between SCIM and rules.
Regrouping == [people |-> {"s1", "s2"}, rules |-> {Rule(Exact(Ann), {"g1"})}, adds |-> {Rule(Exact(Bob), {"g1"})},
           admin |-> {"mode", "remove"}, faulty |-> FALSE, crashes |-> FALSE]
Restarting == [Regrouping EXCEPT !.adds = {}, !.crashes = TRUE]

MCJitWorlds == {Faulting, Hiring, Regrouping, Restarting}

VARIABLE part

MCAccessSymmetry == Permutations(Calls)

AccessInit ==
    /\ part \in {"credentials", "assertions", "agents", "envelopes", "provisioning"}
    /\ CredInit /\ (part # "credentials" => world = AssertWorld)
    /\ ReplayInit
    /\ AgentsInit /\ (part # "agents" => agentWorld = Attach)
    /\ MailInit /\ (part # "envelopes" => mailWorld = Stamping)
    /\ JitInit /\ (part # "provisioning" => jitWorld = Hiring)

AccessNext ==
    \/ part = "credentials" /\ CredNext /\ UNCHANGED <<part, assertVars, agentVars, mailVars, jitVars>>
    \/ part = "assertions" /\ ReplayNext /\ UNCHANGED <<part, allVars, agentVars, mailVars, jitVars>>
    \/ part = "agents" /\ AgentsNext /\ UNCHANGED <<part, allVars, assertVars, mailVars, jitVars>>
    \/ part = "envelopes" /\ MailNext /\ UNCHANGED <<part, allVars, assertVars, agentVars, jitVars>>
    \/ part = "provisioning" /\ JitNext /\ UNCHANGED <<part, allVars, assertVars, agentVars, mailVars>>

AccessSpec == AccessInit /\ [][AccessNext]_<<part, allVars, assertVars, agentVars, mailVars, jitVars>>
=============================================================================
