---------------------------- MODULE Provisioning ----------------------------
(***************************************************************************)
(* Just-in-time provisioning: the first verified call of a user puts the   *)
(* groups of the matching e-mail rules on the user, once per tenant        *)
(* (provisioning/, db/provisioning.go, broker/provisioning_admin.go).      *)
(* Several broker replicas see the user; each remembers in memory whom it  *)
(* has handled, and a claim on the user_directory row decides which of     *)
(* them writes.  Admins add and delete rules and take memberships away.    *)
(*                                                                         *)
(* An address is [local, domain]; a rule matches one address or a domain.  *)
(* Service principals are never provisioned and are left out.              *)
(***************************************************************************)
EXTENDS Naturals, FiniteSets

CONSTANTS
    Persons,       \* subject |-> the address its tokens carry
    JitBrokers,    \* broker replicas
    JitWorlds

VARIABLES
    jitWorld,
    rules,       \* set of [matcher, groups]                 provisioning_rules
    person,      \* subject |-> "absent", "row" or "claimed" user_directory
    jitMember,   \* set of <<subject, group>>                OpenFGA
    jitMode,     \* provisioning.mode
    seenSet,     \* replica |-> subjects handled             in memory
    flow,        \* replica |-> subject |-> the background flow
    adding,      \* the admin's AddProvisioningRule call
    removedBy,   \* ghost: memberships an admin took away after provisioning
    missed       \* ghost: rules applied while a user was between reading the
                 \* rules and entering the directory

jitVars == <<jitWorld, rules, person, jitMember, jitMode, seenSet, flow,
             adding, removedBy, missed>>

Exact(a) == [local |-> a.local, domain |-> a.domain]
Wildcard(d) == [local |-> "*", domain |-> d]

\* MatchRules: the groups of the exact rules and of the domain's wildcard.
MatchRules(a, rs) ==
    UNION {r.groups : r \in {x \in rs : x.matcher \in {Exact(a), Wildcard(a.domain)}}}

NoFlow == [pc |-> "none"]
FlowAt(b, s, pc) == flow[b][s].pc = pc
FlowTo(b, s, r) == flow' = [flow EXCEPT ![b][s] = r]
NotAdding == [pc |-> "none"]

\* callerIdentity's directory upsert, on a call of its own.
UpsertPerson(s) ==
    /\ person[s] = "absent"
    /\ person' = [person EXCEPT ![s] = "row"]
    /\ UNCHANGED <<jitWorld, rules, jitMember, jitMode, seenSet, flow, adding, removedBy, missed>>

\* Seen: the first call of s at this replica starts a flow.
Seen(b, s) ==
    /\ s \notin seenSet[b]
    /\ seenSet' = [seenSet EXCEPT ![b] = @ \cup {s}]
    /\ FlowTo(b, s, [pc |-> "mode"])
    /\ UNCHANGED <<jitWorld, rules, person, jitMember, jitMode, adding, removedBy, missed>>

removeSeen(b, s) == seenSet' = [seenSet EXCEPT ![b] = @ \ {s}]

\* A failed read or claim ends the flow and lets the next call try again.
FlowFails(b, s) ==
    /\ jitWorld.faulty
    /\ removeSeen(b, s) /\ FlowTo(b, s, NoFlow)
    /\ UNCHANGED <<jitWorld, rules, person, jitMember, jitMode, adding, removedBy, missed>>

provisionMode(b, s) ==
    /\ FlowAt(b, s, "mode")
    /\ \/ /\ FlowTo(b, s, IF jitMode = "jit" THEN [pc |-> "rules"] ELSE NoFlow)
          /\ UNCHANGED <<jitWorld, rules, person, jitMember, jitMode, seenSet, adding, removedBy, missed>>
       \/ FlowFails(b, s)

ListRules(b, s) ==
    /\ FlowAt(b, s, "rules")
    /\ \/ /\ FlowTo(b, s, [pc |-> "claim", groups |-> MatchRules(Persons[s], rules)])
          /\ UNCHANGED <<jitWorld, rules, person, jitMember, jitMode, seenSet, adding, removedBy, missed>>
       \/ FlowFails(b, s)

(* Mutant: the claim is taken whether or not the row has one. *)
ClaimsAlways(s) == TRUE

\* ClaimProvisioning: one statement, won by the caller that finds no claim.
Claims(s) == person[s] # "claimed"

ClaimProvisioning(b, s) ==
    /\ FlowAt(b, s, "claim")
    /\ \/ /\ person' = [person EXCEPT ![s] = "claimed"]
          /\ FlowTo(b, s, IF Claims(s) /\ flow[b][s].groups # {}
                          THEN [pc |-> "write", groups |-> flow[b][s].groups] ELSE NoFlow)
          /\ UNCHANGED <<jitWorld, rules, jitMember, jitMode, seenSet, adding, removedBy, missed>>
       \/ FlowFails(b, s)

\* provision's loop: one group at a time; a failed write is skipped.
WriteTuple(b, s) ==
    /\ FlowAt(b, s, "write")
    /\ LET g == CHOOSE x \in flow[b][s].groups : TRUE
           left == flow[b][s].groups \ {g}
       IN  /\ jitMember' \in {jitMember \cup {<<s, g>>}}
                             \cup (IF jitWorld.faulty THEN {jitMember} ELSE {})
           /\ FlowTo(b, s, IF left = {} THEN NoFlow ELSE [pc |-> "write", groups |-> left])
    /\ UNCHANGED <<jitWorld, rules, person, jitMode, seenSet, adding, removedBy, missed>>

\* The replica restarts: its flows stop and it has seen nobody.
JitRestart(b) ==
    /\ jitWorld.crashes
    /\ seenSet' = [seenSet EXCEPT ![b] = {}]
    /\ flow' = [flow EXCEPT ![b] = [s \in DOMAIN Persons |-> NoFlow]]
    /\ UNCHANGED <<jitWorld, rules, person, jitMember, jitMode, adding, removedBy, missed>>

-----------------------------------------------------------------------------
(* The admin console *)

\* AddProvisioningRule: refused under SCIM; a matcher has one rule.
AddRule ==
    /\ adding.pc = "none" /\ jitMode = "jit"
    /\ \E r \in jitWorld.adds :
         /\ \A x \in rules : x.matcher # r.matcher
         /\ rules' = rules \cup {r}
         /\ adding' = IF r.matcher.local = "*" THEN NotAdding
                      ELSE [pc |-> "subjects", rule |-> r]
    /\ UNCHANGED <<jitWorld, person, jitMember, jitMode, seenSet, flow, removedBy, missed>>

\* An exact rule is applied at once to the users the directory knows; a failed
\* lookup is only logged.
SubjectsByEmail ==
    /\ adding.pc = "subjects"
    /\ LET known == {s \in DOMAIN Persons :
                        /\ person[s] # "absent"
                        /\ Exact(Persons[s]) = adding.rule.matcher}
       IN  /\ adding' \in {[pc |-> "apply", todo |-> known \X adding.rule.groups]}
                          \cup (IF jitWorld.faulty THEN {NotAdding} ELSE {})
           /\ missed' = missed \cup {<<s, adding.rule>> : s \in {p \in DOMAIN Persons \ known :
                \E b \in JitBrokers : FlowAt(b, p, "claim")
                                     /\ ~(adding.rule.groups \subseteq flow[b][p].groups)}}
    /\ UNCHANGED <<jitWorld, rules, person, jitMember, jitMode, seenSet, flow, removedBy>>

ApplyRule ==
    /\ adding.pc = "apply"
    /\ IF adding.todo = {}
       THEN adding' = NotAdding /\ UNCHANGED <<jitMember, removedBy>>
       ELSE LET t == CHOOSE x \in adding.todo : TRUE
            IN  /\ adding' = [adding EXCEPT !.todo = @ \ {t}]
                /\ \/ jitMember' = jitMember \cup {t} /\ removedBy' = removedBy \ {t}
                   \/ jitWorld.faulty /\ UNCHANGED <<jitMember, removedBy>>
    /\ UNCHANGED <<jitWorld, rules, person, jitMode, seenSet, flow, missed>>

DeleteProvisioningRule ==
    /\ "delete" \in jitWorld.admin
    /\ \E r \in rules : rules' = rules \ {r}
    /\ UNCHANGED <<jitWorld, person, jitMember, jitMode, seenSet, flow, adding, removedBy, missed>>

\* An admin removes a membership in the Roles tab.
RemoveMember(t) ==
    /\ "remove" \in jitWorld.admin
    /\ jitMember' = jitMember \ {t}
    /\ removedBy' = IF person[t[1]] = "claimed" /\ \A b \in JitBrokers : ~FlowAt(b, t[1], "write")
                    THEN removedBy \cup {t} ELSE removedBy
    /\ UNCHANGED <<jitWorld, rules, person, jitMode, seenSet, flow, adding, missed>>

SwitchMode ==
    /\ "mode" \in jitWorld.admin
    /\ jitMode' = IF jitMode = "jit" THEN "scim" ELSE "jit"
    /\ UNCHANGED <<jitWorld, rules, person, jitMember, seenSet, flow, adding, removedBy, missed>>

-----------------------------------------------------------------------------
JitInit ==
    /\ jitWorld \in JitWorlds
    /\ rules = jitWorld.rules
    /\ person = [s \in DOMAIN Persons |-> "absent"]
    /\ jitMember = {}
    /\ jitMode = "jit"
    /\ seenSet = [b \in JitBrokers |-> {}]
    /\ flow = [b \in JitBrokers |-> [s \in DOMAIN Persons |-> NoFlow]]
    /\ adding = NotAdding
    /\ removedBy = {}
    /\ missed = {}

JitNext ==
    \/ \E s \in jitWorld.people : UpsertPerson(s)
    \/ \E b \in JitBrokers, s \in jitWorld.people :
          \/ Seen(b, s) \/ provisionMode(b, s) \/ ListRules(b, s)
          \/ ClaimProvisioning(b, s) \/ WriteTuple(b, s)
    \/ \E b \in JitBrokers : JitRestart(b)
    \/ AddRule \/ SubjectsByEmail \/ ApplyRule \/ DeleteProvisioningRule
    \/ \E t \in jitMember : RemoveMember(t)
    \/ SwitchMode

JitSpec == JitInit /\ [][JitNext]_jitVars

-----------------------------------------------------------------------------
\* A user gets the groups of the rules once.  What an admin takes away from a
\* provisioned user is not given back by a later call of the user, at any
\* replica and after any restart: only adding an exact rule again does that.  A
\* replica that treats a user as handled and has no flow for the user did not
\* lose the user to a failure: the claim is taken, unless the tenant left mode
\* jit at some time.  And with every store answering, no restart and no rule
\* deleted or membership removed, a provisioned user at rest has every group of
\* the exact rule for its address, whether the rule came before or after the
\* user: unless the user's flow had read the rules before the rule was added
\* and reached the directory only after the rule was applied.
GroupsAreGivenOnce ==
    /\ removedBy \cap jitMember = {}
    /\ "mode" \notin jitWorld.admin =>
        \A b \in JitBrokers, s \in DOMAIN Persons :
            s \in seenSet[b] /\ FlowAt(b, s, "none") => person[s] = "claimed"
    /\ ~jitWorld.faulty /\ ~jitWorld.crashes /\ jitWorld.admin = {} /\ adding = NotAdding =>
        \A s \in DOMAIN Persons, r \in rules :
            /\ person[s] = "claimed" /\ r.matcher = Exact(Persons[s])
            /\ <<s, r>> \notin missed
            /\ \A b \in JitBrokers : FlowAt(b, s, "none")
            => {s} \X r.groups \subseteq jitMember
=============================================================================
