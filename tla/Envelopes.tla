------------------------------ MODULE Envelopes ------------------------------
(***************************************************************************)
(* Delegation envelopes: SendEnvelope to a user or a group,                *)
(* RespondToEnvelope and the task it spawns, DismissEnvelope, and the      *)
(* tasks CreateTask stamps as delegated by an envelope's sender.           *)
(*                                                                         *)
(* A call is a record with a pc; between two of its requests (Postgres,    *)
(* OpenFGA, OPA, the revocation cache) other calls and the clock run.      *)
(***************************************************************************)
EXTENDS Naturals, Sequences, FiniteSets

CONSTANTS
  Members,        \* users of the tenant
  Envs,           \* envelope ids, a set of naturals (UUIDs compare as strings)
  Mailers,        \* calls in flight
  Scopes,         \* capability scopes
  EnvelopeTTL,    \* envelopeTTL, in ticks
  Staleness,      \* how old an answer of the revocation cache may be
  MaxFanOut,      \* maxEnvelopeFanOut
  MaxStamps,      \* maxEnvelopeTasks
  Budget,         \* defaultDelegationBudget, and a spawned task's CostBudget
  MailWorlds      \* what a behaviour starts from and may do

VARIABLES
  mailWorld, mailNow,
  envs,           \* the envelopes table
  held,           \* held[u]: the scopes of the skills u may invoke
  cohort,         \* the delegatable members of the one group
  revokedAt,      \* revokedAt[u]: when u was blocked or revoked-all; 0 is never
  stamps,         \* stamps[e]: the tasks carrying envelope e, in creation order
  mail            \* mail[p]: the call p is serving

mailVars == <<mailWorld, mailNow, envs, held, cohort, revokedAt, stamps, mail>>

NoEnv == [state |-> "none"]
NoMail == [pc |-> "idle"]
Cohort == "group"

MailInit ==
  /\ mailWorld \in MailWorlds
  /\ mailNow = 1
  /\ envs = mailWorld.envs
  /\ held = [u \in Members |-> Scopes]
  /\ cohort = mailWorld.cohort
  /\ revokedAt = [u \in Members |-> 0]
  /\ stamps = [e \in Envs |-> << >>]
  /\ mail = [p \in Mailers |-> NoMail]

Allowed(op) == op \in mailWorld.ops
MailAt(p, pc) == mail[p].pc = pc
MailTo(p, pc) == mail' = [mail EXCEPT ![p].pc = pc]
MailStart(p, c) == mail[p] = NoMail /\ mail' = [mail EXCEPT ![p] = c]
MailEnd(p) == mail' = [mail EXCEPT ![p] = NoMail]

MailTick ==
  /\ mailNow < mailWorld.days
  /\ mailNow' = mailNow + 1
  /\ UNCHANGED <<mailWorld, envs, held, cohort, revokedAt, stamps, mail>>

(* An administrator changes what a member may invoke, or the group. *)
Regrant(u) ==
  /\ Allowed("regrant")
  /\ \E s \in {{}, Scopes} : held' = [held EXCEPT ![u] = s]
  /\ UNCHANGED <<mailWorld, mailNow, envs, cohort, revokedAt, stamps, mail>>

Regroup(u) ==
  /\ Allowed("regroup")
  /\ cohort' = IF u \in cohort THEN cohort \ {u} ELSE cohort \cup {u}
  /\ UNCHANGED <<mailWorld, mailNow, envs, held, revokedAt, stamps, mail>>

(* BlockUser or revoke-all of a member (modelled in Credentials). *)
RevokeMember(u) ==
  /\ Allowed("revoke") /\ revokedAt[u] = 0
  /\ revokedAt' = [revokedAt EXCEPT ![u] = mailNow]
  /\ UNCHANGED <<mailWorld, mailNow, envs, held, cohort, stamps, mail>>

-----------------------------------------------------------------------------
(* Sending                                                                  *)

sharesDelegatableGroup(from, to) == {from, to} \subseteq cohort

(* aikonos/envelope_send for a top-level send: depth 1, risk 0. *)
DecideEnvelopeSend(c) ==
  /\ c.edge
  /\ c.att \subseteq c.scopes
  /\ c.cost <= Budget

(* The scopes the token of the envelope is good for: the parent token the  *)
(* sender forwards, if any, else a root over the sender's scopes, either   *)
(* one attenuated.  A parent is told from none by having a scope.          *)
buildDelegationToken(c) ==
  IF c.att = {} THEN {} ELSE (IF c.parent = {} THEN c.scopes ELSE c.parent) \cap c.att

SendEnvelope(p, from, to, att, parent, cost) ==
  /\ Allowed("send")
  /\ MailStart(p, [pc |-> IF to = Cohort THEN "members" ELSE "scopes", from |-> from,
                   todo |-> {to} \ {from}, to |-> from, att |-> att,
                   parent |-> parent, cost |-> cost, scopes |-> {}, edge |-> FALSE])
  /\ UNCHANGED <<mailWorld, mailNow, envs, held, cohort, revokedAt, stamps>>

(* sendEnvelopeToGroup: the sender belongs to the group, and at most       *)
(* MaxFanOut other members are reached, one after the other.               *)
sendEnvelopeToGroup(p) ==
  LET from == mail[p].from
      others == cohort \ {from}
  IN  /\ MailAt(p, "members")
      /\ IF from \in cohort /\ Cardinality(others) \in 1..MaxFanOut
           THEN mail' = [mail EXCEPT ![p].pc = "scopes", ![p].todo = others]
           ELSE MailEnd(p)
      /\ UNCHANGED <<mailWorld, mailNow, envs, held, cohort, revokedAt, stamps>>

(* The next recipient, in the order OpenFGA lists them; senderDelegableScopes *)
(* is read once for the check and the mint.                                  *)
senderDelegableScopes(p) ==
  /\ MailAt(p, "scopes")
  /\ \E to \in mail[p].todo :
       mail' = [mail EXCEPT ![p].pc = "edge", ![p].to = to, ![p].todo = @ \ {to},
                            ![p].scopes = held[mail[p].from]]
  /\ UNCHANGED <<mailWorld, mailNow, envs, held, cohort, revokedAt, stamps>>

(* A direct edge, or the delegation group the two share. *)
CheckDelegate(p) ==
  LET from == mail[p].from
      to == mail[p].to
  IN  /\ MailAt(p, "edge")
      /\ mail' = [mail EXCEPT ![p].pc = "deliver",
                    ![p].edge = <<from, to>> \in mailWorld.peers
                                  \/ sharesDelegatableGroup(from, to)]
      /\ UNCHANGED <<mailWorld, mailNow, envs, held, cohort, revokedAt, stamps>>

CreateEnvelope(e, c, state) ==
  envs' = [envs EXCEPT ![e] =
             [state |-> state, from |-> c.from, to |-> c.to, att |-> c.att, cost |-> c.cost,
              forwarded |-> c.parent # {}, minted |-> buildDelegationToken(c), could |-> c.scopes,
              made |-> mailNow, exp |-> mailNow + EnvelopeTTL]]

(* The decision, the token and the insert.  A refused or failed delivery,  *)
(* one with a parent token that does not decode among them, skips the      *)
(* recipient; OPA may also accept on the recipient's behalf.               *)
sendEnvelopeToUser(p) ==
  LET c == mail[p]
      next == [c EXCEPT !.pc = "scopes"]
  IN  /\ MailAt(p, "deliver")
      /\ \/ /\ DecideEnvelopeSend(c)
            /\ \E e \in mailWorld.slots, auto \in mailWorld.auto :
                 /\ envs[e] = NoEnv
                 /\ CreateEnvelope(e, c, IF auto THEN "ACCEPTED" ELSE "DELIVERED")
                 /\ mail' = [mail EXCEPT ![p] =
                      IF auto THEN [pc |-> "spawn", env |-> e, since |-> mailNow, next |-> next]
                      ELSE next]
         \/ mail' = [mail EXCEPT ![p] = next] /\ UNCHANGED envs
      /\ UNCHANGED <<mailWorld, mailNow, held, cohort, revokedAt, stamps>>

SendDone(p) ==
  /\ MailAt(p, "scopes") /\ mail[p].todo = {}
  /\ MailEnd(p)
  /\ UNCHANGED <<mailWorld, mailNow, envs, held, cohort, revokedAt, stamps>>

-----------------------------------------------------------------------------
(* Answering                                                                *)

Open(e) == envs[e].state \in {"PENDING", "DELIVERED"}
Expired(e) == mailNow >= envs[e].exp

(* Mutant: the update is keyed by the envelope alone. *)
RespondEnvelopeUnguarded(e, u) == envs[e].to = u /\ ~Expired(e)

(* RespondEnvelope, the compare-and-set both kinds of answer go through. *)
RespondEnvelope(e, u) == envs[e].to = u /\ Open(e) /\ ~Expired(e)

(* Revoked(CreatedAt), as the cached state of the sender may answer it. *)
SenderRevoked(e, seen) == revokedAt[envs[e].from] \in 1..seen /\ envs[e].made <= seen

(* The envelope is loaded and, for an accept, its expiry checked. *)
RespondToEnvelope(p, u, e, accepted) ==
  /\ Allowed("respond") /\ envs[e] # NoEnv
  /\ accepted => ~Expired(e)
  /\ MailStart(p, [pc |-> IF accepted THEN "sender" ELSE "answer", user |-> u, env |-> e,
                   accepted |-> accepted, since |-> mailNow, next |-> NoMail])
  /\ UNCHANGED <<mailWorld, mailNow, envs, held, cohort, revokedAt, stamps>>

(* The sender's state, at most Staleness old; a revoked sender ends it. *)
CheckSender(p) ==
  LET old == IF mailNow > Staleness THEN mailNow - Staleness ELSE 0
  IN  /\ MailAt(p, "sender")
      /\ \E seen \in old..mailNow :
           IF SenderRevoked(mail[p].env, seen) THEN MailEnd(p) ELSE MailTo(p, "answer")
      /\ UNCHANGED <<mailWorld, mailNow, envs, held, cohort, revokedAt, stamps>>

Answer(p) ==
  LET c == mail[p]
  IN  /\ MailAt(p, "answer")
      /\ IF RespondEnvelope(c.env, c.user)
           THEN /\ envs' = [envs EXCEPT ![c.env].state =
                              IF c.accepted THEN "ACCEPTED" ELSE "REJECTED"]
                /\ IF c.accepted THEN MailTo(p, "spawn") ELSE MailEnd(p)
           ELSE MailEnd(p) /\ UNCHANGED envs
      /\ UNCHANGED <<mailWorld, mailNow, held, cohort, revokedAt, stamps>>

(* applyEnvelopeLimits on a task with its own budget. *)
applyEnvelopeLimits(e, budget) ==
  [scopes |-> envs[e].att,
   cost |-> IF envs[e].cost > 0 /\ (budget <= 0 \/ envs[e].cost < budget)
              THEN envs[e].cost ELSE budget]

Stamp(e, budget, how, since) ==
  stamps' = [stamps EXCEPT ![e] = Append(@, [limits |-> applyEnvelopeLimits(e, budget),
                                             how |-> how, since |-> since])]

(* spawnDelegatedTask: a failure is logged and leaves an accepted envelope *)
(* with no task.                                                           *)
spawnDelegatedTask(p) ==
  LET c == mail[p]
  IN  /\ MailAt(p, "spawn")
      /\ Stamp(c.env, Budget, "spawn", c.since) \/ UNCHANGED stamps
      /\ mail' = [mail EXCEPT ![p] = c.next]
      /\ UNCHANGED <<mailWorld, mailNow, envs, held, cohort, revokedAt>>

DismissEnvelope(u, e) ==
  /\ Allowed("dismiss") /\ Open(e) /\ envs[e].to = u
  /\ envs' = [envs EXCEPT ![e].state = "DISMISSED"]
  /\ UNCHANGED <<mailWorld, mailNow, held, cohort, revokedAt, stamps, mail>>

-----------------------------------------------------------------------------
(* CreateTask with an envelope_id                                           *)

envelopeUsable(e) ==
  mailNow <= envs[e].exp /\ envs[e].state \in {"PENDING", "DELIVERED", "ACCEPTED", "DISMISSED"}

(* envelopeDelegator: recipient and state of the loaded row; an envelope    *)
(* that does not apply is ignored and the task is created without it.      *)
envelopeDelegator(p, u, e) ==
  /\ Allowed("create") /\ envs[e] # NoEnv /\ envs[e].to = u /\ envelopeUsable(e)
  /\ MailStart(p, [pc |-> "count", env |-> e])
  /\ UNCHANGED <<mailWorld, mailNow, envs, held, cohort, revokedAt, stamps>>

CountEnvelopeTasks(e) == Len(stamps[e]) < MaxStamps

CountTasks(p) ==
  /\ MailAt(p, "count")
  /\ IF CountEnvelopeTasks(mail[p].env) THEN MailTo(p, "create") ELSE MailEnd(p)
  /\ UNCHANGED <<mailWorld, mailNow, envs, held, cohort, revokedAt, stamps>>

CreateTask(p) ==
  /\ MailAt(p, "create")
  /\ \E budget \in {0, Budget} : Stamp(mail[p].env, budget, "create", mailNow)
  /\ MailEnd(p)
  /\ UNCHANGED <<mailWorld, mailNow, envs, held, cohort, revokedAt>>

-----------------------------------------------------------------------------
MailNext ==
  \/ MailTick
  \/ \E u \in mailWorld.senders : Regrant(u) \/ Regroup(u) \/ RevokeMember(u)
  \/ \E u \in mailWorld.users, e \in Envs : DismissEnvelope(u, e)
  \/ \E p \in Mailers :
       \/ \E from \in mailWorld.senders, to \in mailWorld.targets, att \in mailWorld.atts,
             parent \in mailWorld.parents, cost \in mailWorld.costs :
               SendEnvelope(p, from, to, att, parent, cost)
       \/ sendEnvelopeToGroup(p) \/ senderDelegableScopes(p) \/ CheckDelegate(p)
       \/ sendEnvelopeToUser(p) \/ SendDone(p)
       \/ \E u \in mailWorld.users, e \in Envs :
            \/ \E accepted \in BOOLEAN : RespondToEnvelope(p, u, e, accepted)
            \/ envelopeDelegator(p, u, e)
       \/ CheckSender(p) \/ Answer(p) \/ spawnDelegatedTask(p)
       \/ CountTasks(p) \/ CreateTask(p)

MailSpec == MailInit /\ [][MailNext]_mailVars

-----------------------------------------------------------------------------
Spawned(e) == {i \in DOMAIN stamps[e] : stamps[e][i].how = "spawn"}

(* What an envelope gives is what was offered, to the one it was offered   *)
(* to, once.  It spawns its recipient's task at most once and only when    *)
(* accepted, however many answers, dismissals and retries race for it; an  *)
(* accept that begins when the sender has been blocked or revoked for      *)
(* longer than the cache may be stale spawns nothing (F165).  Every task   *)
(* on it is held to scopes the sender held during the send, and costs no   *)
(* more than the sender offered, although the sender's grants change       *)
(* meanwhile; the token recorded on it is good for no scope beyond those,  *)
(* and for all of them unless the sender forwarded a narrower one.         *)
StampsAreEntitled ==
  \A e \in Envs :
    /\ \A i, j \in Spawned(e) : i = j
    /\ Spawned(e) # {} => envs[e].state = "ACCEPTED"
    /\ \A i \in Spawned(e) :
         revokedAt[envs[e].from] > 0 /\ envs[e].made <= revokedAt[envs[e].from] =>
           stamps[e][i].since <= revokedAt[envs[e].from] + Staleness
    /\ \A i \in DOMAIN stamps[e] :
         /\ stamps[e][i].limits.scopes \subseteq envs[e].could
         /\ envs[e].minted \subseteq stamps[e][i].limits.scopes
         /\ ~envs[e].forwarded => envs[e].minted = stamps[e][i].limits.scopes
         /\ envs[e].cost > 0 => stamps[e][i].limits.cost <= envs[e].cost
=============================================================================
