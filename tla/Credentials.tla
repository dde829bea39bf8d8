----------------------------- MODULE Credentials -----------------------------
(***************************************************************************)
(* The credentials the broker honours, and the revocation view it judges   *)
(* them by: a session (OIDC bearer), the owner grant of a gateway session, *)
(* an agent's API key, and the capability token of a plan step.  Each is   *)
(* issued at one time and presented later, to any replica, while admins    *)
(* block users, revoke all sessions and suspend agents on any replica.     *)
(*                                                                         *)
(* One user "u" and one agent "a" stand for every principal: the Checker   *)
(* keeps their keys apart.  Times are half seconds, so that issue times    *)
(* written with second precision (Sec) are earlier than the epochs, which  *)
(* keep theirs.                                                            *)
(***************************************************************************)
EXTENDS RevocationCache

CONSTANTS
  SessionTTL,     \* lifetime of an OIDC bearer
  GrantTTL,       \* Deps.GatewayGrantTTL
  TokenTTL,       \* capability.Minter.TTL
  KeyTTL,         \* lifetime of an API key
  Followed,       \* the replicas whose calls are followed: replicas share
                  \* nothing but the store, so one is enough
  Worlds          \* bound: the calls, the admin writes and the issues of a
                  \* behaviour, and the rows and credentials it starts with

VARIABLES
  world,          \* the member of Worlds this behaviour is about
  cred,           \* cred[kind]: the credential of that kind outstanding
  task,           \* the gateway task: [subj, act], or NoTask
  req             \* req[p]: the call reader p looks up for

credVars == <<cred, task, req>>
allVars == <<vars, credVars, world>>

Kinds == {"bearer", "grant", "key", "token"}
None == [iat |-> 0, exp |-> 0, subj |-> FALSE, act |-> FALSE]
NoTask == [subj |-> FALSE, act |-> FALSE]
NoReq == [phase |-> "idle"]

Sec(t) == t - (t % 2)

(***************************************************************************)
(* Revoked and AgentRefusal: what a State says of a credential's issue     *)
(* time, and of an agent's run.  Epoch 0, before every issue, is none.     *)
(***************************************************************************)
Revoked(st, iat) == st.blocked \/ iat < st.nb
AgentRefusal(st) == st.status \notin {"", "active"}

Live(c) == c # None /\ now < c.exp

(* Each credential's own verification: its signature (or hash), tenant,    *)
(* expiry and holder.  Only genuine credentials are presented, so what is  *)
(* left is whether it is outstanding and unexpired; a capability token     *)
(* also belongs to the one task.                                           *)
Validate == Live(cred["bearer"])
VerifyGrant == Live(cred["grant"])
ResolveKey == Live(cred["key"])
Authorize == Live(cred["token"]) /\ task # NoTask

-----------------------------------------------------------------------------
(***************************************************************************)
(* What a call presents, and which principals it looks up, in order.       *)
(***************************************************************************)
Presents(op) ==
  CASE op \in {"rpc", "mint"}     -> "bearer"
    [] op = "grant"               -> "grant"
    [] op \in {"key", "assert"}   -> "key"
    [] op = "invoke"              -> "token"

(* OnBehalfOf: the subject, then the actor. *)
OnBehalfOf(c) == IF c.subj THEN <<"u", "a">> ELSE <<"a">>

(* RevocationInterceptor: the user.  InvokeTool and verifyOwnerGrant:      *)
(* OnBehalfOf the credential's subject and actor; an actorless grant binds *)
(* its agent through runAgent, which asks for the agent too.               *)
(* resolveAgentCredential: the agent, then the user an assertion names.    *)
Lookups(op, c) ==
  CASE op \in {"rpc", "mint"}        -> <<"u">>
    [] op \in {"grant", "invoke"}    -> OnBehalfOf(c)
    [] op = "key"                    -> <<"a">>
    [] op = "assert"                 -> <<"a", "u">>

(* Mutant: the actor's epoch does not void what was issued on its behalf. *)
PermitsIgnoringActor(op, c, k, st) ==
  CASE k = "u" -> ~Revoked(st, IF op = "assert" THEN c.iat2 ELSE c.iat)
    [] k = "a" -> ~AgentRefusal(st)

(***************************************************************************)
(* What the state of principal k must say for the call to go on.  The      *)
(* actor's epoch counts where the credential names the actor.              *)
(***************************************************************************)
Permits(op, c, k, st) ==
  CASE k = "u" -> ~Revoked(st, IF op = "assert" THEN c.iat2 ELSE c.iat)
    [] k = "a" -> /\ ~AgentRefusal(st)
                  /\ c.act => ~Revoked(st, c.iat)

(***************************************************************************)
(* The credentials a call needs verify.  An assertion is a bearer next to  *)
(* the key, with an issue time of its own.                                 *)
(***************************************************************************)
Verified(op) ==
  CASE op \in {"rpc", "mint"} -> Validate
    [] op = "grant"           -> VerifyGrant
    [] op = "key"             -> ResolveKey
    [] op = "assert"          -> ResolveKey /\ Validate
    [] op = "invoke"          -> Authorize

Call(p, r, op) ==
  LET c == cred[Presents(op)]
      shown == [iat |-> c.iat, iat2 |-> cred["bearer"].iat,
                subj |-> c.subj, act |-> c.act]
      todo == Lookups(op, c)
  IN /\ req[p].phase = "idle"
     /\ Verified(op)
     /\ Begin(p, r, Head(todo))
     /\ req' = [req EXCEPT ![p] =
          [phase |-> "looking", op |-> op, rep |-> r, start |-> now,
           shown |-> shown, todo |-> todo, seen |-> << >>]]
     /\ UNCHANGED <<cred, task>>

(* The state read permits the call: next principal, or the call goes on. *)
Proceed(p) ==
  LET q == req[p]
      k == Head(q.todo)
      st == rows[k][read[p].ver]
      looked == [q EXCEPT !.todo = Tail(@), !.seen = Append(@, read[p].ver)]
  IN /\ q.phase = "looking"
     /\ read[p].phase = "answered"
     /\ Permits(q.op, q.shown, k, st)
     /\ IF Tail(q.todo) = << >>
          THEN /\ req' = [req EXCEPT ![p] = [looked EXCEPT !.phase = "accepted"]]
               /\ read' = [read EXCEPT ![p] = Idle]
               /\ UNCHANGED <<now, rows, superseded, cache, gen, completed, write>>
          ELSE /\ req' = [req EXCEPT ![p] = looked]
               /\ Begin(p, q.rep, Head(Tail(q.todo)))
     /\ UNCHANGED <<cred, task>>

(* Blocked, revoked, agent not active, or the state could not be read. *)
Refuse(p) ==
  LET q == req[p]
  IN /\ q.phase = "looking"
     /\ \/ read[p].phase = "idle"
        \/ /\ read[p].phase = "answered"
           /\ ~Permits(q.op, q.shown, Head(q.todo),
                       rows[Head(q.todo)][read[p].ver])
     /\ req' = [req EXCEPT ![p] = NoReq]
     /\ read' = [read EXCEPT ![p] = Idle]
     /\ UNCHANGED <<now, rows, superseded, cache, gen, completed, write,
                    cred, task>>

-----------------------------------------------------------------------------
(***************************************************************************)
(* What an accepted call does.                                             *)
(***************************************************************************)
Min2(a, b) == IF a < b THEN a ELSE b

(* MintSessionGrant: no actor, and no longer than the session it came from. *)
MintSessionGrant(p) ==
  LET exp == Sec(Min2(now + GrantTTL, cred["bearer"].exp))
  IN /\ req[p].op = "mint"
     /\ cred' = IF now < cred["bearer"].exp
                  THEN [cred EXCEPT !["grant"] =
                          [iat |-> Sec(now), exp |-> exp,
                           subj |-> TRUE, act |-> FALSE]]
                  ELSE cred
     /\ UNCHANGED task

(* resolveAgentCredential: an external grant naming the agent. *)
MintExternalGrant(p) ==
  /\ req[p].op \in {"key", "assert"}
  /\ cred' = [cred EXCEPT !["grant"] =
                [iat |-> Sec(now), exp |-> Sec(now + GrantTTL),
                 subj |-> req[p].op = "assert", act |-> TRUE]]
  /\ UNCHANGED task

(* CreateGatewayTask binds the grant's owner and an agent.  One task is    *)
(* followed at a time: a token of the last one is good for that one only.  *)
CreateGatewayTask(p) ==
  /\ req[p].op = "grant"
  /\ task' = [subj |-> req[p].shown.subj, act |-> TRUE]
  /\ cred' = [cred EXCEPT !["token"] = None]

(* An RPC, or InvokeTool's dispatch: no credential comes of it. *)
Serve(p) ==
  /\ req[p].op \in {"rpc", "invoke"}
  /\ UNCHANGED <<cred, task>>

Finish(p) ==
  /\ req[p].phase = "accepted"
  /\ MintSessionGrant(p) \/ MintExternalGrant(p) \/ CreateGatewayTask(p) \/ Serve(p)
  /\ req' = [req EXCEPT ![p] = NoReq]
  /\ UNCHANGED vars

-----------------------------------------------------------------------------
(***************************************************************************)
(* Credentials issued by themselves.                                       *)
(***************************************************************************)
(* The identity provider signs the user in; iat has second precision. *)
SignIn ==
  /\ cred' = [cred EXCEPT !["bearer"] =
                [iat |-> Sec(now), exp |-> now + SessionTTL,
                 subj |-> TRUE, act |-> FALSE]]
  /\ UNCHANGED <<vars, task, req>>

(* MintAgentApiKey and RegisterAgentPublicKey: any status of the agent. *)
MintAgentApiKey ==
  /\ cred' = [cred EXCEPT !["key"] =
                [iat |-> now, exp |-> now + KeyTTL,
                 subj |-> FALSE, act |-> TRUE]]
  /\ UNCHANGED <<vars, task, req>>

RevokeAgentApiKey ==
  /\ Live(cred["key"])
  /\ cred' = [cred EXCEPT !["key"] = None]
  /\ UNCHANGED <<vars, task, req>>

MintTTL == [iat |-> Sec(now), exp |-> Sec(now) + TokenTTL,
            subj |-> task.subj, act |-> TRUE]

(* mintStepTokens: for a released step of the task, without a lookup. *)
MintStepToken ==
  /\ task # NoTask
  /\ cred' = [cred EXCEPT !["token"] = MintTTL]
  /\ UNCHANGED <<vars, task, req>>

-----------------------------------------------------------------------------
(***************************************************************************)
(* The admin writes.  SetAgentStatus reads the agent's status before it    *)
(* writes, and the write is conditional on it.                             *)
(***************************************************************************)
(* agentTransition: retired is final. *)
agentTransition(from, to) ==
  \/ from \in {"staged", "suspended"} /\ to = "active"
  \/ from = "active" /\ to = "suspended"
  \/ from # "retired" /\ to = "retired"

SetAgentStatus(w, r, to) ==
  LET from == rows["a"][Current("a")].status
  IN /\ agentTransition(from, to)
     /\ BeginWrite(w, r, "a", [kind |-> to, from |-> from])

(* SetUserBlocked, RevokeUserSessions, RevokeAgentSessions. *)
RevocationAdmin(w, r, op) ==
  BeginWrite(w, r, IF op = "revokeAgent" THEN "a" ELSE "u",
             [kind |-> op, from |-> ""])

BeginChange(w, r, op) ==
  /\ IF op \in {"active", "suspended", "retired"}
       THEN SetAgentStatus(w, r, op) ELSE RevocationAdmin(w, r, op)
  /\ UNCHANGED credVars

(* The row the statement leaves, or the row itself when it matches none. *)
Changed(row, op, at) ==
  CASE op.kind = "block"      -> [row EXCEPT !.blocked = TRUE]
    [] op.kind = "unblock"    -> [row EXCEPT !.blocked = FALSE]
    [] op.kind \in {"revokeUser", "revokeAgent"} -> [row EXCEPT !.nb = at]
    [] OTHER -> IF row.status = op.from THEN [row EXCEPT !.status = op.kind]
                ELSE row

CommitChange(w) ==
  LET k == write[w].key
      row == rows[k][Current(k)]
      new == Changed(row, write[w].op, write[w].at)
  IN /\ write[w].phase = "begun"
     /\ IF new = row THEN CommitNothing(w) ELSE Commit(w, new)
     /\ UNCHANGED credVars

-----------------------------------------------------------------------------
UserRow == [blocked |-> FALSE, nb |-> 0, status |-> ""]
AgentRow == [blocked |-> FALSE, nb |-> 0, status |-> "active"]
Statuses == {"", "staged", "active", "suspended", "retired"}
CredStates == [blocked : BOOLEAN, nb : {0}, status : Statuses]
CredRows == [blocked : BOOLEAN, nb : Nat, status : Statuses]

ASSUME PrincipalAssumption == Keys = {"u", "a"} /\ Followed \subseteq Replicas
ASSUME LifetimeAssumption == {SessionTTL, GrantTTL, TokenTTL, KeyTTL} \subseteq Nat

(* A user has no status; an agent has no block. *)
ASSUME WorldAssumption ==
  \A w \in Worlds :
    /\ w.rows["u"] \in CredRows /\ w.rows["u"].status = ""
    /\ w.rows["a"] \in CredRows /\ ~w.rows["a"].blocked
    /\ w.cred \in [Kinds -> [iat : Nat, exp : Nat, subj : BOOLEAN, act : BOOLEAN]]
    /\ w.ops \subseteq {"rpc", "mint", "grant", "key", "assert", "invoke"}
    /\ w.changes \subseteq {"block", "unblock", "revokeUser", "revokeAgent",
                            "active", "suspended", "retired"}

CredInit ==
  /\ Init
  /\ world \in Worlds
  /\ rows = [k \in Keys |-> <<world.rows[k]>>]
  /\ cred = world.cred
  /\ task = NoTask
  /\ req = [p \in Readers |-> NoReq]

LookupStep(p) == req[p].phase = "looking" /\ CacheStep(p)

Issue ==
  \/ "SignIn" \in world.issues /\ SignIn
  \/ "MintAgentApiKey" \in world.issues /\ (MintAgentApiKey \/ RevokeAgentApiKey)
  \/ "MintStepToken" \in world.issues /\ MintStepToken

CredNext ==
  /\ \/ Tick /\ UNCHANGED credVars
     \/ Issue
     \/ \E p \in Readers, r \in Followed, op \in world.ops : Call(p, r, op)
     \/ \E p \in Readers : LookupStep(p) /\ UNCHANGED credVars
     \/ \E p \in Readers : Proceed(p) \/ Refuse(p) \/ Finish(p)
     \/ \E w \in Writers, r \in Replicas, op \in world.changes : BeginChange(w, r, op)
     \/ \E w \in Writers : CommitChange(w) \/ (Reset(w) /\ UNCHANGED credVars)
  /\ UNCHANGED world

CredSpec == CredInit /\ [][CredNext]_allVars

-----------------------------------------------------------------------------
LastCurrent(k, v) == IF v = Current(k) THEN now ELSE superseded[k][v]

(***************************************************************************)
(* A credential is honoured only on the word of states of its subject and  *)
(* its actor that permit it, and each of those was still the current one   *)
(* less than TTL before the call began: a block, a revoke-all or a         *)
(* suspension stops every credential issued before it, at every place that *)
(* takes one, within the TTL (the header of revocation.go).                *)
(***************************************************************************)
VoidCredentialsStop ==
  \A p \in Readers :
    LET q == req[p]
        asked == Lookups(q.op, q.shown)
    IN q.phase = "accepted" =>
         /\ Len(q.seen) = Len(asked)
         /\ \A i \in 1 .. Len(asked) :
              LET st == rows[asked[i]][q.seen[i]]
              IN /\ LastCurrent(asked[i], q.seen[i]) + TTL > q.start
                 /\ st.status \in {"", "active"}
                 /\ ~st.blocked
                 /\ (asked[i] = "u" \/ q.shown.act) =>
                      st.nb <= (IF asked[i] = "u" /\ q.op = "assert"
                                  THEN q.shown.iat2 ELSE q.shown.iat)

=============================================================================
