----------------------------- MODULE BrokerKeys -----------------------------
(***************************************************************************)
(* How the replicas of a broker come to hold the same keys (cmd/broker/    *)
(* main.go, guard.go, secrets/vault.go).  At start a broker resolves four  *)
(* keys in order: audit signing, capability root, gateway grant, workspace *)
(* session.  Each is read from Vault, or created there with check-and-set  *)
(* 0 when it is missing; a broker that loses that race reads again.  What  *)
(* a broker does when Vault fails it differs from key to key, and two      *)
(* startup guards refuse some of the outcomes outside development mode.    *)
(* The audit key has versions: an operator rotates it while brokers run,   *)
(* and an event names the version that signed it.                          *)
(*                                                                         *)
(* A key is the record of who made it, so two keys are equal only when     *)
(* they are the same key.  kv[n] is the sequence of versions Vault holds.  *)
(***************************************************************************)
EXTENDS Naturals, Sequences, FiniteSetsExt

CONSTANTS
    Replicas,     \* broker processes
    MaxUpsets,    \* starts, failed requests and revoked tokens together
    MaxVersions,  \* versions of the audit signing key
    BootWorlds    \* deployments: dev, vault, create, configured, env

KeyNames == {"auditSigning", "capability", "gatewayGrant", "workspaceSession"}

ASSUME BootAssumption ==
    /\ MaxUpsets \in Nat /\ MaxVersions \in Nat
    /\ BootWorlds \subseteq [dev : BOOLEAN, vault : BOOLEAN, create : BOOLEAN,
                             configured : SUBSET {"capability", "gatewayGrant"},
                             env : [KeyNames -> {"none", "weak", "strong"}]]

NoKeyYet == [by |-> "nobody"]

VARIABLES
    deployment,  \* the configuration all replicas share
    kv,          \* Vault's key-value store
    replica,     \* the replicas
    events,      \* the signatures of the audit trail: key and version
    faults

bootVars == <<deployment, kv, replica, events, faults>>

Off(boots) ==
    [pc |-> "down", name |-> "auditSigning", attempt |-> 0, retry |-> 0,
     draft |-> NoKeyYet, key |-> [n \in KeyNames |-> NoKeyYet], version |-> 0,
     durable |-> FALSE, token |-> "none", failed |-> {}, boots |-> boots]

BootInit ==
    /\ deployment \in BootWorlds
    /\ kv = [n \in KeyNames |-> <<>>]
    /\ replica = [b \in Replicas |-> Off(0)]
    /\ events = {}
    /\ faults = 0

BootAt(b, pc) == replica[b].pc = pc
Update(b, r) == replica' = [replica EXCEPT ![b] = r]
Upsets == MapThenSumSet(LAMBDA b : replica[b].boots, Replicas) + faults
MayBoot == Upsets < MaxUpsets
Fault == Upsets < MaxUpsets /\ faults' = faults + 1
Made(b, how) ==
    [by |-> b, boot |-> replica[b].boots, name |-> replica[b].name, how |-> how]
EnvKey == [by |-> "environment"]
\* The three tries at a create draw 0, 1 and 2; the fourth key is not kept.
Ephemeral == 3

-----------------------------------------------------------------------------
(* The order of main: the first guard runs after the capability key, the   *)
(* second after all four.                                                  *)
After(name) ==
    CASE name = "auditSigning" -> [pc |-> "resolve", name |-> "capability"]
      [] name = "capability" -> [pc |-> "guard", name |-> "gatewayGrant"]
      [] name = "gatewayGrant" -> [pc |-> "resolve", name |-> "workspaceSession"]
      [] name = "workspaceSession" -> [pc |-> "secretsGuard", name |-> name]

\* r has resolved its key to k.
Adopt(r, k) ==
    [r EXCEPT !.key = [@ EXCEPT ![r.name] = k], !.pc = After(r.name).pc, !.name = After(r.name).name,
              !.attempt = 0, !.retry = 0, !.draft = NoKeyYet]

\* Any failure of Vault while the signing key is resolved stops a broker
\* that is not in development mode.
resolveAuditSigningKey(b, r) ==
    IF deployment.vault /\ ~deployment.dev
    THEN [r EXCEPT !.pc = "fatal"]
    ELSE Adopt([r EXCEPT !.version = 0],
               IF deployment.env["auditSigning"] = "none" THEN NoKeyYet ELSE EnvKey)
\* An ephemeral key is not durable, which the guard refuses later.
newCapabilityMinter(b, r) == Adopt([r EXCEPT !.durable = FALSE], Made(b, Ephemeral))
resolveGatewayGrantKey(b, r) == Adopt(r, Made(b, Ephemeral))
resolveWorkspaceSessionKey(b, r) ==
    Adopt(r, IF deployment.env["workspaceSession"] = "none" THEN NoKeyYet ELSE EnvKey)

\* What replica b does without Vault's key, from its state r.
FallBack(b, r) ==
    CASE r.name = "auditSigning" -> resolveAuditSigningKey(b, r)
      [] r.name = "capability" -> newCapabilityMinter(b, r)
      [] r.name = "gatewayGrant" -> resolveGatewayGrantKey(b, r)
      [] r.name = "workspaceSession" -> resolveWorkspaceSessionKey(b, r)
Fails(b, r) == FallBack(b, [r EXCEPT !.failed = @ \cup {r.name}])

Boot(b) ==
    /\ replica[b].pc \in {"down", "fatal"} /\ MayBoot
    /\ Update(b, [Off(replica[b].boots + 1) EXCEPT !.pc = "resolve"])
    /\ UNCHANGED <<deployment, kv, events, faults>>

\* A configured key wins over Vault, for the two keys that have one.
Resolve(b) ==
    /\ BootAt(b, "resolve")
    /\ LET r == replica[b] IN
       Update(b, IF r.name \in deployment.configured
                 THEN Adopt([r EXCEPT !.durable = (r.name = "capability") \/ @],
                            [by |-> "config"])
                 ELSE IF deployment.vault THEN [r EXCEPT !.pc = "read"]
                      ELSE FallBack(b, r))
    /\ UNCHANGED <<deployment, kv, events, faults>>

-----------------------------------------------------------------------------
(* One request to Vault.  Without a token the client logs in first.  A     *)
(* request refused with 403 drops the token and is sent once more.         *)
Requesting(b) == replica[b].pc \in {"read", "write", "reread"}

ensureToken(b) ==
    /\ Requesting(b) /\ replica[b].token = "none"
    /\ \/ Update(b, [replica[b] EXCEPT !.token = "good"]) /\ UNCHANGED faults
       \/ Fault /\ Update(b, Fails(b, replica[b]))
    /\ UNCHANGED <<deployment, kv, events>>

\* A lost create, or one the policy refuses: read again, three times in all.
Attempts == 3
casConflict(b, r) ==
    IF r.attempt + 1 < Attempts
    THEN [r EXCEPT !.pc = "read", !.attempt = @ + 1, !.retry = 0, !.draft = NoKeyYet]
    ELSE Fails(b, r)

do(b) ==
    /\ Requesting(b) /\ replica[b].token = "revoked"
    /\ LET r == replica[b] IN
       Update(b, IF r.retry = 0 THEN [r EXCEPT !.token = "none", !.retry = 1]
                 ELSE IF r.pc = "write" THEN casConflict(b, r) ELSE Fails(b, r))
    /\ UNCHANGED <<deployment, kv, events, faults>>

Sends(b, pc) == BootAt(b, pc) /\ replica[b].token = "good"

\* What each loop returns with the key k it read, or has created.
capabilityKeyFromVault(r, k) == Adopt([r EXCEPT !.durable = TRUE], k)
gatewayGrantKeyFromVault(r, k) == Adopt(r, k)
auditSigningKeyFromVault(r, k) ==
    Adopt([r EXCEPT !.version = Len(kv["auditSigning"])], k)
workspaceSessionKeyFromVault(r, k) == Adopt(r, k)
FromVault(r, k) ==
    CASE r.name = "auditSigning" -> auditSigningKeyFromVault(r, k)
      [] r.name = "capability" -> capabilityKeyFromVault(r, k)
      [] r.name = "gatewayGrant" -> gatewayGrantKeyFromVault(r, k)
      [] r.name = "workspaceSession" -> workspaceSessionKeyFromVault(r, k)

\* A KV-v2 read answers the newest version.
Newest(name) == kv[name][Len(kv[name])]

\* All four reads and creates are alike; these two are named for the first.
\* A key that is missing is drawn and offered.
ReadCapabilityKey(b) ==
    /\ Sends(b, "read")
    /\ LET r == replica[b] IN
       Update(b, IF kv[r.name] # <<>>
                 THEN FromVault(r, Newest(r.name))
                 ELSE [r EXCEPT !.pc = "write", !.retry = 0,
                                !.draft = Made(b, r.attempt)])
    /\ UNCHANGED <<deployment, kv, events, faults>>

\* After a create: the signing key is read again for its version.
Created(r) ==
    IF r.name = "auditSigning" THEN [r EXCEPT !.pc = "reread", !.retry = 0]
    ELSE FromVault(r, r.draft)

(* Mutant: the create is an unconditional write. *)
MayCreateAlways(name) == deployment.create
MayCreate(name) == deployment.create /\ kv[name] = <<>>

WriteCapabilityKey(b) ==
    /\ Sends(b, "write")
    /\ LET r == replica[b] IN
       IF MayCreate(r.name)
       THEN /\ kv' = [kv EXCEPT ![r.name] = Append(@, r.draft)]
            /\ \/ Update(b, Created(r)) /\ UNCHANGED faults
               \/ Fault /\ Update(b, Fails(b, r))  \* the answer is lost
       ELSE Update(b, casConflict(b, r)) /\ UNCHANGED <<kv, faults>>
    /\ UNCHANGED <<deployment, events>>

ReadAuditSigningKey(b) ==
    /\ Sends(b, "reread")
    /\ Update(b, auditSigningKeyFromVault(replica[b], Newest("auditSigning")))
    /\ UNCHANGED <<deployment, kv, events, faults>>

\* A request that does not reach Vault, or is answered with an error.
RequestFails(b) ==
    /\ Requesting(b) /\ replica[b].token = "good"
    /\ Fault
    /\ Update(b, Fails(b, replica[b]))
    /\ UNCHANGED <<deployment, kv, events>>

-----------------------------------------------------------------------------
devModeGuard(b) == replica[b].durable /\ replica[b].key["auditSigning"] # NoKeyYet

Guard(b) ==
    /\ BootAt(b, "guard")
    /\ Update(b, [replica[b] EXCEPT !.pc =
                     IF deployment.dev \/ devModeGuard(b) THEN "resolve" ELSE "fatal"])
    /\ UNCHANGED <<deployment, kv, events, faults>>

\* Only a key of the environment can be a placeholder or too short.
weakSecret(k, n) == k = EnvKey /\ deployment.env[n] = "weak"
secretsGuard(b) == \A n \in KeyNames : ~weakSecret(replica[b].key[n], n)

SecretsGuard(b) ==
    /\ BootAt(b, "secretsGuard")
    /\ Update(b, [replica[b] EXCEPT !.pc =
                     IF deployment.dev \/ secretsGuard(b) THEN "serving" ELSE "fatal"])
    /\ UNCHANGED <<deployment, kv, events, faults>>

\* A serving replica signs with the key it resolved at its start.
Sign(b) ==
    /\ BootAt(b, "serving") /\ replica[b].key["auditSigning"] # NoKeyYet
    /\ events' = events \cup {[key |-> replica[b].key["auditSigning"],
                               version |-> replica[b].version]}
    /\ UNCHANGED <<deployment, kv, replica, faults>>

\* A version of the key that was written; none is destroyed.
ReadAuditSigningKeyVersion(version) == kv["auditSigning"][version]

\* The key replica b verifies an event of the given version with; it asks
\* Vault for a version that is not the environment's.
ForVersion(b, version) ==
    IF version = 0
    THEN IF deployment.env["auditSigning"] = "none" THEN NoKeyYet ELSE EnvKey
    ELSE ReadAuditSigningKeyVersion(version)

-----------------------------------------------------------------------------
(* The operator and the surroundings. *)
Rotate ==
    /\ Len(kv["auditSigning"]) \in 1 .. (MaxVersions - 1)
    /\ kv' = [kv EXCEPT !["auditSigning"] =
                 Append(@, [by |-> "operator", version |-> Len(@) + 1])]
    /\ UNCHANGED <<deployment, replica, events, faults>>

RevokeToken(b) ==
    /\ replica[b].token = "good" /\ Requesting(b)
    /\ Fault
    /\ Update(b, [replica[b] EXCEPT !.token = "revoked"])
    /\ UNCHANGED <<deployment, kv, events>>

Stop(b) ==
    /\ BootAt(b, "serving") /\ MayBoot
    /\ Update(b, Off(replica[b].boots))
    /\ UNCHANGED <<deployment, kv, events, faults>>

BootNext ==
    \/ Rotate
    \/ \E b \in Replicas :
          \/ Boot(b) \/ Resolve(b) \/ Guard(b) \/ SecretsGuard(b)
          \/ ensureToken(b) \/ do(b) \/ ReadCapabilityKey(b) \/ WriteCapabilityKey(b)
          \/ ReadAuditSigningKey(b) \/ RequestFails(b)
          \/ Sign(b) \/ RevokeToken(b) \/ Stop(b)

BootSpec == BootInit /\ [][BootNext]_bootVars

-----------------------------------------------------------------------------
ServingReplicas == {b \in Replicas : BootAt(b, "serving")}

(* Outside development mode any two replicas that serve hold the same      *)
(* capability key, so that a token minted by one is accepted by the other; *)
(* they hold the same grant and session keys unless Vault failed one of    *)
(* them while it resolved that key.  And every event of the trail verifies *)
(* on every replica that serves: the version it carries leads to the key   *)
(* that signed it.  First starts that race, lost answers, retries,         *)
(* rotations and restarts do not split them.                               *)
ReplicasShareKeys ==
    /\ ~deployment.dev =>
       \A b, c \in ServingReplicas :
           /\ replica[b].key["capability"] = replica[c].key["capability"]
           /\ \A n \in {"gatewayGrant", "workspaceSession"} :
                  n \notin replica[b].failed \cup replica[c].failed =>
                  replica[b].key[n] = replica[c].key[n]
    /\ \A e \in events : \A b \in ServingReplicas : ForVersion(b, e.version) = e.key

=============================================================================
