------------------------- MODULE BrokerKeys_proofs -------------------------
(***************************************************************************)
(* ReplicasShareKeys for any number of replicas, starts, failures and      *)
(* versions of the signing key.                                            *)
(***************************************************************************)
EXTENDS BrokerKeys, TLAPS

(* A deployment w without Vault and without a configured grant key draws   *)
(* one for each replica, which no startup guard refuses.                   *)
GrantKeyHasAHome(w) ==
    w.dev \/ w.vault \/ "gatewayGrant" \in w.configured \/ w.env["auditSigning"] # "strong"

ConfigKey == [by |-> "config"]
Drawn == [by : Replicas, boot : Nat, name : KeyNames, how : 0..3]
AnyKey == Drawn \cup [by : {"operator"}, version : Nat] \cup {NoKeyYet, EnvKey, ConfigKey}
Phases == {"down", "fatal", "resolve", "read", "write", "reread", "guard", "secretsGuard", "serving"}
ReplicaType ==
    [pc : Phases, name : KeyNames, attempt : 0..2, retry : 0..1, draft : AnyKey, key : [KeyNames -> AnyKey],
     version : Nat, durable : BOOLEAN, token : {"none", "good", "revoked"}, failed : SUBSET KeyNames, boots : Nat]

BootTypeOK ==
    /\ deployment \in BootWorlds
    /\ kv \in [KeyNames -> Seq(AnyKey)]
    /\ replica \in [Replicas -> ReplicaType]

(* What the key of each name is, in deployment w with Vault's content      *)
(* store: the same for every replica that holds it.                        *)
EnvOrNone(w, n) == IF w.env[n] = "none" THEN NoKeyYet ELSE EnvKey
AuditKeyOK(w, store, key, version) ==
    \/ version = 0 /\ key = EnvOrNone(w, "auditSigning")
    \/ w.vault /\ version \in 1..Len(store["auditSigning"]) /\ key = store["auditSigning"][version]
CapabilityKeyOK(w, store, key) ==
    IF "capability" \in w.configured THEN key = ConfigKey
    ELSE store["capability"] # << >> /\ key = store["capability"][1]
GrantKeyOK(w, store, key) ==
    IF "gatewayGrant" \in w.configured THEN key = ConfigKey
    ELSE w.vault => store["gatewayGrant"] # << >> /\ key = store["gatewayGrant"][1]
SessionKeyOK(w, store, key) ==
    IF w.vault THEN store["workspaceSession"] # << >> /\ key = store["workspaceSession"][1]
    ELSE key = EnvOrNone(w, "workspaceSession")

(* A replica r has the right key of every name it is past, and is past a   *)
(* guard only with what the guard asks for.                                *)
Sound(w, store, r) ==
    /\ r.pc \in {"read", "write", "reread"} => w.vault /\ r.name \notin w.configured
    /\ r.pc = "reread" => r.name = "auditSigning" /\ store["auditSigning"] # << >>
    /\ r.pc = "guard" => r.name = "gatewayGrant"
    /\ r.pc \in {"secretsGuard", "serving"} => r.name = "workspaceSession"
    /\ r.name # "auditSigning" => AuditKeyOK(w, store, r.key["auditSigning"], r.version)
    /\ r.name \in {"gatewayGrant", "workspaceSession"} /\ r.durable =>
          CapabilityKeyOK(w, store, r.key["capability"])
    /\ r.name = "workspaceSession" /\ "gatewayGrant" \notin r.failed =>
          GrantKeyOK(w, store, r.key["gatewayGrant"])
    /\ r.pc \in {"secretsGuard", "serving"} /\ "workspaceSession" \notin r.failed =>
          SessionKeyOK(w, store, r.key["workspaceSession"])
    /\ /\ ~w.dev /\ r.pc \notin {"guard", "fatal"}
       /\ r.name \in {"gatewayGrant", "workspaceSession"}
       => r.durable /\ r.key["auditSigning"] # NoKeyYet
    /\ ~w.dev /\ r.pc = "serving" => ~(r.key["auditSigning"] = EnvKey /\ w.env["auditSigning"] = "weak")

(* Vault holds one version of each key but the signing key, and the key    *)
(* that signed an event is the one its version names.                      *)
StoreInv ==
    /\ \A n \in KeyNames \ {"auditSigning"} : Len(kv[n]) <= 1
    /\ \A e \in events : e.key # NoKeyYet /\ AuditKeyOK(deployment, kv, e.key, e.version)

BootInv == BootTypeOK /\ StoreInv /\ \A b \in Replicas : Sound(deployment, kv, replica[b])

-----------------------------------------------------------------------------
Pending == {"resolve", "read", "write", "reread"}

LEMMA Deployments ==
    ASSUME NEW w \in BootWorlds
    PROVE  /\ w.dev \in BOOLEAN /\ w.vault \in BOOLEAN /\ w.configured \subseteq {"capability", "gatewayGrant"}
           /\ \A n \in KeyNames : w.env[n] \in {"none", "weak", "strong"}
  BY BootAssumption

LEMMA SpecialKeys ==
    NoKeyYet \in AnyKey /\ EnvKey \in AnyKey /\ ConfigKey \in AnyKey /\ NoKeyYet # EnvKey
  BY DEF AnyKey, NoKeyYet, EnvKey

LEMMA Afters ==
    /\ After("auditSigning").pc = "resolve" /\ After("auditSigning").name = "capability"
    /\ After("capability").pc = "guard" /\ After("capability").name = "gatewayGrant"
    /\ After("gatewayGrant").pc = "resolve" /\ After("gatewayGrant").name = "workspaceSession"
    /\ After("workspaceSession").pc = "secretsGuard" /\ After("workspaceSession").name = "workspaceSession"
  BY DEF After

(* Adopt sets the key and moves on; nothing else of the replica counts.    *)
LEMMA AdoptFields ==
    ASSUME NEW r \in ReplicaType, NEW k \in AnyKey
    PROVE  /\ Adopt(r, k) \in ReplicaType
           /\ Adopt(r, k).pc = After(r.name).pc /\ Adopt(r, k).name = After(r.name).name
           /\ Adopt(r, k).version = r.version /\ Adopt(r, k).durable = r.durable /\ Adopt(r, k).failed = r.failed
           /\ Adopt(r, k).key[r.name] = k /\ \A n \in KeyNames \ {r.name} : Adopt(r, k).key[n] = r.key[n]
<1> DEFINE pc == After(r.name).pc
           name == After(r.name).name
           key == [r.key EXCEPT ![r.name] = k]
<1>1. r.name \in KeyNames /\ r.key \in [KeyNames -> AnyKey]
  BY DEF ReplicaType
<1>2. pc \in Phases /\ name \in KeyNames
  BY <1>1, Afters DEF KeyNames, Phases
<1>3. /\ key \in [KeyNames -> AnyKey] /\ key[r.name] = k
      /\ \A n \in KeyNames \ {r.name} : key[n] = r.key[n]
  BY <1>1
<1>4. Adopt(r, k) = [r EXCEPT !.key = key, !.pc = pc, !.name = name, !.attempt = 0, !.retry = 0, !.draft = NoKeyYet]
  BY DEF Adopt
<1> HIDE DEF pc, name, key
<1>5. Adopt(r, k) \in ReplicaType
  <2>1. NoKeyYet \in AnyKey /\ 0 \in 0..2 /\ 0 \in 0..1
    BY SpecialKeys
  <2> QED
    BY <1>2, <1>3, <1>4, <2>1, Zenon DEF ReplicaType
<1>6. /\ Adopt(r, k).pc = pc /\ Adopt(r, k).name = name /\ Adopt(r, k).key = key
      /\ Adopt(r, k).version = r.version /\ Adopt(r, k).durable = r.durable /\ Adopt(r, k).failed = r.failed
  BY <1>4 DEF ReplicaType
<1> QED
  BY <1>3, <1>5, <1>6 DEF pc, name

(* The key k is the right one for the name that r is about to resolve.     *)
Right(w, store, r, k) ==
    /\ r.name = "auditSigning" => AuditKeyOK(w, store, k, r.version)
    /\ r.name = "capability" /\ r.durable => CapabilityKeyOK(w, store, k)
    /\ r.name = "gatewayGrant" /\ "gatewayGrant" \notin r.failed => GrantKeyOK(w, store, k)
    /\ r.name = "workspaceSession" /\ "workspaceSession" \notin r.failed => SessionKeyOK(w, store, k)

LEMMA AdoptSound ==
    ASSUME NEW w \in BootWorlds, NEW store, NEW r \in ReplicaType, NEW k \in AnyKey,
           r.pc \in Pending, Sound(w, store, r), Right(w, store, r, k)
    PROVE  Adopt(r, k) \in ReplicaType /\ Sound(w, store, Adopt(r, k))
<1> DEFINE a == Adopt(r, k)
<1>1. /\ a \in ReplicaType
      /\ a.pc = After(r.name).pc /\ a.name = After(r.name).name
      /\ a.version = r.version /\ a.durable = r.durable /\ a.failed = r.failed
      /\ a.key[r.name] = k /\ \A n \in KeyNames \ {r.name} : a.key[n] = r.key[n]
  BY AdoptFields
<1>2. r.name \in KeyNames
  BY DEF ReplicaType
<1> SUFFICES Sound(w, store, a)
  BY <1>1
<1> HIDE DEF a
<1>3. CASE r.name = "auditSigning"
  <2>1. a.pc = "resolve" /\ a.name = "capability" /\ a.key["auditSigning"] = k
    BY <1>1, <1>3, Afters
  <2> QED
    BY <1>1, <1>3, <2>1 DEF Sound, Right, Pending
<1>4. CASE r.name = "capability"
  <2>1. a.pc = "guard" /\ a.name = "gatewayGrant" /\ a.key["capability"] = k
    BY <1>1, <1>4, Afters
  <2>2. a.key["auditSigning"] = r.key["auditSigning"]
    BY <1>1, <1>4 DEF KeyNames
  <2> QED
    BY <1>1, <1>4, <2>1, <2>2 DEF Sound, Right, Pending
<1>5. CASE r.name = "gatewayGrant"
  <2>1. a.pc = "resolve" /\ a.name = "workspaceSession" /\ a.key["gatewayGrant"] = k
    BY <1>1, <1>5, Afters
  <2>2. a.key["auditSigning"] = r.key["auditSigning"] /\ a.key["capability"] = r.key["capability"]
    BY <1>1, <1>5 DEF KeyNames
  <2> QED
    BY <1>1, <1>5, <2>1, <2>2 DEF Sound, Right, Pending
<1>6. CASE r.name = "workspaceSession"
  <2>1. a.pc = "secretsGuard" /\ a.name = "workspaceSession" /\ a.key["workspaceSession"] = k
    BY <1>1, <1>6, Afters
  <2>2. a.key["auditSigning"] = r.key["auditSigning"] /\ a.key["capability"] = r.key["capability"] /\ a.key["gatewayGrant"] = r.key["gatewayGrant"]
    BY <1>1, <1>6 DEF KeyNames
  <2> QED
    BY <1>1, <1>6, <2>1, <2>2 DEF Sound, Right, Pending
<1> QED
  BY <1>2, <1>3, <1>4, <1>5, <1>6 DEF KeyNames

LEMMA MadeIsKey ==
    ASSUME BootTypeOK, NEW b \in Replicas, NEW how \in 0..3
    PROVE  Made(b, how) \in AnyKey
<1>1. replica[b].boots \in Nat /\ replica[b].name \in KeyNames
  BY DEF BootTypeOK, ReplicaType
<1> QED
  BY <1>1 DEF Made, AnyKey, Drawn

(* What a replica does without Vault's key.  It has no Vault, or counts    *)
(* the name as failed.                                                     *)
LEMMA FallBackSound ==
    ASSUME BootTypeOK, NEW b \in Replicas, NEW store, NEW r \in ReplicaType, r.pc \in Pending,
           Sound(deployment, store, r), r.name \notin deployment.configured,
           deployment.vault => r.name \in r.failed
    PROVE  FallBack(b, r) \in ReplicaType /\ Sound(deployment, store, FallBack(b, r))
<1> USE DEF BootTypeOK
<1>0. r.name \in KeyNames /\ 0 \in Nat /\ Ephemeral \in 0..3
  BY DEF ReplicaType, Ephemeral
<1>1. CASE r.name = "auditSigning"
  <2> DEFINE key == EnvOrNone(deployment, "auditSigning")
             q == [r EXCEPT !.version = 0]
             f == [r EXCEPT !.pc = "fatal"]
  <2>1. FallBack(b, r) = IF deployment.vault /\ ~deployment.dev THEN f ELSE Adopt(q, key)
    BY <1>1 DEF FallBack, resolveAuditSigningKey, EnvOrNone
  <2>2. key \in AnyKey
    BY SpecialKeys DEF EnvOrNone
  <2>3. /\ q \in ReplicaType /\ q.pc = r.pc /\ q.name = r.name /\ q.key = r.key /\ q.failed = r.failed
        /\ q.version = 0 /\ q.durable = r.durable
    BY <1>0, Zenon DEF ReplicaType
  <2>4. /\ f \in ReplicaType /\ f.pc = "fatal" /\ f.name = r.name
    BY Zenon DEF ReplicaType, Phases
  <2> HIDE DEF q, f, key
  <2>5. Sound(deployment, store, q)
    BY <1>1, <2>3 DEF Sound
  <2>6. Right(deployment, store, q, key)
    BY <1>1, <2>3 DEF Right, AuditKeyOK, key
  <2>7. Adopt(q, key) \in ReplicaType /\ Sound(deployment, store, Adopt(q, key))
    BY <2>2, <2>3, <2>5, <2>6, AdoptSound
  <2>8. Sound(deployment, store, f)
    BY <1>1, <2>4 DEF Sound
  <2> QED
    BY <2>1, <2>4, <2>7, <2>8, Zenon
<1>2. CASE r.name = "capability"
  <2> DEFINE key == Made(b, Ephemeral)
             q == [r EXCEPT !.durable = FALSE]
  <2>1. FallBack(b, r) = Adopt(q, key) /\ key \in AnyKey
    BY <1>0, <1>2, MadeIsKey DEF FallBack, newCapabilityMinter
  <2>2. /\ q \in ReplicaType /\ q.pc = r.pc /\ q.name = r.name /\ q.key = r.key /\ q.failed = r.failed
        /\ q.version = r.version /\ q.durable = FALSE
    BY Zenon DEF ReplicaType
  <2> HIDE DEF q, key
  <2>3. Sound(deployment, store, q)
    BY <1>2, <2>2 DEF Sound
  <2>4. Right(deployment, store, q, key)
    BY <1>2, <2>2 DEF Right
  <2> QED
    BY <2>1, <2>2, <2>3, <2>4, AdoptSound
<1>3. CASE r.name = "gatewayGrant"
  <2> DEFINE key == Made(b, Ephemeral)
  <2>1. FallBack(b, r) = Adopt(r, key) /\ key \in AnyKey
    BY <1>0, <1>3, MadeIsKey DEF FallBack, resolveGatewayGrantKey
  <2> HIDE DEF key
  <2>2. Right(deployment, store, r, key)
    BY <1>3 DEF Right, GrantKeyOK
  <2> QED
    BY <2>1, <2>2, AdoptSound
<1>4. CASE r.name = "workspaceSession"
  <2> DEFINE key == EnvOrNone(deployment, "workspaceSession")
  <2>1. FallBack(b, r) = Adopt(r, key) /\ key \in AnyKey
    BY <1>4, SpecialKeys DEF FallBack, resolveWorkspaceSessionKey, EnvOrNone
  <2>2. Right(deployment, store, r, key)
    BY <1>4 DEF Right, SessionKeyOK
  <2> HIDE DEF key
  <2> QED
    BY <2>1, <2>2, AdoptSound
<1> QED
  BY <1>0, <1>1, <1>2, <1>3, <1>4 DEF KeyNames

(* Vault failed the replica while it asked for the key.                    *)
LEMMA FailsSound ==
    ASSUME BootTypeOK, NEW b \in Replicas, NEW store, NEW r \in ReplicaType, r.pc \in {"read", "write", "reread"},
           Sound(deployment, store, r)
    PROVE  Fails(b, r) \in ReplicaType /\ Sound(deployment, store, Fails(b, r))
<1> DEFINE q == [r EXCEPT !.failed = @ \cup {r.name}]
<1>1. r.name \in KeyNames /\ r.failed \subseteq KeyNames
  BY DEF ReplicaType
<1>2. /\ q \in ReplicaType /\ q.pc = r.pc /\ q.name = r.name /\ q.key = r.key /\ q.failed = r.failed \cup {r.name}
      /\ q.version = r.version /\ q.durable = r.durable
  BY <1>1 DEF ReplicaType
<1>3. Fails(b, r) = FallBack(b, q)
  BY DEF Fails
<1> HIDE DEF q
<1>4. Sound(deployment, store, q) /\ q.name \notin deployment.configured
  BY <1>2 DEF Sound
<1> QED
  BY <1>2, <1>3, <1>4, FallBackSound DEF Pending

LEMMA ConflictSound ==
    ASSUME BootTypeOK, NEW b \in Replicas, NEW store, NEW r \in ReplicaType, r.pc = "write",
           Sound(deployment, store, r)
    PROVE  casConflict(b, r) \in ReplicaType /\ Sound(deployment, store, casConflict(b, r))
<1> DEFINE q == [r EXCEPT !.pc = "read", !.attempt = @ + 1, !.retry = 0, !.draft = NoKeyYet]
<1>1. casConflict(b, r) = IF r.attempt + 1 < 3 THEN q ELSE Fails(b, r)
  BY DEF casConflict, Attempts
<1>2. q.pc = "read" /\ q.name = r.name /\ q.key = r.key /\ q.failed = r.failed /\ q.version = r.version /\ q.durable = r.durable
  BY DEF ReplicaType
<1>3. r.attempt + 1 < 3 => q \in ReplicaType
  <2>1. /\ "read" \in Phases /\ 0 \in 0..1 /\ NoKeyYet \in AnyKey
        /\ r.attempt + 1 < 3 => r.attempt + 1 \in 0..2
    BY SpecialKeys DEF Phases, ReplicaType
  <2> QED
    BY <2>1, Zenon DEF ReplicaType
<1> HIDE DEF q
<1>4. Sound(deployment, store, q)
  BY <1>2 DEF Sound
<1>5. Fails(b, r) \in ReplicaType /\ Sound(deployment, store, Fails(b, r))
  BY FailsSound
<1> QED
  BY <1>1, <1>3, <1>4, <1>5, Zenon

(* A replica takes the key it read from Vault, or has created there.       *)
LEMMA FromVaultSound ==
    ASSUME BootTypeOK, NEW store, NEW r \in ReplicaType, NEW k \in AnyKey, r.pc \in {"read", "write", "reread"},
           Sound(deployment, store, r),
           r.name = "auditSigning" =>
              /\ store["auditSigning"] = kv["auditSigning"] /\ Len(kv["auditSigning"]) \in Nat \ {0}
              /\ k = kv["auditSigning"][Len(kv["auditSigning"])],
           r.name # "auditSigning" => store[r.name] # << >> /\ k = store[r.name][1]
    PROVE  FromVault(r, k) \in ReplicaType /\ Sound(deployment, store, FromVault(r, k))
<1>0. r.name \in KeyNames /\ r.pc \in Pending /\ deployment \in BootWorlds
  BY DEF ReplicaType, Pending, BootTypeOK
<1>a. deployment.vault /\ r.name \notin deployment.configured
  BY DEF Sound
<1>1. CASE r.name = "auditSigning"
  <2> DEFINE n == Len(kv["auditSigning"])
             q == [r EXCEPT !.version = n]
  <2>1. FromVault(r, k) = Adopt(q, k)
    BY <1>1 DEF FromVault, auditSigningKeyFromVault
  <2>2. n \in Nat \ {0} /\ k = store["auditSigning"][n] /\ n = Len(store["auditSigning"])
    BY <1>1
  <2> HIDE DEF n
  <2>3. /\ q \in ReplicaType /\ q.pc = r.pc /\ q.name = r.name /\ q.key = r.key /\ q.failed = r.failed
        /\ q.version = n /\ q.durable = r.durable
    BY <2>2 DEF ReplicaType
  <2> HIDE DEF q
  <2>4. Sound(deployment, store, q)
    BY <1>1, <2>3 DEF Sound
  <2>5. Right(deployment, store, q, k)
    BY <1>a, <1>1, <2>2, <2>3 DEF Right, AuditKeyOK
  <2> QED
    BY <1>0, <2>1, <2>3, <2>4, <2>5, AdoptSound
<1>2. CASE r.name = "capability"
  <2> DEFINE q == [r EXCEPT !.durable = TRUE]
  <2>1. FromVault(r, k) = Adopt(q, k)
    BY <1>2 DEF FromVault, capabilityKeyFromVault
  <2>2. /\ q \in ReplicaType /\ q.pc = r.pc /\ q.name = r.name /\ q.key = r.key /\ q.failed = r.failed
        /\ q.version = r.version
    BY Zenon DEF ReplicaType
  <2> HIDE DEF q
  <2>3. Sound(deployment, store, q)
    BY <1>2, <2>2 DEF Sound
  <2>4. Right(deployment, store, q, k)
    BY <1>a, <1>2, <2>2 DEF Right, CapabilityKeyOK
  <2> QED
    BY <1>0, <2>1, <2>2, <2>3, <2>4, AdoptSound
<1>3. CASE r.name = "gatewayGrant"
  <2>1. FromVault(r, k) = Adopt(r, k)
    BY <1>3 DEF FromVault, gatewayGrantKeyFromVault
  <2>2. Right(deployment, store, r, k)
    BY <1>a, <1>3 DEF Right, GrantKeyOK
  <2> QED
    BY <1>0, <2>1, <2>2, AdoptSound
<1>4. CASE r.name = "workspaceSession"
  <2>1. FromVault(r, k) = Adopt(r, k)
    BY <1>4 DEF FromVault, workspaceSessionKeyFromVault
  <2>2. Right(deployment, store, r, k)
    BY <1>a, <1>4 DEF Right, SessionKeyOK
  <2> QED
    BY <1>0, <2>1, <2>2, AdoptSound
<1> QED
  BY <1>0, <1>1, <1>2, <1>3, <1>4 DEF KeyNames

-----------------------------------------------------------------------------
(* Vault only gains versions.                                              *)
Grows(store, new) ==
    \A n \in KeyNames : /\ store[n] # << >> => new[n] # << >> /\ new[n][1] = store[n][1]
                        /\ \A v \in 1..Len(store[n]) : v \in 1..Len(new[n]) /\ new[n][v] = store[n][v]

LEMMA AuditKeyStays ==
    ASSUME NEW w, NEW store, NEW new, NEW key, NEW version, Grows(store, new), AuditKeyOK(w, store, key, version)
    PROVE  AuditKeyOK(w, new, key, version)
  BY DEF Grows, AuditKeyOK, KeyNames

LEMMA SoundGrows ==
    ASSUME NEW w, NEW store, NEW new, NEW r, Grows(store, new), Sound(w, store, r)
    PROVE  Sound(w, new, r)
<1>1. \A n \in KeyNames : store[n] # << >> => new[n] # << >> /\ new[n][1] = store[n][1]
  BY DEF Grows
<1>2. \A key : CapabilityKeyOK(w, store, key) => CapabilityKeyOK(w, new, key)
  BY <1>1 DEF CapabilityKeyOK, KeyNames
<1>3. \A key : GrantKeyOK(w, store, key) => GrantKeyOK(w, new, key)
  BY <1>1 DEF GrantKeyOK, KeyNames
<1>4. \A key : SessionKeyOK(w, store, key) => SessionKeyOK(w, new, key)
  BY <1>1 DEF SessionKeyOK, KeyNames
<1>5. AuditKeyOK(w, store, r.key["auditSigning"], r.version) => AuditKeyOK(w, new, r.key["auditSigning"], r.version)
  BY AuditKeyStays
<1>6. store["auditSigning"] # << >> => new["auditSigning"] # << >>
  BY <1>1 DEF KeyNames
<1> QED
  BY <1>2, <1>3, <1>4, <1>5, <1>6 DEF Sound

LEMMA Appended ==
    ASSUME NEW s \in Seq(AnyKey), NEW k \in AnyKey
    PROVE  /\ Append(s, k) \in Seq(AnyKey) /\ Append(s, k) # << >> /\ Len(Append(s, k)) = Len(s) + 1
           /\ Len(s) \in Nat /\ (s # << >> => Append(s, k)[1] = s[1] /\ Len(s) # 0)
           /\ s = << >> => Append(s, k)[1] = k /\ Len(s) = 0
           /\ \A v \in 1..Len(s) : v \in 1..Len(Append(s, k)) /\ Append(s, k)[v] = s[v]
<1>1. Append(s, k) \in Seq(AnyKey) /\ Append(s, k) # << >> /\ Len(Append(s, k)) = Len(s) + 1 /\ Len(s) \in Nat
  OBVIOUS
<1>2. \A v \in 1..Len(s) : v \in 1..Len(Append(s, k)) /\ Append(s, k)[v] = s[v]
  BY <1>1
<1>3. s # << >> => Len(s) # 0
  OBVIOUS
<1>4. s # << >> => Append(s, k)[1] = s[1]
  BY <1>1, <1>2, <1>3
<1>5. s = << >> => Len(s) = 0
  OBVIOUS
<1>6. Append(s, k)[Len(s) + 1] = k
  OBVIOUS
<1>7. s = << >> => Append(s, k)[1] = k
  BY <1>5, <1>6
<1> QED
  BY <1>1, <1>2, <1>3, <1>4, <1>5, <1>7

LEMMA StoreAppends ==
    ASSUME BootTypeOK, StoreInv, NEW n \in KeyNames, NEW k \in AnyKey, n = "auditSigning" \/ kv[n] = << >>,
           kv' = [kv EXCEPT ![n] = Append(@, k)]
    PROVE  /\ kv' \in [KeyNames -> Seq(AnyKey)] /\ Grows(kv, kv')
           /\ \A m \in KeyNames \ {"auditSigning"} : Len(kv'[m]) <= 1
           /\ kv'[n] # << >> /\ (kv[n] = << >> => kv'[n][1] = k)
<1> DEFINE s == Append(kv[n], k)
<1>1. kv[n] \in Seq(AnyKey) /\ kv \in [KeyNames -> Seq(AnyKey)]
  BY DEF BootTypeOK
<1>2. /\ s \in Seq(AnyKey) /\ s # << >> /\ Len(s) = Len(kv[n]) + 1 /\ Len(kv[n]) \in Nat
      /\ kv[n] # << >> => s[1] = kv[n][1] /\ Len(kv[n]) # 0
      /\ kv[n] = << >> => s[1] = k /\ Len(kv[n]) = 0
      /\ \A v \in 1..Len(kv[n]) : v \in 1..Len(s) /\ s[v] = kv[n][v]
  BY <1>1, Appended
<1>3. kv' = [kv EXCEPT ![n] = s]
  OBVIOUS
<1> HIDE DEF s
<1>4. kv'[n] = s /\ (\A m \in KeyNames \ {n} : kv'[m] = kv[m]) /\ kv' \in [KeyNames -> Seq(AnyKey)]
  BY <1>1, <1>2, <1>3
<1>5. Grows(kv, kv')
  <2>1. ASSUME NEW m \in KeyNames
        PROVE  /\ kv[m] # << >> => kv'[m] # << >> /\ kv'[m][1] = kv[m][1]
               /\ \A v \in 1..Len(kv[m]) : v \in 1..Len(kv'[m]) /\ kv'[m][v] = kv[m][v]
    <3>1. CASE m = n
      BY <1>2, <1>4, <3>1
    <3>2. CASE m # n
      BY <1>4, <3>2
    <3> QED
      BY <3>1, <3>2
  <2> QED
    BY <2>1 DEF Grows
<1>6. \A m \in KeyNames \ {"auditSigning"} : Len(kv'[m]) <= 1
  BY <1>2, <1>4 DEF StoreInv
<1> QED
  BY <1>2, <1>4, <1>5, <1>6

(* A step that changes one replica, and perhaps adds a version.            *)
LEMMA OneReplica ==
    ASSUME BootInv, NEW b \in Replicas, NEW r \in ReplicaType, Update(b, r),
           UNCHANGED <<deployment, events>>,
           kv' \in [KeyNames -> Seq(AnyKey)], Grows(kv, kv'),
           \A n \in KeyNames \ {"auditSigning"} : Len(kv'[n]) <= 1,
           Sound(deployment, kv', r)
    PROVE  BootInv'
<1>1. /\ replica' \in [Replicas -> ReplicaType] /\ replica'[b] = r
      /\ \A c \in Replicas \ {b} : replica'[c] = replica[c]
  BY DEF BootInv, BootTypeOK, Update
<1>2. BootTypeOK'
  BY <1>1 DEF BootInv, BootTypeOK
<1>3. \A e \in events : e.key # NoKeyYet /\ AuditKeyOK(deployment, kv', e.key, e.version)
  BY AuditKeyStays DEF BootInv, StoreInv
<1>4. \A c \in Replicas : Sound(deployment, kv', replica'[c])
  <2>1. \A c \in Replicas : Sound(deployment, kv', replica[c])
    BY SoundGrows DEF BootInv
  <2> QED
    BY <1>1, <2>1, Zenon
<1>5. StoreInv'
  BY <1>3, Zenon DEF StoreInv
<1>6. (\A c \in Replicas : Sound(deployment, kv, replica[c]))'
  BY <1>4, Zenon
<1> QED
  BY <1>2, <1>5, <1>6, Zenon DEF BootInv

LEMMA OneReplicaOnly ==
    ASSUME BootInv, NEW b \in Replicas, NEW r \in ReplicaType, Update(b, r),
           UNCHANGED <<deployment, kv, events>>, Sound(deployment, kv, r)
    PROVE  BootInv'
<1>1. kv' \in [KeyNames -> Seq(AnyKey)] /\ Grows(kv, kv')
  BY DEF BootInv, BootTypeOK, Grows
<1>2. \A n \in KeyNames \ {"auditSigning"} : Len(kv'[n]) <= 1
  BY DEF BootInv, StoreInv
<1>3. Sound(deployment, kv', r)
  OBVIOUS
<1> QED
  BY <1>1, <1>2, <1>3, OneReplica

-----------------------------------------------------------------------------
(* The steps, one by one.                                                  *)
LEMMA Mine ==
    ASSUME BootInv, NEW b \in Replicas
    PROVE  BootTypeOK /\ replica[b] \in ReplicaType /\ Sound(deployment, kv, replica[b]) /\ deployment \in BootWorlds
  BY DEF BootInv, BootTypeOK

LEMMA OffSound ==
    ASSUME NEW w, NEW store, NEW n \in Nat
    PROVE  /\ Off(n) \in ReplicaType /\ Sound(w, store, Off(n))
           /\ [Off(n) EXCEPT !.pc = "resolve"] \in ReplicaType /\ Sound(w, store, [Off(n) EXCEPT !.pc = "resolve"])
<1> DEFINE keys == [m \in KeyNames |-> NoKeyYet]
           r == [Off(n) EXCEPT !.pc = "resolve"]
<1>1. keys \in [KeyNames -> AnyKey] /\ NoKeyYet \in AnyKey /\ {} \subseteq KeyNames
  BY SpecialKeys
<1>2. Off(n) = [pc |-> "down", name |-> "auditSigning", attempt |-> 0, retry |-> 0, draft |-> NoKeyYet,
                key |-> keys, version |-> 0, durable |-> FALSE, token |-> "none", failed |-> {}, boots |-> n]
  BY DEF Off
<1> HIDE DEF keys
<1>3. Off(n) \in ReplicaType
  BY <1>1, <1>2 DEF ReplicaType, Phases, KeyNames
<1>4. Off(n).pc = "down" /\ Off(n).name = "auditSigning"
  BY <1>2
<1>5. r \in ReplicaType /\ r.pc = "resolve" /\ r.name = "auditSigning"
  BY <1>3, <1>4 DEF ReplicaType, Phases
<1> HIDE DEF r
<1>6. Sound(w, store, Off(n)) /\ Sound(w, store, r)
  BY <1>4, <1>5 DEF Sound
<1> QED
  BY <1>3, <1>5, <1>6 DEF r

LEMMA BootStep ==
    ASSUME BootInv, NEW b \in Replicas, Boot(b) \/ Stop(b)
    PROVE  BootInv'
<1>1. replica[b].boots \in Nat /\ replica[b].boots + 1 \in Nat
  BY Mine DEF ReplicaType
<1>2. CASE Boot(b)
  <2>1. Update(b, [Off(replica[b].boots + 1) EXCEPT !.pc = "resolve"]) /\ UNCHANGED <<deployment, kv, events>>
    BY <1>2 DEF Boot
  <2> QED
    BY <1>1, <2>1, OffSound, OneReplicaOnly
<1>3. CASE Stop(b)
  <2>1. Update(b, Off(replica[b].boots)) /\ UNCHANGED <<deployment, kv, events>>
    BY <1>3 DEF Stop
  <2> QED
    BY <1>1, <2>1, OffSound, OneReplicaOnly, Zenon
<1> QED
  BY <1>2, <1>3

LEMMA ResolveStep ==
    ASSUME BootInv, NEW b \in Replicas, Resolve(b)
    PROVE  BootInv'
<1> DEFINE r == replica[b]
           q == [r EXCEPT !.durable = (r.name = "capability") \/ @]
           s == [r EXCEPT !.pc = "read"]
<1>1. /\ r.pc = "resolve" /\ UNCHANGED <<deployment, kv, events>>
      /\ Update(b, IF r.name \in deployment.configured THEN Adopt(q, ConfigKey)
                   ELSE IF deployment.vault THEN s ELSE FallBack(b, r))
  BY DEF Resolve, BootAt, ConfigKey
<1>2. r \in ReplicaType /\ Sound(deployment, kv, r) /\ BootTypeOK /\ deployment \in BootWorlds
  BY Mine
<1> HIDE DEF r
<1>3. CASE r.name \in deployment.configured
  <2>1. r.name \in {"capability", "gatewayGrant"}
    BY <1>2, <1>3, Deployments
  <2>2. /\ q \in ReplicaType /\ q.pc = r.pc /\ q.name = r.name /\ q.key = r.key /\ q.failed = r.failed
        /\ q.version = r.version /\ (r.name = "gatewayGrant" => q.durable = r.durable)
    BY <1>2, Zenon DEF ReplicaType
  <2> HIDE DEF q
  <2>3. Sound(deployment, kv, q)
    BY <1>1, <1>2, <2>1, <2>2 DEF Sound
  <2>4. Right(deployment, kv, q, ConfigKey)
    BY <1>3, <2>1, <2>2 DEF Right, CapabilityKeyOK, GrantKeyOK
  <2>5. Adopt(q, ConfigKey) \in ReplicaType /\ Sound(deployment, kv, Adopt(q, ConfigKey))
    BY <1>1, <1>2, <2>2, <2>3, <2>4, SpecialKeys, AdoptSound DEF Pending
  <2> QED
    BY <1>1, <1>3, <2>5, OneReplicaOnly
<1>4. CASE r.name \notin deployment.configured /\ deployment.vault
  <2>1. /\ s \in ReplicaType /\ s.pc = "read" /\ s.name = r.name /\ s.key = r.key /\ s.failed = r.failed
        /\ s.version = r.version /\ s.durable = r.durable
    BY <1>2 DEF ReplicaType, Phases
  <2> HIDE DEF s
  <2>2. Sound(deployment, kv, s)
    BY <1>1, <1>2, <1>4, <2>1 DEF Sound
  <2> QED
    BY <1>1, <1>4, <2>1, <2>2, OneReplicaOnly
<1>5. CASE r.name \notin deployment.configured /\ ~deployment.vault
  <2>1. FallBack(b, r) \in ReplicaType /\ Sound(deployment, kv, FallBack(b, r))
    BY <1>1, <1>2, <1>5, FallBackSound DEF Pending
  <2> QED
    BY <1>1, <1>5, <2>1, OneReplicaOnly
<1> QED
  BY <1>3, <1>4, <1>5

LEMMA TokenSound ==
    ASSUME NEW w, NEW store, NEW r \in ReplicaType, Sound(w, store, r), NEW tok \in {"good", "revoked"}
    PROVE  [r EXCEPT !.token = tok] \in ReplicaType /\ Sound(w, store, [r EXCEPT !.token = tok])
<1> DEFINE s == [r EXCEPT !.token = tok]
<1>1. /\ s \in ReplicaType /\ s.pc = r.pc /\ s.name = r.name /\ s.key = r.key /\ s.failed = r.failed
      /\ s.version = r.version /\ s.durable = r.durable
  BY DEF ReplicaType
<1> HIDE DEF s
<1>2. Sound(w, store, s)
  BY <1>1, Zenon DEF Sound
<1> QED
  BY <1>1, <1>2 DEF s

LEMMA RetrySound ==
    ASSUME NEW w, NEW store, NEW r \in ReplicaType, Sound(w, store, r)
    PROVE  /\ [r EXCEPT !.token = "none", !.retry = 1] \in ReplicaType
           /\ Sound(w, store, [r EXCEPT !.token = "none", !.retry = 1])
<1> DEFINE s == [r EXCEPT !.token = "none", !.retry = 1]
<1>0. 1 \in 0..1
  OBVIOUS
<1>1. /\ s.pc = r.pc /\ s.name = r.name /\ s.key = r.key /\ s.failed = r.failed
      /\ s.version = r.version /\ s.durable = r.durable
  BY DEF ReplicaType
<1>3. s \in ReplicaType
  BY <1>0, Zenon DEF ReplicaType
<1> HIDE DEF s
<1>2. Sound(w, store, s)
  BY <1>1, Zenon DEF Sound
<1> QED
  BY <1>3, <1>2 DEF s

LEMMA TokenStep ==
    ASSUME BootInv, NEW b \in Replicas, ensureToken(b) \/ do(b) \/ RequestFails(b) \/ RevokeToken(b)
    PROVE  BootInv'
<1> DEFINE r == replica[b]
<1>1. /\ r.pc \in {"read", "write", "reread"} /\ UNCHANGED <<deployment, kv, events>>
      /\ \/ Update(b, [r EXCEPT !.token = "good"]) \/ Update(b, [r EXCEPT !.token = "revoked"])
         \/ Update(b, [r EXCEPT !.token = "none", !.retry = 1])
         \/ Update(b, Fails(b, r)) \/ (r.pc = "write" /\ Update(b, casConflict(b, r)))
  <2>1. Requesting(b) /\ UNCHANGED <<deployment, kv, events>>
    BY DEF ensureToken, do, RequestFails, RevokeToken
  <2>2. \/ Update(b, [r EXCEPT !.token = "good"]) \/ Update(b, [r EXCEPT !.token = "revoked"])
        \/ Update(b, [r EXCEPT !.token = "none", !.retry = 1])
        \/ Update(b, Fails(b, r)) \/ (r.pc = "write" /\ Update(b, casConflict(b, r)))
    BY Zenon DEF ensureToken, do, RequestFails, RevokeToken
  <2> QED
    BY <2>1, <2>2 DEF Requesting
<1>2. r \in ReplicaType /\ Sound(deployment, kv, r) /\ BootTypeOK
  BY Mine
<1> HIDE DEF r
<1>3. CASE Update(b, [r EXCEPT !.token = "good"])
  <2> DEFINE s == [r EXCEPT !.token = "good"]
  <2>1. s \in ReplicaType /\ Sound(deployment, kv, s)
    BY <1>2, TokenSound, Zenon
  <2> QED
    BY <1>1, <1>3, <2>1, OneReplicaOnly
<1>4. CASE Update(b, [r EXCEPT !.token = "revoked"])
  <2> DEFINE s == [r EXCEPT !.token = "revoked"]
  <2>1. s \in ReplicaType /\ Sound(deployment, kv, s)
    BY <1>2, TokenSound, Zenon
  <2> QED
    BY <1>1, <1>4, <2>1, OneReplicaOnly
<1>5. CASE Update(b, [r EXCEPT !.token = "none", !.retry = 1])
  <2> DEFINE s == [r EXCEPT !.token = "none", !.retry = 1]
  <2>1. s \in ReplicaType /\ Sound(deployment, kv, s)
    BY <1>2, RetrySound, Zenon
  <2> QED
    BY <1>1, <1>5, <2>1, OneReplicaOnly
<1>6. CASE Update(b, Fails(b, r))
  BY <1>1, <1>2, <1>6, FailsSound, OneReplicaOnly
<1>7. CASE r.pc = "write" /\ Update(b, casConflict(b, r))
  BY <1>1, <1>2, <1>7, ConflictSound, OneReplicaOnly
<1> QED
  BY <1>1, <1>3, <1>4, <1>5, <1>6, <1>7

LEMMA ReadStep ==
    ASSUME BootInv, NEW b \in Replicas, ReadCapabilityKey(b)
    PROVE  BootInv'
<1> DEFINE r == replica[b]
           k == kv[r.name][Len(kv[r.name])]
           s == [r EXCEPT !.pc = "write", !.retry = 0, !.draft = Made(b, r.attempt)]
<1>1. /\ r.pc = "read" /\ UNCHANGED <<deployment, kv, events>>
      /\ Update(b, IF kv[r.name] # << >> THEN FromVault(r, k) ELSE s)
  BY DEF ReadCapabilityKey, Sends, BootAt, Newest
<1>2. r \in ReplicaType /\ Sound(deployment, kv, r) /\ BootTypeOK
  BY Mine
<1>3. r.name \in KeyNames /\ r.attempt \in 0..3 /\ kv[r.name] \in Seq(AnyKey)
  BY <1>2 DEF ReplicaType, BootTypeOK
<1>4. CASE kv[r.name] # << >>
  <2>1. Len(kv[r.name]) \in Nat \ {0} /\ k \in AnyKey
    BY <1>3, <1>4
  <2>a. \A n \in KeyNames \ {"auditSigning"} : Len(kv[n]) <= 1
    BY DEF BootInv, StoreInv
  <2>2. r.name # "auditSigning" => Len(kv[r.name]) = 1
    <3> HIDE DEF r, k, s
    <3> DEFINE n == Len(kv[r.name])
    <3>1. n \in Nat \ {0}
      BY <2>1
    <3>2. r.name # "auditSigning" => n <= 1
      BY <1>3, <2>a
    <3> HIDE DEF n
    <3>3. r.name # "auditSigning" => n = 1
      BY <3>1, <3>2
    <3> QED
      BY <3>3 DEF n
  <2>3. r.name # "auditSigning" => k = kv[r.name][1]
    BY <2>2
  <2>4. r.name = "auditSigning" => Len(kv["auditSigning"]) \in Nat \ {0} /\ k = kv["auditSigning"][Len(kv["auditSigning"])]
    BY <2>1
  <2> HIDE DEF r, k
  <2>5. FromVault(r, k) \in ReplicaType /\ Sound(deployment, kv, FromVault(r, k))
    BY <1>1, <1>2, <1>4, <2>1, <2>3, <2>4, FromVaultSound
  <2> QED
    BY <1>1, <1>4, <2>5, OneReplicaOnly
<1>5. CASE kv[r.name] = << >>
  <2>1. Made(b, r.attempt) \in AnyKey /\ 0 \in 0..1 /\ "write" \in Phases
    BY <1>2, <1>3, MadeIsKey DEF Phases
  <2> HIDE DEF r
  <2>2. s \in ReplicaType
    BY <1>2, <2>1, Zenon DEF ReplicaType
  <2>3. /\ s.pc = "write" /\ s.name = r.name /\ s.key = r.key /\ s.failed = r.failed
        /\ s.version = r.version /\ s.durable = r.durable
    BY <1>2 DEF ReplicaType
  <2> HIDE DEF s
  <2>4. Sound(deployment, kv, s)
    BY <1>1, <1>2, <2>3 DEF Sound
  <2> QED
    BY <1>1, <1>5, <2>2, <2>4, OneReplicaOnly
<1> QED
  BY <1>4, <1>5

LEMMA RereadStep ==
    ASSUME BootInv, NEW b \in Replicas, ReadAuditSigningKey(b)
    PROVE  BootInv'
<1> DEFINE r == replica[b]
           n == Len(kv["auditSigning"])
           k == kv["auditSigning"][n]
<1>1. r.pc = "reread" /\ UNCHANGED <<deployment, kv, events>> /\ Update(b, auditSigningKeyFromVault(r, k))
  BY DEF ReadAuditSigningKey, Sends, BootAt, Newest
<1>2. r \in ReplicaType /\ Sound(deployment, kv, r) /\ BootTypeOK
  BY Mine
<1>3. r.name = "auditSigning" /\ kv["auditSigning"] # << >>
  BY <1>1, <1>2 DEF Sound
<1>4. kv["auditSigning"] \in Seq(AnyKey)
  BY <1>2 DEF BootTypeOK, KeyNames
<1>5. n \in Nat \ {0} /\ k \in AnyKey
  BY <1>3, <1>4
<1>6. auditSigningKeyFromVault(r, k) = FromVault(r, k)
  BY <1>3 DEF FromVault
<1>7. FromVault(r, k) \in ReplicaType /\ Sound(deployment, kv, FromVault(r, k))
  <2> HIDE DEF r
  <2> QED
    BY <1>1, <1>2, <1>3, <1>5, FromVaultSound
<1> HIDE DEF r, k
<1> QED
  BY <1>1, <1>6, <1>7, OneReplicaOnly

LEMMA WriteStep ==
    ASSUME BootInv, NEW b \in Replicas, WriteCapabilityKey(b)
    PROVE  BootInv'
<1> DEFINE r == replica[b]
           s == [r EXCEPT !.pc = "reread", !.retry = 0]
<1>1. /\ r.pc = "write" /\ UNCHANGED <<deployment, events>>
      /\ \/ /\ kv[r.name] = << >> /\ kv' = [kv EXCEPT ![r.name] = Append(@, r.draft)]
            /\ Update(b, Created(r)) \/ Update(b, Fails(b, r))
         \/ Update(b, casConflict(b, r)) /\ UNCHANGED kv
  BY Zenon DEF WriteCapabilityKey, Sends, BootAt, MayCreate
<1>2. r \in ReplicaType /\ Sound(deployment, kv, r) /\ BootTypeOK /\ StoreInv
  BY Mine DEF BootInv
<1> HIDE DEF r
<1>3. r.name \in KeyNames /\ r.draft \in AnyKey
  BY <1>2 DEF ReplicaType
<1>4. CASE Update(b, casConflict(b, r)) /\ UNCHANGED kv
  BY <1>1, <1>2, <1>4, ConflictSound, OneReplicaOnly
<1>5. CASE /\ kv[r.name] = << >> /\ kv' = [kv EXCEPT ![r.name] = Append(@, r.draft)]
           /\ Update(b, Created(r)) \/ Update(b, Fails(b, r))
  <2>1. /\ kv' \in [KeyNames -> Seq(AnyKey)] /\ Grows(kv, kv')
        /\ \A m \in KeyNames \ {"auditSigning"} : Len(kv'[m]) <= 1
        /\ kv'[r.name] # << >> /\ kv'[r.name][1] = r.draft
    BY <1>2, <1>3, <1>5, StoreAppends, Zenon
  <2>2. Sound(deployment, kv', r)
    BY <1>2, <2>1, SoundGrows
  <2>3. CASE Update(b, Fails(b, r))
    <3>1. Fails(b, r) \in ReplicaType /\ Sound(deployment, kv', Fails(b, r))
      BY <1>1, <1>2, <2>2, FailsSound
    <3> QED
      BY <1>1, <2>1, <2>3, <3>1, OneReplica
  <2>4. CASE Update(b, Created(r)) /\ r.name # "auditSigning"
    <3>1. Created(r) = FromVault(r, r.draft)
      BY <2>4 DEF Created
    <3>2. FromVault(r, r.draft) \in ReplicaType /\ Sound(deployment, kv', FromVault(r, r.draft))
      BY <1>1, <1>2, <1>3, <2>1, <2>2, <2>4, FromVaultSound
    <3> QED
      BY <1>1, <2>1, <2>4, <3>1, <3>2, OneReplica
  <2>5. CASE Update(b, Created(r)) /\ r.name = "auditSigning"
    <3>1. Created(r) = s
      BY <2>5 DEF Created
    <3>2. 0 \in 0..1 /\ "reread" \in Phases
      BY DEF Phases
    <3>3. s \in ReplicaType
      BY <1>2, <3>2, Zenon DEF ReplicaType
    <3>4. /\ s.pc = "reread" /\ s.name = r.name /\ s.key = r.key /\ s.failed = r.failed
          /\ s.version = r.version /\ s.durable = r.durable
      BY <1>2 DEF ReplicaType
    <3> HIDE DEF s
    <3>5. Sound(deployment, kv', s)
      BY <1>1, <2>1, <2>2, <2>5, <3>4 DEF Sound
    <3> QED
      BY <1>1, <2>1, <2>5, <3>1, <3>3, <3>5, OneReplica
  <2> QED
    BY <1>5, <2>3, <2>4, <2>5
<1> QED
  BY <1>1, <1>4, <1>5

LEMMA GuardStep ==
    ASSUME BootInv, NEW b \in Replicas, Guard(b) \/ SecretsGuard(b)
    PROVE  BootInv'
<1> DEFINE r == replica[b]
           p(pc) == [r EXCEPT !.pc = pc]
<1>1. r \in ReplicaType /\ Sound(deployment, kv, r) /\ BootTypeOK
  BY Mine
<1>2. UNCHANGED <<deployment, kv, events>>
  BY DEF Guard, SecretsGuard
<1>3. ASSUME NEW pc \in {"resolve", "serving", "fatal"}
      PROVE  /\ p(pc) \in ReplicaType /\ p(pc).pc = pc /\ p(pc).name = r.name /\ p(pc).key = r.key
             /\ p(pc).failed = r.failed /\ p(pc).version = r.version /\ p(pc).durable = r.durable
  <2> HIDE DEF r
  <2> QED
    BY <1>1 DEF ReplicaType, Phases
<1>4. CASE Guard(b)
  <2>1. r.pc = "guard" /\ Update(b, p(IF deployment.dev \/ devModeGuard(b) THEN "resolve" ELSE "fatal"))
    BY <1>4 DEF Guard, BootAt
  <2>2. devModeGuard(b) = (r.durable /\ r.key["auditSigning"] # NoKeyYet)
    BY DEF devModeGuard
  <2>3. r.name = "gatewayGrant"
    BY <1>1, <2>1 DEF Sound
  <2>4. CASE deployment.dev \/ devModeGuard(b)
    <3> DEFINE s == p("resolve")
    <3>1. /\ s \in ReplicaType /\ s.pc = "resolve" /\ s.name = r.name /\ s.key = r.key
          /\ s.failed = r.failed /\ s.version = r.version /\ s.durable = r.durable
      BY <1>3
    <3>2. Update(b, s)
      BY <2>1, <2>4
    <3> HIDE DEF p, r
    <3>3. Sound(deployment, kv, s)
      BY <1>1, <2>1, <2>2, <2>3, <2>4, <3>1, Zenon DEF Sound
    <3> QED
      BY <1>2, <3>1, <3>2, <3>3, OneReplicaOnly
  <2>5. CASE ~(deployment.dev \/ devModeGuard(b))
    <3> DEFINE s == p("fatal")
    <3>1. /\ s \in ReplicaType /\ s.pc = "fatal" /\ s.name = r.name /\ s.key = r.key
          /\ s.failed = r.failed /\ s.version = r.version /\ s.durable = r.durable
      BY <1>3
    <3>2. Update(b, s)
      BY <2>1, <2>5
    <3> HIDE DEF p, r
    <3>3. Sound(deployment, kv, s)
      BY <1>1, <2>1, <2>3, <3>1 DEF Sound
    <3> QED
      BY <1>2, <3>1, <3>2, <3>3, OneReplicaOnly
  <2> QED
    BY <2>4, <2>5
<1>5. CASE SecretsGuard(b)
  <2>1. r.pc = "secretsGuard" /\ Update(b, p(IF deployment.dev \/ secretsGuard(b) THEN "serving" ELSE "fatal"))
    BY <1>5 DEF SecretsGuard, BootAt
  <2>2. secretsGuard(b) => ~(r.key["auditSigning"] = EnvKey /\ deployment.env["auditSigning"] = "weak")
    BY DEF secretsGuard, weakSecret, KeyNames
  <2>3. r.name = "workspaceSession"
    BY <1>1, <2>1 DEF Sound
  <2>4. CASE deployment.dev \/ secretsGuard(b)
    <3> DEFINE s == p("serving")
    <3>1. /\ s \in ReplicaType /\ s.pc = "serving" /\ s.name = r.name /\ s.key = r.key
          /\ s.failed = r.failed /\ s.version = r.version /\ s.durable = r.durable
      BY <1>3
    <3>2. Update(b, s)
      BY <2>1, <2>4
    <3> HIDE DEF p, r
    <3>3. Sound(deployment, kv, s)
      BY <1>1, <2>1, <2>2, <2>3, <2>4, <3>1 DEF Sound
    <3> QED
      BY <1>2, <3>1, <3>2, <3>3, OneReplicaOnly
  <2>5. CASE ~(deployment.dev \/ secretsGuard(b))
    <3> DEFINE s == p("fatal")
    <3>1. /\ s \in ReplicaType /\ s.pc = "fatal" /\ s.name = r.name /\ s.key = r.key
          /\ s.failed = r.failed /\ s.version = r.version /\ s.durable = r.durable
      BY <1>3
    <3>2. Update(b, s)
      BY <2>1, <2>5
    <3> HIDE DEF p, r
    <3>3. Sound(deployment, kv, s)
      BY <1>1, <2>1, <2>3, <3>1 DEF Sound
    <3> QED
      BY <1>2, <3>1, <3>2, <3>3, OneReplicaOnly
  <2> QED
    BY <2>4, <2>5
<1> QED
  BY <1>4, <1>5

LEMMA SignStep ==
    ASSUME BootInv, NEW b \in Replicas, Sign(b)
    PROVE  BootInv'
<1> DEFINE k == replica[b].key["auditSigning"]
           v == replica[b].version
<1>1. /\ replica[b].pc = "serving" /\ k # NoKeyYet /\ UNCHANGED <<deployment, kv, replica>>
      /\ events' = events \cup {[key |-> k, version |-> v]}
  BY DEF Sign, BootAt
<1>2. replica[b].name = "workspaceSession" /\ AuditKeyOK(deployment, kv, k, v)
  BY <1>1, Mine DEF Sound
<1> HIDE DEF k, v
<1>3. \A e \in events' : e.key # NoKeyYet /\ AuditKeyOK(deployment, kv, e.key, e.version)
  BY <1>1, <1>2 DEF BootInv, StoreInv
<1>4. StoreInv'
  BY <1>1, <1>3 DEF BootInv, StoreInv
<1> QED
  BY <1>1, <1>4 DEF BootInv, BootTypeOK

LEMMA RotateStep ==
    ASSUME BootInv, Rotate
    PROVE  BootInv'
<1> DEFINE k == [by |-> "operator", version |-> Len(kv["auditSigning"]) + 1]
<1>1. kv' = [kv EXCEPT !["auditSigning"] = Append(@, k)] /\ UNCHANGED <<deployment, replica, events>>
  BY DEF Rotate
<1>2. BootTypeOK /\ StoreInv /\ "auditSigning" \in KeyNames
  BY DEF BootInv, KeyNames
<1>3. k \in AnyKey
  <2>1. kv["auditSigning"] \in Seq(AnyKey)
    BY <1>2 DEF BootTypeOK
  <2>2. Len(kv["auditSigning"]) + 1 \in Nat
    BY <2>1
  <2> QED
    BY <2>2 DEF AnyKey
<1> HIDE DEF k
<1>4. /\ kv' \in [KeyNames -> Seq(AnyKey)] /\ Grows(kv, kv')
      /\ \A m \in KeyNames \ {"auditSigning"} : Len(kv'[m]) <= 1
  BY <1>1, <1>2, <1>3, StoreAppends, Zenon
<1>5. \A e \in events : e.key # NoKeyYet /\ AuditKeyOK(deployment, kv', e.key, e.version)
  BY <1>2, <1>4, AuditKeyStays DEF StoreInv
<1>6. \A c \in Replicas : Sound(deployment, kv', replica[c])
  BY <1>4, SoundGrows DEF BootInv
<1>7. BootTypeOK'
  BY <1>1, <1>2, <1>4 DEF BootTypeOK
<1>8. StoreInv'
  BY <1>1, <1>4, <1>5, Zenon DEF StoreInv
<1> QED
  BY <1>1, <1>6, <1>7, <1>8, Zenon DEF BootInv

LEMMA BootInvInit ==
    ASSUME BootInit
    PROVE  BootInv
<1>1. BootTypeOK
  <2>1. \A n \in KeyNames : << >> \in Seq(AnyKey)
    OBVIOUS
  <2>2. Off(0) \in ReplicaType
    BY OffSound, Zenon
  <2> QED
    BY <2>1, <2>2 DEF BootInit, BootTypeOK
<1>2. StoreInv
  BY DEF BootInit, StoreInv
<1>3. \A b \in Replicas : Sound(deployment, kv, replica[b])
  BY OffSound, Zenon DEF BootInit
<1> QED
  BY <1>1, <1>2, <1>3 DEF BootInv

LEMMA BootInvNext ==
    ASSUME BootInv, [BootNext]_bootVars
    PROVE  BootInv'
<1>1. CASE UNCHANGED bootVars
  BY <1>1 DEF bootVars, BootInv, BootTypeOK, StoreInv
<1>2. CASE Rotate
  BY <1>2, RotateStep
<1>3. ASSUME NEW b \in Replicas,
             \/ Boot(b) \/ Resolve(b) \/ Guard(b) \/ SecretsGuard(b)
             \/ ensureToken(b) \/ do(b) \/ ReadCapabilityKey(b) \/ WriteCapabilityKey(b)
             \/ ReadAuditSigningKey(b) \/ RequestFails(b)
             \/ Sign(b) \/ RevokeToken(b) \/ Stop(b)
      PROVE  BootInv'
  BY <1>3, BootStep, ResolveStep, GuardStep, TokenStep, ReadStep, WriteStep, RereadStep, SignStep
<1> QED
  BY <1>1, <1>2, <1>3 DEF BootNext

-----------------------------------------------------------------------------
(* The keys of replicas that serve are functions of the deployment and of  *)
(* what Vault holds.                                                       *)
LEMMA ServingKeys ==
    ASSUME BootInv, \A w \in BootWorlds : GrantKeyHasAHome(w), ~deployment.dev,
           NEW b \in ServingReplicas, NEW c \in ServingReplicas
    PROVE  /\ replica[b].key["capability"] = replica[c].key["capability"]
           /\ \A n \in {"gatewayGrant", "workspaceSession"} :
                  n \notin replica[b].failed \cup replica[c].failed => replica[b].key[n] = replica[c].key[n]
<1>1. \A a \in {b, c} :
         /\ replica[a].pc = "serving" /\ Sound(deployment, kv, replica[a])
         /\ replica[a].name = "workspaceSession" /\ replica[a].durable
         /\ replica[a].key["auditSigning"] # NoKeyYet
         /\ ~(replica[a].key["auditSigning"] = EnvKey /\ deployment.env["auditSigning"] = "weak")
         /\ AuditKeyOK(deployment, kv, replica[a].key["auditSigning"], replica[a].version)
  BY DEF BootInv, ServingReplicas, BootAt, Sound
<1>2. \A a \in {b, c} : CapabilityKeyOK(deployment, kv, replica[a].key["capability"])
  BY <1>1 DEF Sound
<1>3. replica[b].key["capability"] = replica[c].key["capability"]
  BY <1>2 DEF CapabilityKeyOK
<1>4. ASSUME "gatewayGrant" \notin replica[b].failed \cup replica[c].failed
      PROVE  replica[b].key["gatewayGrant"] = replica[c].key["gatewayGrant"]
  <2>1. \A a \in {b, c} : GrantKeyOK(deployment, kv, replica[a].key["gatewayGrant"])
    BY <1>1, <1>4 DEF Sound
  <2>2. deployment.vault \/ "gatewayGrant" \in deployment.configured
    <3>1. deployment \in BootWorlds /\ deployment.env["auditSigning"] \in {"none", "weak", "strong"}
      BY Deployments DEF BootInv, BootTypeOK, KeyNames
    <3>2. SUFFICES ASSUME ~deployment.vault, "gatewayGrant" \notin deployment.configured PROVE FALSE
      OBVIOUS
    <3>3. deployment.env["auditSigning"] # "strong"
      BY <3>1, <3>2 DEF GrantKeyHasAHome
    <3>4. replica[b].key["auditSigning"] = EnvOrNone(deployment, "auditSigning")
      BY <1>1, <3>2 DEF AuditKeyOK
    <3> QED
      BY <1>1, <3>1, <3>3, <3>4 DEF EnvOrNone
  <2> QED
    BY <2>1, <2>2 DEF GrantKeyOK
<1>5. ASSUME "workspaceSession" \notin replica[b].failed \cup replica[c].failed
      PROVE  replica[b].key["workspaceSession"] = replica[c].key["workspaceSession"]
  <2>1. \A a \in {b, c} : SessionKeyOK(deployment, kv, replica[a].key["workspaceSession"])
    BY <1>1, <1>5 DEF Sound
  <2> QED
    BY <2>1 DEF SessionKeyOK
<1> QED
  BY <1>3, <1>4, <1>5

(* Outside development mode, in deployments that give the grant key a home *)
(* (Vault or the configuration), any two brokers that serve hold the same  *)
(* capability key, and the same grant and session keys unless Vault failed *)
(* one of them; and every audit event verifies on each of them.  For any   *)
(* number of replicas, restarts, failed and retried requests and rotations *)
(* (main.go's four resolve functions and the two startup guards).          *)
THEOREM ReplicasAgree ==
    (\A w \in BootWorlds : GrantKeyHasAHome(w)) => (BootSpec => []ReplicasShareKeys)
<1> SUFFICES ASSUME \A w \in BootWorlds : GrantKeyHasAHome(w)
             PROVE  BootSpec => []ReplicasShareKeys
  OBVIOUS
<1>1. BootInit => BootInv
  BY BootInvInit
<1>2. BootInv /\ [BootNext]_bootVars => BootInv'
  BY BootInvNext
<1>3. BootInv => ReplicasShareKeys
  <2> SUFFICES ASSUME BootInv PROVE ReplicasShareKeys
    OBVIOUS
  <2>1. ASSUME NEW e \in events, NEW b \in ServingReplicas
        PROVE  ForVersion(b, e.version) = e.key
    <3>1. AuditKeyOK(deployment, kv, e.key, e.version)
      BY DEF BootInv, StoreInv
    <3> QED
      BY <3>1 DEF AuditKeyOK, ForVersion, ReadAuditSigningKeyVersion, EnvOrNone
  <2> QED
    BY <2>1, ServingKeys DEF ReplicasShareKeys
<1> QED
  BY <1>1, <1>2, <1>3, PTL DEF BootSpec

=============================================================================
