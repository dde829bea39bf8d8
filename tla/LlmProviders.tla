----------------------------- MODULE LlmProviders -----------------------------
(***************************************************************************)
(* The LLM providers of a tenant (broker/providers_admin.go,               *)
(* providers_test_conn.go, providers_south.go GetLlmProviders,             *)
(* db/llm_providers.go, llmseed/seed.go). A provider's row is in the       *)
(* database, its write-only key in the secret store, and each capability   *)
(* names a default provider; a handler changes them one after the other    *)
(* and any of its requests may fail. A target stands for the endpoint,     *)
(* api, api version and config a key is sent to; a stored key is told      *)
(* apart by the target it was entered for.                                 *)
(***************************************************************************)
EXTENDS Integers, FiniteSets

CONSTANTS Providers, Targets, Capabilities, ProviderCalls,
          ProviderWorlds  \* the scenarios

VARIABLES provWorld,
          prov,      \* llm_providers: the row of a provider
          vault,     \* the key in the secret store, by the target it is for
          defaults,  \* llm_provider_defaults: capability -> provider
          pcall,     \* the request in a slot
          booting,   \* providers of the seed file the start has not come to
          sent,      \* ghost: <<target a stored key was for, target it was sent to>>
          edits      \* requests so far

provVars == <<provWorld, prov, vault, defaults, pcall, booting, sent, edits>>

NoProvider == [target |-> "none"]
NoKey == "none"
IdleCall == [pc |-> "idle"]

ProvInit ==
  /\ provWorld \in ProviderWorlds
  /\ prov = [p \in Providers |-> NoProvider]
  /\ vault = [p \in Providers |-> NoKey]
  /\ defaults = [k \in Capabilities |-> NoKey]
  /\ pcall = [c \in ProviderCalls |-> IdleCall]
  /\ booting = provWorld.seeds
  /\ sent = {}
  /\ edits = 0

CallAt(c, pc) == pcall[c].pc = pc
Proceeds(c, pc) == pcall' = [pcall EXCEPT ![c].pc = pc]
Returns(c) == pcall' = [pcall EXCEPT ![c] = IdleCall]

(* A request is taken once the seed is done; in a world without overlap,   *)
(* when no other is in flight.                                             *)
Request(c, op, call) ==
  /\ op \in provWorld.ops /\ booting = {} /\ edits < provWorld.edits
  /\ pcall[c] = IdleCall
  /\ ~provWorld.overlap => \A d \in ProviderCalls : pcall[d] = IdleCall
  /\ pcall' = [pcall EXCEPT ![c] = call]
  /\ edits' = edits + 1

-----------------------------------------------------------------------------
(* UpsertLlmProvider                                                        *)

(* A key that is given is stored first, if the broker has a secret store;  *)
(* without one the stored row is read.                                     *)
UpsertLlmProvider(c, p, target, withKey, serves) ==
  /\ Request(c, "upsert", [pc |-> IF ~withKey THEN "stored"
                                  ELSE IF provWorld.secrets THEN "writeKey" ELSE "row",
                           id |-> p, target |-> target, serves |-> serves, hasKey |-> withKey])
  /\ UNCHANGED <<provWorld, prov, vault, defaults, booting, sent>>

WriteProviderKey(c) ==
  /\ CallAt(c, "writeKey")
  /\ vault' = [vault EXCEPT ![pcall[c].id] = pcall[c].target]
  /\ Proceeds(c, "row")
  /\ UNCHANGED <<provWorld, prov, defaults, booting, sent, edits>>

(* A write that fails may have stored the key, in a world of late failures. *)
WriteKeyFails(c) ==
  /\ "fail" \in provWorld.ops /\ CallAt(c, "writeKey")
  /\ \/ UNCHANGED vault
     \/ /\ "late" \in provWorld.ops
        /\ vault' = [vault EXCEPT ![pcall[c].id] = pcall[c].target]
  /\ Returns(c)
  /\ UNCHANGED <<provWorld, prov, defaults, booting, sent, edits>>

(* Whether the request sends a key where the saved row does. *)
Same(p, target) == prov[p].target = target
Found(p) == prov[p] # NoProvider

(* A row that cannot be read ends the request; a stored key is not carried *)
(* to another target; a provider that is not found has none.               *)
storedKeyTarget(c) ==
  LET p == pcall[c].id
  IN  /\ CallAt(c, "stored")
      /\ \/ /\ Found(p) /\ prov[p].hasKey /\ ~Same(p, pcall[c].target)
            /\ Returns(c)
         \/ /\ Found(p) => (prov[p].hasKey => Same(p, pcall[c].target))
            /\ pcall' = [pcall EXCEPT ![c].pc = "row", ![c].hasKey = Found(p) /\ prov[p].hasKey]
      /\ UNCHANGED <<provWorld, prov, vault, defaults, booting, sent, edits>>

StoredRowUnread(c) ==
  /\ "fail" \in provWorld.ops /\ CallAt(c, "stored")
  /\ Returns(c)
  /\ UNCHANGED <<provWorld, prov, vault, defaults, booting, sent, edits>>

(* The row is replaced; the defaults live elsewhere and stay. *)
UpsertRow(c) ==
  LET r == pcall[c]
  IN  /\ CallAt(c, "row")
      /\ \/ prov' = [prov EXCEPT ![r.id] = [target |-> r.target, hasKey |-> r.hasKey, serves |-> r.serves]]
         \/ "late" \in provWorld.ops /\ UNCHANGED prov
      /\ Returns(c)
      /\ UNCHANGED <<provWorld, vault, defaults, booting, sent, edits>>

-----------------------------------------------------------------------------
(* DeleteLlmProvider: the row and, by cascade, the defaults that name it;  *)
(* then the key, whose deletion may fail.                                  *)

DeleteLlmProvider(c, p) ==
  /\ Request(c, "delete", IF provWorld.secrets THEN [pc |-> "unkey", id |-> p] ELSE IdleCall)
  /\ prov' = [prov EXCEPT ![p] = NoProvider]
  /\ defaults' = [k \in Capabilities |-> IF defaults[k] = p THEN NoKey ELSE defaults[k]]
  /\ UNCHANGED <<provWorld, vault, booting, sent>>

DeleteProviderKey(c) ==
  /\ CallAt(c, "unkey")
  /\ \E key \in {NoKey} \cup (IF "fail" \in provWorld.ops THEN {vault[pcall[c].id]} ELSE {}) :
       vault' = [vault EXCEPT ![pcall[c].id] = key]
  /\ Returns(c)
  /\ UNCHANGED <<provWorld, prov, defaults, booting, sent, edits>>

-----------------------------------------------------------------------------
(* Defaults                                                                 *)

(* A provider is eligible for what it serves. *)
capabilityEligible(k, p) == k \in prov[p].serves

setDefaultForCapability(c, k, p) ==
  /\ Found(p) /\ capabilityEligible(k, p)
  /\ Request(c, "default", [pc |-> "point", capability |-> k, id |-> p])
  /\ UNCHANGED <<provWorld, prov, vault, defaults, booting, sent>>

(* The foreign key refuses a provider deleted in between. *)
SetDefaultFor(c) ==
  /\ CallAt(c, "point")
  /\ defaults' = IF Found(pcall[c].id) THEN [defaults EXCEPT ![pcall[c].capability] = pcall[c].id] ELSE defaults
  /\ Returns(c)
  /\ UNCHANGED <<provWorld, prov, vault, booting, sent, edits>>

ClearDefault(c, k) ==
  /\ Request(c, "default", IdleCall)
  /\ defaults' = [defaults EXCEPT ![k] = NoKey]
  /\ UNCHANGED <<provWorld, prov, vault, booting, sent>>

-----------------------------------------------------------------------------
(* Reads of the stored key                                                  *)

(* Mutant: a row without a key borrows what the secret store holds. *)
BorrowsAny(p, target) == Found(p) /\ Same(p, target)

(* Only for the saved target, and only when the row has a key. *)
Borrows(p, target) == Found(p) /\ Same(p, target) /\ prov[p].hasKey

(* Without a secret store neither reads a key.                             *)
(* TestLlmProvider without a key of its own; what it costs is SpendCaps'.  *)
TestLlmProvider(c, p, target) ==
  /\ provWorld.secrets /\ Borrows(p, target)
  /\ Request(c, "test", [pc |-> "probe", id |-> p, target |-> target])
  /\ UNCHANGED <<provWorld, prov, vault, defaults, booting, sent>>

(* GetLlmProviders lists the rows, then fetches the key of each that has one. *)
GetLlmProviders(c, p) ==
  /\ provWorld.secrets /\ Found(p) /\ prov[p].hasKey
  /\ Request(c, "get", [pc |-> "probe", id |-> p, target |-> prov[p].target])
  /\ UNCHANGED <<provWorld, prov, vault, defaults, booting, sent>>

(* A missing key is logged and nothing is sent. *)
ReadProviderKey(c) ==
  LET p == pcall[c].id
  IN  /\ CallAt(c, "probe")
      /\ sent' = IF vault[p] = NoKey THEN sent ELSE sent \cup {<<vault[p], pcall[c].target>>}
      /\ Returns(c)
      /\ UNCHANGED <<provWorld, prov, vault, defaults, booting, edits>>

-----------------------------------------------------------------------------
(* The start: the requests in flight are gone (none in a world without     *)
(* overlap), and each provider of the seed file that has no row is stored: *)
(* its key (whose write may fail), the row, and its mark as default.       *)

ProvRestart ==
  /\ "restart" \in provWorld.ops /\ booting = {} /\ edits < provWorld.edits
  /\ ~provWorld.overlap => \A c \in ProviderCalls : pcall[c] = IdleCall
  /\ pcall' = [c \in ProviderCalls |-> IdleCall]
  /\ booting' = provWorld.seeds
  /\ edits' = edits + 1
  /\ UNCHANGED <<provWorld, prov, vault, defaults, sent>>

Seed(p, stored) ==
  /\ p \in booting /\ booting' = booting \ {p}
  /\ stored => provWorld.secrets
  /\ IF Found(p)
       THEN UNCHANGED <<prov, vault, defaults>>
       ELSE /\ vault' = IF stored THEN [vault EXCEPT ![p] = provWorld.seedTarget] ELSE vault
            /\ prov' = [prov EXCEPT ![p] = [target |-> provWorld.seedTarget, hasKey |-> stored,
                                            serves |-> {"chat"}]]
            /\ defaults' = [defaults EXCEPT !["chat"] = p]
  /\ UNCHANGED <<provWorld, pcall, sent, edits>>

ProvNext ==
  \/ ProvRestart
  \/ \E p \in Providers, stored \in BOOLEAN : Seed(p, stored)
  \/ \E c \in ProviderCalls :
       \/ WriteProviderKey(c) \/ WriteKeyFails(c) \/ storedKeyTarget(c) \/ StoredRowUnread(c)
       \/ UpsertRow(c) \/ DeleteProviderKey(c) \/ SetDefaultFor(c) \/ ReadProviderKey(c)
       \/ \E k \in Capabilities : ClearDefault(c, k)
       \/ \E p \in Providers :
            \/ DeleteLlmProvider(c, p) \/ GetLlmProviders(c, p)
            \/ \E k \in Capabilities : setDefaultForCapability(c, k, p)
            \/ \E t \in Targets : TestLlmProvider(c, p, t)
            \/ \E t \in Targets, withKey \in provWorld.keys, serves \in provWorld.serves :
                 UpsertLlmProvider(c, p, t, withKey, serves)

ProvSpec == ProvInit /\ [][ProvNext]_provVars

-----------------------------------------------------------------------------
(* The key in the secret store and the row in the database keep agreeing.  *)
(* With a secret store, a row that says it has a key has one, although the *)
(* key is stored before the row, a write may fail in between and edits     *)
(* overlap (a delete that overlaps an edit of the same provider is left    *)
(* out: it may drop the key the edit has just stored); without one the     *)
(* flag of a row says nothing, since a key entered is dropped and marked   *)
(* as stored.  A default names a provider that exists, although it may be  *)
(* deleted between the check and the write.  M-14: when requests neither overlap nor end between their   *)
(* two writes, a stored key is only ever sent to the target it was entered *)
(* for: through edits without a key, a delete whose key stayed behind, a   *)
(* new provider under the old id, and a restart's seed.                    *)
StoredKeysFollowRows ==
  /\ \A p \in Providers :
       (provWorld.secrets /\ Found(p) /\ prov[p].hasKey) => vault[p] # NoKey
  /\ \A k \in Capabilities : defaults[k] # NoKey => Found(defaults[k])
  /\ ~provWorld.overlap => \A s \in sent : s[1] = s[2]
=============================================================================
