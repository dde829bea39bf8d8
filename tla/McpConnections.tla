--------------------------- MODULE McpConnections ---------------------------
(***************************************************************************)
(* One MCP connection of a tenant, as administrators add, change and       *)
(* delete it.  Its row is in Postgres, its shared bearer token and its     *)
(* OAuth client secret in two slots of Vault, and its OAuth endpoints come *)
(* from the documents the server and its authorization server publish.     *)
(* Each access to a store is a step.                                       *)
(***************************************************************************)
EXTENDS Sequences, FiniteSets

CONSTANTS
    McpAdmins,      \* requests that may be in flight
    McpRequests,    \* by administrator, the connections submitted
    McpServers,     \* what an MCP server may answer to discovery
    ClientMetadataURL,  \* the deployment publishes a client metadata document
    McpFaults       \* stores may fail

VARIABLES
    mcpRow,         \* the row, NoMcpRow before it is added and after it is deleted
    mcpSlot,        \* Vault: by slot, the secret in it
    mcpcall,        \* the requests
    everAdded,      \* the id is taken: a deleted connection does not come back
    ragged          \* ghost: a store failed half way, or two requests overlapped

mcpVars == <<mcpRow, mcpSlot, mcpcall, everAdded, ragged>>

NoMeta == [resource |-> "", issuer |-> FALSE, s256 |-> FALSE, https |-> FALSE]
NoMcpRow == [auth |-> "absent", client |-> "", ref |-> "", meta |-> NoMeta]
NoSecret == "empty"
NoRequest == [auth |-> "none", client |-> "", secret |-> FALSE, bearer |-> FALSE]
IdleMcp == [op |-> "none", pc |-> "idle", req |-> NoRequest, prev |-> NoMcpRow, rec |-> NoMcpRow, put |-> NoSecret]

\* McpBearerPath names the slot of the connection, McpClientSecretID a sibling.
McpClientSecretID == "client"
McpBearerPath == "bearer"
Slots == {McpBearerPath, "client"}

(***************************************************************************)
(* Discovery.  prm and as are the candidate documents in the order they    *)
(* are fetched; NoDoc is one that is missing or whose host does not answer. *)
(***************************************************************************)
NoDoc == [kind |-> "none"]
FirstOf(docs, Good(_)) ==
    LET S == SelectSeq(docs, Good) IN IF S = <<>> THEN NoDoc ELSE S[1]
NamesServer(d) == d.kind = "doc" /\ d.servers
Complete(d) == d.kind = "doc" /\ d.endpoints
\* The resource is this server's origin with a path at or above its own.
resourceCovers(resource) == resource \in {"", "self", "above"}
Verified(prm, as) == resourceCovers(prm.resource) /\ as.issuer /\ as.s256 /\ as.https
Refused == [ok |-> FALSE]
\* The first document that names an authorization server decides; a later
\* candidate is not tried when it fails the checks.
DiscoverMcpAuth(server) ==
    LET prm == FirstOf(server.prm, NamesServer)
        as == FirstOf(server.as, Complete)
    IN IF prm = NoDoc \/ as = NoDoc THEN Refused
       ELSE IF Verified(prm, as) THEN [ok |-> TRUE, prm |-> prm, as |-> as] ELSE Refused

(* Mutant: the stored secret is kept for whatever client is named. *)
configureMcpOAuthKeeps(req, prev, meta, issuesSecret) ==
    IF ~meta.ok THEN [ok |-> FALSE]
    ELSE IF req.client # ""
    THEN [ok |-> TRUE, client |-> req.client,
          act |-> IF req.secret THEN "write" ELSE IF prev.auth = "oauth" THEN "keep" ELSE "drop"]
    ELSE [ok |-> FALSE]
\* The client of the connection: the administrator's, the metadata document's,
\* or one registered now.  act says what becomes of the secret slot.
configureMcpOAuth(req, prev, meta, issuesSecret) ==
    LET kept == ~req.secret /\ prev.auth = "oauth" /\ prev.client = req.client
    IN IF ~meta.ok THEN [ok |-> FALSE]
       ELSE IF req.client # ""
       THEN [ok |-> TRUE, client |-> req.client,
             act |-> IF kept THEN "keep" ELSE IF req.secret THEN "write" ELSE "drop"]
       ELSE IF meta.as.cimd /\ ClientMetadataURL
       THEN [ok |-> TRUE, client |-> "document", act |-> "drop"]
       ELSE IF meta.as.registers
       THEN [ok |-> TRUE, client |-> "registered", act |-> IF issuesSecret THEN "write" ELSE "drop"]
       ELSE [ok |-> FALSE]

-----------------------------------------------------------------------------
McpInit ==
    /\ mcpRow = NoMcpRow
    /\ mcpSlot = [s \in {"bearer", "client"} |-> NoSecret]
    /\ mcpcall = [a \in McpAdmins |-> IdleMcp]
    /\ everAdded = FALSE /\ ragged = FALSE

McpAt(a, pc) == mcpcall[a].pc = pc
Leave(a) == mcpcall' = [mcpcall EXCEPT ![a] = IdleMcp]
Overlaps(a) == \E b \in McpAdmins \ {a} : ~McpAt(b, "idle")
Submit(a, op, req) ==
    /\ McpAt(a, "idle")
    /\ mcpcall' = [mcpcall EXCEPT ![a] = [IdleMcp EXCEPT !.op = op, !.pc = "get", !.req = req]]
    /\ ragged' = (ragged \/ Overlaps(a))
    /\ UNCHANGED <<mcpRow, mcpSlot, everAdded>>
AddMcpConnection(a, req) == ~everAdded /\ (\A b \in McpAdmins : McpAt(b, "idle")) /\ Submit(a, "add", req)
UpdateMcpConnection(a, req) == everAdded /\ Submit(a, "update", req)
DeleteMcpConnection(a) == everAdded /\ Submit(a, "delete", NoRequest)

\* Update reads the row it replaces; there is none to read for a new one.
Get(a) ==
    /\ McpAt(a, "get") /\ mcpcall[a].op # "delete"
    /\ IF mcpcall[a].op = "update" /\ mcpRow = NoMcpRow
       THEN Leave(a)
       ELSE mcpcall' = [mcpcall EXCEPT ![a].pc = "auth", ![a].prev = mcpRow]
    /\ UNCHANGED <<mcpRow, mcpSlot, everAdded, ragged>>

\* What the authentication of the new row needs of Vault: put is the secret to
\* write, "drop" one to delete, NoSecret nothing.
Rec(auth, client, ref, meta) == [auth |-> auth, client |-> client, ref |-> ref, meta |-> meta]
Prepares(a, rec, put) ==
    mcpcall' = [mcpcall EXCEPT ![a].pc = "vault", ![a].rec = rec, ![a].put = put, ![a].req = NoRequest]
PrepareOAuth(a, server, issuesSecret) ==
    LET req == mcpcall[a].req
        prev == mcpcall[a].prev
        meta == DiscoverMcpAuth(server)
        c == configureMcpOAuth(req, prev, meta, issuesSecret)
    IN /\ McpAt(a, "auth") /\ req.auth = "oauth"
       /\ IF ~c.ok THEN Leave(a)
          ELSE Prepares(a, Rec("oauth", c.client,
                               CASE c.act = "keep" -> prev.ref
                                 [] c.act = "write" -> McpClientSecretID
                                 [] c.act = "drop" -> "",
                               [resource |-> meta.prm.resource, issuer |-> meta.as.issuer,
                                s256 |-> meta.as.s256, https |-> meta.as.https]),
                        CASE c.act = "keep" -> NoSecret
                          [] c.act = "write" -> c.client
                          [] c.act = "drop" -> "drop")
       /\ UNCHANGED <<mcpRow, mcpSlot, everAdded, ragged>>
\* A blank bearer keeps the row's reference, if it is a bearer's.
PrepareBearer(a) ==
    LET req == mcpcall[a].req
        prev == mcpcall[a].prev
    IN /\ McpAt(a, "auth") /\ req.auth # "oauth"
       /\ Prepares(a, Rec(req.auth, "",
                          IF req.auth # "bearer" THEN ""
                          ELSE IF req.bearer THEN McpBearerPath
                          ELSE IF prev.auth = "bearer" THEN prev.ref ELSE "", NoMeta),
                   IF req.auth = "bearer" /\ req.bearer THEN "token" ELSE NoSecret)
       /\ UNCHANGED <<mcpRow, mcpSlot, everAdded, ragged>>

\* WriteMcpBearer must succeed; DeleteMcpBearer is best-effort.
SlotOf(rec) == IF rec.auth = "oauth" THEN McpClientSecretID ELSE McpBearerPath
WriteMcpBearer(a) ==
    LET k == mcpcall[a]
    IN /\ McpAt(a, "vault") /\ k.put # "drop"
       /\ \/ /\ mcpSlot' = IF k.put = NoSecret THEN mcpSlot ELSE [mcpSlot EXCEPT ![SlotOf(k.rec)] = k.put]
             /\ mcpcall' = [mcpcall EXCEPT ![a].pc = "client", ![a].put = NoSecret]
          \/ McpFaults /\ k.put # NoSecret /\ Leave(a) /\ UNCHANGED mcpSlot
       /\ UNCHANGED <<mcpRow, everAdded, ragged>>
Deletes(slot) ==
    \/ mcpSlot' = [mcpSlot EXCEPT ![slot] = NoSecret] /\ UNCHANGED ragged
    \/ McpFaults /\ ragged' = TRUE /\ UNCHANGED mcpSlot
deleteMcpClientSecret(a) ==
    /\ \/ McpAt(a, "vault") /\ mcpcall[a].put = "drop"
       \/ McpAt(a, "client") /\ mcpcall[a].prev.auth = "oauth" /\ mcpcall[a].rec.auth # "oauth"
    /\ Deletes(McpClientSecretID)
    /\ mcpcall' = [mcpcall EXCEPT ![a].pc = "row", ![a].put = NoSecret, ![a].prev = NoMcpRow]
    /\ UNCHANGED <<mcpRow, everAdded>>
KeepClientSecret(a) ==
    /\ McpAt(a, "client")
    /\ mcpcall[a].prev.auth = "oauth" => mcpcall[a].rec.auth = "oauth"
    /\ mcpcall' = [mcpcall EXCEPT ![a].pc = "row", ![a].put = NoSecret, ![a].prev = NoMcpRow]
    /\ UNCHANGED <<mcpRow, mcpSlot, everAdded, ragged>>

\* The row last: a failure leaves what Vault already holds.
SaveMcpRow(a) ==
    /\ McpAt(a, "row") /\ mcpcall[a].op # "delete"
    /\ \/ /\ mcpcall[a].op = "update" => mcpRow # NoMcpRow
          /\ mcpRow' = mcpcall[a].rec /\ everAdded' = TRUE /\ UNCHANGED ragged
       \/ /\ McpFaults \/ (mcpcall[a].op = "update" /\ mcpRow = NoMcpRow)
          /\ ragged' = TRUE /\ UNCHANGED <<mcpRow, everAdded>>
    /\ Leave(a)
    /\ UNCHANGED mcpSlot

DeleteMcpBearer(a) ==
    /\ McpAt(a, "get") /\ mcpcall[a].op = "delete"
    /\ Deletes(McpBearerPath)
    /\ mcpcall' = [mcpcall EXCEPT ![a].pc = "wipe"]
    /\ UNCHANGED <<mcpRow, everAdded>>
WipeClientSecret(a) ==
    /\ McpAt(a, "wipe")
    /\ IF mcpRow.auth = "oauth" THEN Deletes(McpClientSecretID) ELSE UNCHANGED <<mcpSlot, ragged>>
    /\ mcpcall' = [mcpcall EXCEPT ![a].pc = "row", ![a].put = NoSecret, ![a].prev = NoMcpRow]
    /\ UNCHANGED <<mcpRow, everAdded>>
DeleteMcpRow(a) ==
    /\ McpAt(a, "row") /\ mcpcall[a].op = "delete"
    /\ \/ mcpRow' = NoMcpRow /\ UNCHANGED ragged
       \/ McpFaults /\ ragged' = TRUE /\ UNCHANGED mcpRow
    /\ Leave(a)
    /\ UNCHANGED <<mcpSlot, everAdded>>

McpNext ==
    \E a \in McpAdmins :
        \/ \E req \in McpRequests[a] : AddMcpConnection(a, req) \/ UpdateMcpConnection(a, req)
        \/ DeleteMcpConnection(a) \/ Get(a)
        \/ \E server \in McpServers, secret \in BOOLEAN : PrepareOAuth(a, server, secret)
        \/ PrepareBearer(a) \/ WriteMcpBearer(a) \/ deleteMcpClientSecret(a) \/ KeepClientSecret(a)
        \/ SaveMcpRow(a) \/ DeleteMcpBearer(a) \/ WipeClientSecret(a) \/ DeleteMcpRow(a)
McpSpec == McpInit /\ [][McpNext]_mcpVars

-----------------------------------------------------------------------------
\* What a call sends the server: mcpToken reads the slot of the connection's id.
mcpBearer == IF mcpRow.auth = "bearer" THEN mcpSlot[McpBearerPath] ELSE NoSecret
\* The client LoadMcpOAuth builds reads the secret whatever the row's reference.
LoadMcpOAuth == [client |-> mcpRow.client, secret |-> mcpSlot[McpClientSecretID]]
McpQuiet == ~ragged /\ \A a \in McpAdmins : McpAt(a, "idle")

(* The secrets of a connection follow its row, however it moves between        *)
(* authentication types and clients.  Whatever fails, no OAuth client secret   *)
(* is sent to the MCP server as its bearer token: it has a slot of its own     *)
(* (mcpoauth.go:62-66).  And when requests neither overlapped nor failed half  *)
(* way, the secret a client is loaded with is its own, the row's reference     *)
(* says whether there is one, and a deleted connection leaves none behind.     *)
SecretsFollowTheRow ==
    /\ mcpBearer \in {NoSecret, "token"}
    /\ McpQuiet /\ mcpRow.auth = "oauth" =>
        /\ LoadMcpOAuth.secret \in {NoSecret, mcpRow.client}
        /\ (mcpRow.ref # "") <=> (LoadMcpOAuth.secret # NoSecret)
    /\ McpQuiet /\ everAdded /\ mcpRow = NoMcpRow => \A s \in Slots : mcpSlot[s] = NoSecret
=============================================================================
