----------------------------- MODULE Connectors -----------------------------
(***************************************************************************)
(* The connection of one user to one external account: a cloud drive, the  *)
(* tenant-wide OneDrive, or an MCP server with OAuth.  The token is in      *)
(* Vault (slot), the entry the user sees in a reference file (listed), and  *)
(* the link flow in a table of pending states.  Tool calls refresh the      *)
(* token under a lock of the process; linking it and the OneDrive bootstrap *)
(* write it without that lock.  Two store accesses of one handler are two   *)
(* steps here.                                                              *)
(***************************************************************************)
EXTENDS Naturals

CONSTANTS
    LinkCalls,      \* requests that may be in flight
    LinkStates,     \* values of the OAuth state parameter
    Endpoints,      \* token endpoints an MCP server may name
    MaxIssued,      \* bound: refresh tokens the provider ever issues
    LinkWorlds      \* the deployments explored

VARIABLES
    linkWorld,
    slot,           \* the stored token, NoToken if none
    listed,         \* status of the reference entry
    pending,        \* link flows begun and not completed, by state
    tokenLock,      \* LockToken: the call holding it
    throttled,      \* a bootstrap was tried within the throttle window
    connectable,    \* the allowlist has this provider, or the user may access this MCP server
    app,            \* the tenant's M365 app: its secret, its settings, the edit in progress
    endpoint,       \* token endpoint of the MCP connection's row
    live, issued,   \* external: refresh tokens the provider honours; how many it issued
    lcall,          \* the calls
    spent, reused,  \* ghost: refresh tokens exchanged; of them, those presented again
    unsaved,        \* ghost: tokens exchanged whose successor may not have been stored
    gone,           \* ghost: token and entry were deleted and not written since by a link
    strayed         \* ghost: a recorded token went to an endpoint not its own

linkVars == <<linkWorld, slot, listed, pending, tokenLock, throttled, connectable, app,
              endpoint, live, issued, lcall, spent, reused, unsaved, gone, strayed>>
providerVars == <<live, issued, spent, reused, unsaved>>
adminVars == <<connectable, app, endpoint>>

Kind == linkWorld.kind
Token(ref, url, by) == [ref |-> ref, url |-> url, from |-> url, by |-> by, stale |-> FALSE]
NoToken == [ref |-> 0, url |-> "", from |-> "", by |-> "nobody", stale |-> FALSE]
NoLock == "free"
IdleLink == [op |-> "none", pc |-> "idle", tok |-> NoToken, url |-> "", obo |-> FALSE,
             said |-> "connected", old |-> 0]

LinkAt(c, pc) == lcall[c].pc = pc
Onto(c, pc) == lcall' = [lcall EXCEPT ![c].pc = pc]
Over(c) == lcall' = [lcall EXCEPT ![c] = IdleLink]
Ask(c, op) == LinkAt(c, "idle") /\ op \in linkWorld.asks
Breaks == linkWorld.faulty

\* OBOBroker.Configured: the tenant has a usable M365 connection.
Configured == Kind = "onedrive" /\ app.secret /\ app.row
\* Upsert replaces or creates the entry; UpdateStatus leaves an absent one absent.
Upsert(status) == listed' = status
UpdateStatus(status) == listed' = IF listed = "absent" THEN "absent" ELSE status

LinkInit ==
    /\ linkWorld \in LinkWorlds
    /\ slot = linkWorld.slot
    /\ listed = IF slot = NoToken THEN "absent" ELSE "connected"
    /\ pending = [s \in LinkStates |-> "none"]
    /\ tokenLock = NoLock /\ throttled = FALSE
    /\ connectable = TRUE
    /\ app = [secret |-> linkWorld.managed, row |-> linkWorld.managed, edit |-> "none"]
    /\ endpoint = linkWorld.endpoint
    /\ live = (IF slot.ref = 0 THEN {} ELSE {slot.ref}) /\ issued = slot.ref
    /\ lcall = [c \in LinkCalls |-> IdleLink]
    /\ spent = {} /\ reused = {} /\ unsaved = {}
    /\ gone = [token |-> FALSE, entry |-> FALSE]
    /\ strayed = FALSE

(***************************************************************************)
(* Linking an account: the browser leaves with a state and comes back with *)
(* it and a code.                                                          *)
(***************************************************************************)
requireConnectorAllowed == connectable
Begins(c) ==
    /\ lcall' = [lcall EXCEPT ![c] = [IdleLink EXCEPT !.op = "begin", !.pc = "put"]]
    /\ UNCHANGED <<linkWorld, slot, listed, pending, tokenLock, throttled, gone, strayed, providerVars, adminVars>>
BeginConnectorAuth(c) ==
    /\ Ask(c, "link") /\ Kind # "mcp"
    /\ ~Configured /\ requireConnectorAllowed
    /\ Begins(c)
mayUseMcpConnection == connectable
beginMcpAuth(c) ==
    /\ Ask(c, "link") /\ Kind = "mcp"
    /\ mayUseMcpConnection
    /\ Begins(c)

PutState(c) ==
    /\ LinkAt(c, "put")
    /\ \E s \in LinkStates : pending[s] = "none" /\ pending' = [pending EXCEPT ![s] = "mine"]
    /\ Over(c)
    /\ UNCHANGED <<linkWorld, slot, listed, tokenLock, throttled, gone, strayed, providerVars, adminVars>>

\* Another user of the tenant begins a flow; a flow passes its TTL.
OthersBegin(s) ==
    /\ "cross" \in linkWorld.asks /\ pending[s] = "none"
    /\ pending' = [pending EXCEPT ![s] = "theirs"]
    /\ UNCHANGED <<linkWorld, slot, listed, tokenLock, throttled, lcall, gone, strayed, providerVars, adminVars>>
StateExpires(s) ==
    /\ pending[s] # "none"
    /\ pending' = [pending EXCEPT ![s] = "none"]
    /\ UNCHANGED <<linkWorld, slot, listed, tokenLock, throttled, lcall, gone, strayed, providerVars, adminVars>>

\* Take claims the state, whoever began it; only its own user goes on.
Take(s) == pending[s] # "none" /\ pending' = [pending EXCEPT ![s] = "none"]
CompleteConnectorAuth(c) ==
    /\ Ask(c, "link")
    /\ \E s \in LinkStates :
        /\ Take(s)
        /\ IF pending[s] = "mine"
           THEN lcall' = [lcall EXCEPT ![c] = [IdleLink EXCEPT !.op = "link", !.pc = "check"]]
           ELSE UNCHANGED lcall
    /\ UNCHANGED <<linkWorld, slot, listed, tokenLock, throttled, gone, strayed, providerVars, adminVars>>

CheckLink(c) ==
    /\ LinkAt(c, "check") /\ Kind # "mcp"
    /\ IF requireConnectorAllowed THEN Onto(c, "exchange") ELSE Over(c)
    /\ UNCHANGED <<linkWorld, slot, listed, pending, tokenLock, throttled, gone, strayed, providerVars, adminVars>>
\* An MCP server's row is loaded again: it names the endpoint of the exchange.
completeMcpAuth(c) ==
    /\ LinkAt(c, "check") /\ Kind = "mcp"
    /\ lcall' = [lcall EXCEPT ![c].pc = "exchange", ![c].url = endpoint]
    /\ UNCHANGED <<linkWorld, slot, listed, pending, tokenLock, throttled, gone, strayed, providerVars, adminVars>>

\* The provider issues a token, with a refresh token or without, or refuses.
Issues(c, by, next) ==
    \/ /\ issued < MaxIssued
       /\ issued' = issued + 1 /\ live' = live \cup {issued'}
       /\ lcall' = [lcall EXCEPT ![c].pc = next, ![c].tok = Token(issued', lcall[c].url, by)]
    \/ /\ linkWorld.refreshless
       /\ lcall' = [lcall EXCEPT ![c].pc = next, ![c].tok = Token(0, lcall[c].url, by)]
       /\ UNCHANGED <<live, issued>>
Exchange(c) ==
    /\ LinkAt(c, "exchange")
    /\ Issues(c, "platform", "store") \/ (Over(c) /\ UNCHANGED <<live, issued>>)
    /\ UNCHANGED <<linkWorld, slot, listed, pending, tokenLock, throttled, gone, strayed, spent, reused, unsaved, adminVars>>

WriteConnector(c) ==
    /\ slot' = lcall[c].tok
    /\ gone' = [gone EXCEPT !.token = FALSE]

StoreLink(c) ==
    /\ LinkAt(c, "store")
    /\ \/ WriteConnector(c) /\ Onto(c, "enlist")
       \/ Breaks /\ Over(c) /\ UNCHANGED <<slot, gone>>
    /\ UNCHANGED <<linkWorld, listed, pending, tokenLock, throttled, strayed, providerVars, adminVars>>
Enlist(c) ==
    /\ \/ Upsert(lcall[c].said) /\ gone' = [gone EXCEPT !.entry = FALSE]
       \/ Breaks /\ UNCHANGED <<listed, gone>>
    /\ Over(c)
    /\ UNCHANGED <<linkWorld, slot, pending, tokenLock, throttled, strayed, providerVars, adminVars>>
EnlistLink(c) == LinkAt(c, "enlist") /\ lcall[c].op = "link" /\ Enlist(c)

(***************************************************************************)
(* A tool call spends the token: lock, read, refresh, write back.          *)
(***************************************************************************)
\* OneDrive goes to the OBO broker while the tenant manages it.
freshAccessToken(c) ==
    /\ Ask(c, "use") /\ Kind # "mcp"
    /\ lcall' = [lcall EXCEPT ![c] = [IdleLink EXCEPT !.op = "use", !.obo = Configured,
                                         !.pc = IF Configured THEN "readOBO" ELSE "read"]]
    /\ UNCHANGED <<linkWorld, slot, listed, pending, tokenLock, throttled, gone, strayed, providerVars, adminVars>>
\* The row is loaded before the lock is taken.
mcpToken(c) ==
    /\ Ask(c, "use") /\ Kind = "mcp"
    /\ lcall' = [lcall EXCEPT ![c] = [IdleLink EXCEPT !.op = "use", !.pc = "readMcp", !.url = endpoint]]
    /\ UNCHANGED <<linkWorld, slot, listed, pending, tokenLock, throttled, gone, strayed, providerVars, adminVars>>

(* Mutant: the lock does not exclude. *)
LockTokenAny == TRUE
LockToken == tokenLock = NoLock
Hold(c) == tokenLock' = c
Release == tokenLock' = NoLock

\* F140: a token is presented only at the endpoint recorded with it.
EndpointChanged(c) == slot.url # "" /\ slot.url # lcall[c].url

Keep == UNCHANGED <<linkWorld, slot, pending, throttled, gone, strayed, providerVars, adminVars>>
ReadConnector(c) == lcall' = [lcall EXCEPT ![c].pc = "refresh", ![c].tok = slot]
FreshAccessToken(c) ==
    /\ LinkAt(c, "read") /\ LockToken
    /\ IF slot # NoToken /\ slot.stale
       THEN ReadConnector(c) /\ Hold(c)
       ELSE Over(c) /\ UNCHANGED tokenLock
    /\ UNCHANGED listed /\ Keep
FreshMcpAccessToken(c) ==
    /\ LinkAt(c, "readMcp") /\ LockToken
    /\ IF slot # NoToken /\ EndpointChanged(c)
       THEN UpdateStatus("reconnect_needed") /\ Over(c) /\ UNCHANGED tokenLock
       ELSE IF slot # NoToken /\ slot.stale
       THEN ReadConnector(c) /\ Hold(c) /\ UNCHANGED listed
       ELSE Over(c) /\ UNCHANGED <<tokenLock, listed>>
    /\ Keep
\* The app is resolved after the token: it may have been removed meanwhile.
FreshOBOAccessToken(c) ==
    /\ LinkAt(c, "readOBO") /\ LockToken
    /\ IF slot # NoToken /\ slot.stale /\ Configured
       THEN ReadConnector(c) /\ Hold(c)
       ELSE Over(c) /\ UNCHANGED tokenLock
    /\ UNCHANGED listed /\ Keep

\* The refresh grant at the provider.  A rotating provider replaces the token.
Rotated(c, g) ==
    IF linkWorld.rotates
    THEN /\ issued < MaxIssued
         /\ issued' = issued + 1 /\ live' = (live \ {g}) \cup {issued'}
    ELSE UNCHANGED <<live, issued>>
App(c) == IF lcall[c].obo THEN "tenant" ELSE "platform"
refresh(c) ==
    LET t == lcall[c].tok
        g == t.ref
        honoured == g \in live /\ t.by = App(c)
        failed == UpdateStatus("reconnect_needed") /\ Over(c) /\ Release
    IN /\ LinkAt(c, "refresh")
       /\ IF g = 0
          THEN failed /\ UNCHANGED <<providerVars, strayed>>
          ELSE /\ reused' = reused \cup ({g} \cap spent)
               /\ strayed' = (strayed \/ (t.url # "" /\ lcall[c].url # t.from))
               /\ \/ /\ ~honoured /\ failed /\ UNCHANGED <<live, issued, spent, unsaved>>
                  \/ /\ honoured /\ Rotated(c, g)
                     /\ lcall' = [lcall EXCEPT
                            ![c].pc = IF lcall[c].obo THEN "save" ELSE "status", ![c].old = g,
                            ![c].tok = Token(IF linkWorld.rotates THEN issued' ELSE g, lcall[c].url, t.by)]
                     /\ spent' = spent \cup {g}
                     /\ UNCHANGED <<listed, tokenLock, unsaved>>
                  \/ /\ Breaks /\ failed
                     /\ \/ honoured /\ Rotated(c, g) /\ spent' = spent \cup {g} /\ unsaved' = unsaved \cup {g}
                        \/ UNCHANGED <<live, issued, spent, unsaved>>
       /\ UNCHANGED <<linkWorld, slot, pending, throttled, gone, adminVars>>

\* Registry.refresh records the status and then writes back; the OBO broker
\* writes back first.  A write-back that fails does not fail the call.
RecordStatus(c) ==
    /\ LinkAt(c, "status")
    /\ UpdateStatus("connected") \/ (Breaks /\ UNCHANGED listed)
    /\ IF lcall[c].obo THEN Over(c) /\ Release ELSE Onto(c, "save") /\ UNCHANGED tokenLock
    /\ UNCHANGED <<linkWorld, slot, pending, throttled, gone, strayed, providerVars, adminVars>>
WriteBack(c) ==
    /\ LinkAt(c, "save")
    /\ \/ slot' = lcall[c].tok /\ UNCHANGED unsaved
       \/ Breaks /\ unsaved' = unsaved \cup {lcall[c].old} /\ UNCHANGED slot
    /\ IF lcall[c].obo THEN Onto(c, "status") /\ UNCHANGED tokenLock ELSE Over(c) /\ Release
    /\ UNCHANGED <<linkWorld, listed, pending, throttled, gone, strayed, live, issued, spent, reused, adminVars>>

(***************************************************************************)
(* Disconnecting: under the lock to the end.                               *)
(***************************************************************************)
RevokeConnector(c) ==
    /\ Ask(c, "revoke") /\ LockToken
    /\ lcall' = [lcall EXCEPT ![c] = [IdleLink EXCEPT !.op = "revoke", !.tok = slot,
           !.pc = IF Kind = "mcp" \/ slot = NoToken THEN "delete" ELSE "upstream"]]
    /\ Hold(c)
    /\ UNCHANGED <<linkWorld, slot, listed, pending, throttled, gone, strayed, providerVars, adminVars>>
\* Google revokes; Microsoft has no endpoint to ask.  A failure is audited.
Revoke(c) ==
    /\ LinkAt(c, "upstream")
    /\ \/ Kind = "drive" /\ live' = live \ {lcall[c].tok.ref}
       \/ (Kind = "onedrive" \/ Breaks) /\ UNCHANGED live
    /\ Onto(c, "delete")
    /\ UNCHANGED <<linkWorld, slot, listed, pending, tokenLock, throttled, issued, spent, reused, unsaved,
                   gone, strayed, adminVars>>
DeleteConnector(c) ==
    /\ LinkAt(c, "delete")
    /\ \/ /\ slot' = NoToken /\ gone' = [gone EXCEPT !.token = TRUE]
          /\ Onto(c, "unlist") /\ UNCHANGED tokenLock
       \/ Breaks /\ Over(c) /\ Release /\ UNCHANGED <<slot, gone>>
    /\ UNCHANGED <<linkWorld, listed, pending, throttled, strayed, providerVars, adminVars>>
StoreRemove(c) ==
    /\ LinkAt(c, "unlist")
    /\ \/ listed' = "absent" /\ gone' = [gone EXCEPT !.entry = TRUE]
       \/ Breaks /\ UNCHANGED <<listed, gone>>
    /\ Over(c) /\ Release
    /\ UNCHANGED <<linkWorld, slot, pending, throttled, strayed, providerVars, adminVars>>

(***************************************************************************)
(* Listing the connections bootstraps the managed OneDrive.                *)
(***************************************************************************)
allow == ~throttled
oboAlreadyHealthy == listed = "connected" /\ slot # NoToken
ensureOneDriveOBO(c) ==
    /\ Ask(c, "list")
    /\ Configured /\ ~oboAlreadyHealthy /\ allow
    /\ throttled' = TRUE
    /\ lcall' = [lcall EXCEPT ![c] = [IdleLink EXCEPT !.op = "list", !.pc = "obo"]]
    /\ UNCHANGED <<linkWorld, slot, listed, pending, tokenLock, gone, strayed, providerVars, adminVars>>
\* The status Bootstrap records is the one recordOBOBootstrapEntry upserts.
ExchangeOBO(c) ==
    /\ LinkAt(c, "obo")
    /\ \/ Configured /\ Issues(c, "tenant", "bootstrap")
       \/ /\ lcall' = [lcall EXCEPT ![c].pc = "enlist", ![c].said = "reconnect_needed"]
          /\ UNCHANGED <<live, issued>>
    /\ UNCHANGED <<linkWorld, slot, listed, pending, tokenLock, throttled, gone, strayed,
                   spent, reused, unsaved, adminVars>>
Bootstrap(c) ==
    /\ LinkAt(c, "bootstrap")
    /\ \/ WriteConnector(c) /\ Onto(c, "enlist")
       \/ /\ Breaks /\ UNCHANGED <<slot, gone>>
          /\ lcall' = [lcall EXCEPT ![c].pc = "enlist", ![c].said = "reconnect_needed"]
    /\ UNCHANGED <<linkWorld, listed, pending, tokenLock, throttled, strayed, providerVars, adminVars>>
recordOBOBootstrapEntry(c) == LinkAt(c, "enlist") /\ lcall[c].op = "list" /\ Enlist(c)
ThrottleEnds ==
    /\ throttled /\ throttled' = FALSE
    /\ UNCHANGED <<linkWorld, slot, listed, pending, tokenLock, lcall, gone, strayed, providerVars, adminVars>>

(***************************************************************************)
(* The administrator, time, and a restart of the broker.                   *)
(***************************************************************************)
SetAllowlist ==
    /\ "allow" \in linkWorld.admin
    /\ connectable' = ~connectable
    /\ UNCHANGED <<linkWorld, slot, listed, pending, tokenLock, throttled, lcall, gone, strayed, providerVars, app, endpoint>>
Repoint ==
    /\ "repoint" \in linkWorld.admin
    /\ endpoint' \in Endpoints \ {endpoint}
    /\ UNCHANGED <<linkWorld, slot, listed, pending, tokenLock, throttled, lcall, gone, strayed, providerVars, connectable, app>>
\* The secret is stored before the settings row, and deleted after it.
UpsertM365Connection ==
    /\ "m365" \in linkWorld.admin
    /\ app' = CASE app.edit = "none" /\ ~app.row -> [app EXCEPT !.secret = TRUE, !.edit = "upsert"]
               [] app.edit = "upsert" -> [app EXCEPT !.row = TRUE, !.edit = "none"]
               [] OTHER -> app
    /\ UNCHANGED <<linkWorld, slot, listed, pending, tokenLock, throttled, lcall, gone, strayed, providerVars, connectable, endpoint>>
DeleteM365Connection ==
    /\ "m365" \in linkWorld.admin
    /\ app' = CASE app.edit = "none" /\ app.row -> [app EXCEPT !.row = FALSE, !.edit = "delete"]
               [] app.edit = "delete" -> [app EXCEPT !.secret = FALSE, !.edit = "none"]
               [] OTHER -> app
    /\ UNCHANGED <<linkWorld, slot, listed, pending, tokenLock, throttled, lcall, gone, strayed, providerVars, connectable, endpoint>>
AccessExpires ==
    /\ slot # NoToken /\ ~slot.stale
    /\ slot' = [slot EXCEPT !.stale = TRUE]
    /\ UNCHANGED <<linkWorld, listed, pending, tokenLock, throttled, lcall, gone, strayed, providerVars, adminVars>>
Restart ==
    /\ Breaks
    /\ \E c \in LinkCalls : ~LinkAt(c, "idle")
    /\ unsaved' = unsaved \cup {lcall[c].old : c \in LinkCalls}
    /\ lcall' = [c \in LinkCalls |-> IdleLink] /\ Release /\ throttled' = FALSE
    /\ UNCHANGED <<linkWorld, slot, listed, pending, gone, strayed, live, issued, spent, reused, adminVars>>

LinkNext ==
    \/ \E c \in LinkCalls :
        \/ BeginConnectorAuth(c) \/ beginMcpAuth(c) \/ PutState(c)
        \/ CompleteConnectorAuth(c) \/ CheckLink(c) \/ completeMcpAuth(c)
        \/ Exchange(c) \/ StoreLink(c) \/ EnlistLink(c)
        \/ freshAccessToken(c) \/ mcpToken(c)
        \/ FreshAccessToken(c) \/ FreshMcpAccessToken(c) \/ FreshOBOAccessToken(c)
        \/ refresh(c) \/ RecordStatus(c) \/ WriteBack(c)
        \/ RevokeConnector(c) \/ Revoke(c) \/ DeleteConnector(c) \/ StoreRemove(c)
        \/ ensureOneDriveOBO(c) \/ ExchangeOBO(c) \/ Bootstrap(c) \/ recordOBOBootstrapEntry(c)
    \/ \E s \in LinkStates : OthersBegin(s) \/ StateExpires(s)
    \/ ThrottleEnds \/ SetAllowlist \/ Repoint \/ UpsertM365Connection \/ DeleteM365Connection
    \/ AccessExpires \/ Restart
LinkSpec == LinkInit /\ [][LinkNext]_linkVars

-----------------------------------------------------------------------------
(* What serialising read, refresh and write-back in token.go is for.  A        *)
(* refresh token that rotates is exchanged once: it is presented again only    *)
(* when its successor could not be stored or the answer was lost.  A           *)
(* disconnect lasts: once the token is deleted and the entry removed, only a   *)
(* link or a bootstrap brings them back, never a tool call that was refreshing *)
(* the token meanwhile (G22).  And a token stored with the endpoint that       *)
(* issued it is presented to no other, however the administrator repoints the  *)
(* MCP connection while links and tool calls are under way (F140).             *)
TokensAreGuarded ==
    /\ linkWorld.rotates => reused \subseteq unsaved
    /\ gone.token => slot = NoToken
    /\ gone.entry => listed = "absent"
    /\ ~strayed
=============================================================================
