-------------------------- MODULE WorkspaceRouting --------------------------
(***************************************************************************)
(* Which backend serves a user's files (workspacefs.Router over            *)
(* WorkspacePrefResolver and oneDriveBackend): the preference row, its TTL *)
(* cache, the tenant's M365 connection that decides the default, cached    *)
(* again by OrgSettingsM365Source, and the first use of OneDrive, which    *)
(* creates the folder and writes the row.                                  *)
(***************************************************************************)
EXTENDS Naturals, FiniteSets

CONSTANTS
  Routers,        \* calls in flight
  PrefTTL,        \* effectivePrefCacheTTL
  AppTTL,         \* m365SourceCacheTTL
  PrefWorlds      \* initial row and connection, operations allowed; its time, and how many
                  \* changes are asked for, are bounds

VARIABLES
  prefWorld, prefNow,
  prefRow,        \* workspace_prefs row: backend and whether ids are resolved
  m365,           \* the tenant's M365 connection is configured
  prefCache,      \* the cached effective preference, with its time
  appCache,       \* OrgSettingsM365Source's cached answer, with its time
  userLock,       \* the call holding oneDriveBackend.lockUser
  rcall,          \* rcall[c]: the call c is serving
  lastEffect,     \* the last instant the row, and the default of the tenant, were as the
                  \* pair says
  lag             \* how long the row and the default that routed the last operation, if at
                  \* this instant, had been outdated when it began

prefVars == <<prefWorld, prefNow, prefRow, m365, prefCache, appCache, userLock, rcall, lastEffect,
              lag>>

NoPrefRow == [found |-> FALSE, backend |-> "none", ids |-> FALSE]
NoCached == [at |-> 0, pref |-> NoPrefRow]
NoApp == [at |-> 0, ok |-> FALSE]
NoRouting == [pc |-> "idle"]
NoLag == [row |-> 0, default |-> 0]
Backends == {"local", "onedrive"}

(* resolve: an explicit row wins, else the tenant's connection decides. *)
resolve(row, connected) ==
  IF row.found THEN row
  ELSE [found |-> FALSE, backend |-> IF connected THEN "onedrive" ELSE "local", ids |-> FALSE]

(* What a row and a connection say: the row's backend, or that there is no *)
(* row, and the default.  They are read one after the other, so an answer  *)
(* may join a row and a connection of two moments.                         *)
Says(row, connected) == {<<"row", row.backend>>, <<"default", resolve(NoPrefRow, connected).backend>>}
Effects == ({"row"} \X (Backends \cup {"none"})) \cup ({"default"} \X Backends)

PrefInit ==
  /\ prefWorld \in PrefWorlds
  /\ prefNow = 1
  /\ prefRow = prefWorld.row
  /\ m365 = prefWorld.m365
  /\ prefCache = NoCached
  /\ appCache = NoApp
  /\ userLock = "nobody"
  /\ rcall = [c \in Routers |-> NoRouting]
  /\ lastEffect = [e \in Effects |-> IF e \in Says(prefWorld.row, prefWorld.m365) THEN 1 ELSE 0]
  /\ lag = NoLag

PrefOp(op) == op \in prefWorld.ops
Change(op) ==
  /\ PrefOp(op) /\ prefWorld.changes > 0
  /\ prefWorld' = [prefWorld EXCEPT !.changes = @ - 1]
RAt(c, pc) == rcall[c].pc = pc
RTo(c, pc) == rcall' = [rcall EXCEPT ![c].pc = pc]
REnd(c) == rcall' = [rcall EXCEPT ![c] = NoRouting]
MarkAt(effects, time) ==
  lastEffect' = [e \in Effects |-> IF e \in effects THEN time ELSE lastEffect[e]]
Mark(row, connected) == MarkAt(Says(row, connected), prefNow)
Unlocked(c) == IF userLock = c THEN "nobody" ELSE userLock

PrefTick ==
  /\ prefNow < prefWorld.time
  /\ \A c \in Routers : rcall[c] # NoRouting => rcall[c].since + 1 > prefNow
  /\ prefNow' = prefNow + 1
  /\ MarkAt(Says(prefRow, m365), prefNow + 1)
  /\ lag' = NoLag
  /\ UNCHANGED <<prefWorld, prefRow, m365, prefCache, appCache, userLock, rcall>>

-----------------------------------------------------------------------------
(* Effective: the cache, or a read of the row followed by a store.          *)

(* Mutant: an entry never expires. *)
FreshForever == prefCache # NoCached

Fresh == prefCache # NoCached /\ prefNow - prefCache.at <= PrefTTL

cached == IF Fresh THEN {prefCache.pref} ELSE {}

(* Starts Effective for a call that goes on at pc next. *)
Lookup(c, call, next) ==
  rcall' = [rcall EXCEPT ![c] =
    IF cached # {} THEN [call EXCEPT !.pc = next, !.pref = prefCache.pref]
    ELSE [call EXCEPT !.pc = "read", !.next = next]]

ReadRow(c) ==
  /\ RAt(c, "read")
  /\ rcall' = [rcall EXCEPT ![c] =
       IF prefRow.found THEN [@ EXCEPT !.pc = "store", !.pref = prefRow] ELSE [@ EXCEPT !.pc = "app"]]
  /\ UNCHANGED <<prefWorld, prefNow, prefRow, m365, prefCache, appCache, userLock, lastEffect, lag>>

(* A row that cannot be read, or a folder that cannot be made, ends the    *)
(* call with an error.                                                     *)
RouteFails(c) ==
  /\ PrefOp("fail") /\ rcall[c].pc \in {"read", "ensure", "setOneDrive"}
  /\ REnd(c)
  /\ userLock' = Unlocked(c)
  /\ UNCHANGED <<prefWorld, prefNow, prefRow, m365, prefCache, appCache, lastEffect, lag>>

(* Where Configured's answer goes: resolve makes it the preference, and    *)
(* setWorkspaceBackendOneDrive stops without a connection.                 *)
Answered(s) ==
  IF s.next # "setOneDrive" THEN [s EXCEPT !.pc = "store"]
  ELSE IF s.pref.backend = "onedrive" THEN [s EXCEPT !.pc = "setOneDrive"]
  ELSE NoRouting

(* Configured asks M365App, which has a cache of its own.  A lookup that   *)
(* fails is not kept there, but Configured answers it as "no connection":  *)
(* at that instant the default counts as local.                            *)
M365App(c) ==
  LET hit == appCache # NoApp /\ prefNow - appCache.at <= AppTTL
      found(ok) == [rcall[c] EXCEPT !.pref = resolve(NoPrefRow, ok)]
  IN  /\ RAt(c, "app")
      /\ \/ /\ rcall' = [rcall EXCEPT ![c] = IF hit THEN Answered(found(appCache.ok))
                                             ELSE [found(m365) EXCEPT !.pc = "storeApp"]]
            /\ UNCHANGED lastEffect
         \/ /\ PrefOp("fail") /\ ~hit
            /\ rcall' = [rcall EXCEPT ![c] = Answered(found(FALSE))]
            /\ MarkAt({<<"default", "local">>}, prefNow)
      /\ UNCHANGED <<prefWorld, prefNow, prefRow, m365, prefCache, appCache, userLock, lag>>

storeApp(c) ==
  /\ RAt(c, "storeApp")
  /\ appCache' = [at |-> prefNow, ok |-> rcall[c].pref.backend = "onedrive"]
  /\ rcall' = [rcall EXCEPT ![c] = Answered(@)]
  /\ UNCHANGED <<prefWorld, prefNow, prefRow, m365, prefCache, userLock, lastEffect, lag>>

storeCache(c) ==
  /\ RAt(c, "store")
  /\ prefCache' = [at |-> prefNow, pref |-> rcall[c].pref]
  /\ RTo(c, rcall[c].next)
  /\ UNCHANGED <<prefWorld, prefNow, prefRow, m365, appCache, userLock, lastEffect, lag>>

-----------------------------------------------------------------------------
(* File operations                                                          *)

Call == [pc |-> "start", next |-> "none", pref |-> NoPrefRow, since |-> prefNow]

(* route: a reserved path (.agent, config, references) is local without a  *)
(* look at the preference and touches nothing here; another path asks      *)
(* activeBackend.                                                          *)
route(c) ==
  /\ PrefOp("file") /\ rcall[c] = NoRouting
  /\ Lookup(c, Call, "route")
  /\ UNCHANGED <<prefWorld, prefNow, prefRow, m365, prefCache, appCache, userLock, lastEffect, lag>>

(* The operation runs on the backend found; OneDrive resolves its root first. *)
activeBackend(c) ==
  LET s == rcall[c]
      b == s.pref.backend
      outdated(e) == IF lastEffect[e] < s.since THEN s.since - lastEffect[e] ELSE 0
  IN  /\ RAt(c, "route")
      /\ lag' = IF s.pref.found THEN [row |-> outdated(<<"row", b>>), default |-> 0]
                ELSE [row |-> outdated(<<"row", "none">>), default |-> outdated(<<"default", b>>)]
      /\ IF b = "onedrive" THEN Lookup(c, s, "root") ELSE REnd(c)
      /\ UNCHANGED <<prefWorld, prefNow, prefRow, m365, prefCache, appCache, userLock, lastEffect>>

(* rootFor: resolved ids are used as they are, otherwise the user's lock   *)
(* is taken and the preference looked up again.                            *)
rootFor(c) ==
  /\ RAt(c, "root")
  /\ IF rcall[c].pref.ids THEN REnd(c) /\ UNCHANGED userLock
     ELSE /\ userLock = "nobody" /\ userLock' = c
          /\ Lookup(c, rcall[c], "ensure")
  /\ UNCHANGED <<prefWorld, prefNow, prefRow, m365, prefCache, appCache, lastEffect, lag>>

(* Set: the row, then the cache entry.  A write that fails, done or not,   *)
(* ends the call without the second.                                       *)
SetRow(c, row) ==
  /\ \/ prefRow' = row /\ Mark(row, m365) /\ RTo(c, "invalidate") /\ UNCHANGED userLock
     \/ /\ PrefOp("fail") /\ REnd(c) /\ userLock' = Unlocked(c)
        /\ \/ prefRow' = row /\ Mark(row, m365)
           \/ UNCHANGED <<prefRow, lastEffect>>
  /\ UNCHANGED <<prefWorld, prefNow, m365, prefCache, appCache, lag>>

(* EnsureFolder, then Set. *)
EnsureFolder(c) ==
  /\ RAt(c, "ensure")
  /\ IF rcall[c].pref.ids THEN REnd(c) /\ userLock' = "nobody"
     ELSE RTo(c, "persist") /\ UNCHANGED userLock
  /\ UNCHANGED <<prefWorld, prefNow, prefRow, m365, prefCache, appCache, lastEffect, lag>>

Persist(c) ==
  LET row == [found |-> TRUE, backend |-> "onedrive", ids |-> TRUE]
  IN  /\ RAt(c, "persist")
      /\ SetRow(c, row)

Invalidate(c) ==
  /\ RAt(c, "invalidate")
  /\ prefCache' = NoCached
  /\ userLock' = Unlocked(c)
  /\ REnd(c)
  /\ UNCHANGED <<prefWorld, prefNow, prefRow, m365, appCache, lastEffect, lag>>

-----------------------------------------------------------------------------
(* SetWorkspaceBackend and the tenant's connection                          *)

(* Local looks up the preference first, to keep the resolved ids; OneDrive *)
(* asks Configured for the connection and resolves the folder.             *)
SetWorkspaceBackend(c, b) ==
  /\ Change("choose") /\ rcall[c] = NoRouting
  /\ IF b = "local" THEN Lookup(c, Call, "setLocal")
     ELSE rcall' = [rcall EXCEPT ![c] = [Call EXCEPT !.pc = "app", !.next = "setOneDrive"]]
  /\ UNCHANGED <<prefNow, prefRow, m365, prefCache, appCache, userLock, lastEffect, lag>>

Choose(c) ==
  LET b == IF RAt(c, "setLocal") THEN "local" ELSE "onedrive"
      row == [found |-> TRUE, backend |-> b, ids |-> b = "onedrive" \/ rcall[c].pref.ids]
  IN  /\ RAt(c, "setLocal") \/ RAt(c, "setOneDrive")
      /\ SetRow(c, row)

(* UpsertM365Connection and DeleteM365Connection: the row, then the        *)
(* cached preferences and after them the cached connection.                *)
SetConnection(c) ==
  /\ Change("connect") /\ rcall[c] = NoRouting
  /\ m365' = ~m365
  /\ Mark(prefRow, ~m365)
  /\ rcall' = [rcall EXCEPT ![c] = [Call EXCEPT !.pc = "invalidateAll"]]
  /\ UNCHANGED <<prefNow, prefRow, prefCache, appCache, userLock, lag>>

invalidateM365Cache(c) ==
  /\ RAt(c, "invalidateAll")
  /\ prefCache' = NoCached
  /\ RTo(c, "invalidateApp")
  /\ UNCHANGED <<prefWorld, prefNow, prefRow, m365, appCache, userLock, lastEffect, lag>>

InvalidateApp(c) ==
  /\ RAt(c, "invalidateApp")
  /\ appCache' = NoApp
  /\ REnd(c)
  /\ UNCHANGED <<prefWorld, prefNow, prefRow, m365, prefCache, userLock, lastEffect, lag>>

PrefNext ==
  \/ PrefTick
  \/ \E c \in Routers :
       \/ route(c)
       \/ \E b \in Backends : SetWorkspaceBackend(c, b)
       \/ SetConnection(c) \/ Choose(c) \/ invalidateM365Cache(c) \/ InvalidateApp(c)
       \/ M365App(c) \/ storeApp(c) \/ RouteFails(c)
       \/ ReadRow(c) \/ storeCache(c) \/ activeBackend(c) \/ rootFor(c) \/ EnsureFolder(c)
       \/ Persist(c) \/ Invalidate(c)

PrefSpec == PrefInit /\ [][PrefNext]_prefVars

-----------------------------------------------------------------------------
(* A file operation goes where the user's row sent it at most PrefTTL and  *)
(* the call that filled the cache before it began.  One routed by default  *)
(* goes where the tenant's connection sent it at most the two cache        *)
(* lifetimes and the calls that filled them before - to the local files    *)
(* also by a lookup of the connection that failed in that time.  Whatever  *)
(* changes overtake the lookups, no answer of a cache is passed on longer. *)
RoutedWithinTTL == lag.row <= PrefTTL + 1 /\ lag.default <= PrefTTL + AppTTL + 2

=============================================================================
