--------------------------- MODULE RevocationCache ---------------------------
(***************************************************************************)
(* revocation.Checker: the cached view of blocks, revocation epochs and    *)
(* agent status every broker replica reads through.                        *)
(*                                                                         *)
(* A row of the store is the sequence of the states it has had, so that a  *)
(* version (an index into it) names what a read returned.  A lookup takes  *)
(* the clock, then looks under the mutex, loads without it, and stores     *)
(* under it again: three steps, between which writers and other lookups    *)
(* run.  A writer commits to the store and then resets its own replica.    *)
(***************************************************************************)
EXTENDS Naturals, Sequences

CONSTANTS
  Replicas,       \* broker processes
  Keys,           \* principals: cache keys "u|tenant|subject", "a|tenant|agent"
  Readers,        \* calls in flight
  Writers,        \* bound: the admin calls of a behaviour
  States,         \* what a row may say of a principal
  TTL,            \* revocation.TTL, in ticks
  MaxNow          \* bound: ticks of a behaviour

ASSUME TTLAssumption == TTL \in Nat \ {0}
ASSUME BoundAssumption == MaxNow \in Nat

VARIABLES
  now,
  rows,         \* rows[k]: the states of key k so far, newest last
  superseded,   \* superseded[k][v]: when version v stopped being current
  cache,        \* cache[r][k]: version 0 is no entry
  gen,          \* gen[r]: Checker.gen
  completed,    \* completed[r][k]: the version of k at the last reset of r
                \* after a write of k on r
  read,         \* read[p]: the lookup of reader p
  write         \* write[w]: the write of writer w

cacheVars == <<cache, gen, completed>>
storeVars == <<rows, superseded>>
vars == <<now, rows, superseded, cache, gen, completed, read, write>>

NoEntry == [ver |-> 0, exp |-> 0]
Idle == [phase |-> "idle"]
Done == [phase |-> "done"]

Current(k) == Len(rows[k])

Init ==
  /\ now = 0
  /\ rows \in [Keys -> {<<s>> : s \in States}]
  /\ superseded = [k \in Keys |-> << >>]
  /\ cache = [r \in Replicas |-> [k \in Keys |-> NoEntry]]
  /\ gen = [r \in Replicas |-> 0]
  /\ completed = [r \in Replicas |-> [k \in Keys |-> 1]]
  /\ read = [p \in Readers |-> Idle]
  /\ write = [w \in Writers |-> Idle]

Tick ==
  /\ now < MaxNow
  /\ now' = now + 1
  /\ UNCHANGED <<rows, superseded, cache, gen, completed, read, write>>

-----------------------------------------------------------------------------
(***************************************************************************)
(* cached: now := c.now(), before the mutex is taken.                      *)
(***************************************************************************)
Begin(p, r, k) ==
  /\ read[p].phase \in {"idle", "answered"}
  /\ read' = [read EXCEPT ![p] =
       [phase |-> "begun", rep |-> r, key |-> k, start |-> now,
        floor |-> completed[r][k], gen |-> 0, ver |-> 0]]
  /\ UNCHANGED <<now, rows, superseded, cache, gen, completed, write>>

(* The first locked section: a live entry answers, else the load starts. *)
Look(p) ==
  LET c == read[p]
      e == cache[c.rep][c.key]
  IN /\ c.phase = "begun"
     /\ read' = [read EXCEPT ![p] =
          IF e.ver # 0 /\ c.start < e.exp
            THEN [c EXCEPT !.phase = "answered", !.ver = e.ver]
            ELSE [c EXCEPT !.phase = "missed", !.gen = gen[c.rep]]]
     /\ UNCHANGED <<now, rows, superseded, cache, gen, completed, write>>

(* load(): Store.UserState or Store.AgentState, one statement. *)
Load(p) ==
  /\ read[p].phase = "missed"
  /\ read' = [read EXCEPT ![p] =
       [@ EXCEPT !.phase = "loaded", !.ver = Current(read[p].key)]]
  /\ UNCHANGED <<now, rows, superseded, cache, gen, completed, write>>

(* A failed load is returned to the caller, which fails closed. *)
LoadFails(p) ==
  /\ read[p].phase = "missed"
  /\ read' = [read EXCEPT ![p] = Idle]
  /\ UNCHANGED <<now, rows, superseded, cache, gen, completed, write>>

(* Mutant: the answer is cached although a reset came in between. *)
StoreUnchecked(p) ==
  LET c == read[p]
  IN /\ c.phase = "loaded"
     /\ cache' = [cache EXCEPT ![c.rep][c.key] =
                    [ver |-> c.ver, exp |-> c.start + TTL]]
     /\ read' = [read EXCEPT ![p] = [c EXCEPT !.phase = "answered"]]
     /\ UNCHANGED <<now, rows, superseded, gen, completed, write>>

(* The second locked section: cached only if no reset came in between. *)
StoreEntry(p) ==
  LET c == read[p]
  IN /\ c.phase = "loaded"
     /\ cache' = IF gen[c.rep] = c.gen
                   THEN [cache EXCEPT ![c.rep][c.key] =
                           [ver |-> c.ver, exp |-> c.start + TTL]]
                   ELSE cache
     /\ read' = [read EXCEPT ![p] = [c EXCEPT !.phase = "answered"]]
     /\ UNCHANGED <<now, rows, superseded, gen, completed, write>>

-----------------------------------------------------------------------------
(***************************************************************************)
(* BlockUser, UnblockUser, RevokeUser, SetAgentStatus, RevokeAgent: the    *)
(* epoch is taken first, the store is written, and the deferred reset runs *)
(* whether the write changed a row or not.                                 *)
(***************************************************************************)
BeginWrite(w, r, k, op) ==
  /\ write[w].phase = "idle"
  /\ write' = [write EXCEPT ![w] =
       [phase |-> "begun", rep |-> r, key |-> k, op |-> op, at |-> now, ver |-> 0]]
  /\ UNCHANGED <<now, rows, superseded, cache, gen, completed, read>>

Commit(w, s) ==
  LET k == write[w].key
  IN /\ write[w].phase = "begun"
     /\ rows' = [rows EXCEPT ![k] = Append(@, s)]
     /\ superseded' = [superseded EXCEPT ![k] = Append(@, now)]
     /\ write' = [write EXCEPT ![w] =
          [@ EXCEPT !.phase = "written", !.ver = Current(k) + 1]]
     /\ UNCHANGED <<now, cache, gen, completed, read>>

(* The statement matched no row, or failed. *)
CommitNothing(w) ==
  /\ write[w].phase = "begun"
  /\ write' = [write EXCEPT ![w] =
       [@ EXCEPT !.phase = "written", !.ver = 0]]
  /\ UNCHANGED <<now, rows, superseded, cache, gen, completed, read>>

Reset(w) ==
  LET c == write[w]
  IN /\ c.phase = "written"
     /\ cache' = [cache EXCEPT ![c.rep] = [k \in Keys |-> NoEntry]]
     /\ gen' = [gen EXCEPT ![c.rep] = @ + 1]
     /\ completed' = IF c.ver > completed[c.rep][c.key]
                       THEN [completed EXCEPT ![c.rep][c.key] = c.ver]
                       ELSE completed
     /\ write' = [write EXCEPT ![w] = Done]
     /\ UNCHANGED <<now, rows, superseded, read>>

CacheStep(p) == Look(p) \/ Load(p) \/ LoadFails(p) \/ StoreEntry(p)

CacheNext ==
  \/ Tick
  \/ \E p \in Readers, r \in Replicas, k \in Keys : Begin(p, r, k)
  \/ \E p \in Readers : CacheStep(p)
  \/ \E w \in Writers, r \in Replicas, k \in Keys : BeginWrite(w, r, k, "any")
  \/ \E w \in Writers, s \in States : Commit(w, s)
  \/ \E w \in Writers : CommitNothing(w) \/ Reset(w)

CacheSpec == Init /\ [][CacheNext]_vars

-----------------------------------------------------------------------------
(***************************************************************************)
(* The refinement: a lookup is open until it has an answer, and the entry, *)
(* the generation and the loaded value are its own business.               *)
(***************************************************************************)
AskedView(c) ==
  CASE c.phase = "idle" -> Idle
    [] c.phase \in {"begun", "missed", "loaded"} ->
         [phase |-> "open", rep |-> c.rep, key |-> c.key, start |-> c.start,
          floor |-> c.floor]
    [] c.phase = "answered" ->
         [phase |-> "answered", rep |-> c.rep, key |-> c.key,
          start |-> c.start, floor |-> c.floor, ver |-> c.ver]

Promise == INSTANCE BoundedStaleness WITH
  versions <- [k \in Keys |-> Current(k)],
  asked <- [p \in Readers |-> AskedView(read[p])]

(***************************************************************************)
(* Every lookup of the Checker answers with a version that was current     *)
(* less than TTL before the call began, and never with one older than a    *)
(* write whose reset the same replica had already run.                     *)
(***************************************************************************)
AnswersAreFresh == Promise!Spec
=============================================================================
