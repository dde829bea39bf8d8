-------------------------- MODULE BoundedStaleness --------------------------
(***************************************************************************)
(* What the revocation view promises its callers, with no cache in sight.  *)
(* The header of revocation.go words it as: a write "lands everywhere      *)
(* within the cache TTL (immediately on the replica that wrote it)".       *)
(*                                                                         *)
(* Every key of the store has a history of versions, numbered from 1.  A   *)
(* call asks one replica for one key.  It may be answered with any version *)
(* that was still the current one less than TTL before the call began, and *)
(* that is at least as new as every write the same replica had completed   *)
(* by then.  A call may also fail, in which case it answers nothing.       *)
(***************************************************************************)
EXTENDS Naturals, Sequences

CONSTANTS Replicas, Keys, Readers, TTL

VARIABLES
  now,          \* the wall clock
  versions,     \* versions[k]: how many versions of key k were written
  superseded,   \* superseded[k][v]: when version v of k stopped being current
  completed,    \* completed[r][k]: the newest version of k r has confirmed
  asked         \* asked[p]: the call of reader p

vars == <<now, versions, superseded, completed, asked>>

Silent == [phase |-> "idle"]

(***************************************************************************)
(* The last instant at which version v of key k was the current one.       *)
(***************************************************************************)
LastCurrent(k, v) == IF v = versions[k] THEN now ELSE superseded[k][v]

Init ==
  /\ now = 0
  /\ versions = [k \in Keys |-> 1]
  /\ superseded = [k \in Keys |-> << >>]
  /\ completed = [r \in Replicas |-> [k \in Keys |-> 1]]
  /\ asked = [p \in Readers |-> Silent]

Tick ==
  /\ now' = now + 1
  /\ UNCHANGED <<versions, superseded, completed, asked>>

Write(k) ==
  /\ versions' = [versions EXCEPT ![k] = @ + 1]
  /\ superseded' = [superseded EXCEPT ![k] = Append(@, now)]
  /\ UNCHANGED <<now, completed, asked>>

(* A replica confirms the writes of its own that are in the store. *)
Confirm(r, k) ==
  /\ \E v \in completed[r][k] .. versions[k] :
       completed' = [completed EXCEPT ![r][k] = v]
  /\ UNCHANGED <<now, versions, superseded, asked>>

Ask(p, r, k) ==
  /\ asked[p].phase # "open"
  /\ asked' = [asked EXCEPT ![p] =
       [phase |-> "open", rep |-> r, key |-> k, start |-> now,
        floor |-> completed[r][k]]]
  /\ UNCHANGED <<now, versions, superseded, completed>>

Answer(p) ==
  LET c == asked[p]
  IN /\ c.phase = "open"
     /\ \E v \in c.floor .. versions[c.key] :
          /\ LastCurrent(c.key, v) + TTL > c.start
          /\ asked' = [asked EXCEPT ![p] =
               [phase |-> "answered", rep |-> c.rep, key |-> c.key,
                start |-> c.start, floor |-> c.floor, ver |-> v]]
     /\ UNCHANGED <<now, versions, superseded, completed>>

(* The call is over: failed, or its answer was used. *)
Forget(p) ==
  /\ asked[p].phase # "idle"
  /\ asked' = [asked EXCEPT ![p] = Silent]
  /\ UNCHANGED <<now, versions, superseded, completed>>

Next ==
  \/ Tick
  \/ \E k \in Keys : Write(k)
  \/ \E r \in Replicas, k \in Keys : Confirm(r, k)
  \/ \E p \in Readers, r \in Replicas, k \in Keys : Ask(p, r, k)
  \/ \E p \in Readers : Answer(p)
  \/ \E p \in Readers : Forget(p)

Spec == Init /\ [][Next]_vars
=============================================================================
