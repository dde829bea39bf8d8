------------------------- MODULE Credentials_proofs -------------------------
(***************************************************************************)
(* A revoked credential stops within the TTL, for any number of replicas,  *)
(* calls and admin writes.  The argument carries, next to the invariant of *)
(* the cache, what each call has established so far: the versions it has   *)
(* read are permitted and were current less than TTL before it began.      *)
(***************************************************************************)
EXTENDS Credentials, RevocationCache_proofs

CallOps == {"rpc", "mint", "grant", "key", "assert", "invoke"}
UserChanges == {"block", "unblock", "revokeUser"}
AgentChanges == {"revokeAgent", "active", "suspended", "retired"}
ChangeOps == [kind : UserChanges \cup AgentChanges, from : Statuses]
Credential == [iat : Nat, exp : Nat, subj : BOOLEAN, act : BOOLEAN]
Shown == [iat : Nat, iat2 : Nat, subj : BOOLEAN, act : BOOLEAN]
CallRecord == [phase : {"looking", "accepted"}, op : CallOps, rep : Replicas, start : Nat,
             shown : Shown, todo : Seq(Keys), seen : Seq(Nat)]

WorldOK ==
  /\ world.ops \subseteq CallOps
  /\ world.changes \subseteq UserChanges \cup AgentChanges

(* No write gives a user a status or an agent a block. *)
RowsOK ==
  /\ \A v \in 1 .. Current("u") : rows["u"][v].status = ""
  /\ \A v \in 1 .. Current("a") : ~rows["a"][v].blocked
  /\ \A w \in Writers : write[w].phase = "begun" =>
       write[w].op.kind \in (IF write[w].key = "u" THEN UserChanges ELSE AgentChanges)

(* Version v of principal k lets call q go on, and was current less than   *)
(* TTL before q began. *)
Good(q, k, v) ==
  /\ v \in 1 .. Current(k)
  /\ Until(k, v) + TTL > q.start
  /\ rows[k][v].status \in {"", "active"} /\ ~rows[k][v].blocked
  /\ (k = "u" \/ q.shown.act) =>
       rows[k][v].nb <= (IF k = "u" /\ q.op = "assert" THEN q.shown.iat2 ELSE q.shown.iat)

(* A call has one or two principals to look up. *)
Looking(q) ==
  LET asked == Lookups(q.op, q.shown)
  IN  \/ q.todo = asked /\ q.seen = << >>
      \/ /\ Len(asked) = 2 /\ q.todo = <<asked[2]>>
         /\ Len(q.seen) = 1 /\ Good(q, asked[1], q.seen[1])

Accepted(q) ==
  LET asked == Lookups(q.op, q.shown)
  IN  \/ /\ Len(asked) = 1
         /\ Len(q.seen) = 1 /\ Good(q, asked[1], q.seen[1])
      \/ /\ Len(asked) = 2
         /\ Len(q.seen) = 2 /\ Good(q, asked[1], q.seen[1]) /\ Good(q, asked[2], q.seen[2])

ReqOK(p) ==
  LET q == req[p]
  IN  /\ q.phase = "looking" =>
           /\ Looking(q) /\ q.start <= now
           /\ read[p].phase # "idle" =>
                read[p].key = Head(q.todo) /\ read[p].start >= q.start
      /\ q.phase = "accepted" => Accepted(q)

CredInv ==
  /\ CacheInv(ChangeOps, CredRows)
  /\ cred \in [Kinds -> Credential] /\ task.subj \in BOOLEAN
  /\ req \in [Readers -> {NoReq} \cup CallRecord]
  /\ WorldOK /\ RowsOK
  /\ \A p \in Readers : ReqOK(p)

-----------------------------------------------------------------------------
HistoryKept == \A k \in Keys : \A v \in 1 .. Current(k) : rows'[k][v] = rows[k][v]

LEMMA SecNat == \A t \in Nat : Sec(t) \in Nat
  BY DEF Sec

LEMMA LookupsShape ==
  ASSUME NEW op \in CallOps, NEW c, c.subj \in BOOLEAN
  PROVE  Lookups(op, c) \in {<<"u">>, <<"a">>, <<"u", "a">>, <<"a", "u">>}
  BY DEF Lookups, OnBehalfOf, CallOps

LEMMA ShapeTyped ==
  ASSUME NEW t \in {<<"u">>, <<"a">>, <<"u", "a">>, <<"a", "u">>}
  PROVE  /\ t \in Seq(Keys) /\ Head(t) = t[1] /\ Head(t) \in Keys
         /\ (Len(t) = 1 /\ Tail(t) = << >>)
            \/ (Len(t) = 2 /\ Tail(t) = <<t[2]>> /\ t[2] \in Keys)
<1>1. "u" \in Keys /\ "a" \in Keys
  BY PrincipalAssumption
<1>2. CASE t = <<"u">>
  BY <1>1, <1>2
<1>3. CASE t = <<"a">>
  BY <1>1, <1>3
<1>4. CASE t = <<"u", "a">>
  BY <1>1, <1>4
<1>5. CASE t = <<"a", "u">>
  BY <1>1, <1>5
<1> QED
  BY <1>2, <1>3, <1>4, <1>5

(* A version that let a call go on still does: rows are only appended to,  *)
(* and a version stops being current no earlier than it was known to.      *)
LEMMA GoodStays ==
  ASSUME StoreGrows, HistoryKept, NEW q \in CallRecord, NEW k \in Keys, NEW v, Good(q, k, v)
  PROVE  Good(q, k, v)'
<1>1. Current(k) \in Nat /\ Current(k)' \in Nat /\ Current(k) <= Current(k)'
  BY DEF StoreGrows
<1>0. v \in 1 .. Current(k) /\ Until(k, v) + TTL > q.start
  BY Zenon DEF Good
<1>2. v \in 1 .. Current(k) /\ v \in 1 .. Current(k)'
  BY <1>0, <1>1
<1>3. rows'[k][v] = rows[k][v]
  BY <1>2 DEF HistoryKept
<1>4. Until(k, v) \in Nat /\ Until(k, v)' \in Nat /\ Until(k, v) <= Until(k, v)'
  BY <1>2 DEF StoreGrows
<1>5. q.start \in Nat /\ TTL \in Nat
  BY TTLAssumption DEF CallRecord
<1>6. Until(k, v)' + TTL > q.start
  BY <1>0, <1>4, <1>5
<1> QED
  BY <1>2, <1>3, <1>6, Zenon DEF Good

LEMMA ReqStays ==
  ASSUME CredInv, StoreGrows, HistoryKept, NEW p \in Readers, req'[p] = req[p],
         \/ read'[p].phase = "idle"
         \/ /\ read[p].phase # "idle" /\ read'[p].key = read[p].key
            /\ read'[p].start = read[p].start
  PROVE  ReqOK(p)'
<1>1. ReqOK(p) /\ req[p] \in {NoReq} \cup CallRecord
  BY DEF CredInv
<1>2. CASE req[p] = NoReq
  BY <1>2 DEF ReqOK, NoReq
<1>3. CASE req[p] \in CallRecord
  <2> DEFINE q == req[p]
             asked == Lookups(q.op, q.shown)
  <2>1. q.op \in CallOps /\ q.shown.subj \in BOOLEAN
    BY <1>3 DEF CallRecord, Shown
  <2>2. asked \in {<<"u">>, <<"a">>, <<"u", "a">>, <<"a", "u">>}
    BY <2>1, LookupsShape
  <2>3. \A i \in 1 .. Len(asked) : asked[i] \in Keys
    BY <2>2, PrincipalAssumption
  <2>4. \A i \in 1 .. Len(asked) : \A v : Good(q, asked[i], v) => Good(q, asked[i], v)'
    BY <1>3, <2>3, GoodStays
  <2>5. q.start <= now => q.start <= now'
    BY <1>3 DEF StoreGrows, CallRecord
  <2>6. Looking(q) => Looking(q)'
    BY <2>2, <2>4 DEF Looking
  <2>7. Accepted(q) => Accepted(q)'
    BY <2>2, <2>4 DEF Accepted
  <2> QED
    BY <1>1, <2>5, <2>6, <2>7 DEF ReqOK
<1> QED
  BY <1>1, <1>2, <1>3

(* A call whose next principal's state permits it.                         *)
LEMMA PermittedIsGood ==
  ASSUME CredInv, NEW p \in Readers, req[p].phase = "looking", read[p].phase = "answered",
         Permits(req[p].op, req[p].shown, Head(req[p].todo),
                 rows[Head(req[p].todo)][read[p].ver])
  PROVE  /\ Head(req[p].todo) \in Keys /\ read[p].ver \in Nat
         /\ Good(req[p], Head(req[p].todo), read[p].ver)
<1> DEFINE q == req[p]
           k == read[p].key
           v == read[p].ver
           iat == IF k = "u" /\ q.op = "assert" THEN q.shown.iat2 ELSE q.shown.iat
<1>1. CacheInv(ChangeOps, CredRows) /\ ReqOK(p) /\ RowsOK
  BY DEF CredInv
<1>2. Head(q.todo) = k /\ read[p].start >= q.start
  BY <1>1 DEF ReqOK
<1>3. /\ k \in Keys /\ v \in Nat /\ read[p].start \in Nat /\ read[p].floor \in Nat
      /\ Current(k) \in Nat \ {0} /\ TTL \in Nat /\ LookupOK(p)
  BY <1>1, LookupTyped
<1>4. v \in read[p].floor .. Current(k) /\ v # 0 /\ read[p].start < Until(k, v) + TTL
  BY <1>3 DEF LookupOK
<1>5. v \in 1 .. Current(k)
  BY <1>3, <1>4
<1>6. Until(k, v) \in Nat
  BY <1>1, <1>3, <1>5, StoreTyped DEF CacheInv
<1>7. q \in CallRecord
  BY DEF CredInv, NoReq
<1>8. /\ q.start \in Nat /\ q.shown.iat \in Nat /\ q.shown.iat2 \in Nat
      /\ q.shown.act \in BOOLEAN
  BY <1>7 DEF CallRecord, Shown
<1>9. Until(k, v) + TTL > q.start
  BY <1>2, <1>3, <1>4, <1>6, <1>8
<1>10. rows[k][v] \in CredRows
  <2>1. rows[k] \in Seq(CredRows)
    BY <1>1, <1>3 DEF CacheInv, CacheTypeOK
  <2> QED
    BY <1>5, <2>1 DEF Current
<1>11. rows[k][v].nb \in Nat /\ rows[k][v].blocked \in BOOLEAN
  BY <1>10 DEF CredRows
<1>12. Permits(q.op, q.shown, k, rows[k][v])
  BY <1>2
<1>13. CASE k = "u"
  <2>1. rows[k][v].status = ""
    BY <1>1, <1>5, <1>13, Zenon DEF RowsOK
  <2>2. ~Revoked(rows[k][v], IF q.op = "assert" THEN q.shown.iat2 ELSE q.shown.iat)
    BY <1>12, <1>13 DEF Permits
  <2>3. ~rows[k][v].blocked /\ rows[k][v].nb <= iat
    BY <1>8, <1>11, <1>13, <2>2 DEF Revoked
  <2> QED
    BY <1>2, <1>3, <1>5, <1>9, <2>1, <2>3, Zenon DEF Good
<1>14. CASE k = "a"
  <2>1. ~rows[k][v].blocked
    BY <1>1, <1>5, <1>14, Zenon DEF RowsOK
  <2>2. ~AgentRefusal(rows[k][v]) /\ (q.shown.act => ~Revoked(rows[k][v], q.shown.iat))
    BY <1>12, <1>14 DEF Permits
  <2>3. rows[k][v].status \in {"", "active"}
    BY <2>2, Zenon DEF AgentRefusal
  <2>4. q.shown.act => rows[k][v].nb <= q.shown.iat
    <3> DEFINE i == q.shown.iat
               n == rows[k][v].nb
    <3>1. q.shown.act => ~(i < n)
      BY <2>2, Zenon DEF Revoked
    <3>2. i \in Nat /\ n \in Nat
      BY <1>8, <1>11, Zenon
    <3>3. ~(i < n) => n <= i
      <4> HIDE DEF i, n
      <4> QED
        BY <3>2
    <3> QED
      BY <3>1, <3>3, Zenon
  <2> QED
    BY <1>2, <1>3, <1>5, <1>9, <1>14, <2>1, <2>3, <2>4, Zenon DEF Good
<1> QED
  BY <1>3, <1>13, <1>14, PrincipalAssumption

-----------------------------------------------------------------------------
(* Steps that leave the calls alone.                                       *)
LEMMA SameRowsGrow ==
  ASSUME CredInv, UNCHANGED <<rows, superseded>>, now' \in Nat, now <= now'
  PROVE  StoreGrows /\ HistoryKept
<1>1. StoreGrows
  BY StillStoreGrows DEF CredInv, CacheInv
<1> QED
  BY <1>1 DEF HistoryKept

LEMMA NowNat ==
  ASSUME CredInv
  PROVE  now \in Nat /\ now <= now
  BY DEF CredInv, CacheInv, CacheTypeOK

(* Calls whose lookup goes on as it was, or was dropped.                   *)
LEMMA ReqsStay ==
  ASSUME CredInv, StoreGrows, HistoryKept, NEW P \in SUBSET Readers,
         \A p \in P : req'[p] = req[p] /\ read'[p] = read[p]
  PROVE  \A p \in P : ReqOK(p)'
<1> SUFFICES ASSUME NEW p \in P PROVE ReqOK(p)'
  OBVIOUS
<1> QED
  BY ReqStays

LEMMA TickKeepsCreds ==
  ASSUME CredInv, Tick, UNCHANGED <<credVars, world>>
  PROVE  CredInv'
<1>1. UNCHANGED <<rows, superseded, read, write, cred, task, req, world>>
  BY DEF Tick, credVars
<1>2. now' \in Nat /\ now <= now'
  BY NowNat DEF Tick
<1>3. CacheInv(ChangeOps, CredRows)'
  BY TickKeeps DEF CredInv
<1>4. \A p \in Readers : ReqOK(p)'
  BY <1>1, <1>2, SameRowsGrow, ReqsStay
<1>5. RowsOK' /\ WorldOK'
  BY <1>1, Zenon DEF CredInv, RowsOK, WorldOK, Current
<1> QED
  BY <1>1, <1>3, <1>4, <1>5 DEF CredInv

LEMMA CredsChangeKeeps ==
  ASSUME CredInv, UNCHANGED <<vars, req, world>>,
         cred' \in [Kinds -> Credential], task'.subj \in BOOLEAN
  PROVE  CredInv'
<1>1. UNCHANGED <<now, rows, superseded, read, write>>
  BY DEF vars
<1>2. CacheInv(ChangeOps, CredRows)'
  BY StutterKeeps DEF CredInv
<1>3. \A p \in Readers : ReqOK(p)'
  BY <1>1, NowNat, SameRowsGrow, ReqsStay
<1>4. RowsOK' /\ WorldOK'
  BY <1>1, Zenon DEF CredInv, RowsOK, WorldOK, Current
<1> QED
  BY <1>2, <1>3, <1>4 DEF CredInv

LEMMA IssueKeeps ==
  ASSUME CredInv, Issue, UNCHANGED world
  PROVE  CredInv'
<1>1. now \in Nat /\ Sec(now) \in Nat /\ cred \in [Kinds -> Credential]
  BY NowNat, SecNat DEF CredInv
<1>2. UNCHANGED <<vars, task, req>> /\ task.subj \in BOOLEAN
  BY DEF CredInv, Issue, SignIn, MintAgentApiKey, RevokeAgentApiKey, MintStepToken
<1>3. \A kind \in Kinds : \A c \in Credential :
        cred' = [cred EXCEPT ![kind] = c] => cred' \in [Kinds -> Credential]
  BY <1>1
<1>4. {"bearer", "key", "token"} \subseteq Kinds
  BY DEF Kinds
<1>5. CASE SignIn
  <2>1. [iat |-> Sec(now), exp |-> now + SessionTTL, subj |-> TRUE, act |-> FALSE] \in Credential
    BY <1>1, LifetimeAssumption DEF Credential
  <2> QED
    BY <1>2, <1>3, <1>4, <1>5, <2>1, CredsChangeKeeps, Zenon DEF SignIn
<1>6. CASE MintAgentApiKey
  <2>1. [iat |-> now, exp |-> now + KeyTTL, subj |-> FALSE, act |-> TRUE] \in Credential
    BY <1>1, LifetimeAssumption DEF Credential
  <2> QED
    BY <1>2, <1>3, <1>4, <1>6, <2>1, CredsChangeKeeps, Zenon DEF MintAgentApiKey
<1>7. CASE RevokeAgentApiKey
  <2>1. None \in Credential
    BY DEF Credential, None
  <2> QED
    BY <1>2, <1>3, <1>4, <1>7, <2>1, CredsChangeKeeps, Zenon DEF RevokeAgentApiKey
<1>8. CASE MintStepToken
  <2>1. task.subj \in BOOLEAN => MintTTL \in Credential
    BY <1>1, LifetimeAssumption DEF Credential, MintTTL
  <2> QED
    BY <1>2, <1>3, <1>4, <1>8, <2>1, CredsChangeKeeps DEF MintStepToken, CredInv
<1> QED
  BY <1>5, <1>6, <1>7, <1>8 DEF Issue

(* A step that changes the call and the lookup of reader p only.           *)
LEMMA OneCall ==
  ASSUME CredInv, NEW p \in Readers, CacheInv(ChangeOps, CredRows)',
         UNCHANGED <<now, rows, superseded, write, world, cred, task>>,
         \A q \in Readers \ {p} : read'[q] = read[q] /\ req'[q] = req[q],
         req' \in [Readers -> {NoReq} \cup CallRecord],
         ReqOK(p)'
  PROVE  CredInv'
<1>1. StoreGrows /\ HistoryKept
  BY NowNat, SameRowsGrow
<1>2. \A q \in Readers \ {p} : ReqOK(q)'
  BY <1>1, ReqsStay, Zenon
<1>3. RowsOK' /\ WorldOK'
  BY Zenon DEF CredInv, RowsOK, WorldOK, Current
<1> QED
  BY <1>2, <1>3 DEF CredInv

LEMMA CallKeeps ==
  ASSUME CredInv, NEW p \in Readers, NEW r \in Followed, NEW op \in world.ops,
         Call(p, r, op), UNCHANGED world
  PROVE  CredInv'
<1> DEFINE c == cred[Presents(op)]
           shown == [iat |-> c.iat, iat2 |-> cred["bearer"].iat, subj |-> c.subj, act |-> c.act]
           todo == Lookups(op, c)
           q == [phase |-> "looking", op |-> op, rep |-> r, start |-> now,
                 shown |-> shown, todo |-> todo, seen |-> << >>]
<1>1. op \in CallOps /\ r \in Replicas /\ now \in Nat
  BY PrincipalAssumption, NowNat DEF CredInv, WorldOK
<1>2. Presents(op) \in Kinds /\ "bearer" \in Kinds
  BY <1>1 DEF Presents, Kinds, CallOps
<1>3. c \in Credential /\ cred["bearer"] \in Credential
  BY <1>2 DEF CredInv
<1>4. c.subj \in BOOLEAN /\ shown \in Shown /\ shown.subj = c.subj
  BY <1>3 DEF Credential, Shown
<1>5. todo \in {<<"u">>, <<"a">>, <<"u", "a">>, <<"a", "u">>}
  BY <1>1, <1>4, LookupsShape
<1>6. todo \in Seq(Keys) /\ Head(todo) \in Keys
  BY <1>5, ShapeTyped, Zenon
<1>7. Lookups(op, shown) = todo
  BY <1>1, <1>4 DEF Lookups, OnBehalfOf
<1> HIDE DEF c, shown, todo
<1>8. q \in CallRecord
  BY <1>1, <1>4, <1>6 DEF CallRecord
<1>9. /\ req' = [req EXCEPT ![p] = q] /\ Begin(p, r, Head(todo))
      /\ UNCHANGED <<cred, task>>
  BY DEF Call, c, shown, todo
<1>10. /\ UNCHANGED <<now, rows, superseded, write>> /\ CacheInv(ChangeOps, CredRows)'
       /\ read \in [Readers -> {Idle} \cup Lookup]
  BY <1>1, <1>6, <1>9, BeginKeeps, Zenon DEF CredInv, Begin, CacheInv, CacheTypeOK
<1>11. /\ read'[p].key = Head(todo) /\ read'[p].start = now
       /\ \A j \in Readers \ {p} : read'[j] = read[j]
  BY <1>9, <1>10, Zenon DEF Begin
<1>12. /\ req' \in [Readers -> {NoReq} \cup CallRecord] /\ req'[p] = q
       /\ \A j \in Readers \ {p} : req'[j] = req[j]
  BY <1>8, <1>9, Zenon DEF CredInv
<1>13. ReqOK(p)'
  BY <1>1, <1>7, <1>10, <1>11, <1>12 DEF ReqOK, Looking
<1> QED
  BY <1>9, <1>10, <1>11, <1>12, <1>13, OneCall

LEMMA LookupStepKeeps ==
  ASSUME CredInv, NEW p \in Readers, LookupStep(p), UNCHANGED <<credVars, world>>
  PROVE  CredInv'
<1>1. UNCHANGED <<cred, task, req, world>> /\ CacheInv(ChangeOps, CredRows)
  BY DEF credVars, CredInv
<1>2. /\ UNCHANGED <<now, rows, superseded, write>>
      /\ read[p].phase # "idle"
  BY DEF LookupStep, CacheStep, Look, Load, LoadFails, StoreEntry
<1>3. CacheInv(ChangeOps, CredRows)'
  <2>1. CASE LoadFails(p)
    BY <1>1, <2>1, DropKeeps, Zenon DEF LoadFails
  <2> QED
    BY <1>1, <2>1, LookKeeps, LoadKeeps, StoreEntryKeeps DEF LookupStep, CacheStep
<1>4. read \in [Readers -> {Idle} \cup Lookup] /\ read[p] \in Lookup
  BY <1>1, <1>2 DEF CacheInv, CacheTypeOK, Idle
<1>5. \A q \in Readers \ {p} : read'[q] = read[q]
  BY <1>4 DEF LookupStep, CacheStep, Look, Load, LoadFails, StoreEntry
<1>6. \/ read'[p].phase = "idle"
      \/ read'[p].key = read[p].key /\ read'[p].start = read[p].start
  <2>1. CASE Look(p)
    BY <1>4, <2>1 DEF Look, Lookup
  <2>2. CASE Load(p)
    BY <1>4, <2>2 DEF Load, Lookup
  <2>3. CASE LoadFails(p)
    BY <1>4, <2>3 DEF LoadFails, Idle
  <2>4. CASE StoreEntry(p)
    BY <1>4, <2>4 DEF StoreEntry, Lookup
  <2> QED
    BY <2>1, <2>2, <2>3, <2>4 DEF LookupStep, CacheStep
<1>7. StoreGrows /\ HistoryKept
  BY <1>2, NowNat, SameRowsGrow
<1>8. ReqOK(p)'
  BY <1>1, <1>2, <1>6, <1>7, ReqStays
<1> QED
  BY <1>1, <1>2, <1>3, <1>5, <1>8, OneCall DEF CredInv

LEMMA ReqNext ==
  ASSUME NEW p \in Readers, NEW q, req'[p] = q, UNCHANGED <<now, rows, superseded>>
  PROVE  /\ Accepted(q) => Accepted(req[p])'
         /\ Looking(q) => Looking(req[p])'
  BY Zenon DEF Accepted, Looking, Good, Until, Current

(* The call goes on to its next principal, or is accepted.                 *)
LEMMA ProceedKeeps ==
  ASSUME CredInv, NEW p \in Readers, Proceed(p), UNCHANGED world
  PROVE  CredInv'
<1> DEFINE q == req[p]
           k == Head(q.todo)
           v == read[p].ver
           asked == Lookups(q.op, q.shown)
           looked == [q EXCEPT !.todo = Tail(@), !.seen = Append(@, v)]
           done == [looked EXCEPT !.phase = "accepted"]
<1>1. /\ q.phase = "looking" /\ read[p].phase = "answered" /\ ReqOK(p)
      /\ CacheInv(ChangeOps, CredRows) /\ UNCHANGED <<cred, task>>
      /\ req \in [Readers -> {NoReq} \cup CallRecord]
      /\ read \in [Readers -> {Idle} \cup Lookup]
  BY DEF Proceed, CredInv, CacheInv, CacheTypeOK
<1>2. k \in Keys /\ v \in Nat /\ Good(q, k, v)
  BY PermittedIsGood, Zenon DEF Proceed
<1>3. q \in CallRecord
  BY <1>1 DEF NoReq
<1>4. /\ q.op \in CallOps /\ q.shown.subj \in BOOLEAN /\ q.rep \in Replicas /\ q.start \in Nat
      /\ q.todo \in Seq(Keys) /\ q.seen \in Seq(Nat)
  BY <1>3 DEF CallRecord, Shown
<1>5. /\ asked[1] \in Keys
      /\ (Len(asked) = 1 /\ Tail(asked) = << >>)
         \/ (Len(asked) = 2 /\ Tail(asked) = <<asked[2]>> /\ asked[2] \in Keys)
      /\ Head(asked) = asked[1]
  <2>1. asked \in {<<"u">>, <<"a">>, <<"u", "a">>, <<"a", "u">>}
    BY <1>4, LookupsShape
  <2> HIDE DEF asked
  <2> QED
    BY <2>1, ShapeTyped, Zenon
<1>6. Looking(q)
  BY <1>1 DEF ReqOK
<1>7. /\ looked \in CallRecord /\ looked.phase = "looking" /\ looked.op = q.op /\ looked.start = q.start
      /\ looked.shown = q.shown /\ looked.todo = Tail(q.todo) /\ looked.seen = Append(q.seen, v)
  <2>1. q.todo # << >>
    <3>1. q.todo = asked \/ q.todo = <<asked[2]>>
      BY <1>6 DEF Looking
    <3> HIDE DEF asked, q
    <3> QED
      BY <1>5, <3>1
  <2>2. Tail(q.todo) \in Seq(Keys) /\ Append(q.seen, v) \in Seq(Nat)
    BY <1>2, <1>4, <2>1
  <2> QED
    BY <1>1, <1>3, <2>2, Zenon DEF CallRecord
<1>8. /\ done \in CallRecord /\ done.phase = "accepted" /\ done.op = q.op /\ done.start = q.start
      /\ done.shown = q.shown /\ done.todo = Tail(q.todo) /\ done.seen = Append(q.seen, v)
  BY <1>7, Zenon DEF CallRecord
<1>9. \A w, j : Good(q, j, w) => Good(looked, j, w) /\ Good(done, j, w)
  BY <1>7, <1>8, Zenon DEF Good
<1>10. CASE Tail(q.todo) = << >>
  <2>1. req' = [req EXCEPT ![p] = done] /\ read' = [read EXCEPT ![p] = Idle]
        /\ UNCHANGED <<now, rows, superseded, cache, gen, completed, write>>
    BY <1>10 DEF Proceed
  <2>2. Accepted(done)
    <3>1. CASE q.todo = asked /\ q.seen = << >>
      <4>1. Len(asked) = 1 /\ k = asked[1]
        <5>1. Tail(asked) = << >> /\ k = Head(asked)
          BY <1>10, <3>1, Zenon
        <5>2. <<asked[2]>> # << >>
          OBVIOUS
        <5> HIDE DEF asked, k
        <5> QED
          BY <1>5, <5>1, <5>2, Zenon
      <4>2. Len(done.seen) = 1 /\ done.seen[1] = v
        BY <1>2, <1>8, <3>1
      <4> QED
        BY <1>2, <1>8, <1>9, <4>1, <4>2 DEF Accepted
    <3>2. CASE Len(asked) = 2 /\ q.todo = <<asked[2]>> /\ Len(q.seen) = 1 /\ Good(q, asked[1], q.seen[1])
      <4>1. k = asked[2]
        BY <3>2
      <4>2. Len(done.seen) = 2 /\ done.seen[1] = q.seen[1] /\ done.seen[2] = v
        BY <1>2, <1>4, <1>8, <3>2
      <4> QED
        BY <1>2, <1>8, <1>9, <3>2, <4>1, <4>2 DEF Accepted
    <3> QED
      BY <1>6, <3>1, <3>2 DEF Looking
  <2> HIDE DEF done
  <2>3. /\ req' \in [Readers -> {NoReq} \cup CallRecord] /\ req'[p] = done
        /\ \A j \in Readers \ {p} : read'[j] = read[j] /\ req'[j] = req[j]
    BY <1>1, <1>8, <2>1
  <2>4. ReqOK(p)'
    BY <1>8, <2>1, <2>2, <2>3, ReqNext DEF ReqOK
  <2>5. CacheInv(ChangeOps, CredRows)'
    BY <1>1, <2>1, DropKeeps, Zenon
  <2> QED
    BY <1>1, <2>1, <2>3, <2>4, <2>5, OneCall
<1>11. CASE Tail(q.todo) # << >>
  <2>1. req' = [req EXCEPT ![p] = looked] /\ Begin(p, q.rep, Head(Tail(q.todo)))
    BY <1>11 DEF Proceed
  <2>2. q.todo = asked /\ q.seen = << >>
    <3>1. (q.todo = asked /\ q.seen = << >>) \/ q.todo = <<asked[2]>>
      BY <1>6 DEF Looking
    <3>2. Tail(<<asked[2]>>) = << >>
      OBVIOUS
    <3> QED
      BY <1>11, <3>1, <3>2, Zenon
  <2>3. Len(asked) = 2 /\ looked.todo = <<asked[2]>> /\ Head(Tail(q.todo)) = asked[2] /\ k = asked[1]
    BY <1>5, <1>7, <1>11, <2>2
  <2>4. Len(looked.seen) = 1 /\ looked.seen[1] = v
    BY <1>2, <1>7, <2>2
  <2>5. Looking(looked)
    BY <1>2, <1>7, <1>9, <2>3, <2>4 DEF Looking
  <2> HIDE DEF looked
  <2>6. /\ req' \in [Readers -> {NoReq} \cup CallRecord] /\ req'[p] = looked
        /\ \A j \in Readers \ {p} : req'[j] = req[j]
    BY <1>1, <1>7, <2>1
  <2>7. /\ UNCHANGED <<now, rows, superseded, write>> /\ CacheInv(ChangeOps, CredRows)'
    BY <1>1, <1>4, <1>5, <2>1, <2>3, BeginKeeps, Zenon DEF Begin
  <2>8. /\ read'[p].key = asked[2] /\ read'[p].start = now
        /\ \A j \in Readers \ {p} : read'[j] = read[j]
    BY <1>1, <2>1, <2>3, Zenon DEF Begin
  <2>9. now >= q.start
    BY <1>1, <1>4, NowNat DEF ReqOK
  <2>10. ReqOK(p)'
    BY <1>7, <2>3, <2>5, <2>6, <2>7, <2>8, <2>9, ReqNext DEF ReqOK
  <2> QED
    BY <1>1, <2>6, <2>7, <2>8, <2>10, OneCall
<1> QED
  BY <1>10, <1>11

LEMMA RefuseKeeps ==
  ASSUME CredInv, NEW p \in Readers, Refuse(p), UNCHANGED world
  PROVE  CredInv'
<1>1. /\ req' = [req EXCEPT ![p] = NoReq] /\ read' = [read EXCEPT ![p] = Idle]
      /\ UNCHANGED <<now, rows, superseded, cache, gen, completed, write, cred, task>>
  BY DEF Refuse
<1>2. CacheInv(ChangeOps, CredRows)'
  BY <1>1, DropKeeps, Zenon DEF CredInv
<1>3. /\ req' \in [Readers -> {NoReq} \cup CallRecord] /\ req'[p] = NoReq
      /\ \A j \in Readers \ {p} : read'[j] = read[j] /\ req'[j] = req[j]
  BY <1>1 DEF CredInv, CacheInv, CacheTypeOK
<1>4. ReqOK(p)'
  BY <1>3 DEF ReqOK, NoReq
<1> QED
  BY <1>1, <1>2, <1>3, <1>4, OneCall

(* An accepted call ends; the grant, the key's grant or the task it leaves *)
(* is well formed.                                                         *)
LEMMA FinishKeeps ==
  ASSUME CredInv, NEW p \in Readers, Finish(p), UNCHANGED world
  PROVE  CredInv'
<1>1. /\ req' = [req EXCEPT ![p] = NoReq] /\ UNCHANGED vars
      /\ req[p].phase = "accepted" /\ req \in [Readers -> {NoReq} \cup CallRecord]
      /\ cred \in [Kinds -> Credential]
  BY DEF Finish, CredInv
<1>2. req[p] \in CallRecord
  BY <1>1 DEF NoReq
<1>3. req[p].shown.subj \in BOOLEAN
  BY <1>2 DEF CallRecord, Shown
<1>4. now \in Nat /\ Sec(now) \in Nat /\ Sec(now + GrantTTL) \in Nat
  BY NowNat, SecNat, LifetimeAssumption
<1>5. {"bearer", "grant", "token"} \subseteq Kinds
  BY DEF Kinds
<1>6. \A kind \in Kinds : \A c \in Credential :
        cred' = [cred EXCEPT ![kind] = c] => cred' \in [Kinds -> Credential]
  BY <1>1
<1>7. cred' \in [Kinds -> Credential] /\ task'.subj \in BOOLEAN
  <2>1. CASE MintSessionGrant(p)
    <3>1. cred["bearer"].exp \in Nat
      BY <1>1, <1>5 DEF Credential
    <3>2. Min2(now + GrantTTL, cred["bearer"].exp) \in Nat
      BY <1>4, <3>1, LifetimeAssumption DEF Min2
    <3>3. [iat |-> Sec(now), exp |-> Sec(Min2(now + GrantTTL, cred["bearer"].exp)),
           subj |-> TRUE, act |-> FALSE] \in Credential
      BY <1>4, <3>2, SecNat DEF Credential
    <3> QED
      BY <1>1, <1>5, <1>6, <2>1, <3>3 DEF MintSessionGrant, CredInv
  <2>2. CASE MintExternalGrant(p)
    <3>1. [iat |-> Sec(now), exp |-> Sec(now + GrantTTL), subj |-> req[p].op = "assert",
           act |-> TRUE] \in Credential
      BY <1>4 DEF Credential
    <3> QED
      BY <1>5, <1>6, <2>2, <3>1 DEF MintExternalGrant, CredInv
  <2>3. CASE CreateGatewayTask(p)
    <3>1. None \in Credential
      BY DEF None, Credential
    <3> QED
      BY <1>3, <1>5, <1>6, <2>3, <3>1, Zenon DEF CreateGatewayTask
  <2>4. CASE Serve(p)
    BY <1>1, <2>4 DEF Serve, CredInv
  <2> QED
    BY <2>1, <2>2, <2>3, <2>4 DEF Finish
<1>8. UNCHANGED <<now, rows, superseded, read, write>>
  BY <1>1 DEF vars
<1>9. CacheInv(ChangeOps, CredRows)'
  BY <1>1, StutterKeeps DEF CredInv
<1>10. /\ req' \in [Readers -> {NoReq} \cup CallRecord] /\ req'[p] = NoReq
       /\ \A j \in Readers \ {p} : req'[j] = req[j]
  BY <1>1
<1>11. ReqOK(p)'
  BY <1>10 DEF ReqOK, NoReq
<1>12. StoreGrows /\ HistoryKept
  BY <1>8, NowNat, SameRowsGrow
<1>13. \A j \in Readers \ {p} : ReqOK(j)'
  BY <1>8, <1>10, <1>12, ReqsStay, Zenon
<1>14. RowsOK' /\ WorldOK'
  BY <1>8, Zenon DEF CredInv, RowsOK, WorldOK, Current
<1> QED
  BY <1>7, <1>9, <1>10, <1>11, <1>13, <1>14 DEF CredInv

-----------------------------------------------------------------------------
(* The admin writes.                                                       *)
LEMMA BeginChangeKeeps ==
  ASSUME CredInv, NEW w \in Writers, NEW r \in Replicas, NEW op \in world.changes,
         BeginChange(w, r, op), UNCHANGED world
  PROVE  CredInv'
<1>1. op \in UserChanges \cup AgentChanges /\ CacheInv(ChangeOps, CredRows) /\ RowsOK
  BY DEF CredInv, WorldOK
<1>2. rows["a"][Current("a")].status \in Statuses
  <2>1. rows["a"] \in Seq(CredRows) /\ Current("a") \in Nat \ {0}
    BY <1>1, PrincipalAssumption, StoreTyped, Zenon DEF CacheInv, CacheTypeOK
  <2>2. rows["a"][Current("a")] \in CredRows
    BY <2>1 DEF Current
  <2> QED
    BY <2>2 DEF CredRows
<1>3. PICK k \in Keys, o \in ChangeOps :
        BeginWrite(w, r, k, o) /\ o.kind \in (IF k = "u" THEN UserChanges ELSE AgentChanges)
  <2>1. CASE op \in {"active", "suspended", "retired"}
    <3> DEFINE o == [kind |-> op, from |-> rows["a"][Current("a")].status]
    <3>1. o \in ChangeOps /\ o.kind \in AgentChanges /\ "a" \in Keys
      BY <1>2, <2>1, PrincipalAssumption DEF ChangeOps, AgentChanges
    <3>2. BeginWrite(w, r, "a", o)
      BY <2>1 DEF BeginChange, SetAgentStatus
    <3> HIDE DEF o
    <3> QED
      BY <3>1, <3>2
  <2>2. CASE op \notin {"active", "suspended", "retired"}
    <3> DEFINE o == [kind |-> op, from |-> ""]
               k == IF op = "revokeAgent" THEN "a" ELSE "u"
    <3>1. /\ o \in ChangeOps /\ k \in Keys
          /\ o.kind \in (IF k = "u" THEN UserChanges ELSE AgentChanges)
      BY <1>1, <2>2, PrincipalAssumption, Zenon DEF ChangeOps, AgentChanges, UserChanges, Statuses
    <3>2. BeginWrite(w, r, k, o)
      BY <2>2, Zenon DEF BeginChange, RevocationAdmin
    <3> HIDE DEF o, k
    <3> QED
      BY <3>1, <3>2
  <2> QED
    BY <2>1, <2>2, Zenon
<1>4. /\ UNCHANGED <<now, rows, superseded, cred, task, req, read>>
      /\ write' = [write EXCEPT ![w] =
           [phase |-> "begun", rep |-> r, key |-> k, op |-> o, at |-> now, ver |-> 0]]
      /\ write \in [Writers -> {Idle, Done} \cup Writing(ChangeOps)]
  BY <1>1, <1>3, Zenon DEF BeginWrite, BeginChange, credVars, CacheInv, CacheTypeOK
<1>5. CacheInv(ChangeOps, CredRows)'
  BY <1>1, <1>3, BeginWriteKeeps
<1>6. /\ write'[w].key = k /\ write'[w].op = o
      /\ \A v \in Writers \ {w} : write'[v] = write[v]
  BY <1>4
<1>7. RowsOK'
  BY <1>1, <1>3, <1>4, <1>6, Zenon DEF RowsOK, Current
<1>8. StoreGrows /\ HistoryKept
  BY <1>4, NowNat, SameRowsGrow
<1>9. \A p \in Readers : ReqOK(p)'
  BY <1>4, <1>8, ReqsStay
<1>10. WorldOK'
  BY DEF WorldOK, CredInv
<1> QED
  BY <1>4, <1>5, <1>7, <1>9, <1>10 DEF CredInv

LEMMA ChangedRow ==
  ASSUME NEW row \in CredRows, NEW op \in ChangeOps, NEW at \in Nat
  PROVE  LET new == Changed(row, op, at)
         IN  /\ new \in CredRows
             /\ op.kind \in UserChanges => new.status = row.status
             /\ op.kind \in AgentChanges => new.blocked = row.blocked
<1>1. op.kind \in UserChanges \cup AgentChanges
  BY DEF ChangeOps
<1>2. CASE op.kind = "block"
  BY <1>2, Zenon DEF Changed, CredRows, UserChanges, AgentChanges
<1>3. CASE op.kind = "unblock"
  BY <1>3, Zenon DEF Changed, CredRows, UserChanges, AgentChanges
<1>4. CASE op.kind \in {"revokeUser", "revokeAgent"}
  BY <1>4 DEF Changed, CredRows, UserChanges, AgentChanges
<1>5. CASE op.kind \in {"active", "suspended", "retired"}
  <2>1. Changed(row, op, at) = IF row.status = op.from THEN [row EXCEPT !.status = op.kind] ELSE row
    BY <1>5 DEF Changed
  <2>2. op.kind \in Statuses /\ op.kind \notin UserChanges
    BY <1>5, Zenon DEF Statuses, UserChanges
  <2> QED
    BY <2>1, <2>2 DEF CredRows
<1> QED
  BY <1>1, <1>2, <1>3, <1>4, <1>5 DEF UserChanges, AgentChanges

LEMMA CommitChangeKeeps ==
  ASSUME CredInv, NEW w \in Writers, CommitChange(w), UNCHANGED world
  PROVE  CredInv'
<1> DEFINE k == write[w].key
           row == rows[k][Current(k)]
           new == Changed(row, write[w].op, write[w].at)
<1>1. /\ write[w].phase = "begun" /\ CacheInv(ChangeOps, CredRows) /\ RowsOK
      /\ UNCHANGED <<cred, task, req>>
      /\ write \in [Writers -> {Idle, Done} \cup Writing(ChangeOps)]
  BY DEF CommitChange, CredInv, credVars, CacheInv, CacheTypeOK
<1>2. /\ write[w] \in Writing(ChangeOps) /\ k \in Keys /\ write[w].op \in ChangeOps
      /\ write[w].at \in Nat
  BY <1>1, WriteTyped
<1>3. rows[k] \in Seq(CredRows) /\ Current(k) \in Nat \ {0} /\ Current(k) = Len(rows[k])
  BY <1>1, <1>2, StoreTyped DEF CacheInv, CacheTypeOK, Current
<1>4. row \in CredRows
  BY <1>3
<1>5. write[w].op.kind \in (IF k = "u" THEN UserChanges ELSE AgentChanges)
  BY <1>1, Zenon DEF RowsOK
<1>6. /\ new \in CredRows
      /\ k = "u" => new.status = row.status
      /\ k = "a" => new.blocked = row.blocked
  BY <1>2, <1>4, <1>5, ChangedRow
<1>7. WorldOK'
  BY DEF WorldOK, CredInv
<1> HIDE DEF new, row
<1>8. CASE CommitNothing(w)
  <2>1. CacheInv(ChangeOps, CredRows)'
    BY <1>1, <1>8, CommitNothingKeeps
  <2>2. UNCHANGED <<now, rows, superseded, read>>
        /\ write' = [write EXCEPT ![w] = [@ EXCEPT !.phase = "written", !.ver = 0]]
    BY <1>8 DEF CommitNothing
  <2>3. write'[w].phase = "written" /\ \A v \in Writers \ {w} : write'[v] = write[v]
    BY <1>1, <1>2, <2>2 DEF Writing
  <2>4. RowsOK'
    BY <1>1, <2>2, <2>3, Zenon DEF RowsOK, Current
  <2>5. StoreGrows /\ HistoryKept
    BY <2>2, NowNat, SameRowsGrow
  <2>6. \A p \in Readers : ReqOK(p)'
    BY <1>1, <2>2, <2>5, ReqsStay
  <2> QED
    BY <1>1, <1>7, <2>1, <2>4, <2>6 DEF CredInv
<1>9. CASE Commit(w, new)
  <2>1. CacheInv(ChangeOps, CredRows)'
    BY <1>1, <1>6, <1>9, CommitKeeps
  <2>2. /\ UNCHANGED <<now, read>>
        /\ rows' = [rows EXCEPT ![k] = Append(@, new)]
        /\ superseded' = [superseded EXCEPT ![k] = Append(@, now)]
        /\ write' = [write EXCEPT ![w] = [@ EXCEPT !.phase = "written", !.ver = Current(k) + 1]]
        /\ rows \in [Keys -> Seq(CredRows)]
    BY <1>1, <1>9 DEF Commit, CacheInv, CacheTypeOK
  <2>3. write'[w].phase = "written" /\ \A v \in Writers \ {w} : write'[v] = write[v]
    BY <1>1, <1>2, <2>2 DEF Writing
  <2> HIDE DEF k
  <2>4. StoreGrows
    BY <1>1, <1>2, <1>6, <2>2, CommitStoreGrows, Zenon DEF CacheInv
  <2>5. /\ rows'[k] = Append(rows[k], new)
        /\ \A j \in Keys \ {k} : rows'[j] = rows[j]
    BY <1>2, <2>2
  <2>6. /\ \A v \in 1 .. Len(rows[k]) : rows'[k][v] = rows[k][v]
        /\ rows'[k][Len(rows[k]) + 1] = new /\ Len(rows'[k]) = Len(rows[k]) + 1
    BY <1>3, <1>6, <2>5
  <2>7. HistoryKept
    BY <1>2, <2>5, <2>6 DEF HistoryKept, Current
  <2>8. \A p \in Readers : ReqOK(p)'
    BY <1>1, <2>2, <2>4, <2>7, ReqsStay
  <2>9. (k = "u" => row.status = "") /\ (k = "a" => ~row.blocked)
    <3>1. Current(k) \in 1 .. Current(k)
      BY <1>3
    <3>2. k = "u" => rows[k][Current(k)].status = ""
      BY <1>1, <3>1, Zenon DEF RowsOK
    <3>3. k = "a" => ~rows[k][Current(k)].blocked
      BY <1>1, <3>1, Zenon DEF RowsOK
    <3> QED
      BY <3>2, <3>3, Zenon DEF row
  <2>10. \A v \in 1 .. Len(rows'["u"]) : rows'["u"][v].status = ""
    <3>1. CASE k = "u"
      <4> SUFFICES ASSUME NEW v \in 1 .. Len(rows'["u"]) PROVE rows'["u"][v].status = ""
        BY Zenon
      <4>1. CASE v = Len(rows[k]) + 1
        BY <1>6, <2>6, <2>9, <3>1, <4>1, Zenon
      <4>2. CASE v \in 1 .. Len(rows[k])
        <5>1. rows'[k][v] = rows[k][v]
          BY <2>6, <4>2
        <5> QED
          BY <1>1, <3>1, <4>2, <5>1, Zenon DEF RowsOK, Current
      <4>3. v = Len(rows[k]) + 1 \/ v \in 1 .. Len(rows[k])
        <5>1. Len(rows[k]) \in Nat /\ v \in 1 .. Len(rows[k]) + 1
          BY <1>3, <2>6, <3>1
        <5> QED
          BY <5>1
      <4> QED
        BY <4>1, <4>2, <4>3, Zenon
    <3>2. CASE k # "u"
      BY <1>1, <2>5, <3>2, PrincipalAssumption, Zenon DEF RowsOK, Current
    <3> QED
      BY <3>1, <3>2, Zenon
  <2>11. \A v \in 1 .. Len(rows'["a"]) : ~rows'["a"][v].blocked
    <3>1. CASE k = "a"
      <4> SUFFICES ASSUME NEW v \in 1 .. Len(rows'["a"]) PROVE ~rows'["a"][v].blocked
        OBVIOUS
      <4>1. CASE v = Len(rows[k]) + 1
        BY <1>6, <2>6, <2>9, <3>1, <4>1
      <4>2. CASE v \in 1 .. Len(rows[k])
        <5>1. rows'[k][v] = rows[k][v]
          BY <2>6, <4>2
        <5> QED
          BY <1>1, <3>1, <4>2, <5>1, Zenon DEF RowsOK, Current
      <4>3. v = Len(rows[k]) + 1 \/ v \in 1 .. Len(rows[k])
        <5>1. Len(rows[k]) \in Nat /\ v \in 1 .. Len(rows[k]) + 1
          BY <1>3, <2>6, <3>1
        <5> QED
          BY <5>1
      <4> QED
        BY <4>1, <4>2, <4>3
    <3>2. CASE k # "a"
      BY <1>1, <2>5, <3>2, PrincipalAssumption, Zenon DEF RowsOK, Current
    <3> QED
      BY <3>1, <3>2
  <2>12. RowsOK'
    BY <1>1, <2>3, <2>10, <2>11, Zenon DEF RowsOK, Current
  <2> QED
    BY <1>1, <1>7, <2>1, <2>8, <2>12 DEF CredInv
<1> QED
  BY <1>8, <1>9 DEF CommitChange, new, row

LEMMA ResetKeepsCreds ==
  ASSUME CredInv, NEW w \in Writers, Reset(w), UNCHANGED <<credVars, world>>
  PROVE  CredInv'
<1>1. /\ UNCHANGED <<now, rows, superseded, read, cred, task, req, world>>
      /\ write' = [write EXCEPT ![w] = Done] /\ RowsOK
      /\ write \in [Writers -> {Idle, Done} \cup Writing(ChangeOps)]
  BY DEF Reset, credVars, CredInv, CacheInv, CacheTypeOK
<1>2. CacheInv(ChangeOps, CredRows)'
  BY ResetKeeps DEF CredInv
<1>3. write'[w].phase = "done" /\ \A v \in Writers \ {w} : write'[v] = write[v]
  BY <1>1 DEF Done
<1>4. RowsOK' /\ WorldOK'
  BY <1>1, <1>3, Zenon DEF RowsOK, WorldOK, CredInv, Current
<1>5. StoreGrows /\ HistoryKept
  BY <1>1, NowNat, SameRowsGrow
<1>6. \A p \in Readers : ReqOK(p)'
  BY <1>1, <1>5, ReqsStay
<1> QED
  BY <1>1, <1>2, <1>4, <1>6 DEF CredInv

LEMMA CredsBegin ==
  ASSUME CredInit
  PROVE  CredInv /\ \A k \in Keys : Current(k) = 1
<1>1. /\ world \in Worlds /\ rows = [k \in Keys |-> <<world.rows[k]>>]
      /\ world.rows["u"] \in CredRows /\ world.rows["a"] \in CredRows
      /\ world.rows["u"].status = "" /\ ~world.rows["a"].blocked
      /\ cred = world.cred /\ task = NoTask /\ req = [p \in Readers |-> NoReq]
  BY WorldAssumption, Zenon DEF CredInit
<1>2. \A k \in Keys : rows[k] = <<world.rows[k]>> /\ world.rows[k] \in CredRows /\ Current(k) = 1
  BY <1>1, PrincipalAssumption, Zenon DEF Current
<1>3. CacheInv(ChangeOps, CredRows)
  <2>1. rows \in [Keys -> {<<s>> : s \in CredRows}]
    BY <1>1, <1>2, Zenon
  <2> QED
    BY <2>1, CacheInit DEF CredInit, Init
<1>4. WorldOK /\ cred \in [Kinds -> Credential] /\ task.subj \in BOOLEAN
  BY <1>1, WorldAssumption, Zenon
     DEF WorldOK, CallOps, UserChanges, AgentChanges, Credential, NoTask
<1>5. RowsOK
  <2>1. rows["u"][1].status = "" /\ ~rows["a"][1].blocked /\ Current("u") = 1 /\ Current("a") = 1
    BY <1>1, <1>2, PrincipalAssumption, Zenon
  <2>2. \A w \in Writers : write[w].phase = "idle"
    BY DEF CredInit, Init, Idle
  <2>3. \A v \in 1 .. 1 : v = 1
    OBVIOUS
  <2> QED
    BY <2>1, <2>2, <2>3, Zenon DEF RowsOK
<1>6. req \in [Readers -> {NoReq} \cup CallRecord] /\ \A p \in Readers : ReqOK(p)
  BY <1>1, Zenon DEF ReqOK, NoReq
<1> QED
  BY <1>2, <1>3, <1>4, <1>5, <1>6, Zenon DEF CredInv

LEMMA CredNextKeeps ==
  ASSUME CredInv, [CredNext]_allVars
  PROVE  CredInv'
<1>1. CASE CredNext
  <2>1. UNCHANGED world
    BY <1>1 DEF CredNext
  <2>2. CASE Tick /\ UNCHANGED credVars
    BY <2>1, <2>2, TickKeepsCreds
  <2>3. CASE Issue
    BY <2>1, <2>3, IssueKeeps
  <2>4. ASSUME NEW p \in Readers, NEW r \in Followed, NEW op \in world.ops, Call(p, r, op)
        PROVE  CredInv'
    BY <2>1, <2>4, CallKeeps
  <2>5. ASSUME NEW p \in Readers, LookupStep(p) /\ UNCHANGED credVars
        PROVE  CredInv'
    BY <2>1, <2>5, LookupStepKeeps
  <2>6. ASSUME NEW p \in Readers, Proceed(p) \/ Refuse(p) \/ Finish(p)
        PROVE  CredInv'
    BY <2>1, <2>6, ProceedKeeps, RefuseKeeps, FinishKeeps
  <2>7. ASSUME NEW w \in Writers, NEW r \in Replicas, NEW op \in world.changes,
               BeginChange(w, r, op)
        PROVE  CredInv'
    BY <2>1, <2>7, BeginChangeKeeps
  <2>8. ASSUME NEW w \in Writers, CommitChange(w) \/ (Reset(w) /\ UNCHANGED credVars)
        PROVE  CredInv'
    BY <2>1, <2>8, CommitChangeKeeps, ResetKeepsCreds
  <2> QED
    BY <1>1, <2>2, <2>3, <2>4, <2>5, <2>6, <2>7, <2>8, Zenon DEF CredNext
<1>2. CASE UNCHANGED allVars
  BY <1>2, CredsChangeKeeps DEF allVars, credVars, CredInv
<1> QED
  BY <1>1, <1>2

(* The invariant of the credentials: the cache's, and what every call in   *)
(* flight has established about its subject and its actor.                 *)
THEOREM CredInvariant == CredSpec => []CredInv
  BY CredsBegin, CredNextKeeps, PTL DEF CredSpec

(* A credential is honoured only on the word of states of its subject and  *)
(* its actor that permit it and were current less than TTL before the call *)
(* began, at every place that takes one (RevocationInterceptor,            *)
(* verifyOwnerGrant, resolveAgentCredential, InvokeTool).                  *)
THEOREM CredentialsStop == CredSpec => []VoidCredentialsStop
<1>1. ASSUME CredInv
      PROVE  VoidCredentialsStop
  <2>1. ASSUME NEW p \in Readers, req[p].phase = "accepted"
        PROVE  LET q == req[p]
                   asked == Lookups(q.op, q.shown)
               IN  /\ Len(q.seen) = Len(asked)
                   /\ \A i \in 1 .. Len(asked) : Good(q, asked[i], q.seen[i])
    <3>1. Accepted(req[p])
      BY <1>1, <2>1 DEF CredInv, ReqOK
    <3> QED
      BY <3>1 DEF Accepted
  <2>2. \A k, v : LastCurrent(k, v) = Until(k, v)
    BY DEF LastCurrent, Until
  <2>3. \A q, k, v : Good(q, k, v) =>
          /\ LastCurrent(k, v) + TTL > q.start
          /\ rows[k][v].status \in {"", "active"} /\ ~rows[k][v].blocked
          /\ (k = "u" \/ q.shown.act) =>
               rows[k][v].nb <= (IF k = "u" /\ q.op = "assert" THEN q.shown.iat2 ELSE q.shown.iat)
    BY <2>2, Zenon DEF Good
  <2>4. ASSUME NEW p \in Readers, req[p].phase = "accepted"
        PROVE  LET q == req[p]
                   asked == Lookups(q.op, q.shown)
               IN  /\ Len(q.seen) = Len(asked)
                   /\ \A i \in 1 .. Len(asked) :
                        LET st == rows[asked[i]][q.seen[i]]
                        IN /\ LastCurrent(asked[i], q.seen[i]) + TTL > q.start
                           /\ st.status \in {"", "active"}
                           /\ ~st.blocked
                           /\ (asked[i] = "u" \/ q.shown.act) =>
                                st.nb <= (IF asked[i] = "u" /\ q.op = "assert"
                                            THEN q.shown.iat2 ELSE q.shown.iat)
    BY <2>1, <2>3, <2>4, Zenon
  <2> QED
    BY <2>4, Zenon DEF VoidCredentialsStop
<1> QED
  BY <1>1, CredInvariant, PTL

-----------------------------------------------------------------------------
(* The steps of the credentials, seen by the promise of the cache.         *)
LEMMA CredNextRefines ==
  ASSUME CredInv, CredInv', [CredNext]_allVars
  PROVE  Promise!Next \/ UNCHANGED Promise!vars
<1> DEFINE Goal == Promise!Next \/ UNCHANGED Promise!vars
<1>1. CacheInv(ChangeOps, CredRows) /\ CacheInv(ChangeOps, CredRows)'
  BY DEF CredInv
<1>2. ASSUME UNCHANGED <<now, rows, superseded, completed, read>>
      PROVE  Goal
  BY <1>2, StutterRefines DEF Asked
<1>3. CASE UNCHANGED allVars
  BY <1>2, <1>3 DEF allVars, vars
<1>4. CASE Tick
  BY <1>4, TickRefines
<1>5. CASE Issue
  BY <1>2, <1>5 DEF Issue, SignIn, MintAgentApiKey, RevokeAgentApiKey, MintStepToken, vars
<1>6. ASSUME NEW p \in Readers, NEW r \in Followed, NEW op \in world.ops, Call(p, r, op)
      PROVE  Goal
  <2>1. op \in CallOps /\ r \in Replicas
    BY PrincipalAssumption, Zenon DEF CredInv, WorldOK
  <2>2. cred[Presents(op)].subj \in BOOLEAN
    BY <2>1 DEF CredInv, Credential, Presents, Kinds, CallOps
  <2>3. Head(Lookups(op, cred[Presents(op)])) \in Keys
    BY <2>1, <2>2, LookupsShape, ShapeTyped
  <2> QED
    BY <1>1, <1>6, <2>1, <2>3, BeginRefines, Zenon DEF Call
<1>7. ASSUME NEW p \in Readers, LookupStep(p)
      PROVE  Goal
  <2>1. CASE LoadFails(p)
    BY <1>1, <2>1, DropRefines, Zenon DEF LoadFails
  <2> QED
    BY <1>1, <1>7, <2>1, LookRefines, LoadRefines, StoreEntryRefines DEF LookupStep, CacheStep
<1>8. ASSUME NEW p \in Readers, Proceed(p)
      PROVE  Goal
  <2>1. CASE Tail(req[p].todo) = << >>
    BY <1>1, <1>8, <2>1, DropRefines DEF Proceed
  <2>2. CASE Tail(req[p].todo) # << >>
    <3>1. Begin(p, req[p].rep, Head(Tail(req[p].todo)))
      BY <1>8, <2>2 DEF Proceed
    <3>2. req[p].rep \in Replicas /\ req[p].op \in CallOps /\ req[p].shown.subj \in BOOLEAN
      BY <1>8 DEF Proceed, CredInv, NoReq, CallRecord, Shown
    <3>3. Head(Tail(req[p].todo)) \in Keys
      <4> DEFINE asked == Lookups(req[p].op, req[p].shown)
      <4>1. asked \in {<<"u">>, <<"a">>, <<"u", "a">>, <<"a", "u">>}
        BY <3>2, LookupsShape
      <4>2. req[p].todo = asked \/ req[p].todo = <<asked[2]>>
        BY <1>8 DEF Proceed, CredInv, ReqOK, Looking
      <4>3. Tail(<<asked[2]>>) = << >>
        OBVIOUS
      <4>4. req[p].todo = asked
        BY <2>2, <4>2, <4>3, Zenon
      <4> HIDE DEF asked
      <4> QED
        BY <2>2, <4>1, <4>4, ShapeTyped
    <3> QED
      BY <1>1, <3>1, <3>2, <3>3, BeginRefines, Zenon
  <2> QED
    BY <2>1, <2>2
<1>9. ASSUME NEW p \in Readers, Refuse(p)
      PROVE  Goal
  <2>1. CASE read[p].phase = "idle"
    <3>1. read[p] = Idle /\ read' = [read EXCEPT ![p] = Idle] /\ read \in [Readers -> {Idle} \cup Lookup]
      BY <1>1, <1>9, <2>1, Zenon DEF Refuse, CacheInv, CacheTypeOK, Lookup
    <3>2. read' = read
      BY <3>1
    <3> QED
      BY <1>2, <1>9, <3>2 DEF Refuse
  <2>2. CASE read[p].phase # "idle"
    BY <1>1, <1>9, <2>2, DropRefines, Zenon DEF Refuse
  <2> QED
    BY <2>1, <2>2
<1>10. ASSUME NEW p \in Readers, Finish(p)
       PROVE  Goal
  BY <1>2, <1>10 DEF Finish, vars
<1>11. ASSUME NEW w \in Writers, NEW r \in Replicas, NEW op \in world.changes,
              BeginChange(w, r, op)
       PROVE  Goal
  BY <1>2, <1>11, Zenon DEF BeginChange, SetAgentStatus, RevocationAdmin, BeginWrite
<1>12. ASSUME NEW w \in Writers, CommitChange(w)
       PROVE  Goal
  <2> DEFINE k == write[w].key
             row == rows[k][Current(k)]
             new == Changed(row, write[w].op, write[w].at)
  <2>1. CASE CommitNothing(w)
    BY <1>2, <2>1 DEF CommitNothing
  <2>2. CASE Commit(w, new)
    <3>1. /\ k \in Keys /\ write[w].op \in ChangeOps /\ write[w].at \in Nat
      BY <1>1, <1>12, WriteTyped, Zenon DEF CommitChange
    <3>2. rows[k] \in Seq(CredRows) /\ Current(k) \in Nat \ {0} /\ Current(k) = Len(rows[k])
      BY <1>1, <3>1, StoreTyped DEF CacheInv, CacheTypeOK, Current
    <3>3. row \in CredRows
      BY <3>2
    <3>4. new \in CredRows
      BY <3>1, <3>3, ChangedRow
    <3> HIDE DEF new
    <3> QED
      BY <1>1, <2>2, <3>4, CommitRefines
  <2> QED
    BY <1>12, <2>1, <2>2 DEF CommitChange
<1>13. ASSUME NEW w \in Writers, Reset(w)
       PROVE  Goal
  BY <1>1, <1>13, ResetRefines
<1> QED
  BY <1>3, <1>4, <1>5, <1>6, <1>7, <1>8, <1>9, <1>10, <1>11, <1>12, <1>13, Zenon DEF CredNext

(* The answers stay fresh when every credential is checked through the     *)
(* cache and the rows change as the admin calls change them.               *)
THEOREM CredAnswersAreFresh == CredSpec => AnswersAreFresh
<1>1. CredInit => Promise!Init
  BY CredsBegin, RefinementInit DEF CredInit, Init
<1> QED
  BY <1>1, CredNextRefines, CredInvariant, PTL DEF CredSpec, AnswersAreFresh, Promise!Spec
=============================================================================
