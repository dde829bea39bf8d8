----------------------- MODULE RevocationCache_proofs -----------------------
(***************************************************************************)
(* revocation.Checker implements BoundedStaleness, for every number of     *)
(* replicas, keys, lookups and writes and every TTL.  The invariant and    *)
(* its lemmas take the kinds of writes (Ops) and of rows (Rows) as         *)
(* parameters, so that Credentials_proofs can use them for its own.        *)
(***************************************************************************)
EXTENDS RevocationCache, TLAPS

Lookup == [phase : {"begun", "missed", "loaded", "answered"}, rep : Replicas, key : Keys,
           start : Nat, floor : Nat, gen : Nat, ver : Nat]
Writing(Ops) == [phase : {"begun", "written"}, rep : Replicas, key : Keys, op : Ops,
                 at : Nat, ver : Nat]

CacheTypeOK(Ops, Rows) ==
  /\ now \in Nat
  /\ rows \in [Keys -> Seq(Rows)] /\ superseded \in [Keys -> Seq(Nat)]
  /\ \A k \in Keys : Current(k) = Len(superseded[k]) + 1
  /\ cache \in [Replicas -> [Keys -> [ver : Nat, exp : Nat]]]
  /\ gen \in [Replicas -> Nat]
  /\ completed \in [Replicas -> [Keys -> Nat]]
  /\ read \in [Readers -> {Idle} \cup Lookup]
  /\ write \in [Writers -> {Idle, Done} \cup Writing(Ops)]

(* The last instant at which version v of key k was current. *)
Until(k, v) == IF v = Current(k) THEN now ELSE superseded[k][v]

(* Why an answer is fresh.  A version that is cached, or loaded and about  *)
(* to be cached under an unchanged generation, is no older than the last   *)
(* reset of its replica, and was current when the lookup that loaded it    *)
(* began, TTL before the entry expires.                                    *)
Recent(r, k, v) == v \in completed[r][k] .. Current(k)

ResetOK(r, k) == completed[r][k] \in 1 .. Current(k)

EntryOK(r, k) ==
  cache[r][k].ver # 0 =>
    Recent(r, k, cache[r][k].ver) /\ cache[r][k].exp <= Until(k, cache[r][k].ver) + TTL

LookupOK(p) ==
  LET c == read[p]
  IN  /\ c.phase \in {"begun", "missed", "loaded"} =>
           c.start <= now /\ c.floor <= completed[c.rep][c.key]
      /\ c.phase \in {"missed", "loaded"} => c.gen <= gen[c.rep]
      /\ c.phase \in {"loaded", "answered"} =>
           c.ver \in c.floor .. Current(c.key) /\ c.ver # 0
      /\ c.phase = "loaded" =>
           /\ c.start <= Until(c.key, c.ver)
           /\ c.gen = gen[c.rep] => Recent(c.rep, c.key, c.ver)
      /\ c.phase = "answered" => c.start < Until(c.key, c.ver) + TTL

WriteOK(w) == write[w].phase = "written" => write[w].ver <= Current(write[w].key)

CacheInv(Ops, Rows) ==
  /\ CacheTypeOK(Ops, Rows)
  /\ \A r \in Replicas, k \in Keys : ResetOK(r, k) /\ EntryOK(r, k)
  /\ \A p \in Readers : LookupOK(p)
  /\ \A w \in Writers : WriteOK(w)

-----------------------------------------------------------------------------
(* A version stays in the store, and never stops being current earlier     *)
(* than it was known to be.                                                *)
StoreGrows ==
  /\ now \in Nat /\ now' \in Nat /\ now <= now'
  /\ \A k \in Keys :
       /\ Current(k) \in Nat \ {0} /\ Current(k)' \in Nat /\ Current(k) <= Current(k)'
       /\ \A v \in 1 .. Current(k) :
            Until(k, v) \in Nat /\ Until(k, v)' \in Nat /\ Until(k, v) <= Until(k, v)'

LEMMA StoreTyped ==
  ASSUME NEW Ops, NEW Rows, CacheTypeOK(Ops, Rows)
  PROVE  \A k \in Keys : Current(k) \in Nat \ {0} /\ \A v \in 1 .. Current(k) : Until(k, v) \in Nat
  BY DEF CacheTypeOK, Current, Until

LEMMA StillStoreGrows ==
  ASSUME NEW Ops, NEW Rows, CacheTypeOK(Ops, Rows), UNCHANGED <<rows, superseded>>,
         now' \in Nat, now <= now'
  PROVE  StoreGrows
<1>1. now \in Nat /\ \A k \in Keys : Current(k)' = Current(k)
  BY DEF CacheTypeOK, Current
<1>2. \A k \in Keys : \A v \in 1 .. Current(k) :
        Until(k, v)' \in Nat /\ Until(k, v) <= Until(k, v)'
  BY <1>1, StoreTyped DEF Until, Current
<1> QED
  BY <1>1, <1>2, StoreTyped DEF StoreGrows

LEMMA CommitStoreGrows ==
  ASSUME NEW Ops, NEW Rows, CacheTypeOK(Ops, Rows), NEW k \in Keys, NEW s \in Rows,
         rows' = [rows EXCEPT ![k] = Append(@, s)],
         superseded' = [superseded EXCEPT ![k] = Append(@, now)],
         UNCHANGED now
  PROVE  /\ StoreGrows /\ Current(k)' = Current(k) + 1
         /\ rows' \in [Keys -> Seq(Rows)] /\ superseded' \in [Keys -> Seq(Nat)]
         /\ \A j \in Keys : Current(j)' = Len(superseded'[j]) + 1
<1>1. now \in Nat /\ Current(k) = Len(superseded[k]) + 1
  BY DEF CacheTypeOK
<1>2. rows'[k] = Append(rows[k], s) /\ superseded'[k] = Append(superseded[k], now)
  BY DEF CacheTypeOK
<1>3. rows[k] \in Seq(Rows) /\ superseded[k] \in Seq(Nat)
  BY DEF CacheTypeOK
<1>4. Current(k)' = Current(k) + 1 /\ Len(superseded'[k]) = Len(superseded[k]) + 1
  BY <1>2, <1>3, <1>1 DEF Current
<1>5. \A j \in Keys \ {k} : rows'[j] = rows[j] /\ superseded'[j] = superseded[j]
  BY DEF CacheTypeOK
<1>6. \A j \in Keys \ {k} : Current(j)' = Current(j) /\ \A v : Until(j, v)' = Until(j, v)
  BY <1>5 DEF Until, Current
<1>7. \A v \in 1 .. Current(k) : Until(k, v)' = Until(k, v)
  <2> SUFFICES ASSUME NEW v \in 1 .. Current(k) PROVE Until(k, v)' = Until(k, v)
    OBVIOUS
  <2>1. Current(k) \in Nat \ {0} /\ v # Current(k)'
    BY <1>4, StoreTyped
  <2>2. Until(k, v)' = Append(superseded[k], now)[v]
    BY <2>1, <1>2, Zenon DEF Until
  <2>3. CASE v = Current(k)
    BY <2>2, <2>3, <1>1, <1>3 DEF Until
  <2>4. CASE v # Current(k)
    <3>1. v \in 1 .. Len(superseded[k])
      BY <2>4, <2>1, <1>1, <1>3
    <3> QED
      BY <2>2, <2>4, <3>1, <1>3, <1>1 DEF Until
  <2> QED
    BY <2>3, <2>4
<1>8. StoreGrows
  BY <1>1, <1>4, <1>6, <1>7, StoreTyped DEF StoreGrows
<1>9. rows' \in [Keys -> Seq(Rows)] /\ superseded' \in [Keys -> Seq(Nat)]
  BY <1>1, <1>3 DEF CacheTypeOK
<1>10. \A j \in Keys : Current(j)' = Len(superseded'[j]) + 1
  BY <1>1, <1>4, <1>5, <1>6 DEF CacheTypeOK
<1> QED
  BY <1>4, <1>8, <1>9, <1>10

-----------------------------------------------------------------------------
(* What a growing store leaves true of everything that does not change.    *)
LEMMA GrowthKeeps ==
  ASSUME NEW Ops, NEW Rows, CacheInv(Ops, Rows), StoreGrows,
         UNCHANGED <<cache, gen, completed>>
  PROVE  /\ \A r \in Replicas, k \in Keys : ResetOK(r, k)' /\ EntryOK(r, k)'
         /\ \A p \in Readers : read'[p] = read[p] => LookupOK(p)'
         /\ \A w \in Writers : write'[w] = write[w] => WriteOK(w)'
<1>0. CacheTypeOK(Ops, Rows) /\ TTL \in Nat
  BY TTLAssumption DEF CacheInv
<1>1. ASSUME NEW r \in Replicas, NEW k \in Keys
      PROVE  ResetOK(r, k)' /\ EntryOK(r, k)'
  <2>1. ResetOK(r, k) /\ EntryOK(r, k)
    BY DEF CacheInv
  <2>2. completed[r][k] \in Nat /\ cache[r][k].ver \in Nat /\ cache[r][k].exp \in Nat
    BY <1>0 DEF CacheTypeOK
  <2>3. Current(k) \in Nat /\ Current(k)' \in Nat /\ Current(k) <= Current(k)'
    BY DEF StoreGrows
  <2>4. ResetOK(r, k)'
    BY <2>1, <2>2, <2>3 DEF ResetOK
  <2>5. ASSUME cache[r][k].ver # 0
        PROVE  Recent(r, k, cache[r][k].ver)' /\ cache[r][k].exp <= Until(k, cache[r][k].ver)' + TTL
    <3>1. cache[r][k].ver \in 1 .. Current(k) /\ cache[r][k].ver \in completed[r][k] .. Current(k)
      BY <2>1, <2>2, <2>3, <2>5 DEF EntryOK, Recent
    <3>2. /\ Until(k, cache[r][k].ver) \in Nat /\ Until(k, cache[r][k].ver)' \in Nat
          /\ Until(k, cache[r][k].ver) <= Until(k, cache[r][k].ver)'
      BY <3>1 DEF StoreGrows, Until
    <3>3. cache[r][k].exp <= Until(k, cache[r][k].ver) + TTL
      BY <2>1, <2>5 DEF EntryOK
    <3>4. cache[r][k].exp <= Until(k, cache[r][k].ver)' + TTL
      BY <1>0, <2>2, <3>2, <3>3
    <3> QED
      BY <2>2, <2>3, <3>1, <3>4 DEF Recent
  <2> QED
    BY <2>4, <2>5 DEF EntryOK
<1>2. ASSUME NEW p \in Readers, read'[p] = read[p]
      PROVE  LookupOK(p)'
  <2>1. LookupOK(p) /\ read[p] \in {Idle} \cup Lookup
    BY <1>0 DEF CacheInv, CacheTypeOK
  <2>2. CASE read[p] = Idle
    BY <2>2, <1>2 DEF LookupOK, Idle
  <2>3. CASE read[p] \in Lookup
    <3> DEFINE c == read[p]
    <3>1. c.key \in Keys /\ c.rep \in Replicas /\ c.ver \in Nat /\ c.start \in Nat /\ c.floor \in Nat
      BY <2>3 DEF Lookup
    <3>2. /\ Current(c.key) \in Nat /\ Current(c.key)' \in Nat /\ Current(c.key) <= Current(c.key)'
          /\ now \in Nat /\ now' \in Nat /\ now <= now'
      BY <3>1, <1>2 DEF StoreGrows, Current
    <3>3. c.start <= now => c.start <= now'
      BY <3>1, <3>2
    <3>4. c.ver \in c.floor .. Current(c.key) => c.ver \in c.floor .. Current(c.key)'
      BY <3>1, <3>2
    <3>5. ASSUME c.ver \in c.floor .. Current(c.key), c.ver # 0
          PROVE  /\ c.start <= Until(c.key, c.ver) => c.start <= Until(c.key, c.ver)'
                 /\ c.start < Until(c.key, c.ver) + TTL => c.start < Until(c.key, c.ver)' + TTL
      <4>1. c.ver \in 1 .. Current(c.key)
        BY <3>1, <3>2, <3>5
      <4>2. /\ Until(c.key, c.ver) \in Nat /\ Until(c.key, c.ver)' \in Nat
            /\ Until(c.key, c.ver) <= Until(c.key, c.ver)'
        BY <3>1, <4>1, <1>2 DEF StoreGrows, Until
      <4> QED
        BY <1>0, <3>1, <4>2
    <3>6. Recent(c.rep, c.key, c.ver) => Recent(c.rep, c.key, c.ver)'
      BY <1>0, <1>2, <3>1, <3>2 DEF Recent, CacheTypeOK
    <3> QED
      BY <2>1, <1>2, <3>3, <3>4, <3>5, <3>6 DEF LookupOK, Until, Recent, Current
  <2> QED
    BY <2>1, <2>2, <2>3
<1>3. ASSUME NEW w \in Writers, write'[w] = write[w]
      PROVE  WriteOK(w)'
  <2>1. WriteOK(w) /\ write[w] \in {Idle, Done} \cup Writing(Ops)
    BY <1>0 DEF CacheInv, CacheTypeOK
  <2>2. CASE write[w] \in {Idle, Done}
    BY <2>2, <1>3 DEF WriteOK, Idle, Done
  <2>3. CASE write[w] \in Writing(Ops)
    <3>1. write[w].key \in Keys /\ write[w].ver \in Nat
      BY <2>3 DEF Writing
    <3>2. /\ Current(write[w].key) \in Nat /\ Current(write[w].key)' \in Nat
          /\ Current(write[w].key) <= Current(write[w].key)'
      BY <3>1, <1>3 DEF StoreGrows
    <3> QED
      BY <2>1, <1>3, <3>1, <3>2 DEF WriteOK
  <2> QED
    BY <2>1, <2>2, <2>3
<1> QED
  BY <1>1, <1>2, <1>3

(* A step of one lookup, or of one write, disturbs only that one.          *)
LEMMA OneLookup ==
  ASSUME NEW Ops, NEW Rows, CacheInv(Ops, Rows), NEW p \in Readers,
         UNCHANGED <<now, rows, superseded, cache, gen, completed, write>>,
         read' \in [Readers -> {Idle} \cup Lookup],
         \A q \in Readers \ {p} : read'[q] = read[q],
         LookupOK(p)'
  PROVE  CacheInv(Ops, Rows)'
<1>1. CacheTypeOK(Ops, Rows) /\ CacheTypeOK(Ops, Rows)'
  BY DEF CacheInv, CacheTypeOK, Current
<1>2. now' \in Nat /\ now <= now'
  BY <1>1 DEF CacheTypeOK
<1>3. StoreGrows
  BY <1>1, <1>2, StillStoreGrows
<1> QED
  BY <1>1, <1>3, GrowthKeeps DEF CacheInv

LEMMA OneWrite ==
  ASSUME NEW Ops, NEW Rows, CacheInv(Ops, Rows), NEW w \in Writers, StoreGrows,
         UNCHANGED <<cache, gen, completed, read>>, CacheTypeOK(Ops, Rows)',
         \A v \in Writers \ {w} : write'[v] = write[v],
         WriteOK(w)'
  PROVE  CacheInv(Ops, Rows)'
  BY GrowthKeeps DEF CacheInv

LEMMA LookupTyped ==
  ASSUME NEW Ops, NEW Rows, CacheInv(Ops, Rows), NEW p \in Readers, read[p].phase # "idle"
  PROVE  /\ read[p] \in Lookup /\ read[p].rep \in Replicas /\ read[p].key \in Keys
         /\ read[p].start \in Nat /\ read[p].floor \in Nat /\ read[p].gen \in Nat
         /\ read[p].ver \in Nat
         /\ gen[read[p].rep] \in Nat /\ completed[read[p].rep][read[p].key] \in Nat
         /\ Current(read[p].key) \in Nat \ {0} /\ now \in Nat /\ TTL \in Nat
         /\ LookupOK(p) /\ ResetOK(read[p].rep, read[p].key) /\ EntryOK(read[p].rep, read[p].key)
<1>1. CacheTypeOK(Ops, Rows)
  BY DEF CacheInv
<1>2. read[p] \in Lookup
  BY <1>1 DEF CacheTypeOK, Idle
<1>3. /\ read[p].rep \in Replicas /\ read[p].key \in Keys
      /\ read[p].start \in Nat /\ read[p].floor \in Nat /\ read[p].gen \in Nat
      /\ read[p].ver \in Nat
  BY <1>2 DEF Lookup
<1>4. gen[read[p].rep] \in Nat /\ completed[read[p].rep][read[p].key] \in Nat /\ now \in Nat
  BY <1>1, <1>3 DEF CacheTypeOK
<1> QED
  BY <1>1, <1>2, <1>3, <1>4, StoreTyped, TTLAssumption DEF CacheInv

LEMMA BeginKeeps ==
  ASSUME NEW Ops, NEW Rows, CacheInv(Ops, Rows),
         NEW p \in Readers, NEW r \in Replicas, NEW k \in Keys, Begin(p, r, k)
  PROVE  CacheInv(Ops, Rows)'
<1>1. CacheTypeOK(Ops, Rows)
  BY DEF CacheInv
<1>2. completed[r][k] \in Nat /\ now \in Nat /\ Current(k) \in Nat
  BY <1>1, StoreTyped DEF CacheTypeOK
<1> DEFINE c == [phase |-> "begun", rep |-> r, key |-> k, start |-> now,
                 floor |-> completed[r][k], gen |-> 0, ver |-> 0]
<1>3. c \in Lookup
  BY <1>2 DEF Lookup
<1>4. read' = [read EXCEPT ![p] = c] /\ read \in [Readers -> {Idle} \cup Lookup]
  BY <1>1 DEF Begin, CacheTypeOK
<1>5. read' \in [Readers -> {Idle} \cup Lookup] /\ read'[p] = c
      /\ \A q \in Readers \ {p} : read'[q] = read[q]
  BY <1>3, <1>4
<1>6. UNCHANGED <<now, rows, superseded, cache, gen, completed, write>>
  BY DEF Begin
<1>7. LookupOK(p)'
  BY <1>2, <1>5, <1>6 DEF LookupOK
<1> QED
  BY <1>5, <1>6, <1>7, OneLookup

LEMMA LookKeeps ==
  ASSUME NEW Ops, NEW Rows, CacheInv(Ops, Rows), NEW p \in Readers, Look(p)
  PROVE  CacheInv(Ops, Rows)'
<1> DEFINE c == read[p]
           e == cache[c.rep][c.key]
<1>1. c.phase = "begun" /\ UNCHANGED <<now, rows, superseded, cache, gen, completed, write>>
  BY DEF Look
<1>2. /\ c \in Lookup /\ c.rep \in Replicas /\ c.key \in Keys
      /\ c.start \in Nat /\ c.floor \in Nat /\ gen[c.rep] \in Nat
      /\ completed[c.rep][c.key] \in Nat /\ Current(c.key) \in Nat /\ TTL \in Nat
      /\ LookupOK(p) /\ ResetOK(c.rep, c.key) /\ EntryOK(c.rep, c.key)
  BY <1>1, LookupTyped
<1>3. e.ver \in Nat /\ e.exp \in Nat /\ read \in [Readers -> {Idle} \cup Lookup]
  BY <1>2 DEF CacheInv, CacheTypeOK
<1>4. c.start <= now /\ c.floor <= completed[c.rep][c.key]
  BY <1>1, <1>2 DEF LookupOK
<1>5. CASE e.ver # 0 /\ c.start < e.exp
  <2> DEFINE d == [c EXCEPT !.phase = "answered", !.ver = e.ver]
  <2>1. read' = [read EXCEPT ![p] = d]
    BY <1>5 DEF Look
  <2>2. d \in Lookup
    BY <1>2, <1>3, Zenon DEF Lookup
  <2>3. /\ d.phase = "answered" /\ d.ver = e.ver /\ d.key = c.key /\ d.rep = c.rep
        /\ d.floor = c.floor /\ d.start = c.start
    BY <1>2 DEF Lookup
  <2>4. read' \in [Readers -> {Idle} \cup Lookup] /\ read'[p] = d
        /\ \A q \in Readers \ {p} : read'[q] = read[q]
    BY <1>3, <2>1, <2>2
  <2>5. e.ver \in completed[c.rep][c.key] .. Current(c.key) /\ e.exp <= Until(c.key, e.ver) + TTL
    BY <1>2, <1>5 DEF EntryOK, Recent
  <2>6. e.ver \in c.floor .. Current(c.key)
    BY <1>2, <1>3, <1>4, <2>5
  <2>7. Until(c.key, e.ver) \in Nat
    <3>1. e.ver \in 1 .. Current(c.key)
      BY <1>2, <1>3, <1>5, <2>5
    <3> QED
      BY <1>2, <3>1, StoreTyped DEF CacheInv
  <2>8. c.start < Until(c.key, e.ver) + TTL
    BY <1>2, <1>3, <1>5, <2>5, <2>7
  <2> HIDE DEF c, d, e
  <2>9. LookupOK(p)'
    BY <1>1, <1>5, <2>3, <2>4, <2>6, <2>8 DEF LookupOK, Until, Current
  <2> QED
    BY <1>1, <2>4, <2>9, OneLookup
<1>6. CASE ~(e.ver # 0 /\ c.start < e.exp)
  <2> DEFINE d == [c EXCEPT !.phase = "missed", !.gen = gen[c.rep]]
  <2>1. read' = [read EXCEPT ![p] = d]
    BY <1>6, Zenon DEF Look
  <2>2. d \in Lookup
    BY <1>2, Zenon DEF Lookup
  <2>3. /\ d.phase = "missed" /\ d.key = c.key /\ d.rep = c.rep
        /\ d.floor = c.floor /\ d.start = c.start /\ d.gen = gen[c.rep]
    BY <1>2 DEF Lookup
  <2>4. read' \in [Readers -> {Idle} \cup Lookup] /\ read'[p] = d
        /\ \A q \in Readers \ {p} : read'[q] = read[q]
    BY <1>3, <2>1, <2>2
  <2> HIDE DEF c, d, e
  <2>5. LookupOK(p)'
    BY <1>1, <1>2, <1>4, <2>3, <2>4 DEF LookupOK
  <2> QED
    BY <1>1, <2>4, <2>5, OneLookup
<1> QED
  BY <1>5, <1>6

LEMMA LoadKeeps ==
  ASSUME NEW Ops, NEW Rows, CacheInv(Ops, Rows), NEW p \in Readers, Load(p)
  PROVE  CacheInv(Ops, Rows)'
<1> DEFINE c == read[p]
           d == [c EXCEPT !.phase = "loaded", !.ver = Current(c.key)]
<1>1. /\ c.phase = "missed" /\ read' = [read EXCEPT ![p] = d]
      /\ UNCHANGED <<now, rows, superseded, cache, gen, completed, write>>
  BY DEF Load
<1>2. /\ c \in Lookup /\ c.rep \in Replicas /\ c.key \in Keys
      /\ c.start \in Nat /\ c.floor \in Nat /\ c.gen \in Nat /\ gen[c.rep] \in Nat
      /\ completed[c.rep][c.key] \in Nat /\ Current(c.key) \in Nat \ {0} /\ now \in Nat
      /\ LookupOK(p) /\ ResetOK(c.rep, c.key)
  BY <1>1, LookupTyped
<1>3. d \in Lookup
  BY <1>2, Zenon DEF Lookup
<1>4. /\ d.phase = "loaded" /\ d.key = c.key /\ d.rep = c.rep /\ d.ver = Current(c.key)
      /\ d.floor = c.floor /\ d.start = c.start /\ d.gen = c.gen
  BY <1>2 DEF Lookup
<1>5. read' \in [Readers -> {Idle} \cup Lookup] /\ read'[p] = d
      /\ \A q \in Readers \ {p} : read'[q] = read[q]
  BY <1>1, <1>3 DEF CacheInv, CacheTypeOK
<1>6. c.start <= now /\ c.floor <= completed[c.rep][c.key] /\ c.gen <= gen[c.rep]
  BY <1>1, <1>2 DEF LookupOK
<1>7. completed[c.rep][c.key] <= Current(c.key)
  BY <1>2 DEF ResetOK
<1>8. Current(c.key) \in c.floor .. Current(c.key) /\ Recent(c.rep, c.key, Current(c.key))
  BY <1>2, <1>6, <1>7 DEF Recent
<1>9. c.start <= Until(c.key, Current(c.key))
  BY <1>6 DEF Until
<1> HIDE DEF c, d
<1>10. LookupOK(p)'
  BY <1>1, <1>2, <1>4, <1>5, <1>6, <1>8, <1>9 DEF LookupOK, Until, Current, Recent
<1> QED
  BY <1>1, <1>5, <1>10, OneLookup

(* A lookup that failed, or whose answer was used, is forgotten.           *)
LEMMA DropKeeps ==
  ASSUME NEW Ops, NEW Rows, CacheInv(Ops, Rows), NEW p \in Readers,
         read' = [read EXCEPT ![p] = Idle],
         UNCHANGED <<now, rows, superseded, cache, gen, completed, write>>
  PROVE  CacheInv(Ops, Rows)'
<1>1. read' \in [Readers -> {Idle} \cup Lookup] /\ read'[p] = Idle
      /\ \A q \in Readers \ {p} : read'[q] = read[q]
  BY DEF CacheInv, CacheTypeOK
<1>2. LookupOK(p)'
  BY <1>1 DEF LookupOK, Idle
<1> QED
  BY <1>1, <1>2, OneLookup

(* The second locked section caches only what no reset has overtaken.      *)
LEMMA StoreEntryKeeps ==
  ASSUME NEW Ops, NEW Rows, CacheInv(Ops, Rows), NEW p \in Readers, StoreEntry(p)
  PROVE  CacheInv(Ops, Rows)'
<1> DEFINE c == read[p]
           d == [c EXCEPT !.phase = "answered"]
           e == [ver |-> c.ver, exp |-> c.start + TTL]
<1>1. /\ c.phase = "loaded" /\ read' = [read EXCEPT ![p] = d]
      /\ cache' = IF gen[c.rep] = c.gen THEN [cache EXCEPT ![c.rep][c.key] = e] ELSE cache
      /\ UNCHANGED <<now, rows, superseded, gen, completed, write>>
  BY DEF StoreEntry
<1>2. /\ c \in Lookup /\ c.rep \in Replicas /\ c.key \in Keys /\ c.ver \in Nat
      /\ c.start \in Nat /\ c.floor \in Nat /\ c.gen \in Nat
      /\ Current(c.key) \in Nat \ {0} /\ TTL \in Nat /\ LookupOK(p)
  BY <1>1, LookupTyped
<1>3. /\ d \in Lookup /\ d.phase = "answered" /\ d.key = c.key /\ d.rep = c.rep
      /\ d.ver = c.ver /\ d.floor = c.floor /\ d.start = c.start
  BY <1>2 DEF Lookup
<1>4. read' \in [Readers -> {Idle} \cup Lookup] /\ read'[p] = d
      /\ \A q \in Readers \ {p} : read'[q] = read[q]
  BY <1>1, <1>3 DEF CacheInv, CacheTypeOK
<1>5. /\ c.ver \in c.floor .. Current(c.key) /\ c.ver # 0
      /\ c.start <= Until(c.key, c.ver)
      /\ c.gen = gen[c.rep] => Recent(c.rep, c.key, c.ver)
  BY <1>1, <1>2 DEF LookupOK
<1>6. Until(c.key, c.ver) \in Nat
  <2>1. c.ver \in 1 .. Current(c.key)
    BY <1>2, <1>5
  <2> QED
    BY <1>2, <2>1, StoreTyped DEF CacheInv
<1>7. c.start < Until(c.key, c.ver) + TTL /\ c.start + TTL <= Until(c.key, c.ver) + TTL
  BY <1>2, <1>5, <1>6, TTLAssumption
<1>8. cache' \in [Replicas -> [Keys -> [ver : Nat, exp : Nat]]]
  <2>1. cache \in [Replicas -> [Keys -> [ver : Nat, exp : Nat]]]
    BY DEF CacheInv, CacheTypeOK
  <2>2. e \in [ver : Nat, exp : Nat]
    BY <1>2
  <2> QED
    BY <1>1, <1>2, <2>1, <2>2
<1>9. CacheTypeOK(Ops, Rows)'
  BY <1>1, <1>4, <1>8, Zenon DEF CacheInv, CacheTypeOK, Current
<1>10. \A k \in Keys : Current(k)' = Current(k) /\ \A v : Until(k, v)' = Until(k, v)
  BY <1>1 DEF Until, Current
<1>11. ASSUME NEW r \in Replicas, NEW k \in Keys
       PROVE  ResetOK(r, k)' /\ EntryOK(r, k)'
  <2>1. ResetOK(r, k) /\ EntryOK(r, k)
    BY DEF CacheInv
  <2>2. ResetOK(r, k)'
    BY <1>1, <1>10, <2>1 DEF ResetOK
  <2>3. CASE cache'[r][k] = cache[r][k]
    BY <1>1, <1>10, <2>1, <2>2, <2>3 DEF EntryOK, Recent
  <2>4. CASE cache'[r][k] # cache[r][k]
    <3>1. gen[c.rep] = c.gen /\ r = c.rep /\ k = c.key /\ cache'[r][k] = e
      BY <1>1, <1>2, <2>4, Zenon DEF CacheInv, CacheTypeOK
    <3>2. e.ver = c.ver /\ e.exp = c.start + TTL
      OBVIOUS
    <3> HIDE DEF c, d, e
    <3> QED
      BY <1>1, <1>5, <1>7, <1>10, <2>2, <3>1, <3>2 DEF EntryOK, Recent
  <2> QED
    BY <2>3, <2>4
<1>12. \A q \in Readers \ {p} : LookupOK(q)'
  BY <1>1, <1>4 DEF CacheInv, LookupOK, Recent, Until, Current
<1>13. \A w \in Writers : WriteOK(w)'
  BY <1>1 DEF CacheInv, WriteOK, Current
<1> HIDE DEF c, d, e
<1>14. LookupOK(p)'
  BY <1>1, <1>3, <1>4, <1>5, <1>7 DEF LookupOK, Until, Current
<1> QED
  BY <1>9, <1>11, <1>12, <1>13, <1>14 DEF CacheInv

LEMMA TickKeeps ==
  ASSUME NEW Ops, NEW Rows, CacheInv(Ops, Rows), Tick
  PROVE  CacheInv(Ops, Rows)'
<1>1. CacheTypeOK(Ops, Rows) /\ UNCHANGED <<rows, superseded, cache, gen, completed, read, write>>
  BY DEF CacheInv, Tick
<1>2. now' \in Nat /\ now <= now'
  BY <1>1 DEF CacheTypeOK, Tick
<1>3. StoreGrows
  BY <1>1, <1>2, StillStoreGrows
<1>4. CacheTypeOK(Ops, Rows)'
  BY <1>1, <1>2 DEF CacheTypeOK, Current
<1> QED
  BY <1>1, <1>3, <1>4, GrowthKeeps DEF CacheInv

LEMMA BeginWriteKeeps ==
  ASSUME NEW Ops, NEW Rows, CacheInv(Ops, Rows),
         NEW w \in Writers, NEW r \in Replicas, NEW k \in Keys, NEW op \in Ops,
         BeginWrite(w, r, k, op)
  PROVE  CacheInv(Ops, Rows)'
<1> DEFINE c == [phase |-> "begun", rep |-> r, key |-> k, op |-> op, at |-> now, ver |-> 0]
<1>1. /\ CacheTypeOK(Ops, Rows) /\ write' = [write EXCEPT ![w] = c]
      /\ UNCHANGED <<now, rows, superseded, cache, gen, completed, read>>
  BY DEF CacheInv, BeginWrite
<1>2. c \in Writing(Ops)
  BY <1>1 DEF Writing, CacheTypeOK
<1>3. /\ write' \in [Writers -> {Idle, Done} \cup Writing(Ops)] /\ write'[w] = c
      /\ \A v \in Writers \ {w} : write'[v] = write[v]
  BY <1>1, <1>2 DEF CacheTypeOK
<1>4. CacheTypeOK(Ops, Rows)'
  BY <1>1, <1>3 DEF CacheTypeOK, Current
<1>5. now' \in Nat /\ now <= now'
  BY <1>1 DEF CacheTypeOK
<1>6. StoreGrows
  BY <1>1, <1>5, StillStoreGrows
<1>7. WriteOK(w)'
  BY <1>3 DEF WriteOK
<1> QED
  BY <1>1, <1>3, <1>4, <1>6, <1>7, OneWrite

LEMMA WriteTyped ==
  ASSUME NEW Ops, NEW Rows, CacheInv(Ops, Rows), NEW w \in Writers,
         write[w].phase \in {"begun", "written"}
  PROVE  /\ write[w] \in Writing(Ops) /\ write[w].rep \in Replicas /\ write[w].key \in Keys
         /\ write[w].op \in Ops /\ write[w].at \in Nat /\ write[w].ver \in Nat
<1>1. write[w] \in Writing(Ops)
  BY DEF CacheInv, CacheTypeOK, Idle, Done
<1> QED
  BY <1>1 DEF Writing

LEMMA CommitKeeps ==
  ASSUME NEW Ops, NEW Rows, CacheInv(Ops, Rows), NEW w \in Writers, NEW s \in Rows,
         Commit(w, s)
  PROVE  CacheInv(Ops, Rows)'
<1> DEFINE c == write[w]
           d == [c EXCEPT !.phase = "written", !.ver = Current(c.key) + 1]
<1>1. /\ c.phase = "begun" /\ CacheTypeOK(Ops, Rows)
      /\ rows' = [rows EXCEPT ![c.key] = Append(@, s)]
      /\ superseded' = [superseded EXCEPT ![c.key] = Append(@, now)]
      /\ write' = [write EXCEPT ![w] = d] /\ UNCHANGED <<now, cache, gen, completed, read>>
  BY DEF CacheInv, Commit
<1>2. c \in Writing(Ops) /\ c.key \in Keys
  BY <1>1, WriteTyped
<1>3. /\ StoreGrows /\ Len(rows'[c.key]) = Current(c.key) + 1
      /\ rows' \in [Keys -> Seq(Rows)] /\ superseded' \in [Keys -> Seq(Nat)]
      /\ \A j \in Keys : Current(j)' = Len(superseded'[j]) + 1
  <2>1. \A k \in Keys :
          rows' = [rows EXCEPT ![k] = Append(@, s)]
          /\ superseded' = [superseded EXCEPT ![k] = Append(@, now)]
          => /\ StoreGrows /\ Current(k)' = Current(k) + 1
             /\ rows' \in [Keys -> Seq(Rows)] /\ superseded' \in [Keys -> Seq(Nat)]
             /\ \A j \in Keys : Current(j)' = Len(superseded'[j]) + 1
    BY <1>1, CommitStoreGrows, Zenon
  <2>2. \A k \in Keys :
          rows' = [rows EXCEPT ![k] = Append(@, s)]
          /\ superseded' = [superseded EXCEPT ![k] = Append(@, now)]
          => Len(rows'[k]) = Current(k) + 1
    BY <2>1, Zenon DEF Current
  <2>3. /\ rows' = [rows EXCEPT ![c.key] = Append(@, s)]
        /\ superseded' = [superseded EXCEPT ![c.key] = Append(@, now)]
    BY <1>1
  <2> HIDE DEF c, d
  <2> QED
    BY <1>2, <2>1, <2>2, <2>3, Zenon
<1>4. Current(c.key) \in Nat
  BY <1>1, <1>2, StoreTyped
<1>5. d \in Writing(Ops) /\ d.ver = Current(c.key) + 1 /\ d.key = c.key
  <2>1. \A n \in Nat : LET x == [c EXCEPT !.phase = "written", !.ver = n]
                       IN  x \in Writing(Ops) /\ x.ver = n /\ x.key = c.key
    BY <1>2, Zenon DEF Writing
  <2>2. Current(c.key) + 1 \in Nat
    BY <1>4
  <2> QED
    BY <2>1, <2>2, Zenon
<1>6. /\ write' \in [Writers -> {Idle, Done} \cup Writing(Ops)] /\ write'[w] = d
      /\ \A v \in Writers \ {w} : write'[v] = write[v]
  BY <1>1, <1>5 DEF CacheTypeOK
<1> HIDE DEF c, d
<1>7. CacheTypeOK(Ops, Rows)'
  BY <1>1, <1>3, <1>6 DEF CacheTypeOK
<1>8. WriteOK(w)'
  BY <1>3, <1>4, <1>5, <1>6 DEF WriteOK, Current
<1> QED
  BY <1>1, <1>3, <1>6, <1>7, <1>8, OneWrite

LEMMA CommitNothingKeeps ==
  ASSUME NEW Ops, NEW Rows, CacheInv(Ops, Rows), NEW w \in Writers, CommitNothing(w)
  PROVE  CacheInv(Ops, Rows)'
<1> DEFINE c == write[w]
           d == [c EXCEPT !.phase = "written", !.ver = 0]
<1>1. /\ c.phase = "begun" /\ CacheTypeOK(Ops, Rows) /\ write' = [write EXCEPT ![w] = d]
      /\ UNCHANGED <<now, rows, superseded, cache, gen, completed, read>>
  BY DEF CacheInv, CommitNothing
<1>2. c \in Writing(Ops) /\ c.key \in Keys
  BY <1>1, WriteTyped
<1>3. d \in Writing(Ops) /\ d.ver = 0 /\ d.key = c.key
  BY <1>2, Zenon DEF Writing
<1>4. /\ write' \in [Writers -> {Idle, Done} \cup Writing(Ops)] /\ write'[w] = d
      /\ \A v \in Writers \ {w} : write'[v] = write[v]
  BY <1>1, <1>3 DEF CacheTypeOK
<1> HIDE DEF c, d
<1>5. CacheTypeOK(Ops, Rows)'
  BY <1>1, <1>4 DEF CacheTypeOK, Current
<1>6. now' \in Nat /\ now <= now'
  BY <1>1 DEF CacheTypeOK
<1>7. StoreGrows
  BY <1>1, <1>6, StillStoreGrows
<1>8. Len(rows'[c.key]) \in Nat
  BY <1>1, <1>2, StoreTyped DEF Current
<1>9. WriteOK(w)'
  BY <1>3, <1>4, <1>8 DEF WriteOK, Current
<1> QED
  BY <1>1, <1>4, <1>5, <1>7, <1>9, OneWrite

(* A reset empties the replica's cache and moves its generation on, so     *)
(* that no lookup that loaded before it still caches what it loaded.       *)
LEMMA ResetKeeps ==
  ASSUME NEW Ops, NEW Rows, CacheInv(Ops, Rows), NEW w \in Writers, Reset(w)
  PROVE  CacheInv(Ops, Rows)'
<1> DEFINE c == write[w]
<1>1. /\ c.phase = "written" /\ CacheTypeOK(Ops, Rows) /\ WriteOK(w)
      /\ cache' = [cache EXCEPT ![c.rep] = [k \in Keys |-> NoEntry]]
      /\ gen' = [gen EXCEPT ![c.rep] = @ + 1]
      /\ completed' = IF c.ver > completed[c.rep][c.key]
                        THEN [completed EXCEPT ![c.rep][c.key] = c.ver]
                        ELSE completed
      /\ write' = [write EXCEPT ![w] = Done]
      /\ UNCHANGED <<now, rows, superseded, read>>
  BY DEF CacheInv, Reset
<1>2. c.rep \in Replicas /\ c.key \in Keys /\ c.ver \in Nat
  BY <1>1, WriteTyped
<1>3. c.ver <= Current(c.key)
  BY <1>1 DEF WriteOK
<1>4. /\ cache \in [Replicas -> [Keys -> [ver : Nat, exp : Nat]]]
      /\ gen \in [Replicas -> Nat] /\ completed \in [Replicas -> [Keys -> Nat]]
      /\ write \in [Writers -> {Idle, Done} \cup Writing(Ops)]
  BY <1>1, Zenon DEF CacheTypeOK
<1> HIDE DEF c
<1>5. \A r \in Replicas, k \in Keys :
        IF r = c.rep THEN cache'[r][k].ver = 0 ELSE cache'[r][k] = cache[r][k]
  BY <1>1, <1>2, <1>4 DEF NoEntry
<1>6. \A r \in Replicas : gen'[r] \in Nat /\ gen[r] <= gen'[r] /\ (r = c.rep => gen[r] < gen'[r])
  BY <1>1, <1>2, <1>4
<1>7. \A r \in Replicas, k \in Keys :
        /\ completed'[r][k] \in Nat /\ completed[r][k] <= completed'[r][k]
        /\ completed'[r][k] = completed[r][k]
           \/ (r = c.rep /\ k = c.key /\ completed'[r][k] = c.ver)
  <2> SUFFICES ASSUME NEW r \in Replicas, NEW k \in Keys
               PROVE  /\ completed'[r][k] \in Nat /\ completed[r][k] <= completed'[r][k]
                      /\ completed'[r][k] = completed[r][k]
                         \/ (r = c.rep /\ k = c.key /\ completed'[r][k] = c.ver)
    OBVIOUS
  <2>1. completed[r][k] \in Nat /\ completed[c.rep][c.key] \in Nat
    BY <1>2, <1>4
  <2>2. CASE c.ver > completed[c.rep][c.key]
    <3>1. completed'[r][k] = IF r = c.rep /\ k = c.key THEN c.ver ELSE completed[r][k]
      BY <1>1, <1>2, <1>4, <2>2
    <3> QED
      BY <1>2, <2>1, <2>2, <3>1
  <2>3. CASE ~(c.ver > completed[c.rep][c.key])
    BY <1>1, <2>1, <2>3
  <2> QED
    BY <2>2, <2>3
<1>8. CacheTypeOK(Ops, Rows)'
  <2>1. cache' \in [Replicas -> [Keys -> [ver : Nat, exp : Nat]]]
    <3>1. [k \in Keys |-> NoEntry] \in [Keys -> [ver : Nat, exp : Nat]]
      BY DEF NoEntry
    <3> QED
      BY <1>1, <1>2, <1>4, <3>1
  <2>2. gen' \in [Replicas -> Nat] /\ completed' \in [Replicas -> [Keys -> Nat]]
    BY <1>1, <1>2, <1>4
  <2>3. write' \in [Writers -> {Idle, Done} \cup Writing(Ops)]
    BY <1>1, <1>4
  <2> QED
    BY <1>1, <2>1, <2>2, <2>3, Zenon DEF CacheTypeOK, Current
<1>9. \A k \in Keys : Current(k)' = Current(k) /\ Current(k) \in Nat \ {0}
                      /\ \A v : Until(k, v)' = Until(k, v)
  BY <1>1, StoreTyped DEF Until, Current
<1>10. ASSUME NEW r \in Replicas, NEW k \in Keys
       PROVE  ResetOK(r, k)' /\ EntryOK(r, k)'
  <2>1. ResetOK(r, k) /\ EntryOK(r, k) /\ completed[r][k] \in Nat
    BY <1>4 DEF CacheInv
  <2>2. ResetOK(r, k)'
    BY <1>2, <1>3, <1>7, <1>9, <2>1 DEF ResetOK
  <2>3. CASE r = c.rep
    BY <1>5, <2>2, <2>3 DEF EntryOK
  <2>4. CASE r # c.rep
    BY <1>5, <1>7, <1>9, <2>1, <2>2, <2>4 DEF EntryOK, Recent
  <2> QED
    BY <2>3, <2>4
<1>11. ASSUME NEW p \in Readers
       PROVE  LookupOK(p)'
  <2> DEFINE a == read[p]
  <2>1. LookupOK(p) /\ a \in {Idle} \cup Lookup /\ read' = read
    BY <1>1 DEF CacheInv, CacheTypeOK
  <2>2. CASE a = Idle
    BY <2>1, <2>2 DEF LookupOK, Idle
  <2>3. CASE a \in Lookup
    <3>1. a.rep \in Replicas /\ a.key \in Keys /\ a.gen \in Nat /\ a.floor \in Nat /\ a.ver \in Nat
      BY <2>3 DEF Lookup
    <3>2. a.floor <= completed[a.rep][a.key] => a.floor <= completed'[a.rep][a.key]
      BY <1>4, <1>7, <3>1
    <3>3. a.gen <= gen[a.rep] => a.gen <= gen'[a.rep]
      BY <1>4, <1>6, <3>1
    <3>4. Current(a.key)' = Current(a.key) /\ Until(a.key, a.ver)' = Until(a.key, a.ver)
      BY <1>1 DEF Current, Until
    <3>5. ASSUME a.gen <= gen[a.rep], a.gen = gen'[a.rep]
          PROVE  a.gen = gen[a.rep] /\ completed'[a.rep][a.key] = completed[a.rep][a.key]
      <4>1. /\ gen[a.rep] \in Nat /\ gen'[a.rep] \in Nat /\ gen[a.rep] <= gen'[a.rep]
            /\ a.rep = c.rep => gen[a.rep] < gen'[a.rep]
        BY <1>4, <1>6, <3>1
      <4>2. a.gen = gen[a.rep] /\ a.rep # c.rep
        BY <3>1, <3>5, <4>1
      <4> QED
        BY <1>7, <3>1, <4>2
    <3> QED
      <4>1. Recent(a.rep, a.key, a.ver)
              /\ completed'[a.rep][a.key] = completed[a.rep][a.key]
              => Recent(a.rep, a.key, a.ver)'
        BY <2>1, <3>4 DEF Recent
      <4> QED
        BY <1>1, <2>1, <3>2, <3>3, <3>4, <3>5, <4>1, Zenon DEF LookupOK, Current, Until, Recent
  <2> QED
    BY <2>1, <2>2, <2>3
<1>12. ASSUME NEW v \in Writers
       PROVE  WriteOK(v)'
  <2>1. WriteOK(v)
    BY DEF CacheInv
  <2>2. CASE v = w
    BY <1>1, <1>4, <2>2 DEF WriteOK, Done
  <2>3. CASE v # w
    BY <1>1, <1>4, <2>1, <2>3 DEF WriteOK, Current
  <2> QED
    BY <2>2, <2>3
<1> QED
  BY <1>8, <1>10, <1>11, <1>12 DEF CacheInv

LEMMA StutterKeeps ==
  ASSUME NEW Ops, NEW Rows, CacheInv(Ops, Rows), UNCHANGED vars
  PROVE  CacheInv(Ops, Rows)'
  BY DEF CacheInv, CacheTypeOK, ResetOK, EntryOK, LookupOK, WriteOK, Recent, Until, Current, vars

LEMMA CacheInit ==
  ASSUME NEW Ops, NEW Rows, now = 0, rows \in [Keys -> {<<s>> : s \in Rows}],
         superseded = [k \in Keys |-> << >>],
         cache = [r \in Replicas |-> [k \in Keys |-> NoEntry]],
         gen = [r \in Replicas |-> 0],
         completed = [r \in Replicas |-> [k \in Keys |-> 1]],
         read = [p \in Readers |-> Idle], write = [w \in Writers |-> Idle]
  PROVE  CacheInv(Ops, Rows)
<1>1. ASSUME NEW k \in Keys
      PROVE  rows[k] \in Seq(Rows) /\ Current(k) = 1
  <2>1. rows[k] \in {<<s>> : s \in Rows}
    OBVIOUS
  <2>2. PICK s \in Rows : rows[k] = <<s>>
    BY <2>1
  <2> QED
    BY <2>2 DEF Current
<1>2. rows \in [Keys -> Seq(Rows)]
  BY <1>1
<1>3. superseded \in [Keys -> Seq(Nat)] /\ \A k \in Keys : Len(superseded[k]) = 0
  OBVIOUS
<1>4. CacheTypeOK(Ops, Rows)
  BY <1>1, <1>2, <1>3 DEF CacheTypeOK, NoEntry
<1>5. \A r \in Replicas, k \in Keys : ResetOK(r, k) /\ EntryOK(r, k)
  BY <1>1 DEF ResetOK, EntryOK, NoEntry
<1>6. (\A p \in Readers : LookupOK(p)) /\ (\A w \in Writers : WriteOK(w))
  BY DEF LookupOK, WriteOK, Idle
<1> QED
  BY <1>4, <1>5, <1>6, Zenon DEF CacheInv

-----------------------------------------------------------------------------
CacheIInv == CacheInv({"any"}, States)

(* The entries, the lookups in flight and the writes not yet reset stay in *)
(* the relation that makes answers fresh, whatever the interleaving.       *)
THEOREM CacheInvariant == CacheSpec => []CacheIInv
<1>1. Init => CacheIInv
  BY CacheInit DEF Init, CacheIInv
<1>2. ASSUME CacheIInv, [CacheNext]_vars
      PROVE  CacheIInv'
  <2> USE DEF CacheIInv
  <2>1. CASE Tick
    BY <1>2, <2>1, TickKeeps
  <2>2. ASSUME NEW p \in Readers, NEW r \in Replicas, NEW k \in Keys, Begin(p, r, k)
        PROVE  CacheIInv'
    BY <1>2, <2>2, BeginKeeps
  <2>3. ASSUME NEW p \in Readers, CacheStep(p)
        PROVE  CacheIInv'
    <3>1. CASE LoadFails(p)
      BY <1>2, <3>1, DropKeeps, Zenon DEF LoadFails
    <3> QED
      BY <1>2, <2>3, <3>1, LookKeeps, LoadKeeps, StoreEntryKeeps DEF CacheStep
  <2>4. ASSUME NEW w \in Writers, NEW r \in Replicas, NEW k \in Keys, BeginWrite(w, r, k, "any")
        PROVE  CacheIInv'
    BY <1>2, <2>4, BeginWriteKeeps
  <2>5. ASSUME NEW w \in Writers, NEW s \in States, Commit(w, s)
        PROVE  CacheIInv'
    BY <1>2, <2>5, CommitKeeps
  <2>6. ASSUME NEW w \in Writers, CommitNothing(w) \/ Reset(w)
        PROVE  CacheIInv'
    BY <1>2, <2>6, CommitNothingKeeps, ResetKeeps
  <2>7. CASE UNCHANGED vars
    BY <1>2, <2>7, StutterKeeps
  <2> QED
    BY <1>2, <2>1, <2>2, <2>3, <2>4, <2>5, <2>6, <2>7 DEF CacheNext
<1> QED
  BY <1>1, <1>2, PTL DEF CacheSpec

-----------------------------------------------------------------------------
(* The refinement, step by step.  Seen through AskedView a lookup is open  *)
(* from Begin to the step that answers it, and only that step needs the    *)
(* invariant.                                                              *)
Asked == [p \in Readers |-> AskedView(read[p])]
Versions == [k \in Keys |-> Current(k)]
PromisedUntil(k, v) == IF v = Versions[k] THEN now ELSE superseded[k][v]

LEMMA AskedViews ==
  ASSUME NEW c \in {Idle} \cup Lookup
  PROVE  /\ c = Idle => AskedView(c) = Idle
         /\ c.phase \in {"begun", "missed", "loaded"} =>
              AskedView(c) = [phase |-> "open", rep |-> c.rep, key |-> c.key,
                              start |-> c.start, floor |-> c.floor]
         /\ c.phase = "answered" =>
              AskedView(c) = [phase |-> "answered", rep |-> c.rep, key |-> c.key,
                              start |-> c.start, floor |-> c.floor, ver |-> c.ver]
<1>1. CASE c = Idle
  BY <1>1 DEF AskedView, Idle
<1>2. CASE c \in Lookup
  BY <1>2 DEF AskedView, Idle, Lookup
<1> QED
  BY <1>1, <1>2

LEMMA AskedChange ==
  ASSUME NEW p \in Readers, \A q \in Readers \ {p} : read'[q] = read[q]
  PROVE  Asked' = [Asked EXCEPT ![p] = AskedView(read'[p])]
<1>1. Asked' = [q \in Readers |-> AskedView(read'[q])]
  BY DEF Asked
<1> QED
  BY <1>1, Zenon DEF Asked

LEMMA VersionsStay ==
  ASSUME UNCHANGED rows
  PROVE  Versions' = Versions
  BY DEF Versions, Current

(* A lookup whose view stays the same, and a write before it commits, are  *)
(* no step of the promise.                                                 *)
LEMMA StutterRefines ==
  ASSUME UNCHANGED <<now, rows, superseded, completed>>, Asked' = Asked
  PROVE  UNCHANGED Promise!vars
  BY VersionsStay DEF Promise!vars, Asked, Versions

LEMMA AnswerRefines ==
  ASSUME NEW p \in Readers, Asked[p].phase = "open", NEW v,
         v \in Asked[p].floor .. Versions[Asked[p].key],
         PromisedUntil(Asked[p].key, v) + TTL > Asked[p].start,
         Asked' = [Asked EXCEPT ![p] =
           [phase |-> "answered", rep |-> Asked[p].rep, key |-> Asked[p].key,
            start |-> Asked[p].start, floor |-> Asked[p].floor, ver |-> v]],
         UNCHANGED <<now, rows, superseded, completed>>
  PROVE  Promise!Next
<1>1. Promise!Answer(p)
  BY VersionsStay, Zenon DEF Promise!Answer, Promise!LastCurrent, Asked, Versions, PromisedUntil
<1> QED
  BY <1>1 DEF Promise!Next

LEMMA RefinementInit ==
  ASSUME now = 0, \A k \in Keys : Current(k) = 1,
         superseded = [k \in Keys |-> << >>],
         completed = [r \in Replicas |-> [k \in Keys |-> 1]],
         read = [p \in Readers |-> Idle]
  PROVE  Promise!Init
<1>1. Asked = [p \in Readers |-> Idle]
  BY DEF Asked, AskedView, Idle
<1> QED
  BY <1>1 DEF Promise!Init, Promise!Silent, Asked, Idle

LEMMA TickRefines ==
  ASSUME Tick
  PROVE  Promise!Next
<1>1. now' = now + 1 /\ UNCHANGED <<rows, superseded, completed, read>>
  BY DEF Tick
<1>2. Asked' = Asked /\ Versions' = Versions
  BY <1>1, VersionsStay DEF Asked
<1>3. Promise!Tick
  BY <1>1, <1>2 DEF Promise!Tick, Asked, Versions
<1> QED
  BY <1>3 DEF Promise!Next

LEMMA BeginRefines ==
  ASSUME NEW Ops, NEW Rows, CacheInv(Ops, Rows),
         NEW p \in Readers, NEW r \in Replicas, NEW k \in Keys, Begin(p, r, k)
  PROVE  Promise!Next
<1> DEFINE c == [phase |-> "begun", rep |-> r, key |-> k, start |-> now,
                 floor |-> completed[r][k], gen |-> 0, ver |-> 0]
           o == [phase |-> "open", rep |-> r, key |-> k, start |-> now, floor |-> completed[r][k]]
<1>1. /\ read[p].phase \in {"idle", "answered"} /\ read' = [read EXCEPT ![p] = c]
      /\ UNCHANGED <<now, rows, superseded, completed>>
  BY DEF Begin
<1>2. read \in [Readers -> {Idle} \cup Lookup] /\ c \in Lookup
  BY DEF CacheInv, CacheTypeOK, Lookup
<1>3. read'[p] = c /\ \A q \in Readers \ {p} : read'[q] = read[q]
  BY <1>1, <1>2
<1>4. AskedView(c) = o
  BY <1>2, AskedViews
<1>5. Asked' = [Asked EXCEPT ![p] = o]
  BY <1>3, <1>4, AskedChange
<1>6. Asked[p].phase # "open"
  <2>1. CASE read[p] = Idle
    BY <2>1, AskedViews DEF Asked, Idle
  <2>2. CASE read[p] \in Lookup
    BY <1>1, <2>2, AskedViews DEF Asked, Lookup
  <2> QED
    BY <1>2, <2>1, <2>2
<1>7. Promise!Ask(p, r, k)
  BY <1>1, <1>5, <1>6, VersionsStay DEF Promise!Ask, Asked, Versions
<1> QED
  BY <1>7 DEF Promise!Next

(* The lookup is open, and its answer meets the promise.                   *)
LEMMA AnsweredRefines ==
  ASSUME NEW Ops, NEW Rows, CacheInv(Ops, Rows), CacheInv(Ops, Rows)',
         NEW p \in Readers, read[p].phase \in {"begun", "missed", "loaded"},
         read'[p].phase = "answered", read'[p].rep = read[p].rep, read'[p].key = read[p].key,
         read'[p].start = read[p].start, read'[p].floor = read[p].floor,
         \A q \in Readers \ {p} : read'[q] = read[q],
         UNCHANGED <<now, rows, superseded, completed>>
  PROVE  Promise!Next
<1> DEFINE c == read[p]
           d == read'[p]
<1>1. c \in Lookup /\ d \in Lookup
  BY DEF CacheInv, CacheTypeOK, Idle
<1>2. /\ c.key \in Keys /\ c.start \in Nat /\ c.floor \in Nat /\ d.ver \in Nat
      /\ Current(c.key) \in Nat
  BY <1>1, StoreTyped DEF Lookup, CacheInv
<1>3. Asked[p] = [phase |-> "open", rep |-> c.rep, key |-> c.key, start |-> c.start, floor |-> c.floor]
  BY <1>1, AskedViews, Zenon DEF Asked
<1>4. AskedView(d) = [phase |-> "answered", rep |-> c.rep, key |-> c.key,
                      start |-> c.start, floor |-> c.floor, ver |-> d.ver]
  BY <1>1, AskedViews
<1>5. Asked' = [Asked EXCEPT ![p] = AskedView(d)]
  BY AskedChange
<1>6. LookupOK(p)'
  BY DEF CacheInv
<1>7. d.ver \in d.floor .. Current(c.key) /\ d.ver # 0 /\ d.start < Until(c.key, d.ver) + TTL
  BY <1>6 DEF LookupOK, Current, Until
<1>8. d.ver \in 1 .. Current(c.key)
  BY <1>2, <1>7
<1>9. Until(c.key, d.ver) \in Nat
  BY <1>2, <1>8, StoreTyped, Zenon DEF CacheInv
<1>10. Versions[c.key] = Current(c.key) /\ PromisedUntil(c.key, d.ver) = Until(c.key, d.ver)
  BY <1>2 DEF Versions, PromisedUntil, Until
<1>11. PromisedUntil(c.key, d.ver) + TTL > c.start
  BY <1>2, <1>7, <1>9, <1>10, TTLAssumption
<1>12. /\ Asked[p].phase = "open"
       /\ d.ver \in Asked[p].floor .. Versions[Asked[p].key]
       /\ PromisedUntil(Asked[p].key, d.ver) + TTL > Asked[p].start
  BY <1>3, <1>7, <1>10, <1>11
<1>13. Asked' = [Asked EXCEPT ![p] =
         [phase |-> "answered", rep |-> Asked[p].rep, key |-> Asked[p].key,
          start |-> Asked[p].start, floor |-> Asked[p].floor, ver |-> d.ver]]
  BY <1>3, <1>4, <1>5
<1> HIDE DEF c, d
<1> QED
  BY <1>12, <1>13, AnswerRefines, Zenon

LEMMA OpenStaysOpen ==
  ASSUME NEW Ops, NEW Rows, CacheInv(Ops, Rows), CacheInv(Ops, Rows)',
         NEW p \in Readers, read[p].phase \in {"begun", "missed", "loaded"},
         read'[p].phase \in {"begun", "missed", "loaded"},
         read'[p].rep = read[p].rep, read'[p].key = read[p].key,
         read'[p].start = read[p].start, read'[p].floor = read[p].floor,
         \A q \in Readers \ {p} : read'[q] = read[q],
         UNCHANGED <<now, rows, superseded, completed>>
  PROVE  UNCHANGED Promise!vars
<1>1. read[p] \in Lookup /\ read'[p] \in Lookup
  BY DEF CacheInv, CacheTypeOK, Idle
<1>2. AskedView(read'[p]) = AskedView(read[p])
  BY <1>1, AskedViews
<1>3. Asked' = [Asked EXCEPT ![p] = AskedView(read[p])]
  BY <1>2, AskedChange
<1>4. Asked' = Asked
  BY <1>3 DEF Asked
<1> QED
  BY <1>4, StutterRefines

(* A lookup ends without an answer, or its answer was used.                *)
LEMMA DropRefines ==
  ASSUME NEW Ops, NEW Rows, CacheInv(Ops, Rows), NEW p \in Readers, read[p].phase # "idle",
         read' = [read EXCEPT ![p] = Idle],
         UNCHANGED <<now, rows, superseded, completed>>
  PROVE  Promise!Next
<1>1. read \in [Readers -> {Idle} \cup Lookup] /\ read[p] \in Lookup
  BY DEF CacheInv, CacheTypeOK, Idle
<1>2. read'[p] = Idle /\ \A q \in Readers \ {p} : read'[q] = read[q]
  BY <1>1
<1>3. Asked' = [Asked EXCEPT ![p] = Idle]
  BY <1>2, AskedChange, AskedViews
<1>4. Asked[p].phase # "idle"
  BY <1>1, AskedViews DEF Asked, Lookup
<1>5. Promise!Forget(p)
  BY <1>3, <1>4, VersionsStay DEF Promise!Forget, Promise!Silent, Asked, Versions, Idle
<1> QED
  BY <1>5 DEF Promise!Next

LEMMA LookRefines ==
  ASSUME NEW Ops, NEW Rows, CacheInv(Ops, Rows), CacheInv(Ops, Rows)',
         NEW p \in Readers, Look(p)
  PROVE  Promise!Next \/ UNCHANGED Promise!vars
<1> DEFINE c == read[p]
           e == cache[c.rep][c.key]
<1>1. c.phase = "begun" /\ UNCHANGED <<now, rows, superseded, completed>>
  BY DEF Look
<1>2. c \in Lookup /\ read \in [Readers -> {Idle} \cup Lookup]
  BY <1>1 DEF CacheInv, CacheTypeOK, Idle
<1>3. \A q \in Readers \ {p} : read'[q] = read[q]
  BY <1>2 DEF Look
<1>4. CASE e.ver # 0 /\ c.start < e.exp
  <2>1. read'[p] = [c EXCEPT !.phase = "answered", !.ver = e.ver]
    BY <1>2, <1>4 DEF Look
  <2>2. /\ read'[p].phase = "answered" /\ read'[p].rep = c.rep /\ read'[p].key = c.key
        /\ read'[p].start = c.start /\ read'[p].floor = c.floor
    BY <1>2, <2>1 DEF Lookup
  <2> QED
    BY <1>1, <1>3, <2>2, AnsweredRefines
<1>5. CASE ~(e.ver # 0 /\ c.start < e.exp)
  <2>1. read'[p] = [c EXCEPT !.phase = "missed", !.gen = gen[c.rep]]
    BY <1>2, <1>5 DEF Look
  <2>2. /\ read'[p].phase = "missed" /\ read'[p].rep = c.rep /\ read'[p].key = c.key
        /\ read'[p].start = c.start /\ read'[p].floor = c.floor
    BY <1>2, <2>1 DEF Lookup
  <2> QED
    BY <1>1, <1>3, <2>2, OpenStaysOpen
<1> QED
  BY <1>4, <1>5

LEMMA LoadRefines ==
  ASSUME NEW Ops, NEW Rows, CacheInv(Ops, Rows), CacheInv(Ops, Rows)',
         NEW p \in Readers, Load(p)
  PROVE  UNCHANGED Promise!vars
<1> DEFINE c == read[p]
<1>1. /\ c.phase = "missed" /\ UNCHANGED <<now, rows, superseded, completed>>
      /\ c \in Lookup /\ read \in [Readers -> {Idle} \cup Lookup]
  BY DEF Load, CacheInv, CacheTypeOK, Idle
<1>2. /\ \A q \in Readers \ {p} : read'[q] = read[q]
      /\ read'[p] = [c EXCEPT !.phase = "loaded", !.ver = Current(c.key)]
  BY <1>1 DEF Load
<1>3. /\ read'[p].phase = "loaded" /\ read'[p].rep = c.rep /\ read'[p].key = c.key
      /\ read'[p].start = c.start /\ read'[p].floor = c.floor
  BY <1>1, <1>2 DEF Lookup
<1> QED
  BY <1>1, <1>2, <1>3, OpenStaysOpen, Zenon

LEMMA StoreEntryRefines ==
  ASSUME NEW Ops, NEW Rows, CacheInv(Ops, Rows), CacheInv(Ops, Rows)',
         NEW p \in Readers, StoreEntry(p)
  PROVE  Promise!Next
<1> DEFINE c == read[p]
<1>1. /\ c.phase = "loaded" /\ UNCHANGED <<now, rows, superseded, completed>>
      /\ c \in Lookup /\ read \in [Readers -> {Idle} \cup Lookup]
  BY DEF StoreEntry, CacheInv, CacheTypeOK, Idle
<1>2. /\ \A q \in Readers \ {p} : read'[q] = read[q]
      /\ read'[p] = [c EXCEPT !.phase = "answered"]
  BY <1>1 DEF StoreEntry
<1>3. /\ read'[p].phase = "answered" /\ read'[p].rep = c.rep /\ read'[p].key = c.key
      /\ read'[p].start = c.start /\ read'[p].floor = c.floor
  BY <1>1, <1>2 DEF Lookup
<1> QED
  BY <1>1, <1>2, <1>3, AnsweredRefines, Zenon

LEMMA CommitRefines ==
  ASSUME NEW Ops, NEW Rows, CacheInv(Ops, Rows), NEW w \in Writers, NEW s \in Rows,
         Commit(w, s)
  PROVE  Promise!Next
<1> DEFINE k == write[w].key
<1>1. /\ write[w].phase = "begun" /\ CacheTypeOK(Ops, Rows)
      /\ rows' = [rows EXCEPT ![k] = Append(@, s)]
      /\ superseded' = [superseded EXCEPT ![k] = Append(@, now)]
      /\ UNCHANGED <<now, completed, read>>
  BY DEF CacheInv, Commit
<1>2. k \in Keys
  BY <1>1, WriteTyped
<1> HIDE DEF k
<1>3. Versions' = [Versions EXCEPT ![k] = @ + 1]
  <2>1. rows \in [Keys -> Seq(Rows)] /\ rows[k] \in Seq(Rows)
    BY <1>1, <1>2 DEF CacheTypeOK
  <2>2. \A j \in Keys : Len(rows'[j]) = IF j = k THEN Len(rows[k]) + 1 ELSE Len(rows[j])
    BY <1>1, <1>2, <2>1
  <2>3. Versions' = [j \in Keys |-> Len(rows'[j])] /\ Versions = [j \in Keys |-> Len(rows[j])]
    BY DEF Versions, Current
  <2> QED
    BY <1>2, <2>2, <2>3
<1>4. Asked' = Asked
  BY <1>1 DEF Asked
<1>5. Promise!Write(k)
  BY <1>1, <1>3, <1>4 DEF Promise!Write, Versions, Asked
<1> QED
  BY <1>2, <1>5 DEF Promise!Next

LEMMA ResetRefines ==
  ASSUME NEW Ops, NEW Rows, CacheInv(Ops, Rows), NEW w \in Writers, Reset(w)
  PROVE  Promise!Next \/ UNCHANGED Promise!vars
<1> DEFINE c == write[w]
<1>1. /\ c.phase = "written" /\ WriteOK(w) /\ CacheTypeOK(Ops, Rows)
      /\ completed' = IF c.ver > completed[c.rep][c.key]
                        THEN [completed EXCEPT ![c.rep][c.key] = c.ver]
                        ELSE completed
      /\ UNCHANGED <<now, rows, superseded, read>>
  BY DEF CacheInv, Reset
<1>2. c.rep \in Replicas /\ c.key \in Keys /\ c.ver \in Nat
  BY <1>1, WriteTyped
<1>3. c.ver <= Current(c.key) /\ completed[c.rep][c.key] \in Nat /\ Current(c.key) \in Nat
  BY <1>1, <1>2, StoreTyped, Zenon DEF WriteOK, CacheTypeOK
<1>4. Asked' = Asked /\ Versions' = Versions /\ Versions[c.key] = Current(c.key)
  BY <1>1, <1>2, VersionsStay DEF Asked, Versions
<1> HIDE DEF c
<1>5. CASE c.ver > completed[c.rep][c.key]
  <2>1. c.ver \in completed[c.rep][c.key] .. Versions[c.key]
    BY <1>2, <1>3, <1>4, <1>5
  <2>2. completed' = [completed EXCEPT ![c.rep][c.key] = c.ver]
    BY <1>1, <1>5
  <2>3. Promise!Confirm(c.rep, c.key)
    BY <1>1, <1>4, <2>1, <2>2, Zenon DEF Promise!Confirm, Versions, Asked
  <2> QED
    BY <1>2, <2>3 DEF Promise!Next
<1>6. CASE ~(c.ver > completed[c.rep][c.key])
  BY <1>1, <1>4, <1>6, StutterRefines
<1> QED
  BY <1>5, <1>6

(* Every lookup of the Checker answers with a version that was current     *)
(* less than TTL before the call began, and never with one older than a    *)
(* write whose reset the same replica had already run (cached and its      *)
(* generation check, reset, and the writers' deferred resets).             *)
THEOREM CacheRefinesPromise == CacheSpec => AnswersAreFresh
<1>1. Init => Promise!Init
  <2> SUFFICES ASSUME Init PROVE Promise!Init
    OBVIOUS
  <2>1. \A k \in Keys : Current(k) = 1
    <3> SUFFICES ASSUME NEW k \in Keys PROVE Current(k) = 1
      OBVIOUS
    <3>1. rows[k] \in {<<s>> : s \in States}
      BY DEF Init
    <3>2. PICK s \in States : rows[k] = <<s>>
      BY <3>1
    <3> QED
      BY <3>2 DEF Current
  <2> QED
    BY <2>1, RefinementInit DEF Init
<1>2. ASSUME CacheIInv, CacheIInv', [CacheNext]_vars
      PROVE  Promise!Next \/ UNCHANGED Promise!vars
  <2> USE DEF CacheIInv
  <2>1. ASSUME NEW p \in Readers, CacheStep(p)
        PROVE  Promise!Next \/ UNCHANGED Promise!vars
    <3>1. CASE LoadFails(p)
      BY <1>2, <3>1, DropRefines, Zenon DEF LoadFails
    <3> QED
      BY <1>2, <2>1, <3>1, LookRefines, LoadRefines, StoreEntryRefines DEF CacheStep
  <2>2. CASE UNCHANGED vars \/ (\E w \in Writers, r \in Replicas, k \in Keys : BeginWrite(w, r, k, "any"))
             \/ (\E w \in Writers : CommitNothing(w))
    <3>1. UNCHANGED <<now, rows, superseded, completed, read>>
      BY <2>2, Zenon DEF vars, BeginWrite, CommitNothing
    <3> QED
      BY <3>1, StutterRefines DEF Asked
  <2> QED
    BY <1>2, <2>1, <2>2, TickRefines, BeginRefines, CommitRefines, ResetRefines DEF CacheNext
<1> QED
  BY <1>1, <1>2, CacheInvariant, PTL DEF CacheSpec, AnswersAreFresh, Promise!Spec
=============================================================================
