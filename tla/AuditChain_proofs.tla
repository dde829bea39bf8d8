-------------------------- MODULE AuditChain_proofs --------------------------
(***************************************************************************)
(* The audit trail, for any number of brokers, events, key versions and    *)
(* any queue: Emit answers truthfully in every world, and in the worlds    *)
(* TrailVerifies speaks of the stored objects form one signed chain, which *)
(* is what chainVerifier accepts.                                          *)
(***************************************************************************)
EXTENDS AuditChain, TLAPS

Phases == {"down", "locked", "keyed", "up", "closing", "cancelled"}
Heads == Events \cup {NoEvent}
Jobs == [pc : {"idle", "put", "check"}, ev : Heads, prior : Heads, tries : Nat, live : BOOLEAN]
Procs == [phase : Phases, ver : Nat, head : Heads, queue : Seq(Events), job : Jobs]
Objects == [id : Events, prior : Heads, ver : Nat]
CallStates ==
  {"new", "async", "queued", "dropped", "stored", "lost", "acked", "failed", "gone"}

(* i is the last object of s written into its latest date directory.       *)
Newest(s, i) ==
  \A j \in 1..Len(s) : Day[s[j].id] < Day[s[i].id] \/ (Day[s[j].id] = Day[s[i].id] /\ j <= i)

(* A store that holds anything has such an object: appending keeps it so.  *)
ChainTypeOK ==
  /\ lock \in Brokers \cup {NoBroker} /\ vault \in Nat
  /\ proc \in [Brokers -> Procs]
  /\ \A b \in Brokers : proc[b].job.pc # "idle" => proc[b].job.ev \in Events
  /\ call \in [Events -> [st : CallStates, at : Brokers \cup {NoBroker}]]
  /\ store \in Seq(Objects)
  /\ store # << >> => \E i \in 1..Len(store) : Newest(store, i)

-----------------------------------------------------------------------------
(* Operators on the store.                                                 *)
LEMMA Constants ==
  /\ Events \subseteq Nat /\ NoEvent \notin Events /\ NoEvent \in Heads /\ Heads \subseteq Nat
  /\ Day \in [Events -> Nat] /\ QueueCap \in Nat /\ NoBroker \notin Brokers
  BY AuditAssumption DEF NoEvent, Heads

Ids(s) == {o.id : o \in Range(s)}

LEMMA SeqIds ==
  ASSUME NEW s \in Seq(Objects)
  PROVE  /\ Len(s) \in Nat /\ DOMAIN s = 1..Len(s)
         /\ \A i \in 1..Len(s) : s[i].id \in Ids(s)
         /\ \A e \in Ids(s) : e \in Events /\ \E i \in 1..Len(s) : e = s[i].id
         /\ \A i \in 1..Len(s) : s[i] \in Objects /\ s[i].id \in Events
         /\ s # << >> => Len(s) > 0
<1>1. Len(s) \in Nat /\ DOMAIN s = 1..Len(s) /\ (s # << >> => Len(s) > 0)
  OBVIOUS
<1>2. \A i \in 1..Len(s) : s[i] \in Objects /\ s[i].id \in Events
  <2>1. \A i \in 1..Len(s) : s[i] \in Objects
    OBVIOUS
  <2> QED BY <2>1 DEF Objects
<1>3. Range(s) = {s[i] : i \in 1..Len(s)}
  BY <1>1 DEF Range
<1>4. \A i \in 1..Len(s) : s[i].id \in Ids(s)
  BY <1>3 DEF Ids
<1>5. \A e \in Ids(s) : \E i \in 1..Len(s) : e = s[i].id
  BY <1>3 DEF Ids
<1> QED BY <1>1, <1>2, <1>4, <1>5

LEMMA StoredIds ==
  ASSUME store \in Seq(Objects)
  PROVE  /\ Len(store) \in Nat /\ DOMAIN store = 1..Len(store)
         /\ \A i \in 1..Len(store) : store[i].id \in Stored
         /\ \A e \in Stored : e \in Events /\ \E i \in 1..Len(store) : e = store[i].id
         /\ \A i \in 1..Len(store) : store[i] \in Objects /\ store[i].id \in Events
         /\ store # << >> => Len(store) > 0
  BY SeqIds DEF Stored, Ids

(* An object appended to a store.                                          *)
LEMMA Appended ==
  ASSUME NEW s \in Seq(Objects), NEW o \in Objects
  PROVE  LET t == Append(s, o)
         IN  /\ t \in Seq(Objects) /\ t # << >> /\ Len(t) = Len(s) + 1 /\ t[Len(t)] = o
             /\ \A i \in 1..Len(s) : t[i] = s[i]
             /\ Ids(t) = Ids(s) \cup {o.id}
             /\ (s # << >> => \E i \in 1..Len(s) : Newest(s, i)) => \E i \in 1..Len(t) : Newest(t, i)
<1> DEFINE t == Append(s, o)
<1>1. /\ t \in Seq(Objects) /\ t # << >> /\ Len(t) = Len(s) + 1 /\ t[Len(t)] = o /\ Len(s) \in Nat
      /\ \A i \in 1..Len(s) : t[i] = s[i]
  OBVIOUS
<1>2. o.id \in Events
  BY DEF Objects
<1> HIDE DEF t
<1>3. Ids(t) = Ids(s) \cup {o.id}
  <2>1. ASSUME NEW e \in Ids(t) PROVE e \in Ids(s) \cup {o.id}
    <3>1. PICK i \in 1..Len(t) : e = t[i].id
      BY <1>1, SeqIds
    <3>2. CASE i = Len(t)
      BY <1>1, <3>1, <3>2
    <3>3. CASE i # Len(t)
      <4>1. i \in 1..Len(s)
        BY <1>1, <3>3
      <4> QED BY <1>1, <3>1, <4>1, SeqIds
    <3> QED BY <3>2, <3>3
  <2>2. ASSUME NEW e \in Ids(s) PROVE e \in Ids(t)
    <3>1. PICK i \in 1..Len(s) : e = s[i].id
      BY SeqIds
    <3>2. i \in 1..Len(t) /\ t[i] = s[i]
      BY <1>1
    <3> QED BY <1>1, <3>1, <3>2, SeqIds
  <2>3. o.id \in Ids(t)
    <3>1. Len(t) \in 1..Len(t)
      BY <1>1
    <3> QED BY <1>1, <3>1, SeqIds
  <2> QED BY <2>1, <2>2, <2>3
<1>4. ASSUME s # << >> => \E i \in 1..Len(s) : Newest(s, i)
      PROVE  \E i \in 1..Len(t) : Newest(t, i)
  <2> DEFINE n == Len(t)
             D(i) == Day[t[i].id]
  <2>1. n \in 1..n /\ \A i \in 1..n : D(i) \in Nat /\ (i # n => i \in 1..Len(s) /\ t[i] = s[i])
    BY <1>1, <1>2, SeqIds, Constants
  <2>2. CASE s = << >>
    <3>1. n = 1
      BY <1>1, <2>2
    <3> QED BY <2>1, <3>1 DEF Newest
  <2>3. CASE s # << >>
    <3>1. PICK k \in 1..Len(s) : Newest(s, k)
      BY <1>4, <2>3
    <3>2. k \in 1..n /\ t[k] = s[k] /\ k < n
      BY <1>1
    <3>3. \A j \in 1..n : j # n => D(j) < D(k) \/ (D(j) = D(k) /\ j <= k)
      BY <2>1, <3>1, <3>2 DEF Newest
    <3>4. CASE D(k) <= D(n)
      <4>1. \A j \in 1..n : D(j) < D(n) \/ (D(j) = D(n) /\ j <= n)
        BY <1>1, <2>1, <3>2, <3>3, <3>4
      <4> QED BY <2>1, <4>1, Zenon DEF Newest
    <3>5. CASE D(n) < D(k)
      BY <2>1, <3>2, <3>3, <3>5, Zenon DEF Newest
    <3> QED BY <2>1, <3>2, <3>4, <3>5
  <2> QED BY <2>2, <2>3
<1> QED BY <1>1, <1>3, <1>4 DEF t

(* newestUnder returns a stored event, in the latest directory.            *)
LEMMA NewestIsStored ==
  ASSUME ChainTypeOK, store # << >>
  PROVE  /\ NewestUnder \in Stored /\ NewestUnder \in Events
         /\ \A e \in Stored : Day[e] <= Day[NewestUnder]
<1>1. store \in Seq(Objects)
  BY DEF ChainTypeOK
<1>2. PICK k \in 1..Len(store) : Newest(store, k)
  BY DEF ChainTypeOK
<1> DEFINE top  == CHOOSE d \in {Day[e] : e \in Stored} : \A e \in Stored : Day[e] <= d
           at   == {i \in DOMAIN store : Day[store[i].id] = top}
           last == CHOOSE i \in at : \A j \in at : j <= i
<1>3. /\ store[k].id \in Stored
      /\ \A e \in Stored : Day[e] \in Nat /\ Day[e] <= Day[store[k].id]
  <2>1. store[k].id \in Stored /\ \A e \in Stored : Day[e] \in Nat
    BY <1>1, <1>2, StoredIds, Constants
  <2>2. ASSUME NEW e \in Stored PROVE Day[e] <= Day[store[k].id]
    <3>1. PICK j \in 1..Len(store) : e = store[j].id
      BY <1>1, StoredIds
    <3> QED BY <1>2, <2>1, <3>1 DEF Newest
  <2> QED BY <2>1, <2>2
<1>4. top = Day[store[k].id]
  <2>1. top \in {Day[e] : e \in Stored} /\ \A e \in Stored : Day[e] <= top
    BY <1>3, Zenon
  <2> HIDE DEF top
  <2> QED BY <1>3, <2>1
<1> HIDE DEF top
<1>5. k \in at /\ \A j \in at : j <= k /\ j \in Nat
  BY <1>1, <1>2, <1>4, StoredIds, Constants DEF Newest
<1>6. last = k
  <2> HIDE DEF at
  <2>1. last \in at /\ \A j \in at : j <= last
    BY <1>5, Zenon
  <2> HIDE DEF last
  <2> QED BY <1>5, <2>1
<1>7. NewestUnder = store[last].id
  BY DEF NewestUnder, top
<1> QED BY <1>1, <1>3, <1>6, <1>7, StoredIds, Zenon

(* A tail, if there is one, is one of the candidates.                      *)
LEMMA TailIsCandidate ==
  ASSUME NEW C, C \subseteq Objects
  PROVE  ChainTail(C) \in Heads
<1> DEFINE open == {c.id : c \in C} \ {c.prior : c \in C}
<1>1. open \subseteq Events
  BY DEF Objects
<1>2. ChainTail(C) = IF \E h \in open : open = {h} THEN CHOOSE h \in open : TRUE ELSE NoEvent
  BY DEF ChainTail
<1> HIDE DEF open
<1> QED BY <1>1, <1>2, Constants DEF Heads

LEMMA HeadType ==
  ASSUME ChainTypeOK, NEW n
  PROVE  ResumeHead(n) \in Heads
<1>1. store \in Seq(Objects)
  BY DEF ChainTypeOK
<1>2. ResumeTail(n) \in Heads
  <2> DEFINE at == {i \in DOMAIN store : Day[store[i].id] \in {Day[NewestUnder], Day[NewestUnder] - 1}}
             C == {store[i] : i \in {i \in at : i >= n \/ \A j \in at : j <= i}}
  <2>1. C \subseteq Objects
    BY <1>1, StoredIds, Zenon
  <2>2. ResumeTail(n) = ChainTail(C)
    BY DEF ResumeTail
  <2> HIDE DEF C
  <2> QED BY <2>1, <2>2, TailIsCandidate
<1> QED BY <1>2, NewestIsStored, Constants DEF ResumeHead, Heads

-----------------------------------------------------------------------------
(* What each action makes of the record of the broker that takes it.       *)
Broker(ph, v, h, q, j) == [phase |-> ph, ver |-> v, head |-> h, queue |-> q, job |-> j]
Job(pc, ev, prior, tries, live) ==
  [pc |-> pc, ev |-> ev, prior |-> prior, tries |-> tries, live |-> live]

LEMMA BrokerFields ==
  ASSUME NEW p \in Procs
  PROVE  /\ p.phase \in Phases /\ p.ver \in Nat /\ p.head \in Heads /\ p.queue \in Seq(Events)
         /\ p.job \in Jobs /\ p.job.pc \in {"idle", "put", "check"} /\ p.job.ev \in Heads
         /\ p.job.prior \in Heads /\ p.job.tries \in Nat /\ p.job.live \in BOOLEAN
  BY DEF Procs, Jobs

(* The record of b after a step, and that no other changed.                *)
Becomes(b, ph, v, h, q, j) ==
  /\ proc'[b].phase = ph /\ proc'[b].ver = v /\ proc'[b].head = h /\ proc'[b].queue = q
  /\ proc'[b].job = j
  /\ \A c \in Brokers \ {b} : proc'[c] = proc[c]

LEMMA BrokerIs ==
  ASSUME NEW ph \in Phases, NEW v \in Nat, NEW h \in Heads, NEW q \in Seq(Events), NEW j \in Jobs
  PROVE  LET r == Broker(ph, v, h, q, j)
         IN  /\ r \in Procs
             /\ r.phase = ph /\ r.ver = v /\ r.head = h /\ r.queue = q /\ r.job = j
  BY DEF Procs, Broker

(* The EXCEPT forms of the actions, written out.                           *)
LEMMA FieldSet ==
  ASSUME NEW p \in Procs, NEW x
  PROVE  /\ [p EXCEPT !.phase = x] = Broker(x, p.ver, p.head, p.queue, p.job)
         /\ [p EXCEPT !.head = x] = Broker(p.phase, p.ver, x, p.queue, p.job)
         /\ [p EXCEPT !.queue = x] = Broker(p.phase, p.ver, p.head, x, p.job)
         /\ [p EXCEPT !.job = x] = Broker(p.phase, p.ver, p.head, p.queue, x)
<1>1. [p EXCEPT !.phase = x] = Broker(x, p.ver, p.head, p.queue, p.job)
  BY DEF Procs, Broker
<1>2. [p EXCEPT !.head = x] = Broker(p.phase, p.ver, x, p.queue, p.job)
  BY DEF Procs, Broker
<1>3. [p EXCEPT !.queue = x] = Broker(p.phase, p.ver, p.head, x, p.job)
  BY DEF Procs, Broker
<1>4. [p EXCEPT !.job = x] = Broker(p.phase, p.ver, p.head, p.queue, x)
  BY DEF Procs, Broker
<1> QED BY <1>1, <1>2, <1>3, <1>4

LEMMA PhaseAndField ==
  ASSUME NEW p \in Procs, NEW x, NEW y
  PROVE  /\ [p EXCEPT !.phase = x, !.ver = y] = Broker(x, y, p.head, p.queue, p.job)
         /\ [p EXCEPT !.phase = x, !.head = y] = Broker(x, p.ver, y, p.queue, p.job)
<1> DEFINE q == Broker(x, p.ver, p.head, p.queue, p.job)
<1>1. [q EXCEPT !.ver = y] = Broker(x, y, p.head, p.queue, p.job)
  BY DEF Broker
<1>2. [q EXCEPT !.head = y] = Broker(x, p.ver, y, p.queue, p.job)
  BY DEF Broker
<1>3. /\ [p EXCEPT !.phase = x, !.ver = y] = [[p EXCEPT !.phase = x] EXCEPT !.ver = y]
      /\ [p EXCEPT !.phase = x, !.head = y] = [[p EXCEPT !.phase = x] EXCEPT !.head = y]
  OBVIOUS
<1> QED BY <1>1, <1>2, <1>3, FieldSet, Zenon

LEMMA QueueAndJob ==
  ASSUME NEW p \in Procs, NEW x, NEW y
  PROVE  [p EXCEPT !.queue = x, !.job = y] = Broker(p.phase, p.ver, p.head, x, y)
<1>1. [Broker(p.phase, p.ver, p.head, x, p.job) EXCEPT !.job = y] = Broker(p.phase, p.ver, p.head, x, y)
  BY DEF Broker
<1>2. [p EXCEPT !.queue = x, !.job = y] = [[p EXCEPT !.queue = x] EXCEPT !.job = y]
  OBVIOUS
<1> QED BY <1>1, <1>2, FieldSet, Zenon

LEMMA HeadAndJob ==
  ASSUME NEW p \in Procs, NEW x, NEW y
  PROVE  [p EXCEPT !.head = x, !.job = y] = Broker(p.phase, p.ver, x, p.queue, y)
<1>1. [Broker(p.phase, p.ver, x, p.queue, p.job) EXCEPT !.job = y] = Broker(p.phase, p.ver, x, p.queue, y)
  BY DEF Broker
<1>2. [p EXCEPT !.head = x, !.job = y] = [[p EXCEPT !.head = x] EXCEPT !.job = y]
  OBVIOUS
<1> QED BY <1>1, <1>2, FieldSet, Zenon

LEMMA PhaseSet ==
  ASSUME proc \in [Brokers -> Procs], NEW b \in Brokers, NEW x \in Phases,
         proc' = [proc EXCEPT ![b].phase = x]
  PROVE  /\ proc' \in [Brokers -> Procs]
         /\ Becomes(b, x, proc[b].ver, proc[b].head, proc[b].queue, proc[b].job)
<1> DEFINE p == proc[b]
           r == [p EXCEPT !.phase = x]
<1>1. p \in Procs
  OBVIOUS
<1>2. proc' = [proc EXCEPT ![b] = r]
  OBVIOUS
<1>3. r = Broker(x, p.ver, p.head, p.queue, p.job)
  <2> HIDE DEF p
  <2> QED BY <1>1, FieldSet, Zenon
<1>4. p.phase \in Phases /\ p.ver \in Nat /\ p.head \in Heads /\ p.queue \in Seq(Events) /\ p.job \in Jobs
  BY <1>1, BrokerFields
<1> HIDE DEF r
<1>5. /\ r \in Procs
      /\ r.phase = x /\ r.ver = p.ver /\ r.head = p.head /\ r.queue = p.queue /\ r.job = p.job
  BY <1>3, <1>4, BrokerIs
<1> QED BY <1>2, <1>5 DEF Becomes

LEMMA PhaseAndVersionSet ==
  ASSUME proc \in [Brokers -> Procs], NEW b \in Brokers, NEW x \in Phases, NEW y \in Nat,
         proc' = [proc EXCEPT ![b].phase = x, ![b].ver = y]
  PROVE  /\ proc' \in [Brokers -> Procs]
         /\ Becomes(b, x, y, proc[b].head, proc[b].queue, proc[b].job)
<1> DEFINE p == proc[b]
           r == [p EXCEPT !.phase = x, !.ver = y]
<1>1. p \in Procs
  OBVIOUS
<1>2. proc' = [proc EXCEPT ![b] = r]
  BY Zenon
<1>3. r = Broker(x, y, p.head, p.queue, p.job)
  <2> HIDE DEF p
  <2> QED BY <1>1, PhaseAndField, Zenon
<1>4. p.phase \in Phases /\ p.ver \in Nat /\ p.head \in Heads /\ p.queue \in Seq(Events) /\ p.job \in Jobs
  BY <1>1, BrokerFields
<1> HIDE DEF r
<1>5. /\ r \in Procs
      /\ r.phase = x /\ r.ver = y /\ r.head = p.head /\ r.queue = p.queue /\ r.job = p.job
  BY <1>3, <1>4, BrokerIs
<1> QED BY <1>2, <1>5, Zenon DEF Becomes

LEMMA PhaseAndHeadSet ==
  ASSUME proc \in [Brokers -> Procs], NEW b \in Brokers, NEW x \in Phases, NEW y \in Heads,
         proc' = [proc EXCEPT ![b].phase = x, ![b].head = y]
  PROVE  /\ proc' \in [Brokers -> Procs]
         /\ Becomes(b, x, proc[b].ver, y, proc[b].queue, proc[b].job)
<1> DEFINE p == proc[b]
           r == [p EXCEPT !.phase = x, !.head = y]
<1>1. p \in Procs
  OBVIOUS
<1>2. proc' = [proc EXCEPT ![b] = r]
  BY Zenon
<1>3. r = Broker(x, p.ver, y, p.queue, p.job)
  <2> HIDE DEF p
  <2> QED BY <1>1, PhaseAndField, Zenon
<1>4. p.phase \in Phases /\ p.ver \in Nat /\ p.head \in Heads /\ p.queue \in Seq(Events) /\ p.job \in Jobs
  BY <1>1, BrokerFields
<1> HIDE DEF r
<1>5. /\ r \in Procs
      /\ r.phase = x /\ r.ver = p.ver /\ r.head = y /\ r.queue = p.queue /\ r.job = p.job
  BY <1>3, <1>4, BrokerIs
<1> QED BY <1>2, <1>5, Zenon DEF Becomes

LEMMA QueueSet ==
  ASSUME proc \in [Brokers -> Procs], NEW b \in Brokers, NEW x \in Seq(Events),
         proc' = [proc EXCEPT ![b].queue = x]
  PROVE  /\ proc' \in [Brokers -> Procs]
         /\ Becomes(b, proc[b].phase, proc[b].ver, proc[b].head, x, proc[b].job)
<1> DEFINE p == proc[b]
           r == [p EXCEPT !.queue = x]
<1>1. p \in Procs
  OBVIOUS
<1>2. proc' = [proc EXCEPT ![b] = r]
  OBVIOUS
<1>3. r = Broker(p.phase, p.ver, p.head, x, p.job)
  <2> HIDE DEF p
  <2> QED BY <1>1, FieldSet, Zenon
<1>4. p.phase \in Phases /\ p.ver \in Nat /\ p.head \in Heads /\ p.queue \in Seq(Events) /\ p.job \in Jobs
  BY <1>1, BrokerFields
<1> HIDE DEF r
<1>5. /\ r \in Procs
      /\ r.phase = p.phase /\ r.ver = p.ver /\ r.head = p.head /\ r.queue = x /\ r.job = p.job
  BY <1>3, <1>4, BrokerIs
<1> QED BY <1>2, <1>5 DEF Becomes

LEMMA QueueAndJobSet ==
  ASSUME proc \in [Brokers -> Procs], NEW b \in Brokers, NEW x \in Seq(Events), NEW y \in Jobs,
         proc' = [proc EXCEPT ![b].queue = x, ![b].job = y]
  PROVE  /\ proc' \in [Brokers -> Procs]
         /\ Becomes(b, proc[b].phase, proc[b].ver, proc[b].head, x, y)
<1> DEFINE p == proc[b]
           r == [p EXCEPT !.queue = x, !.job = y]
<1>1. p \in Procs
  OBVIOUS
<1>2. proc' = [proc EXCEPT ![b] = r]
  BY Zenon
<1>3. r = Broker(p.phase, p.ver, p.head, x, y)
  <2> HIDE DEF p
  <2> QED BY <1>1, QueueAndJob, Zenon
<1>4. p.phase \in Phases /\ p.ver \in Nat /\ p.head \in Heads /\ p.queue \in Seq(Events) /\ p.job \in Jobs
  BY <1>1, BrokerFields
<1> HIDE DEF r
<1>5. /\ r \in Procs
      /\ r.phase = p.phase /\ r.ver = p.ver /\ r.head = p.head /\ r.queue = x /\ r.job = y
  BY <1>3, <1>4, BrokerIs
<1> QED BY <1>2, <1>5, Zenon DEF Becomes

LEMMA HeadAndJobSet ==
  ASSUME proc \in [Brokers -> Procs], NEW b \in Brokers, NEW x \in Heads, NEW y \in Jobs,
         proc' = [proc EXCEPT ![b].head = x, ![b].job = y]
  PROVE  /\ proc' \in [Brokers -> Procs]
         /\ Becomes(b, proc[b].phase, proc[b].ver, x, proc[b].queue, y)
<1> DEFINE p == proc[b]
           r == [p EXCEPT !.head = x, !.job = y]
<1>1. p \in Procs
  OBVIOUS
<1>2. proc' = [proc EXCEPT ![b] = r]
  BY Zenon
<1>3. r = Broker(p.phase, p.ver, x, p.queue, y)
  <2> HIDE DEF p
  <2> QED BY <1>1, HeadAndJob, Zenon
<1>4. p.phase \in Phases /\ p.ver \in Nat /\ p.head \in Heads /\ p.queue \in Seq(Events) /\ p.job \in Jobs
  BY <1>1, BrokerFields
<1> HIDE DEF r
<1>5. /\ r \in Procs
      /\ r.phase = p.phase /\ r.ver = p.ver /\ r.head = x /\ r.queue = p.queue /\ r.job = y
  BY <1>3, <1>4, BrokerIs
<1> QED BY <1>2, <1>5, Zenon DEF Becomes

LEMMA JobSet ==
  ASSUME proc \in [Brokers -> Procs], NEW b \in Brokers, NEW x \in Jobs,
         proc' = [proc EXCEPT ![b].job = x]
  PROVE  /\ proc' \in [Brokers -> Procs]
         /\ Becomes(b, proc[b].phase, proc[b].ver, proc[b].head, proc[b].queue, x)
<1> DEFINE p == proc[b]
           r == [p EXCEPT !.job = x]
<1>1. p \in Procs
  OBVIOUS
<1>2. proc' = [proc EXCEPT ![b] = r]
  OBVIOUS
<1>3. r = Broker(p.phase, p.ver, p.head, p.queue, x)
  <2> HIDE DEF p
  <2> QED BY <1>1, FieldSet, Zenon
<1>4. p.phase \in Phases /\ p.ver \in Nat /\ p.head \in Heads /\ p.queue \in Seq(Events) /\ p.job \in Jobs
  BY <1>1, BrokerFields
<1> HIDE DEF r
<1>5. /\ r \in Procs
      /\ r.phase = p.phase /\ r.ver = p.ver /\ r.head = p.head /\ r.queue = p.queue /\ r.job = x
  BY <1>3, <1>4, BrokerIs
<1> QED BY <1>2, <1>5 DEF Becomes

-----------------------------------------------------------------------------
(* What the callers are told.                                              *)

(* Broker record p has event e in its queue or in its worker's hands.      *)
Holds(p, e) ==
  (\E i \in 1..Len(p.queue) : p.queue[i] = e) \/ (p.job.pc # "idle" /\ p.job.ev = e)

(* The answers, and where an event may be that was not yet emitted or was  *)
(* dropped: nowhere.                                                       *)
AnswerInv ==
  \A e \in Events :
    /\ call[e].st \in {"stored", "acked"} => e \in Stored
    /\ call[e].st \in {"new", "dropped"} => e \notin Stored /\ \A b \in Brokers : ~Holds(proc[b], e)

(* What a step must do for the answers to stay true.                       *)
Truthful ==
  \A e \in Events :
    /\ e \in Stored => e \in Stored'
    /\ call'[e].st \in {"stored", "acked"} => call[e].st \in {"stored", "acked"} \/ e \in Stored'
    /\ call'[e].st \in {"new", "dropped"} =>
         /\ call[e].st \in {"new", "dropped"}
         /\ e \in Stored' => e \in Stored \/ \E b \in Brokers : Holds(proc[b], e)
         /\ \A b \in Brokers : Holds(proc'[b], e) => Holds(proc[b], e)

LEMMA AnswersStayTrue ==
  ASSUME AnswerInv, Truthful
  PROVE  AnswerInv'
  BY Zenon DEF AnswerInv, Truthful

LEMMA CallFields ==
  ASSUME ChainTypeOK, NEW e \in Events
  PROVE  call[e].st \in CallStates /\ call[e].at \in Brokers \cup {NoBroker}
  BY DEF ChainTypeOK

(* A call that is answered.                                                *)
LEMMA CallAnswered ==
  ASSUME ChainTypeOK, NEW e \in Events, NEW st \in CallStates
  PROVE  /\ [call EXCEPT ![e] = Over(st)] \in [Events -> [st : CallStates, at : Brokers \cup {NoBroker}]]
         /\ [call EXCEPT ![e] = Over(st)][e].st = st
         /\ Answer(e, st) \in [Events -> [st : CallStates, at : Brokers \cup {NoBroker}]]
         /\ Answer(e, st)[e].st = IF call[e].st = "queued" THEN st ELSE call[e].st
         /\ \A d \in Events \ {e} : [call EXCEPT ![e] = Over(st)][d] = call[d] /\ Answer(e, st)[d] = call[d]
<1> DEFINE C == [st : CallStates, at : Brokers \cup {NoBroker}]
<1>1. call \in [Events -> C]
  BY DEF ChainTypeOK
<1>2. Over(st) \in C /\ Over(st).st = st
  BY DEF Over
<1>3. [call[e] EXCEPT !.st = st] \in C /\ [call[e] EXCEPT !.st = st].st = st
  BY <1>1
<1>4. [call EXCEPT ![e].st = st] = [call EXCEPT ![e] = [call[e] EXCEPT !.st = st]]
  BY <1>1
<1> HIDE DEF C
<1> QED BY <1>1, <1>2, <1>3, <1>4 DEF Answer, C

(* A step that leaves the store and every call as they are.                *)
LEMMA QuietStep ==
  ASSUME ChainTypeOK, UNCHANGED <<call, store>>,
         \A e \in Events, b \in Brokers : Holds(proc'[b], e) => Holds(proc[b], e)
  PROVE  Truthful
  BY DEF Truthful, Stored

LEMMA OwnFields ==
  ASSUME ChainTypeOK, NEW b \in Brokers
  PROVE  LET p == proc[b]
         IN  /\ p.phase \in Phases /\ p.ver \in Nat /\ p.head \in Heads /\ p.queue \in Seq(Events)
             /\ p.job \in Jobs /\ p.job.pc \in {"idle", "put", "check"} /\ p.job.ev \in Heads
             /\ p.job.prior \in Heads /\ p.job.tries \in Nat /\ p.job.live \in BOOLEAN
             /\ (p.job.pc # "idle" => p.job.ev \in Events)
             /\ proc \in [Brokers -> Procs]
<1>1. proc[b] \in Procs
  BY DEF ChainTypeOK
<1> QED BY <1>1, BrokerFields DEF ChainTypeOK

(* Phase, version and head change; queue, worker, calls and store do not.  *)
LEMMA PhaseEffect ==
  ASSUME ChainTypeOK, NEW b \in Brokers, NEW ph \in Phases, NEW v \in Nat, NEW h \in Heads,
         lock' \in Brokers \cup {NoBroker}, vault' \in Nat, UNCHANGED <<call, store>>,
         proc' \in [Brokers -> Procs], Becomes(b, ph, v, h, proc[b].queue, proc[b].job)
  PROVE  ChainTypeOK' /\ Truthful
<1>1. \A e \in Events, c \in Brokers : Holds(proc'[c], e) => Holds(proc[c], e)
  BY DEF Holds, Becomes
<1>2. \A c \in Brokers : proc'[c].job.pc # "idle" => proc'[c].job.ev \in Events
  BY DEF Becomes, ChainTypeOK
<1>3. ChainTypeOK'
  BY <1>2 DEF ChainTypeOK
<1> QED BY <1>1, <1>3, QuietStep

LEMMA DownIs == Down = Broker("down", 0, NoEvent, << >>, NoJob) /\ NoJob \in Jobs /\ NoJob.pc = "idle"
  BY Constants DEF Down, Broker, NoJob, Jobs

LEMMA DownFields ==
  /\ Down \in Procs /\ Down.phase = "down" /\ Down.ver = 0 /\ Down.head = NoEvent
  /\ Down.queue = << >> /\ Down.job = NoJob
<1> DEFINE r == Broker("down", 0, NoEvent, << >>, NoJob)
<1>1. "down" \in Phases /\ 0 \in Nat /\ NoEvent \in Heads /\ << >> \in Seq(Events) /\ NoJob \in Jobs
  BY DownIs, Constants DEF Phases
<1>2. /\ r \in Procs /\ r.phase = "down" /\ r.ver = 0 /\ r.head = NoEvent /\ r.queue = << >>
      /\ r.job = NoJob
  BY <1>1, Zenon DEF Procs, Broker
<1>3. Down = r
  BY DownIs
<1> HIDE DEF r
<1> QED BY <1>2, <1>3

LEMMA ExitEffect ==
  ASSUME ChainTypeOK, NEW b \in Brokers, Exit(b)
  PROVE  ChainTypeOK' /\ Truthful /\ Becomes(b, "down", 0, NoEvent, << >>, NoJob)
<1> DEFINE C == [st : CallStates, at : Brokers \cup {NoBroker}]
<1>1. proc' \in [Brokers -> Procs] /\ Becomes(b, "down", 0, NoEvent, << >>, NoJob)
  <2>1. proc \in [Brokers -> Procs] /\ proc' = [proc EXCEPT ![b] = Down]
    BY OwnFields DEF Exit
  <2> QED BY <2>1, DownFields DEF Becomes
<1>2. Over("gone") \in C /\ Over("gone").st = "gone"
  BY DEF Over, CallStates
<1>3. call \in [Events -> C] /\ UNCHANGED <<vault, store>>
  BY DEF ChainTypeOK, Exit
<1>4. call' \in [Events -> C] /\ \A e \in Events : call'[e] = call[e] \/ call'[e].st = "gone"
  <2> HIDE DEF C
  <2> QED BY <1>2, <1>3 DEF Exit
<1>5. lock' \in Brokers \cup {NoBroker}
  BY DEF ChainTypeOK, Exit
<1>6. \A c \in Brokers : proc'[c].job.pc # "idle" => proc'[c].job.ev \in Events
  BY <1>1, DownIs DEF Becomes, ChainTypeOK
<1>7. ChainTypeOK'
  BY <1>1, <1>3, <1>4, <1>5, <1>6 DEF ChainTypeOK
<1>8. \A e \in Events, c \in Brokers : Holds(proc'[c], e) => Holds(proc[c], e)
  <2>1. \A e \in Events : ~Holds(proc'[b], e)
    BY <1>1, DownIs DEF Becomes, Holds
  <2>2. \A c \in Brokers \ {b} : proc'[c] = proc[c]
    BY <1>1 DEF Becomes
  <2> QED BY <2>1, <2>2
<1>9. Stored' = Stored
  BY <1>3 DEF Stored
<1>10. Truthful
  BY <1>4, <1>8, <1>9 DEF Truthful
<1> QED BY <1>1, <1>7, <1>10

LEMMA EnqueueEffect ==
  ASSUME ChainTypeOK, NEW b \in Brokers, NEW e \in Events, EmitEnqueue(b, e)
  PROVE  /\ ChainTypeOK' /\ Truthful
         /\ Becomes(b, proc[b].phase, proc[b].ver, proc[b].head, Append(proc[b].queue, e), proc[b].job)
<1> DEFINE p == proc[b]
           q == Append(p.queue, e)
           C == [st : CallStates, at : Brokers \cup {NoBroker}]
           a == IF e \in Async THEN Over("async") ELSE [st |-> "queued", at |-> b]
<1>1. /\ p.queue \in Seq(Events) /\ Len(p.queue) \in Nat
      /\ q \in Seq(Events) /\ Len(q) = Len(p.queue) + 1 /\ q[Len(q)] = e
      /\ \A i \in 1..Len(p.queue) : q[i] = p.queue[i]
  BY OwnFields
<1>2. proc \in [Brokers -> Procs] /\ proc' = [proc EXCEPT ![b].queue = q]
  BY OwnFields DEF EmitEnqueue
<1>3. proc' \in [Brokers -> Procs] /\ Becomes(b, p.phase, p.ver, p.head, q, p.job)
  <2> HIDE DEF q
  <2> QED BY <1>1, <1>2, QueueSet, Zenon
<1>4. a \in C /\ a.st \in {"async", "queued"}
  BY DEF Over, CallStates
<1>5. call \in [Events -> C] /\ UNCHANGED <<lock, vault, store>> /\ call' = [call EXCEPT ![e] = a]
  BY DEF ChainTypeOK, EmitEnqueue
<1>6. call' \in [Events -> C] /\ call'[e] = a /\ \A d \in Events \ {e} : call'[d] = call[d]
  <2> HIDE DEF C, a
  <2> QED BY <1>4, <1>5
<1>7. \A c \in Brokers : proc'[c].job.pc # "idle" => proc'[c].job.ev \in Events
  BY <1>3 DEF Becomes, ChainTypeOK
<1>8. ChainTypeOK'
  BY <1>3, <1>5, <1>6, <1>7 DEF ChainTypeOK
<1>9. \A d \in Events \ {e}, c \in Brokers : Holds(proc'[c], d) => Holds(proc[c], d)
  <2> HIDE DEF q
  <2>1. ASSUME NEW d \in Events \ {e}, Holds(proc'[b], d) PROVE Holds(proc[b], d)
    <3>1. CASE \E i \in 1..Len(q) : q[i] = d
      <4>1. PICK i \in 1..Len(q) : q[i] = d
        BY <3>1
      <4>2. i \in 1..Len(p.queue)
        BY <1>1, <4>1
      <4> QED BY <1>1, <4>1, <4>2 DEF Holds
    <3>2. CASE p.job.pc # "idle" /\ p.job.ev = d
      BY <3>2 DEF Holds
    <3> QED BY <1>3, <2>1, <3>1, <3>2 DEF Holds, Becomes
  <2> QED BY <1>3, <2>1 DEF Becomes
<1>10. Stored' = Stored
  BY <1>5 DEF Stored
<1>11. Truthful
  <2> HIDE DEF a
  <2> QED BY <1>4, <1>6, <1>9, <1>10 DEF Truthful
<1> QED BY <1>3, <1>8, <1>11

LEMMA TakeEffect ==
  ASSUME ChainTypeOK, NEW b \in Brokers, WorkerTake(b)
  PROVE  LET p == proc[b]
         IN  /\ ChainTypeOK' /\ Truthful
             /\ Becomes(b, p.phase, p.ver, p.head, Tail(p.queue),
                        Job("put", Head(p.queue), p.head, 0, ~Cancelled(b)))
             /\ p.queue \in Seq(Events) /\ Len(p.queue) \in Nat \ {0} /\ Head(p.queue) = p.queue[1]
             /\ Tail(p.queue) \in Seq(Events) /\ Len(Tail(p.queue)) = Len(p.queue) - 1
             /\ \A i \in 1..Len(Tail(p.queue)) : Tail(p.queue)[i] = p.queue[i + 1]
<1> DEFINE p == proc[b]
           q == Tail(p.queue)
           j == Job("put", Head(p.queue), p.head, 0, ~Cancelled(b))
<1>1. /\ p.queue \in Seq(Events) /\ Len(p.queue) \in Nat \ {0} /\ Head(p.queue) = p.queue[1]
      /\ Head(p.queue) \in Events /\ q \in Seq(Events) /\ Len(q) = Len(p.queue) - 1
      /\ \A i \in 1..Len(q) : q[i] = p.queue[i + 1]
  <2>1. p.queue \in Seq(Events) /\ p.queue # << >>
    BY OwnFields DEF WorkerTake
  <2> QED BY <2>1
<1>2. j \in Jobs /\ j.pc = "put" /\ j.ev = Head(p.queue)
  <2>1. (~Cancelled(b)) \in BOOLEAN
    BY DEF Cancelled
  <2>2. Head(p.queue) \in Heads /\ p.head \in Heads
    BY <1>1, OwnFields DEF Heads
  <2> HIDE DEF p
  <2> QED BY <2>1, <2>2, Zenon DEF Jobs, Job
<1>3. proc' = [proc EXCEPT ![b].queue = Tail(@), ![b].job = j]
  BY DEF WorkerTake, Job
<1> HIDE DEF j
<1>4. proc \in [Brokers -> Procs] /\ proc' = [proc EXCEPT ![b].queue = q, ![b].job = j]
  BY <1>3, OwnFields
<1>5. proc' \in [Brokers -> Procs] /\ Becomes(b, p.phase, p.ver, p.head, q, j)
  <2> HIDE DEF q
  <2> QED BY <1>1, <1>2, <1>4, QueueAndJobSet, Zenon
<1>6. UNCHANGED <<lock, vault, call, store>>
  BY DEF WorkerTake
<1>7. \A c \in Brokers : proc'[c].job.pc # "idle" => proc'[c].job.ev \in Events
  BY <1>1, <1>2, <1>5 DEF Becomes, ChainTypeOK
<1>8. ChainTypeOK'
  BY <1>5, <1>6, <1>7 DEF ChainTypeOK
<1>9. \A e \in Events, c \in Brokers : Holds(proc'[c], e) => Holds(proc[c], e)
  <2> HIDE DEF q
  <2>1. ASSUME NEW e \in Events, Holds(proc'[b], e) PROVE \E i \in 1..Len(p.queue) : p.queue[i] = e
    <3>1. CASE \E i \in 1..Len(q) : q[i] = e
      <4>1. PICK i \in 1..Len(q) : q[i] = e
        BY <3>1
      <4>2. i + 1 \in 1..Len(p.queue) /\ p.queue[i + 1] = e
        BY <1>1, <4>1
      <4> QED BY <4>2
    <3>2. CASE Head(p.queue) = e
      <4>1. 1 \in 1..Len(p.queue)
        BY <1>1
      <4> QED BY <1>1, <3>2, <4>1
    <3> QED BY <1>2, <1>5, <2>1, <3>1, <3>2 DEF Holds, Becomes
  <2> QED BY <1>5, <2>1 DEF Becomes, Holds
<1> QED BY <1>1, <1>5, <1>6, <1>8, <1>9, QuietStep DEF j

(* What the worker writes: nothing new, or one object at the end.          *)
LEMMA WriteEffect ==
  ASSUME ChainTypeOK, NEW b \in Brokers, proc[b].job.pc # "idle", store' = Write(b)
  PROVE  LET j == proc[b].job
             o == [id |-> j.ev, prior |-> j.prior, ver |-> proc[b].ver]
         IN  /\ store' \in Seq(Objects) /\ Stored' = Stored \cup {j.ev}
             /\ store' # << >> => (\E i \in 1..Len(store) : Newest(store, i))'
             /\ j.ev \in Stored => store' = store
             /\ j.ev \notin Stored => store' = Append(store, o) /\ o \in Objects
<1> DEFINE j == proc[b].job
           o == [id |-> j.ev, prior |-> j.prior, ver |-> proc[b].ver]
<1>1. store \in Seq(Objects) /\ (store # << >> => \E i \in 1..Len(store) : Newest(store, i))
  BY DEF ChainTypeOK
<1>2. j.ev \in Events /\ j.prior \in Heads /\ proc[b].ver \in Nat
  BY OwnFields
<1>3. o \in Objects /\ o.id = j.ev
  BY <1>2 DEF Objects
<1>4. store' = IF j.ev \in Stored THEN store ELSE Append(store, o)
  BY DEF Write
<1>5. CASE j.ev \in Stored
  <2>1. store' = store
    BY <1>4, <1>5
  <2> QED BY <1>1, <1>5, <2>1 DEF Stored, Newest
<1>6. CASE j.ev \notin Stored
  <2> HIDE DEF o
  <2>1. store' = Append(store, o)
    BY <1>4, <1>6
  <2>2. store' \in Seq(Objects) /\ Ids(store') = Ids(store) \cup {j.ev} /\ \E i \in 1..Len(store') : Newest(store', i)
    BY <1>1, <1>3, <2>1, Appended
  <2> QED BY <1>3, <1>6, <2>1, <2>2, Zenon DEF Stored, Ids, Newest, o
<1> QED BY <1>5, <1>6

LEMMA NoJobIs == NoJob \in Jobs /\ NoJob.pc = "idle"
  BY DownIs

(* Advance, once the event is in the store.                                *)
LEMMA AdvanceEffect ==
  ASSUME ChainTypeOK, NEW b \in Brokers, proc[b].job.pc # "idle", Advance(b), UNCHANGED <<lock, vault>>,
         store' \in Seq(Objects), Stored' = Stored \cup {proc[b].job.ev},
         store' # << >> => (\E i \in 1..Len(store) : Newest(store, i))'
  PROVE  /\ ChainTypeOK' /\ Truthful
         /\ Becomes(b, proc[b].phase, proc[b].ver, proc[b].job.ev, proc[b].queue, NoJob)
<1> DEFINE e == proc[b].job.ev
<1>1. e \in Events /\ e \in Heads /\ proc \in [Brokers -> Procs]
  BY OwnFields
<1>2. proc' = [proc EXCEPT ![b].head = e, ![b].job = NoJob] /\ call' = Answer(e, "stored")
  BY DEF Advance
<1> HIDE DEF e
<1>3. proc' \in [Brokers -> Procs] /\ Becomes(b, proc[b].phase, proc[b].ver, e, proc[b].queue, NoJob)
  BY <1>1, <1>2, NoJobIs, HeadAndJobSet, Zenon
<1>4. /\ call' \in [Events -> [st : CallStates, at : Brokers \cup {NoBroker}]]
      /\ call'[e].st = IF call[e].st = "queued" THEN "stored" ELSE call[e].st
      /\ \A d \in Events \ {e} : call'[d] = call[d]
  <2>1. "stored" \in CallStates
    BY DEF CallStates
  <2> QED BY <1>1, <1>2, <2>1, CallAnswered
<1>5. \A c \in Brokers : proc'[c].job.pc # "idle" => proc'[c].job.ev \in Events
  BY <1>3, NoJobIs DEF Becomes, ChainTypeOK
<1>6. ChainTypeOK'
  BY <1>3, <1>4, <1>5 DEF ChainTypeOK
<1>7. \A d \in Events, c \in Brokers : Holds(proc'[c], d) => Holds(proc[c], d)
  <2>1. \A d \in Events : Holds(proc'[b], d) => Holds(proc[b], d)
    BY <1>3, NoJobIs DEF Becomes, Holds
  <2>2. \A c \in Brokers \ {b} : proc'[c] = proc[c]
    BY <1>3 DEF Becomes
  <2> QED BY <2>1, <2>2
<1>8. Holds(proc[b], e) /\ Stored' = Stored \cup {e}
  BY DEF Holds, e
<1>9. ASSUME NEW d \in Events
      PROVE  /\ d \in Stored => d \in Stored'
             /\ call'[d].st \in {"stored", "acked"} => call[d].st \in {"stored", "acked"} \/ d \in Stored'
             /\ call'[d].st \in {"new", "dropped"} =>
                  /\ call[d].st \in {"new", "dropped"}
                  /\ d \in Stored' => d \in Stored \/ \E c \in Brokers : Holds(proc[c], d)
                  /\ \A c \in Brokers : Holds(proc'[c], d) => Holds(proc[c], d)
  <2>1. CASE d = e
    <3>1. call'[e].st = "stored" \/ call'[e].st = call[e].st
      BY <1>4
    <3> QED BY <1>7, <1>8, <2>1, <3>1
  <2>2. CASE d # e
    <3>1. call'[d] = call[d] /\ (d \in Stored' <=> d \in Stored)
      BY <1>4, <1>8, <2>2
    <3> QED BY <1>7, <3>1
  <2> QED BY <2>1, <2>2
<1>10. Truthful
  BY <1>9, Zenon DEF Truthful
<1> QED BY <1>3, <1>6, <1>10 DEF e

(* The worker's job after an attempt that failed.                          *)
LEMMA AttemptSet ==
  ASSUME ChainTypeOK, NEW b \in Brokers, PutFails(b)
  PROVE  /\ proc' \in [Brokers -> Procs]
         /\ \E j \in Jobs :
              /\ j.pc # "idle" /\ j.ev = proc[b].job.ev /\ j.prior = proc[b].job.prior
              /\ j.live = proc[b].job.live
              /\ Becomes(b, proc[b].phase, proc[b].ver, proc[b].head, proc[b].queue, j)
<1> DEFINE o == proc[b].job
           last == o.tries = 2 \/ Cancelled(b)
           pc == IF last THEN "check" ELSE "put"
           n == IF last THEN 0 ELSE o.tries + 1
           j == Job(pc, o.ev, o.prior, n, o.live)
<1>1. /\ proc \in [Brokers -> Procs] /\ o \in Jobs /\ o.ev \in Heads /\ o.prior \in Heads
      /\ o.tries \in Nat /\ o.live \in BOOLEAN
  BY OwnFields
<1>2. proc' = [proc EXCEPT ![b].job.pc = pc, ![b].job.tries = n]
  BY <1>1 DEF PutFails
<1>3. pc \in {"put", "check"} /\ n \in Nat
  BY <1>1
<1> HIDE DEF last, pc, n
<1>4. j \in Jobs /\ j.pc = pc /\ j.ev = o.ev /\ j.prior = o.prior /\ j.live = o.live
  <2> HIDE DEF o
  <2> QED BY <1>1, <1>3, Zenon DEF Jobs, Job
<1>5. [o EXCEPT !.pc = pc, !.tries = n] = j
  <2>1. [o EXCEPT !.pc = pc] = Job(pc, o.ev, o.prior, o.tries, o.live)
    <3> HIDE DEF o
    <3> QED BY <1>1 DEF Jobs, Job
  <2>2. [Job(pc, o.ev, o.prior, o.tries, o.live) EXCEPT !.tries = n] = j
    <3> HIDE DEF o
    <3> QED BY DEF Job
  <2>3. [o EXCEPT !.pc = pc, !.tries = n] = [[o EXCEPT !.pc = pc] EXCEPT !.tries = n]
    BY Zenon
  <2> QED BY <2>1, <2>2, <2>3, Zenon
<1>6. proc' = [proc EXCEPT ![b].job = [o EXCEPT !.pc = pc, !.tries = n]]
  BY <1>1, <1>2, Zenon
<1> HIDE DEF j
<1>7. proc' = [proc EXCEPT ![b].job = j]
  BY <1>5, <1>6, Zenon
<1>8. /\ proc' \in [Brokers -> Procs]
      /\ Becomes(b, proc[b].phase, proc[b].ver, proc[b].head, proc[b].queue, j)
  BY <1>1, <1>4, <1>7, JobSet, Zenon
<1>9. j.pc # "idle"
  BY <1>3, <1>4
<1> QED BY <1>4, <1>8, <1>9

LEMMA AttemptEffect ==
  ASSUME ChainTypeOK, NEW b \in Brokers, PutFails(b)
  PROVE  /\ ChainTypeOK' /\ Truthful
         /\ store' = store \/ (proc[b].job.live /\ store' = Write(b))
<1> DEFINE p == proc[b]
<1>1. p.job.pc # "idle" /\ p.job.ev \in Events /\ UNCHANGED <<lock, vault, call>>
  BY OwnFields DEF PutFails
<1>2. proc' \in [Brokers -> Procs]
  BY AttemptSet
<1>3. PICK j \in Jobs :
         /\ j.pc # "idle" /\ j.ev = p.job.ev /\ j.prior = p.job.prior /\ j.live = p.job.live
         /\ Becomes(b, p.phase, p.ver, p.head, p.queue, j)
  BY AttemptSet
<1>4. store' = store \/ (p.job.live /\ store' = Write(b))
  BY DEF PutFails
<1>5. /\ store' \in Seq(Objects) /\ Stored \subseteq Stored' /\ Stored' \subseteq Stored \cup {p.job.ev}
      /\ store' # << >> => (\E i \in 1..Len(store) : Newest(store, i))'
  <2>1. CASE store' = store
    BY <2>1 DEF ChainTypeOK, Stored, Newest
  <2>2. CASE store' = Write(b)
    BY <1>1, <2>2, WriteEffect, Zenon
  <2> QED BY <1>4, <2>1, <2>2
<1>6. \A c \in Brokers : proc'[c].job.pc # "idle" => proc'[c].job.ev \in Events
  BY <1>1, <1>3 DEF Becomes, ChainTypeOK
<1>7. ChainTypeOK'
  BY <1>1, <1>2, <1>5, <1>6 DEF ChainTypeOK
<1>8. \A d \in Events, c \in Brokers : Holds(proc'[c], d) => Holds(proc[c], d)
  <2>1. \A d \in Events : Holds(proc'[b], d) => Holds(proc[b], d)
    BY <1>1, <1>3 DEF Becomes, Holds
  <2>2. \A c \in Brokers \ {b} : proc'[c] = proc[c]
    BY <1>3 DEF Becomes
  <2> QED BY <2>1, <2>2
<1>9. Holds(p, p.job.ev)
  BY <1>1 DEF Holds
<1>10. Truthful
  <2>1. \A d \in Events : d \in Stored' => d \in Stored \/ \E c \in Brokers : Holds(proc[c], d)
    BY <1>5, <1>9
  <2> QED BY <1>1, <1>5, <1>8, <2>1 DEF Truthful
<1> QED BY <1>4, <1>7, <1>10

(* The worker gives its event up.                                          *)
LEMMA LostEffect ==
  ASSUME ChainTypeOK, NEW b \in Brokers, proc[b].job.pc = "check",
         call' = Answer(proc[b].job.ev, "lost"), proc' = [proc EXCEPT ![b].job = NoJob],
         UNCHANGED <<lock, vault, store>>
  PROVE  /\ ChainTypeOK' /\ Truthful
         /\ Becomes(b, proc[b].phase, proc[b].ver, proc[b].head, proc[b].queue, NoJob)
<1> DEFINE e == proc[b].job.ev
<1>1. e \in Events /\ proc \in [Brokers -> Procs]
  BY OwnFields
<1>2. proc' \in [Brokers -> Procs] /\ Becomes(b, proc[b].phase, proc[b].ver, proc[b].head, proc[b].queue, NoJob)
  BY <1>1, NoJobIs, JobSet, Zenon
<1>3. call' = Answer(e, "lost")
  OBVIOUS
<1> HIDE DEF e
<1>4. /\ call' \in [Events -> [st : CallStates, at : Brokers \cup {NoBroker}]]
      /\ call'[e].st = IF call[e].st = "queued" THEN "lost" ELSE call[e].st
      /\ \A d \in Events \ {e} : call'[d] = call[d]
  <2>1. "lost" \in CallStates
    BY DEF CallStates
  <2> QED BY <1>1, <1>3, <2>1, CallAnswered
<1>5. \A d \in Events : call'[d].st = call[d].st \/ call'[d].st = "lost"
  BY <1>1, <1>4
<1>6. \A c \in Brokers : proc'[c].job.pc # "idle" => proc'[c].job.ev \in Events
  BY <1>2, NoJobIs DEF Becomes, ChainTypeOK
<1>7. ChainTypeOK'
  BY <1>2, <1>4, <1>6 DEF ChainTypeOK
<1>8. \A d \in Events, c \in Brokers : Holds(proc'[c], d) => Holds(proc[c], d)
  <2>1. \A d \in Events : Holds(proc'[b], d) => Holds(proc[b], d)
    BY <1>2, NoJobIs DEF Becomes, Holds
  <2>2. \A c \in Brokers \ {b} : proc'[c] = proc[c]
    BY <1>2 DEF Becomes
  <2> QED BY <2>1, <2>2
<1>9. Stored' = Stored
  BY DEF Stored
<1> QED BY <1>2, <1>5, <1>7, <1>8, <1>9 DEF Truthful

(* A call returns, or is dropped, and nothing else happens.                *)
LEMMA ReturnEffect ==
  ASSUME ChainTypeOK, NEW e \in Events, NEW st \in {"dropped", "acked", "failed"},
         call' = [call EXCEPT ![e] = Over(st)], UNCHANGED <<lock, vault, proc, store>>,
         st = "dropped" => call[e].st = "new", st = "acked" => call[e].st = "stored"
  PROVE  ChainTypeOK' /\ Truthful
<1>1. /\ call' \in [Events -> [st : CallStates, at : Brokers \cup {NoBroker}]]
      /\ call'[e].st = st /\ \A d \in Events \ {e} : call'[d] = call[d]
  <2>1. st \in CallStates
    BY DEF CallStates
  <2> QED BY <2>1, CallAnswered
<1>2. ChainTypeOK'
  BY <1>1 DEF ChainTypeOK, Newest
<1>3. Stored' = Stored
  BY DEF Stored
<1>4. \A d \in Events :
        /\ call'[d].st \in {"stored", "acked"} => call[d].st \in {"stored", "acked"}
        /\ call'[d].st \in {"new", "dropped"} => call[d].st \in {"new", "dropped"}
  BY <1>1
<1> QED BY <1>2, <1>3, <1>4 DEF Truthful

(* The steps of a start and of a shutdown.                                 *)
LEMMA AcquireEffect ==
  ASSUME ChainTypeOK, NEW b \in Brokers, AcquireSingletonLock(b)
  PROVE  /\ ChainTypeOK' /\ Truthful
         /\ Becomes(b, "locked", proc[b].ver, proc[b].head, proc[b].queue, proc[b].job)
<1>1. /\ proc \in [Brokers -> Procs] /\ proc' = [proc EXCEPT ![b].phase = "locked"]
      /\ proc[b].ver \in Nat /\ proc[b].head \in Heads /\ "locked" \in Phases
  BY OwnFields DEF AcquireSingletonLock, Phases
<1>2. lock' \in Brokers \cup {NoBroker} /\ vault' \in Nat /\ UNCHANGED <<call, store>>
  BY DEF AcquireSingletonLock, ChainTypeOK
<1>3. /\ proc' \in [Brokers -> Procs]
      /\ Becomes(b, "locked", proc[b].ver, proc[b].head, proc[b].queue, proc[b].job)
  BY <1>1, PhaseSet, Zenon
<1> QED BY <1>1, <1>2, <1>3, PhaseEffect, Zenon

LEMMA ResolveEffect ==
  ASSUME ChainTypeOK, NEW b \in Brokers, ResolveAuditSigningKey(b)
  PROVE  /\ ChainTypeOK' /\ Truthful
         /\ \/ Becomes(b, "down", 0, NoEvent, << >>, NoJob) /\ Exit(b)
            \/ \E v \in Nat :
                 /\ v > 0 \/ {"vault", "dev"} \subseteq world.may
                 /\ Becomes(b, "keyed", v, proc[b].head, proc[b].queue, proc[b].job)
                 /\ UNCHANGED <<lock, store>>
<1>1. CASE Exit(b)
  BY <1>1, ExitEffect
<1>2. ASSUME NEW v \in Nat, proc' = [proc EXCEPT ![b].phase = "keyed", ![b].ver = v],
             v > 0 \/ {"vault", "dev"} \subseteq world.may, vault' \in Nat, UNCHANGED <<lock, call, store>>
      PROVE  /\ ChainTypeOK' /\ Truthful
             /\ \E w \in Nat :
                  /\ w > 0 \/ {"vault", "dev"} \subseteq world.may
                  /\ Becomes(b, "keyed", w, proc[b].head, proc[b].queue, proc[b].job)
                  /\ UNCHANGED <<lock, store>>
  <2>1. /\ proc \in [Brokers -> Procs] /\ proc[b].head \in Heads /\ "keyed" \in Phases
        /\ lock' \in Brokers \cup {NoBroker}
    BY <1>2, OwnFields DEF Phases, ChainTypeOK
  <2>2. /\ proc' \in [Brokers -> Procs]
        /\ Becomes(b, "keyed", v, proc[b].head, proc[b].queue, proc[b].job)
    BY <1>2, <2>1, PhaseAndVersionSet, Zenon
  <2>3. ChainTypeOK' /\ Truthful
    BY <1>2, <2>1, <2>2, PhaseEffect, Zenon
  <2> QED BY <1>2, <2>2, <2>3
<1>3. CASE /\ vault' = VaultVersion
           /\ proc' = [proc EXCEPT ![b].phase = "keyed", ![b].ver = vault']
           /\ UNCHANGED <<lock, call, store>>
  <2>1. VaultVersion \in Nat /\ VaultVersion > 0
    BY DEF ChainTypeOK, VaultVersion
  <2>2. proc' = [proc EXCEPT ![b].phase = "keyed", ![b].ver = VaultVersion]
    BY <1>3
  <2> QED BY <1>2, <1>3, <2>1, <2>2, Zenon
<1>4. CASE /\ {"vault", "dev"} \subseteq world.may
           /\ proc' = [proc EXCEPT ![b].phase = "keyed", ![b].ver = 0]
           /\ UNCHANGED <<lock, vault, call, store>>
  <2>1. vault' \in Nat
    BY <1>4 DEF ChainTypeOK
  <2> QED BY <1>2, <1>4, <2>1, Zenon
<1> QED BY <1>1, <1>3, <1>4 DEF ResolveAuditSigningKey

LEMMA StartEffect ==
  ASSUME ChainTypeOK, NEW b \in Brokers, StartSink(b)
  PROVE  /\ ChainTypeOK' /\ Truthful
         /\ \/ Becomes(b, "down", 0, NoEvent, << >>, NoJob) /\ Exit(b) /\ "stat" \in world.may
            \/ \E n \in 0..Len(store) :
                 /\ Becomes(b, "up", proc[b].ver, ResumeHead(n), proc[b].queue, proc[b].job)
                 /\ UNCHANGED <<lock, store>>
<1>1. CASE "stat" \in world.may /\ Exit(b)
  BY <1>1, ExitEffect
<1>2. CASE /\ \E n \in 0..Len(store) : proc' = [proc EXCEPT ![b].phase = "up", ![b].head = ResumeHead(n)]
           /\ UNCHANGED <<lock, vault, call, store>>
  <2>1. PICK n \in 0..Len(store) : proc' = [proc EXCEPT ![b].phase = "up", ![b].head = ResumeHead(n)]
    BY <1>2, Zenon
  <2>2. ResumeHead(n) \in Heads
    BY HeadType
  <2>3. /\ proc \in [Brokers -> Procs] /\ proc[b].ver \in Nat /\ "up" \in Phases
        /\ lock' \in Brokers \cup {NoBroker} /\ vault' \in Nat
    BY <1>2, OwnFields DEF Phases, ChainTypeOK
  <2>4. /\ proc' \in [Brokers -> Procs]
        /\ Becomes(b, "up", proc[b].ver, ResumeHead(n), proc[b].queue, proc[b].job)
    BY <2>1, <2>2, <2>3, PhaseAndHeadSet, Zenon
  <2>5. ChainTypeOK' /\ Truthful
    BY <1>2, <2>2, <2>3, <2>4, PhaseEffect, Zenon
  <2> QED BY <1>2, <2>4, <2>5
<1> QED BY <1>1, <1>2 DEF StartSink

LEMMA CloseEffect ==
  ASSUME ChainTypeOK, NEW b \in Brokers, BeginClose(b) \/ CancelWorker(b)
  PROVE  /\ ChainTypeOK' /\ Truthful /\ Serving(b) /\ UNCHANGED <<lock, store>>
         /\ \E ph \in {"closing", "cancelled"} :
              /\ ph = "closing" => ~Cancelled(b)
              /\ Becomes(b, ph, proc[b].ver, proc[b].head, proc[b].queue, proc[b].job)
<1>1. PICK ph \in {"closing", "cancelled"} :
        proc' = [proc EXCEPT ![b].phase = ph] /\ (ph = "closing" => ~Cancelled(b))
  BY DEF BeginClose, CancelWorker, Cancelled
<1>2. /\ proc \in [Brokers -> Procs] /\ proc[b].ver \in Nat /\ proc[b].head \in Heads /\ ph \in Phases
      /\ lock' \in Brokers \cup {NoBroker} /\ vault' \in Nat /\ UNCHANGED <<lock, call, store>>
  BY OwnFields DEF BeginClose, CancelWorker, Phases, ChainTypeOK
<1>3. /\ proc' \in [Brokers -> Procs]
      /\ Becomes(b, ph, proc[b].ver, proc[b].head, proc[b].queue, proc[b].job)
  BY <1>1, <1>2, PhaseSet, Zenon
<1>4. ChainTypeOK' /\ Truthful
  BY <1>2, <1>3, PhaseEffect, Zenon
<1>5. Serving(b)
  BY DEF BeginClose, CancelWorker, Serving
<1> QED BY <1>1, <1>2, <1>3, <1>4, <1>5

LEMMA PutEffect ==
  ASSUME ChainTypeOK, NEW b \in Brokers, PutOk(b)
  PROVE  /\ ChainTypeOK' /\ Truthful
         /\ Becomes(b, proc[b].phase, proc[b].ver, proc[b].job.ev, proc[b].queue, NoJob)
<1>1. proc[b].job.pc # "idle" /\ store' = Write(b) /\ Advance(b) /\ UNCHANGED <<lock, vault>>
  BY DEF PutOk
<1>2. /\ store' \in Seq(Objects) /\ Stored' = Stored \cup {proc[b].job.ev}
      /\ store' # << >> => (\E i \in 1..Len(store) : Newest(store, i))'
  BY <1>1, WriteEffect, Zenon
<1> QED BY <1>1, <1>2, AdvanceEffect

LEMMA CheckEffect ==
  ASSUME ChainTypeOK, NEW b \in Brokers, PutCheck(b)
  PROVE  /\ ChainTypeOK' /\ Truthful /\ UNCHANGED <<lock, store>>
         /\ \/ /\ ~Cancelled(b) /\ proc[b].job.ev \in Stored
               /\ Becomes(b, proc[b].phase, proc[b].ver, proc[b].job.ev, proc[b].queue, NoJob)
            \/ /\ Cancelled(b) \/ proc[b].job.ev \notin Stored \/ "stat" \in world.may
               /\ Becomes(b, proc[b].phase, proc[b].ver, proc[b].head, proc[b].queue, NoJob)
<1>1. proc[b].job.pc = "check" /\ proc[b].job.pc # "idle" /\ UNCHANGED <<lock, vault, store>>
  BY DEF PutCheck
<1>2. CASE ~Cancelled(b) /\ proc[b].job.ev \in Stored /\ Advance(b)
  <2>1. /\ store' \in Seq(Objects) /\ Stored' = Stored \cup {proc[b].job.ev}
        /\ store' # << >> => (\E i \in 1..Len(store) : Newest(store, i))'
    BY <1>1, <1>2 DEF ChainTypeOK, Stored, Newest
  <2>2. /\ ChainTypeOK' /\ Truthful
        /\ Becomes(b, proc[b].phase, proc[b].ver, proc[b].job.ev, proc[b].queue, NoJob)
    BY <1>1, <1>2, <2>1, AdvanceEffect
  <2> QED BY <1>1, <1>2, <2>2
<1>3. CASE /\ Cancelled(b) \/ proc[b].job.ev \notin Stored \/ "stat" \in world.may
           /\ call' = Answer(proc[b].job.ev, "lost")
           /\ proc' = [proc EXCEPT ![b].job = NoJob]
  <2>1. /\ ChainTypeOK' /\ Truthful
        /\ Becomes(b, proc[b].phase, proc[b].ver, proc[b].head, proc[b].queue, NoJob)
    BY <1>1, <1>3, LostEffect, Zenon
  <2> QED BY <1>1, <1>3, <2>1
<1> QED BY <1>2, <1>3 DEF PutCheck

(* Every step keeps the types and the answers.                             *)
LEMMA StepIsTruthful ==
  ASSUME ChainTypeOK, ChainNext
  PROVE  ChainTypeOK' /\ Truthful
<1>1. ASSUME NEW b \in Brokers,
             \/ AcquireSingletonLock(b) \/ ResolveAuditSigningKey(b) \/ StartSink(b)
             \/ WorkerTake(b) \/ PutOk(b) \/ PutFails(b) \/ PutCheck(b)
             \/ BeginClose(b) \/ CancelWorker(b)
      PROVE  ChainTypeOK' /\ Truthful
  BY <1>1, AcquireEffect, ResolveEffect, StartEffect, TakeEffect, PutEffect, AttemptEffect, CheckEffect,
     CloseEffect, Zenon
<1>2. ASSUME NEW b \in Brokers, FinishClose(b) \/ Crash(b) \/ WatchSingletonLock(b)
      PROVE  ChainTypeOK' /\ Truthful
  BY <1>2, ExitEffect DEF FinishClose, Crash, WatchSingletonLock
<1>3. ASSUME NEW b \in Brokers, NEW e \in Events, EmitEnqueue(b, e)
      PROVE  ChainTypeOK' /\ Truthful
  BY <1>3, EnqueueEffect
<1>4. ASSUME NEW b \in Brokers, NEW e \in Events, EmitDrop(b, e)
      PROVE  ChainTypeOK' /\ Truthful
  <2>1. /\ call' = [call EXCEPT ![e] = Over("dropped")] /\ call[e].st = "new"
        /\ UNCHANGED <<lock, vault, proc, store>>
    BY <1>4 DEF EmitDrop, CanEmit
  <2> QED BY <2>1, ReturnEffect, Zenon
<1>5. ASSUME NEW e \in Events, EmitReturn(e) \/ EmitDeadline(e)
      PROVE  ChainTypeOK' /\ Truthful
  <2>1. PICK st \in {"acked", "failed"} :
          /\ call' = [call EXCEPT ![e] = Over(st)] /\ (st = "acked" => call[e].st = "stored")
          /\ UNCHANGED <<lock, vault, proc, store>>
    BY <1>5 DEF EmitReturn, EmitDeadline
  <2> QED BY <2>1, ReturnEffect, Zenon
<1>6. ASSUME RotateKey \/ \E b \in Brokers : LoseLock(b)
      PROVE  ChainTypeOK' /\ Truthful
  <2>1. /\ lock' \in Brokers \cup {NoBroker} /\ vault' \in Nat /\ UNCHANGED <<proc, call, store>>
    BY <1>6 DEF RotateKey, LoseLock, ChainTypeOK
  <2>2. ChainTypeOK'
    BY <2>1 DEF ChainTypeOK, Newest
  <2> QED BY <2>1, <2>2, QuietStep
<1> QED BY <1>1, <1>2, <1>3, <1>4, <1>5, <1>6 DEF ChainNext, ChainStep

LEMMA ChainStarts ==
  ASSUME ChainInit
  PROVE  ChainTypeOK /\ AnswerInv
<1> DEFINE C == [st : CallStates, at : Brokers \cup {NoBroker}]
<1>1. store = << >> /\ store \in Seq(Objects) /\ Len(store) = 0 /\ lock = NoBroker /\ vault = 0
  BY DEF ChainInit
<1>2. Down \in Procs /\ Down.job.pc = "idle" /\ Down.queue = << >>
  BY DownFields, NoJobIs
<1>3. proc = [b \in Brokers |-> Down]
  BY DEF ChainInit
<1>4. Over("new") \in C /\ Over("new").st = "new"
  BY DEF Over, CallStates
<1>5. call \in [Events -> C] /\ \A e \in Events : call[e].st = "new"
  <2> HIDE DEF C
  <2> QED BY <1>4 DEF ChainInit
<1>6. ChainTypeOK
  BY <1>1, <1>2, <1>3, <1>5 DEF ChainTypeOK
<1>7. \A e : e \notin Stored
  BY <1>1, StoredIds
<1>8. \A b \in Brokers, e \in Events : ~Holds(proc[b], e)
  BY <1>2, <1>3 DEF Holds
<1> QED BY <1>5, <1>6, <1>7, <1>8 DEF AnswerInv

(* The types and the answers hold throughout.                              *)
LEMMA AnswersHold == ChainSpec => [](ChainTypeOK /\ AnswerInv)
<1>1. ChainInit => ChainTypeOK /\ AnswerInv
  BY ChainStarts
<1>2. ChainTypeOK /\ AnswerInv /\ [ChainNext]_chainVars => (ChainTypeOK /\ AnswerInv)'
  <2>1. ASSUME ChainTypeOK, AnswerInv, ChainNext PROVE (ChainTypeOK /\ AnswerInv)'
    BY <2>1, StepIsTruthful, AnswersStayTrue
  <2>2. ASSUME ChainTypeOK, AnswerInv, UNCHANGED chainVars PROVE (ChainTypeOK /\ AnswerInv)'
    <3>1. UNCHANGED <<lock, vault, proc, call, store>>
      BY <2>2 DEF chainVars
    <3>2. ChainTypeOK'
      BY <2>2, <3>1 DEF ChainTypeOK, Newest
    <3>3. Truthful
      BY <2>2, <3>1, QuietStep
    <3> QED BY <2>2, <3>2, <3>3, AnswersStayTrue
  <2> QED BY <2>1, <2>2
<1> QED BY <1>1, <1>2, PTL DEF ChainSpec

(* What Emit tells its callers is true in every world, however many        *)
(* brokers, events and attempts there are: a call is answered "stored"     *)
(* only when its event is in the store, whether a put succeeded or the     *)
(* check after three failures found it, and nothing a caller was told was  *)
(* dropped is ever taken up by a worker.                                   *)
THEOREM EmitIsTruthful == ChainSpec => []AnswersAreTrue
<1>1. ChainTypeOK /\ AnswerInv => AnswersAreTrue
  BY Zenon DEF AnswerInv, AnswersAreTrue
<1> QED BY <1>1, AnswersHold, PTL

-----------------------------------------------------------------------------
(* The trail is one chain.                                                 *)
Tip(s) == IF s = << >> THEN NoEvent ELSE s[Len(s)].id

(* Objects in the order they were written: each names the one before it,   *)
(* all are signed, and none is there twice.                                *)
Linear(s) ==
  /\ \A i \in 1..Len(s) : s[i].ver > 0 /\ s[i].prior = IF i = 1 THEN NoEvent ELSE s[i - 1].id
  /\ \A i, j \in 1..Len(s) : s[i].id = s[j].id => i = j

LEMMA TipIs ==
  ASSUME NEW s \in Seq(Objects)
  PROVE  /\ Tip(s) \in Heads /\ (s # << >> => Tip(s) \in Ids(s) /\ Tip(s) # NoEvent)
         /\ Tip(s) = IF Len(s) = 0 THEN NoEvent ELSE s[Len(s)].id
<1>1. CASE s = << >>
  BY <1>1, Constants DEF Tip
<1>2. CASE s # << >>
  <2>1. Len(s) \in 1..Len(s) /\ Len(s) # 0
    BY <1>2, SeqIds
  <2>2. s[Len(s)].id \in Ids(s) /\ s[Len(s)].id \in Events
    BY <2>1, SeqIds
  <2> QED BY <1>2, <2>1, <2>2, Constants DEF Tip, Heads
<1> QED BY <1>1, <1>2

LEMMA LinearAppend ==
  ASSUME NEW s \in Seq(Objects), Linear(s), NEW o \in Objects,
         o.prior = Tip(s), o.id \notin Ids(s), o.ver > 0
  PROVE  Linear(Append(s, o)) /\ Tip(Append(s, o)) = o.id
<1> DEFINE t == Append(s, o)
           n == Len(s)
<1>1. /\ t \in Seq(Objects) /\ t # << >> /\ Len(t) = n + 1 /\ t[n + 1] = o /\ n \in Nat
      /\ \A i \in 1..n : t[i] = s[i] /\ s[i].id # o.id
  BY Appended, SeqIds
<1>2. o.prior = IF n = 0 THEN NoEvent ELSE s[n].id
  BY TipIs
<1> HIDE DEF t, n
<1>3. \A i \in 1..n : s[i].ver > 0 /\ s[i].prior = IF i = 1 THEN NoEvent ELSE s[i - 1].id
  BY DEF Linear, n
<1>4. ASSUME NEW i \in 1..Len(t)
      PROVE  t[i].ver > 0 /\ t[i].prior = IF i = 1 THEN NoEvent ELSE t[i - 1].id
  <2>1. CASE i = n + 1
    <3>1. n = 0 \/ (n \in 1..n /\ t[n] = s[n])
      BY <1>1
    <3> QED BY <1>1, <1>2, <2>1, <3>1
  <2>2. CASE i \in 1..n
    <3>1. t[i] = s[i] /\ (i # 1 => i - 1 \in 1..n /\ t[i - 1] = s[i - 1])
      BY <1>1, <2>2
    <3> QED BY <1>3, <2>2, <3>1
  <2> QED BY <1>1, <2>1, <2>2
<1>5. \A i, j \in 1..n : s[i].id = s[j].id => i = j
  BY DEF Linear, n
<1>6. ASSUME NEW i \in 1..Len(t), NEW j \in 1..Len(t), t[i].id = t[j].id PROVE i = j
  <2>1. (i \in 1..n \/ i = n + 1) /\ (j \in 1..n \/ j = n + 1)
    BY <1>1
  <2> QED BY <1>1, <1>5, <1>6, <2>1
<1>7. Tip(t) = o.id
  BY <1>1 DEF Tip
<1> QED BY <1>4, <1>6, <1>7 DEF Linear, t

(* chainVerifier accepts such a trail: no hash twice, one root, which      *)
(* names no predecessor, no predecessor named twice, nothing unsigned.     *)
LEMMA LinearVerifies ==
  ASSUME NEW s \in Seq(Objects), Linear(s)
  PROVE  Verified(Range(s))
<1> DEFINE L == Links(Range(s))
           n == Len(s)
           l(i) == [id |-> s[i].id, hash |-> s[i].id, prior |-> s[i].prior, ver |-> s[i].ver]
<1>1. /\ n \in Nat /\ Range(s) = {s[i] : i \in 1..n}
      /\ \A i \in 1..n : s[i].id \in Nat /\ s[i].id # NoEvent /\ s[i].ver \in Nat
  <2>1. n \in Nat /\ DOMAIN s = 1..n /\ \A i \in 1..n : s[i] \in Objects /\ s[i].id \in Events
    BY SeqIds
  <2>2. \A i \in 1..n : s[i].ver \in Nat
    BY <2>1 DEF Objects
  <2> QED BY <2>1, <2>2, Constants, Zenon DEF Range
<1>2. \A x \in L : \E i \in 1..n : x = l(i)
  BY <1>1 DEF Links
<1>3. \A i \in 1..n : l(i) \in L
  BY <1>1 DEF Links
<1>4. /\ \A i \in 1..n : /\ l(i).ver > 0 /\ l(i).id = s[i].id /\ l(i).hash = s[i].id
                         /\ l(i).prior = IF i = 1 THEN NoEvent ELSE s[i - 1].id
      /\ \A i, j \in 1..n : s[i].id = s[j].id => i = j
  BY DEF Linear
<1> HIDE DEF L, l
<1>5. Duplicates(L) = {}
  <2> SUFFICES ASSUME NEW x \in L, NEW y \in L, y.hash = x.hash, y.id < x.id PROVE FALSE
    BY DEF Duplicates
  <2>1. PICK i \in 1..n : x = l(i)
    BY <1>2
  <2>2. PICK j \in 1..n : y = l(j)
    BY <1>2
  <2> QED BY <1>1, <1>4, <2>1, <2>2
<1>6. \A i \in 1..n : l(i) \in Roots(L) => i = 1
  <2> SUFFICES ASSUME NEW i \in 1..n, i # 1 PROVE \E y \in L : y.hash = l(i).prior
    BY DEF Roots
  <2>1. i - 1 \in 1..n
    BY <1>1
  <2> QED BY <1>3, <1>4, <2>1
<1>7. \A x \in Roots(L) : 1 \in 1..n /\ x = l(1) /\ x.prior = NoEvent
  <2> SUFFICES ASSUME NEW x \in Roots(L) PROVE 1 \in 1..n /\ x = l(1) /\ x.prior = NoEvent
    OBVIOUS
  <2>1. PICK i \in 1..n : x = l(i)
    BY <1>2 DEF Roots
  <2> QED BY <1>4, <1>6, <2>1
<1>8. \A x \in Roots(L) : x = HeadLink(L)
  <2> SUFFICES ASSUME NEW x \in Roots(L) PROVE x = HeadLink(L)
    OBVIOUS
  <2>1. Roots(L) = {l(1)} /\ x = l(1)
    BY <1>7
  <2>2. l(1).id \in Nat
    BY <1>1, <1>4, <1>7
  <2>3. HeadLink(L) = CHOOSE y \in {l(1)} : \A z \in {l(1)} : y.id <= z.id
    BY <2>1 DEF HeadLink
  <2> QED BY <2>1, <2>2, <2>3
<1>9. ASSUME NEW x \in L, NEW y \in L, x.prior # NoEvent, y.prior = x.prior, y.id < x.id PROVE FALSE
  <2>1. PICK i \in 1..n : x = l(i)
    BY <1>2
  <2>2. PICK j \in 1..n : y = l(j)
    BY <1>2
  <2>3. i # 1 /\ j # 1
    BY <1>4, <1>9, <2>1, <2>2
  <2>4. i - 1 \in 1..n /\ j - 1 \in 1..n /\ s[i - 1].id = s[j - 1].id
    BY <1>1, <1>4, <1>9, <2>1, <2>2, <2>3
  <2>5. i = j
    BY <1>4, <2>4
  <2> QED BY <1>1, <1>4, <1>9, <2>1, <2>2, <2>5
<1>10. L \ Duplicates(L) = L
  BY <1>5
<1>11. Breaks(L) = {}
  <2>1. {x \in Roots(L) : x # HeadLink(L) \/ x.prior # NoEvent} = {}
    BY <1>7, <1>8
  <2>2. {x \in L : x.prior # NoEvent /\ \E y \in L : y.prior = x.prior /\ y.id < x.id} = {}
    BY <1>9
  <2> QED BY <1>5, <1>10, <2>1, <2>2 DEF Breaks
<1>12. SignatureFailures(L) = {}
  <2>1. \A x \in L : x.ver # 0
    BY <1>2, <1>4
  <2> QED BY <2>1 DEF SignatureFailures
<1> QED BY <1>11, <1>12 DEF Verified, L

-----------------------------------------------------------------------------
(* Resuming the chain.                                                     *)

(* Object i lies in one of the two directories resumeTail lists.           *)
Listed(i) == Day[store[i].id] \in {Day[NewestUnder], Day[NewestUnder] - 1}

(* What was written after an object of those directories is in them too:   *)
(* no event is stored more than a day after a newer one.                   *)
ListedLast ==
  store # << >> => \A i, j \in 1..Len(store) : i <= j /\ Listed(i) => Listed(j)

(* Then the head is resumed at the last object, whatever the window.       *)
LEMMA ResumesAtTip ==
  ASSUME ChainTypeOK, Linear(store), ListedLast, NEW n \in 0..Len(store)
  PROVE  ResumeHead(n) = Tip(store)
<1>1. CASE store = << >>
  BY <1>1 DEF ResumeHead, Tip
<1>2. CASE store # << >>
  <2> DEFINE k == Len(store)
             at == {i \in DOMAIN store : Day[store[i].id] \in {Day[NewestUnder], Day[NewestUnder] - 1}}
             W == {i \in at : i >= n \/ \A j \in at : j <= i}
             C == {store[i] : i \in W}
             open == {c.id : c \in C} \ {c.prior : c \in C}
  <2>1. /\ store \in Seq(Objects) /\ k \in Nat /\ k > 0 /\ DOMAIN store = 1..k
        /\ \A i \in 1..k : store[i].id \in Events /\ store[i].id # NoEvent
    BY <1>2, StoredIds, Constants DEF ChainTypeOK
  <2>2. at \subseteq 1..k /\ \A i \in 1..k : i \in at <=> Listed(i)
    BY <2>1 DEF Listed
  <2>3. \A i, j \in 1..k : i <= j /\ i \in at => j \in at
    BY <1>2, <2>2 DEF ListedLast
  <2>4. k \in at
    <3>1. PICK i \in 1..k : NewestUnder = store[i].id
      BY <1>2, <2>1, NewestIsStored, StoredIds
    <3>2. i \in at
      BY <2>2, <3>1 DEF Listed
    <3> QED BY <2>1, <2>3, <3>2
  <2>5. k \in Nat /\ \A i \in at : i \in 1..k
    BY <2>1, <2>2, Zenon
  <2> HIDE DEF at
  <2>6. k \in W
    <3> HIDE DEF k
    <3> QED BY <2>4, <2>5
  <2>7. \A i \in W : i \in 1..k /\ (i # k => i + 1 \in W)
    <3> SUFFICES ASSUME NEW i \in W, i # k PROVE i + 1 \in W
      BY <2>5
    <3>1. i \in at /\ i \in 1..k /\ n \in Nat /\ (i >= n \/ \A j \in at : j <= i)
      BY <2>1, <2>5
    <3> HIDE DEF k
    <3>2. i >= n /\ i + 1 \in 1..k /\ i <= i + 1
      BY <2>4, <2>5, <3>1
    <3>3. i + 1 \in at
      BY <2>3, <3>1, <3>2, Zenon
    <3>4. i + 1 >= n
      BY <3>1, <3>2
    <3> QED BY <3>3, <3>4
  <2> HIDE DEF W
  <2>8. open = {store[k].id}
    <3>1. ASSUME NEW j \in W, store[j].prior = store[k].id PROVE FALSE
      <4>1. j \in 1..k /\ k \in 1..k
        BY <2>1, <2>7
      <4>2. j # 1
        BY <2>1, <3>1, <4>1 DEF Linear
      <4>3. j - 1 \in 1..k /\ j - 1 # k /\ store[j - 1].id = store[k].id
        BY <2>1, <3>1, <4>1, <4>2 DEF Linear
      <4> QED BY <4>1, <4>3 DEF Linear
    <3>2. ASSUME NEW i \in W, i # k PROVE \E d \in C : d.prior = store[i].id
      <4>1. i + 1 \in W /\ i + 1 \in 1..k /\ i \in 1..k
        BY <2>7, <3>2
      <4>2. store[i + 1].prior = store[i].id
        BY <2>1, <4>1 DEF Linear
      <4> QED BY <4>1, <4>2
    <3>3. store[k].id \in open
      BY <2>6, <3>1
    <3>4. \A h \in open : h = store[k].id
      BY <3>2
    <3> QED BY <3>3, <3>4
  <2>9. ResumeTail(n) = ChainTail(C)
    BY DEF ResumeTail, at, W
  <2> HIDE DEF C
  <2>10. ChainTail(C) = IF \E h \in open : open = {h} THEN CHOOSE h \in open : TRUE ELSE NoEvent
    BY DEF ChainTail
  <2> HIDE DEF open
  <2>11. ChainTail(C) = store[k].id
    BY <2>8, <2>10
  <2>12. store[k].id # NoEvent
    BY <2>1
  <2> QED BY <1>2, <2>9, <2>11, <2>12 DEF ResumeHead, Tip
<1> QED BY <1>1, <1>2

(* Events of two consecutive days are all listed.                          *)
TwoDays == \A d, e \in Events : Day[d] <= Day[e] + 1

LEMMA TwoDaysAreListed ==
  ASSUME ChainTypeOK, TwoDays
  PROVE  ListedLast
<1> SUFFICES ASSUME store # << >>, NEW j \in 1..Len(store) PROVE Listed(j)
  BY DEF ListedLast
<1> DEFINE e == store[j].id
           t == NewestUnder
<1>1. e \in Events /\ e \in Stored /\ t \in Events /\ Day[e] <= Day[t]
  BY NewestIsStored, StoredIds DEF ChainTypeOK
<1>2. Day[t] <= Day[e] + 1 /\ Day[e] \in Nat /\ Day[t] \in Nat
  BY <1>1, Constants, Zenon DEF TwoDays
<1> HIDE DEF e, t
<1>3. Day[e] = Day[t] \/ Day[e] = Day[t] - 1
  BY <1>1, <1>2
<1> QED BY <1>3 DEF Listed, e, t

-----------------------------------------------------------------------------
(* The broker that writes the chain.                                       *)
ServingPhases == {"up", "closing", "cancelled"}

(* What ties a broker's record to a store s: it signs once it has its key; *)
(* only a serving broker has work; what waits in its queue is nowhere      *)
(* else; its head is the end of the chain until the worker is cancelled;   *)
(* and the event of a live job links to the end of the chain, or is it.    *)
Sound(ph, v, h, q, j, s) ==
  /\ ph \notin {"down", "locked"} => v > 0
  /\ ph \notin ServingPhases => q = << >> /\ j.pc = "idle"
  /\ \A i \in 1..Len(q) : /\ q[i] \notin Ids(s) /\ (j.pc # "idle" => q[i] # j.ev)
                          /\ \A k \in 1..Len(q) : q[i] = q[k] => i = k
  /\ ph \in {"up", "closing"} => IF j.pc = "idle" THEN h = Tip(s) ELSE j.live
  /\ j.pc # "idle" /\ j.live =>
       j.prior = h /\ IF j.ev \in Ids(s) THEN j.ev = Tip(s) ELSE h = Tip(s)

BrokerSound(b) ==
  /\ proc[b].phase # "down" => lock = b
  /\ Sound(proc[b].phase, proc[b].ver, proc[b].head, proc[b].queue, proc[b].job, store)

OneChain == Linear(store) /\ \A b \in Brokers : BrokerSound(b)

(* The worlds TrailVerifies speaks of.                                     *)
SoundWorld == world.may \cap {"stat", "lock"} = {} /\ ~({"vault", "dev"} \subseteq world.may)

LEMMA IdleIsSound ==
  ASSUME NEW ph, NEW v, NEW h, NEW j, NEW s, j.pc = "idle",
         ph \notin {"down", "locked"} => v > 0, ph \in {"up", "closing"} => h = Tip(s)
  PROVE  Sound(ph, v, h, << >>, j, s)
  BY DEF Sound

(* While one broker holds the lock, or takes it, all others are down: the  *)
(* step is its own.                                                        *)
LEMMA OwnStep ==
  ASSUME ChainTypeOK, OneChain, NEW b \in Brokers, lock \in {b, NoBroker},
         NEW ph, NEW v, NEW h, NEW q, NEW j, Becomes(b, ph, v, h, q, j),
         ph # "down" => lock' = b, Linear(store'), Sound(ph, v, h, q, j, store')
  PROVE  OneChain'
<1>1. ASSUME NEW c \in Brokers, c # b PROVE BrokerSound(c)'
  <2>1. proc'[c] = proc[c]
    BY <1>1 DEF Becomes
  <2>2. proc[c].phase = "down"
    BY <1>1, Constants DEF OneChain, BrokerSound
  <2>3. proc[c].queue = << >> /\ proc[c].job.pc = "idle"
    BY <2>2 DEF OneChain, BrokerSound, Sound, ServingPhases
  <2>4. Sound("down", proc[c].ver, proc[c].head, << >>, proc[c].job, store')
    BY <2>3, IdleIsSound
  <2> QED BY <2>1, <2>2, <2>3, <2>4 DEF BrokerSound
<1>2. BrokerSound(b)'
  BY DEF Becomes, BrokerSound
<1> QED BY <1>1, <1>2 DEF OneChain

LEMMA ExitKeeps ==
  ASSUME ChainTypeOK, OneChain, NEW b \in Brokers, proc[b].phase # "down", Exit(b)
  PROVE  OneChain'
<1>1. Becomes(b, "down", 0, NoEvent, << >>, NoJob) /\ lock = b /\ store' = store
  BY ExitEffect, Zenon DEF OneChain, BrokerSound, Exit
<1>2. Sound("down", 0, NoEvent, << >>, NoJob, store')
  BY NoJobIs, IdleIsSound
<1>3. Linear(store')
  BY <1>1 DEF OneChain
<1> QED BY <1>1, <1>2, <1>3, OwnStep, Zenon

(* A start: the lock, the key and the head.                                *)
LEMMA StartKeeps ==
  ASSUME ChainTypeOK, OneChain, SoundWorld, ListedLast, NEW b \in Brokers,
         AcquireSingletonLock(b) \/ ResolveAuditSigningKey(b) \/ StartSink(b)
  PROVE  OneChain'
<1> DEFINE p == proc[b]
<1>1. /\ p.queue = << >> /\ p.job.pc = "idle" /\ Linear(store)
      /\ p.phase = "keyed" => p.ver > 0
      /\ p.phase # "down" => lock = b
  <2>1. p.phase \in {"down", "locked", "keyed"}
    BY DEF AcquireSingletonLock, ResolveAuditSigningKey, StartSink
  <2> QED BY <2>1 DEF OneChain, BrokerSound, Sound, ServingPhases
<1>2. CASE AcquireSingletonLock(b)
  <2>1. /\ Becomes(b, "locked", p.ver, p.head, << >>, p.job) /\ lock = NoBroker /\ lock' = b
        /\ store' = store
    BY <1>1, <1>2, AcquireEffect, Zenon DEF AcquireSingletonLock
  <2>2. Sound("locked", p.ver, p.head, << >>, p.job, store')
    BY <1>1, IdleIsSound
  <2> QED BY <1>1, <2>1, <2>2, OwnStep, Zenon
<1>3. CASE ResolveAuditSigningKey(b)
  <2>1. p.phase = "locked" /\ lock = b
    BY <1>1, <1>3 DEF ResolveAuditSigningKey
  <2>2. CASE Exit(b)
    BY <2>1, <2>2, ExitKeeps
  <2>3. ASSUME NEW v \in Nat, v > 0, Becomes(b, "keyed", v, p.head, p.queue, p.job),
               UNCHANGED <<lock, store>>
        PROVE  OneChain'
    <3>1. Sound("keyed", v, p.head, << >>, p.job, store')
      BY <1>1, <2>3, IdleIsSound
    <3>2. Becomes(b, "keyed", v, p.head, << >>, p.job) /\ lock' = b /\ Linear(store')
      BY <1>1, <2>1, <2>3
    <3> QED BY <2>1, <3>1, <3>2, OwnStep, Zenon
  <2> QED BY <1>3, <2>2, <2>3, ResolveEffect DEF SoundWorld
<1>4. CASE StartSink(b)
  <2>1. PICK n \in 0..Len(store) :
          Becomes(b, "up", p.ver, ResumeHead(n), p.queue, p.job) /\ UNCHANGED <<lock, store>>
    BY <1>4, StartEffect DEF SoundWorld
  <2>2. p.ver > 0 /\ lock = b
    BY <1>1, <1>4 DEF StartSink
  <2>3. ResumeHead(n) = Tip(store')
    BY <1>1, <2>1, ResumesAtTip
  <2>4. Sound("up", p.ver, ResumeHead(n), << >>, p.job, store')
    BY <1>1, <2>2, <2>3, IdleIsSound
  <2>5. Becomes(b, "up", p.ver, ResumeHead(n), << >>, p.job) /\ lock' = b /\ Linear(store')
    BY <1>1, <2>1, <2>2
  <2> QED BY <2>2, <2>4, <2>5, OwnStep, Zenon
<1> QED BY <1>2, <1>3, <1>4

(* How a broker's record stays sound while it serves.                      *)
LEMMA ClosingIsSound ==
  ASSUME NEW ph \in Phases, NEW v, NEW h, NEW q, NEW j, NEW s, Sound(ph, v, h, q, j, s),
         ph \in ServingPhases, NEW nph \in {"closing", "cancelled"}, nph = "closing" => ph # "cancelled"
  PROVE  Sound(nph, v, h, q, j, s)
  BY DEF Sound, ServingPhases

LEMMA EnqueuedIsSound ==
  ASSUME NEW ph, NEW v, NEW h, NEW q \in Seq(Events), NEW j, NEW s, Sound(ph, v, h, q, j, s),
         ph \in ServingPhases, NEW e \in Events, e \notin Ids(s), j.pc # "idle" => j.ev # e,
         \A i \in 1..Len(q) : q[i] # e
  PROVE  Sound(ph, v, h, Append(q, e), j, s)
<1> DEFINE r == Append(q, e)
           n == Len(q)
<1>1. n \in Nat /\ Len(r) = n + 1 /\ r[n + 1] = e /\ \A i \in 1..n : r[i] = q[i]
  OBVIOUS
<1> HIDE DEF r
<1>2. \A i \in 1..Len(r) : i = n + 1 \/ (i \in 1..n /\ r[i] = q[i])
  BY <1>1
<1>3. \A i \in 1..n : q[i] \notin Ids(s) /\ (j.pc # "idle" => q[i] # j.ev) /\ q[i] # e
  BY DEF Sound
<1>4. ASSUME NEW i \in 1..Len(r) PROVE r[i] \notin Ids(s) /\ (j.pc # "idle" => r[i] # j.ev)
  BY <1>1, <1>2, <1>3
<1>5. ASSUME NEW i \in 1..Len(r), NEW k \in 1..Len(r), r[i] = r[k] PROVE i = k
  <2>1. CASE i = n + 1 \/ k = n + 1
    BY <1>1, <1>2, <1>3, <1>5, <2>1
  <2>2. CASE i # n + 1 /\ k # n + 1
    <3>1. i \in 1..n /\ k \in 1..n /\ q[i] = q[k]
      BY <1>2, <1>5, <2>2
    <3> QED BY <3>1 DEF Sound
  <2> QED BY <2>1, <2>2
<1> QED BY <1>4, <1>5 DEF Sound, r

LEMMA TakenIsSound ==
  ASSUME NEW ph, NEW v, NEW h, NEW q, NEW j, NEW s, Sound(ph, v, h, q, j, s),
         ph \in ServingPhases, j.pc = "idle", Len(q) \in Nat \ {0},
         NEW r, Len(r) = Len(q) - 1, \A i \in 1..Len(r) : r[i] = q[i + 1],
         NEW k, k.pc = "put", k.ev = q[1], k.prior = h, k.live \in BOOLEAN, k.live <=> ph # "cancelled"
  PROVE  Sound(ph, v, h, r, k, s)
<1>1. 1 \in 1..Len(q) /\ \A i \in 1..Len(r) : i \in Nat /\ i + 1 \in 1..Len(q) /\ i + 1 # 1
  OBVIOUS
<1>2. ASSUME NEW i \in 1..Len(r) PROVE r[i] \notin Ids(s) /\ r[i] # k.ev
  <2>1. r[i] = q[i + 1] /\ i + 1 \in 1..Len(q) /\ i + 1 # 1 /\ 1 \in 1..Len(q)
    BY <1>1
  <2> QED BY <2>1 DEF Sound
<1>3. ASSUME NEW i \in 1..Len(r), NEW m \in 1..Len(r), r[i] = r[m] PROVE i = m
  <2>1. q[i + 1] = q[m + 1] /\ i + 1 \in 1..Len(q) /\ m + 1 \in 1..Len(q) /\ i \in Nat /\ m \in Nat
    BY <1>1, <1>3
  <2>2. i + 1 = m + 1
    BY <2>1 DEF Sound
  <2> QED BY <2>1, <2>2
<1>4. q[1] \notin Ids(s)
  BY <1>1 DEF Sound
<1>5. k.live => ph \in {"up", "closing"} /\ h = Tip(s)
  BY DEF Sound, ServingPhases
<1>6. ph \in {"up", "closing"} => k.live
  OBVIOUS
<1> QED BY <1>2, <1>3, <1>4, <1>5, <1>6 DEF Sound

(* A job that goes on, over the same store or one its event was written to. *)
LEMMA RetriedIsSound ==
  ASSUME NEW ph, NEW v, NEW h, NEW q, NEW j, NEW s, Sound(ph, v, h, q, j, s), j.pc # "idle",
         NEW k, k.pc # "idle", k.ev = j.ev, k.prior = j.prior, k.live = j.live,
         NEW t, t = s \/ (j.live /\ Tip(t) = j.ev /\ Ids(t) = Ids(s) \cup {j.ev})
  PROVE  Sound(ph, v, h, q, k, t)
<1>1. CASE t = s
  BY <1>1 DEF Sound
<1>2. CASE j.live /\ Tip(t) = j.ev /\ Ids(t) = Ids(s) \cup {j.ev}
  <2>1. \A i \in 1..Len(q) : q[i] \notin Ids(t) /\ q[i] # k.ev
    BY <1>2 DEF Sound
  <2> QED BY <1>2, <2>1 DEF Sound
<1> QED BY <1>1, <1>2

(* A job that ends with its event at the end of the chain.                 *)
LEMMA AdvancedIsSound ==
  ASSUME NEW ph, NEW v, NEW h, NEW q, NEW j, NEW s, Sound(ph, v, h, q, j, s), j.pc # "idle",
         NEW t, Tip(t) = j.ev, Ids(t) = Ids(s) \cup {j.ev}
  PROVE  Sound(ph, v, j.ev, q, NoJob, t)
<1>1. \A i \in 1..Len(q) : q[i] \notin Ids(t)
  BY DEF Sound
<1> QED BY <1>1, NoJobIs DEF Sound

(* A job given up: cancelled, or known not to be in the store.             *)
LEMMA LostIsSound ==
  ASSUME NEW ph, NEW v, NEW h, NEW q, NEW j, NEW s, Sound(ph, v, h, q, j, s), j.pc # "idle",
         ph = "cancelled" \/ j.ev \notin Ids(s)
  PROVE  Sound(ph, v, h, q, NoJob, s)
  BY NoJobIs DEF Sound

(* The object a live job writes extends the chain.                         *)
LEMMA WriteExtends ==
  ASSUME ChainTypeOK, OneChain, NEW b \in Brokers, proc[b].job.pc # "idle", proc[b].job.live,
         store' = Write(b)
  PROVE  /\ Linear(store') /\ Tip(store') = proc[b].job.ev
         /\ Ids(store') = Ids(store) \cup {proc[b].job.ev}
<1> DEFINE p == proc[b]
           e == p.job.ev
           o == [id |-> e, prior |-> p.job.prior, ver |-> p.ver]
<1>1. store \in Seq(Objects) /\ Stored = Ids(store) /\ Linear(store)
  BY DEF ChainTypeOK, OneChain, Stored, Ids
<1>2. /\ p.ver > 0 /\ p.job.prior = p.head
      /\ IF e \in Ids(store) THEN e = Tip(store) ELSE p.head = Tip(store)
  <2>1. Sound(p.phase, p.ver, p.head, p.queue, p.job, store)
    BY DEF OneChain, BrokerSound
  <2> QED BY <2>1 DEF Sound, ServingPhases
<1>3. CASE e \in Ids(store)
  <2>1. store' = store
    BY <1>1, <1>3, WriteEffect, Zenon
  <2> QED BY <1>1, <1>2, <1>3, <2>1
<1>4. CASE e \notin Ids(store)
  <2>1. store' = Append(store, o) /\ o \in Objects
    BY <1>1, <1>4, WriteEffect
  <2>2. o.id = e /\ o.prior = Tip(store) /\ o.ver > 0
    BY <1>2, <1>4
  <2> HIDE DEF o
  <2>3. Linear(store') /\ Tip(store') = e
    BY <1>1, <1>4, <2>1, <2>2, LinearAppend
  <2>4. Ids(store') = Ids(store) \cup {e}
    BY <1>1, <2>1, <2>2, Appended
  <2> QED BY <2>3, <2>4
<1> QED BY <1>3, <1>4

(* A serving broker holds the lock and its record is sound.                *)
LEMMA ServingIs ==
  ASSUME ChainTypeOK, OneChain, NEW b \in Brokers, Serving(b) \/ proc[b].job.pc # "idle"
  PROVE  /\ lock = b /\ proc[b].phase \in ServingPhases /\ Linear(store) /\ Stored = Ids(store)
         /\ Sound(proc[b].phase, proc[b].ver, proc[b].head, proc[b].queue, proc[b].job, store)
<1>1. /\ Linear(store) /\ Stored = Ids(store) /\ (proc[b].phase # "down" => lock = b)
      /\ Sound(proc[b].phase, proc[b].ver, proc[b].head, proc[b].queue, proc[b].job, store)
  BY DEF OneChain, BrokerSound, Stored, Ids
<1>2. proc[b].phase \in ServingPhases
  BY <1>1 DEF Serving, ServingPhases, Sound
<1> QED BY <1>1, <1>2 DEF ServingPhases

(* The steps of a serving broker.                                          *)
LEMMA EnqueueKeeps ==
  ASSUME ChainTypeOK, AnswerInv, OneChain, NEW b \in Brokers, NEW e \in Events, EmitEnqueue(b, e)
  PROVE  OneChain'
<1> DEFINE p == proc[b]
           q == Append(p.queue, e)
<1>1. /\ lock = b /\ p.phase \in ServingPhases /\ Linear(store) /\ Stored = Ids(store)
      /\ Sound(p.phase, p.ver, p.head, p.queue, p.job, store)
  BY ServingIs DEF EmitEnqueue, CanEmit
<1>2. Becomes(b, p.phase, p.ver, p.head, q, p.job) /\ lock' = b /\ store' = store
  BY <1>1, EnqueueEffect, Zenon DEF EmitEnqueue
<1>3. e \notin Stored /\ ~Holds(p, e)
  <2>1. call[e].st = "new"
    BY DEF EmitEnqueue, CanEmit
  <2> QED BY <2>1, Zenon DEF AnswerInv
<1>4. p.queue \in Seq(Events) /\ (p.job.pc # "idle" => p.job.ev # e) /\ \A i \in 1..Len(p.queue) : p.queue[i] # e
  BY <1>3, OwnFields DEF Holds
<1>5. Sound(p.phase, p.ver, p.head, q, p.job, store')
  <2> HIDE DEF p
  <2> QED BY <1>1, <1>2, <1>3, <1>4, EnqueuedIsSound, Zenon
<1> QED BY <1>1, <1>2, <1>5, OwnStep, Zenon

LEMMA TakeKeeps ==
  ASSUME ChainTypeOK, OneChain, NEW b \in Brokers, WorkerTake(b)
  PROVE  OneChain'
<1> DEFINE p == proc[b]
           q == Tail(p.queue)
           k == Job("put", Head(p.queue), p.head, 0, ~Cancelled(b))
<1>1. /\ lock = b /\ p.phase \in ServingPhases /\ Linear(store)
      /\ Sound(p.phase, p.ver, p.head, p.queue, p.job, store)
  BY ServingIs DEF WorkerTake
<1>2. /\ Becomes(b, p.phase, p.ver, p.head, q, k) /\ Len(p.queue) \in Nat \ {0}
      /\ Head(p.queue) = p.queue[1] /\ Len(q) = Len(p.queue) - 1
      /\ \A i \in 1..Len(q) : q[i] = p.queue[i + 1]
  BY TakeEffect, Zenon
<1>3. lock' = b /\ store' = store /\ p.job.pc = "idle"
  BY <1>1 DEF WorkerTake
<1>4. k.pc = "put" /\ k.ev = p.queue[1] /\ k.prior = p.head /\ k.live = ~Cancelled(b)
  BY <1>2, Zenon DEF Job
<1>5. k.live \in BOOLEAN /\ (k.live <=> p.phase # "cancelled")
  BY <1>4, Zenon DEF Cancelled
<1>6. Sound(p.phase, p.ver, p.head, q, k, store')
  <2> HIDE DEF p, q, k
  <2> QED BY <1>1, <1>2, <1>3, <1>4, <1>5, TakenIsSound, Zenon
<1> QED BY <1>1, <1>2, <1>3, <1>6, OwnStep, Zenon

LEMMA PutKeeps ==
  ASSUME ChainTypeOK, OneChain, NEW b \in Brokers, PutOk(b)
  PROVE  OneChain'
<1> DEFINE p == proc[b]
<1>1. p.job.pc # "idle" /\ p.job.live /\ store' = Write(b) /\ lock' = lock
  BY DEF PutOk
<1>2. lock = b /\ Sound(p.phase, p.ver, p.head, p.queue, p.job, store)
  BY <1>1, ServingIs
<1>3. Linear(store') /\ Tip(store') = p.job.ev /\ Ids(store') = Ids(store) \cup {p.job.ev}
  BY <1>1, WriteExtends
<1>4. Becomes(b, p.phase, p.ver, p.job.ev, p.queue, NoJob)
  BY PutEffect
<1>5. Sound(p.phase, p.ver, p.job.ev, p.queue, NoJob, store')
  <2> HIDE DEF p
  <2> QED BY <1>1, <1>2, <1>3, AdvancedIsSound
<1> QED BY <1>1, <1>2, <1>3, <1>4, <1>5, OwnStep, Zenon

LEMMA AttemptKeeps ==
  ASSUME ChainTypeOK, OneChain, NEW b \in Brokers, PutFails(b)
  PROVE  OneChain'
<1> DEFINE p == proc[b]
<1>1. p.job.pc # "idle" /\ lock' = lock
  BY DEF PutFails
<1>2. lock = b /\ Linear(store) /\ Sound(p.phase, p.ver, p.head, p.queue, p.job, store)
  BY <1>1, ServingIs
<1>3. PICK j \in Jobs :
         /\ j.pc # "idle" /\ j.ev = p.job.ev /\ j.prior = p.job.prior /\ j.live = p.job.live
         /\ Becomes(b, p.phase, p.ver, p.head, p.queue, j)
  BY AttemptSet
<1>4. store' = store \/ (p.job.live /\ store' = Write(b))
  BY AttemptEffect
<1>5. /\ Linear(store')
      /\ \/ store' = store
         \/ p.job.live /\ Tip(store') = p.job.ev /\ Ids(store') = Ids(store) \cup {p.job.ev}
  BY <1>1, <1>2, <1>4, WriteExtends
<1>6. Sound(p.phase, p.ver, p.head, p.queue, j, store')
  <2> HIDE DEF p
  <2> QED BY <1>1, <1>2, <1>3, <1>5, RetriedIsSound
<1> QED BY <1>1, <1>2, <1>3, <1>5, <1>6, OwnStep, Zenon

LEMMA CheckKeeps ==
  ASSUME ChainTypeOK, OneChain, SoundWorld, NEW b \in Brokers, PutCheck(b)
  PROVE  OneChain'
<1> DEFINE p == proc[b]
<1>1. p.job.pc # "idle"
  BY DEF PutCheck
<1>2. /\ lock = b /\ Linear(store) /\ p.phase \in ServingPhases /\ Stored = Ids(store)
      /\ Sound(p.phase, p.ver, p.head, p.queue, p.job, store)
  BY <1>1, ServingIs
<1>3. lock' = b /\ store' = store /\ Linear(store')
  BY <1>2, CheckEffect
<1>4. CASE /\ ~Cancelled(b) /\ p.job.ev \in Stored
           /\ Becomes(b, p.phase, p.ver, p.job.ev, p.queue, NoJob)
  <2>1. p.phase \in {"up", "closing"} /\ p.job.ev \in Ids(store)
    BY <1>2, <1>4 DEF Cancelled, ServingPhases
  <2>2. Tip(store') = p.job.ev /\ Ids(store') = Ids(store) \cup {p.job.ev}
    BY <1>1, <1>2, <1>3, <2>1 DEF Sound
  <2>3. Sound(p.phase, p.ver, p.job.ev, p.queue, NoJob, store')
    <3> HIDE DEF p
    <3> QED BY <1>1, <1>2, <2>2, AdvancedIsSound
  <2> QED BY <1>2, <1>3, <1>4, <2>3, OwnStep, Zenon
<1>5. CASE /\ Cancelled(b) \/ p.job.ev \notin Stored \/ "stat" \in world.may
           /\ Becomes(b, p.phase, p.ver, p.head, p.queue, NoJob)
  <2>1. p.phase = "cancelled" \/ p.job.ev \notin Ids(store)
    BY <1>2, <1>5 DEF Cancelled, SoundWorld
  <2>2. Sound(p.phase, p.ver, p.head, p.queue, NoJob, store')
    <3> HIDE DEF p
    <3> QED BY <1>1, <1>2, <1>3, <2>1, LostIsSound
  <2> QED BY <1>2, <1>3, <1>5, <2>2, OwnStep, Zenon
<1> QED BY <1>4, <1>5, CheckEffect

LEMMA CloseKeeps ==
  ASSUME ChainTypeOK, OneChain, NEW b \in Brokers, BeginClose(b) \/ CancelWorker(b)
  PROVE  OneChain'
<1> DEFINE p == proc[b]
<1>1. Serving(b) /\ UNCHANGED <<lock, store>> /\ p.phase \in Phases
  BY CloseEffect, OwnFields
<1>2. /\ lock = b /\ Linear(store) /\ p.phase \in ServingPhases
      /\ Sound(p.phase, p.ver, p.head, p.queue, p.job, store)
  BY <1>1, ServingIs
<1>3. PICK ph \in {"closing", "cancelled"} :
        (ph = "closing" => ~Cancelled(b)) /\ Becomes(b, ph, p.ver, p.head, p.queue, p.job)
  BY CloseEffect
<1>4. Sound(ph, p.ver, p.head, p.queue, p.job, store')
  <2>1. ph = "closing" => p.phase # "cancelled"
    BY <1>3 DEF Cancelled
  <2> HIDE DEF p
  <2> QED BY <1>1, <1>2, <2>1, ClosingIsSound
<1>5. lock' = b /\ Linear(store')
  BY <1>1, <1>2
<1> QED BY <1>2, <1>3, <1>4, <1>5, OwnStep, Zenon

-----------------------------------------------------------------------------
(* The stored trail.                                                       *)
TrailInv == SoundWorld => OneChain

LEMMA TrailStarts ==
  ASSUME ChainInit
  PROVE  OneChain
<1>1. store = << >> /\ proc = [b \in Brokers |-> Down]
  BY DEF ChainInit
<1>2. Linear(store)
  BY <1>1 DEF Linear
<1>3. ASSUME NEW b \in Brokers PROVE BrokerSound(b)
  <2>1. proc[b] = Down
    BY <1>1
  <2>2. Sound("down", 0, NoEvent, << >>, NoJob, store)
    BY NoJobIs, IdleIsSound
  <2> QED BY <2>1, <2>2, DownFields DEF BrokerSound
<1> QED BY <1>2, <1>3 DEF OneChain

(* Steps that neither a broker's record, nor the lock, nor the store sees. *)
LEMMA StillOneChain ==
  ASSUME OneChain, UNCHANGED <<lock, proc, store>>
  PROVE  OneChain'
  BY DEF OneChain, BrokerSound, Linear

LEMMA TrailStep ==
  ASSUME ChainTypeOK, AnswerInv, TrailInv, ListedLast, ChainNext
  PROVE  TrailInv'
<1>1. world' = world
  BY DEF ChainNext
<1> SUFFICES ASSUME SoundWorld PROVE OneChain'
  BY <1>1 DEF TrailInv, SoundWorld
<1>2. OneChain
  BY DEF TrailInv
<1>3. ASSUME NEW b \in Brokers, AcquireSingletonLock(b) \/ ResolveAuditSigningKey(b) \/ StartSink(b)
      PROVE  OneChain'
  BY <1>2, <1>3, StartKeeps
<1>4. ASSUME NEW b \in Brokers, NEW e \in Events, EmitEnqueue(b, e)
      PROVE  OneChain'
  BY <1>2, <1>4, EnqueueKeeps
<1>5. ASSUME NEW b \in Brokers, WorkerTake(b) \/ PutOk(b) \/ PutFails(b) \/ PutCheck(b)
      PROVE  OneChain'
  BY <1>2, <1>5, TakeKeeps, PutKeeps, AttemptKeeps, CheckKeeps
<1>6. ASSUME NEW b \in Brokers, BeginClose(b) \/ CancelWorker(b)
      PROVE  OneChain'
  BY <1>2, <1>6, CloseKeeps
<1>7. ASSUME NEW b \in Brokers, FinishClose(b) \/ Crash(b)
      PROVE  OneChain'
  <2>1. Exit(b) /\ proc[b].phase # "down"
    BY <1>7 DEF FinishClose, Crash, Cancelled
  <2> QED BY <1>2, <2>1, ExitKeeps
<1>8. \A b \in Brokers : ~LoseLock(b) /\ ~WatchSingletonLock(b)
  BY DEF SoundWorld, LoseLock, WatchSingletonLock
<1>9. ASSUME \/ \E b \in Brokers, e \in Events : EmitDrop(b, e)
             \/ \E e \in Events : EmitReturn(e) \/ EmitDeadline(e)
             \/ RotateKey
      PROVE  OneChain'
  <2>1. UNCHANGED <<lock, proc, store>>
    BY <1>9 DEF EmitDrop, EmitReturn, EmitDeadline, RotateKey
  <2> QED BY <1>2, <2>1, StillOneChain
<1> QED BY <1>3, <1>4, <1>5, <1>6, <1>7, <1>8, <1>9 DEF ChainNext, ChainStep

LEMMA TrailAccepted ==
  ASSUME ChainTypeOK, TrailInv
  PROVE  TrailVerifies
<1>1. store \in Seq(Objects)
  BY DEF ChainTypeOK
<1>2. SoundWorld => Verified(Range(store))
  BY <1>1, LinearVerifies DEF TrailInv, OneChain
<1> QED BY <1>2 DEF TrailVerifies, SoundWorld

(* However many brokers start, stop, crash and hand over, however often a  *)
(* put is retried or lands unseen, and however the resumption window falls, *)
(* VerifyChain accepts the stored trail - as long as resumeTail sees the   *)
(* end of the chain: no object is written more than a day behind the       *)
(* newest directory after one that is not.                                 *)
THEOREM TrailIsVerified == ChainSpec /\ []ListedLast => []TrailVerifies
<1>1. ChainInit => TrailInv
  BY TrailStarts DEF TrailInv
<1>2. (ChainTypeOK /\ AnswerInv) /\ TrailInv /\ ListedLast /\ [ChainNext]_chainVars => TrailInv'
  <2>1. ASSUME ChainTypeOK, AnswerInv, TrailInv, ListedLast, ChainNext PROVE TrailInv'
    BY <2>1, TrailStep
  <2>2. ASSUME TrailInv, UNCHANGED chainVars PROVE TrailInv'
    <3>1. UNCHANGED <<world, lock, proc, store>>
      BY <2>2 DEF chainVars
    <3> QED BY <2>2, <3>1, StillOneChain DEF TrailInv, SoundWorld
  <2> QED BY <2>1, <2>2
<1>3. (ChainTypeOK /\ AnswerInv) /\ TrailInv => TrailVerifies
  BY TrailAccepted
<1> QED BY <1>1, <1>2, <1>3, AnswersHold, PTL DEF ChainSpec

(* Where no two events are more than a day apart, however they are ordered, *)
(* that needs no further hypothesis.                                       *)
THEOREM TwoDaysVerify == TwoDays => (ChainSpec => []TrailVerifies)
<1> SUFFICES ASSUME TwoDays PROVE ChainSpec => []TrailVerifies
  OBVIOUS
<1>1. ChainTypeOK /\ AnswerInv => ListedLast
  BY TwoDaysAreListed
<1> QED BY <1>1, AnswersHold, TrailIsVerified, PTL

=============================================================================
