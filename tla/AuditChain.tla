----------------------------- MODULE AuditChain -----------------------------
(***************************************************************************)
(* The hash-chained audit trail of one tenant (broker/internal/audit) and  *)
(* the broker processes that write it (broker/cmd/broker): the singleton   *)
(* lock, the versioned signing key, Emit, the upload worker, Close, crashes *)
(* and the resumption of the chain at the next start.                      *)
(*                                                                         *)
(* An event id is a number; UUIDv7 ids order like the numbers.  The chain  *)
(* hash of an event is its id: each Emit chains its own event once, so     *)
(* hashes tell events apart exactly as ids do.  The logging-only mode,     *)
(* which stores nothing, is left out.                                      *)
(***************************************************************************)
EXTENDS Integers, Sequences, Functions

CONSTANTS
    Brokers,         \* broker processes, of which one at a time may serve
    Events,          \* event ids
    Async,           \* the allowed per-RPC envelopes: Emit does not wait for them
    Day,             \* the day each event occurred on
    QueueCap,        \* capacity of Emitter.queue
    MaxVersion,      \* bound on rotations of the signing key
    Worlds           \* what a behaviour may meet, and how many events it emits

(* What a behaviour may meet: crashes, writes and reads of the store that  *)
(* fail, Vault or the lock's connection failing, AIKONOS_DEV_MODE, a       *)
(* rotated key and SIGTERM.                                                *)
Conditions == {"crash", "put", "stat", "vault", "lock", "dev", "rotate", "stop"}

NoEvent == 0
NoBroker == "nobody"

ASSUME AuditAssumption ==
    /\ Events \subseteq Nat \ {NoEvent} /\ Async \subseteq Events
    /\ Day \in [Events -> Nat] /\ QueueCap \in Nat \ {0} /\ MaxVersion \in Nat \ {0}
    /\ Worlds \subseteq [may : SUBSET Conditions, upTo : Nat] /\ NoBroker \notin Brokers

VARIABLES
    world,    \* the conditions of this behaviour
    lock,     \* who holds the Postgres advisory lock
    vault,    \* newest version of the audit signing key in Vault, 0: none
    proc,     \* per broker: phase, signing version, chain head, queue and worker
    call,     \* per event: its Emit call, and the broker it runs in
    store     \* the tenant's objects in the order they were written

chainVars == <<world, lock, vault, proc, call, store>>

(* The worker's job: pc is idle, put (an attempt is due) or check.         *)
NoJob == [pc |-> "idle", ev |-> NoEvent, prior |-> NoEvent, tries |-> 0, live |-> TRUE]
Down == [phase |-> "down", ver |-> 0, head |-> NoEvent, queue |-> << >>, job |-> NoJob]
Over(st) == [st |-> st, at |-> NoBroker]

ChainInit ==
    /\ world \in Worlds
    /\ lock = NoBroker /\ vault = 0 /\ store = << >>
    /\ proc = [b \in Brokers |-> Down]
    /\ call = [e \in Events |-> Over("new")]

Stored == {o.id : o \in Range(store)}
Serving(b) == proc[b].phase \in {"up", "closing", "cancelled"}
Cancelled(b) == proc[b].phase = "cancelled"      \* workerCtx is done

-----------------------------------------------------------------------------
(* The process ends: what it held in memory is gone, the lock's session    *)
(* closes, and the calls inside it never return.                           *)
Exit(b) ==
    /\ proc' = [proc EXCEPT ![b] = Down]
    /\ lock' = IF lock = b THEN NoBroker ELSE lock
    /\ call' = [e \in Events |->
                  IF call[e].at = b /\ call[e].st \in {"queued", "stored", "lost"}
                  THEN Over("gone") ELSE call[e]]
    /\ UNCHANGED <<vault, store>>

(* acquireSingletonLock, the first thing a broker does with its database;  *)
(* while another session holds the lock the process exits at once.         *)
AcquireSingletonLock(b) ==
    /\ proc[b].phase = "down" /\ lock = NoBroker
    /\ lock' = b
    /\ proc' = [proc EXCEPT ![b].phase = "locked"]
    /\ UNCHANGED <<vault, call, store>>

(* auditSigningKeyFromVault: read the newest version, or create the first. *)
VaultVersion == IF vault = 0 THEN 1 ELSE vault

(* resolveAuditSigningKey: Vault, or in dev mode the static fallback (here *)
(* empty: version 0 signs nothing); otherwise a failing Vault is fatal.    *)
ResolveAuditSigningKey(b) ==
    /\ proc[b].phase = "locked"
    /\ \/ /\ vault' = VaultVersion
          /\ proc' = [proc EXCEPT ![b].phase = "keyed", ![b].ver = vault']
          /\ UNCHANGED <<lock, call, store>>
       \/ /\ {"vault", "dev"} \subseteq world.may
          /\ proc' = [proc EXCEPT ![b].phase = "keyed", ![b].ver = 0]
          /\ UNCHANGED <<lock, vault, call, store>>
       \/ "vault" \in world.may /\ "dev" \notin world.may /\ Exit(b)

(* An operator writes a new version of the key; a running broker keeps the *)
(* one it started with.                                                    *)
RotateKey ==
    /\ "rotate" \in world.may /\ vault \in 1..(MaxVersion - 1)
    /\ vault' = vault + 1
    /\ UNCHANGED <<lock, proc, call, store>>

-----------------------------------------------------------------------------
(* chainTail: the one hash no candidate names as its prior, or NoEvent     *)
(* when there is not exactly one.                                          *)
ChainTail(cands) ==
    LET open == {c.id : c \in cands} \ {c.prior : c \in cands}
    IN  IF \E h \in open : open = {h} THEN CHOOSE h \in open : TRUE ELSE NoEvent

(* newestUnder: the last object written into the latest date directory.    *)
NewestUnder ==
    LET top == CHOOSE d \in {Day[e] : e \in Stored} : \A e \in Stored : Day[e] <= d
        at  == {i \in DOMAIN store : Day[store[i].id] = top}
    IN  store[CHOOSE i \in at : \A j \in at : j <= i].id

(* resumeTail: the tail among the recent objects of the newest directory   *)
(* and the day before.  The newest of them is always a candidate; how far  *)
(* back the others go, the time window and the cap on candidates decide.   *)
ResumeTail(from) ==
    LET dirs == {Day[NewestUnder], Day[NewestUnder] - 1}
        at   == {i \in DOMAIN store : Day[store[i].id] \in dirs}
    IN  ChainTail({store[i] : i \in {i \in at : i >= from \/ \A j \in at : j <= i}})

(* loadChainHeads: the chain's tail, or the newest object if it is unclear. *)
ResumeHead(from) ==
    IF store = << >> THEN NoEvent
    ELSE IF ResumeTail(from) # NoEvent THEN ResumeTail(from) ELSE NewestUnder

(* startSink: resume the head and start the worker; a store that cannot be *)
(* listed stops the broker.                                                *)
StartSink(b) ==
    /\ proc[b].phase = "keyed"
    /\ \/ /\ \E from \in 0..Len(store) :
                proc' = [proc EXCEPT ![b].phase = "up", ![b].head = ResumeHead(from)]
          /\ UNCHANGED <<lock, vault, call, store>>
       \/ "stat" \in world.may /\ Exit(b)

-----------------------------------------------------------------------------
CanEmit(b, e) == Serving(b) /\ e <= world.upTo /\ call[e].st = "new"

(* Emit with room in the queue; calls are still running while the broker   *)
(* shuts down.  An allowed RPC envelope returns without waiting.           *)
EmitEnqueue(b, e) ==
    /\ CanEmit(b, e) /\ Len(proc[b].queue) < QueueCap
    /\ proc' = [proc EXCEPT ![b].queue = Append(@, e)]
    /\ call' = [call EXCEPT ![e] = IF e \in Async THEN Over("async")
                                    ELSE [st |-> "queued", at |-> b]]
    /\ UNCHANGED <<lock, vault, store>>

(* enqueue gives up after dropTimeout on a full queue.                     *)
EmitDrop(b, e) ==
    /\ CanEmit(b, e) /\ Len(proc[b].queue) = QueueCap
    /\ call' = [call EXCEPT ![e] = Over("dropped")]
    /\ UNCHANGED <<lock, vault, proc, store>>

(* The rest of Emit: the worker's answer, or the emitter closing before    *)
(* one came; and the caller's deadline, which may come at any time.        *)
EmitReturn(e) ==
    /\ \/ call[e].st = "stored" /\ call' = [call EXCEPT ![e] = Over("acked")]
       \/ /\ call[e].st \in {"queued", "stored", "lost"}
          /\ call[e].st = "lost" \/ Cancelled(call[e].at)
          /\ call' = [call EXCEPT ![e] = Over("failed")]
    /\ UNCHANGED <<lock, vault, proc, store>>

EmitDeadline(e) ==
    /\ call[e].st \in {"queued", "stored", "lost"}
    /\ call' = [call EXCEPT ![e] = Over("failed")]
    /\ UNCHANGED <<lock, vault, proc, store>>

(* worker, chainLocked: take a job, link it to the head and sign it.  Once *)
(* the worker's context is done, the select may still pick a job.          *)
WorkerTake(b) ==
    /\ Serving(b) /\ proc[b].job.pc = "idle" /\ proc[b].queue # << >>
    /\ proc' = [proc EXCEPT ![b].queue = Tail(@),
                            ![b].job = [pc |-> "put", ev |-> Head(proc[b].queue),
                                        prior |-> proc[b].head, tries |-> 0,
                                        live |-> ~Cancelled(b)]]
    /\ UNCHANGED <<lock, vault, call, store>>

(* The object lands; a repeated write of the same key changes nothing.     *)
Write(b) ==
    LET j == proc[b].job
    IN  IF j.ev \in Stored THEN store
        ELSE Append(store, [id |-> j.ev, prior |-> j.prior, ver |-> proc[b].ver])

Answer(e, st) == IF call[e].st = "queued" THEN [call EXCEPT ![e].st = st] ELSE call

(* persist after a successful put: advance the head, answer the caller.    *)
Advance(b) ==
    /\ proc' = [proc EXCEPT ![b].head = proc[b].job.ev, ![b].job = NoJob]
    /\ call' = Answer(proc[b].job.ev, "stored")

(* An attempt of put that succeeds.                                        *)
PutOk(b) ==
    /\ proc[b].job.pc = "put" /\ proc[b].job.live
    /\ store' = Write(b)
    /\ Advance(b)
    /\ UNCHANGED <<lock, vault>>

(* An attempt that fails for the client; the write may have landed all the *)
(* same, unless the context was done before it began.  Three attempts, or  *)
(* one once the emitter is closing.                                        *)
PutFails(b) ==
    LET last == proc[b].job.tries = 2 \/ Cancelled(b)
    IN  /\ proc[b].job.pc = "put"
        /\ "put" \in world.may \/ Cancelled(b)
        /\ store' \in {store} \cup (IF proc[b].job.live THEN {Write(b)} ELSE {})
        /\ proc' = [proc EXCEPT ![b].job.pc = IF last THEN "check" ELSE "put",
                                ![b].job.tries = IF last THEN 0 ELSE @ + 1]
        /\ UNCHANGED <<lock, vault, call>>

\* Mutants: a failed write counts as lost without asking the store; or
\* counts as stored.
PutCheckNot(b) ==
    /\ proc[b].job.pc = "check"
    /\ call' = Answer(proc[b].job.ev, "lost")
    /\ proc' = [proc EXCEPT ![b].job = NoJob]
    /\ UNCHANGED <<lock, vault, store>>
PutCheckAssumes(b) == proc[b].job.pc = "check" /\ Advance(b) /\ UNCHANGED <<lock, vault, store>>
(* The end of put: the object may be there after all.  The question itself *)
(* fails once the worker's context is done, or when the store does.        *)
PutCheck(b) ==
    /\ proc[b].job.pc = "check"
    /\ \/ ~Cancelled(b) /\ proc[b].job.ev \in Stored /\ Advance(b)
       \/ /\ Cancelled(b) \/ proc[b].job.ev \notin Stored \/ "stat" \in world.may
          /\ call' = Answer(proc[b].job.ev, "lost")
          /\ proc' = [proc EXCEPT ![b].job = NoJob]
    /\ UNCHANGED <<lock, vault, store>>

-----------------------------------------------------------------------------
(* SIGTERM: the servers stop, then Close runs.                             *)
BeginClose(b) ==
    /\ "stop" \in world.may /\ proc[b].phase = "up"
    /\ proc' = [proc EXCEPT ![b].phase = "closing"]
    /\ UNCHANGED <<lock, vault, call, store>>

(* Close has drained the queue, or its deadline has passed.                *)
CancelWorker(b) ==
    /\ proc[b].phase = "closing"
    /\ proc' = [proc EXCEPT ![b].phase = "cancelled"]
    /\ UNCHANGED <<lock, vault, call, store>>

(* The worker has returned: Close answers what is still queued, and the    *)
(* process ends.                                                           *)
FinishClose(b) == Cancelled(b) /\ proc[b].job.pc = "idle" /\ Exit(b)

Crash(b) == "crash" \in world.may /\ proc[b].phase # "down" /\ Exit(b)

(* The lock's connection breaks: Postgres frees the lock, and the broker   *)
(* goes on until watchSingletonLock's next ping.                           *)
LoseLock(b) ==
    /\ "lock" \in world.may /\ lock = b
    /\ lock' = NoBroker
    /\ UNCHANGED <<vault, proc, call, store>>

WatchSingletonLock(b) == "lock" \in world.may /\ proc[b].phase # "down" /\ lock # b /\ Exit(b)

-----------------------------------------------------------------------------
(* chainVerifier over a set of links.  A duplicate is reported and kept    *)
(* out of the linkage; a root has no predecessor among the others.         *)
Duplicates(L) == {l \in L : \E m \in L : m.hash = l.hash /\ m.id < l.id}

Roots(L) == {l \in L : \A m \in L : m.hash # l.prior}

HeadLink(L) ==
    LET from == IF Roots(L) = {} THEN L ELSE Roots(L)
    IN  CHOOSE l \in from : \A m \in from : l.id <= m.id

Breaks(L) ==
    LET uniq == L \ Duplicates(L)
    IN  Duplicates(L)
        \cup {l \in Roots(uniq) : l # HeadLink(uniq) \/ l.prior # NoEvent}
        \cup {l \in uniq : l.prior # NoEvent /\ \E m \in uniq : m.prior = l.prior /\ m.id < l.id}

(* Version 0 resolves to the empty key: a failure once any event is signed. *)
SignatureFailures(L) == IF \E l \in L : l.ver > 0 THEN {l \in L : l.ver = 0} ELSE {}

Links(os) == {[id |-> o.id, hash |-> o.id, prior |-> o.prior, ver |-> o.ver] : o \in os}
Verified(os) == Breaks(Links(os)) = {} /\ SignatureFailures(Links(os)) = {}

-----------------------------------------------------------------------------
ChainStep ==
    \/ \E b \in Brokers :
          \/ AcquireSingletonLock(b) \/ ResolveAuditSigningKey(b) \/ StartSink(b)
          \/ \E e \in Events : EmitEnqueue(b, e) \/ EmitDrop(b, e)
          \/ WorkerTake(b) \/ PutOk(b) \/ PutFails(b) \/ PutCheck(b)
          \/ BeginClose(b) \/ CancelWorker(b) \/ FinishClose(b)
          \/ Crash(b) \/ LoseLock(b) \/ WatchSingletonLock(b)
    \/ \E e \in Events : EmitReturn(e) \/ EmitDeadline(e)
    \/ RotateKey

ChainNext == ChainStep /\ UNCHANGED world
ChainSpec == ChainInit /\ [][ChainNext]_chainVars

-----------------------------------------------------------------------------
(* Whatever was written, retried, dropped, half-closed or crashed, and     *)
(* whoever wrote it under whichever key version, VerifyChain finds neither *)
(* a break nor a signature failure in the stored trail - while the store   *)
(* answers whether a write landed, the lock's connection stands, and no    *)
(* dev-mode start went without Vault.                                      *)
TrailVerifies ==
    (world.may \cap {"stat", "lock"} = {} /\ ~({"vault", "dev"} \subseteq world.may))
        => Verified(Range(store))

(* Emit answers truthfully: an event it confirmed is stored, and one it    *)
(* reported dropped on a full queue is not and never will be.              *)
AnswersAreTrue ==
    \A e \in Events : /\ call[e].st \in {"stored", "acked"} => e \in Stored
                      /\ call[e].st = "dropped" => e \notin Stored

=============================================================================
