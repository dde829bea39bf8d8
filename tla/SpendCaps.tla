------------------------------ MODULE SpendCaps ------------------------------
(***************************************************************************)
(* Monthly LLM spend caps (broker/spend_caps.go, providers_south.go,       *)
(* db/spend_caps.go). A turn is a gateway's model call: CheckRateLimit     *)
(* looks up the caps of the organisation, the user and the agent through a *)
(* cache; the provider answers; EmitLlmUsage prices the usage, counts it   *)
(* and drops the cached rollups it counts toward. Turns, the               *)
(* administrator's cap and price edits, the change of the month and        *)
(* restarts of the broker interleave.                                      *)
(***************************************************************************)
EXTENDS Integers, Sequences, FiniteSets, FiniteSetsExt, SequencesExt

CONSTANTS Turns,       \* slots: model calls in flight at a time
          SpendTTL,    \* spendCacheTTL
          MonthLength, \* in ticks of the clock
          PerUnit,     \* the million of "per million tokens"
          MaxCost,     \* what one call costs at most
          MaxGen,      \* bound: no cap edit once the generation is this high
          SpendWorlds  \* the scenarios

VARIABLES spendWorld, clock,
          caps,        \* spend_caps: subject -> cap, 0 when there is none
          counter,     \* llm_spend_counters: <<user, agent, month>> -> cost
          usageEvents, \* llm_usage_events
          price,       \* the provider's row: the model's pricing
          rollup,      \* the spendRollupCache: <<subject, month>> -> entry
          rollupGen,   \* its generation
          turn,        \* turn[t]: the call in slot t
          console,     \* the administrator's request
          settled,     \* ghost: counted spend whose rollups were dropped
          counted      \* ghost: how many calls were counted; the bound is calls of the world

spendVars == <<spendWorld, clock, caps, counter, usageEvents, price, rollup, rollupGen, turn,
               console, settled, counted>>

Subjects == {"org"} \cup spendWorld.users \cup spendWorld.agents
Months == 0..(spendWorld.ticks \div MonthLength)
NoAgent == "none"
NoRollup == [exp |-> -1, cap |-> 0, spend |-> 0]
IdleTurn == [pc |-> "idle"]
IdleConsole == [pc |-> "idle"]

SpendInit ==
  /\ spendWorld \in SpendWorlds
  /\ clock = 0
  /\ caps = [k \in Subjects |-> spendWorld.caps[k]]
  /\ counter = [r \in spendWorld.users \X (spendWorld.agents \cup {NoAgent}) \X Months |-> 0]
  /\ usageEvents = {}
  /\ price \in spendWorld.prices
  /\ rollup = [e \in Subjects \X Months |-> NoRollup]
  /\ rollupGen = 0
  /\ turn = [t \in Turns |-> IdleTurn]
  /\ console = IdleConsole
  /\ settled = [e \in Subjects \X Months |-> 0]
  /\ counted = 0

May(op) == op \in spendWorld.ops
TurnAt(t, pc) == turn[t].pc = pc
Goes(t, pc) == turn' = [turn EXCEPT ![t].pc = pc]

SpendPeriodStart == clock \div MonthLength

(* The scopes a call is checked against, in order; a call without an agent *)
(* has no agent scope.                                                     *)
ScopesOf(u, a) == IF a = NoAgent THEN <<"org", u>> ELSE <<"org", u, a>>
Scope(t) == ScopesOf(turn[t].user, turn[t].agent)[turn[t].scope]

(* OrgTotal, UserTotals and AgentTotals of one subject. *)
SubjectTotal(k, m) ==
  FoldSet(LAMBDA r, s : s + counter[r], 0,
          {r \in DOMAIN counter : r[3] = m /\ (k = "org" \/ k \in {r[1], r[2]})})

-----------------------------------------------------------------------------
(* The check: checkSpendCaps, scope after scope.                            *)

CheckRateLimit(t, u, a) ==
  /\ turn[t] = IdleTurn
  /\ counted + Cardinality({s \in Turns : turn[s] # IdleTurn}) < spendWorld.calls
  /\ turn' = [turn EXCEPT ![t] =
       [pc |-> "generation", user |-> u, agent |-> a, scope |-> 1, month |-> SpendPeriodStart,
        gen |-> 0, cap |-> 0, spend |-> 0, cost |-> 0, report |-> [cost |-> 0],
        prices |-> {price}, quiet |-> console = IdleConsole,
        floor |-> [k \in ToSet(ScopesOf(u, a)) |-> settled[<<k, SpendPeriodStart>>]]]]
  /\ UNCHANGED <<spendWorld, clock, caps, counter, usageEvents, price, rollup, rollupGen, console,
                 settled, counted>>

(* The generation is read before the entry and before the database. *)
ReadGeneration(t) ==
  /\ TurnAt(t, "generation")
  /\ turn' = [turn EXCEPT ![t].pc = "get", ![t].gen = rollupGen]
  /\ UNCHANGED <<spendWorld, clock, caps, counter, usageEvents, price, rollup, rollupGen, console,
                 settled, counted>>

spendCapBreached(cap, spend) == cap # 0 /\ spend >= cap

(* One scope decided: the first breached cap denies, the last scope allows. *)
DecideTurn(t, cap, spend) ==
  LET c == turn[t]
  IN  turn' = [turn EXCEPT ![t] =
        IF spendCapBreached(cap, spend) THEN IdleTurn
        ELSE IF c.scope = Len(ScopesOf(c.user, c.agent)) THEN [c EXCEPT !.pc = "call"]
        ELSE [c EXCEPT !.pc = "generation", !.scope = c.scope + 1]]

(* A fresh entry answers; otherwise the cap is read. *)
GetRollup(t) ==
  LET e == rollup[<<Scope(t), turn[t].month>>]
  IN  /\ TurnAt(t, "get")
      /\ IF clock <= e.exp THEN DecideTurn(t, e.cap, e.spend) ELSE Goes(t, "cap")
      /\ UNCHANGED <<spendWorld, clock, caps, counter, usageEvents, price, rollup, rollupGen,
                     console, settled, counted>>

(* Spend is read only when a cap is set. *)
ReadCap(t) ==
  LET cap == caps[Scope(t)]
  IN  /\ TurnAt(t, "cap")
      /\ turn' = [turn EXCEPT ![t].pc = IF cap = 0 THEN "set" ELSE "total", ![t].cap = cap,
                              ![t].spend = 0]
      /\ UNCHANGED <<spendWorld, clock, caps, counter, usageEvents, price, rollup, rollupGen,
                     console, settled, counted>>

ReadTotal(t) ==
  /\ TurnAt(t, "total")
  /\ turn' = [turn EXCEPT ![t].pc = "set", ![t].spend = SubjectTotal(Scope(t), turn[t].month)]
  /\ UNCHANGED <<spendWorld, clock, caps, counter, usageEvents, price, rollup, rollupGen, console,
                 settled, counted>>

(* A cap or a total that cannot be read denies the call. *)
ReadFails(t) ==
  /\ May("fail") /\ turn[t].pc \in {"cap", "total"}
  /\ turn' = [turn EXCEPT ![t] = IdleTurn]
  /\ UNCHANGED <<spendWorld, clock, caps, counter, usageEvents, price, rollup, rollupGen, console,
                 settled, counted>>

StillCurrent(gen) == gen = rollupGen

SetRollup(t) ==
  LET c == turn[t]
      e == <<Scope(t), c.month>>
  IN  /\ TurnAt(t, "set")
      /\ rollup' = IF StillCurrent(c.gen)
                     THEN [rollup EXCEPT ![e] = [exp |-> clock + SpendTTL, cap |-> c.cap,
                                                 spend |-> c.spend]]
                     ELSE rollup
      /\ DecideTurn(t, c.cap, c.spend)
      /\ UNCHANGED <<spendWorld, clock, caps, counter, usageEvents, price, rollupGen, console,
                     settled, counted>>

-----------------------------------------------------------------------------
(* Pricing: the reported cost, else the model's own pricing, else the flat *)
(* rate of the provider.                                                   *)

(* Mutant: the first tier that is reached decides. *)
TierRateFirst(p, context) ==
  IF p.tiers # << >> /\ context >= p.tiers[1].min THEN p.tiers[1].rate ELSE p.rate

(* The scan keeps the last tier that is reached. *)
TierRate(p, context) ==
  FoldLeft(LAMBDA rate, tier : IF context >= tier.min THEN tier.rate ELSE rate, p.rate, p.tiers)

(* One division at the end for tokens; another unit is charged per         *)
(* quantity when the report names it; free is free.                        *)
modelCostMicros(p, r) ==
  CASE p.unit = "per_mtok" ->
         (r.tokens * TierRate(p, r.tokens + r.cached) + r.cached * p.cacheRate) \div PerUnit
    [] p.unit = "free" -> 0
    [] OTHER -> IF r.unit # p.unit \/ r.quantity <= 0 THEN 0 ELSE r.quantity * p.rate

modelPricingFor(row) == row.model # "none"

costMicrosFor(row, r) ==
  IF r.cost > 0 THEN r.cost
  ELSE IF modelPricingFor(row) THEN modelCostMicros(row.pricing, r)
  ELSE (r.tokens * row.flat) \div PerUnit

(* validateModelPricing: tiers only on tokens, strictly ascending. *)
validateModelPricing(p) ==
  /\ p.tiers # << >> => p.unit = "per_mtok"
  /\ \A i \in DOMAIN p.tiers : p.tiers[i].min > (IF i = 1 THEN 0 ELSE p.tiers[i - 1].min)
  /\ p.rate >= 0 /\ p.cacheRate >= 0 /\ \A i \in DOMAIN p.tiers : p.tiers[i].rate >= 0

(* validateLlmUsage: nothing negative. *)
validateLlmUsage(r) == r.tokens >= 0 /\ r.cached >= 0 /\ r.cost >= 0 /\ r.quantity >= 0

-----------------------------------------------------------------------------
(* The usage of the call: recordLlmUsage.                                   *)

(* The provider row a lookup that finds none leaves: it prices nothing. *)
Unpriced == [model |-> "none", flat |-> 0]

(* resolveCostMicros reads the price now; a lookup that fails, or finds    *)
(* the provider deleted, is logged and the usage recorded without one.     *)
Charged(call, r, row) ==
  [call EXCEPT !.pc = "accumulate", !.report = r, !.cost = Max({costMicrosFor(row, r), 0}),
               !.prices = IF row = Unpriced THEN {row} ELSE @]

(* The provider has answered and the gateway reports; a report that does   *)
(* not validate is refused.                                                *)
EmitLlmUsage(t) ==
  /\ TurnAt(t, "call")
  /\ \E r \in spendWorld.reports, row \in {price, Unpriced} :
       /\ row = Unpriced => May("lookup") /\ r.cost <= 0
       /\ turn' = [turn EXCEPT ![t] = IF validateLlmUsage(r) THEN Charged(@, r, row) ELSE IdleTurn]
  /\ UNCHANGED <<spendWorld, clock, caps, counter, usageEvents, price, rollup, rollupGen, console,
                 settled, counted>>

(* The gateway ends without a report. *)
TurnLost(t) ==
  /\ May("lose") /\ TurnAt(t, "call")
  /\ turn' = [turn EXCEPT ![t] = IdleTurn]
  /\ UNCHANGED <<spendWorld, clock, caps, counter, usageEvents, price, rollup, rollupGen, console,
                 settled, counted>>

(* The row's own addition; the month is the one of this moment. *)
Accumulate(t) ==
  LET c == turn[t]
  IN  /\ TurnAt(t, "accumulate")
      /\ counter' = [counter EXCEPT ![<<c.user, c.agent, SpendPeriodStart>>] = @ + c.cost]
      /\ counted' = counted + 1
      /\ turn' = [turn EXCEPT ![t].pc = "invalidate", ![t].month = SpendPeriodStart]
      /\ UNCHANGED <<spendWorld, clock, caps, usageEvents, price, rollup, rollupGen, console, settled>>

(* A failed write is only logged; the rollups stay. *)
AccumulateFails(t) ==
  /\ May("fail") /\ TurnAt(t, "accumulate")
  /\ Goes(t, "event")
  /\ UNCHANGED <<spendWorld, clock, caps, counter, usageEvents, price, rollup, rollupGen, console,
                 settled, counted>>

(* Only capped entries are dropped; an uncapped one has read no spend. *)
InvalidateRollups(t) ==
  LET c == turn[t]
      keys == {<<k, c.month>> : k \in ToSet(ScopesOf(c.user, c.agent))}
  IN  /\ TurnAt(t, "invalidate")
      /\ rollupGen' = rollupGen + 1
      /\ rollup' = [e \in DOMAIN rollup |-> IF e \in keys /\ rollup[e].cap # 0 THEN NoRollup ELSE rollup[e]]
      /\ settled' = [e \in DOMAIN settled |-> IF e \in keys THEN settled[e] + c.cost ELSE settled[e]]
      /\ Goes(t, "event")
      /\ UNCHANGED <<spendWorld, clock, caps, counter, usageEvents, price, console, counted>>

(* The analytics row; its failure is only logged. *)
recordUsageEvent(t) ==
  LET c == turn[t]
  IN  /\ TurnAt(t, "event")
      /\ usageEvents' = IF spendWorld.events
                          THEN usageEvents \cup {[cost |-> c.cost, report |-> c.report, prices |-> c.prices]}
                          ELSE usageEvents
      /\ turn' = [turn EXCEPT ![t] = IdleTurn]
      /\ UNCHANGED <<spendWorld, clock, caps, counter, price, rollup, rollupGen, console, settled, counted>>

-----------------------------------------------------------------------------
(* The administrator                                                        *)

(* One row per subject: Upsert replaces it, Delete leaves none (0). *)
Unquiet == turn' = [t \in Turns |-> IF turn[t] = IdleTurn THEN IdleTurn ELSE [turn[t] EXCEPT !.quiet = FALSE]]
StoreCap(k, cap) == caps' = [caps EXCEPT ![k] = cap]

SetSpendCap(k, cap) ==
  /\ May("cap") /\ console = IdleConsole /\ cap > 0 /\ rollupGen < MaxGen
  /\ StoreCap(k, cap) /\ Unquiet
  /\ console' = [pc |-> "drop"]
  /\ UNCHANGED <<spendWorld, clock, counter, usageEvents, price, rollup, rollupGen, settled, counted>>

DeleteSpendCap(k) ==
  /\ May("cap") /\ console = IdleConsole /\ rollupGen < MaxGen
  /\ StoreCap(k, 0) /\ Unquiet
  /\ console' = [pc |-> "drop"]
  /\ UNCHANGED <<spendWorld, clock, counter, usageEvents, price, rollup, rollupGen, settled, counted>>

invalidateTenant ==
  /\ console.pc = "drop"
  /\ rollupGen' = rollupGen + 1
  /\ rollup' = [e \in DOMAIN rollup |-> NoRollup]
  /\ console' = IdleConsole
  /\ UNCHANGED <<spendWorld, clock, caps, counter, usageEvents, price, turn, settled, counted>>

(* UpsertLlmProvider with other prices (modelled in LlmProviders). *)
SetPrice(row) ==
  /\ May("price") /\ row # price /\ validateModelPricing(row.pricing)
  /\ price' = row
  /\ turn' = [t \in Turns |-> IF turn[t] = IdleTurn THEN IdleTurn
                              ELSE [turn[t] EXCEPT !.prices = @ \cup {row}]]
  /\ UNCHANGED <<spendWorld, clock, caps, counter, usageEvents, rollup, rollupGen, console, settled, counted>>

-----------------------------------------------------------------------------
SpendTick ==
  /\ clock < spendWorld.ticks /\ clock' = clock + 1
  /\ UNCHANGED <<spendWorld, caps, counter, usageEvents, price, rollup, rollupGen, turn, console,
                 settled, counted>>

(* The broker ends: the cache and its requests are gone, the model calls   *)
(* go on at the gateways; what was counted is settled, as no rollup is     *)
(* left.                                                                   *)
SpendRestart ==
  /\ May("restart")
  /\ rollup' = [e \in DOMAIN rollup |-> NoRollup] /\ rollupGen' = 0
  /\ turn' = [t \in Turns |-> IF TurnAt(t, "call") THEN turn[t] ELSE IdleTurn]
  /\ console' = IdleConsole
  /\ settled' = [e \in DOMAIN settled |-> SubjectTotal(e[1], e[2])]
  /\ UNCHANGED <<spendWorld, clock, caps, counter, usageEvents, price, counted>>

SpendNext ==
  \/ SpendTick \/ SpendRestart \/ invalidateTenant
  \/ \E k \in Subjects : DeleteSpendCap(k) \/ \E cap \in spendWorld.newCaps : SetSpendCap(k, cap)
  \/ \E row \in spendWorld.prices : SetPrice(row)
  \/ \E t \in Turns :
       \/ \E who \in spendWorld.callers : CheckRateLimit(t, who[1], who[2])
       \/ ReadGeneration(t) \/ GetRollup(t) \/ ReadCap(t) \/ ReadTotal(t) \/ ReadFails(t)
       \/ SetRollup(t) \/ EmitLlmUsage(t) \/ TurnLost(t) \/ Accumulate(t) \/ AccumulateFails(t)
       \/ InvalidateRollups(t) \/ recordUsageEvent(t)

SpendSpec == SpendInit /\ [][SpendNext]_spendVars

-----------------------------------------------------------------------------
(* The price of the highest tier a call reaches.                            *)
ReferenceCost(row, r) ==
  IF r.cost > 0 THEN r.cost
  ELSE IF row.model = "none" THEN (r.tokens * row.flat) \div PerUnit
  ELSE IF row.pricing.unit = "per_mtok"
    THEN LET reached == {i \in DOMAIN row.pricing.tiers : row.pricing.tiers[i].min <= r.tokens + r.cached}
             rate == IF reached = {} THEN row.pricing.rate ELSE row.pricing.tiers[Max(reached)].rate
         IN  (r.tokens * rate + r.cached * row.pricing.cacheRate) \div PerUnit
  ELSE IF row.pricing.unit = r.unit THEN r.quantity * row.pricing.rate ELSE 0

(* The caps bound what is spent. A call that is allowed while no cap       *)
(* changes had, when its check began, less spend counted and dropped from  *)
(* the cache than each of its caps: an entry read before a count never     *)
(* comes back after it (the generation). While no cap is changed, the      *)
(* spend of a month passes a cap by no more than the calls that can be in  *)
(* flight at once cost together. And what is counted for a call is its     *)
(* price under a pricing in force while it ran, or, when the provider's    *)
(* row could not be read, no more than the cost the report names.          *)
SpendIsCapped ==
  /\ \A t \in Turns :
       (TurnAt(t, "call") /\ turn[t].quiet) =>
         \A k \in DOMAIN turn[t].floor : caps[k] # 0 => turn[t].floor[k] < caps[k]
  /\ ~May("cap") =>
       \A k \in Subjects, m \in Months :
         caps[k] # 0 => SubjectTotal(k, m) <= caps[k] - 1 + Cardinality(Turns) * MaxCost
  /\ \A e \in usageEvents : \E row \in e.prices : e.cost = ReferenceCost(row, e.report)
=============================================================================
