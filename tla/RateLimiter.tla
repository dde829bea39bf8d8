----------------------------- MODULE RateLimiter -----------------------------
(***************************************************************************)
(* The broker's in-memory rate limiter (broker/internal/ratelimit): fixed  *)
(* one-minute windows of counters, RPM policies checked by                 *)
(* CheckToolInvocation and TPM policies checked by CheckLlmRequest.        *)
(*                                                                         *)
(* Policies of one tenant are modelled; the code skips every other         *)
(* tenant's.  CheckToolInvocation takes one step per counter it loads or   *)
(* adds to, so calls, evictions and policy reloads interleave freely; a    *)
(* counter is found in the map and used in the same step.  The three loads *)
(* of CheckLlmRequest are one step, and so are the three adds of           *)
(* RecordLlmTokens: each policy reads one counter only.                    *)
(*                                                                         *)
(* A personal task has no agent.  Its agent id is "", as in the key of the *)
(* tenant's counter: agent counter and tenant counter are then one, and    *)
(* the call or its tokens are added to it twice.                           *)
(***************************************************************************)
EXTENDS Integers, FiniteSets, SequencesExt

CONSTANTS
    Agents,        \* agent ids
    LimitedProviders,     \* LLM provider ids
    Calls,         \* goroutines that may be inside the limiter at once
    PolicySets,    \* the policy sets an admin may load
    MaxMinute,     \* bound on the clock
    MaxTokens      \* bound on the tokens a window may record

Unscoped == "none"     \* the empty agent or provider of a policy or a call
Unconstrained == -1

ASSUME LimiterAssumption ==
    /\ IsFiniteSet(Calls)
    /\ MaxMinute \in Nat /\ MaxTokens \in Nat
    /\ Unscoped \notin Agents /\ Unscoped \notin LimitedProviders
    /\ \A ps \in PolicySets : \A p \in ps :
          /\ p.agent \in Agents \cup {Unscoped} /\ p.provider \in LimitedProviders \cup {Unscoped}
          /\ p.rpm \in Nat \cup {Unconstrained} /\ p.tpm \in Nat \cup {Unconstrained}

VARIABLES
    now,        \* time.Now().Unix()/60
    policies,   \* Limiter.policies
    windows,    \* Limiter.windows: a partial function from window keys to counts
    checking,   \* per goroutine: where it is in CheckToolInvocation and what it holds
    admitted,   \* history: calls admitted per minute stamp
    personal,   \* history: those of personal tasks, from their first addition on
    tokens      \* history: tokens recorded per minute stamp

limiterVars == <<now, policies, windows, checking, admitted, personal, tokens>>

Callers == Agents \cup {Unscoped}
Key(a, p, m, t) == [agent |-> a, provider |-> p, metric |-> m, minute |-> t]

(* LoadOrStore then Load: a missing counter is created at zero.            *)
Touch(w, ks) == [k \in DOMAIN w \cup ks |-> IF k \in DOMAIN w THEN w[k] ELSE 0]
Count(w, k) == IF k \in DOMAIN w THEN w[k] ELSE 0
Add(w, k, n) == [Touch(w, {k}) EXCEPT ![k] = @ + n]

NoCheck == [pc |-> "idle", agent |-> Unscoped, minute |-> 0, agentCount |-> 0, globalCount |-> 0]

LimiterInit ==
    /\ now = 0
    /\ policies \in PolicySets
    /\ windows = << >>
    /\ checking = [c \in Calls |-> NoCheck]
    /\ admitted = [t \in 0..MaxMinute |-> 0]
    /\ personal = [t \in 0..MaxMinute |-> 0]
    /\ tokens = [t \in 0..MaxMinute |-> 0]

(* The policies of the loop in CheckToolInvocation that apply to agent a.  *)
RpmPolicies(a) ==
    {p \in policies : p.rpm # Unconstrained /\ p.provider = Unscoped /\ p.agent \in {Unscoped, a}}

(* A policy lets the call through when its counter after this call would   *)
(* still be within the limit; a limit of zero denies everything.           *)
RpmAllows(p, agentCount, globalCount) ==
    LET count == IF p.agent = Unscoped THEN globalCount ELSE agentCount
    IN  p.rpm # 0 /\ count + 1 <= p.rpm

StartCheck(c, a) ==
    /\ checking[c].pc = "idle"
    /\ checking' = [checking EXCEPT ![c] = [NoCheck EXCEPT !.pc = "loadAgent", !.agent = a, !.minute = now]]
    /\ UNCHANGED <<now, policies, windows, admitted, personal, tokens>>

LoadAgent(c) ==
    /\ checking[c].pc = "loadAgent"
    /\ LET k == Key(checking[c].agent, Unscoped, "rpm", checking[c].minute)
       IN  /\ windows' = Touch(windows, {k})
           /\ checking' = [checking EXCEPT ![c].pc = "loadGlobal", ![c].agentCount = Count(windows, k)]
    /\ UNCHANGED <<now, policies, admitted, personal, tokens>>

LoadGlobal(c) ==
    /\ checking[c].pc = "loadGlobal"
    /\ LET k == Key(Unscoped, Unscoped, "rpm", checking[c].minute)
       IN  /\ windows' = Touch(windows, {k})
           /\ checking' = [checking EXCEPT ![c].pc = "decide", ![c].globalCount = Count(windows, k)]
    /\ UNCHANGED <<now, policies, admitted, personal, tokens>>

Decide(c) ==
    /\ checking[c].pc = "decide"
    /\ checking' = [checking EXCEPT ![c] =
          IF \A p \in RpmPolicies(checking[c].agent) :
                RpmAllows(p, checking[c].agentCount, checking[c].globalCount)
          THEN [@ EXCEPT !.pc = "addAgent"]
          ELSE NoCheck]
    /\ UNCHANGED <<now, policies, windows, admitted, personal, tokens>>

AddAgent(c) ==
    /\ checking[c].pc = "addAgent"
    /\ windows' = Add(windows, Key(checking[c].agent, Unscoped, "rpm", checking[c].minute), 1)
    /\ checking' = [checking EXCEPT ![c].pc = "addGlobal"]
    /\ personal' = [personal EXCEPT ![checking[c].minute] =
                       IF checking[c].agent = Unscoped THEN @ + 1 ELSE @]
    /\ UNCHANGED <<now, policies, admitted, tokens>>

AddGlobal(c) ==
    /\ checking[c].pc = "addGlobal"
    /\ windows' = Add(windows, Key(Unscoped, Unscoped, "rpm", checking[c].minute), 1)
    /\ admitted' = [admitted EXCEPT ![checking[c].minute] = @ + 1]
    /\ checking' = [checking EXCEPT ![c] = NoCheck]
    /\ UNCHANGED <<now, policies, personal, tokens>>

(* The counters a TPM policy may read: the agent's, the provider's, the tenant's. *)
TpmKeys(a, pr, t) ==
    <<Key(a, Unscoped, "tpm", t), Key(Unscoped, pr, "tpm", t), Key(Unscoped, Unscoped, "tpm", t)>>

(* CheckLlmRequest's switch: a policy scoped to both an agent and a        *)
(* provider matches no case and never refuses.                             *)
TpmPolicies(a, pr) ==
    {p \in policies : /\ p.tpm # Unconstrained
                      /\ \/ p.agent = a /\ p.provider = Unscoped
                         \/ p.agent = Unscoped /\ p.provider \in {Unscoped, pr}}

(* What CheckLlmRequest returns.                                           *)
LlmAllowed(a, pr) ==
    \A p \in TpmPolicies(a, pr) :
        p.tpm # 0 /\ Count(windows, Key(p.agent, p.provider, "tpm", now)) < p.tpm

CheckLlmRequest(a, pr) ==
    /\ windows' = Touch(windows, ToSet(TpmKeys(a, pr, now)))
    /\ UNCHANGED <<now, policies, checking, admitted, personal, tokens>>

RecordLlmTokens(a, pr, n) ==
    /\ tokens[now] + n <= MaxTokens
    /\ windows' = FoldLeft(LAMBDA w, k : Add(w, k, n), windows, TpmKeys(a, pr, now))
    /\ tokens' = [tokens EXCEPT ![now] = @ + n]
    /\ UNCHANGED <<now, policies, checking, admitted, personal>>

SetPolicies(ps) ==
    /\ policies' = ps
    /\ UNCHANGED <<now, windows, checking, admitted, personal, tokens>>

\* Mutant: every window but the running minute's is dropped.
StaleAtOnce(k) == k.minute < now

(* One tick of evictLoop: windows more than two minutes old are dropped.   *)
Stale(k) == k.minute < now - 2

Evict ==
    /\ \E k \in DOMAIN windows : Stale(k)
    /\ windows' = [k \in {k \in DOMAIN windows : ~Stale(k)} |-> windows[k]]
    /\ UNCHANGED <<now, policies, checking, admitted, personal, tokens>>

NextMinute ==
    /\ now < MaxMinute
    /\ now' = now + 1
    /\ UNCHANGED <<policies, windows, checking, admitted, personal, tokens>>

CheckStep(c) ==
    \/ \E a \in Callers : StartCheck(c, a)
    \/ LoadAgent(c) \/ LoadGlobal(c) \/ Decide(c) \/ AddAgent(c) \/ AddGlobal(c)
LlmStep ==
    \E a \in Callers, pr \in LimitedProviders :
        \/ CheckLlmRequest(a, pr)
        \/ \E n \in 1..MaxTokens : RecordLlmTokens(a, pr, n)
WindowStep == Evict \/ NextMinute \/ \E ps \in PolicySets : SetPolicies(ps)

LimiterNext == LlmStep \/ WindowStep \/ \E c \in Calls : CheckStep(c)

LimiterSpec == LimiterInit /\ [][LimiterNext]_limiterVars

-----------------------------------------------------------------------------
(* The tenant-wide RPM limit of a policy set, if it has one.               *)
TenantRpm(ps) == {p.rpm : p \in {p \in ps : p.agent = Unscoped /\ p.provider = Unscoped /\ p.rpm # Unconstrained}}

(* The limits hold, although calls race through the limiter and its        *)
(* windows are evicted under them.                                         *)
(*  - The overshoot of a tenant-wide RPM limit is bounded by the number of *)
(*    calls racing through the limiter (comment on CheckToolInvocation:    *)
(*    "the overshoot is bounded to the number of concurrent racers"):      *)
(*    while a window is live, all racers but the one that filled it may    *)
(*    still pass.  A call that stalls until its window is evicted finds    *)
(*    the counter at zero again, which admits at most one more generation. *)
(*  - A denied call burns no quota: the tenant counter of a window that is *)
(*    still live counts the admitted calls, those of personal tasks twice, *)
(*    and nothing else.                                                    *)
(*  - Once the tokens recorded in the running minute reach a tenant-wide   *)
(*    TPM limit, every further LLM request of the tenant is refused until  *)
(*    the minute is over, whatever is evicted or checked meanwhile.        *)
LimitsHold ==
    /\ (\A ps \in PolicySets : TenantRpm(ps) # {}) =>
        \A t \in 0..MaxMinute : \E ps \in PolicySets : \E r \in TenantRpm(ps) :
            LET racers == Cardinality(Calls)
            IN  admitted[t] < r + (IF t >= now - 2 THEN racers ELSE 2 * racers)
    /\ \A t \in 0..MaxMinute :
        t >= now - 2 =>
            Count(windows, Key(Unscoped, Unscoped, "rpm", t)) = admitted[t] + personal[t]
    /\ \A p \in policies :
        (p.agent = Unscoped /\ p.provider = Unscoped /\ p.tpm # Unconstrained /\ tokens[now] >= p.tpm)
            => \A a \in Callers, pr \in LimitedProviders : ~LlmAllowed(a, pr)
=============================================================================
