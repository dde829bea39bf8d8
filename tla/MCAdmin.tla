------------------------------ MODULE MCAdmin ------------------------------
(***************************************************************************)
(* What a tenant sets up and pays for, on small instances: its connectors,  *)
(* MCP servers, model providers, spend caps and rate limits, its directory  *)
(* and scheduled runs.  They share no state, so one of them works in each   *)
(* behaviour and the others stay as they began; the slots of all their      *)
(* calls are the same model values.                                         *)
(***************************************************************************)
EXTENDS Connectors, McpConnections, LlmProviders, SpendCaps, RateLimiter, MCScim,
        MCScheduler

(* Connectors *)
MCLink(kind, tok, asks, admin, faulty) ==
    [kind |-> kind, slot |-> tok, asks |-> asks, admin |-> admin, faulty |-> faulty,
     managed |-> FALSE, rotates |-> TRUE, refreshless |-> FALSE, endpoint |-> ""]
\* A linked drive, used, disconnected and linked again.
Spending == MCLink("drive", Token(1, "", "platform"), {"use", "revoke", "link"}, {}, FALSE)
\* The same while stores and the network fail and the broker restarts.
Failing == MCLink("drive", Token(1, "", "platform"), {"use", "revoke"}, {}, TRUE)
\* A provider that keeps one refresh token, or gives none.
Keeping == [MCLink("drive", NoToken, {"use", "link"}, {}, FALSE)
            EXCEPT !.rotates = FALSE, !.refreshless = TRUE]
\* The allowlist changes while flows are under way.
Narrowed == MCLink("drive", NoToken, {"link", "cross"}, {"allow"}, FALSE)
\* OneDrive: the tenant's app comes and goes under users and under the console.
Managed == [MCLink("onedrive", NoToken, {"use", "link"}, {"m365"}, FALSE)
            EXCEPT !.managed = TRUE]
Listing == [Managed EXCEPT !.asks = {"list", "link"}]
Booting == [MCLink("onedrive", NoToken, {"use", "list"}, {}, TRUE) EXCEPT !.managed = TRUE]
\* An MCP server whose endpoint moves, with a token from before endpoints were recorded.
Moving == [MCLink("mcp", [Token(1, "e1", "platform") EXCEPT !.url = ""], {"use", "link"}, {"repoint"}, FALSE)
           EXCEPT !.endpoint = "e1"]

MCLinkWorlds == {Spending, Failing, Keeping, Narrowed, Managed, Listing, Booting, Moving}

(* McpConnections *)
MCReq(auth, client, secret, bearer) == [auth |-> auth, client |-> client, secret |-> secret, bearer |-> bearer]
MCMcpAll ==
    {MCReq("none", "", FALSE, FALSE), MCReq("bearer", "", FALSE, TRUE), MCReq("bearer", "", FALSE, FALSE),
     MCReq("oauth", "", FALSE, FALSE), MCReq("oauth", "A", TRUE, FALSE),
     MCReq("oauth", "A", FALSE, FALSE), MCReq("oauth", "B", FALSE, FALSE)}
\* One administrator submits anything, the other a bearer token.
MCMcpRequests ==
    ("a1" :> MCMcpAll @@ "a2" :> {MCReq("bearer", "", FALSE, TRUE)})
MCPrm(resource) == [kind |-> "doc", servers |-> TRUE, resource |-> resource]
MCAs(issuer, s256, cimd, registers) ==
    [kind |-> "doc", endpoints |-> TRUE, issuer |-> issuer, s256 |-> s256, https |-> TRUE,
     cimd |-> cimd, registers |-> registers]
\* Documents in the order they are tried: good ones, ones to refuse, ones to skip.
MCMcpServers ==
    {[prm |-> <<NoDoc, MCPrm("above")>>, as |-> <<MCAs(TRUE, TRUE, TRUE, TRUE)>>],
     [prm |-> <<MCPrm("above")>>, as |-> <<NoDoc, MCAs(TRUE, TRUE, FALSE, TRUE)>>],
     [prm |-> <<MCPrm("")>>, as |-> <<MCAs(TRUE, FALSE, FALSE, TRUE), MCAs(TRUE, TRUE, FALSE, TRUE)>>],
     [prm |-> <<MCPrm("other"), MCPrm("self")>>, as |-> <<MCAs(TRUE, TRUE, FALSE, TRUE)>>],
     [prm |-> <<MCPrm("self")>>, as |-> <<MCAs(FALSE, TRUE, FALSE, TRUE)>>],
     [prm |-> <<NoDoc>>, as |-> <<NoDoc>>]}

(* LlmProviders *)
ProvWorld(ops, overlap, n, seeds) ==
  [ops |-> ops, overlap |-> overlap, edits |-> n, seeds |-> seeds, seedTarget |-> "t1",
   serves |-> {{"chat"}}, keys |-> BOOLEAN, secrets |-> TRUE]
Overlapping == ProvWorld({"upsert", "fail", "late", "get", "restart"}, TRUE, 5, {})
Reusing == ProvWorld({"upsert", "fail", "delete", "test", "get", "restart"}, FALSE, 6, {"p1"})
Routing == [ProvWorld({"upsert", "default", "delete"}, TRUE, 4, {}) EXCEPT !.keys = {FALSE}, !.serves = {{"chat"}, {"chat", "vision"}}]
Keyless == [ProvWorld({"upsert", "delete", "test", "get", "restart"}, FALSE, 4, {"p1"}) EXCEPT !.secrets = FALSE]
MCProvWorlds == {Overlapping, Reusing, Routing, Keyless}

(* SpendCaps *)
Report(used, cached, cost, unit, quantity) ==
  [tokens |-> used, cached |-> cached, cost |-> cost, unit |-> unit, quantity |-> quantity]
Pricing(unit, rate, tiers) == [unit |-> unit, rate |-> rate, cacheRate |-> 1, tiers |-> tiers]
Flat(rate) == [model |-> "none", flat |-> rate, pricing |-> Pricing("free", 0, << >>)]
Priced(pricing) == [model |-> "m1", flat |-> 1, pricing |-> pricing]
Tier(min, rate) == [min |-> min, rate |-> rate]

SpendWorld(ops, capOf, ticks, calls) ==
  [ops |-> ops, users |-> {"u1"}, agents |-> {"a1"} \cap DOMAIN capOf, caps |-> capOf,
   callers |-> {<<"u1", IF "a1" \in DOMAIN capOf THEN "a1" ELSE NoAgent>>},
   newCaps |-> {1}, ticks |-> ticks, calls |-> calls, reports |-> {Report(0, 0, 1, "", 0)},
   prices |-> {Flat(0)}, events |-> FALSE]

Capping == SpendWorld({"fail"}, [org |-> 0, u1 |-> 2, a1 |-> 1], 2, 2)
Editing == SpendWorld({"cap"}, [org |-> 2, u1 |-> 0], 0, 2)
Losing == [SpendWorld({"lose", "fail", "restart"}, [org |-> 1, u1 |-> 0], 1, 3)
             EXCEPT !.reports = {Report(0, 0, 1, "", 0), Report(0, 0, 2, "", 0), Report(-1, 0, 0, "", 0)}]
Charging == [SpendWorld({"price", "lookup"}, [org |-> 0, u1 |-> 0], 0, 1)
               EXCEPT !.events = TRUE,
                      !.reports = {Report(t, c, 0, "per_page", 2) : t \in 0..4, c \in 0..2} \cup {Report(2, 0, 3, "", 0)},
                      !.prices = {Flat(1), Priced(Pricing("per_mtok", 3, <<Tier(2, 2), Tier(4, 1)>>)),
                                  Priced(Pricing("per_page", 2, << >>)), Priced(Pricing("free", 2, << >>))}]
MCSpendWorlds == {Capping, Editing, Losing, Charging}

(* RateLimiter *)
Policy(a, p, r, t) == [agent |-> a, provider |-> p, rpm |-> r, tpm |-> t]

\* A tenant limit; and the same with an agent whose calls are refused
\* altogether, tighter token limits on that agent and on the provider, and a
\* policy scoped to both that no request matches.
MCPolicySets ==
    {{Policy(Unscoped, Unscoped, 1, 2)},
     {Policy(Unscoped, Unscoped, 1, 3), Policy("a1", Unscoped, 0, 1),
      Policy(Unscoped, "p1", Unconstrained, 2), Policy("a1", "p1", Unconstrained, 0)}}

\* Bound: calls enter the limiter in the first minute - the counters of two
\* minutes have nothing in common - and may stall in it for as long as they like.
FirstMinute(c) == now = 0 \/ checking[c] # NoCheck
\* Bound: tokens are used in the first two minutes, and in the one that evicts
\* the first of them.
OuterMinutes == now \in {0, 1, MaxMinute}

VARIABLE part

MCAdminSymmetry == Permutations(LinkCalls)

AdminInit ==
    /\ part \in {"links", "mcp", "providers", "spend", "scim", "calls", "tokens", "schedule"}
    /\ LinkInit /\ (part # "links" => linkWorld = Spending)
    /\ McpInit
    /\ ProvInit /\ (part # "providers" => provWorld = Overlapping)
    /\ SpendInit /\ (part # "spend" => spendWorld = Capping)
    /\ ScimInit /\ (part # "scim" => scimWorld = Claiming)
    /\ LimiterInit /\ (part \notin {"calls", "tokens"} => Cardinality(policies) = 1)
    /\ SchedInit /\ (part # "schedule" => schedWorld.kinds = {"CRON"})

AdminNext ==
    \/ part = "links" /\ LinkNext
       /\ UNCHANGED <<part, mcpVars, provVars, spendVars, scimVars, limiterVars, schedVars>>
    \/ part = "mcp" /\ McpNext
       /\ UNCHANGED <<part, linkVars, provVars, spendVars, scimVars, limiterVars, schedVars>>
    \/ part = "providers" /\ ProvNext
       /\ UNCHANGED <<part, linkVars, mcpVars, spendVars, scimVars, limiterVars, schedVars>>
    \/ part = "spend" /\ SpendNext
       /\ UNCHANGED <<part, linkVars, mcpVars, provVars, scimVars, limiterVars, schedVars>>
    \/ part = "scim" /\ ScimNext
       /\ UNCHANGED <<part, linkVars, mcpVars, provVars, spendVars, limiterVars, schedVars>>
    \/ part = "calls" /\ (WindowStep \/ \E c \in Calls : CheckStep(c) /\ FirstMinute(c))
       /\ UNCHANGED <<part, linkVars, mcpVars, provVars, spendVars, scimVars, schedVars>>
    \/ part = "tokens" /\ (WindowStep \/ (OuterMinutes /\ LlmStep))
       /\ UNCHANGED <<part, linkVars, mcpVars, provVars, spendVars, scimVars, schedVars>>
    \/ part = "schedule" /\ SchedNext
       /\ UNCHANGED <<part, linkVars, mcpVars, provVars, spendVars, scimVars, limiterVars>>

AdminSpec ==
    AdminInit /\ [][AdminNext]_<<part, linkVars, mcpVars, provVars, spendVars, scimVars, limiterVars, schedVars>>
=============================================================================
