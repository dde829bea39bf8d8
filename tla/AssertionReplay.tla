--------------------------- MODULE AssertionReplay ---------------------------
(***************************************************************************)
(* Agent public keys and the client assertions signed with them (RFC 7523, *)
(* agent_public_keys.go).  An assertion is a signed statement with an id   *)
(* (jti) and an expiry; the broker accepts each id once, by remembering it *)
(* in the process until the assertion cannot be valid any more.            *)
(*                                                                         *)
(* A request reads the clock once (line 347) and claims its id later under *)
(* the mutex, with that same reading; other requests claim and sweep in    *)
(* between.  One agent with one key; a restart is not modelled (the code   *)
(* documents that it reopens the window).                                  *)
(***************************************************************************)
EXTENDS Naturals, Sequences

CONSTANTS
  Jtis,           \* assertion ids
  Requests,       \* requests in flight
  PublicKeyTTL,   \* lifetime of a registered key
  MaxAhead,       \* assertionMaxAhead
  Leeway,         \* assertionLeeway
  MaxTime         \* bound: ticks of a behaviour

ASSUME ReplayAssumption ==
  PublicKeyTTL \in Nat /\ MaxAhead \in Nat /\ Leeway \in Nat /\ MaxTime \in Nat

VARIABLES
  clock,
  pubkey,         \* the key's row: [status, exp]
  signed,         \* signed[j]: expiry of the assertion with id j; 0 is unsigned
  seen,           \* jtiCache.seen: id -> expiry of its entry; 0 is no entry
  asking,         \* asking[q]: the request q
  accepted        \* accepted[j]: for its first two acceptances, whether id j was
                  \* past its expiry plus leeway by then

assertVars == <<clock, pubkey, signed, seen, asking, accepted>>

NoPubkey == [status |-> "none", exp |-> 0]
NoAsk == [phase |-> "idle"]

ReplayInit ==
  /\ clock = 1
  /\ pubkey = NoPubkey
  /\ signed = [j \in Jtis |-> 0]
  /\ seen = [j \in Jtis |-> 0]
  /\ asking = [q \in Requests |-> NoAsk]
  /\ accepted = [j \in Jtis |-> << >>]

ReplayTick == /\ clock < MaxTime
         /\ clock' = clock + 1
         /\ UNCHANGED <<pubkey, signed, seen, asking, accepted>>

(* RegisterAgentPublicKey: a kid is registered once (ErrPublicKeyExists). *)
RegisterAgentPublicKey ==
  /\ pubkey = NoPubkey
  /\ pubkey' = [status |-> "active", exp |-> clock + PublicKeyTTL]
  /\ UNCHANGED <<clock, signed, seen, asking, accepted>>

RetireAgentPublicKey ==
  /\ pubkey.status = "active"
  /\ pubkey' = [pubkey EXCEPT !.status = "retired"]
  /\ UNCHANGED <<clock, signed, seen, asking, accepted>>

(* The agent signs an assertion with any expiry it likes. *)
Sign(j) ==
  /\ signed[j] = 0
  /\ \E d \in 0 .. MaxAhead + 1 : signed' = [signed EXCEPT ![j] = clock + d]
  /\ UNCHANGED <<clock, pubkey, seen, asking, accepted>>

(***************************************************************************)
(* resolveClientAssertion up to the claim: the key is active and unexpired *)
(* and the signature its own; with the clock read now the assertion has    *)
(* not expired by more than the leeway and does not expire too far ahead.  *)
(***************************************************************************)
Verify(q, j) ==
  /\ asking[q].phase = "idle"
  /\ signed[j] # 0
  /\ pubkey.status = "active" /\ clock < pubkey.exp
  /\ clock <= signed[j] + Leeway
  /\ signed[j] <= clock + MaxAhead + Leeway
  /\ asking' = [asking EXCEPT ![q] = [phase |-> "verified", jti |-> j, now |-> clock]]
  /\ UNCHANGED <<clock, pubkey, signed, seen, accepted>>

Accept(j) ==
  IF Len(accepted[j]) = 2 THEN accepted
  ELSE [accepted EXCEPT ![j] = Append(@, clock >= signed[j] + Leeway)]

(* Mutant: the id is remembered until the expiry, without the leeway. *)
claimNoLeeway(q) ==
  LET j == asking[q].jti
      t == asking[q].now
  IN IF seen[j] # 0 /\ t < seen[j]
       THEN UNCHANGED <<seen, accepted>>
       ELSE /\ seen' = [k \in Jtis |-> IF k = j THEN signed[j]
                                       ELSE IF t < seen[k] THEN seen[k] ELSE 0]
            /\ accepted' = Accept(j)

(* claim: under the mutex, with the request's reading of the clock. *)
claim(q) ==
  LET j == asking[q].jti
      t == asking[q].now
  IN IF seen[j] # 0 /\ t < seen[j]
       THEN UNCHANGED <<seen, accepted>>
       ELSE /\ seen' = [k \in Jtis |-> IF k = j THEN signed[j] + Leeway
                                       ELSE IF t < seen[k] THEN seen[k] ELSE 0]
            /\ accepted' = Accept(j)

Claim(q) ==
  /\ asking[q].phase = "verified"
  /\ claim(q)
  /\ asking' = [asking EXCEPT ![q] = NoAsk]
  /\ UNCHANGED <<clock, pubkey, signed>>

ReplayNext ==
  \/ ReplayTick \/ RegisterAgentPublicKey \/ RetireAgentPublicKey
  \/ \E j \in Jtis : Sign(j)
  \/ \E q \in Requests : Claim(q) \/ \E j \in Jtis : Verify(q, j)

ReplaySpec == ReplayInit /\ [][ReplayNext]_assertVars

(***************************************************************************)
(* While an assertion can still be valid (until its expiry plus leeway) it *)
(* is accepted at most once, whatever else is claimed and swept meanwhile. *)
(* A second acceptance needs a request that read the clock in the          *)
(* assertion's last instant or stalled past it.                            *)
(***************************************************************************)
AcceptedOnceWhileValid ==
  \A j \in Jtis : Len(accepted[j]) = 2 => accepted[j][2]
=============================================================================
