----------------------- MODULE AssertionReplay_proofs -----------------------
(***************************************************************************)
(* An assertion that can still be valid is accepted once, for any number   *)
(* of ids and of requests in flight, any leeway and any lifetimes.         *)
(***************************************************************************)
EXTENDS AssertionReplay, TLAPS

Ask == [phase : {"verified"}, jti : Jtis, now : Nat]

ReplayTypeOK ==
  /\ clock \in Nat \ {0}
  /\ signed \in [Jtis -> Nat] /\ seen \in [Jtis -> Nat]
  /\ asking \in [Requests -> {NoAsk} \cup Ask]
  /\ accepted \in [Jtis -> Seq(BOOLEAN)]

(* A request holds an id that was signed and a reading of the clock that   *)
(* is past.                                                                *)
AskInv ==
  \A q \in Requests : asking[q] # NoAsk => signed[asking[q].jti] # 0 /\ asking[q].now <= clock

(* An entry of the cache lasts until its id expires, leeway included; the  *)
(* entry of an id that was accepted is gone only when that time is past,   *)
(* since the reading that swept it is past.                                *)
EntryInv ==
  \A j \in Jtis :
    /\ seen[j] # 0 => signed[j] # 0 /\ seen[j] = signed[j] + Leeway
    /\ signed[j] = 0 => accepted[j] = << >>
    /\ accepted[j] # << >> => seen[j] = signed[j] + Leeway \/ clock >= signed[j] + Leeway

LEMMA Amounts == PublicKeyTTL \in Nat /\ MaxAhead \in Nat /\ Leeway \in Nat /\ MaxTime \in Nat
  BY ReplayAssumption

LEMMA ReplayStart ==
  ASSUME ReplayInit
  PROVE  ReplayTypeOK /\ AskInv /\ EntryInv /\ AcceptedOnceWhileValid
  BY Amounts DEF ReplayInit, ReplayTypeOK, AskInv, EntryInv, AcceptedOnceWhileValid

LEMMA Appending ==
  ASSUME NEW S, NEW s \in Seq(S), NEW x \in S
  PROVE  /\ Append(s, x) \in Seq(S) /\ Append(s, x) # << >>
         /\ Len(s) \in Nat /\ Len(Append(s, x)) = Len(s) + 1 /\ Append(s, x)[Len(s) + 1] = x
         /\ Len(s) \in {1, 2} => s # << >>
  OBVIOUS

(* What accepting id j records.                                            *)
LEMMA AcceptRecords ==
  ASSUME ReplayTypeOK, NEW j \in Jtis, accepted' = Accept(j)
  PROVE  /\ accepted' \in [Jtis -> Seq(BOOLEAN)]
         /\ \A k \in Jtis \ {j} : accepted'[k] = accepted[k]
         /\ accepted'[j] # << >>
         /\ Len(accepted[j]) = 2 => accepted'[j] = accepted[j]
         /\ Len(accepted'[j]) = 2 /\ Len(accepted[j]) # 2 =>
              accepted[j] # << >> /\ accepted'[j][2] = (clock >= signed[j] + Leeway)
<1> DEFINE late == clock >= signed[j] + Leeway
           s == accepted[j]
           Bool == BOOLEAN
           S == Seq(Bool)
<1>1. accepted \in [Jtis -> S] /\ s \in Seq(Bool)
  BY DEF ReplayTypeOK
<1>2. late \in Bool
  OBVIOUS
<1>3. accepted' = IF Len(s) = 2 THEN accepted ELSE [accepted EXCEPT ![j] = Append(s, late)]
  BY Zenon DEF Accept
<1> HIDE DEF late, s, Bool
<1>4. Append(s, late) \in S /\ Append(s, late) # << >> /\ Append(s, late)[Len(s) + 1] = late
  <2>1. Append(s, late) \in Seq(Bool)
    BY <1>1, <1>2, Appending, Zenon
  <2>2. Append(s, late) # << >>
    BY <1>1, <1>2, Appending
  <2>3. Append(s, late)[Len(s) + 1] = late
    BY <1>1, <1>2, Appending, Zenon
  <2> QED
    BY <2>1, <2>2, <2>3, Zenon
<1>5. Len(s) \in Nat /\ Len(Append(s, late)) = Len(s) + 1
  BY <1>1, <1>2, Appending, Zenon
<1>6. (Len(s) = 1 \/ Len(s) = 2) => s # << >>
  BY <1>1, <1>2, Appending, Zenon
<1> HIDE DEF S
<1>7. CASE Len(s) = 2
  BY <1>1, <1>3, <1>6, <1>7, Zenon DEF s, S, Bool
<1>8. CASE Len(s) # 2
  <2>1. accepted' = [accepted EXCEPT ![j] = Append(s, late)]
    BY <1>3, <1>8
  <2>2. /\ accepted'[j] = Append(s, late) /\ accepted' \in [Jtis -> S]
        /\ \A k \in Jtis \ {j} : accepted'[k] = accepted[k]
    BY <1>1, <1>4, <2>1
  <2>3. Len(accepted'[j]) = 2 => Len(s) = 1
    <3> DEFINE n == Len(s)
               m == Len(accepted'[j])
    <3>1. n \in Nat /\ m = n + 1
      BY <1>5, <2>2, Zenon
    <3> HIDE DEF n, m
    <3>2. m = 2 => n = 1
      BY <3>1
    <3> QED
      BY <3>2 DEF n, m
  <2>4. Len(accepted'[j]) = 2 => accepted'[j][2] = late
    <3>1. Len(s) = 1 => Len(s) + 1 = 2
      OBVIOUS
    <3> QED
      BY <1>4, <2>2, <2>3, <3>1, Zenon
  <2> QED
    BY <1>4, <1>6, <1>8, <2>2, <2>3, <2>4, Zenon DEF late, s, S, Bool
<1> QED
  BY <1>7, <1>8

(* A claim that is not refused.                                            *)
LEMMA ClaimStep ==
  ASSUME ReplayTypeOK, AskInv, EntryInv, AcceptedOnceWhileValid, NEW q \in Requests, Claim(q)
  PROVE  (ReplayTypeOK /\ AskInv /\ EntryInv /\ AcceptedOnceWhileValid)'
<1> DEFINE j == asking[q].jti
           t == asking[q].now
<1>1. asking[q] \in Ask /\ asking[q] # NoAsk
  BY DEF Claim, NoAsk, ReplayTypeOK
<1>2. j \in Jtis /\ t \in Nat /\ t <= clock /\ signed[j] \in Nat \ {0}
  BY <1>1 DEF Ask, AskInv, ReplayTypeOK
<1>3. /\ asking' = [asking EXCEPT ![q] = NoAsk] /\ UNCHANGED <<clock, pubkey, signed>>
      /\ \/ UNCHANGED <<seen, accepted>>
         \/ /\ ~(seen[j] # 0 /\ t < seen[j])
            /\ seen' = [k \in Jtis |-> IF k = j THEN signed[j] + Leeway ELSE IF t < seen[k] THEN seen[k] ELSE 0]
            /\ accepted' = Accept(j)
  BY Zenon DEF Claim, claim
<1> HIDE DEF j, t
<1>4. asking' \in [Requests -> {NoAsk} \cup Ask] /\ AskInv'
  BY <1>3 DEF ReplayTypeOK, AskInv
<1>5. CASE UNCHANGED <<seen, accepted>>
  BY <1>3, <1>4, <1>5 DEF ReplayTypeOK, EntryInv, AcceptedOnceWhileValid
<1>6. CASE /\ ~(seen[j] # 0 /\ t < seen[j])
           /\ seen' = [k \in Jtis |-> IF k = j THEN signed[j] + Leeway ELSE IF t < seen[k] THEN seen[k] ELSE 0]
           /\ accepted' = Accept(j)
  <2>1. /\ seen' \in [Jtis -> Nat] /\ seen'[j] = signed[j] + Leeway
        /\ \A k \in Jtis \ {j} : seen'[k] = IF t < seen[k] THEN seen[k] ELSE 0
    BY <1>2, <1>6, Amounts DEF ReplayTypeOK
  <2>2. /\ accepted' \in [Jtis -> Seq(BOOLEAN)]
        /\ \A k \in Jtis \ {j} : accepted'[k] = accepted[k]
        /\ accepted'[j] # << >>
        /\ Len(accepted[j]) = 2 => accepted'[j] = accepted[j]
        /\ Len(accepted'[j]) = 2 /\ Len(accepted[j]) # 2 =>
             accepted[j] # << >> /\ accepted'[j][2] = (clock >= signed[j] + Leeway)
    BY <1>2, <1>6, AcceptRecords
  <2>3. ReplayTypeOK'
    BY <1>3, <1>4, <2>1, <2>2 DEF ReplayTypeOK
  <2>4. ASSUME NEW k \in Jtis PROVE
          /\ seen'[k] # 0 => signed[k] # 0 /\ seen'[k] = signed[k] + Leeway
          /\ signed[k] = 0 => accepted'[k] = << >>
          /\ accepted'[k] # << >> => seen'[k] = signed[k] + Leeway \/ clock >= signed[k] + Leeway
    <3>1. CASE k = j
      BY <1>2, <2>1, <3>1
    <3>2. CASE k # j
      <4>1. seen[k] \in Nat /\ signed[k] \in Nat /\ clock \in Nat
        BY DEF ReplayTypeOK
      <4> QED
        BY <1>2, <2>1, <2>2, <3>2, <4>1, Amounts DEF EntryInv
    <3> QED
      BY <3>1, <3>2
  <2>5. EntryInv'
    BY <1>3, <2>4 DEF EntryInv
  <2>6. accepted[j] # << >> => clock >= signed[j] + Leeway
    <3>1. seen[j] \in Nat /\ clock \in Nat
      BY <1>2 DEF ReplayTypeOK
    <3> QED
      BY <1>2, <1>6, <3>1, Amounts DEF EntryInv
  <2>7. \A k \in Jtis : Len(accepted'[k]) = 2 => accepted'[k][2]
    BY <1>2, <2>2, <2>6 DEF AcceptedOnceWhileValid
  <2> QED
    BY <1>4, <2>3, <2>5, <2>7 DEF AcceptedOnceWhileValid
<1> QED
  BY <1>3, <1>5, <1>6

LEMMA ReplayStep ==
  ASSUME ReplayTypeOK, AskInv, EntryInv, AcceptedOnceWhileValid, [ReplayNext]_assertVars
  PROVE  (ReplayTypeOK /\ AskInv /\ EntryInv /\ AcceptedOnceWhileValid)'
<1>0. /\ \A q \in Requests : asking[q] # NoAsk => asking[q].jti \in Jtis /\ asking[q].now \in Nat
      /\ \A j \in Jtis : signed[j] \in Nat
  BY DEF ReplayTypeOK, Ask
<1>1. CASE ReplayTick
  BY <1>0, <1>1, Amounts DEF ReplayTick, ReplayTypeOK, AskInv, EntryInv, AcceptedOnceWhileValid
<1>2. CASE RegisterAgentPublicKey \/ RetireAgentPublicKey
  BY <1>2 DEF RegisterAgentPublicKey, RetireAgentPublicKey, ReplayTypeOK, AskInv, EntryInv, AcceptedOnceWhileValid
<1>3. ASSUME NEW j \in Jtis, Sign(j) PROVE (ReplayTypeOK /\ AskInv /\ EntryInv /\ AcceptedOnceWhileValid)'
  <2>1. PICK d \in 0 .. MaxAhead + 1 : signed' = [signed EXCEPT ![j] = clock + d]
    BY <1>3, Zenon DEF Sign
  <2>2. signed[j] = 0 /\ UNCHANGED <<clock, pubkey, seen, asking, accepted>>
    BY <1>3 DEF Sign
  <2>3. signed' \in [Jtis -> Nat] /\ signed'[j] # 0 /\ \A k \in Jtis \ {j} : signed'[k] = signed[k]
    BY <2>1, Amounts DEF ReplayTypeOK
  <2>4. seen[j] = 0 /\ accepted[j] = << >>
    BY <2>2 DEF EntryInv
  <2>5. AskInv'
    BY <1>0, <2>2, <2>3 DEF AskInv
  <2>6. EntryInv'
    BY <2>2, <2>3, <2>4 DEF EntryInv
  <2> QED
    BY <2>2, <2>3, <2>5, <2>6 DEF ReplayTypeOK, AcceptedOnceWhileValid
<1>4. ASSUME NEW q \in Requests, NEW j \in Jtis, Verify(q, j)
      PROVE  (ReplayTypeOK /\ AskInv /\ EntryInv /\ AcceptedOnceWhileValid)'
  <2> DEFINE ask == [phase |-> "verified", jti |-> j, now |-> clock]
  <2>1. /\ signed[j] # 0 /\ asking' = [asking EXCEPT ![q] = ask]
        /\ UNCHANGED <<clock, pubkey, signed, seen, accepted>>
    BY <1>4 DEF Verify
  <2>2. ask \in Ask /\ ask.jti = j /\ ask.now = clock
    BY DEF Ask, ReplayTypeOK
  <2> HIDE DEF ask
  <2>3. /\ asking' \in [Requests -> {NoAsk} \cup Ask] /\ asking'[q] = ask
        /\ \A p \in Requests \ {q} : asking'[p] = asking[p]
    BY <2>1, <2>2 DEF ReplayTypeOK
  <2>4. AskInv'
    BY <2>1, <2>2, <2>3 DEF AskInv, ReplayTypeOK
  <2> QED
    BY <2>1, <2>3, <2>4 DEF ReplayTypeOK, EntryInv, AcceptedOnceWhileValid
<1>5. ASSUME NEW q \in Requests, Claim(q) PROVE (ReplayTypeOK /\ AskInv /\ EntryInv /\ AcceptedOnceWhileValid)'
  BY <1>5, ClaimStep
<1>6. CASE UNCHANGED assertVars
  BY <1>6 DEF assertVars, ReplayTypeOK, AskInv, EntryInv, AcceptedOnceWhileValid
<1> QED
  BY <1>1, <1>2, <1>3, <1>4, <1>5, <1>6 DEF ReplayNext

(* The cache of assertion ids never accepts an id twice while it can still *)
(* be valid, whatever is claimed and swept meanwhile and however long a    *)
(* request takes between its reading of the clock and its claim.           *)
THEOREM AssertionsAcceptedOnce == ReplaySpec => []AcceptedOnceWhileValid
<1>1. ReplayInit => ReplayTypeOK /\ AskInv /\ EntryInv /\ AcceptedOnceWhileValid
  BY ReplayStart
<1>2. ReplayTypeOK /\ AskInv /\ EntryInv /\ AcceptedOnceWhileValid /\ [ReplayNext]_assertVars
        => (ReplayTypeOK /\ AskInv /\ EntryInv /\ AcceptedOnceWhileValid)'
  BY ReplayStep
<1> QED
  BY <1>1, <1>2, PTL DEF ReplaySpec

=============================================================================
