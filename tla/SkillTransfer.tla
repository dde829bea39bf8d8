---------------------------- MODULE SkillTransfer ----------------------------
(***************************************************************************)
(* Personal skills handed from one user to others (personal_skills.go and  *)
(* package personalskill).  A send copies the sender's folder once into a  *)
(* staging segment and creates one envelope per recipient that points at   *)
(* it; an accept installs the segment into the recipient's Skills/; the    *)
(* segment is deleted when no open envelope points at it, or swept.        *)
(*                                                                         *)
(* A folder is a set of <<file, origin>> pairs, so that a mixture of two   *)
(* folders can be told from a copy of one.  An envelope is named by its    *)
(* segment and recipient, and expires between the hours exp and exp + 1.   *)
(***************************************************************************)
EXTENDS Naturals, FiniteSets

CONSTANTS
  Segs,           \* staging segments, one per send
  Recipients,
  Names,          \* skill names 1..n: base, base-2, ...
  Files,          \* files of a skill folder
  XferCalls,      \* calls in flight
  TransferTTL,    \* skillTransferExpiry, in hours
  SweepAge,       \* StagingSweepAge
  XferWorlds      \* what a behaviour starts from and may do; its hours are a bound

ASSUME SweepAssumption == SweepAge > TransferTTL

VARIABLES
  xferWorld, hour,
  staging,        \* staging[g]: the files of segment g
  sealed,         \* sealed[g]: what the content hash of the send to g covers
  stagedAt,       \* stagedAt[g]: its modification time; 0 before the send
  offer,          \* offer[g][r]: the transfer envelope
  skills,         \* skills[r][n]: the folder Skills/<n>
  stagedDir,      \* stagedDir[r][n]: Skills/.<n>.staged
  oldDir,         \* oldDir[r][n]: Skills/.<n>.old
  segLock,        \* segLock[g]: the call holding the segment's mutex
  xfer,           \* xfer[c]: the call c is serving
  installs,       \* installs[g][r]: installs of the envelope not answered with an error
  early,          \* the segments found unreferenced while their send still fanned out
  overlap,        \* the <<r, n>> two installs or deletions have worked on at once, or
                  \* whose deletion was interrupted
  kept            \* the <<r, n>> that held a skill its owner has not deleted

diskVars == <<staging, sealed, stagedAt, skills, stagedDir, oldDir>>
ghostVars == <<installs, early, overlap, kept>>
xferVars == <<xferWorld, hour, staging, sealed, stagedAt, offer, skills, stagedDir, oldDir,
              segLock, xfer, installs, early, overlap, kept>>

NoXfer == [pc |-> "idle"]
NoOffer == [state |-> "none", exp |-> 0]
Nobody == "nobody"
Whole(origin) == Files \X {origin}

XferInit ==
  /\ xferWorld \in XferWorlds
  /\ hour = 1
  /\ staging = [g \in Segs |-> {}]
  /\ sealed = [g \in Segs |-> {}]
  /\ stagedAt = [g \in Segs |-> 0]
  /\ offer = [g \in Segs |-> [r \in Recipients |-> NoOffer]]
  /\ skills = [r \in Recipients |-> [n \in Names |-> IF n \in xferWorld.own THEN Whole("own") ELSE {}]]
  /\ stagedDir = [r \in Recipients |-> [n \in Names |-> {}]]
  /\ oldDir = [r \in Recipients |-> [n \in Names |-> {}]]
  /\ segLock = [g \in Segs |-> Nobody]
  /\ xfer = [c \in XferCalls |-> NoXfer]
  /\ installs = [g \in Segs |-> [r \in Recipients |-> 0]]
  /\ early = {}
  /\ overlap = {}
  /\ kept = Recipients \X xferWorld.own

(* Something fails that had no reason to: one of the world's faults. *)
Fault == xferWorld.faults > 0 /\ xferWorld' = [xferWorld EXCEPT !.faults = @ - 1]
(* A step fails because it must, or by a fault. *)
Fails(must) == IF must THEN UNCHANGED xferWorld ELSE Fault
XferOp(op) == op \in xferWorld.ops
XferAt(c, pc) == xfer[c].pc = pc
XferStart(c, call) == xfer[c] = NoXfer /\ xfer' = [xfer EXCEPT ![c] = call]
Goto(c, pc) == xfer' = [xfer EXCEPT ![c].pc = pc]
(* A handler returns: the deferred unlock runs. *)
Return(c, g) ==
  /\ xfer' = [xfer EXCEPT ![c] = NoXfer]
  /\ segLock' = [segLock EXCEPT ![g] = IF @ = c THEN Nobody ELSE @]

OpenOffer(g, r) == offer[g][r].state = "DELIVERED"

(* No call takes longer than the hour StagingSweepAge leaves it. *)
Hour ==
  /\ hour < xferWorld.hours
  /\ \A c \in XferCalls : xfer[c] # NoXfer => xfer[c].since = hour
  /\ hour' = hour + 1
  /\ UNCHANGED <<xferWorld, diskVars, offer, segLock, xfer, ghostVars>>

-----------------------------------------------------------------------------
(* SendSkillTransfer                                                        *)

(* Snapshot reads the sender's files one by one - the ones in late after   *)
(* an edit of the folder, which it cannot tell -, hashes what it read and  *)
(* writes that into a fresh segment.  One that fails part way, or whose    *)
(* recipients are refused, is deleted before anyone knows its name.        *)
Snapshot(c, g) ==
  /\ XferOp("send") /\ stagedAt[g] = 0 /\ hour = 1
  /\ \E to \in xferWorld.to :
       XferStart(c, [pc |-> "fanout", seg |-> g, todo |-> to, sent |-> FALSE, since |-> hour])
  /\ \E late \in xferWorld.edits :
       sealed' = [sealed EXCEPT ![g] = (Files \ late) \X {g} \cup late \X {"edited"}]
  /\ staging' = [staging EXCEPT ![g] = sealed'[g]]
  /\ stagedAt' = [stagedAt EXCEPT ![g] = hour]
  /\ UNCHANGED <<xferWorld, hour, offer, skills, stagedDir, oldDir, segLock, ghostVars>>

(* One envelope per recipient; a failed insert is skipped. *)
FanOut(c) ==
  LET s == xfer[c]
  IN  /\ XferAt(c, "fanout")
      /\ \E r \in s.todo, ok \in BOOLEAN :
           /\ offer' = [offer EXCEPT ![s.seg][r] =
                          IF ok THEN [state |-> "DELIVERED", exp |-> hour + TransferTTL] ELSE @]
           /\ xfer' = [xfer EXCEPT ![c] = [s EXCEPT !.todo = @ \ {r}, !.sent = @ \/ ok]]
      /\ UNCHANGED <<xferWorld, hour, diskVars, segLock, ghostVars>>

SendSkillTransfer(c) ==
  LET s == xfer[c]
  IN  /\ XferAt(c, "fanout") /\ s.todo = {}
      /\ staging' = IF s.sent THEN staging ELSE [staging EXCEPT ![s.seg] = {}]
      /\ xfer' = [xfer EXCEPT ![c] = NoXfer]
      /\ UNCHANGED <<xferWorld, hour, sealed, stagedAt, offer, skills, stagedDir, oldDir, segLock, ghostVars>>

-----------------------------------------------------------------------------
(* Preview, accept and dismiss                                              *)

(* loadSkillTransferEnvelope, before the lock and again under it. *)
loadSkillTransferEnvelope(g, r) == OpenOffer(g, r)

Begin(c, op, g, r) ==
  /\ XferOp(op) /\ loadSkillTransferEnvelope(g, r)
  /\ XferStart(c, [pc |-> "lock", op |-> op, seg |-> g, to |-> r, since |-> hour])
  /\ UNCHANGED <<xferWorld, hour, diskVars, offer, segLock, ghostVars>>

lockStagingSegment(c) ==
  LET g == xfer[c].seg
  IN  /\ XferAt(c, "lock") /\ segLock[g] = Nobody
      /\ segLock' = [segLock EXCEPT ![g] = c]
      /\ Goto(c, IF xfer[c].op = "dismiss" THEN "count" ELSE "reload")
      /\ UNCHANGED <<xferWorld, hour, diskVars, offer, ghostVars>>

(* The second load: an answered envelope ends the call, an expired one is  *)
(* dismissed (settleExpiredTransfer), a preview reads the segment.         *)
Reload(c) ==
  LET s == xfer[c]
      open == loadSkillTransferEnvelope(s.seg, s.to)
      expired == offer[s.seg][s.to].exp < hour
  IN  /\ XferAt(c, "reload")
      /\ IF open /\ expired
           THEN /\ offer' = [offer EXCEPT ![s.seg][s.to].state = "DISMISSED"]
                /\ Goto(c, "count") /\ UNCHANGED segLock
           ELSE /\ UNCHANGED offer
                /\ IF open /\ s.op = "accept" THEN Goto(c, "name") /\ UNCHANGED segLock
                   ELSE Return(c, s.seg)
      /\ UNCHANGED <<xferWorld, hour, diskVars, ghostVars>>

(* DismissEnvelope's update runs before it takes the lock. *)
DismissTransfer(c, g, r) ==
  /\ XferOp("dismiss") /\ OpenOffer(g, r)
  /\ offer' = [offer EXCEPT ![g][r].state = "DISMISSED"]
  /\ XferStart(c, [pc |-> "lock", op |-> "dismiss", seg |-> g, to |-> r, since |-> hour])
  /\ UNCHANGED <<xferWorld, hour, diskVars, segLock, ghostVars>>

Fanning == {xfer[d].seg : d \in {d \in XferCalls : XferAt(d, "fanout")}}

(* Mutant: the envelopes that were accepted are counted. *)
CountEnvelopesAccepted(g) == {r \in Recipients : offer[g][r].state = "ACCEPTED"}

CountEnvelopesByPayloadRef(g) == {r \in Recipients : OpenOffer(g, r)}

(* The count, then the deletion; a failed count leaves the segment. *)
gcStagingIfUnreferenced(c) ==
  LET g == xfer[c].seg
  IN  /\ XferAt(c, "count")
      /\ \/ /\ CountEnvelopesByPayloadRef(g) = {} /\ Goto(c, "gc") /\ UNCHANGED segLock
            /\ early' = early \cup ({g} \cap Fanning)
         \/ Return(c, g) /\ UNCHANGED early
      /\ UNCHANGED <<xferWorld, hour, diskVars, offer, installs, overlap, kept>>

gcStagingSegment(c) ==
  LET g == xfer[c].seg
  IN  /\ XferAt(c, "gc")
      /\ staging' = [staging EXCEPT ![g] = {}]
      /\ Return(c, g)
      /\ UNCHANGED <<xferWorld, hour, sealed, stagedAt, offer, skills, stagedDir, oldDir, ghostVars>>

(* SweepStaging: by age, without the lock. *)
SweepStaging(g) ==
  /\ staging[g] # {} /\ stagedAt[g] + SweepAge < hour
  /\ staging' = [staging EXCEPT ![g] = {}]
  /\ UNCHANGED <<xferWorld, hour, sealed, stagedAt, offer, skills, stagedDir, oldDir, segLock, xfer, ghostVars>>

-----------------------------------------------------------------------------
(* Install                                                                  *)

skillExists(r, n) == skills[r][n] # {}
Working(r, n) == {d \in XferCalls : xfer[d].pc \in {"list", "clear", "copy", "aside", "swap", "drop", "delete"}
                                     /\ xfer[d].to = r /\ xfer[d].name = n}
Meet(r, n) == IF Working(r, n) = {} THEN overlap ELSE overlap \cup {<<r, n>>}

(* FreeName, a name override, or the sender's own name to replace. *)
FreeName(r) == CHOOSE n \in Names : ~skillExists(r, n) /\ \A k \in Names : k < n => skillExists(r, k)

ChooseName(c) ==
  LET s == xfer[c]
      rename == IF \E n \in Names : ~skillExists(s.to, n) THEN {<<FreeName(s.to), FALSE>>} ELSE {}
  IN  /\ XferAt(c, "name")
      /\ \E t \in rename \cup {<<1, TRUE>>} :
           LET there == skillExists(s.to, t[1])
           IN  /\ xfer' = [xfer EXCEPT ![c] =
                    [pc |-> "list", op |-> "accept", seg |-> s.seg, to |-> s.to, since |-> s.since,
                     name |-> t[1], exists |-> there, left |-> {}]]
               /\ overlap' = Meet(s.to, t[1])
      /\ UNCHANGED <<xferWorld, hour, diskVars, offer, segLock, installs, early, kept>>

ListStaged(c) ==
  /\ XferAt(c, "list")
  /\ xfer' = [xfer EXCEPT ![c].pc = "clear", ![c].left = staging[xfer[c].seg]]
  /\ UNCHANGED <<xferWorld, hour, diskVars, offer, segLock, ghostVars>>

ClearStaged(c) ==
  LET s == xfer[c]
  IN  /\ XferAt(c, "clear")
      /\ stagedDir' = [stagedDir EXCEPT ![s.to][s.name] = {}]
      /\ Goto(c, "copy")
      /\ UNCHANGED <<xferWorld, hour, staging, sealed, stagedAt, offer, skills, oldDir, segLock, ghostVars>>

(* One file: read from the segment, written into the hidden folder. *)
CopyFile(c) ==
  LET s == xfer[c]
  IN  /\ XferAt(c, "copy")
      /\ \E f \in s.left :
           /\ f \in staging[s.seg]
           /\ stagedDir' = [stagedDir EXCEPT ![s.to][s.name] =
                              {x \in @ : x[1] # f[1]} \cup {f}]
           /\ xfer' = [xfer EXCEPT ![c].left = @ \ {f}]
      /\ UNCHANGED <<xferWorld, hour, staging, sealed, stagedAt, offer, skills, oldDir, segLock, ghostVars>>

(* A copy that fails (a missing file, the quota) drops the hidden folder. *)
CopyFails(c) ==
  LET s == xfer[c]
  IN  /\ XferAt(c, "copy") /\ s.left # {}
      /\ Fails(~(s.left \subseteq staging[s.seg]))
      /\ stagedDir' = [stagedDir EXCEPT ![s.to][s.name] = {}]
      /\ Return(c, s.seg)
      /\ UNCHANGED <<hour, staging, sealed, stagedAt, offer, skills, oldDir, ghostVars>>

(* The existing folder is renamed aside over a cleared .old; a rename that *)
(* fails drops the hidden folder.                                          *)
MoveAside(c) ==
  LET s == xfer[c]
  IN  /\ XferAt(c, "copy") /\ s.left = {} /\ s.exists
      /\ \/ /\ skillExists(s.to, s.name)
            /\ oldDir' = [oldDir EXCEPT ![s.to][s.name] = skills[s.to][s.name]]
            /\ skills' = [skills EXCEPT ![s.to][s.name] = {}]
            /\ Goto(c, "swap")
            /\ UNCHANGED <<xferWorld, stagedDir, segLock>>
         \/ /\ Fails(~skillExists(s.to, s.name))
            /\ oldDir' = [oldDir EXCEPT ![s.to][s.name] = {}]
            /\ stagedDir' = [stagedDir EXCEPT ![s.to][s.name] = {}]
            /\ Return(c, s.seg)
            /\ UNCHANGED skills
      /\ UNCHANGED <<hour, staging, sealed, stagedAt, offer, ghostVars>>

(* The hidden folder is renamed into place.  If that fails the old folder  *)
(* is renamed back, and whether that worked is not looked at.              *)
Swap(c) ==
  LET s == xfer[c]
      ready == XferAt(c, "swap") \/ (XferAt(c, "copy") /\ s.left = {} /\ ~s.exists)
      can == stagedDir[s.to][s.name] # {} /\ skills[s.to][s.name] = {}
      restore == s.exists /\ skills[s.to][s.name] = {}
  IN  /\ ready
      /\ \/ /\ can
            /\ skills' = [skills EXCEPT ![s.to][s.name] = stagedDir[s.to][s.name]]
            /\ stagedDir' = [stagedDir EXCEPT ![s.to][s.name] = {}]
            /\ Goto(c, IF s.exists THEN "drop" ELSE "settle")
            /\ installs' = [installs EXCEPT ![s.seg][s.to] = @ + 1]
            /\ kept' = kept \cup {<<s.to, s.name>>}
            /\ UNCHANGED <<xferWorld, oldDir, segLock>>
         \/ /\ \/ /\ Fails(~can) /\ restore
                  /\ skills' = [skills EXCEPT ![s.to][s.name] = oldDir[s.to][s.name]]
                  /\ oldDir' = [oldDir EXCEPT ![s.to][s.name] = {}]
               \/ Fails(~can /\ ~restore) /\ UNCHANGED <<skills, oldDir>>
            /\ stagedDir' = [stagedDir EXCEPT ![s.to][s.name] = {}]
            /\ Return(c, s.seg)
            /\ UNCHANGED <<installs, kept>>
      /\ UNCHANGED <<hour, staging, sealed, stagedAt, offer, early, overlap>>

(* An accept that installed its envelope ends with an error. *)
Unanswered(s) == installs' = [installs EXCEPT ![s.seg][s.to] = @ - 1]

(* The renamed folder is deleted; if that fails the accept fails although  *)
(* the new folder is in place, and can be repeated.                        *)
DropOld(c) ==
  LET s == xfer[c]
  IN  /\ XferAt(c, "drop")
      /\ \/ /\ oldDir' = [oldDir EXCEPT ![s.to][s.name] = {}]
            /\ Goto(c, "settle")
            /\ UNCHANGED <<xferWorld, segLock, installs>>
         \/ Fault /\ Unanswered(s) /\ Return(c, s.seg) /\ UNCHANGED oldDir
      /\ UNCHANGED <<hour, staging, sealed, stagedAt, offer, skills, stagedDir, early,
                     overlap, kept>>

(* RespondEnvelope moves the envelope to ACCEPTED.  It fails when the      *)
(* envelope was dismissed or has just expired, and it may fail of itself,  *)
(* done or not: then the accept fails with the skill in place, and an      *)
(* envelope that is still open can be accepted again.                      *)
AcceptSkillTransfer(c) ==
  LET s == xfer[c]
      may == OpenOffer(s.seg, s.to) /\ offer[s.seg][s.to].exp >= hour
      settled == [offer EXCEPT ![s.seg][s.to].state = "ACCEPTED"]
  IN  /\ XferAt(c, "settle")
      /\ \/ /\ may /\ offer' = settled
            /\ Goto(c, "count") /\ UNCHANGED <<xferWorld, segLock, installs>>
         \/ /\ Fails(~may)
            /\ offer' \in (IF may THEN {offer, settled} ELSE {offer})
            /\ Unanswered(s)
            /\ Return(c, s.seg)
      /\ UNCHANGED <<hour, diskVars, early, overlap, kept>>

(* The broker stops: its calls end where they are and the locks are free. *)
XferCrash ==
  /\ \E c \in XferCalls : xfer[c] # NoXfer
  /\ Fault
  /\ xfer' = [c \in XferCalls |-> NoXfer]
  /\ segLock' = [g \in Segs |-> Nobody]
  /\ installs' = [g \in Segs |-> [r \in Recipients |->
       IF \E c \in XferCalls : xfer[c].pc \in {"drop", "settle"} /\ xfer[c].seg = g /\ xfer[c].to = r
         THEN installs[g][r] - 1 ELSE installs[g][r]]]
  /\ overlap' = overlap \cup {<<xfer[c].to, xfer[c].name>> : c \in {d \in XferCalls : XferAt(d, "delete")}}
  /\ UNCHANGED <<hour, diskVars, offer, early, kept>>

(* DeletePersonalSkill: the files first, then the folder. *)
DeletePersonalSkill(c, r, n) ==
  /\ XferOp("delete") /\ skillExists(r, n)
  /\ XferStart(c, [pc |-> "delete", to |-> r, name |-> n, since |-> hour])
  /\ overlap' = Meet(r, n)
  /\ kept' = kept \ {<<r, n>>}
  /\ UNCHANGED <<xferWorld, hour, diskVars, offer, segLock, installs, early>>

DeleteFile(c) ==
  LET s == xfer[c]
  IN  /\ XferAt(c, "delete")
      /\ \/ \E f \in skills[s.to][s.name] :
              /\ skills' = [skills EXCEPT ![s.to][s.name] = @ \ {f}]
              /\ UNCHANGED xfer
         \/ /\ skills[s.to][s.name] = {}
            /\ xfer' = [xfer EXCEPT ![c] = NoXfer]
            /\ UNCHANGED skills
      /\ UNCHANGED <<xferWorld, hour, staging, sealed, stagedAt, offer, stagedDir, oldDir, segLock, ghostVars>>

-----------------------------------------------------------------------------
XferStep(c) ==
  \/ FanOut(c) \/ SendSkillTransfer(c) \/ lockStagingSegment(c) \/ Reload(c)
  \/ gcStagingIfUnreferenced(c) \/ gcStagingSegment(c)
  \/ ChooseName(c) \/ ListStaged(c) \/ ClearStaged(c) \/ CopyFile(c) \/ CopyFails(c)
  \/ MoveAside(c) \/ Swap(c) \/ DropOld(c) \/ AcceptSkillTransfer(c) \/ DeleteFile(c)

XferNext ==
  \/ Hour \/ XferCrash
  \/ \E g \in Segs : SweepStaging(g)
  \/ \E c \in XferCalls :
       \/ XferStep(c)
       \/ \E g \in Segs : Snapshot(c, g)
       \/ \E g \in Segs, r \in Recipients :
            \/ Begin(c, "preview", g, r) \/ Begin(c, "accept", g, r)
            \/ DismissTransfer(c, g, r)
       \/ \E r \in Recipients, n \in Names : DeletePersonalSkill(c, r, n)

XferSpec == XferInit /\ [][XferNext]_xferVars

-----------------------------------------------------------------------------
(* A transfer hands over one whole skill, whatever races and fails.        *)
(*  - The segment of an open, unexpired envelope holds what its content     *)
(*    hash covers ("The segment must survive until every envelope pointing *)
(*    at it has settled"), unless it was counted out while its send was    *)
(*    still fanning out.                                                   *)
(*  - Of the accepts of an envelope at most one installs it and is not     *)
(*    answered with an error, however many race and whatever dismissals,   *)
(*    expiries and failed settlements come between.                        *)
(*  - G16: outside an install, a skill folder is a whole copy of what was  *)
(*    sealed or of its owner's own, and one its owner has not deleted is   *)
(*    there or, after a failed restore or a crash between the renames,     *)
(*    whole in Skills/.<name>.old - although copies and renames fail and   *)
(*    segments disappear.  Two installs into one name at once, which the   *)
(*    code does not serialise, and an interrupted deletion are left out.   *)
TransfersAreWhole ==
  /\ \A g \in Segs, r \in Recipients :
       (OpenOffer(g, r) /\ offer[g][r].exp >= hour /\ g \notin early) => staging[g] = sealed[g]
  /\ \A g \in Segs, r \in Recipients : installs[g][r] <= 1
  /\ \A r \in Recipients, n \in Names :
       LET whole(folder) == folder \in {Whole("own")} \cup {sealed[g] : g \in Segs}
       IN  (Working(r, n) = {} /\ <<r, n>> \notin overlap) =>
             /\ skills[r][n] = {} \/ whole(skills[r][n])
             /\ <<r, n>> \in kept /\ skills[r][n] = {} =>
                  oldDir[r][n] # {} /\ whole(oldDir[r][n])
=============================================================================
