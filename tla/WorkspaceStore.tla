--------------------------- MODULE WorkspaceStore ---------------------------
(***************************************************************************)
(* One user's local workspace (workspacefs.Store): writes, moves, deletes  *)
(* and verified reads of files and of session records, whose HMAC sidecar  *)
(* binds content to path, under quotas of bytes and of entries that also   *)
(* cover the user's staging segments.  The folders of the paths are there, *)
(* so a new file is one new entry.                                         *)
(*                                                                         *)
(* A file's content is the number of the write that made it; a sidecar     *)
(* names the path and content it was computed from.  lockUser is per       *)
(* directory segment, so each staging segment has a mutex of its own.      *)
(***************************************************************************)
EXTENDS Integers, FiniteSets, FiniteSetsExt

CONSTANTS
  Paths,
  Sessions,       \* the paths under .agent/Sessions/
  StagedPaths,    \* paths in staging segments of the user, one segment each
  Editors,        \* calls in flight
  FileMax,        \* MaxFileBytes
  SigSize,        \* the bytes of a sidecar
  FsWorlds        \* what a behaviour may do, with which paths and calls, and its
                  \* quota_bytes and quota_entries; writes and sizes bound the writes

ASSUME PathsAssumption == Sessions \subseteq Paths /\ StagedPaths \subseteq Paths \ Sessions

VARIABLES
  fsWorld,
  serving,        \* requests are accepted: ResignLegacySessions has run
  disk,           \* disk[p]: the content at p, 0 when absent
  sidecar,        \* sidecar[p]: the sidecar next to p
  size,           \* size[k]: the size of content k, for the writes so far
  dirLock,        \* dirLock[seg]: the call holding lockUser
  edit,           \* edit[c]: the call c is serving
  placed,         \* placed[p]: the contents the store has put at p
  live,           \* contents written and since neither replaced nor deleted
  torn,           \* paths whose writer stopped between content and sidecar
  served          \* the last session record served: path, content, legacy

fsVars == <<fsWorld, serving, disk, sidecar, size, dirLock, edit, placed, live, torn, served>>

NoEdit == [pc |-> "idle"]
NoSidecar == [kind |-> "none"]
NoOwner == "nobody"
Foreign == 99      \* bytes no write of the store made
Nothing == [path |-> "none", content |-> 0, legacy |-> FALSE]
Seg(p) == IF p \in StagedPaths THEN p ELSE "own"
DirSegs == StagedPaths \cup {"own"}
Written == DOMAIN size

(* A path-bound MAC verifies only the content and the path it was made of. *)
sign(p, k) == [kind |-> "bound", path |-> p, content |-> k]
signLegacy(k) == [kind |-> "legacy", content |-> k]

FsInit ==
  /\ fsWorld \in FsWorlds
  /\ serving = (fsWorld.legacy = {})
  /\ disk = [p \in Paths |-> IF p \in fsWorld.legacy THEN 1 ELSE 0]
  /\ sidecar = [p \in Paths |-> IF p \in fsWorld.legacy THEN signLegacy(1) ELSE NoSidecar]
  /\ size = IF fsWorld.legacy # {} THEN [k \in {1} |-> 1] ELSE [k \in {} |-> 1]
  /\ dirLock = [s \in DirSegs |-> NoOwner]
  /\ edit = [c \in Editors |-> NoEdit]
  /\ placed = [p \in Paths |-> IF p \in fsWorld.legacy THEN {1} ELSE {}]
  /\ live = IF fsWorld.legacy # {} THEN {1} ELSE {}
  /\ torn = {}
  /\ served = Nothing

FsOp(op) == op \in fsWorld.ops
EditAt(c, pc) == edit[c].pc = pc
Take(c, p, call) ==
  /\ serving /\ edit[c] = NoEdit /\ dirLock[Seg(p)] = NoOwner
  /\ dirLock' = [dirLock EXCEPT ![Seg(p)] = c]
  /\ edit' = [edit EXCEPT ![c] = call]
Step(c, pc) == edit' = [edit EXCEPT ![c].pc = pc]
Release(c) ==
  /\ edit' = [edit EXCEPT ![c] = NoEdit]
  /\ dirLock' = [s \in DOMAIN dirLock |-> IF dirLock[s] = c THEN NoOwner ELSE dirLock[s]]
Forget(p) == live \ {disk[p]}

-----------------------------------------------------------------------------
(* Write                                                                    *)

Stored == {p \in Paths : disk[p] # 0}
Signed == {p \in Paths : sidecar[p] # NoSidecar}
SizeAt(p) == IF disk[p] = 0 THEN 0 ELSE size[disk[p]]
contentBytes == MapThenSumSet(SizeAt, Paths)

(* The walk covers the user's directory and all their staging segments,    *)
(* sidecars included; an overwrite counts its net growth, the sidecar of   *)
(* the write is not counted ahead, and a quota of 0 is off.                *)
checkQuota(p, n) ==
  /\ fsWorld.quota = 0
       \/ contentBytes + SigSize * Cardinality(Signed) + n - SizeAt(p) <= fsWorld.quota
  /\ fsWorld.entries = 0
       \/ Cardinality(Stored) + Cardinality(Signed) + Cardinality({p} \ Stored) <= fsWorld.entries

(* Write takes lockUser and checks the quota; a write that does not fit    *)
(* returns.                                                                *)
Write(c, p, n) ==
  /\ FsOp("write") /\ Cardinality(Written) < fsWorld.writes
  /\ checkQuota(p, n)
  /\ Take(c, p, [pc |-> "rename", op |-> "write", path |-> p, size |-> n])
  /\ UNCHANGED <<fsWorld, serving, disk, sidecar, size, placed, live, torn, served>>

(* writeAtClean renames the new content over the path in one step. *)
writeAtClean(c) ==
  LET p == edit[c].path
      k == Cardinality(Written) + 1
  IN  /\ EditAt(c, "rename") /\ Cardinality(Written) < fsWorld.writes
      /\ disk' = [disk EXCEPT ![p] = k]
      /\ size' = [j \in Written \cup {k} |-> IF j = k THEN edit[c].size ELSE size[j]]
      /\ live' = Forget(p) \cup {k}
      /\ placed' = [placed EXCEPT ![p] = @ \cup {k}]
      /\ IF p \in Sessions THEN Step(c, "sign") /\ UNCHANGED dirLock ELSE Release(c)
      /\ torn' = IF p \in Sessions THEN torn ELSE torn \ {p}
      /\ UNCHANGED <<fsWorld, serving, sidecar, served>>

(* The sidecar is written from the same bytes, after them. *)
SignRecord(c) ==
  LET p == edit[c].path
  IN  /\ EditAt(c, "sign")
      /\ sidecar' = [sidecar EXCEPT ![p] = sign(p, disk[p])]
      /\ torn' = torn \ {p}
      /\ Release(c)
      /\ UNCHANGED <<fsWorld, serving, disk, size, placed, live, served>>

(* A sidecar that cannot be written, or a stop of the broker here. *)
SignFails(c) ==
  /\ FsOp("fail") /\ EditAt(c, "sign")
  /\ torn' = torn \cup {edit[c].path}
  /\ Release(c)
  /\ UNCHANGED <<fsWorld, serving, disk, sidecar, size, placed, live, served>>

-----------------------------------------------------------------------------
(* Delete, Move                                                             *)

Delete(c, p) ==
  /\ FsOp("delete") /\ disk[p] # 0
  /\ Take(c, p, [pc |-> "unsign", path |-> p])
  /\ disk' = [disk EXCEPT ![p] = 0]
  /\ live' = Forget(p)
  /\ UNCHANGED <<fsWorld, serving, sidecar, size, placed, torn, served>>

DropSidecar(c) ==
  LET p == edit[c].path
  IN  /\ EditAt(c, "unsign")
      /\ sidecar' = [sidecar EXCEPT ![p] = NoSidecar]
      /\ torn' = torn \ {p}
      /\ Release(c)
      /\ UNCHANGED <<fsWorld, serving, disk, size, placed, live, served>>

(* readAndVerify on what was read: verified, legacy, or refused. *)
Verified(p, k, sig) == sig = sign(p, k)
Legacy(k, sig) == fsWorld.unsigned /\ (sig = NoSidecar \/ sig = signLegacy(k))

MayMove(p) == p \in Sessions => (Verified(p, disk[p], sidecar[p]) \/ Legacy(disk[p], sidecar[p]))

Vacant(q) == disk[q] = 0

(* The rename; both paths are in the user's own directory. *)
Move(c, p, q) ==
  /\ FsOp("move") /\ p # q /\ Seg(p) = Seg(q) /\ disk[p] # 0
  /\ MayMove(p) /\ Vacant(q)
  /\ Take(c, p, [pc |-> "unsignOld", from |-> p, path |-> q])
  /\ disk' = [disk EXCEPT ![q] = disk[p], ![p] = 0]
  /\ placed' = [placed EXCEPT ![q] = @ \cup (IF p \in Sessions THEN {disk[p]} \cap placed[p] ELSE {disk[p]})]
  /\ UNCHANGED <<fsWorld, serving, sidecar, size, live, torn, served>>

(* Mutant: the destination keeps no sidecar. *)
MoveSidecarOldOnly(c) ==
  /\ EditAt(c, "unsignOld")
  /\ sidecar' = [sidecar EXCEPT ![edit[c].from] = NoSidecar]
  /\ Release(c)
  /\ UNCHANGED <<fsWorld, serving, disk, size, placed, live, torn, served>>

MoveSidecar(c) ==
  LET p == edit[c].from
      q == edit[c].path
  IN  /\ EditAt(c, "unsignOld")
      /\ sidecar' = [sidecar EXCEPT ![p] = NoSidecar, ![q] = IF q \in Sessions THEN @ ELSE NoSidecar]
      /\ torn' = torn \ {p}
      /\ IF q \in Sessions THEN Step(c, "sign") /\ UNCHANGED dirLock ELSE Release(c)
      /\ UNCHANGED <<fsWorld, serving, disk, size, placed, live, served>>

-----------------------------------------------------------------------------
(* Reads take no lock: the record, then its sidecar.                        *)

readAtClean(c, p) ==
  /\ FsOp("read") /\ serving /\ edit[c] = NoEdit /\ p \in Sessions /\ disk[p] # 0
  /\ edit' = [edit EXCEPT ![c] = [pc |-> "verify", path |-> p, content |-> disk[p]]]
  /\ UNCHANGED <<fsWorld, serving, disk, sidecar, size, dirLock, placed, live, torn, served>>

readAndVerify(c) ==
  LET p == edit[c].path
      k == edit[c].content
  IN  /\ EditAt(c, "verify")
      /\ edit' = [edit EXCEPT ![c] = NoEdit]
      /\ served' = IF Verified(p, k, sidecar[p]) THEN [path |-> p, content |-> k, legacy |-> FALSE]
                   ELSE IF Legacy(k, sidecar[p]) THEN [path |-> p, content |-> k, legacy |-> TRUE]
                   ELSE Nothing
      /\ UNCHANGED <<fsWorld, serving, disk, sidecar, size, dirLock, placed, live, torn>>

(* The migration before serving: a content-only sidecar that matches is    *)
(* replaced by a path-bound one.                                           *)
ResignLegacySessions ==
  /\ ~serving /\ serving' = TRUE
  /\ sidecar' = [p \in Paths |-> IF p \in Sessions /\ disk[p] # 0 /\ sidecar[p] = signLegacy(disk[p])
                                   THEN sign(p, disk[p]) ELSE sidecar[p]]
  /\ UNCHANGED <<fsWorld, disk, size, dirLock, edit, placed, live, torn, served>>

(* Outside the store, while no write or move is under way: a record is     *)
(* copied onto another with its sidecar (a restored backup, a synchronised *)
(* folder), or its bytes are edited. It happens after the migration, which *)
(* adopts whatever content-only record it finds.                           *)
Quiet == serving /\ \A c \in Editors : edit[c].pc \notin {"unsignOld", "sign", "rename", "unsign"}

CopiedOutside(p, q) ==
  /\ FsOp("outside") /\ Quiet /\ p # q /\ {p, q} \subseteq Sessions /\ disk[p] # 0
  /\ disk' = [disk EXCEPT ![q] = disk[p]]
  /\ sidecar' = [sidecar EXCEPT ![q] = sidecar[p]]
  /\ live' = Forget(q)
  /\ torn' = torn \cup {q}
  /\ UNCHANGED <<fsWorld, serving, size, dirLock, edit, placed, served>>

EditedOutside(p) ==
  /\ FsOp("outside") /\ Quiet /\ p \in Sessions /\ disk[p] \notin {0, Foreign}
  /\ disk' = [disk EXCEPT ![p] = Foreign]
  /\ live' = Forget(p)
  /\ torn' = torn \cup {p}
  /\ UNCHANGED <<fsWorld, serving, sidecar, size, dirLock, edit, placed, served>>

FsNext ==
  \/ ResignLegacySessions
  \/ \E p, q \in Paths : CopiedOutside(p, q) \/ EditedOutside(p)
  \/ \E c \in fsWorld.editors :
       \/ \E p \in fsWorld.paths, n \in 1..fsWorld.sizes : Write(c, p, n)
       \/ \E p \in Paths : Delete(c, p) \/ readAtClean(c, p)
       \/ \E p, q \in fsWorld.paths : Move(c, p, q)
       \/ writeAtClean(c) \/ SignRecord(c) \/ SignFails(c) \/ DropSidecar(c)
       \/ MoveSidecar(c) \/ readAndVerify(c)

FsSpec == FsInit /\ [][FsNext]_fsVars

-----------------------------------------------------------------------------
(* What a user's workspace promises about the files in it.                 *)
(*  - F40: a session record served as verified is content the store itself *)
(*    put at that path, whatever was copied on the disk, moved, or read    *)
(*    between a record and its sidecar.                                    *)
(*  - A record nobody is writing can be read back: content and sidecar     *)
(*    agree, unless its sidecar was not written or it was changed outside. *)
(*  - Moves neither clobber nor lose: what was written and neither         *)
(*    replaced by a write nor deleted is on the disk.                      *)
(*  - F33: each segment is checked under a lock of its own, so the files   *)
(*    of the pool pass its quotas by at most one write of every segment    *)
(*    but one, the writes that the last check has not seen.  (Sidecars     *)
(*    come on top: no check counts one ahead.)                             *)
RecordsAreOurs ==
  /\ (served # Nothing /\ ~served.legacy) => served.content \in placed[served.path]
  /\ \A p \in Sessions :
       (serving /\ disk[p] # 0 /\ p \notin torn /\ dirLock["own"] = NoOwner) =>
         Verified(p, disk[p], sidecar[p])
  /\ live \subseteq {disk[p] : p \in Paths}
  /\ LET unseen == Cardinality(DirSegs) - 1
     IN  /\ fsWorld.quota # 0 => contentBytes <= fsWorld.quota + unseen * FileMax
         /\ fsWorld.entries # 0 => Cardinality(Stored) <= fsWorld.entries + unseen
=============================================================================
