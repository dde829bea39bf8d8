------------------------------ MODULE MCWorkspace ------------------------------
(***************************************************************************)
(* What users keep and share, on small instances: workflows and the list of *)
(* them, skills sent to colleagues, the files of a workspace and the choice *)
(* of where they are stored.  They share no state, so one of them works in  *)
(* each behaviour and the others stay as they began; the slots of all their *)
(* calls are the same model values.                                         *)
(***************************************************************************)
EXTENDS Workflows, WorkflowList, SkillTransfer, WorkspaceStore,
        WorkspaceRouting, TLC

(* SkillTransfer *)
XferWorld(ops, owned, to, faults, hours) ==
  [ops |-> ops, own |-> owned, to |-> to, faults |-> faults, hours |-> hours,
   edits |-> {IF faults > 0 THEN {"ref"} ELSE {}}]

Sharing == XferWorld({"send", "accept", "dismiss", "preview"}, {}, {Recipients}, 0, 4)
Replacing == XferWorld({"send", "accept", "delete"}, {1}, {{"r1"}}, 1, 1)
MCXferWorlds == {Sharing, Replacing}

(* WorkspaceStore *)
FsWorld(ops, legacy, unsigned, writes) ==
  [ops |-> ops, legacy |-> legacy, unsigned |-> unsigned, writes |-> writes, sizes |-> 1,
   quota |-> 0, entries |-> 0, paths |-> Paths \ StagedPaths, editors |-> Editors \cap Calls]

Records == FsWorld({"write", "read", "move", "delete", "fail"}, {}, FALSE, 2)
Restored == FsWorld({"write", "read", "move", "outside"}, {"r1"}, TRUE, 1)
Migrating == FsWorld({"write", "read", "move"}, {"r1"}, TRUE, 2)
Filling == [FsWorld({"write", "delete"}, {}, FALSE, 3) EXCEPT
              !.quota = 2, !.sizes = 2, !.paths = {"r1"} \cup StagedPaths, !.editors = Editors]
Crowding == [Filling EXCEPT !.quota = 0, !.entries = 1, !.sizes = 1]
MCFsWorlds == {Records, Restored, Migrating, Filling, Crowding}

(* WorkspaceRouting *)
PrefWorld(ops, row, connected, changes, time) ==
  [ops |-> ops, row |-> row, m365 |-> connected, changes |-> changes, time |-> time]

Choosing == PrefWorld({"file", "choose", "fail"}, [found |-> TRUE, backend |-> "local", ids |-> FALSE], TRUE, 2, 4)
FirstUse == PrefWorld({"file", "choose"}, NoPrefRow, TRUE, 1, 4)
Connecting == PrefWorld({"file", "connect", "fail"}, NoPrefRow, FALSE, 1, 5)
MCPrefWorlds == {Choosing, FirstUse, Connecting}

VARIABLE part

MCWorkspaceSymmetry == Permutations(Calls)

\* Bounds: four calls on one workflow, or three on two and without OpenFGA.
OneLineage == created' <= 1
ThreeCalls == made' <= 3

WorkspaceInit ==
    /\ part \in {"workflows", "forks", "list", "skills", "files", "routing"}
    /\ WorkflowInit /\ (part # "forks" => fga)
    /\ ListInit /\ (part # "list" => own = {} /\ shared = {})
    /\ XferInit /\ (part # "skills" => xferWorld = Sharing)
    /\ FsInit /\ (part # "files" => fsWorld = Filling)
    /\ PrefInit /\ (part # "routing" => prefWorld = Choosing)

WorkspaceNext ==
    \/ part = "workflows" /\ WorkflowNext /\ OneLineage /\ UNCHANGED <<part, listVars, xferVars, fsVars, prefVars>>
    \/ part = "forks" /\ WorkflowNext /\ ThreeCalls /\ UNCHANGED <<part, listVars, xferVars, fsVars, prefVars>>
    \/ part = "list" /\ ListNext /\ UNCHANGED <<part, wfVars, xferVars, fsVars, prefVars>>
    \/ part = "skills" /\ XferNext /\ UNCHANGED <<part, wfVars, listVars, fsVars, prefVars>>
    \/ part = "files" /\ FsNext /\ UNCHANGED <<part, wfVars, listVars, xferVars, prefVars>>
    \/ part = "routing" /\ PrefNext /\ UNCHANGED <<part, wfVars, listVars, xferVars, fsVars>>

WorkspaceSpec ==
    WorkspaceInit /\ [][WorkspaceNext]_<<part, wfVars, listVars, xferVars, fsVars, prefVars>>
=============================================================================
