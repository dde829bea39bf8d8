---------------------------- MODULE PolicyServing ----------------------------
(***************************************************************************)
(* Which policy decides, and whether a recorded decision can be replayed:  *)
(* BundleServer reads the policy directory file by file, archives every    *)
(* new revision in the audit store and serves it to OPA; decisions record  *)
(* the revisions OPA reports; RefreshFGAModel pins OpenFGA checks to a     *)
(* model and records it.  OPA, OpenFGA and the object store are external.  *)
(***************************************************************************)
EXTENDS Naturals, Sequences, SequencesExt, FiniteSets, Functions, TLC

CONSTANTS
  PolicyFiles,    \* a sequence: the files of the directory, in WalkDir's order
  PolicyWorlds    \* what may happen; their edits, restarts and decisions are bounds

VARIABLES
  polWorld,
  dir,            \* dir[f]: the content of file f
  server,         \* BundleServer: the bundle being served and the reload in progress
  archive,        \* the audit store's _policy/bundles/: revision -> snapshot
  opa,            \* OPA: the bundle it evaluates with
  deciding,       \* a decision in progress: what OPA reported so far
  decided,        \* the recorded decisions
  models,         \* OpenFGA's newest authorization model, 0 for none
  engine,         \* the model checks run against, and the refresh in progress
  check,          \* a user check in progress
  recorded,       \* the checks recorded: the model named and the model used
  trail,          \* the last policy.loaded and fga_model events, and whose last emit failed
  polBudget       \* edits, crashes and faults left

polVars == <<polWorld, dir, server, archive, opa, deciding, decided, models, engine, check, recorded,
             trail, polBudget>>

Included == {f \in ToSet(PolicyFiles) : ~polWorld.test[f]}
NoBundle == << >>
Unasked == [pc |-> "idle"]

(* Mutant: a file's content is left out of the canonical form. *)
bundleRevisionNames(files) == [sha256 |-> DOMAIN files]

(* bundleRevision: a digest of the names and contents, which identifies    *)
(* them; a directory without policy files has none.                        *)
bundleRevision(files) == [sha256 |-> files]

PolicyInit ==
  /\ polWorld \in PolicyWorlds
  /\ dir = [f \in ToSet(PolicyFiles) |-> 1]
  /\ server = [current |-> NoBundle, pc |-> "boot"]
  /\ archive = << >>
  /\ opa = NoBundle
  /\ deciding = Unasked
  /\ decided = {}
  /\ models = polWorld.models
  /\ engine = [model |-> polWorld.pinned, pc |-> "boot"]
  /\ check = Unasked
  /\ recorded = {}
  /\ trail = [policy |-> NoBundle, model |-> 0, failed |-> {}]
  /\ polBudget = polWorld.budget

Spend(what) == polBudget[what] > 0 /\ polBudget' = [polBudget EXCEPT ![what] = @ - 1]
decisionVars == <<deciding, decided, check, recorded>>
fgaVars == <<models, engine>>

(* The operator changes one file; tests and hidden files are among them. *)
EditFile ==
  /\ Spend("edits")
  /\ \E f \in ToSet(PolicyFiles) : dir' = [dir EXCEPT ![f] = 3 - @]
  /\ UNCHANGED <<polWorld, server, archive, opa, decisionVars, fgaVars, trail>>

(***************************************************************************)
(* BundleServer.Reload: LoadBundle reads the included files one after the  *)
(* other; a revision that differs from the one served is archived (Stat,   *)
(* then Put), then served, then recorded.                                  *)
(***************************************************************************)
ReloadBegin ==
  /\ server.pc \in {"boot", "idle"}
  /\ server' = [current |-> server.current, pc |-> "read", files |-> << >>, boot |-> server.pc = "boot"]
  /\ UNCHANGED <<polWorld, dir, archive, opa, decisionVars, fgaVars, trail, polBudget>>

(* After a failed reload the previous revision stays; at startup it ends   *)
(* the process.                                                            *)
ReloadEnds ==
  server' = [current |-> server.current, pc |-> IF server.boot THEN "down" ELSE "idle"]

ReadFile ==
  /\ server.pc = "read"
  /\ \E f \in Included \ DOMAIN server.files :
       /\ \A g \in Included \ DOMAIN server.files :
            \E i, j \in DOMAIN PolicyFiles : PolicyFiles[i] = f /\ PolicyFiles[j] = g /\ i <= j
       /\ server' = [server EXCEPT !.files = @ @@ (f :> dir[f])]
  /\ UNCHANGED <<polWorld, dir, archive, opa, decisionVars, fgaVars, trail, polBudget>>

Compare ==
  /\ server.pc = "read"
  /\ DOMAIN server.files = Included
  /\ IF server.current # NoBundle /\ bundleRevision(server.current) = bundleRevision(server.files)
     THEN ReloadEnds
     ELSE server' = [server EXCEPT !.pc = "archive"]
  /\ UNCHANGED <<polWorld, dir, archive, opa, decisionVars, fgaVars, trail, polBudget>>

(* Mutant: the bundle is served even though it could not be archived. *)
ArchivePolicyBundleAnyway ==
  /\ server.pc = "archive"
  /\ \/ archive' = archive @@ (bundleRevision(server.files) :> server.files) /\ UNCHANGED polBudget
     \/ Spend("faults") /\ UNCHANGED archive
  /\ server' = [server EXCEPT !.pc = "switch"]
  /\ UNCHANGED <<polWorld, dir, opa, decisionVars, fgaVars, trail>>

(* ArchivePolicyBundle: an existing object is left alone.  A request may   *)
(* fail, or be carried out and its answer lost.                            *)
ArchivePolicyBundle ==
  /\ server.pc = "archive"
  /\ \/ /\ archive' = archive @@ (bundleRevision(server.files) :> server.files)
        /\ server' = [server EXCEPT !.pc = "switch"]
        /\ UNCHANGED polBudget
     \/ /\ Spend("faults")
        /\ archive' \in {archive, archive @@ (bundleRevision(server.files) :> server.files)}
        /\ ReloadEnds
  /\ UNCHANGED <<polWorld, dir, opa, decisionVars, fgaVars, trail>>

Switch ==
  /\ server.pc = "switch"
  /\ server' = [server EXCEPT !.current = server.files, !.pc = "emit"]
  /\ UNCHANGED <<polWorld, dir, archive, opa, decisionVars, fgaVars, trail, polBudget>>

(* emitPolicyEvent is fire-and-forget: a failure is counted                *)
(* (RecordEmitFailure) and the event not emitted again; it may have been   *)
(* stored all the same.                                                    *)
emitPolicyEvent(what, value) ==
  \/ trail' = [trail EXCEPT ![what] = value, !.failed = @ \ {what}] /\ UNCHANGED polBudget
  \/ /\ Spend("faults")
     /\ \E stored \in {trail[what], value} :
          trail' = [trail EXCEPT ![what] = stored, !.failed = @ \cup {what}]

(* OnChange: what is served stays served, recorded or not. *)
OnChange ==
  /\ server.pc = "emit"
  /\ emitPolicyEvent("policy", server.current)
  /\ server' = [current |-> server.current, pc |-> "idle"]
  /\ UNCHANGED <<polWorld, dir, archive, opa, decisionVars, fgaVars>>

(* The process dies, or is started again: everything in memory is lost. *)
BrokerCrash ==
  /\ Spend("crashes")
  /\ server.pc # "down"
  /\ server' = [current |-> NoBundle, pc |-> "down"]
  /\ engine' = [model |-> polWorld.pinned, pc |-> "boot"]
  /\ deciding' = Unasked
  /\ check' = Unasked
  /\ UNCHANGED <<polWorld, dir, archive, opa, decided, models, recorded, trail>>

BrokerBoot ==
  /\ server.pc = "down"
  /\ server' = [current |-> NoBundle, pc |-> "boot"]
  /\ UNCHANGED <<polWorld, dir, archive, opa, decisionVars, fgaVars, trail, polBudget>>

(* Whether the broker has passed its startup, where the first reload is    *)
(* awaited.                                                                *)
Up == server.pc # "down" /\ server.current # NoBundle /\ (server.pc \notin {"idle", "boot"} => ~server.boot)

(* ServeHTTP answers a poll of OPA: nothing new under the same ETag, else  *)
(* the bundle, which OPA activates.                                        *)
ETag(b) == bundleRevision(b)

Poll ==
  /\ Up
  /\ opa = NoBundle \/ ETag(opa) # ETag(server.current)
  /\ opa' = server.current
  /\ UNCHANGED <<polWorld, dir, server, archive, decisionVars, fgaVars, trail, polBudget>>

OpaRestart ==
  /\ Spend("crashes")
  /\ opa # NoBundle
  /\ opa' = NoBundle
  /\ UNCHANGED <<polWorld, dir, server, archive, decisionVars, fgaVars, trail>>

(***************************************************************************)
(* A decision: the core query and then an extra gate's, each answered with *)
(* the revision OPA evaluated it with (queryOPA).  Without a revision the  *)
(* core query fails and a gate's is recorded as failed.                    *)
(***************************************************************************)
Named(b) == [revision |-> bundleRevision(b), used |-> b]

DecideToolCall ==
  /\ Up /\ engine.pc # "boot"
  /\ deciding.pc = "idle"
  /\ Spend("decisions")
  /\ opa # NoBundle
  /\ deciding' = [pc |-> "gate", answers |-> {Named(opa)}]
  /\ UNCHANGED <<polWorld, dir, server, archive, opa, decided, fgaVars, check, recorded, trail>>

DecideGate ==
  /\ deciding.pc = "gate"
  /\ decided' = decided \cup {deciding.answers \cup (IF opa = NoBundle THEN {} ELSE {Named(opa)})}
  /\ deciding' = Unasked
  /\ UNCHANGED <<polWorld, dir, server, archive, opa, fgaVars, check, recorded, trail, polBudget>>

(* GetDecisionEvidence: the archived snapshot of a revision, and whether   *)
(* its files hash to it (VerifySnapshot).                                  *)
policyEvidence(revision) ==
  IF revision \in DOMAIN archive
  THEN [snapshot |-> archive[revision], verified |-> bundleRevision(archive[revision]) = revision]
  ELSE [snapshot |-> NoBundle, verified |-> FALSE]

(***************************************************************************)
(* RefreshFGAModel: at startup and, unless a model is configured, from     *)
(* time to time.                                                           *)
(***************************************************************************)
PublishModel ==
  /\ Spend("models")
  /\ models' = models + 1
  /\ UNCHANGED <<polWorld, dir, server, archive, opa, decisionVars, engine, trail>>

(* The model is asked for; the request may fail, and the store have none. *)
RefreshAsk ==
  /\ Up
  /\ engine.pc = "boot" \/ (engine.pc = "idle" /\ polWorld.pinned = 0)
  /\ LET initial == engine.pc = "boot"
         keep == [model |-> engine.model, pc |-> "idle"]
         got(next) == [model |-> engine.model, pc |-> "set", next |-> next, initial |-> initial]
     IN \/ polWorld.pinned # 0 /\ engine' = got(polWorld.pinned) /\ UNCHANGED polBudget
        \/ polWorld.pinned = 0 /\ models # 0 /\ engine' = got(models) /\ UNCHANGED polBudget
        \/ polWorld.pinned = 0 /\ models = 0
           /\ engine' = (IF engine.model = 0 THEN keep ELSE got(engine.model)) /\ UNCHANGED polBudget
        \/ polWorld.pinned = 0 /\ Spend("faults") /\ engine' = keep
  /\ UNCHANGED <<polWorld, dir, server, archive, opa, decisionVars, models, trail>>

EventDue(prev, next, initial) == initial \/ next # prev

RefreshSet ==
  /\ engine.pc = "set"
  /\ engine' = [model |-> engine.next,
                pc |-> IF EventDue(engine.model, engine.next, engine.initial) THEN "emit" ELSE "idle"]
  /\ UNCHANGED <<polWorld, dir, server, archive, opa, decisionVars, models, trail, polBudget>>

RefreshEmit ==
  /\ engine.pc = "emit"
  /\ emitPolicyEvent("model", engine.model)
  /\ engine' = [model |-> engine.model, pc |-> "idle"]
  /\ UNCHANGED <<polWorld, dir, server, archive, opa, decisionVars, models>>

(* userFGADecision names the model in the record, then runs the check,     *)
(* which reads the model again; without one OpenFGA takes its newest.      *)
CheckBegin ==
  /\ Up /\ engine.pc # "boot"
  /\ check.pc = "idle"
  /\ models # 0
  /\ Spend("decisions")
  /\ check' = [pc |-> "send", named |-> engine.model]
  /\ UNCHANGED <<polWorld, dir, server, archive, opa, deciding, decided, fgaVars, recorded, trail>>

CheckSend ==
  /\ check.pc = "send"
  /\ recorded' = recorded \cup
       {[named |-> check.named, used |-> IF engine.model = 0 THEN models ELSE engine.model]}
  /\ check' = Unasked
  /\ UNCHANGED <<polWorld, dir, server, archive, opa, deciding, decided, fgaVars, trail, polBudget>>

ServerStep ==
  ReloadBegin \/ ReadFile \/ Compare \/ ArchivePolicyBundle \/ Switch \/ OnChange \/ BrokerBoot

PolicyNext ==
  \/ EditFile \/ ServerStep \/ BrokerCrash \/ Poll \/ OpaRestart
  \/ DecideToolCall \/ DecideGate
  \/ PublishModel \/ RefreshAsk \/ RefreshSet \/ RefreshEmit \/ CheckBegin \/ CheckSend

(* BundleServer.Run ticks forever, the process is restarted when it ends,  *)
(* and OPA polls.                                                          *)
PolicyFairness == WF_polVars(ServerStep) /\ WF_polVars(Poll)

PolicySpec == PolicyInit /\ [][PolicyNext]_polVars /\ PolicyFairness

-----------------------------------------------------------------------------
(* Every revision a recorded decision names is archived, verifies, and is  *)
(* exactly what OPA evaluated: no decision was made with a policy that was *)
(* not archived first, whether or not its loading could be recorded.  And  *)
(* between reloads and refreshes the last events of the trail name the     *)
(* policy being served and the model checks run against, or the failure to *)
(* record that very change was counted; a check never ran against a model  *)
(* older than its record names.                                            *)
DecisionsReplay ==
  /\ \A d \in decided : \A a \in d :
       policyEvidence(a.revision) = [snapshot |-> a.used, verified |-> TRUE]
  /\ server.pc = "idle" => trail.policy = server.current \/ "policy" \in trail.failed
  /\ engine.pc = "idle" /\ engine.model # 0 => trail.model = engine.model \/ "model" \in trail.failed
  /\ \A r \in recorded : r.named <= r.used

(* Once the directory is left alone OPA ends up with its files, whatever   *)
(* failed or crashed meanwhile.                                            *)
EditsReachOPA == <>[](opa = [f \in Included |-> dir[f]])

=============================================================================
