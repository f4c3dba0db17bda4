------------------------------ MODULE Updater ------------------------------
(***************************************************************************)
(* The updater (core/manager/updater/index.ts) and its callers in          *)
(* src/index.ts: the check on boot, the pass before the boot, the ticks of *)
(* the running bot, and the command line.  The disk survives a crash, the  *)
(* process does not, and a crash may fall between any two writes.          *)
(*                                                                         *)
(* A release is a number, 1 is installed first.  A file holds the release  *)
(* it was copied from, 0 when there is none.  Downloading, hashing and     *)
(* reports are left out.  One updater runs at a time: nothing in the code  *)
(* keeps a second one out.                                                 *)
(***************************************************************************)
EXTENDS Integers, Sequences, FiniteSets, SequencesExt

CONSTANTS
    File,        \* the core files, of any release
    Always,      \* the files every backup takes: package.json and its like
    Release,     \* 1 .. n
    Ships,       \* Ships[r]: the files release r has
    Bad,         \* releases that do not complete a boot
    NoCore,      \* core/ and index.js are absent
    Core,        \* core/, among the things a restore copies
    Rebuilds,    \* the supervisor builds the tree before each start
    MaxBackups,  \* UpdaterMaxBackups
    MaxCrashes,  \* bound on crashes
    Failing,     \* the procedures, "update" and "restore", that may fail
    MaxFailures, \* bound on failed downloads, copies, installs and builds
    MaxEvents    \* bound on runs from the command line, plugin offers, and
                 \* grace periods that end before a second boot

ASSUME UpdaterAssumption ==
    /\ IsFiniteSet(Release) /\ Release = 1 .. Cardinality(Release) /\ 1 \in Release \ Bad
    /\ Ships \in [Release -> SUBSET File]
    /\ Always \subseteq File /\ Core \notin File /\ NoCore \notin File
    /\ Rebuilds \in BOOLEAN /\ Failing \subseteq {"update", "restore"}
    /\ MaxBackups \in Nat \ {0}
    /\ {MaxCrashes, MaxFailures, MaxEvents} \subseteq Nat

VARIABLES
    tree,      \* tree[f]: the release file f is from
    built,     \* the tree core/ was built from, or NoCore
    plugin,    \* the release the plugin is for, 0 when it is not installed
    baseline,  \* baseline.json
    journal,   \* apply-state.json
    pending,   \* pending-health.json
    backups,   \* .data/updater/backups, the oldest first
    pc,        \* what the process does
    job,       \* the locals of its updater
    published, \* the tags of the repository
    yanked,    \* those that takebacks.json lists
    offered,   \* a plugin tag compatible with the core is offered
    budget     \* crashes, failures and events left

disk == <<tree, built, plugin, baseline, journal, pending, backups>>
world == <<published, yanked, offered>>
vars == <<disk, pc, job, world, budget>>

Tree == [File -> Release \cup {0}]

NoJournal == [phase |-> "complete", backup |-> 0]
NoHealth == [to |-> 0, prev |-> 0, attempts |-> 0, backup |-> 0]

Caller == {"none", "check", "preboot", "tick", "cli"}

(* doing: which of its two procedures, update or restore, the run is in.   *)
(* why: what asked for a restore.  todo: what is still to be copied.       *)
Job == [by : Caller, doing : {"update", "restore"}, why : {"journal", "health", "aged"},
        target : Release \cup {0}, force : BOOLEAN, backup : Nat, from : Release,
        todo : SUBSET (File \cup {Core}), plug : {"skip", "update", "remove"}]

Run(by) == [by |-> by, doing |-> "update", why |-> "journal", target |-> 0, force |-> FALSE,
            backup |-> 0, from |-> 1, todo |-> {}, plug |-> "skip"]

Pc == {"down", "check", "giveup", "restore", "plan", "backup", "copying", "applying",
       "install", "clean", "build", "plugins", "replugging", "baseline", "health",
       "clear", "prune", "boot", "running"}

(* tag: the baseline's at that time, 0 for the copy made before a restore; *)
(* whole: backup-meta.json, the last file, has been written.               *)
Backup == [id : Nat, tag : Release \cup {0}, files : Tree,
           core : Tree \cup {NoCore}, whole : BOOLEAN]

TypeOK ==
    /\ tree \in Tree /\ built \in Tree \cup {NoCore}
    /\ plugin \in Release \cup {0}
    /\ baseline \in [tag : Release, prev : Release \cup {0}, files : Tree]
    /\ journal \in [phase : {"backing_up", "applying", "restoring", "complete"}, backup : Nat]
    /\ pending \in [to : Release \cup {0}, prev : Release \cup {0}, attempts : 0 .. MaxCrashes + 2, backup : Nat]
    /\ \A i \in DOMAIN backups : backups[i] \in Backup
    /\ pc \in Pc /\ job \in Job
    /\ published \subseteq Release /\ yanked \subseteq Release /\ offered \in BOOLEAN
    /\ budget \in [crashes : 0 .. MaxCrashes, failures : 0 .. MaxFailures,
                   events : 0 .. MaxEvents]

Whole(t, r) == \A f \in Ships[r] : t[f] = r

Pure(r) == [f \in File |-> IF f \in Ships[r] THEN r ELSE 0]

Init ==
    /\ tree = Pure(1) /\ built = Pure(1)
    /\ plugin = 1
    /\ baseline = [tag |-> 1, prev |-> 0, files |-> Pure(1)]
    /\ journal = NoJournal /\ pending = NoHealth /\ backups = <<>>
    /\ pc = "down" /\ job = Run("none")
    /\ published = {1} /\ yanked = {} /\ offered = FALSE
    /\ budget = [crashes |-> MaxCrashes, failures |-> MaxFailures,
                 events |-> MaxEvents]

Spend(what) == budget[what] > 0 /\ budget' = [budget EXCEPT ![what] = @ - 1]

Fails == job.doing \in Failing /\ Spend("failures")

-------------------------------------------------------------------------------
(* Where a run returns to                                                  *)

(* done: the caller is told that files changed, or that it was rolled back *)
(* and exits for a restart.                                                *)
Leave(done) ==
    /\ pc' = IF job.by = "cli" \/ done THEN "down"
             ELSE [check |-> "plan", preboot |-> "boot", tick |-> "running"][job.by]
    /\ job' = Run(IF job.by = "check" /\ ~done THEN "preboot" ELSE "none")

(* The network fallback of a rollback: the previous tag, forced.           *)
Fallback ==
    /\ pc' = "plan"
    /\ job' = [Run(job.by) EXCEPT !.target = job.target, !.force = TRUE]

(* Mutant: a failed restore ends the run as a finished one does.           *)
ThrownClears ==
    /\ journal' = NoJournal
    /\ Leave(FALSE)

(* An exception out of the update or the restore.                          *)
Thrown ==
    /\ UNCHANGED journal
    /\ IF job.doing = "restore" /\ job.why # "journal" THEN Fallback ELSE Leave(FALSE)

(* rebuild() failed: the restore reports that it was not allowed.          *)
RebuildFailed ==
    /\ UNCHANGED journal
    /\ IF job.doing = "restore" /\ job.why = "health" THEN Fallback ELSE Leave(FALSE)

-------------------------------------------------------------------------------
(* checkPendingRollbackOnBoot                                              *)

(* Only a tree that has been built can be started.                         *)
Start ==
    /\ pc = "down"
    /\ Rebuilds \/ built # NoCore
    /\ built' = IF Rebuilds THEN tree ELSE built
    /\ pc' = "check" /\ job' = Run("check")
    /\ UNCHANGED <<tree, plugin, baseline, journal, pending, backups, world, budget>>

(* Mutant: a journal without a backup ends the process.                    *)
CheckJournalExits ==
    /\ pc = "check" /\ journal # NoJournal
    /\ IF journal.backup = 0
       THEN Leave(TRUE)
       ELSE /\ pc' = "restore"
            /\ job' = [job EXCEPT !.doing = "restore", !.why = "journal", !.backup = journal.backup]
    /\ UNCHANGED <<disk, world, budget>>

(* Without a backup nothing had been copied yet, and the boot goes on.     *)
CheckJournal ==
    /\ pc = "check" /\ journal # NoJournal
    /\ IF journal.backup = 0
       THEN Leave(FALSE)
       ELSE /\ pc' = "restore"
            /\ job' = [job EXCEPT !.doing = "restore", !.why = "journal", !.backup = journal.backup]
    /\ UNCHANGED <<disk, world, budget>>

(* A second attempt rolls back, a first one when the grace period is over. *)
CheckHealth ==
    /\ pc = "check" /\ journal = NoJournal
    /\ IF pending = NoHealth
       THEN Leave(FALSE) /\ UNCHANGED <<pending, budget>>
       ELSE /\ pending' = [pending EXCEPT !.attempts = @ + 1]
            /\ \/ /\ pending'.attempts < 2
                  /\ Leave(FALSE) /\ UNCHANGED budget
               \/ /\ IF pending'.attempts >= 2 THEN UNCHANGED budget ELSE Spend("events")
                  /\ pc' = "giveup" /\ job' = [job EXCEPT !.why = "health"]
    /\ UNCHANGED <<tree, built, plugin, baseline, journal, backups, world>>

(* The marker is cleared before the restore writes its own.                *)
GiveUp ==
    /\ pc = "giveup"
    /\ pending' = NoHealth
    /\ pc' = "restore"
    /\ job' = [job EXCEPT !.doing = "restore", !.backup = pending.backup, !.target = pending.prev]
    /\ UNCHANGED <<tree, built, plugin, baseline, journal, backups, world, budget>>

-------------------------------------------------------------------------------
(* Backups                                                                 *)

Ids == {backups[i].id : i \in DOMAIN backups}

BackupIn(kept, id) == kept[CHOOSE i \in DOMAIN kept : kept[i].id = id]
BackupOf(id) == BackupIn(backups, id)

(* A name is a time: never one in use, on disk or in a marker.             *)
FreshId == CHOOSE n \in 1 .. Len(backups) + 3 :
             n \notin Ids \cup {journal.backup, pending.backup, job.backup}

(* The files an update overwrites or adds; a restore's own backup has none.*)
Planned == IF job.doing = "update" THEN Ships[job.target] ELSE {}

Taken == [f \in File |-> IF f \in Planned \cup Always THEN tree[f] ELSE 0]

(* The directory is made first, the meta file written last.                *)
BackupStarts ==
    /\ pc = "backup"
    /\ backups' = Append(backups, [id |-> FreshId, tag |-> 0, files |-> [f \in File |-> 0],
                                   core |-> NoCore, whole |-> FALSE])
    /\ pc' = "copying"
    /\ UNCHANGED <<tree, built, plugin, baseline, journal, pending, job, world, budget>>

(* The backup is whole.  An update journals its id and goes on to apply;   *)
(* a restore goes on to copy the other one back.                           *)
BackupEnds ==
    LET last == backups[Len(backups)]
        b == [last EXCEPT !.tag = IF job.doing = "update" THEN baseline.tag ELSE 0,
                          !.files = Taken, !.core = built, !.whole = TRUE]
        old == BackupOf(job.backup)
    IN /\ pc = "copying"
       /\ backups' = [backups EXCEPT ![Len(backups)] = b]
       /\ pc' = "applying"
       /\ IF job.doing = "update"
          THEN /\ journal' = [phase |-> "applying", backup |-> b.id]
               /\ job' = [job EXCEPT !.backup = b.id, !.todo = Ships[job.target]]
          ELSE /\ job' = [job EXCEPT !.todo = {f \in File : old.files[f] # 0} \cup
                                              {c \in {Core} : old.core # NoCore}]
               /\ UNCHANGED journal
       /\ UNCHANGED <<tree, built, plugin, baseline, pending, world, budget>>

(* The copy of core/ failed: the directory is removed, the run aborted.    *)
BackupFails ==
    /\ pc = "copying"
    /\ Fails
    /\ backups' = Front(backups)
    /\ Thrown
    /\ UNCHANGED <<tree, built, plugin, baseline, pending, world>>

(* Mutant: the oldest are kept, not the newest.                            *)
PruneKeepsOldest ==
    /\ pc = "prune"
    /\ backups' = IF Len(backups) <= MaxBackups THEN backups ELSE SubSeq(backups, 1, MaxBackups)
    /\ Leave(TRUE)
    /\ UNCHANGED <<tree, built, plugin, baseline, journal, pending, world, budget>>

(* pruneBackups, and the end of an update.                                 *)
Prune ==
    /\ pc = "prune"
    /\ backups' = IF Len(backups) <= MaxBackups THEN backups
                  ELSE SubSeq(backups, Len(backups) - MaxBackups + 1, Len(backups))
    /\ Leave(TRUE)
    /\ UNCHANGED <<tree, built, plugin, baseline, journal, pending, world, budget>>

-------------------------------------------------------------------------------
(* run                                                                     *)

(* A baseline file that exists and has another hash.                       *)
Dirty == \E f \in File : baseline.files[f] # 0 /\ tree[f] \notin {0, baseline.files[f]}

(* Superseded with a recommendation; otherwise the newest, if it is newer. *)
Newest == {r \in published \ yanked : /\ r > baseline.tag
                                      /\ \A s \in published \ yanked : s <= r}

Targets ==
    IF job.target # 0 THEN {job.target}
    ELSE IF baseline.tag \in yanked THEN Newest \cup (published \ yanked)
    ELSE Newest

PluginPlan(target) ==
    IF plugin = 0 THEN "skip"
    ELSE IF offered THEN "update"
    ELSE IF target < baseline.tag THEN "remove"
    ELSE "skip"

(* maybeAutoRollback: only a run without a target looks at the marker.     *)
PlanRollback ==
    /\ pc = "plan" /\ job.target = 0
    /\ pending # NoHealth /\ Spend("events")
    /\ pc' = "giveup" /\ job' = [job EXCEPT !.why = "aged"]
    /\ UNCHANGED <<disk, world>>

PlanUpdate ==
    /\ pc = "plan"
    /\ job.force \/ ~Dirty
    /\ \E r \in Targets :
         /\ job' = [job EXCEPT !.doing = "update", !.target = r, !.from = baseline.tag,
                               !.plug = PluginPlan(r)]
         /\ journal' = [phase |-> "backing_up", backup |-> 0]
    /\ pc' = "backup"
    /\ UNCHANGED <<tree, built, plugin, baseline, pending, backups, world, budget>>

(* SafeUpdate blocked it, or the download failed.                          *)
PlanStops ==
    /\ pc = "plan"
    /\ \/ /\ Targets # {} /\ Dirty /\ ~job.force
          /\ UNCHANGED budget
       \/ Fails
    /\ Leave(FALSE)
    /\ UNCHANGED <<disk, world>>

(* No newer tag: an installed plugin with a tag on offer is put in anew.   *)
PlanPlugins ==
    /\ pc = "plan" /\ Targets = {}
    /\ IF PluginPlan(baseline.tag) = "update"
       THEN /\ pc' = "plugins"
            /\ job' = [job EXCEPT !.target = 0, !.from = baseline.tag, !.plug = "update"]
       ELSE Leave(FALSE)
    /\ UNCHANGED <<disk, world, budget>>

(* applyCoreFromStaging: file after file.  A release's archive holds no    *)
(* core/, which the build makes.  walkBackup: the same, and core/.         *)
Copy ==
    /\ pc = "applying" /\ job.todo # {}
    /\ \E x \in job.todo :
         /\ job' = [job EXCEPT !.todo = @ \ {x}]
         /\ IF job.doing = "update"
            THEN tree' = [tree EXCEPT ![x] = job.target] /\ UNCHANGED built
            ELSE LET b == BackupOf(job.backup)
                 IN IF x = Core THEN built' = b.core /\ UNCHANGED tree
                    ELSE tree' = [tree EXCEPT ![x] = b.files[x]] /\ UNCHANGED built
    /\ UNCHANGED <<plugin, baseline, journal, pending, backups, pc, world, budget>>

CopyFails ==
    /\ pc = "applying" /\ job.todo # {}
    /\ Fails
    /\ Thrown
    /\ UNCHANGED <<tree, built, plugin, baseline, pending, backups, world>>

Copied ==
    /\ pc = "applying" /\ job.todo = {}
    /\ pc' = "install"
    /\ UNCHANGED <<disk, job, world, budget>>

(* rebuild: npm install, npm run clean, npm run build.                     *)
Install ==
    /\ pc = "install"
    /\ pc' = "clean"
    /\ UNCHANGED <<disk, job, world, budget>>

Clean ==
    /\ pc = "clean"
    /\ built' = NoCore
    /\ pc' = "build"
    /\ UNCHANGED <<tree, plugin, baseline, journal, pending, backups, job, world, budget>>

Build ==
    /\ pc = "build"
    /\ built' = tree
    /\ pc' = IF job.doing = "update" THEN "plugins" ELSE "baseline"
    /\ UNCHANGED <<tree, plugin, baseline, journal, pending, backups, job, world, budget>>

(* A failed build leaves nothing, or what the compiler emitted all the same.*)
RebuildFails ==
    /\ pc \in {"install", "build"}
    /\ Fails
    /\ built' \in IF pc = "build" THEN {NoCore, tree} ELSE {built}
    /\ RebuildFailed
    /\ UNCHANGED <<tree, plugin, baseline, pending, backups, world>>

(* applyPluginDecisions: the old directory is removed, then the new copied.*)
Plugins ==
    /\ pc = "plugins"
    /\ IF job.plug = "skip"
       THEN pc' = "baseline" /\ UNCHANGED plugin
       ELSE plugin' = 0 /\ pc' = IF job.plug = "update" THEN "replugging" ELSE "baseline"
    /\ UNCHANGED <<tree, built, baseline, journal, pending, backups, job, world, budget>>

Replug ==
    /\ pc = "replugging"
    /\ plugin' = IF job.target = 0 THEN job.from ELSE job.target
    /\ pc' = "baseline"
    /\ UNCHANGED <<tree, built, baseline, journal, pending, backups, job, world, budget>>

PluginFails ==
    /\ pc = "plugins" /\ job.plug = "update"
    /\ Fails
    /\ Thrown
    /\ UNCHANGED <<tree, built, plugin, baseline, pending, backups, world>>

(* The baseline of an update is the planned files, that of a restore every *)
(* file there is; plugins alone leave tag and core files as they were.     *)
WriteBaseline ==
    /\ pc = "baseline"
    /\ baseline' =
         IF job.doing = "restore"
         THEN [tag |-> IF BackupOf(job.backup).tag = 0 THEN baseline.tag ELSE BackupOf(job.backup).tag,
               prev |-> baseline.tag, files |-> tree]
         ELSE IF job.target = 0 THEN baseline
         ELSE [tag |-> job.target, prev |-> baseline.tag,
               files |-> [f \in File |-> IF f \in Ships[job.target] THEN tree[f] ELSE 0]]
    /\ pc' = IF job.doing = "restore" THEN "clear" ELSE IF job.target = 0 THEN "prune" ELSE "health"
    /\ UNCHANGED <<tree, built, plugin, journal, pending, backups, job, world, budget>>

WriteHealth ==
    /\ pc = "health"
    /\ pending' = IF job.from = job.target THEN pending
                  ELSE [to |-> job.target, prev |-> job.from, attempts |-> 0, backup |-> job.backup]
    /\ pc' = "clear"
    /\ UNCHANGED <<tree, built, plugin, baseline, journal, backups, job, world, budget>>

ClearJournal ==
    /\ pc = "clear"
    /\ journal' = NoJournal
    /\ IF job.doing = "update" THEN pc' = "prune" /\ UNCHANGED job
       ELSE Leave(job.by = "check" \/ BackupOf(job.backup).tag # job.from)
    /\ UNCHANGED <<tree, built, plugin, baseline, pending, backups, world, budget>>

-------------------------------------------------------------------------------
(* restoreFromBackup, up to the copy                                       *)

RestoreStarts ==
    /\ pc = "restore"
    /\ IF job.backup \in Ids
       THEN /\ journal' = [phase |-> "restoring", backup |-> job.backup]
            /\ pc' = "backup" /\ job' = [job EXCEPT !.from = baseline.tag]
       ELSE RebuildFailed
    /\ UNCHANGED <<tree, built, plugin, baseline, pending, backups, world, budget>>

-------------------------------------------------------------------------------
(* The bot, its operator and the repository                                *)

(* A build of a good release comes up, one of a bad release does not, any  *)
(* other may or may not.                                                   *)
BuiltFrom(releases) == built # NoCore /\ \E r \in releases : Whole(built, r)

(* markUpdaterHealthy at the end of the bootstrap.                         *)
Boot ==
    /\ pc = "boot"
    /\ \/ /\ ~BuiltFrom(Bad)
          /\ pc' = "running" /\ pending' = NoHealth
       \/ /\ ~BuiltFrom(Release \ Bad)
          /\ pc' = "down" /\ UNCHANGED pending
    /\ UNCHANGED <<tree, built, plugin, baseline, journal, backups, job, world, budget>>

(* The background updater, with UpdaterBackgroundApply.                    *)
Tick ==
    /\ pc = "running" /\ Newest # {}
    /\ pc' = "plan" /\ job' = Run("tick")
    /\ UNCHANGED <<disk, world, budget>>

(* npm run updater, plain, with --target or --downgrade; and an update the *)
(* orchestrator instructs, a forced target.  Nobody runs it over an apply  *)
(* or restore that was interrupted: the next start recovers that first.    *)
Cli ==
    /\ pc = "down" /\ journal.backup = 0
    /\ Rebuilds \/ built # NoCore
    /\ Spend("events")
    /\ \E t \in published \cup {0, baseline.prev}, force \in BOOLEAN :
         /\ force => t # 0
         /\ job' = [Run("cli") EXCEPT !.target = t, !.force = force]
    /\ pc' = "plan"
    /\ UNCHANGED <<disk, world>>

Crash ==
    /\ pc # "down"
    /\ Spend("crashes")
    /\ pc' = "down" /\ job' = Run("none")
    /\ UNCHANGED <<disk, world>>

Publish ==
    /\ \E r \in Release \ published : /\ \A s \in 1 .. r - 1 : s \in published
                                      /\ published' = published \cup {r}
    /\ UNCHANGED <<disk, pc, job, yanked, offered, budget>>

TakeBack ==
    /\ \E r \in published \cap Bad : yanked' = yanked \cup {r}
    /\ yanked' # yanked
    /\ UNCHANGED <<disk, pc, job, published, offered, budget>>

Offer ==
    /\ \/ ~offered /\ Spend("events")
       \/ offered /\ UNCHANGED budget
    /\ offered' = ~offered
    /\ UNCHANGED <<disk, pc, job, published, yanked>>

Step ==
    \/ Start \/ CheckJournal \/ CheckHealth \/ GiveUp \/ RestoreStarts
    \/ BackupStarts \/ BackupEnds \/ Prune
    \/ PlanRollback \/ PlanUpdate \/ PlanStops \/ PlanPlugins
    \/ Copy \/ Copied \/ Install \/ Clean \/ Build
    \/ Plugins \/ Replug \/ WriteBaseline \/ WriteHealth \/ ClearJournal \/ Boot

Environment ==
    \/ BackupFails \/ CopyFails \/ RebuildFails \/ PluginFails
    \/ Tick \/ Cli \/ Crash \/ Publish \/ TakeBack \/ Offer

Next == Step \/ Environment

Spec == Init /\ [][Next]_vars

(* The process runs on, and the supervisor starts it again.                *)
FairSpec == Spec /\ WF_vars(Step)

-------------------------------------------------------------------------------
(* Properties                                                              *)

(* What is left in the tree when backup b is copied over it.               *)
Restored(b) == [f \in File |-> IF b.files[f] # 0 THEN b.files[f] ELSE tree[f]]

Sound(id, r) == id \in Ids /\ BackupOf(id).whole /\ Whole(Restored(BackupOf(id)), r)

(* While no apply or restore is under way, and while one is only being     *)
(* backed up, the core files are those of one release, whatever crashes    *)
(* and failed recoveries came before.                                      *)
TreeIsWhole == journal.backup = 0 => \E r \in Release : Whole(tree, r)

(* ... and that release is the one baseline.json names.                    *)
BaselineIsTrue == journal.backup = 0 => Whole(tree, baseline.tag)

(* A journal that names a backup can be recovered from: the backup is on   *)
(* disk, complete, and copying it makes one release of the tree.           *)
JournalRecovers == journal.backup # 0 => \E r \in Release : Sound(journal.backup, r)

(* An unproven update can be rolled back: until something else is          *)
(* installed, and while no apply is to be undone first, the backup its     *)
(* marker names is on disk, not pruned, complete, and copying it makes the *)
(* release before the update of the tree.                                  *)
RollbackIsReady ==
    /\ pending # NoHealth /\ journal.backup = 0
    /\ baseline.tag = pending.to /\ baseline.prev = pending.prev
    => Sound(pending.backup, pending.prev)

(* Nobody finds files at rest that nothing names: the state has its shape, *)
(* the tree is whole and baseline.json says of which release.              *)
FilesAreKnown == TypeOK /\ TreeIsWhole /\ BaselineIsTrue

(* Whatever marker is on disk, what it promises to go back to is there.    *)
RecoveryIsReady == JournalRecovers /\ RollbackIsReady

(* When crashes and failures end, bad releases are taken back and no       *)
(* plugin tag is on offer, the bot comes up.                               *)
BotComesUp ==
    <>[](~offered /\ published \cap Bad \subseteq yanked) => []<>(pc = "running")

(* An interrupted apply or restore can always be recovered on boot.        *)
RecoveryCanRun == pc = "down" /\ journal.backup # 0 => Rebuilds \/ built # NoCore
=============================================================================
