---------------------------- MODULE Updater_proof ----------------------------
(***************************************************************************)
(* Whatever crashes fall into an update or a restore, and however many,    *)
(* the files on disk are those of the release baseline.json names, or the  *)
(* journal names a backup that makes them so; unless a restore fails.      *)
(***************************************************************************)
EXTENDS Updater, FiniteSetTheorems, SequenceTheorems, TLAPS

-----------------------------------------------------------------------------
(* The inductive invariant.                                                *)

Budgets == [crashes : 0 .. MaxCrashes, failures : 0 .. MaxFailures, events : 0 .. MaxEvents]

Shape ==
    /\ tree \in Tree /\ built \in Tree \cup {NoCore} /\ plugin \in Release \cup {0}
    /\ baseline \in [tag : Release, prev : Release \cup {0}, files : Tree]
    /\ journal \in [phase : {"backing_up", "applying", "restoring", "complete"}, backup : Nat]
    /\ pending \in [to : Release \cup {0}, prev : Release \cup {0}, attempts : Nat, backup : Nat]
    /\ backups \in Seq(Backup)
    /\ pc \in Pc /\ job \in Job
    /\ published \subseteq Release /\ yanked \subseteq Release /\ offered \in BOOLEAN
    /\ budget \in Budgets

(* Each boot that fails adds an attempt; from the second on, only a crash  *)
(* keeps the marker on disk.                                               *)
Attempts == pending.attempts <= (IF pc = "giveup" THEN 2 ELSE 1) + MaxCrashes - budget.crashes

(* Each backup has an id of its own.                                       *)
Unique(kept) ==
    /\ \A i, j \in DOMAIN kept : kept[i].id = kept[j].id => i = j
    /\ \A i \in DOMAIN kept : kept[i].id # 0

Distinct == Unique(backups)

(* Copying a backup over a tree.                                           *)
Over(t, b) == [f \in File |-> IF b.files[f] # 0 THEN b.files[f] ELSE t[f]]

(* The tree as recovering from the journal will have left it.              *)
Base == IF journal.backup = 0 THEN tree ELSE Over(tree, BackupOf(journal.backup))

(* A backup that gives back the release it was taken of.                   *)
Recovers(b, t) == b.whole /\ b.tag \in Release /\ Whole(Over(t, b), b.tag)

(* What is on disk says what the files are.  A backup that the health      *)
(* marker names may have been pruned.                                      *)
Named ==
    /\ \A f \in Ships[baseline.tag] : baseline.files[f] = baseline.tag /\ tree[f] # 0
    /\ journal.backup = 0 => Whole(tree, baseline.tag)
    /\ journal.backup # 0 => journal.backup \in Ids /\ Recovers(BackupOf(journal.backup), tree)
    /\ pending.backup \in Ids => Recovers(BackupOf(pending.backup), Base)

Restoring == job.doing = "restore"
Updating == job.doing = "update" /\ job.target # 0

(* The procedures, and what they do from the backup on: copy and after.    *)
Copying == pc \in {"applying", "install", "clean", "build", "plugins", "replugging",
                   "baseline", "health", "clear"}

(* Where the process can be, doing what.                                   *)
Control ==
    /\ pc \notin {"down", "boot", "running"} => job.by # "none"
    /\ pc = "check" => job.by = "check"
    /\ pc \in {"down", "check", "giveup", "plan", "plugins", "replugging", "health", "prune",
               "boot", "running"} => ~Restoring
    /\ pc = "restore" => Restoring
    /\ pc \in {"backup", "copying", "applying", "install", "clean", "build", "health", "clear"}
         => Updating \/ Restoring
    /\ pc # "applying" => job.todo = {}
    /\ pc = "giveup" \/ Restoring => job.by # "tick"
    /\ pc = "giveup" => journal.backup = 0 /\ job.why # "journal"
    /\ pc = "plan" /\ journal.backup # 0 => pending = NoHealth /\ ~job.force
    /\ pc = "prune" /\ Updating => journal.backup = 0

(* Before anything is copied.                                              *)
Before ==
    /\ pc = "restore" =>
         IF job.why = "journal" THEN job.backup = journal.backup /\ journal.backup # 0
         ELSE /\ journal.backup = 0 /\ pending = NoHealth
              /\ job.backup \in Ids => Recovers(BackupOf(job.backup), tree)
    /\ pc \in {"backup", "copying"} =>
         IF Restoring THEN job.backup = journal.backup /\ journal.backup # 0
         ELSE journal.backup = 0 /\ job.from = baseline.tag
    /\ pc = "copying" =>
         /\ backups # <<>>
         /\ backups[Len(backups)].id \notin {journal.backup, pending.backup, job.backup}

(* While and after a backup is copied back.                                *)
Undoing == Copying /\ Restoring =>
    /\ job.backup = journal.backup /\ journal.backup # 0
    /\ job.todo \cap File \subseteq {f \in File : BackupOf(job.backup).files[f] # 0}
    /\ \A f \in File \ job.todo :
         BackupOf(job.backup).files[f] # 0 => tree[f] = BackupOf(job.backup).files[f]
    /\ Core \in job.todo => BackupOf(job.backup).core # NoCore

(* While and after a release is copied over the tree, which so far differs *)
(* from what it was in files of that release only.                         *)
Doing == Copying /\ Updating =>
    /\ job.backup = journal.backup /\ journal.backup # 0
    /\ BackupOf(job.backup).tag = job.from
    /\ job.todo \subseteq Ships[job.target]
    /\ \A f \in job.todo : tree[f] = BackupOf(job.backup).files[f]
    /\ \A f \in Ships[job.target] \ job.todo : tree[f] = job.target
    /\ \A f \in Ships[job.target] \cap Ships[job.from] : BackupOf(job.backup).files[f] # 0
    /\ \A f \in File \ Ships[job.target] : Base[f] = tree[f]

(* Once the baseline is written.                                           *)
Baselines ==
    /\ pc \in {"clear", "health"} => Whole(tree, baseline.tag)
    /\ pc = "clear" /\ Updating => job.from = job.target \/ pending.backup = job.backup

(* A journal that is left behind by an update that failed names the newest *)
(* backup, which is not pruned.                                            *)
Latest ==
    journal.backup # 0 /\ ~Restoring /\ pc \notin {"down", "check", "giveup", "restore"}
    => backups # <<>> /\ backups[Len(backups)].id = journal.backup

(* A bot that is up has no unproven update, and nobody finds one in a plan *)
(* that is made while a journal is left behind.                            *)
Settled ==
    pc = "running" \/ (job.by \in {"tick", "check"} /\ ~Restoring
                       /\ pc \in {"plan", "backup", "copying", "applying", "install", "clean",
                                  "build", "plugins", "replugging", "baseline"})
    => pending = NoHealth

Inv ==
    /\ Shape /\ Attempts /\ Distinct
    /\ Named /\ Control /\ Before /\ Undoing /\ Doing /\ Baselines /\ Latest /\ Settled

-----------------------------------------------------------------------------
(* Backups.                                                                *)

LEMMA ReleaseShape ==
    /\ Release \subseteq Nat \ {0} /\ 1 \in Release
    /\ \A r \in Release : Ships[r] \subseteq File
<1>1. Cardinality(Release) \in Nat
  BY UpdaterAssumption, FS_CardinalityType
<1> QED
  BY <1>1, UpdaterAssumption

(* The backup of an id that only one has.                                  *)
LEMMA BackupIs ==
    ASSUME NEW kept, Unique(kept), NEW i \in DOMAIN kept, NEW id, kept[i].id = id
    PROVE  BackupIn(kept, id) = kept[i]
<1> DEFINE c == CHOOSE k \in DOMAIN kept : kept[k].id = id
<1>1. c \in DOMAIN kept /\ kept[c].id = id
  OBVIOUS
<1> HIDE DEF c
<1>2. c = i
  BY <1>1 DEF Unique
<1> QED
  BY <1>2 DEF BackupIn, c

LEMMA BackupShape ==
    ASSUME Shape, Distinct, NEW id \in Ids
    PROVE  BackupOf(id) \in Backup /\ BackupOf(id).id = id /\ id # 0
<1>1. PICK i \in DOMAIN backups : backups[i].id = id
  BY DEF Ids
<1> QED
  BY <1>1, BackupIs DEF Shape, Distinct, Unique, BackupOf

LEMMA UpTo == ASSUME NEW n \in Nat PROVE IsFiniteSet(1 .. n) /\ Cardinality(1 .. n) = n
BY FS_Interval

LEMMA OneMore ==
    ASSUME NEW S, IsFiniteSet(S), NEW n \in Nat, Cardinality(S) <= n, NEW x
    PROVE  IsFiniteSet(S \cup {x}) /\ Cardinality(S \cup {x}) <= n + 1
<1>1. Cardinality(S) \in Nat
  BY FS_CardinalityType
<1> QED
  BY <1>1, FS_AddElement

(* There is always a name that is not in use.                              *)
LEMMA Fresh ==
    ASSUME Shape, journal.backup \in {0, job.backup}
    PROVE  FreshId \in Nat \ {0} /\ FreshId \notin Ids \cup {journal.backup, pending.backup, job.backup}
<1> DEFINE L == Len(backups)
           f == [i \in 1 .. L |-> backups[i].id]
           Used == Ids \cup {pending.backup, job.backup}
<1>1. L \in Nat /\ DOMAIN backups = 1 .. L
  BY DEF Shape
<1>2. IsFiniteSet(1 .. L) /\ Cardinality(1 .. L) = L
  BY <1>1, UpTo
<1>3. f \in Surjection(1 .. L, Ids)
  BY <1>1 DEF Surjection, Ids
<1>4. IsFiniteSet(Ids) /\ Cardinality(Ids) <= L
  BY <1>2, <1>3, FS_Surjection DEF ExistsSurjection
<1>5. IsFiniteSet(Used) /\ Cardinality(Used) <= L + 2
  <2>1. IsFiniteSet(Ids \cup {pending.backup}) /\ Cardinality(Ids \cup {pending.backup}) <= L + 1
    BY <1>1, <1>4, OneMore
  <2>2. Used = (Ids \cup {pending.backup}) \cup {job.backup}
    OBVIOUS
  <2>3. L + 1 \in Nat /\ (L + 1) + 1 = L + 2
    BY <1>1
  <2> HIDE DEF Used, L
  <2>4. Cardinality(Used) <= (L + 1) + 1 /\ IsFiniteSet(Used)
    BY <2>1, <2>2, <2>3, OneMore
  <2> QED
    BY <2>3, <2>4
<1>6. Cardinality(1 .. L + 3) = L + 3
  BY <1>1, UpTo
<1>7. \E n \in 1 .. L + 3 : n \notin Used
  <2> SUFFICES ASSUME 1 .. L + 3 \subseteq Used PROVE FALSE
    OBVIOUS
  <2>1. Cardinality(1 .. L + 3) <= Cardinality(Used) /\ Cardinality(Used) \in Nat
    BY <1>5, FS_Subset, FS_CardinalityType
  <2> QED
    BY <1>1, <1>5, <1>6, <2>1
<1>8. \E n \in 1 .. L + 3 : n \notin Ids \cup {journal.backup, pending.backup, job.backup}
  BY <1>1, <1>7
<1> QED
  BY <1>1, <1>8 DEF FreshId

-----------------------------------------------------------------------------
(* Steps that leave what is on disk alone.                                 *)

LEMMA RunShape ==
    ASSUME NEW by \in Caller
    PROVE  /\ Run(by) \in Job /\ Run(by).by = by /\ Run(by).doing = "update"
           /\ Run(by).target = 0 /\ Run(by).todo = {} /\ Run(by).force = FALSE
BY ReleaseShape DEF Run, Job, Caller

LEMMA SpendShape ==
    ASSUME Shape, NEW what \in {"crashes", "failures", "events"}, Spend(what)
    PROVE  /\ budget' \in Budgets
           /\ budget'.crashes <= budget.crashes
           /\ what = "crashes" => budget'.crashes = budget.crashes - 1
<1>1. {MaxCrashes, MaxFailures, MaxEvents} \subseteq Nat
  BY UpdaterAssumption
<1> QED
  BY <1>1 DEF Shape, Spend, Budgets

LEMMA Counts ==
    ASSUME Shape
    PROVE  MaxCrashes \in Nat /\ budget.crashes \in 0 .. MaxCrashes /\ pending.attempts \in Nat
<1>1. {MaxCrashes, MaxFailures, MaxEvents} \subseteq Nat
  BY UpdaterAssumption
<1> QED
  BY <1>1 DEF Shape, Budgets

LEMMA AttemptsStay ==
    ASSUME Shape, Shape', Attempts, pc = "giveup" => pc' = "giveup", budget'.crashes <= budget.crashes,
           pending' = pending \/ pending'.attempts = 0
    PROVE  Attempts'
<1>1. /\ MaxCrashes \in Nat /\ budget.crashes \in Nat /\ budget'.crashes \in Nat
      /\ pending.attempts \in Nat /\ budget'.crashes <= MaxCrashes
  BY Counts DEF Shape, Budgets
<1> QED
  BY <1>1 DEF Attempts

LEMMA NamedStays ==
    ASSUME Named, Distinct, UNCHANGED <<tree, baseline, journal, pending, backups>>
    PROVE  Named' /\ Distinct'
BY DEF Named, Distinct, Base, Recovers, Over, Whole, BackupOf, Ids

LEMMA LeaveShape ==
    ASSUME Shape, Control, pc \notin {"down", "boot", "running"}, NEW done \in BOOLEAN, Leave(done)
    PROVE  /\ job' \in Job /\ job'.doing = "update" /\ job'.target = 0
           /\ job'.todo = {} /\ job'.force = FALSE
           /\ pc' \in {"down", "plan", "boot", "running"}
           /\ pc' = "plan" => job.by = "check" /\ ~done /\ job'.by = "preboot"
           /\ pc' = "running" => job.by = "tick"
           /\ pc' # "plan" => job'.by = "none"
           /\ done => pc' = "down"
<1>1. job.by \in {"check", "preboot", "tick", "cli"}
  BY DEF Shape, Control, Job, Caller
<1>2. "none" \in Caller /\ "preboot" \in Caller
  BY DEF Caller
<1>3. pc' = IF job.by = "cli" \/ done THEN "down"
            ELSE IF job.by = "check" THEN "plan"
            ELSE IF job.by = "preboot" THEN "boot" ELSE "running"
  BY <1>1 DEF Leave
<1>4. job' = Run(IF job.by = "check" /\ ~done THEN "preboot" ELSE "none")
  BY DEF Leave
<1> QED
  BY <1>1, <1>2, <1>3, <1>4, RunShape

(* Where a run may end.                                                    *)
LEMMA AtRest ==
    ASSUME Shape', Attempts', Distinct', Named',
           job'.doing = "update", job'.todo = {},
           pc' \in {"down", "plan", "boot", "running"},
           pc' = "plan" => /\ job'.by # "none" /\ (job'.by \in {"check", "tick"} => pending' = NoHealth)
                           /\ journal'.backup = 0 \/ (pending' = NoHealth /\ ~job'.force),
           pc' = "running" => pending' = NoHealth,
           pc' # "down" /\ journal'.backup # 0
               => backups' # <<>> /\ backups'[Len(backups')].id = journal'.backup
    PROVE  Inv'
BY DEF Inv, Control, Before, Undoing, Doing, Baselines, Latest, Settled, Copying, Restoring, Updating

(* A run that ends without touching the disk.                              *)
LEMMA Leaves ==
    ASSUME Inv, NEW done \in BOOLEAN, Leave(done), ~Restoring,
           pc \in {"plan", "backup", "copying", "applying", "install", "clean", "build",
                   "plugins", "replugging", "baseline"},
           UNCHANGED <<tree, baseline, journal, pending, world>>,
           built' \in Tree \cup {NoCore}, plugin' \in Release \cup {0},
           budget' \in Budgets,
           budget'.crashes <= budget.crashes,
           UNCHANGED backups
    PROVE  Inv'
<1>1. /\ job' \in Job /\ job'.doing = "update" /\ job'.todo = {} /\ job'.force = FALSE
      /\ pc' \in {"down", "plan", "boot", "running"}
      /\ pc' = "plan" => job.by = "check" /\ job'.by = "preboot"
      /\ pc' = "running" => job.by = "tick"
  BY LeaveShape DEF Inv
<1>2. Shape'
  BY <1>1 DEF Inv, Shape, Pc, world
<1>3. Attempts'
  BY <1>2, AttemptsStay DEF Inv
<1>4. Named' /\ Distinct'
  BY NamedStays DEF Inv
<1>5. pc' = "plan" \/ pc' = "running" => pending' = NoHealth
  BY <1>1 DEF Inv, Settled
<1>6. journal'.backup # 0 => backups' # <<>> /\ backups'[Len(backups')].id = journal'.backup
  BY DEF Inv, Latest
<1> QED
  BY <1>1, <1>2, <1>3, <1>4, <1>5, <1>6, AtRest

(* The disk and the process stay, only the world changes.                  *)
LEMMA WorldKeeps == ASSUME Inv, Publish \/ TakeBack \/ Offer PROVE Inv'
<1>1. /\ UNCHANGED <<disk, pc, job>>
      /\ published' \subseteq Release /\ yanked' \subseteq Release /\ offered' \in BOOLEAN
  BY DEF Publish, TakeBack, Offer, Inv, Shape
<1>2. /\ budget' \in Budgets
      /\ budget'.crashes <= budget.crashes
  <2>1. CASE budget' = budget
    BY <2>1, Counts DEF Inv, Shape
  <2>2. CASE Spend("events")
    BY <2>2, SpendShape DEF Inv
  <2> QED
    BY <2>1, <2>2 DEF Publish, TakeBack, Offer
<1>3. Shape'
  BY <1>1, <1>2 DEF Inv, Shape, disk
<1>4. Attempts'
  BY <1>1, <1>2, <1>3, AttemptsStay DEF Inv, disk
<1>5. Named' /\ Distinct'
  BY <1>1, NamedStays DEF Inv, disk
<1>6. Control' /\ Latest' /\ Settled' /\ Baselines'
  BY <1>1 DEF Inv, disk, Control, Latest, Settled, Baselines, Restoring, Updating, Whole
<1>7. Before' /\ Undoing' /\ Doing'
  BY <1>1 DEF Inv, disk, Before, Undoing, Doing, Restoring, Updating, Copying, Recovers, Whole,
              Over, Base, BackupOf, Ids
<1> QED
  BY <1>3, <1>4, <1>5, <1>6, <1>7 DEF Inv

LEMMA StartKeeps == ASSUME Inv, Start PROVE Inv'
<1>1. /\ pc' = "check" /\ job' = Run("check") /\ built' \in Tree \cup {NoCore}
      /\ UNCHANGED <<tree, plugin, baseline, journal, pending, backups, world, budget>>
      /\ pc = "down"
  BY DEF Start, Inv, Shape
<1>2. /\ job' \in Job /\ job'.doing = "update" /\ job'.todo = {} /\ job'.by = "check"
  BY <1>1, RunShape DEF Caller
<1>3. Shape' /\ Attempts'
  BY <1>1, <1>2 DEF Inv, Shape, Attempts, Pc, world
<1>4. Named' /\ Distinct'
  BY <1>1, NamedStays DEF Inv
<1> QED
  BY <1>1, <1>2, <1>3, <1>4
     DEF Inv, Control, Before, Undoing, Doing, Baselines, Latest, Settled, Copying, Restoring, Updating

LEMMA CrashKeeps == ASSUME Inv, Crash PROVE Inv'
<1>1. /\ pc' = "down" /\ job' = Run("none") /\ UNCHANGED <<disk, world>>
  BY DEF Crash
<1>2. /\ budget' \in Budgets
      /\ budget'.crashes = budget.crashes - 1
  BY SpendShape DEF Crash, Inv
<1>3. job' \in Job /\ job'.doing = "update" /\ job'.todo = {}
  BY <1>1, RunShape DEF Caller
<1>4. Shape'
  BY <1>1, <1>2, <1>3 DEF Inv, Shape, Pc, world, disk
<1>5. Attempts'
  <2>1. budget'.crashes <= budget.crashes
    BY <1>2, Counts DEF Inv
  <2>2. CASE pc # "giveup"
    BY <1>1, <1>4, <2>1, <2>2, AttemptsStay DEF Inv, disk
  <2>3. CASE pc = "giveup"
    <3>1. /\ MaxCrashes \in Nat /\ budget.crashes \in Nat /\ pending.attempts \in Nat
          /\ pending.attempts <= 2 + MaxCrashes - budget.crashes
      BY <2>3, Counts DEF Inv, Attempts
    <3> QED
      BY <1>1, <1>2, <3>1 DEF Attempts, disk
  <2> QED
    BY <2>2, <2>3
<1>6. Named' /\ Distinct'
  BY <1>1, NamedStays DEF Inv, disk
<1> QED
  BY <1>1, <1>3, <1>4, <1>5, <1>6, AtRest

LEMMA TickKeeps == ASSUME Inv, Tick PROVE Inv'
<1>1. /\ pc = "running" /\ pc' = "plan" /\ job' = Run("tick")
      /\ UNCHANGED <<disk, world, budget>>
  BY DEF Tick
<1>2. job' \in Job /\ job'.doing = "update" /\ job'.todo = {} /\ job'.by = "tick" /\ ~job'.force
  BY <1>1, RunShape DEF Caller
<1>3. Shape' /\ Attempts'
  BY <1>1, <1>2 DEF Inv, Shape, Attempts, Pc, world, disk
<1>4. Named' /\ Distinct'
  BY <1>1, NamedStays DEF Inv, disk
<1>5. pending' = NoHealth
  BY <1>1 DEF Inv, Settled, disk
<1>6. journal'.backup # 0 => backups' # <<>> /\ backups'[Len(backups')].id = journal'.backup
  BY <1>1 DEF Inv, Latest, Control, disk
<1> QED
  BY <1>1, <1>2, <1>3, <1>4, <1>5, <1>6, AtRest

LEMMA CliKeeps == ASSUME Inv, Cli PROVE Inv'
<1>1. PICK t \in published \cup {0, baseline.prev}, force \in BOOLEAN :
          job' = [Run("cli") EXCEPT !.target = t, !.force = force]
  BY DEF Cli
<1>2. t \in Release \cup {0}
  BY <1>1 DEF Inv, Shape
<1>3. /\ pc = "down" /\ pc' = "plan" /\ journal.backup = 0 /\ UNCHANGED <<disk, world>>
  BY DEF Cli
<1>4. /\ budget' \in Budgets
      /\ budget'.crashes <= budget.crashes
  BY SpendShape DEF Cli, Inv
<1>5. job' \in Job /\ job'.doing = "update" /\ job'.todo = {} /\ job'.by = "cli"
  BY <1>1, <1>2, RunShape DEF Caller, Job
<1>6. Shape'
  BY <1>3, <1>4, <1>5 DEF Inv, Shape, Pc, world, disk
<1>7. Attempts'
  BY <1>3, <1>4, <1>6, AttemptsStay DEF Inv, disk
<1>8. Named' /\ Distinct'
  BY <1>3, NamedStays DEF Inv, disk
<1> QED
  BY <1>3, <1>5, <1>6, <1>7, <1>8, AtRest DEF disk

(* A bot that comes up clears the marker.                                  *)
LEMMA BootKeeps == ASSUME Inv, Boot PROVE Inv'
<1>1. /\ pc = "boot" /\ UNCHANGED <<tree, built, plugin, baseline, journal, backups, job, world, budget>>
      /\ \/ pc' = "running" /\ pending' = NoHealth
         \/ pc' = "down" /\ UNCHANGED pending
  BY DEF Boot
<1>2. Shape'
  BY <1>1, UpdaterAssumption DEF Inv, Shape, Pc, world, NoHealth
<1>6. Attempts'
  <2>1. budget'.crashes <= budget.crashes
    BY <1>1, Counts DEF Inv
  <2> QED
    BY <1>1, <1>2, <2>1, AttemptsStay DEF Inv, NoHealth
<1>3. Named' /\ Distinct'
  BY <1>1 DEF Inv, Named, Distinct, Unique, Base, Recovers, Over, Whole, BackupOf, Ids, NoHealth
<1>4. journal.backup # 0 => backups # <<>> /\ backups[Len(backups)].id = journal.backup
  BY <1>1 DEF Inv, Latest, Control
<1>5. job'.doing = "update" /\ job'.todo = {}
  BY <1>1 DEF Inv, Control, Restoring, Shape, Job
<1> QED
  BY <1>1, <1>2, <1>3, <1>4, <1>5, <1>6, AtRest

-----------------------------------------------------------------------------
(* The check on boot.                                                      *)

LEMMA CheckJournalKeeps == ASSUME Inv, CheckJournal PROVE Inv'
<1>1. pc = "check" /\ job.by = "check" /\ UNCHANGED <<disk, world, budget>>
  BY DEF CheckJournal, Inv, Control
<1>2. Named' /\ Distinct'
  BY <1>1, NamedStays DEF Inv, disk
<1>3. CASE journal.backup = 0
  <2>1. Leave(FALSE)
    BY <1>3 DEF CheckJournal
  <2>2. /\ job' \in Job /\ job'.doing = "update" /\ job'.todo = {}
        /\ pc' = "plan" /\ job'.by = "preboot"
    BY <1>1, <2>1, RunShape DEF Leave, Caller
  <2>3. Shape'
    BY <1>1, <2>2 DEF Inv, Shape, Pc, world, disk
  <2>4. Attempts'
    BY <1>1, <2>3, Counts, AttemptsStay DEF Inv, disk
  <2> QED
    BY <1>1, <1>2, <1>3, <2>2, <2>3, <2>4, AtRest DEF disk
<1>4. CASE journal.backup # 0
  <2>1. /\ pc' = "restore"
        /\ job' = [job EXCEPT !.doing = "restore", !.why = "journal", !.backup = journal.backup]
    BY <1>4 DEF CheckJournal
  <2>2. /\ job' \in Job /\ job'.doing = "restore" /\ job'.why = "journal" /\ job'.by = "check"
        /\ job'.backup = journal.backup /\ job'.todo = {}
    BY <1>1, <2>1 DEF Inv, Shape, Control, Job
  <2>3. Shape'
    BY <1>1, <2>1, <2>2 DEF Inv, Shape, Pc, world, disk
  <2>4. Attempts'
    BY <1>1, <2>3, Counts, AttemptsStay DEF Inv, disk
  <2> QED
    BY <1>1, <1>2, <1>4, <2>1, <2>2, <2>3, <2>4
       DEF Inv, disk, Control, Before, Undoing, Doing, Baselines, Latest, Settled, Copying,
           Restoring, Updating
<1> QED
  BY <1>3, <1>4

LEMMA CheckHealthKeeps == ASSUME Inv, CheckHealth PROVE Inv'
<1>1. /\ pc = "check" /\ job.by = "check" /\ journal.backup = 0 /\ journal' = journal
      /\ UNCHANGED <<tree, built, plugin, baseline, journal, backups, world>>
      /\ pending' = pending \/ pending' = [pending EXCEPT !.attempts = @ + 1]
  BY DEF CheckHealth, Inv, Control, NoJournal
<1>6. /\ pending'.backup = pending.backup
      /\ pending' \in [to : Release \cup {0}, prev : Release \cup {0}, attempts : Nat, backup : Nat]
      /\ pending'.attempts <= pending.attempts + 1
  BY <1>1 DEF Inv, Shape
<1>2. Named' /\ Distinct'
  BY <1>1, <1>6 DEF Inv, Named, Distinct, Unique, Base, Recovers, Over, Whole, BackupOf, Ids
<1>3. budget' \in Budgets /\ budget'.crashes <= budget.crashes
  <2>1. CASE budget' = budget
    BY <2>1, Counts DEF Inv, Shape
  <2>2. CASE Spend("events")
    BY <2>2, SpendShape DEF Inv
  <2> QED
    BY <2>1, <2>2 DEF CheckHealth
<1>4. CASE Leave(FALSE) /\ (pending' = pending \/ pending'.attempts < 2)
  <2>1. /\ job' \in Job /\ job'.doing = "update" /\ job'.todo = {}
        /\ pc' = "plan" /\ job'.by = "preboot"
    BY <1>1, <1>4, RunShape DEF Leave, Caller
  <2>2. Shape'
    BY <1>1, <1>6, <1>3, <2>1 DEF Inv, Shape, Pc, world
  <2>3. Attempts'
    <3>1. CASE pending' = pending
      BY <3>1, <1>1, <1>3, <2>2, AttemptsStay DEF Inv
    <3>2. CASE pending'.attempts < 2
      <4>1. MaxCrashes \in Nat /\ budget'.crashes \in Nat /\ budget'.crashes <= MaxCrashes
            /\ pending'.attempts \in Nat
        BY <1>1, <1>6, <1>3, Counts DEF Inv, Budgets
      <4> QED
        BY <3>2, <4>1, <2>1 DEF Attempts
    <3> QED
      BY <1>4, <3>1, <3>2
  <2> QED
    BY <1>1, <1>6, <1>2, <2>1, <2>2, <2>3, AtRest
<1>5. CASE pc' = "giveup" /\ job' = [job EXCEPT !.why = "health"]
  <2>1. /\ job' \in Job /\ job'.doing = "update" /\ job'.why = "health" /\ job'.by = "check"
        /\ job'.todo = {}
    BY <1>1, <1>5 DEF Inv, Shape, Control, Job, Restoring
  <2>2. Shape'
    BY <1>1, <1>6, <1>3, <1>5, <2>1 DEF Inv, Shape, Pc, world
  <2>3. Attempts'
    <3>1. /\ MaxCrashes \in Nat /\ budget'.crashes \in Nat /\ budget'.crashes <= MaxCrashes
          /\ budget'.crashes <= budget.crashes /\ budget.crashes \in Nat
          /\ pending'.attempts \in Nat /\ pending.attempts \in Nat
      BY <1>1, <1>6, <1>3, Counts DEF Inv, Budgets
    <3>2. pending.attempts <= 1 + MaxCrashes - budget.crashes
      BY <1>1 DEF Inv, Attempts
    <3> QED
      BY <1>1, <1>6, <1>5, <3>1, <3>2 DEF Attempts
  <2> QED
    BY <1>1, <1>6, <1>2, <1>5, <2>1, <2>2, <2>3
       DEF Inv, Control, Before, Undoing, Doing, Baselines, Latest, Settled, Copying,
           Restoring, Updating
<1> QED
  BY <1>4, <1>5 DEF CheckHealth

LEMMA GiveUpKeeps == ASSUME Inv, GiveUp PROVE Inv'
<1>1. /\ pc = "giveup" /\ pc' = "restore" /\ pending' = NoHealth
      /\ job' = [job EXCEPT !.doing = "restore", !.backup = pending.backup, !.target = pending.prev]
      /\ UNCHANGED <<tree, built, plugin, baseline, journal, backups, world, budget>>
      /\ journal.backup = 0 /\ job.why # "journal" /\ job.by \notin {"none", "tick"}
  BY DEF GiveUp, Inv, Control
<1>2. /\ job' \in Job /\ job'.doing = "restore" /\ job'.why = job.why /\ job'.by = job.by
      /\ job'.backup = pending.backup /\ job'.todo = {}
  BY <1>1 DEF Inv, Shape, Control, Job
<1>3. Shape'
  BY <1>1, <1>2 DEF Inv, Shape, Pc, world, NoHealth
<1>4. Attempts'
  <2>1. MaxCrashes \in Nat /\ budget.crashes \in Nat /\ budget.crashes <= MaxCrashes
    BY Counts DEF Inv
  <2> QED
    BY <1>1, <2>1 DEF Attempts, NoHealth
<1>5. Named' /\ Distinct'
  BY <1>1 DEF Inv, Named, Distinct, Unique, Base, Recovers, Over, Whole, BackupOf, Ids, NoHealth
<1>6. job'.backup \in Ids' => Recovers(BackupOf(job'.backup), tree)
  BY <1>1, <1>2 DEF Inv, Named, Base, Ids
<1>7. BackupIn(backups', job'.backup) = BackupOf(job'.backup)
  BY <1>1 DEF BackupOf
<1>8. Before'
  BY <1>1, <1>2, <1>6, <1>7 DEF Before, Restoring, Recovers, Over, Whole, BackupOf
<1> QED
  BY <1>1, <1>2, <1>3, <1>4, <1>5, <1>8
     DEF Inv, Control, Undoing, Doing, Baselines, Latest, Settled, Copying, Restoring, Updating

LEMMA RestoreStartsKeeps == ASSUME Inv, RestoreStarts PROVE Inv'
<1>1. /\ pc = "restore" /\ Restoring /\ job.by \notin {"none", "tick"} /\ job.todo = {}
      /\ UNCHANGED <<tree, built, plugin, baseline, pending, backups, world, budget>>
  BY DEF RestoreStarts, Inv, Control
<1>2. CASE job.backup \in Ids
  <2>1. /\ journal' = [phase |-> "restoring", backup |-> job.backup]
        /\ pc' = "backup" /\ job' = [job EXCEPT !.from = baseline.tag]
    BY <1>2 DEF RestoreStarts
  <2>2. /\ job' \in Job /\ job'.doing = "restore" /\ job'.by = job.by
        /\ job'.backup = job.backup /\ job'.todo = {}
    BY <1>1, <2>1 DEF Inv, Shape, Control, Job, Restoring
  <2>3. journal'.backup = job.backup /\ job.backup # 0
    BY <1>2, <2>1, BackupShape DEF Inv
  <2>4. Shape'
    <3>1. job.backup \in Nat
      BY DEF Inv, Shape, Job
    <3> QED
      BY <1>1, <2>1, <2>2, <3>1 DEF Inv, Shape, Pc, world
  <2>5. Attempts'
    BY <1>1, <2>4, Counts, AttemptsStay DEF Inv
  <2>6. Named' /\ Distinct'
    <3>1. CASE job.why = "journal"
      <4>1. journal'.backup = journal.backup
        BY <1>1, <2>3, <3>1 DEF Inv, Before
      <4> QED
        BY <1>1, <4>1 DEF Inv, Named, Distinct, Unique, Base, Recovers, Over, Whole, BackupOf, Ids
    <3>2. CASE job.why # "journal"
      <4>1. /\ pending.backup = 0 /\ Recovers(BackupOf(job.backup), tree)
        BY <1>1, <1>2, <3>2 DEF Inv, Before, NoHealth
      <4>2. pending'.backup \notin Ids'
        BY <1>1, <4>1 DEF Inv, Distinct, Unique, Ids
      <4> QED
        BY <1>1, <1>2, <2>3, <4>1, <4>2
           DEF Inv, Named, Distinct, Unique, Recovers, Over, Whole, BackupOf, Ids
    <3> QED
      BY <3>1, <3>2
  <2> QED
    BY <1>1, <2>1, <2>2, <2>3, <2>4, <2>5, <2>6
       DEF Inv, Control, Before, Undoing, Doing, Baselines, Latest, Settled, Copying, Restoring,
           Updating
<1>3. CASE job.backup \notin Ids
  <2>1. /\ job.why # "journal" /\ journal.backup = 0 /\ pending = NoHealth
    BY <1>1, <1>3 DEF Inv, Before, Named
  <2>2. RebuildFailed /\ journal' = journal
    BY <1>3 DEF RestoreStarts, RebuildFailed
  <2>3. /\ job' \in Job /\ job'.doing = "update" /\ job'.todo = {}
        /\ pc' \in {"down", "plan", "boot", "running"}
        /\ pc' = "plan" => job'.by # "none"
    <3>1. CASE Leave(FALSE)
      BY <1>1, <3>1, LeaveShape DEF Inv
    <3>2. CASE Fallback
      <4>1. pc' = "plan" /\ job' = [Run(job.by) EXCEPT !.target = job.target, !.force = TRUE]
        BY <3>2 DEF Fallback
      <4>2. job.by \in Caller /\ job.target \in Release \cup {0}
        BY DEF Inv, Shape, Job
      <4>3. Run(job.by) \in Job /\ Run(job.by).doing = "update" /\ Run(job.by).todo = {}
            /\ Run(job.by).by = job.by
        BY <4>2, RunShape
      <4> QED
        BY <1>1, <4>1, <4>2, <4>3 DEF Job
    <3> QED
      BY <2>2, <3>1, <3>2 DEF RebuildFailed
  <2>4. Shape'
    BY <1>1, <2>2, <2>3 DEF Inv, Shape, Pc, world
  <2>5. Attempts'
    BY <1>1, <2>4, Counts, AttemptsStay DEF Inv
  <2>6. Named' /\ Distinct'
    BY <1>1, <2>2, NamedStays DEF Inv
  <2> QED
    BY <1>1, <2>1, <2>2, <2>3, <2>4, <2>5, <2>6, AtRest
<1> QED
  BY <1>2, <1>3

-----------------------------------------------------------------------------
(* The plan.                                                               *)

LEMMA PlanRollbackKeeps == ASSUME Inv, PlanRollback PROVE Inv'
<1>1. /\ pc = "plan" /\ pending # NoHealth /\ pc' = "giveup" /\ job' = [job EXCEPT !.why = "aged"]
      /\ UNCHANGED <<disk, world>>
  BY DEF PlanRollback
<1>2. journal.backup = 0 /\ job.by \notin {"none", "tick"} /\ ~Restoring /\ job.todo = {}
  BY <1>1 DEF Inv, Control, Settled
<1>3. /\ job' \in Job /\ job'.doing = "update" /\ job'.why = "aged" /\ job'.by = job.by
      /\ job'.todo = {}
  BY <1>1, <1>2 DEF Inv, Shape, Job, Restoring
<1>4. budget' \in Budgets /\ budget'.crashes <= budget.crashes
  BY SpendShape DEF PlanRollback, Inv
<1>5. Shape'
  BY <1>1, <1>3, <1>4 DEF Inv, Shape, Pc, world, disk
<1>6. Attempts'
  BY <1>1, <1>4, <1>5, AttemptsStay DEF Inv, disk
<1>7. Named' /\ Distinct'
  BY <1>1, NamedStays DEF Inv, disk
<1> QED
  BY <1>1, <1>2, <1>3, <1>5, <1>6, <1>7
     DEF Inv, disk, Control, Before, Undoing, Doing, Baselines, Latest, Settled, Copying, Restoring,
         Updating

LEMMA TargetIs == ASSUME Shape, NEW r \in Targets PROVE r \in Release
BY DEF Shape, Job, Targets, Newest

(* A forced update starts from a whole tree, any other compares the files. *)
LEMMA PlanUpdateKeeps == ASSUME Inv, PlanUpdate PROVE Inv'
<1>1. PICK r \in Targets :
        /\ job' = [job EXCEPT !.doing = "update", !.target = r, !.from = baseline.tag,
                              !.plug = PluginPlan(r)]
        /\ journal' = [phase |-> "backing_up", backup |-> 0]
  BY DEF PlanUpdate
<1>2. r \in Release /\ r # 0
  BY TargetIs, ReleaseShape DEF Inv
<1>3. /\ pc = "plan" /\ pc' = "backup" /\ (job.force \/ ~Dirty)
      /\ UNCHANGED <<tree, built, plugin, baseline, pending, backups, world, budget>>
      /\ job.by # "none" /\ ~Restoring /\ job.todo = {}
  BY DEF PlanUpdate, Inv, Control
<1>4. /\ job' \in Job /\ job'.doing = "update" /\ job'.target = r /\ job'.from = baseline.tag
      /\ job'.by = job.by /\ job'.todo = {}
  <2>1. PluginPlan(r) \in {"skip", "update", "remove"} /\ baseline.tag \in Release
    BY DEF PluginPlan, Inv, Shape
  <2> QED
    BY <1>1, <1>2, <1>3, <2>1 DEF Inv, Shape, Job
<1>5. Shape'
  BY <1>1, <1>3, <1>4 DEF Inv, Shape, Pc, world
<1>6. Attempts'
  BY <1>3, <1>5, Counts, AttemptsStay DEF Inv
<1>7. Whole(tree, baseline.tag) /\ (pending.backup \in Ids => Recovers(BackupOf(pending.backup), tree))
  <2>1. CASE journal.backup = 0
    BY <2>1 DEF Inv, Named, Base
  <2>2. CASE journal.backup # 0
    <3>1. ~Dirty /\ pending.backup = 0
      BY <1>3, <2>2 DEF Inv, Control, NoHealth
    <3>2. pending.backup \notin Ids
      BY <3>1 DEF Inv, Distinct, Unique, Ids
    <3>3. ASSUME NEW f \in Ships[baseline.tag] PROVE tree[f] = baseline.tag
      <4>1. f \in File /\ baseline.tag \in Release /\ baseline.tag # 0
        BY ReleaseShape DEF Inv, Shape
      <4>2. baseline.files[f] = baseline.tag /\ tree[f] # 0
        BY DEF Inv, Named
      <4> QED
        BY <3>1, <4>1, <4>2 DEF Dirty
    <3> QED
      BY <3>2, <3>3 DEF Whole
  <2> QED
    BY <2>1, <2>2
<1>8. Named' /\ Distinct'
  BY <1>1, <1>3, <1>7 DEF Inv, Named, Distinct, Unique, Base, Recovers, Over, Whole, BackupOf, Ids
<1> QED
  BY <1>1, <1>2, <1>3, <1>4, <1>5, <1>6, <1>8
     DEF Inv, Control, Before, Undoing, Doing, Baselines, Latest, Settled, Copying, Restoring, Updating

LEMMA PlanStopsKeeps == ASSUME Inv, PlanStops PROVE Inv'
<1>1. /\ pc = "plan" /\ ~Restoring /\ Leave(FALSE) /\ UNCHANGED <<disk, world>>
  BY DEF PlanStops, Inv, Control
<1>2. budget' \in Budgets /\ budget'.crashes <= budget.crashes
  <2>1. CASE budget' = budget
    BY <2>1, Counts DEF Inv, Shape
  <2>2. CASE Spend("failures")
    BY <2>2, SpendShape DEF Inv
  <2> QED
    BY <2>1, <2>2 DEF PlanStops, Fails
<1>3. built' \in Tree \cup {NoCore} /\ plugin' \in Release \cup {0}
  BY <1>1 DEF disk, Inv, Shape
<1> QED
  BY <1>1, <1>2, <1>3, Leaves DEF disk

LEMMA PlanPluginsKeeps == ASSUME Inv, PlanPlugins PROVE Inv'
<1>1. /\ pc = "plan" /\ ~Restoring /\ job.by # "none" /\ job.todo = {}
      /\ UNCHANGED <<disk, world, budget>>
  BY DEF PlanPlugins, Inv, Control
<1>2. CASE Leave(FALSE)
  <2>1. budget' \in Budgets /\ budget'.crashes <= budget.crashes
    BY <1>1, Counts DEF Inv, Shape
  <2>2. built' \in Tree \cup {NoCore} /\ plugin' \in Release \cup {0}
    BY <1>1 DEF disk, Inv, Shape
  <2> QED
    BY <1>1, <1>2, <2>1, <2>2, Leaves DEF disk
<1>3. CASE /\ pc' = "plugins"
           /\ job' = [job EXCEPT !.target = 0, !.from = baseline.tag, !.plug = "update"]
  <2>1. /\ job' \in Job /\ job'.doing = "update" /\ job'.target = 0 /\ job'.by = job.by
        /\ job'.todo = {}
    <3>1. baseline.tag \in Release
      BY DEF Inv, Shape
    <3> QED
      BY <1>1, <1>3, <3>1 DEF Inv, Shape, Job, Restoring
  <2>2. Shape'
    BY <1>1, <1>3, <2>1 DEF Inv, Shape, Pc, world, disk
  <2>3. Attempts'
    BY <1>1, <2>2, Counts, AttemptsStay DEF Inv, disk
  <2>4. Named' /\ Distinct'
    BY <1>1, NamedStays DEF Inv, disk
  <2> QED
    BY <1>1, <1>3, <2>1, <2>2, <2>3, <2>4
       DEF Inv, disk, Control, Before, Undoing, Doing, Baselines, Latest, Settled, Copying,
           Restoring, Updating
<1> QED
  BY <1>2, <1>3 DEF PlanPlugins

-----------------------------------------------------------------------------
(* Making and dropping backups.                                            *)

(* A backup that is kept is still found by its id.                         *)
LEMMA StillFound ==
    ASSUME NEW kept, NEW now, Unique(kept), Unique(now),
           NEW i \in DOMAIN kept, NEW j \in DOMAIN now, kept[i] = now[j]
    PROVE  BackupIn(now, kept[i].id) = BackupIn(kept, kept[i].id)
<1>1. BackupIn(kept, kept[i].id) = kept[i]
  BY BackupIs
<1>2. BackupIn(now, now[j].id) = now[j]
  BY BackupIs
<1> QED
  BY <1>1, <1>2

(* The markers name backups that are kept.                                 *)
LEMMA NamedKept ==
    ASSUME Named, UNCHANGED <<tree, baseline, journal, pending>>,
           \A id \in {journal.backup, pending.backup} :
              id \in Ids /\ id \in Ids' => BackupIn(backups', id) = BackupOf(id),
           journal.backup # 0 => journal.backup \in Ids',
           pending.backup \in Ids' => pending.backup \in Ids
    PROVE  Named'
<1>1. journal.backup # 0 => BackupIn(backups', journal.backup) = BackupOf(journal.backup)
  BY DEF Named
<1>2. Base' = Base
  BY <1>1 DEF Base, Over, BackupOf
<1> QED
  BY <1>1, <1>2 DEF Named, Recovers, Over, Whole, BackupOf

LEMMA BackupStartsKeeps == ASSUME Inv, BackupStarts PROVE Inv'
<1> DEFINE b == [id |-> FreshId, tag |-> 0, files |-> [f \in File |-> 0],
                 core |-> NoCore, whole |-> FALSE]
           L == Len(backups)
<1>1. /\ pc = "backup" /\ pc' = "copying" /\ backups' = Append(backups, b)
      /\ UNCHANGED <<tree, built, plugin, baseline, journal, pending, job, world, budget>>
  BY DEF BackupStarts
<1>2. journal.backup \in {0, job.backup}
  BY <1>1 DEF Inv, Before
<1>3. b.id \in Nat \ {0} /\ b.id \notin Ids \cup {journal.backup, pending.backup, job.backup}
  BY <1>2, Fresh DEF Inv
<1>4. b \in Backup
  <2>1. FreshId \in Nat
    BY <1>3
  <2> QED
    BY <2>1 DEF Backup, Tree
<1>5. L \in Nat /\ DOMAIN backups = 1 .. L /\ backups \in Seq(Backup)
  BY DEF Inv, Shape
<1> HIDE DEF b, L
<1>6. /\ backups' \in Seq(Backup) /\ DOMAIN backups' = 1 .. (L + 1) /\ Len(backups') = L + 1
      /\ backups'[L + 1] = b /\ \A i \in 1 .. L : backups'[i] = backups[i]
  BY <1>1, <1>4, <1>5 DEF L
<1>7. Shape'
  BY <1>1, <1>6 DEF Inv, Shape, Pc, world
<1>8. Attempts'
  BY <1>1, <1>7, Counts, AttemptsStay DEF Inv
<1>9. Unique(backups')
  <2>1. \A i \in 1 .. L : backups'[i].id \in Ids /\ backups'[i].id # 0
    BY <1>5, <1>6 DEF Ids, Inv, Distinct, Unique
  <2>2. \A i, j \in 1 .. L : backups'[i].id = backups'[j].id => i = j
    BY <1>5, <1>6 DEF Inv, Distinct, Unique
  <2>3. \A i \in 1 .. (L + 1) : i \in 1 .. L \/ i = L + 1
    BY <1>5
  <2> QED
    BY <1>3, <1>6, <2>1, <2>2, <2>3 DEF Unique
<1>10. Distinct'
  BY <1>9 DEF Distinct, Unique
<1>11. \A id \in Ids : id \in Ids' /\ BackupIn(backups', id) = BackupOf(id)
  <2> SUFFICES ASSUME NEW id \in Ids PROVE id \in Ids' /\ BackupIn(backups', id) = BackupOf(id)
    OBVIOUS
  <2>1. PICK i \in 1 .. L : backups[i].id = id
    BY <1>5 DEF Ids
  <2>2. i \in 1 .. (L + 1) /\ backups'[i] = backups[i]
    BY <1>5, <1>6
  <2>3. BackupIn(backups', id) = BackupIn(backups, id)
    BY <1>5, <1>6, <1>9, <2>1, <2>2, StillFound DEF Inv, Distinct
  <2> QED
    BY <1>6, <2>1, <2>2, <2>3 DEF Ids, BackupOf
<1>12. Ids' = Ids \cup {b.id}
  <2>1. \A i \in 1 .. (L + 1) : i \in 1 .. L \/ i = L + 1
    BY <1>5
  <2>2. L + 1 \in 1 .. (L + 1) /\ \A i \in 1 .. L : i \in 1 .. (L + 1)
    BY <1>5
  <2> QED
    BY <1>5, <1>6, <2>1, <2>2 DEF Ids
<1>13. Named'
  <2>1. journal.backup # 0 => journal.backup \in Ids
    BY DEF Inv, Named
  <2> QED
    BY <1>1, <1>3, <1>11, <1>12, <2>1, NamedKept DEF Inv
<1>14. backups' # <<>> /\ backups'[Len(backups')].id \notin {journal'.backup, pending'.backup, job'.backup}
  BY <1>1, <1>3, <1>5, <1>6
<1> QED
  BY <1>1, <1>7, <1>8, <1>10, <1>13, <1>14
     DEF Inv, Control, Before, Undoing, Doing, Baselines, Latest, Settled, Copying, Restoring, Updating

(* The new backup holds the files as they are.                             *)
LEMMA BackupEndsKeeps == ASSUME Inv, BackupEnds PROVE Inv'
<1> DEFINE L == Len(backups)
           b == [backups[L] EXCEPT !.tag = IF job.doing = "update" THEN baseline.tag ELSE 0,
                                   !.files = Taken, !.core = built, !.whole = TRUE]
           old == BackupOf(job.backup)
<1>1. /\ pc = "copying" /\ pc' = "applying" /\ backups' = [backups EXCEPT ![L] = b]
      /\ UNCHANGED <<tree, built, plugin, baseline, pending, world, budget>>
      /\ IF job.doing = "update"
         THEN /\ journal' = [phase |-> "applying", backup |-> b.id]
              /\ job' = [job EXCEPT !.backup = b.id, !.todo = Ships[job.target]]
         ELSE /\ job' = [job EXCEPT !.todo = {f \in File : old.files[f] # 0} \cup
                                             {c \in {Core} : old.core # NoCore}]
              /\ UNCHANGED journal
  BY DEF BackupEnds
<1>2. /\ L \in Nat \ {0} /\ DOMAIN backups = 1 .. L /\ backups \in Seq(Backup) /\ L \in 1 .. L
      /\ backups[L].id \notin {journal.backup, pending.backup, job.backup}
      /\ job.by # "none"
  <2>1. backups \in Seq(Backup) /\ backups # <<>>
    BY <1>1 DEF Inv, Shape, Before
  <2>2. backups[Len(backups)].id \notin {journal.backup, pending.backup, job.backup} /\ job.by # "none"
    BY <1>1 DEF Inv, Before, Control
  <2> QED
    BY <2>1, <2>2
<1>3. backups[L] \in Backup /\ backups[L].id # 0
  BY <1>2 DEF Inv, Distinct, Unique
<1>4. Taken \in Tree /\ \A f \in File : Taken[f] \in {tree[f], 0}
  BY DEF Taken, Inv, Shape, Tree
<1>5. /\ b \in Backup /\ b.id = backups[L].id /\ b.whole /\ b.files = Taken
      /\ b.tag = IF job.doing = "update" THEN baseline.tag ELSE 0
  <2>1. baseline.tag \in Release /\ built \in Tree \cup {NoCore}
    BY DEF Inv, Shape
  <2> QED
    BY <1>3, <1>4, <2>1 DEF Backup
<1> HIDE DEF b, L, old
<1>6. /\ backups' \in Seq(Backup) /\ DOMAIN backups' = 1 .. L /\ Len(backups') = L
      /\ backups'[L] = b /\ \A i \in 1 .. L : i # L => backups'[i] = backups[i]
      /\ \A i \in 1 .. L : backups'[i].id = backups[i].id
  BY <1>1, <1>2, <1>5 DEF L
<1>7. Unique(backups')
  BY <1>2, <1>6 DEF Inv, Distinct, Unique
<1>8. Distinct' /\ Ids' = Ids /\ b.id \in Ids
  <2>1. Distinct'
    BY <1>7 DEF Distinct, Unique
  <2>2. Ids' = Ids
    BY <1>2, <1>6 DEF Ids
  <2> QED
    BY <1>2, <1>5, <2>1, <2>2 DEF Ids
<1>9. BackupIn(backups', b.id) = b
  BY <1>2, <1>6, <1>7, BackupIs
<1>10. \A id \in Ids : id # b.id => BackupIn(backups', id) = BackupOf(id)
  <2> SUFFICES ASSUME NEW id \in Ids, id # b.id PROVE BackupIn(backups', id) = BackupIn(backups, id)
    BY DEF BackupOf
  <2>1. PICK i \in 1 .. L : backups[i].id = id
    BY <1>2 DEF Ids
  <2>2. backups'[i] = backups[i]
    BY <1>5, <1>6, <2>1
  <2> QED
    BY <1>2, <1>6, <1>7, <2>1, <2>2, StillFound DEF Inv, Distinct
<1>11. b.id \notin {journal.backup, pending.backup, job.backup} /\ b.id # 0
  BY <1>2, <1>3, <1>5
<1>12. CASE job.doing = "update"
  <2>1. /\ journal.backup = 0 /\ job.from = baseline.tag /\ job.target # 0 /\ job.target \in Release
        /\ ~Restoring
    BY <1>1, <1>12 DEF Inv, Before, Control, Updating, Restoring, Shape, Job
  <2>2. /\ journal' = [phase |-> "applying", backup |-> b.id] /\ journal'.backup = b.id
        /\ job' = [job EXCEPT !.backup = b.id, !.todo = Ships[job.target]]
    BY <1>1, <1>12
  <2>3. /\ job' \in Job /\ job'.doing = "update" /\ job'.backup = b.id /\ job'.todo = Ships[job.target]
        /\ job'.from = job.from /\ job'.target = job.target /\ job'.by = job.by
    <3>1. b.id \in Nat /\ Ships[job.target] \subseteq File
      BY <1>5, <2>1, ReleaseShape DEF Backup
    <3> QED
      BY <1>12, <2>2, <3>1 DEF Inv, Shape, Job
  <2>4. Shape'
    <3>1. b.id \in Nat
      BY <1>5 DEF Backup
    <3> QED
      BY <1>1, <1>6, <2>2, <2>3, <3>1 DEF Inv, Shape, Pc, world
  <2>5. Attempts'
    BY <1>1, <2>4, Counts, AttemptsStay DEF Inv
  <2>6. Over(tree, b) = tree
    <3>1. tree \in [File -> Release \cup {0}]
      BY DEF Inv, Shape, Tree
    <3> QED
      BY <1>4, <1>5, <3>1 DEF Over
  <2>7. Base' = tree /\ Base = tree
    BY <1>1, <1>9, <1>11, <2>1, <2>2, <2>6 DEF Base, BackupOf, Over
  <2>8. Named'
    <3>1. Whole(tree, baseline.tag) /\ b.tag = baseline.tag /\ baseline.tag \in Release
      BY <1>5, <1>12, <2>1 DEF Inv, Named, Shape
    <3>2. Recovers(b, tree)
      BY <1>5, <2>6, <3>1 DEF Recovers
    <3>3. pending.backup \in Ids => /\ BackupIn(backups', pending.backup) = BackupOf(pending.backup)
                                   /\ Recovers(BackupOf(pending.backup), tree)
      BY <1>10, <1>11, <2>7 DEF Inv, Named
    <3>4. \A f \in Ships[baseline.tag] : baseline.files[f] = baseline.tag /\ tree[f] # 0
      BY DEF Inv, Named
    <3> QED
      BY <1>1, <1>8, <1>9, <1>11, <2>2, <2>7, <3>2, <3>3, <3>4 DEF Named, BackupOf
  <2>9. Doing'
    <3>1. \A f \in Ships[job.target] : b.files[f] = tree[f]
      <4>1. Ships[job.target] \subseteq File
        BY <2>1, ReleaseShape
      <4> QED
        BY <1>5, <1>12, <4>1 DEF Taken, Planned
    <3>2. \A f \in Ships[job.from] : tree[f] # 0
      BY <2>1 DEF Inv, Named
    <3>3. b.tag = job.from
      BY <1>5, <1>12, <2>1
    <3>4. BackupOf(job.backup)' = b
      BY <1>9, <2>3 DEF BackupOf
    <3>5. \A f \in Ships[job.target] \cap Ships[job.from] : b.files[f] # 0
      BY <3>1, <3>2
    <3>6. \A f \in File : Base'[f] = tree'[f]
      BY <1>1, <2>7
    <3> QED
      BY <1>1, <1>11, <2>2, <2>3, <3>1, <3>3, <3>4, <3>5, <3>6 DEF Doing
  <2>10. Latest'
    BY <1>2, <1>5, <1>6, <2>2 DEF Latest
  <2> QED
    BY <1>1, <1>2, <1>8, <2>1, <2>2, <2>3, <2>4, <2>5, <2>8, <2>9, <2>10
       DEF Inv, Control, Before, Undoing, Baselines, Settled, Copying, Restoring, Updating
<1>13. CASE job.doing # "update"
  <2>1. /\ Restoring /\ job.backup = journal.backup /\ journal.backup # 0
        /\ journal.backup \in Ids
    BY <1>1, <1>13 DEF Inv, Before, Restoring, Shape, Job, Named
  <2>2. /\ journal' = journal
        /\ job' = [job EXCEPT !.todo = {f \in File : old.files[f] # 0} \cup
                                       {c \in {Core} : old.core # NoCore}]
    BY <1>1, <1>13
  <2>3. /\ job' \in Job /\ job'.doing = "restore" /\ job'.backup = job.backup
        /\ job'.by = job.by
        /\ job'.todo = {f \in File : old.files[f] # 0} \cup {c \in {Core} : old.core # NoCore}
    BY <2>1, <2>2 DEF Inv, Shape, Job, Restoring
  <2>4. Shape'
    BY <1>1, <1>6, <2>2, <2>3 DEF Inv, Shape, Pc, world
  <2>5. Attempts'
    BY <1>1, <2>4, Counts, AttemptsStay DEF Inv
  <2>6. Named'
    BY <1>1, <1>8, <1>10, <1>11, <2>1, <2>2, NamedKept DEF Inv
  <2>7. BackupIn(backups', job.backup) = old
    BY <1>10, <1>11, <2>1 DEF old
  <2>8. Undoing'
    <3>1. Core \notin File
      BY UpdaterAssumption
    <3> QED
      BY <2>1, <2>2, <2>3, <2>7, <3>1 DEF Undoing, BackupOf
  <2> QED
    BY <1>1, <1>2, <1>8, <2>1, <2>2, <2>3, <2>4, <2>5, <2>6, <2>8
       DEF Inv, Control, Before, Doing, Latest, Baselines, Settled, Copying, Restoring, Updating
<1> QED
  BY <1>12, <1>13

LEMMA BackupFailsKeeps == ASSUME Inv, "restore" \notin Failing, BackupFails PROVE Inv'
<1> DEFINE L == Len(backups)
<1>1. /\ pc = "copying" /\ job.doing = "update" /\ ~Restoring
      /\ backups' = Front(backups) /\ Leave(FALSE)
      /\ UNCHANGED <<tree, built, plugin, baseline, journal, pending, world>>
  <2>1. job.doing \in {"update", "restore"} /\ job.doing \in Failing
    BY DEF BackupFails, Fails, Inv, Shape, Job
  <2>2. job.doing = "update"
    BY <2>1
  <2> QED
    BY <2>2 DEF BackupFails, Thrown, Restoring
<1>2. /\ L \in Nat \ {0} /\ DOMAIN backups = 1 .. L /\ backups \in Seq(Backup)
      /\ backups[L].id # pending.backup /\ journal.backup = 0
      /\ \A i \in 1 .. L : i # L => i \in 1 .. (L - 1)
      /\ L - 1 \in Nat /\ \A i \in 1 .. (L - 1) : i \in 1 .. L /\ i # L
  <2>1. backups \in Seq(Backup) /\ backups # <<>>
    BY <1>1 DEF Inv, Shape, Before
  <2>2. /\ backups[Len(backups)].id # pending.backup /\ journal.backup = 0
    BY <1>1 DEF Inv, Before
  <2> QED
    BY <2>1, <2>2
<1> HIDE DEF L
<1>3. backups' \in Seq(Backup) /\ DOMAIN backups' = 1 .. (L - 1)
      /\ \A i \in 1 .. (L - 1) : backups'[i] = backups[i]
  <2>1. backups' = SubSeq(backups, 1, L - 1)
    BY <1>1 DEF Front, L
  <2>2. 1 \in 1 .. (L + 1) /\ L - 1 \in (1 - 1) .. L
    BY <1>2
  <2>3. SubSeq(backups, 1, L - 1) = [i \in 1 .. (L - 1) |-> backups[i]]
    BY <1>2
  <2> QED
    BY <1>2, <2>1, <2>3
<1>4. /\ job' \in Job /\ job'.doing = "update" /\ job'.todo = {} /\ job'.force = FALSE
      /\ pc' \in {"down", "plan", "boot", "running"}
      /\ pc' = "plan" => job.by = "check" /\ job'.by = "preboot"
      /\ pc' = "running" => job.by = "tick"
  BY <1>1, LeaveShape DEF Inv
<1>5. budget' \in Budgets /\ budget'.crashes <= budget.crashes
  BY SpendShape DEF BackupFails, Fails, Inv
<1>6. Shape'
  BY <1>1, <1>3, <1>4, <1>5 DEF Inv, Shape, Pc, world
<1>7. Attempts'
  BY <1>1, <1>5, <1>6, AttemptsStay DEF Inv
<1>8. Unique(backups') /\ Unique(backups)
  BY <1>2, <1>3 DEF Inv, Distinct, Unique
<1>9. Distinct'
  BY <1>8 DEF Distinct, Unique
<1>10. \A id \in Ids' : id \in Ids /\ BackupIn(backups', id) = BackupOf(id)
  <2> SUFFICES ASSUME NEW i \in 1 .. (L - 1), NEW id, backups'[i].id = id
               PROVE  id \in Ids /\ BackupIn(backups', id) = BackupOf(id)
    BY <1>3 DEF Ids
  <2>1. backups[i] = backups'[i] /\ i \in DOMAIN backups /\ i \in DOMAIN backups'
    BY <1>2, <1>3
  <2> QED
    BY <1>8, <2>1, StillFound DEF Ids, BackupOf
<1>11. Named'
  BY <1>1, <1>2, <1>10, NamedKept DEF Inv
<1>12. pc' = "running" => pending' = NoHealth
  BY <1>1, <1>4 DEF Inv, Settled
<1> QED
  BY <1>1, <1>2, <1>4, <1>6, <1>7, <1>9, <1>11, <1>12, AtRest

(* The newest backups are kept, the last among them.                       *)
LEMMA PruneKeeps == ASSUME Inv, Prune PROVE Inv'
<1> DEFINE L == Len(backups)
           drop == IF L <= MaxBackups THEN 0 ELSE L - MaxBackups
<1>1. /\ pc = "prune" /\ ~Restoring /\ Leave(TRUE)
      /\ backups' = IF L <= MaxBackups THEN backups ELSE SubSeq(backups, L - MaxBackups + 1, L)
      /\ UNCHANGED <<tree, built, plugin, baseline, journal, pending, world, budget>>
  BY DEF Prune, Inv, Control
<1>2. /\ L \in Nat /\ DOMAIN backups = 1 .. L /\ backups \in Seq(Backup) /\ MaxBackups \in Nat \ {0}
      /\ backups = [i \in 1 .. L |-> backups[i]]
  <2>1. backups \in Seq(Backup)
    BY DEF Inv, Shape
  <2> QED
    BY <2>1, UpdaterAssumption
<1>3. /\ drop \in 0 .. L /\ L - drop \in Nat /\ (L # 0 => L - drop \in 1 .. (L - drop))
      /\ \A i \in 1 .. (L - drop) : i + drop \in 1 .. L
  BY <1>2
<1>6. drop \in Int /\ L \in Int
  BY <1>2, <1>3
<1>4. backups' \in Seq(Backup) /\ DOMAIN backups' = 1 .. (L - drop) /\ Len(backups') = L - drop
      /\ \A i \in 1 .. (L - drop) : backups'[i] = backups[i + drop]
  <2>1. CASE L <= MaxBackups
    BY <1>1, <1>2, <2>1
  <2>2. CASE ~(L <= MaxBackups)
    <3> DEFINE m == L - MaxBackups + 1
    <3>1. /\ m \in 1 .. L /\ L \in m .. L /\ L - m + 1 = L - drop /\ drop = L - MaxBackups
          /\ \A i \in 1 .. (L - drop) : i + m - 1 = i + drop
      BY <1>2, <2>2
    <3>2. backups' = SubSeq(backups, m, L)
      BY <1>1, <2>2
    <3>3. m \in Int /\ L \in Int /\ m <= L /\ \A i \in m .. L : backups[i] \in Backup
      BY <1>2, <3>1
    <3> HIDE DEF m, L, drop
    <3>4. /\ SubSeq(backups, m, L) \in Seq(Backup)
          /\ Len(SubSeq(backups, m, L)) = L - m + 1
          /\ \A i \in 1 .. L - m + 1 : SubSeq(backups, m, L)[i] = backups[m + i - 1]
      BY <3>3, SubSeqProperties
    <3>5. \A i \in 1 .. L - drop : m + i - 1 = i + drop
      BY <3>1, <3>3, <1>6
    <3>6. /\ backups' \in Seq(Backup) /\ Len(backups') = L - drop
          /\ \A i \in 1 .. (L - drop) : backups'[i] = backups[i + drop]
      BY <3>1, <3>2, <3>4, <3>5
    <3> QED
      BY <3>6
  <2> QED
    BY <2>1, <2>2
<1> HIDE DEF L, drop
<1>5. /\ job' \in Job /\ job'.doing = "update" /\ job'.todo = {} /\ pc' = "down"
  BY <1>1, LeaveShape DEF Inv
<1>13. Shape'
  BY <1>1, <1>4, <1>5 DEF Inv, Shape, Pc, world
<1>7. Attempts'
  BY <1>1, <1>13, Counts, AttemptsStay DEF Inv
<1>8. Unique(backups') /\ Unique(backups)
  <2>1. Unique(backups)
    BY DEF Inv, Distinct
  <2>2. \A i, j \in 1 .. (L - drop) : i + drop = j + drop => i = j
    BY <1>6
  <2>3. \A i, j \in 1 .. (L - drop) : backups'[i].id = backups'[j].id => i = j
    <3> SUFFICES ASSUME NEW i \in 1 .. (L - drop), NEW j \in 1 .. (L - drop),
                        backups'[i].id = backups'[j].id
                 PROVE  i = j
      OBVIOUS
    <3>1. i + drop \in 1 .. L /\ j + drop \in 1 .. L
      BY <1>3
    <3>2. backups[i + drop].id = backups[j + drop].id
      BY <1>4
    <3>3. i + drop = j + drop
      BY <1>2, <2>1, <3>1, <3>2 DEF Unique
    <3> QED
      BY <2>2, <3>3
  <2> QED
    <3>1. \A i \in 1 .. (L - drop) : backups'[i].id # 0
      <4> SUFFICES ASSUME NEW i \in 1 .. (L - drop) PROVE backups'[i].id # 0
        OBVIOUS
      <4>1. i + drop \in DOMAIN backups /\ backups'[i] = backups[i + drop]
        BY <1>2, <1>3, <1>4
      <4> QED
        BY <2>1, <4>1 DEF Unique
    <3> QED
      BY <1>4, <2>1, <2>3, <3>1 DEF Unique
<1>9. Distinct'
  BY <1>8 DEF Distinct, Unique
<1>10. \A id \in Ids' : id \in Ids /\ BackupIn(backups', id) = BackupOf(id)
  <2> SUFFICES ASSUME NEW i \in 1 .. (L - drop), NEW id, backups'[i].id = id
               PROVE  id \in Ids /\ BackupIn(backups', id) = BackupOf(id)
    BY <1>4 DEF Ids
  <2>1. i + drop \in DOMAIN backups /\ backups[i + drop] = backups'[i] /\ i \in DOMAIN backups'
    BY <1>2, <1>3, <1>4
  <2> QED
    BY <1>8, <2>1, StillFound DEF Ids, BackupOf
<1>11. journal.backup # 0 => journal.backup \in Ids'
  <2> SUFFICES ASSUME journal.backup # 0 PROVE journal.backup \in Ids'
    OBVIOUS
  <2>1. backups # <<>> /\ backups[L].id = journal.backup
    BY <1>1 DEF Inv, Latest, L
  <2>2. L # 0
    BY <1>2, <2>1
  <2>3. (L - drop) \in DOMAIN backups' /\ (L - drop) + drop = L
    <3>1. (L - drop) + drop = L
      BY <1>6
    <3> QED
      BY <1>3, <1>4, <2>2, <3>1
  <2>4. backups'[L - drop].id = journal.backup
    BY <1>4, <2>1, <2>3
  <2> QED
    BY <2>3, <2>4 DEF Ids
<1>12. Named'
  BY <1>1, <1>10, <1>11, NamedKept DEF Inv
<1> QED
  BY <1>1, <1>5, <1>13, <1>7, <1>9, <1>12, AtRest

-----------------------------------------------------------------------------
(* Copying.                                                                *)

(* A procedure that goes on without touching the files.                    *)
LEMMA GoesOn ==
    ASSUME Inv, UNCHANGED <<tree, baseline, journal, pending, backups, job, world, budget>>,
           built' \in Tree \cup {NoCore}, plugin' \in Release \cup {0},
           pc \in {"applying", "install", "clean", "build", "plugins", "replugging"}, job.todo = {},
           pc' \in {"install", "clean", "build", "plugins", "replugging", "baseline"},
           pc' \in {"plugins", "replugging"} => ~Restoring,
           pc' \in {"install", "clean", "build"} => Updating \/ Restoring
    PROVE  Inv'
<1>1. Shape'
  BY DEF Inv, Shape, Pc, world
<1>2. Attempts'
  BY <1>1, Counts, AttemptsStay DEF Inv
<1>3. Named' /\ Distinct'
  BY NamedStays DEF Inv
<1>4. Control' /\ Before' /\ Baselines' /\ Latest' /\ Settled'
  BY DEF Inv, Control, Before, Baselines, Latest, Settled, Restoring, Updating
<1>5. Undoing' /\ Doing'
  BY DEF Inv, Undoing, Doing, Copying, Restoring, Updating, Base, Over, BackupOf
<1> QED
  BY <1>1, <1>2, <1>3, <1>4, <1>5 DEF Inv

LEMMA CopiedKeeps == ASSUME Inv, Copied PROVE Inv'
BY GoesOn DEF Copied, Inv, Control, Shape, disk

LEMMA InstallKeeps == ASSUME Inv, Install PROVE Inv'
BY GoesOn DEF Install, Inv, Control, Shape, disk

LEMMA CleanKeeps == ASSUME Inv, Clean PROVE Inv'
BY GoesOn DEF Clean, Inv, Control, Shape

LEMMA BuildKeeps == ASSUME Inv, Build PROVE Inv'
BY GoesOn DEF Build, Inv, Control, Shape, Restoring

LEMMA PluginsKeeps == ASSUME Inv, Plugins PROVE Inv'
BY GoesOn DEF Plugins, Inv, Control, Shape

LEMMA ReplugKeeps == ASSUME Inv, Replug PROVE Inv'
<1>1. job.from \in Release /\ job.target \in Release \cup {0}
  BY DEF Inv, Shape, Job
<1> QED
  BY <1>1, GoesOn DEF Replug, Inv, Control, Shape

(* Each failure of an update leaves the files and the journal to the boot. *)
LEMMA Failed ==
    ASSUME Inv, "restore" \notin Failing, Fails
    PROVE  /\ ~Restoring /\ budget' \in Budgets /\ budget'.crashes <= budget.crashes
<1>1. job.doing \in {"update", "restore"} /\ job.doing \in Failing
  BY DEF Fails, Inv, Shape, Job
<1>2. Spend("failures")
  BY DEF Fails
<1> QED
  BY <1>1, <1>2, SpendShape DEF Inv, Restoring

LEMMA CopyFailsKeeps == ASSUME Inv, "restore" \notin Failing, CopyFails PROVE Inv'
<1>1. /\ pc = "applying" /\ Fails /\ Thrown
      /\ UNCHANGED <<tree, built, plugin, baseline, journal, pending, backups, world>>
  BY DEF CopyFails, Thrown
<1>2. /\ ~Restoring /\ budget' \in Budgets /\ budget'.crashes <= budget.crashes
  BY <1>1, Failed
<1>3. Leave(FALSE)
  BY <1>1, <1>2 DEF Thrown, Restoring
<1> QED
  BY <1>1, <1>2, <1>3, Leaves DEF Inv, Shape

LEMMA RebuildFailsKeeps == ASSUME Inv, "restore" \notin Failing, RebuildFails PROVE Inv'
<1>1. /\ pc \in {"install", "build"} /\ Fails /\ RebuildFailed
      /\ built' \in Tree \cup {NoCore}
      /\ UNCHANGED <<tree, plugin, baseline, journal, pending, backups, world>>
  BY DEF RebuildFails, RebuildFailed, Inv, Shape
<1>2. /\ ~Restoring /\ budget' \in Budgets /\ budget'.crashes <= budget.crashes
  BY <1>1, Failed
<1>3. Leave(FALSE)
  BY <1>1, <1>2 DEF RebuildFailed, Restoring
<1> QED
  BY <1>1, <1>2, <1>3, Leaves DEF Inv, Shape

LEMMA PluginFailsKeeps == ASSUME Inv, "restore" \notin Failing, PluginFails PROVE Inv'
<1>1. /\ pc = "plugins" /\ Fails /\ Thrown
      /\ UNCHANGED <<tree, built, plugin, baseline, journal, pending, backups, world>>
  BY DEF PluginFails, Thrown
<1>2. /\ ~Restoring /\ budget' \in Budgets /\ budget'.crashes <= budget.crashes
  BY <1>1, Failed
<1>3. Leave(FALSE)
  BY <1>1, <1>2 DEF Thrown, Restoring
<1> QED
  BY <1>1, <1>2, <1>3, Leaves DEF Inv, Shape

(* A file that the backup does not hold was not there before the update.   *)
LEMMA UpdateCopies ==
    ASSUME Inv, Copying, Updating, NEW x \in job.todo,
           tree' = [tree EXCEPT ![x] = job.target], job' = [job EXCEPT !.todo = @ \ {x}],
           UNCHANGED <<plugin, built, baseline, journal, pending, backups, pc, world, budget>>
    PROVE  Inv'
<1> DEFINE b == BackupOf(journal.backup)
<1>1. /\ job.backup = journal.backup /\ journal.backup # 0 /\ b.tag = job.from
      /\ job.todo \subseteq Ships[job.target]
      /\ \A f \in job.todo : tree[f] = b.files[f]
      /\ \A f \in Ships[job.target] \ job.todo : tree[f] = job.target
      /\ \A f \in Ships[job.target] \cap Ships[job.from] : b.files[f] # 0
      /\ \A f \in File \ Ships[job.target] : Base[f] = tree[f]
  BY DEF Inv, Doing
<1>2. /\ job.target \in Release /\ job.target # 0 /\ x \in File
      /\ tree \in [File -> Release \cup {0}] /\ Ships[job.target] \subseteq File
      /\ job.doing = "update" /\ job.by # "none"
  <2>1. job.target \in Release /\ job.target # 0
    BY DEF Inv, Shape, Job, Updating
  <2>2. Ships[job.target] \subseteq File
    BY <2>1, ReleaseShape
  <2> QED
    BY <1>1, <2>1, <2>2 DEF Inv, Shape, Tree, Updating, Control, Copying
<1>3. /\ tree' \in [File -> Release \cup {0}] /\ tree'[x] = job.target
      /\ \A f \in File : f # x => tree'[f] = tree[f]
  BY <1>2
<1>4. /\ job' \in Job /\ job'.todo = job.todo \ {x} /\ job'.doing = "update"
      /\ job'.target = job.target /\ job'.from = job.from /\ job'.backup = job.backup
      /\ job'.by = job.by
  BY <1>2 DEF Inv, Shape, Job
<1>5. Shape'
  BY <1>3, <1>4 DEF Inv, Shape, Tree, world
<1>6. Attempts'
  BY <1>5, Counts, AttemptsStay DEF Inv
<1>7. BackupOf(journal.backup)' = b /\ Ids' = Ids
  BY DEF BackupOf, Ids
<1>8. Base = Over(tree, b) /\ Base' = Over(tree', b)
  BY <1>1, <1>7 DEF Base
<1>9. \A f \in File : /\ Base[f] = IF b.files[f] # 0 THEN b.files[f] ELSE tree[f]
                      /\ Base'[f] = IF b.files[f] # 0 THEN b.files[f] ELSE tree'[f]
  BY <1>8 DEF Over
<1>10. /\ \A f \in File : f # x => Base'[f] = Base[f]
       /\ Base[x] # 0 => Base'[x] = Base[x]
  BY <1>1, <1>2, <1>3, <1>9
<1>11. ASSUME NEW r \in Release, NEW p, Whole(Over(Base, p), r) PROVE Whole(Over(Base', p), r)
  <2> SUFFICES ASSUME NEW f \in Ships[r] PROVE Over(Base', p)[f] = r
    BY DEF Whole
  <2>1. f \in File /\ r # 0
    BY ReleaseShape
  <2>2. Over(Base, p)[f] = r
    BY <1>11 DEF Whole
  <2> QED
    BY <1>10, <2>1, <2>2 DEF Over
<1>12. journal.backup \in Ids /\ Recovers(b, tree)
  BY <1>1 DEF Inv, Named
<1>13. Recovers(b, tree')
  <2>1. b.tag \in Release /\ Whole(Base, b.tag)
    BY <1>8, <1>12 DEF Recovers
  <2>2. Whole(Base', b.tag)
    <3> SUFFICES ASSUME NEW f \in Ships[b.tag] PROVE Base'[f] = b.tag
      BY DEF Whole
    <3>1. f \in File /\ b.tag # 0 /\ Base[f] = b.tag
      BY <2>1, ReleaseShape DEF Whole
    <3> QED
      BY <1>10, <3>1
  <2> QED
    BY <1>8, <1>12, <2>2 DEF Recovers
<1>14. pending.backup \in Ids => Recovers(BackupOf(pending.backup), Base')
  BY <1>11 DEF Inv, Named, Recovers
<1>15. \A f \in Ships[baseline.tag] : baseline.files[f] = baseline.tag /\ tree'[f] # 0
  <2>1. Ships[baseline.tag] \subseteq File
    BY ReleaseShape DEF Inv, Shape
  <2> QED
    BY <1>2, <1>3, <2>1 DEF Inv, Named
<1>16. BackupOf(pending.backup)' = BackupOf(pending.backup)
  BY DEF BackupOf
<1> HIDE DEF b
<1>17. Named' /\ Distinct'
  <2>1. Distinct'
    BY DEF Inv, Distinct, Unique
  <2>2. Named'
    BY <1>1, <1>7, <1>12, <1>13, <1>14, <1>15, <1>16 DEF Named
  <2> QED
    BY <2>1, <2>2
<1>18. Doing'
  <2>1. \A f \in File \ Ships[job.target] : Base'[f] = tree'[f]
    BY <1>1, <1>2, <1>3, <1>10
  <2>2. \A f \in job.todo \ {x} : tree'[f] = b.files[f]
    BY <1>1, <1>2, <1>3
  <2>3. \A f \in Ships[job.target] \ (job.todo \ {x}) : tree'[f] = job.target
    BY <1>1, <1>2, <1>3
  <2>4. BackupOf(job.backup)' = b
    BY <1>1, <1>4, <1>7
  <2> QED
    BY <1>1, <1>4, <2>1, <2>2, <2>3, <2>4 DEF Doing, b
<1>19. pc = "applying"
  BY DEF Inv, Control
<1> QED
  BY <1>1, <1>2, <1>4, <1>5, <1>6, <1>17, <1>18, <1>19
     DEF Inv, Control, Before, Undoing, Latest, Baselines, Settled, Restoring, Updating

LEMMA RestoreCopies ==
    ASSUME Inv, Copying, Restoring, NEW x \in job.todo, job' = [job EXCEPT !.todo = @ \ {x}],
           IF x = Core THEN built' = BackupOf(job.backup).core /\ UNCHANGED tree
           ELSE tree' = [tree EXCEPT ![x] = BackupOf(job.backup).files[x]] /\ UNCHANGED built,
           UNCHANGED <<plugin, baseline, journal, pending, backups, pc, world, budget>>
    PROVE  Inv'
<1> DEFINE b == BackupOf(journal.backup)
<1>1. /\ job.backup = journal.backup /\ journal.backup # 0 /\ journal.backup \in Ids
      /\ job.todo \cap File \subseteq {f \in File : b.files[f] # 0}
      /\ \A f \in File \ job.todo : b.files[f] # 0 => tree[f] = b.files[f]
      /\ Core \in job.todo => b.core # NoCore
  BY DEF Inv, Undoing, Named
<1>2. /\ b \in Backup /\ job.todo \subseteq File \cup {Core} /\ job.doing = "restore"
      /\ tree \in [File -> Release \cup {0}] /\ job.by \notin {"none", "tick"}
  BY <1>1, BackupShape DEF Inv, Shape, Job, Tree, Control, Restoring, Copying
<1>3. b.files \in [File -> Release \cup {0}] /\ b.core \in Tree \cup {NoCore}
  BY <1>2 DEF Backup, Tree
<1>4. /\ tree' \in [File -> Release \cup {0}] /\ built' \in Tree \cup {NoCore}
      /\ \A f \in File : tree'[f] = IF f = x THEN b.files[f] ELSE tree[f]
  <2>1. CASE x = Core
    <3>1. Core \notin File
      BY UpdaterAssumption
    <3> QED
      BY <1>1, <1>2, <1>3, <2>1, <3>1
  <2>2. CASE x # Core
    <3>1. x \in File /\ tree' = [tree EXCEPT ![x] = b.files[x]] /\ built' = built
      BY <1>1, <1>2, <2>2
    <3> QED
      BY <1>2, <1>3, <3>1 DEF Inv, Shape
  <2> QED
    BY <2>1, <2>2
<1>5. \A f \in File : f = x => b.files[f] # 0
  BY <1>1
<1>6. /\ job' \in Job /\ job'.todo = job.todo \ {x} /\ job'.doing = "restore"
      /\ job'.backup = job.backup /\ job'.by = job.by
  BY <1>2 DEF Inv, Shape, Job
<1>7. Shape'
  BY <1>4, <1>6 DEF Inv, Shape, Tree, world
<1>8. Attempts'
  BY <1>7, Counts, AttemptsStay DEF Inv
<1>9. BackupOf(journal.backup)' = b /\ BackupOf(pending.backup)' = BackupOf(pending.backup) /\ Ids' = Ids
  BY DEF BackupOf, Ids
<1>10. Over(tree', b) = Over(tree, b)
  BY <1>4, <1>5 DEF Over
<1>11. Base' = Base /\ Base = Over(tree, b)
  BY <1>1, <1>9, <1>10 DEF Base
<1>12. Recovers(b, tree')
  BY <1>1, <1>10 DEF Inv, Named, Recovers
<1>13. \A f \in Ships[baseline.tag] : baseline.files[f] = baseline.tag /\ tree'[f] # 0
  <2>1. Ships[baseline.tag] \subseteq File
    BY ReleaseShape DEF Inv, Shape
  <2> QED
    BY <1>4, <1>5, <2>1 DEF Inv, Named
<1>14. pending.backup \in Ids => Recovers(BackupOf(pending.backup), Base)
  BY DEF Inv, Named
<1> HIDE DEF b
<1>15. Named' /\ Distinct'
  <2>1. Distinct'
    BY DEF Inv, Distinct, Unique
  <2>2. Named'
    BY <1>1, <1>9, <1>11, <1>12, <1>13, <1>14 DEF Named
  <2> QED
    BY <2>1, <2>2
<1>16. Undoing'
  <2>1. BackupOf(job.backup)' = b
    BY <1>1, <1>6, <1>9
  <2>2. \A f \in File \ (job.todo \ {x}) : b.files[f] # 0 => tree'[f] = b.files[f]
    BY <1>1, <1>4
  <2> QED
    BY <1>1, <1>6, <2>1, <2>2 DEF Undoing
<1>17. pc = "applying"
  BY DEF Inv, Control
<1> QED
  BY <1>2, <1>6, <1>7, <1>8, <1>15, <1>16, <1>17
     DEF Inv, Control, Before, Doing, Latest, Baselines, Settled, Restoring, Updating

LEMMA CopyKeeps == ASSUME Inv, Copy PROVE Inv'
<1>1. PICK x \in job.todo :
        /\ job' = [job EXCEPT !.todo = @ \ {x}]
        /\ IF job.doing = "update"
           THEN tree' = [tree EXCEPT ![x] = job.target] /\ UNCHANGED built
           ELSE LET b == BackupOf(job.backup)
                IN IF x = Core THEN built' = b.core /\ UNCHANGED tree
                   ELSE tree' = [tree EXCEPT ![x] = b.files[x]] /\ UNCHANGED built
  BY DEF Copy
<1>2. /\ pc = "applying" /\ Copying
      /\ UNCHANGED <<plugin, baseline, journal, pending, backups, pc, world, budget>>
  BY DEF Copy, Copying
<1>3. CASE job.doing = "update"
  <2>1. Updating
    BY <1>2, <1>3 DEF Inv, Control, Restoring
  <2> QED
    BY <1>1, <1>2, <1>3, <2>1, UpdateCopies
<1>4. CASE job.doing # "update"
  <2>1. Restoring
    BY <1>2, <1>4 DEF Inv, Control, Updating
  <2> QED
    BY <1>1, <1>2, <1>4, <2>1, RestoreCopies
<1> QED
  BY <1>3, <1>4

-----------------------------------------------------------------------------
(* The markers that end a procedure.                                       *)

(* What is copied in full makes no difference when it is copied again.     *)
LEMMA Undone ==
    ASSUME Inv, Copying, Restoring, job.todo = {}
    PROVE  /\ Over(tree, BackupOf(job.backup)) = tree /\ Base = tree
           /\ BackupOf(job.backup).tag \in Release
           /\ Whole(tree, BackupOf(job.backup).tag)
<1>1. /\ job.backup = journal.backup /\ journal.backup # 0
      /\ \A f \in File : BackupOf(job.backup).files[f] # 0 => tree[f] = BackupOf(job.backup).files[f]
      /\ Recovers(BackupOf(job.backup), tree)
  BY DEF Inv, Undoing, Named
<1>2. Over(tree, BackupOf(job.backup)) = tree
  BY <1>1 DEF Over, Inv, Shape, Tree
<1> QED
  BY <1>1, <1>2 DEF Recovers, Base

LEMMA WriteBaselineKeeps == ASSUME Inv, WriteBaseline PROVE Inv'
<1> DEFINE b == BackupOf(job.backup)
<1>1. /\ pc = "baseline" /\ job.todo = {} /\ Copying /\ job.by # "none"
      /\ UNCHANGED <<tree, built, plugin, journal, pending, backups, job, world, budget>>
      /\ baseline.tag \in Release /\ job.doing \in {"update", "restore"}
  BY DEF WriteBaseline, Inv, Control, Copying, Shape, Job
<1>2. /\ baseline' \in [tag : Release, prev : Release \cup {0}, files : Tree]
      /\ \A f \in Ships[baseline'.tag] : baseline'.files[f] = baseline'.tag /\ tree[f] # 0
      /\ IF Restoring THEN pc' = "clear"
         ELSE pc' = IF job.target = 0 THEN "prune" ELSE "health"
      /\ pc' \in {"clear", "health"} => Whole(tree, baseline'.tag)
      /\ journal.backup = 0 => Whole(tree, baseline'.tag)
  <2>1. CASE Restoring
    <3>1. /\ b.tag \in Release /\ b.tag # 0 /\ Whole(tree, b.tag) /\ journal.backup # 0
      BY <1>1, <2>1, Undone, ReleaseShape DEF Inv, Undoing
    <3>2. baseline' = [tag |-> b.tag, prev |-> baseline.tag, files |-> tree] /\ pc' = "clear"
      BY <2>1, <3>1 DEF WriteBaseline, Restoring
    <3> QED
      BY <1>1, <2>1, <3>1, <3>2 DEF Whole, Inv, Shape
  <2>2. CASE ~Restoring /\ job.target = 0
    <3>1. baseline' = baseline /\ pc' = "prune"
      BY <2>2 DEF WriteBaseline, Restoring
    <3> QED
      BY <2>2, <3>1 DEF Inv, Shape, Named
  <2>3. CASE ~Restoring /\ job.target # 0
    <3>1. /\ baseline' = [tag |-> job.target, prev |-> baseline.tag,
                          files |-> [f \in File |-> IF f \in Ships[job.target] THEN tree[f] ELSE 0]]
          /\ pc' = "health"
      BY <2>3 DEF WriteBaseline, Restoring
    <3>2. Updating /\ job.target \in Release
      BY <1>1, <2>3 DEF Updating, Restoring, Inv, Shape, Job
    <3>3. \A f \in Ships[job.target] : tree[f] = job.target
      BY <1>1, <3>2 DEF Inv, Doing
    <3>4. Ships[job.target] \subseteq File /\ job.target # 0
      BY <2>3, <3>2, ReleaseShape
    <3>5. tree \in [File -> Release \cup {0}]
      BY DEF Inv, Shape, Tree
    <3> QED
      BY <1>1, <2>3, <3>1, <3>2, <3>3, <3>4, <3>5 DEF Whole, Tree
  <2> QED
    BY <2>1, <2>2, <2>3
<1>3. Shape'
  BY <1>1, <1>2 DEF Inv, Shape, Pc, world
<1>4. Attempts'
  BY <1>1, <1>3, Counts, AttemptsStay DEF Inv
<1>5. Distinct'
  BY <1>1 DEF Inv, Distinct, Unique
<1>6. Named'
  <2>1. Base' = Base /\ Ids' = Ids
    BY <1>1 DEF Base, Over, BackupOf, Ids
  <2> QED
    BY <1>1, <1>2, <2>1 DEF Inv, Named, Recovers, Over, Whole, BackupOf
<1>7. Doing' /\ Undoing'
  BY <1>1, <1>2 DEF Inv, Undoing, Doing, Copying, Restoring, Updating, Base, Over, BackupOf
<1>8. Baselines'
  <2>1. pc' \in {"clear", "health"} => Whole(tree', baseline'.tag)
    BY <1>1, <1>2
  <2>2. ~(pc' = "clear" /\ Updating')
    BY <1>1, <1>2 DEF Restoring, Updating
  <2> QED
    BY <2>1, <2>2 DEF Baselines
<1> QED
  BY <1>1, <1>2, <1>3, <1>4, <1>5, <1>6, <1>7, <1>8
     DEF Inv, Control, Before, Latest, Settled, Restoring, Updating

LEMMA WriteHealthKeeps == ASSUME Inv, WriteHealth PROVE Inv'
<1>1. /\ pc = "health" /\ pc' = "clear" /\ ~Restoring /\ Updating /\ Copying /\ job.todo = {}
      /\ UNCHANGED <<tree, built, plugin, baseline, journal, backups, job, world, budget>>
      /\ job.from \in Release /\ job.target \in Release \cup {0} /\ job.by # "none"
  BY DEF WriteHealth, Inv, Control, Copying, Shape, Job
<1>2. /\ job.backup = journal.backup /\ journal.backup # 0 /\ journal.backup \in Nat
      /\ Recovers(BackupOf(journal.backup), tree)
  BY <1>1 DEF Inv, Doing, Named, Shape
<1>3. \/ job.from = job.target /\ pending' = pending
      \/ pending' = [to |-> job.target, prev |-> job.from, attempts |-> 0, backup |-> job.backup]
  BY DEF WriteHealth
<1>4. Shape'
  BY <1>1, <1>2, <1>3 DEF Inv, Shape, Pc, world
<1>5. Attempts'
  BY <1>1, <1>3, <1>4, Counts, AttemptsStay DEF Inv
<1>6. Distinct'
  BY <1>1 DEF Inv, Distinct, Unique
<1>7. Base' = Base /\ Ids' = Ids /\ Base = Over(tree, BackupOf(journal.backup))
  BY <1>1, <1>2 DEF Base, Over, BackupOf, Ids
<1>8. Recovers(BackupOf(journal.backup), Base)
  <2>1. Over(Base, BackupOf(journal.backup)) = Base
    BY <1>7 DEF Over
  <2> QED
    BY <1>2, <1>7, <2>1 DEF Recovers
<1>9. pending'.backup \in Ids => Recovers(BackupIn(backups', pending'.backup), Base)
  BY <1>1, <1>2, <1>3, <1>8 DEF Inv, Named, BackupOf
<1>10. Named'
  BY <1>1, <1>7, <1>9 DEF Inv, Named, Recovers, Over, Whole, BackupOf
<1>11. Doing' /\ Undoing'
  BY <1>1 DEF Inv, Undoing, Doing, Copying, Restoring, Updating, Base, Over, BackupOf
<1>12. Baselines'
  BY <1>1, <1>3 DEF Inv, Baselines, Whole
<1> QED
  BY <1>1, <1>4, <1>5, <1>6, <1>10, <1>11, <1>12
     DEF Inv, Control, Before, Latest, Settled, Restoring, Updating

LEMMA ClearJournalKeeps == ASSUME Inv, ClearJournal PROVE Inv'
<1>1. /\ pc = "clear" /\ Copying /\ job.todo = {} /\ journal' = NoJournal /\ journal'.backup = 0
      /\ UNCHANGED <<tree, built, plugin, baseline, pending, backups, world, budget>>
      /\ Whole(tree, baseline.tag) /\ (Updating \/ Restoring)
      /\ journal.backup # 0
  <2>1. pc = "clear" /\ Copying
    BY DEF ClearJournal, Copying
  <2>2. journal.backup # 0
    BY <2>1 DEF Inv, Doing, Undoing, Control
  <2>3. /\ job.todo = {} /\ (Updating \/ Restoring) /\ Whole(tree, baseline.tag)
    BY <2>1 DEF Inv, Control, Baselines
  <2> QED
    BY <2>1, <2>2, <2>3 DEF ClearJournal, NoJournal
<1>2. pending.backup \in Ids => Recovers(BackupOf(pending.backup), tree)
  <2>1. CASE Restoring
    <3>1. Base = tree
      BY <1>1, <2>1, Undone
    <3> QED
      BY <3>1 DEF Inv, Named
  <2>2. CASE Updating
    <3> DEFINE b == BackupOf(journal.backup)
    <3>1. /\ job.backup = journal.backup /\ b.tag = job.from /\ job.target \in Release
          /\ \A f \in Ships[job.target] : tree[f] = job.target
          /\ \A f \in File \ Ships[job.target] : Base[f] = tree[f]
      BY <1>1, <2>2 DEF Inv, Doing, Updating, Shape, Job
    <3>2. Base = Over(tree, b) /\ Recovers(b, tree)
      BY <1>1 DEF Base, Inv, Named
    <3>3. CASE job.from = job.target
      <4>1. \A f \in Ships[job.target] : Base[f] = job.target
        BY <3>1, <3>2, <3>3 DEF Recovers, Whole
      <4>2. \A f \in File : Base[f] = tree[f]
        BY <3>1, <4>1
      <4>3. Base = tree
        <5>1. Base = [f \in File |-> Base[f]] /\ tree = [f \in File |-> tree[f]]
          BY <3>2 DEF Over, Inv, Shape, Tree
        <5> QED
          BY <4>2, <5>1
      <4> QED
        BY <4>3 DEF Inv, Named
    <3>4. CASE pending.backup = job.backup
      BY <3>1, <3>2, <3>4
    <3> QED
      BY <1>1, <2>2, <3>3, <3>4 DEF Inv, Baselines
  <2> QED
    BY <1>1, <2>1, <2>2
<1>3. Named' /\ Distinct'
  <2>1. Base' = tree /\ Ids' = Ids
    BY <1>1 DEF Base, Ids
  <2>2. BackupOf(pending.backup)' = BackupOf(pending.backup)
    BY <1>1 DEF BackupOf
  <2>3. \A f \in Ships[baseline.tag] : baseline.files[f] = baseline.tag /\ tree[f] # 0
    BY DEF Inv, Named
  <2>4. Named'
    BY <1>1, <1>2, <2>1, <2>2, <2>3 DEF Named, Whole
  <2>5. Distinct'
    BY <1>1 DEF Inv, Distinct, Unique
  <2> QED
    BY <2>4, <2>5
<1>4. CASE job.doing = "update"
  <2>1. pc' = "prune" /\ job' = job /\ job.by # "none" /\ ~Restoring
    BY <1>1, <1>4 DEF ClearJournal, Inv, Control, Restoring
  <2>2. Shape'
    BY <1>1, <2>1 DEF Inv, Shape, Pc, world, NoJournal
  <2>3. Attempts'
    BY <1>1, <2>2, Counts, AttemptsStay DEF Inv
  <2> QED
    BY <1>1, <1>3, <2>1, <2>2, <2>3
       DEF Inv, Control, Before, Undoing, Doing, Latest, Baselines, Settled, Copying, Restoring, Updating
<1>5. CASE job.doing # "update"
  <2>1. Restoring /\ job.by # "tick"
    BY <1>1, <1>5 DEF Updating, Inv, Control
  <2>2. PICK done \in BOOLEAN : Leave(done)
    BY <1>5 DEF ClearJournal
  <2>3. /\ job' \in Job /\ job'.doing = "update" /\ job'.todo = {}
        /\ pc' \in {"down", "plan", "boot"}
        /\ pc' = "plan" => job'.by = "preboot"
    BY <1>1, <2>1, <2>2, LeaveShape DEF Inv
  <2>4. Shape'
    BY <1>1, <2>3 DEF Inv, Shape, Pc, world, NoJournal
  <2>5. Attempts'
    BY <1>1, <2>4, Counts, AttemptsStay DEF Inv
  <2> QED
    BY <1>1, <1>3, <2>3, <2>4, <2>5, AtRest
<1> QED
  BY <1>4, <1>5

-----------------------------------------------------------------------------
(* All steps.                                                              *)

LEMMA Starts == ASSUME Init PROVE Inv
<1>1. Pure(1) \in Tree /\ 1 \in Release /\ \A f \in Ships[1] : Pure(1)[f] = 1
  BY ReleaseShape DEF Pure, Tree
<1>2. job \in Job /\ job.doing = "update" /\ job.todo = {}
  BY RunShape DEF Init, Caller
<1>3. Shape
  <2>1. budget \in Budgets
    <3>1. {MaxCrashes, MaxFailures, MaxEvents} \subseteq Nat
      BY UpdaterAssumption
    <3> QED
      BY <3>1 DEF Init, Budgets
  <2>2. backups \in Seq(Backup)
    BY DEF Init
  <2> QED
    BY <1>1, <1>2, <2>1, <2>2 DEF Init, Shape, Pc, NoJournal, NoHealth
<1>4. Attempts
  BY <1>3, Counts DEF Init, Attempts, NoHealth
<1>5. Named /\ Distinct
  BY <1>1 DEF Init, Named, Distinct, Unique, NoJournal, NoHealth, Ids, Whole
<1> QED
  BY <1>2, <1>3, <1>4, <1>5
     DEF Init, Inv, Control, Before, Undoing, Doing, Baselines, Latest, Settled, Copying, Restoring,
         Updating

LEMMA NextKeeps == ASSUME Inv, "restore" \notin Failing, [Next]_vars PROVE Inv'
<1>1. CASE Start BY <1>1, StartKeeps
<1>2. CASE CheckJournal BY <1>2, CheckJournalKeeps
<1>3. CASE CheckHealth BY <1>3, CheckHealthKeeps
<1>4. CASE GiveUp BY <1>4, GiveUpKeeps
<1>5. CASE RestoreStarts BY <1>5, RestoreStartsKeeps
<1>6. CASE BackupStarts BY <1>6, BackupStartsKeeps
<1>7. CASE BackupEnds BY <1>7, BackupEndsKeeps
<1>8. CASE Prune BY <1>8, PruneKeeps
<1>9. CASE PlanRollback BY <1>9, PlanRollbackKeeps
<1>10. CASE PlanUpdate BY <1>10, PlanUpdateKeeps
<1>11. CASE PlanStops BY <1>11, PlanStopsKeeps
<1>12. CASE PlanPlugins BY <1>12, PlanPluginsKeeps
<1>13. CASE Copy BY <1>13, CopyKeeps
<1>14. CASE Copied \/ Install \/ Clean \/ Build
  BY <1>14, CopiedKeeps, InstallKeeps, CleanKeeps, BuildKeeps
<1>15. CASE Plugins \/ Replug BY <1>15, PluginsKeeps, ReplugKeeps
<1>16. CASE WriteBaseline BY <1>16, WriteBaselineKeeps
<1>17. CASE WriteHealth BY <1>17, WriteHealthKeeps
<1>18. CASE ClearJournal BY <1>18, ClearJournalKeeps
<1>19. CASE Boot BY <1>19, BootKeeps
<1>20. CASE BackupFails \/ CopyFails \/ RebuildFails \/ PluginFails
  BY <1>20, BackupFailsKeeps, CopyFailsKeeps, RebuildFailsKeeps, PluginFailsKeeps
<1>21. CASE Tick \/ Cli \/ Crash BY <1>21, TickKeeps, CliKeeps, CrashKeeps
<1>22. CASE Publish \/ TakeBack \/ Offer BY <1>22, WorldKeeps
<1>23. CASE UNCHANGED vars
  <2>1. Shape' /\ Attempts' /\ Control' /\ Latest' /\ Settled' /\ Baselines'
    BY <1>23 DEF vars, disk, world, Inv, Shape, Attempts, Control, Latest, Settled, Baselines,
                 Restoring, Updating, Whole
  <2>2. Named' /\ Distinct'
    BY <1>23, NamedStays DEF vars, disk, Inv
  <2>3. Before'
    BY <1>23 DEF vars, disk, Inv, Before, Restoring, Recovers, Whole, Over, BackupOf, Ids
  <2>4. Undoing' /\ Doing'
    BY <1>23 DEF vars, disk, Inv, Undoing, Doing, Restoring, Updating, Copying, Over, Base, BackupOf
  <2> QED
    BY <2>1, <2>2, <2>3, <2>4 DEF Inv
<1> QED
  BY <1>1, <1>2, <1>3, <1>4, <1>5, <1>6, <1>7, <1>8, <1>9, <1>10, <1>11, <1>12, <1>13, <1>14,
     <1>15, <1>16, <1>17, <1>18, <1>19, <1>20, <1>21, <1>22, <1>23 DEF Next, Step, Environment

LEMMA InvMeans == ASSUME Inv PROVE FilesAreKnown /\ JournalRecovers
<1>1. TypeOK
  <2>1. /\ MaxCrashes \in Nat /\ budget.crashes \in 0 .. MaxCrashes /\ pending.attempts \in Nat
    BY Counts DEF Inv
  <2>2. pending.attempts <= MaxCrashes + 2
    BY <2>1 DEF Inv, Attempts
  <2>3. pending.attempts \in 0 .. MaxCrashes + 2
    BY <2>1, <2>2
  <2>4. \A i \in DOMAIN backups : backups[i] \in Backup
    BY DEF Inv, Shape
  <2> QED
    BY <2>3, <2>4 DEF TypeOK, Inv, Shape, Budgets
<1>2. BaselineIsTrue
  BY DEF BaselineIsTrue, Inv, Named
<1>3. TreeIsWhole
  BY <1>2 DEF TreeIsWhole, BaselineIsTrue, Inv, Shape
<1>4. JournalRecovers
  <2> SUFFICES ASSUME journal.backup # 0
               PROVE  \E r \in Release : Sound(journal.backup, r)
    BY DEF JournalRecovers
  <2> DEFINE b == BackupOf(journal.backup)
  <2>1. journal.backup \in Ids /\ b.whole /\ b.tag \in Release /\ Whole(Over(tree, b), b.tag)
    BY DEF Inv, Named, Recovers
  <2>2. Restored(b) = Over(tree, b)
    BY DEF Restored, Over
  <2> QED
    BY <2>1, <2>2 DEF Sound
<1> QED
  BY <1>1, <1>2, <1>3, <1>4 DEF FilesAreKnown

-----------------------------------------------------------------------------
(* For every set of releases, number of backups kept, number of crashes and *)
(* failed updates: nobody finds files at rest that nothing names.  Where no *)
(* apply or restore is to be recovered, the core files are those of the     *)
(* release in baseline.json, provided that no restore fails.                *)
THEOREM FilesStayKnown == ASSUME "restore" \notin Failing PROVE Spec => []FilesAreKnown
<1>1. Init => Inv
  BY Starts
<1>2. Inv /\ [Next]_vars => Inv'
  BY NextKeeps
<1>3. Inv => FilesAreKnown
  BY InvMeans
<1> QED
  BY <1>1, <1>2, <1>3, PTL DEF Spec

(* Under the same condition an interrupted apply or restore finds on boot   *)
(* the backup its journal names, complete, and copying it makes one release *)
(* of the tree.                                                             *)
THEOREM JournalsRecover == ASSUME "restore" \notin Failing PROVE Spec => []JournalRecovers
<1>1. Init => Inv
  BY Starts
<1>2. Inv /\ [Next]_vars => Inv'
  BY NextKeeps
<1>3. Inv => JournalRecovers
  BY InvMeans
<1> QED
  BY <1>1, <1>2, <1>3, PTL DEF Spec

-----------------------------------------------------------------------------
(* The bot that nobody attends to: no run from the command line, no plugin  *)
(* tag.  Its markers can always be followed.                                *)

(* The newest backup, which is not pruned.                                  *)
Newly(id) == backups # <<>> /\ backups[Len(backups)].id = id

Proceeding == pc \in {"backup", "copying", "prune"} \/ Copying

(* The backup of the health marker is kept: only an update that goes to     *)
(* another release prunes, and its own marker names the newest.             *)
Unproven ==
    pending # NoHealth => pending.backup \in Ids /\ BackupOf(pending.backup).tag = pending.prev

Alone ==
    /\ ~offered
    /\ ~Restoring /\ pc \in {"plugins", "replugging", "baseline", "prune"} => job.target # 0
    /\ ~Restoring /\ pc = "plan" /\ job.target # 0 => pending = NoHealth
    /\ ~Restoring /\ Proceeding /\ job.from = job.target => pending = NoHealth
    /\ ~Restoring /\ pc = "prune" => pending = NoHealth \/ Newly(pending.backup)
    /\ Unproven

LEMMA StaysKept ==
    ASSUME Distinct, Distinct', NEW i \in DOMAIN backups, NEW j \in DOMAIN backups',
           backups[i] = backups'[j]
    PROVE  /\ backups[i].id \in Ids'
           /\ BackupIn(backups', backups[i].id) = BackupOf(backups[i].id)
<1>1. Unique(backups) /\ Unique(backups')
  BY DEF Distinct, Unique
<1>2. BackupIn(backups', backups[i].id) = BackupIn(backups, backups[i].id)
  BY <1>1, StillFound
<1>3. backups'[j].id \in Ids'
  BY DEF Ids
<1> QED
  BY <1>2, <1>3 DEF BackupOf

(* A step that leaves the backup of the marker alone, and the marker.       *)
LEMMA UnprovenStays ==
    ASSUME Unproven, UNCHANGED pending,
           \A i \in DOMAIN backups : backups[i].id = pending.backup =>
              \E j \in DOMAIN backups' : backups'[j] = backups[i],
           Distinct, Distinct'
    PROVE  Unproven'
<1> SUFFICES ASSUME pending # NoHealth
             PROVE  pending.backup \in Ids' /\ BackupIn(backups', pending.backup).tag = pending.prev
  BY DEF Unproven, BackupOf
<1>1. PICK i \in DOMAIN backups : backups[i].id = pending.backup
  BY DEF Unproven, Ids
<1>2. PICK j \in DOMAIN backups' : backups'[j] = backups[i]
  BY <1>1
<1> QED
  BY <1>1, <1>2, StaysKept DEF Unproven

LEMMA UnprovenMarker ==
    ASSUME Unproven, UNCHANGED backups,
           \/ pending' = pending
           \/ pending' = NoHealth
           \/ pending # NoHealth /\ pending'.backup = pending.backup /\ pending'.prev = pending.prev
    PROVE  Unproven'
BY DEF Unproven, BackupOf, Ids

(* Where a run has ended, or goes back to.                                  *)
LEMMA AloneAtRest ==
    ASSUME Unproven', ~offered',
           pc' \in {"down", "check", "giveup", "restore", "plan", "boot", "running"},
           pc' = "plan" => job'.target = 0 \/ pending' = NoHealth
    PROVE  Alone'
BY DEF Alone, Proceeding, Copying, Restoring

(* Without failures in a restore nothing but an update fails.               *)
LEMMA AloneFails ==
    ASSUME Inv, "restore" \notin Failing, Fails, Thrown \/ RebuildFailed,
           pc \notin {"down", "boot", "running"}
    PROVE  /\ ~Restoring
           /\ pc' \in {"down", "plan", "boot", "running"}
           /\ pc' = "plan" => job'.target = 0
<1>1. ~Restoring
  BY DEF Fails, Restoring
<1>2. Leave(FALSE)
  BY <1>1 DEF Thrown, RebuildFailed, Restoring
<1> QED
  BY <1>1, <1>2, LeaveShape DEF Inv

LEMMA AloneStarts == ASSUME Init PROVE Alone
BY DEF Init, Alone, Unproven, Proceeding, Copying, Restoring

(* The check on boot, the bot and the world.                                *)
LEMMA AloneOutside ==
    ASSUME Inv, Alone,
           Start \/ CheckJournal \/ CheckHealth \/ GiveUp \/ PlanRollback \/ Boot \/ Tick \/ Crash
    PROVE  Alone'
<1>1. /\ UNCHANGED <<backups, offered>>
      /\ \/ pending' = pending
         \/ pending' = NoHealth
         \/ pending # NoHealth /\ pending' = [pending EXCEPT !.attempts = @ + 1]
  BY DEF Start, CheckJournal, CheckHealth, GiveUp, PlanRollback, Boot, Tick, Crash, world, disk
<1>2. pending # NoHealth /\ pending' = [pending EXCEPT !.attempts = @ + 1]
      => pending'.backup = pending.backup /\ pending'.prev = pending.prev
  BY DEF Inv, Shape
<1>3. Unproven'
  BY <1>1, <1>2, UnprovenMarker DEF Alone
<1>4. /\ pc' \in {"down", "check", "giveup", "restore", "plan", "boot", "running"}
      /\ pc' = "plan" => job'.target = 0
  <2>1. CASE Leave(FALSE) /\ pc = "check"
    BY <2>1, LeaveShape DEF Inv
  <2>2. CASE Tick
    BY <2>2, RunShape DEF Tick, Caller
  <2>3. CASE ~(Leave(FALSE) /\ pc = "check") /\ ~Tick
    BY <2>3 DEF Start, CheckJournal, CheckHealth, GiveUp, PlanRollback, Boot, Crash
  <2> QED
    BY <2>1, <2>2, <2>3
<1> QED
  BY <1>1, <1>3, <1>4, AloneAtRest DEF Alone

LEMMA AloneWorld == ASSUME Inv, Alone, Publish \/ TakeBack PROVE Alone'
BY DEF Publish, TakeBack, Alone, Unproven, Newly, Proceeding, Copying, Restoring, disk, Ids, BackupOf

(* A plan for another release, or a forced one after a rollback.            *)
LEMMA AlonePlans == ASSUME Inv, Alone, PlanUpdate \/ PlanStops \/ PlanPlugins PROVE Alone'
<1>1. /\ pc = "plan" /\ ~Restoring /\ UNCHANGED <<pending, backups, offered>>
  BY DEF PlanUpdate, PlanStops, PlanPlugins, Inv, Control, disk, world
<1>2. Unproven'
  BY <1>1, UnprovenMarker DEF Alone
<1>3. CASE Leave(FALSE)
  BY <1>1, <1>2, <1>3, LeaveShape, AloneAtRest DEF Alone, Inv
<1>4. CASE PlanUpdate
  <2>1. PICK r \in Targets :
          job' = [job EXCEPT !.doing = "update", !.target = r, !.from = baseline.tag,
                             !.plug = PluginPlan(r)]
    BY <1>4 DEF PlanUpdate
  <2>2. pc' = "backup" /\ job'.target = r /\ job'.from = baseline.tag
    BY <1>4, <2>1 DEF PlanUpdate, Inv, Shape, Job
  <2>3. ASSUME r = baseline.tag PROVE pending = NoHealth
    <3>1. baseline.tag \in Nat
      BY ReleaseShape DEF Inv, Shape
    <3>2. job.target # 0
      BY <2>3, <3>1 DEF Targets, Newest
    <3> QED
      BY <1>1, <3>2 DEF Alone
  <2> QED
    BY <1>1, <1>2, <2>2, <2>3 DEF Alone, Newly
<1>5. CASE PlanPlugins /\ ~Leave(FALSE)
  BY <1>5 DEF PlanPlugins, PluginPlan, Alone
<1> QED
  BY <1>3, <1>4, <1>5 DEF PlanStops

LEMMA AloneRestoreStarts == ASSUME Inv, Alone, RestoreStarts PROVE Alone'
<1>1. /\ pc = "restore" /\ Restoring /\ UNCHANGED <<pending, backups, offered>>
  BY DEF RestoreStarts, Inv, Control, world
<1>2. Unproven'
  BY <1>1, UnprovenMarker DEF Alone
<1>3. CASE job.backup \in Ids
  BY <1>1, <1>2, <1>3 DEF RestoreStarts, Alone, Restoring, Inv, Shape, Job
<1>4. CASE job.backup \notin Ids
  <2>1. pending' = NoHealth
    BY <1>1, <1>4 DEF Inv, Before, Named
  <2>2. RebuildFailed
    BY <1>4 DEF RestoreStarts
  <2>3. pc' \in {"down", "plan", "boot", "running"}
    BY <1>1, <2>2, LeaveShape DEF RebuildFailed, Fallback, Inv
  <2> QED
    BY <1>1, <1>2, <2>1, <2>3, AloneAtRest DEF Alone
<1> QED
  BY <1>3, <1>4

(* The new backup is never the one of the marker.                           *)
LEMMA AloneBackups == ASSUME Inv, Inv', Alone, BackupStarts \/ BackupEnds PROVE Alone'
<1>1. UNCHANGED <<pending, offered>> /\ Len(backups) \in Nat /\ DOMAIN backups = 1 .. Len(backups)
  BY DEF BackupStarts, BackupEnds, world, Inv, Shape
<1>2. \A i \in DOMAIN backups : backups[i].id = pending.backup =>
         \E j \in DOMAIN backups' : backups'[j] = backups[i]
  <2>1. CASE BackupStarts
    <3>1. PICK b : backups' = Append(backups, b)
      BY <2>1 DEF BackupStarts
    <3> QED
      BY <1>1, <3>1
  <2>2. CASE BackupEnds
    <3>1. /\ \E b : backups' = [backups EXCEPT ![Len(backups)] = b]
          /\ backups[Len(backups)].id # pending.backup
      BY <2>2 DEF BackupEnds, Inv, Before
    <3> QED
      BY <1>1, <3>1
  <2> QED
    BY <2>1, <2>2
<1>3. Unproven'
  BY <1>1, <1>2, UnprovenStays DEF Inv, Alone
<1>4. /\ pc \in {"backup", "copying"} /\ pc' \in {"copying", "applying"}
      /\ job'.doing = job.doing /\ job'.from = job.from /\ job'.target = job.target
  BY DEF BackupStarts, BackupEnds, Inv, Shape, Job
<1> QED
  BY <1>1, <1>3, <1>4 DEF Alone, Proceeding, Restoring

LEMMA AloneFailures ==
    ASSUME Inv, Inv', Alone, "restore" \notin Failing,
           BackupFails \/ CopyFails \/ RebuildFails \/ PluginFails
    PROVE  Alone'
<1>1. /\ UNCHANGED <<pending, offered>> /\ Fails /\ (Thrown \/ RebuildFailed)
      /\ pc \notin {"down", "boot", "running"}
      /\ backups' = backups \/ BackupFails
  BY DEF BackupFails, CopyFails, RebuildFails, PluginFails, world
<1>2. Unproven'
  <2>1. CASE backups' = backups
    BY <1>1, <2>1, UnprovenMarker DEF Alone
  <2>2. CASE BackupFails
    <3>1. /\ backups' = Front(backups) /\ backups # <<>> /\ backups[Len(backups)].id # pending.backup
      BY <2>2 DEF BackupFails, Inv, Before
    <3>2. Len(backups) \in Nat /\ DOMAIN backups = 1 .. Len(backups)
      BY DEF Inv, Shape
    <3>3. \A i \in DOMAIN backups : backups[i].id = pending.backup =>
            i \in DOMAIN backups' /\ backups'[i] = backups[i]
      BY <3>1, <3>2 DEF Front, Inv, Shape
    <3> QED
      BY <1>1, <3>3, UnprovenStays DEF Inv, Alone
  <2> QED
    BY <1>1, <2>1, <2>2
<1>3. pc' \in {"down", "plan", "boot", "running"} /\ (pc' = "plan" => job'.target = 0)
  BY <1>1, AloneFails
<1> QED
  BY <1>1, <1>2, <1>3, AloneAtRest DEF Alone

(* An update goes on, up to the baseline.                                   *)
LEMMA AloneGoesOn ==
    ASSUME Inv, Alone,
           Copy \/ Copied \/ Install \/ Clean \/ Build \/ Plugins \/ Replug \/ WriteBaseline
    PROVE  Alone'
<1>1. /\ UNCHANGED <<pending, backups, offered>>
      /\ job'.doing = job.doing /\ job'.from = job.from /\ job'.target = job.target
      /\ Copying
      /\ pc' \in {"applying", "install", "clean", "build", "plugins", "replugging", "baseline",
                  "health", "clear", "prune"}
      /\ pc' = "prune" => ~Restoring /\ pc = "baseline" /\ job.target = 0
  BY DEF Copy, Copied, Install, Clean, Build, Plugins, Replug, WriteBaseline, world, disk,
         Copying, Restoring, Inv, Shape, Job
<1>2. Unproven'
  BY <1>1, UnprovenMarker DEF Alone
<1>3. pc' # "prune"
  BY <1>1 DEF Alone
<1>4. ~Restoring /\ pc' \in {"plugins", "replugging", "baseline"} => job.target # 0
  BY DEF Copy, Copied, Install, Clean, Build, Plugins, Replug, WriteBaseline, disk, Alone,
         Inv, Control, Updating, Restoring
<1> QED
  BY <1>1, <1>2, <1>3, <1>4 DEF Alone, Proceeding, Restoring

LEMMA AloneWriteHealth == ASSUME Inv, Inv', Alone, WriteHealth PROVE Alone'
<1>1. /\ pc = "health" /\ pc' = "clear" /\ ~Restoring /\ Updating /\ Copying
      /\ UNCHANGED <<backups, job, offered>>
  BY DEF WriteHealth, Inv, Control, Copying, world
<1>2. CASE job.from = job.target
  BY <1>1, <1>2, UnprovenMarker DEF WriteHealth, Alone, Proceeding, Copying
<1>3. CASE job.from # job.target
  <2>1. pending' = [to |-> job.target, prev |-> job.from, attempts |-> 0, backup |-> job.backup]
    BY <1>3 DEF WriteHealth
  <2>2. /\ job.backup = journal.backup /\ journal.backup # 0
        /\ BackupOf(job.backup).tag = job.from /\ job.backup \in Ids
    BY <1>1 DEF Inv, Doing, Named
  <2>3. Unproven'
    BY <1>1, <2>1, <2>2 DEF Unproven, BackupOf, Ids
  <2> QED
    BY <1>1, <1>3, <2>3 DEF Alone, Proceeding, Copying, Restoring
<1> QED
  BY <1>2, <1>3

LEMMA AloneClears == ASSUME Inv, Alone, ClearJournal PROVE Alone'
<1>1. /\ pc = "clear" /\ Copying /\ UNCHANGED <<pending, backups, offered>>
  BY DEF ClearJournal, Copying, world
<1>2. Unproven'
  BY <1>1, UnprovenMarker DEF Alone
<1>3. CASE job.doing = "update"
  <2>1. /\ pc' = "prune" /\ job' = job /\ ~Restoring /\ Updating
    BY <1>1, <1>3 DEF ClearJournal, Inv, Control, Restoring
  <2>2. job.backup = journal.backup /\ Newly(job.backup)
    BY <1>1, <2>1 DEF Inv, Doing, Latest, Newly
  <2>3. pending = NoHealth \/ Newly(pending.backup)
    BY <1>1, <2>1, <2>2 DEF Inv, Baselines, Alone, Proceeding
  <2> QED
    BY <1>1, <1>2, <2>1, <2>3 DEF Alone, Updating, Restoring, Proceeding, Newly
<1>4. CASE job.doing # "update"
  <2>1. PICK done \in BOOLEAN : Leave(done)
    BY <1>4 DEF ClearJournal
  <2> QED
    BY <1>1, <1>2, <2>1, LeaveShape, AloneAtRest DEF Inv, Alone
<1> QED
  BY <1>3, <1>4

LEMMA AlonePrunes == ASSUME Inv, Inv', Alone, Prune PROVE Alone'
<1>1. /\ pc = "prune" /\ ~Restoring /\ UNCHANGED <<pending, offered>> /\ Leave(TRUE)
  BY DEF Prune, Inv, Control, world
<1>2. Unproven'
  <2>1. CASE pending = NoHealth
    BY <1>1, <2>1 DEF Unproven
  <2>2. CASE pending # NoHealth
    <3> DEFINE L == Len(backups)
    <3>1. backups # <<>> /\ backups[L].id = pending.backup
      BY <1>1, <2>2 DEF Alone, Newly
    <3>2. L \in Nat /\ DOMAIN backups = 1 .. L /\ L # 0 /\ MaxBackups \in Nat \ {0}
      BY <3>1, UpdaterAssumption DEF Inv, Shape
    <3>3. \E j \in DOMAIN backups' : backups'[j] = backups[L]
      <4>1. CASE backups' = backups
        BY <3>2, <4>1
      <4>2. CASE L > MaxBackups /\ backups' = SubSeq(backups, L - MaxBackups + 1, L)
        <5>1. MaxBackups \in DOMAIN backups' /\ backups'[MaxBackups] = backups[L]
          BY <3>2, <4>2 DEF Inv, Shape
        <5> QED
          BY <5>1
      <4> QED
        BY <3>2, <4>1, <4>2 DEF Prune
    <3>4. \A i \in DOMAIN backups : backups[i].id = pending.backup => i = L
      BY <3>1, <3>2 DEF Inv, Distinct, Unique
    <3> QED
      BY <1>1, <3>3, <3>4, UnprovenStays DEF Inv, Alone
  <2> QED
    BY <2>1, <2>2
<1> QED
  BY <1>1, <1>2, LeaveShape, AloneAtRest DEF Inv, Alone

LEMMA AloneKeeps ==
    ASSUME Inv, Inv', Alone, "restore" \notin Failing, [Next]_vars, [~Cli /\ ~Offer]_vars
    PROVE  Alone'
<1>1. CASE UNCHANGED vars
  BY <1>1 DEF vars, disk, world, Alone, Unproven, Newly, Proceeding, Copying, Restoring, Ids, BackupOf
<1>2. CASE Next /\ ~Cli /\ ~Offer
  BY <1>2, AloneOutside, AloneWorld, AlonePlans, AloneRestoreStarts, AloneBackups, AloneFailures,
     AloneGoesOn, AloneWriteHealth, AloneClears, AlonePrunes DEF Next, Step, Environment
<1> QED
  BY <1>1, <1>2

LEMMA AloneMeans == ASSUME Inv, Alone PROVE RecoveryIsReady
<1>1. JournalRecovers
  BY InvMeans
<1>2. RollbackIsReady
  <2> SUFFICES ASSUME pending # NoHealth, journal.backup = 0
               PROVE  Sound(pending.backup, pending.prev)
    BY DEF RollbackIsReady
  <2> DEFINE b == BackupOf(pending.backup)
  <2>1. pending.backup \in Ids /\ b.tag = pending.prev
    BY DEF Alone, Unproven
  <2>2. b.whole /\ Whole(Over(tree, b), b.tag)
    BY <2>1 DEF Inv, Named, Base, Recovers
  <2>3. Restored(b) = Over(tree, b)
    BY DEF Restored, Over
  <2> QED
    BY <2>1, <2>2, <2>3 DEF Sound
<1> QED
  BY <1>1, <1>2 DEF RecoveryIsReady

(* For every number of crashes, failed updates, releases published and      *)
(* taken back, and even with a single backup kept: what the marker of an    *)
(* unproven update promises to go back to is on disk, complete, and makes   *)
(* the release before of the tree, and so it is for an apply that was       *)
(* interrupted.  Provided that no restore fails and that nobody runs the    *)
(* command line or offers a plugin tag: their runs prune backups beside     *)
(* those that crashed runs left, and may drop the marker's.                 *)
THEOREM RecoveriesReady ==
    ASSUME "restore" \notin Failing
    PROVE  Spec /\ [][~Cli /\ ~Offer]_vars => []RecoveryIsReady
<1>1. Init => Inv /\ Alone
  BY Starts, AloneStarts
<1>2. Inv /\ Alone /\ [Next]_vars /\ [~Cli /\ ~Offer]_vars => (Inv /\ Alone)'
  BY NextKeeps, AloneKeeps
<1>3. Inv /\ Alone => RecoveryIsReady
  BY AloneMeans
<1> QED
  BY <1>1, <1>2, <1>3, PTL DEF Spec
=============================================================================
