------------------------------- MODULE Services -------------------------------
(***************************************************************************)
(* The services that the rest of the core rests on, side by side: the      *)
(* grants to identify, the snapshots, the event bus, the scheduler, the    *)
(* queries, the migrations, the ranges of versions, the plans of the       *)
(* updater, the bus of the plugins and the reloads of a configuration file.*)
(* They share no state, so a behaviour is one of a single service, chosen  *)
(* at its start, and the others rest in their initial states.              *)
(***************************************************************************)
EXTENDS VersionCheck, UpdatePlan

CONSTANTS
    \* The grants: callers, shards, buckets, the interval and the lists asked for.
    Caller, Shards, MaxConcurrency, GrantInterval, Lists,
    \* The snapshots: publishes at once, what is kept, and the bounds.
    Publisher, MaxRetained, MaxVersion, Fault, MaxMishaps,
    \* The event bus.
    Pattern, Callback, Owner, Priority, Emit, MaxListeners, MaxEmits,
    \* The scheduler: names of jobs, their interval and the bounds.
    Name, JobInterval, MaxTime, MaxCalls, MaxCrashes,
    \* The queries: workers, who may write the record, who may be registered.
    Worker, Home, Listed, Concurrency, MaxRequests,
    \* The migrations: plugins, per scope its versions, engines.
    Plugin, Steps, Engine, MaxFailures,
    \* The bus of the plugins.
    Machine, Sender, Handler, Registered, MaxMessages, MaxChanges,
    \* The reloads.
    Job, MaxEdits, MaxCommands

ASSUME GrantAssumption ==
    /\ Shards \in Nat \ {0} /\ MaxConcurrency \in Nat \ {0} /\ GrantInterval \in Nat \ {0}
    /\ Lists \subseteq Seq(0..(Shards - 1)) \ {<<>>}

\* Tags are versions, and a plugin has one of each version.
ASSUME TagAssumption ==
    /\ CoreTag \subseteq Version /\ MaxEvents \in Nat
    /\ \A t \in PluginTag : t.version \in Version
    /\ \A t, u \in PluginTag : Compare(t.version, u.version) = 0 => t = u

VARIABLES
    which,   \* the service looked at
    g_bucketNextIn, g_waiting, g_since, g_overlap,
    s_content, s_docs, s_pub, s_wire, s_worker, s_pulls, s_count, s_mishaps,
    b_listeners, b_counter, b_emits, b_count, b_calls, b_ended, b_shared, b_doubled,
    j_now, j_jobs, j_objects, j_registered, j_saver, j_isSaving, j_pendingSave, j_temp, j_file,
    j_starts, j_calls, j_crashes,
    q_holder, q_born, q_indexed, q_reqs, q_wire, q_pending, q_query,
    m_engine, m_recorded, m_effects, m_worker, m_lock, m_failed, m_events, m_beside, m_broken,
    m_twice,
    u_handlers, u_wire, u_pending, u_runs, u_outcome, u_messages, u_events, u_sent, u_called,
    u_removed,
    r_manager, r_file, r_dirty, r_known, r_debounceMap, r_batch, r_job, r_isReloading, r_lock,
    r_cache, r_live, r_failures, r_edits, r_events, r_missed, r_overlap, r_gate

Queue == INSTANCE IdentifyQueue WITH
    Interval <- GrantInterval, bucketNextIn <- g_bucketNextIn, waiting <- g_waiting,
    since <- g_since, overlap <- g_overlap

Snap == INSTANCE SnapshotSync WITH
    Event <- Fault, MaxEvents <- MaxMishaps,
    content <- s_content, docs <- s_docs, pub <- s_pub, wire <- s_wire, worker <- s_worker,
    pulls <- s_pulls, count <- s_count, mishaps <- s_mishaps

Bus == INSTANCE EventBus WITH
    listeners <- b_listeners, counter <- b_counter, emits <- b_emits, count <- b_count,
    calls <- b_calls, ended <- b_ended, shared <- b_shared, doubled <- b_doubled

\* A listener may have any priority.
ASSUME BusAssumption == Priority \subseteq Int /\ MaxListeners \in Nat /\ MaxEmits \in Nat

Jobs == INSTANCE Scheduler WITH
    Interval <- JobInterval,
    now <- j_now, jobs <- j_jobs, objects <- j_objects, registered <- j_registered,
    saver <- j_saver, isSaving <- j_isSaving, pendingSave <- j_pendingSave, temp <- j_temp,
    file <- j_file, starts <- j_starts, calls <- j_calls, crashes <- j_crashes

\* Names are numbered.
ASSUME JobAssumption ==
    /\ Name \subseteq Nat /\ IsFiniteSet(Name) /\ JobInterval \in Nat \ {0}
    /\ MaxTime \in Nat \ {0} /\ MaxCalls \in Nat /\ MaxCrashes \in Nat

Rpc == INSTANCE QueryRpc WITH
    Machine <- Worker,
    holder <- q_holder, born <- q_born, indexed <- q_indexed, reqs <- q_reqs, wire <- q_wire,
    pending <- q_pending, query <- q_query

\* No worker is called nobody.
ASSUME RpcAssumption ==
    /\ Home \in Worker /\ Rpc!Nobody \notin Worker /\ IsFiniteSet(Worker)
    /\ Listed \subseteq SUBSET Worker /\ Concurrency \in Nat \ {0} /\ MaxRequests \in Nat

Mig == INSTANCE Migrations WITH
    MaxEvents <- MaxFailures,
    engine <- m_engine, recorded <- m_recorded, effects <- m_effects, worker <- m_worker,
    lock <- m_lock, failed <- m_failed, events <- m_events, beside <- m_beside,
    broken <- m_broken, twice <- m_twice

\* The versions of the core are numbered without a gap (migrations/core).
ASSUME StepAssumption ==
    /\ \A s \in Mig!Scope : Steps[s] \subseteq Nat \ {0} /\ IsFiniteSet(Steps[s])
    /\ Steps[Mig!Core] = 1..Cardinality(Steps[Mig!Core])
    /\ Mig!Nobody \notin Worker /\ MaxFailures \in Nat

Talk == INSTANCE PluginBus WITH
    MaxEvents <- MaxChanges,
    handlers <- u_handlers, wire <- u_wire, pending <- u_pending, runs <- u_runs,
    outcome <- u_outcome, messages <- u_messages, events <- u_events, sent <- u_sent,
    called <- u_called, removed <- u_removed

\* A handler is on a machine once.
ASSUME TalkAssumption ==
    /\ IsFiniteSet(Handler) /\ {"none", "throws"} \cap Handler = {}
    /\ Talk!All \notin Machine /\ Sender \subseteq Machine /\ MaxMessages \in Nat
    /\ Registered \subseteq [Machine -> Seq(Handler)]
    /\ \A r \in Registered, m \in Machine : \A i, j \in DOMAIN r[m] : r[m][i] = r[m][j] => i = j

Reload == INSTANCE ConfigReload WITH
    MaxEvents <- MaxCommands,
    manager <- r_manager, file <- r_file, dirty <- r_dirty, known <- r_known,
    debounceMap <- r_debounceMap, batch <- r_batch, job <- r_job, isReloading <- r_isReloading,
    lock <- r_lock, cache <- r_cache, live <- r_live, failures <- r_failures, edits <- r_edits,
    events <- r_events, missed <- r_missed, overlap <- r_overlap, gate <- r_gate

ASSUME ReloadAssumption == MaxEdits \in Nat /\ MaxCommands \in Nat

----------------------------------------------------------------------------

g_vars == <<g_bucketNextIn, g_waiting, g_since, g_overlap>>
s_vars == <<s_content, s_docs, s_pub, s_wire, s_worker, s_pulls, s_count, s_mishaps>>
b_vars == <<b_listeners, b_counter, b_emits, b_count, b_calls, b_ended, b_shared, b_doubled>>
j_vars == <<j_now, j_jobs, j_objects, j_registered, j_saver, j_isSaving, j_pendingSave, j_temp,
            j_file, j_starts, j_calls, j_crashes>>
q_vars == <<q_holder, q_born, q_indexed, q_reqs, q_wire, q_pending, q_query>>
m_vars == <<m_engine, m_recorded, m_effects, m_worker, m_lock, m_failed, m_events, m_beside,
            m_broken, m_twice>>
u_vars == <<u_handlers, u_wire, u_pending, u_runs, u_outcome, u_messages, u_events, u_sent,
            u_called, u_removed>>
r_vars == <<r_manager, r_file, r_dirty, r_known, r_debounceMap, r_batch, r_job, r_isReloading,
            r_lock, r_cache, r_live, r_failures, r_edits, r_events, r_missed, r_overlap, r_gate>>

All == <<which, g_vars, s_vars, b_vars, j_vars, q_vars, m_vars, answer, vars, u_vars, r_vars>>

\* The initial state of a service that rests is one and the same.
SvcInit ==
    /\ which \in {"grants", "snapshots", "events", "jobs", "queries", "migrations", "versions",
                "plans", "messages", "reloads"}
    /\ Queue!Init /\ Snap!Init /\ Bus!Init /\ Jobs!Init /\ Rpc!Init /\ Mig!Init
    /\ which # "migrations" => m_engine = CHOOSE e \in Engine : TRUE
    /\ CheckInit /\ Talk!Init /\ Reload!Init
    /\ which # "reloads" => r_manager = "config"
    /\ Init
    /\ which # "plans" => released = CoreTag /\ core = (CHOOSE v \in CoreTag : TRUE)
                          /\ plugin = {} /\ devBuilds = FALSE

\* A step of a service, which leaves the others.
GrantsStep ==
    /\ which = "grants" /\ Queue!Next
    /\ UNCHANGED <<s_vars, b_vars, j_vars, q_vars, m_vars, answer, vars, u_vars, r_vars>>
SnapshotsStep ==
    /\ which = "snapshots" /\ Snap!Next
    /\ UNCHANGED <<g_vars, b_vars, j_vars, q_vars, m_vars, answer, vars, u_vars, r_vars>>
EventsStep ==
    /\ which = "events" /\ Bus!Next
    /\ UNCHANGED <<g_vars, s_vars, j_vars, q_vars, m_vars, answer, vars, u_vars, r_vars>>
JobsStep ==
    /\ which = "jobs" /\ Jobs!Next
    /\ UNCHANGED <<g_vars, s_vars, b_vars, q_vars, m_vars, answer, vars, u_vars, r_vars>>
QueriesStep ==
    /\ which = "queries" /\ Rpc!Next
    /\ UNCHANGED <<g_vars, s_vars, b_vars, j_vars, m_vars, answer, vars, u_vars, r_vars>>
MigrationsStep ==
    /\ which = "migrations" /\ Mig!Next
    /\ UNCHANGED <<g_vars, s_vars, b_vars, j_vars, q_vars, answer, vars, u_vars, r_vars>>
VersionsStep ==
    /\ which = "versions" /\ CheckNext
    /\ UNCHANGED <<g_vars, s_vars, b_vars, j_vars, q_vars, m_vars, vars, u_vars, r_vars>>
PlansStep ==
    /\ which = "plans" /\ Next
    /\ UNCHANGED <<g_vars, s_vars, b_vars, j_vars, q_vars, m_vars, answer, u_vars, r_vars>>
MessagesStep ==
    /\ which = "messages" /\ Talk!Next
    /\ UNCHANGED <<g_vars, s_vars, b_vars, j_vars, q_vars, m_vars, answer, vars, r_vars>>
ReloadsStep ==
    /\ which = "reloads" /\ Reload!Next
    /\ UNCHANGED <<g_vars, s_vars, b_vars, j_vars, q_vars, m_vars, answer, vars, u_vars>>

SvcNext ==
    /\ UNCHANGED which
    /\ \/ GrantsStep \/ SnapshotsStep \/ EventsStep \/ JobsStep \/ QueriesStep
       \/ MigrationsStep \/ VersionsStep \/ PlansStep \/ MessagesStep \/ ReloadsStep

SvcSpec == SvcInit /\ [][SvcNext]_All

----------------------------------------------------------------------------
(* The properties of the services, each stated in full in its module; that *)
(* of the ranges is RangesMean of VersionCheck.  A service that rests is   *)
(* not looked at.                                                          *)

\* Grants of a bucket are an interval apart, for each caller, and for all of
\* them unless two wait for it at once (identifyQueue.ts).
GrantsAreSpaced == Queue!GrantsAreSpaced

\* A worker has the document of the version that it says it has, and at rest
\* the latest one (adapter.ts, handleSnapshotNotify; snapshotCache.ts); the
\* version of a running worker never goes back (adapter.ts:586).
SnapshotsAreTrue ==
    /\ [](which = "snapshots" => Snap!TypeOK /\ Snap!VersionIsDocument /\ Snap!WorkerIsCurrent)
    /\ Snap!VersionsAscend

\* A once listener is called once, all in the order that the emit began with,
\* and an emit removes none but the once listeners it called (EventBus.ts).
CallsAreRight ==
    /\ [](which = "events" => Bus!TypeOK /\ Bus!OnceIsOnce /\ Bus!CallsAreOrdered)
    /\ Bus!NoneIsLost

\* The file of the schedule is whole at every crash and, saved, holds the jobs
\* as they are; what was missed is not made up for (scheduler/index.ts).
ScheduleIsKept ==
    which = "jobs" => Jobs!TypeOK /\ Jobs!FileIsWhole /\ Jobs!FileIsCurrent /\ Jobs!NoBurst

\* A query waits for what the client waits for (rpc.ts, request); what a
\* complete get does not find is on no worker asked (auditQuery.ts).
QueryWaits ==
    /\ [](which = "queries" => Rpc!TypeOK /\ Rpc!QueryWaits)
    /\ Rpc!NotFoundIsAbsent

\* A recorded step took effect, once and in its order, and a run fails over a
\* failing step or a gap only (runner.ts).
StepsAreRight ==
    which = "migrations" => /\ Mig!TypeOK /\ Mig!RecordedIsApplied
                            /\ Mig!VersionsAreASegment /\ Mig!FailureHasCause

\* The runs of the updater come to rest, a plugin that was searched for goes
\* with the core that is installed, and what the user has changed in it is
\* replaced by a forced run only (updater/index.ts, run and planPluginUpdates).
PlanSettles ==
    /\ [](which = "plans" => TypeOK /\ UpdatesSettle /\ PluginFits)
    /\ EditsAreKept

\* A request ends with the result made of it, and no handler takes a message
\* twice (pluginBus.ts).
AnswersAreTheirs ==
    which = "messages" => Talk!TypeOK /\ Talk!AnswersAreTheirs /\ Talk!HandledOnce

\* At rest the memory holds the file, nothing that is not valid is applied, and
\* a bad file blocks its plugin (config.ts, lang.ts, pluginGate.ts).
MemoryIsFile ==
    which = "reloads" => /\ Reload!TypeOK /\ Reload!MemoryIsFile
                         /\ Reload!OnlyValidIsApplied /\ Reload!BadFileBlocks
=============================================================================
