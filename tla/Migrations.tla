------------------------------ MODULE Migrations ------------------------------
(***************************************************************************)
(* The schema migrations (database/migrations/runner.ts): at the start of a*)
(* worker every step a scope has not recorded is applied, the core first,  *)
(* a failing plugin being left out.  Several workers share the backend,    *)
(* with Postgres under an advisory lock of the session, and any may end    *)
(* between two steps.                                                      *)
(***************************************************************************)
EXTENDS Naturals, FiniteSets, FiniteSetsExt

CONSTANTS
    Worker,     \* processes that migrate one backend
    Plugin,     \* plugins with migrations
    Steps,      \* per scope its versions
    Engine,     \* engines looked at
    MaxEvents   \* bound: crashes, failing steps and statements

Core == "core"
Scope == Plugin \cup {Core}

VARIABLES
    engine,
    recorded,  \* per scope the versions of schema_migrations
    effects,   \* per scope and version how often its step took effect
    worker,    \* where each worker is: the scope, what it found recorded and
               \* the scopes still to do
    lock,      \* who holds the advisory lock
    failed,    \* per worker the plugins it left out
    events,
    beside,    \* two workers migrated at once
    broken,    \* steps that threw in themselves, per worker
    twice      \* steps a worker did not come to record

vars == <<engine, recorded, effects, worker, lock, failed, events, beside, broken, twice>>

Nobody == "nobody"
Down == [pc |-> "down", scope |-> Core, applied |-> {}, todo |-> {}]

Running(w) == worker[w].pc \in {"read", "next", "record"}

Event == events < MaxEvents /\ events' = events + 1

At(w, pc) == worker' = [worker EXCEPT ![w].pc = pc]

----------------------------------------------------------------------------
(* runAllMigrations *)

Start(w) ==
    /\ worker[w].pc = "down"
    /\ worker' = [worker EXCEPT ![w] = [Down EXCEPT !.pc = IF engine = "postgres" THEN "lock"
                                                           ELSE "read", !.todo = Plugin]]
    /\ failed' = [failed EXCEPT ![w] = {}]
    /\ broken' = [broken EXCEPT ![w] = {}]
    /\ beside' = (beside \/ (engine # "postgres" /\ \E v \in Worker \ {w} : Running(v)))
    /\ UNCHANGED <<engine, recorded, effects, lock, events, twice>>

Free == lock = Nobody

Lock(w) ==
    /\ worker[w].pc = "lock" /\ Free
    /\ lock' = w
    /\ At(w, "read")
    /\ UNCHANGED <<engine, recorded, effects, failed, events, beside, broken, twice>>

\* The statement fails: a warning, and the run goes on.
LockFails(w) ==
    /\ worker[w].pc = "lock"
    /\ Event
    /\ At(w, "read")
    /\ beside' = TRUE
    /\ UNCHANGED <<engine, recorded, effects, lock, failed, broken, twice>>

\* The pool closes the connection that holds the lock.
LockLost(w) ==
    /\ lock = w
    /\ Event
    /\ lock' = Nobody
    /\ beside' = (beside \/ Running(w))
    /\ UNCHANGED <<engine, recorded, effects, worker, failed, broken, twice>>

\* The run is over.  The unlock may meet another connection of the pool; then
\* the lock stays.
Ends(w, pc) ==
    /\ worker' = [worker EXCEPT ![w] = [Down EXCEPT !.pc = pc]]
    /\ lock' \in {lock, IF lock = w THEN Nobody ELSE lock}

\* The next scope, or the end.
Goes(w) ==
    IF worker[w].todo = {} THEN Ends(w, "done")
    ELSE /\ \E p \in worker[w].todo :
               worker' = [worker EXCEPT ![w] = [pc |-> "read", scope |-> p, applied |-> {},
                                                todo |-> @.todo \ {p}]]
         /\ UNCHANGED lock

\* An error in a scope: of the core it ends the run, of a plugin it leaves it out.
Throws(w) ==
    IF worker[w].scope = Core THEN Ends(w, "failed") /\ UNCHANGED failed
    ELSE Goes(w) /\ failed' = [failed EXCEPT ![w] = @ \cup {worker[w].scope}]

----------------------------------------------------------------------------
(* runScope *)

\* ensureMigrationsTable, loadAppliedVersions.
Read(w) ==
    /\ worker[w].pc = "read"
    /\ worker' = [worker EXCEPT ![w].pc = "next", ![w].applied = recorded[worker[w].scope]]
    /\ UNCHANGED <<engine, recorded, effects, lock, failed, events, beside, broken, twice>>

Missing(w) == Steps[worker[w].scope] \ worker[w].applied

Gap(w) == Min(Missing(w)) # Max(worker[w].applied \cup {0}) + 1

ScopeDone(w) ==
    /\ worker[w].pc = "next" /\ Missing(w) = {}
    /\ Goes(w)
    /\ UNCHANGED <<engine, recorded, effects, failed, events, beside, broken, twice>>

FindsGap(w) ==
    /\ worker[w].pc = "next" /\ Missing(w) # {} /\ Gap(w)
    /\ Throws(w)
    /\ UNCHANGED <<engine, recorded, effects, events, beside, broken, twice>>

\* Mutant: without a transaction the record comes first.
TookFirst(s, v) ==
    /\ recorded' = [recorded EXCEPT ![s] = @ \cup {v}]
    /\ UNCHANGED effects

\* With Mongo there is no transaction: the step takes effect at once.
Took(s, v) ==
    /\ effects' = [effects EXCEPT ![s][v] = @ + 1]
    /\ UNCHANGED recorded

\* up; with sqlite its statements are collected, with Postgres they wait for
\* the commit.
Up(w) ==
    LET s == worker[w].scope v == Min(Missing(w))
    IN /\ worker[w].pc = "next" /\ Missing(w) # {} /\ ~Gap(w)
       /\ At(w, "record")
       /\ IF engine = "mongo" THEN Took(s, v) ELSE UNCHANGED <<recorded, effects>>
       /\ UNCHANGED <<engine, lock, failed, events, beside, broken, twice>>

\* The step throws, nothing of it stays.
UpFails(w) ==
    /\ worker[w].pc = "next" /\ Missing(w) # {} /\ ~Gap(w)
    /\ Event
    /\ Throws(w)
    /\ broken' = [broken EXCEPT ![w] = @ \cup {worker[w].scope}]
    /\ UNCHANGED <<engine, recorded, effects, beside, twice>>

\* The primary key of schema_migrations.
Conflicts(s, v) == engine # "mongo" /\ v \in recorded[s]

\* The record, with what the step did where there is a transaction.
Record(w) ==
    LET s == worker[w].scope v == Min(Missing(w))
    IN /\ worker[w].pc = "record" /\ ~Conflicts(s, v)
       /\ recorded' = [recorded EXCEPT ![s] = @ \cup {v}]
       /\ effects' = IF engine = "mongo" THEN effects
                     ELSE [effects EXCEPT ![s][v] = @ + 1]
       /\ worker' = [worker EXCEPT ![w].pc = "next", ![w].applied = @ \cup {v}]
       /\ UNCHANGED <<engine, lock, failed, events, beside, broken, twice>>

\* Another worker was first: the transaction is rolled back.
RecordFails(w) ==
    /\ worker[w].pc = "record" /\ Conflicts(worker[w].scope, Min(Missing(w)))
    /\ Throws(w)
    /\ UNCHANGED <<engine, recorded, effects, events, beside, broken, twice>>

Crash(w) ==
    /\ worker[w].pc # "down"
    /\ Event
    /\ worker' = [worker EXCEPT ![w] = Down]
    /\ lock' = IF lock = w THEN Nobody ELSE lock
    /\ twice' = IF engine = "mongo" /\ worker[w].pc = "record"
                THEN twice \cup {<<worker[w].scope, Min(Missing(w))>>} ELSE twice
    /\ UNCHANGED <<engine, recorded, effects, failed, beside, broken>>

Init ==
    /\ engine \in Engine
    /\ recorded = [s \in Scope |-> {}]
    /\ effects = [s \in Scope |-> [v \in Steps[s] |-> 0]]
    /\ worker = [w \in Worker |-> Down] /\ lock = Nobody
    /\ failed = [w \in Worker |-> {}] /\ broken = [w \in Worker |-> {}]
    /\ events = 0 /\ beside = FALSE /\ twice = {}

Next ==
    \E w \in Worker :
       \/ Start(w) \/ Lock(w) \/ LockFails(w) \/ LockLost(w) \/ Crash(w)
       \/ Read(w) \/ ScopeDone(w) \/ FindsGap(w) \/ Up(w) \/ UpFails(w)
       \/ Record(w) \/ RecordFails(w)

Spec == Init /\ [][Next]_vars

----------------------------------------------------------------------------
(* Properties. *)

TypeOK ==
    /\ engine \in Engine /\ recorded \in [Scope -> SUBSET UNION {Steps[s] : s \in Scope}]
    /\ \A w \in Worker : /\ worker[w].pc \in {"down", "lock", "read", "next", "record", "done", "failed"}
                         /\ worker[w].scope \in Scope /\ worker[w].todo \subseteq Plugin
    /\ lock \in Worker \cup {Nobody} /\ failed \in [Worker -> SUBSET Plugin]

\* What is recorded took effect, and took effect once whatever the workers do
\* side by side and wherever they end; with Mongo, which has neither the lock
\* nor the transaction, once unless a worker ended before its record or two
\* of them met (applyStepTransactional, applyStepSqlite, recordApplied).
RecordedIsApplied ==
    \A s \in Scope : \A v \in Steps[s] :
        /\ v \in recorded[s] => effects[s][v] > 0
        /\ effects[s][v] > 1 => engine = "mongo" /\ (beside \/ <<s, v>> \in twice)

\* No step is ever applied before the one before it: the versions of a scope
\* are an initial segment, also where a plugin left a number out (runScope).
VersionsAreASegment ==
    \A s \in Scope : \A v \in Steps[s] :
        effects[s][v] > 0 => \A u \in 1..(v - 1) : u \in recorded[s]

\* A worker ends with an error, or leaves a plugin out, only over a step that
\* throws or a number left out, as long as no two of them migrated at once:
\* with Postgres the lock sees to that, held on whichever connection.
FailureHasCause ==
    ~beside => \A w \in Worker :
        /\ worker[w].pc = "failed" => Core \in broken[w]
        /\ \A p \in failed[w] : p \in broken[w] \/ Steps[p] # 1..Cardinality(Steps[p])
==============================================================================
