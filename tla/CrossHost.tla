------------------------------ MODULE CrossHost ------------------------------
(***************************************************************************)
(* The control plane and its workers: registration over HTTP, assignment   *)
(* updates and heartbeats over Redis, crashes of both sides.               *)
(*                                                                         *)
(* A worker process registers, gets a response with its shards and the     *)
(* map's generation, builds its runtime state from it and subscribes to    *)
(* the assignment channel (worker/adapter.ts, worker/runtime.ts).  From    *)
(* then on an update addressed to it replaces its shard list, unless the   *)
(* update's generation is behind the one it holds.  It registers once per  *)
(* process.                                                                *)
(***************************************************************************)
EXTENDS ControlPlane

CONSTANTS
    Event,      \* the kinds of unforced events this instance lets happen
    MaxEvents,  \* how many of them, over a behaviour
    MaxGeneration \* bound: no rebalance cycle starts past this generation
                \* (overlapping cycles can undo each other's work for ever)

ASSUME EventsAssumption ==
    /\ Event \subseteq {"join", "rebalance", "shift", "update", "crash",
                        "false_dead", "loss", "abort", "restart"}
    /\ MaxEvents \in Nat
    /\ MaxGeneration \in Nat

VARIABLES
    response,   \* response[m]: the accepted registration m's process holds but
                \* has not acted on, at most one
    wShards,    \* wShards[m]: state.shards of m's worker process
    wGen,       \* wGen[m]: its state.generation
    events      \* unforced events so far

workerVars == <<response, wShards, wGen>>

vars == <<mapVars, planeVars, workerVars, events>>

TypeOK ==
    /\ MapTypeOK
    /\ PlaneTypeOK
    /\ response \in [Machine -> SUBSET Assignment]
    /\ wShards \in [Machine -> SUBSET Shard]
    /\ wGen \in [Machine -> Nat]
    /\ events \in Nat

(* A process that has neither registered nor subscribed is down.           *)
Down(m) == m \notin listening /\ response[m] = {}

Happens(kind) ==
    /\ kind \in Event
    /\ events < MaxEvents
    /\ events' = events + 1

-------------------------------------------------------------------------------
(* Worker processes                                                        *)

(* Mutant: the shards are listed before the join hook, the generation      *)
(* after it.                                                               *)
ResponseBeforeHook(m) == [generation |-> generation', shards |-> ShardsFor(m)]

(* The response is built after the join hook ran to its first assign.      *)
Response(m) == [generation |-> generation', shards |-> {s \in Shard : owner'[s] = m}]

(* m's process starts and its registration is accepted.                    *)
WorkerRegisters(m) ==
    /\ Happens("join")
    /\ Down(m)
    /\ Register(m)
    /\ response' = [response EXCEPT ![m] = {Response(m)}]
    /\ UNCHANGED <<wShards, wGen>>

(* createWorkerRuntimeState and subscribe.                                 *)
Subscribe(m) ==
    /\ \E r \in response[m] :
           /\ wShards' = [wShards EXCEPT ![m] = r.shards]
           /\ wGen' = [wGen EXCEPT ![m] = r.generation]
    /\ response' = [response EXCEPT ![m] = {}]
    /\ listening' = listening \cup {m}
    /\ UNCHANGED <<owner, generation, inbox, missed, planeVars, events>>

(* applyAssignment up to its first await.                                  *)
Stale(m, u) == u.generation < wGen[m]

Known(m, u) == u.generation = wGen[m] /\ u.shards = wShards[m]

ApplyAssignment(m) ==
    /\ inbox[m] # << >>
    /\ LET u == Head(inbox[m])
       IN  IF Stale(m, u) \/ Known(m, u)
           THEN UNCHANGED <<wShards, wGen>>
           ELSE /\ wShards' = [wShards EXCEPT ![m] = u.shards]
                /\ wGen' = [wGen EXCEPT ![m] = u.generation]
    /\ inbox' = [inbox EXCEPT ![m] = Tail(@)]
    /\ UNCHANGED <<owner, generation, listening, missed, planeVars, response, events>>

(* The connection drops an update that was published to it.                *)
LoseUpdate(m) ==
    /\ Happens("loss")
    /\ inbox[m] # << >>
    /\ inbox' = [inbox EXCEPT ![m] = Tail(@)]
    /\ missed' = [missed EXCEPT ![m] = Head(inbox[m]).generation]
    /\ UNCHANGED <<owner, generation, listening, planeVars, workerVars>>

(* The shard list a worker process reports; its heartbeats start between   *)
(* building the runtime state and subscribing.                             *)
RunningShards(m) ==
    IF m \in listening THEN {wShards[m]} ELSE {r.shards : r \in response[m]}

(* Published by the worker, handled by the orchestrator: a machine that is *)
(* not a member is not touched, and none is added.                         *)
Heartbeat(m) ==
    /\ m \in members
    /\ \E S \in RunningShards(m) : reported' = [reported EXCEPT ![m] = S]
    /\ UNCHANGED <<mapVars, members, updating, instructed, tasks, workerVars, events>>

(* The process ends; its place in the map and the registry stays.          *)
Exit(m) ==
    /\ listening' = listening \ {m}
    /\ inbox' = [inbox EXCEPT ![m] = << >>]
    /\ response' = [response EXCEPT ![m] = {}]
    /\ missed' = [missed EXCEPT ![m] = 0]
    /\ UNCHANGED <<owner, generation, wShards, wGen>>

WorkerCrashes(m) ==
    /\ Happens("crash")
    /\ ~Down(m)
    /\ Exit(m)
    /\ instructed' = [instructed EXCEPT ![m] = "none"]
    /\ UNCHANGED <<members, reported, updating, tasks>>

(* handleUpdateInstruct: the updater ran, the ack is published, and after  *)
(* a success the process exits to be restarted.  An ack that is awaited    *)
(* ends runOne.                                                            *)
WorkerAcks(m, ok) ==
    /\ instructed[m] # "none"
    /\ instructed' = [instructed EXCEPT ![m] = "none"]
    /\ \/ /\ instructed[m] = "orphan"
          /\ UNCHANGED <<updating, tasks>>
       \/ /\ instructed[m] = "awaited"
          /\ updating' = updating \ {m}
          /\ \E t \in Task : /\ tasks[t].kind = "ack"
                            /\ tasks[t].last = m
                            /\ Finish(t)
    /\ IF ok THEN Exit(m) ELSE UNCHANGED <<mapVars, workerVars>>
    /\ UNCHANGED <<members, reported, events>>

-------------------------------------------------------------------------------
(* The orchestrator process                                                *)

(* The failure watch is right about a worker that is down.  A worker whose *)
(* heartbeats do not get through is declared dead all the same.            *)
DeclaresDead(t, m) ==
    /\ \/ Down(m) /\ UNCHANGED events
       \/ ~Down(m) /\ Happens("false_dead")
    /\ DeclareDead(t, m)
    /\ UNCHANGED workerVars

(* A rebalance that only fills is not an unforced event: the timer is      *)
(* always running.  One that moves shards needs the load to be uneven.     *)
Rebalances(t) ==
    /\ generation < MaxGeneration
    /\ RebalanceTimer(t)
    /\ IF tasks'[t].kind = "moves" THEN Happens("rebalance") ELSE UNCHANGED events
    /\ UNCHANGED workerVars

ResumesTask(t) ==
    /\ Resume(t)
    /\ IF tasks[t].kind # "moves" /\ tasks'[t].kind = "moves"
       THEN Happens("rebalance")
       ELSE UNCHANGED events
    /\ UNCHANGED workerVars

Shifts(t, s, m) == Happens("shift") /\ ShardShift(t, s, m) /\ UNCHANGED workerVars

Updates(t, m) == Happens("update") /\ StartUpdate(t, m) /\ UNCHANGED workerVars

TimesOut(t) == AckTimeout(t) /\ UNCHANGED <<workerVars, events>>

Aborts(t) == Happens("abort") /\ Abort(t) /\ UNCHANGED workerVars

(* A new orchestrator process takes over: a new ShardMap, an empty         *)
(* registry, no operation in flight.  Registrations still in flight fail   *)
(* with their connection; running workers go on with what they have.       *)
OrchestratorRestarts ==
    /\ Happens("restart")
    /\ owner' = [s \in Shard |-> Nobody]
    /\ generation' = 1
    /\ missed' = [m \in Machine |-> 0]
    /\ response' = [m \in Machine |-> {}]
    /\ members' = {}
    /\ reported' = [m \in Machine |-> {}]
    /\ updating' = {}
    /\ instructed' = [m \in Machine |-> IF instructed[m] = "none" THEN "none" ELSE "orphan"]
    /\ tasks' = [t \in Task |-> Idle]
    /\ UNCHANGED <<inbox, listening, wShards, wGen>>

Init ==
    /\ MapInit
    /\ PlaneInit
    /\ response = [m \in Machine |-> {}]
    /\ wShards = [m \in Machine |-> {}]
    /\ wGen = [m \in Machine |-> 0]
    /\ events = 0

Next ==
    \/ \E m \in Machine :
           \/ WorkerRegisters(m) \/ Subscribe(m) \/ ApplyAssignment(m)
           \/ LoseUpdate(m) \/ Heartbeat(m) \/ WorkerCrashes(m)
           \/ \E ok \in BOOLEAN : WorkerAcks(m, ok)
    \/ \E t \in Task :
           \/ Rebalances(t) \/ ResumesTask(t) \/ TimesOut(t) \/ Aborts(t)
           \/ \E m \in Machine :
                  \/ DeclaresDead(t, m) \/ Updates(t, m)
                  \/ \E s \in Shard : Shifts(t, s, m)
    \/ OrchestratorRestarts

Spec == Init /\ [][Next]_vars

-------------------------------------------------------------------------------
(* Properties                                                              *)

(* The last thing the orchestrator told m that was not lost.               *)
Told(m) ==
    IF inbox[m] # << >> THEN inbox[m][Len(inbox[m])]
    ELSE IF response[m] # {} THEN CHOOSE r \in response[m] : TRUE
    ELSE [generation |-> wGen[m], shards |-> wShards[m]]

(* A running worker has been told of every shard the map credits to it,    *)
(* unless the last update for it was lost: routing a guild, an audit query *)
(* or an API call by ownerOf never meets a worker that never heard of the  *)
(* shard, however operations overlap and whatever stale lists they assign. *)
OwnersAreTold ==
    \A m \in Machine :
        ~Down(m) /\ missed[m] <= Told(m).generation
            => ShardsFor(m) \subseteq Told(m).shards

(* Every update waiting at a worker is ahead of the generation the worker  *)
(* will hold when it is handled: the fence of applyAssignment never throws *)
(* away an update this orchestrator meant, also across a restart of it.    *)
UpdatesAreFresh ==
    \A m \in Machine : \A i \in DOMAIN inbox[m] :
        inbox[m][i].generation >
            IF i = 1 THEN wGen[m] ELSE inbox[m][i - 1].generation

(* The set of machines excluded from rebalancing is exactly the set with a *)
(* rolling update in flight, one operation each, within the configured     *)
(* concurrency: no path of runOne leaves a worker excluded for ever.       *)
UpdatingIsInFlight ==
    LET inFlight == {t \in Task : tasks[t].kind \in {"drain", "poll", "ack"}} IN
    /\ updating = {tasks[t].last : t \in inFlight}
    /\ \A t, u \in inFlight : tasks[t].last = tasks[u].last => t = u
    /\ Cardinality(updating) <= MaxUpdates

(* Nothing in flight, on either side.                                      *)
Quiet ==
    /\ \A t \in Task : tasks[t] = Idle
    /\ \A m \in Machine : inbox[m] = << >> /\ response[m] = {}

(* A worker whose last update was not lost.                                *)
Informed(m) == m \in listening /\ missed[m] <= wGen[m]

(* Once things are quiet, the ownership dump of GET cluster/shards is what *)
(* the registered workers run, lost updates apart: an edit of the map that *)
(* takes a shard from a worker is sooner or later told to that worker.     *)
DumpIsWhatWorkersRun ==
    Quiet => \A m \in members : Informed(m) => wShards[m] = ShardsFor(m)

(* Once things are quiet, no shard is run by two workers, members or not,  *)
(* lost updates apart.                                                     *)
NoShardRunTwice ==
    Quiet => \A m, n \in Machine :
        m # n /\ Informed(m) /\ Informed(n) => wShards[m] \cap wShards[n] = {}

(* Once things are quiet, every owner is a member, the only machines the   *)
(* failure watch looks at: a shard of any other owner is never recovered.  *)
OwnersAreWatched ==
    Quiet => \A s \in Shard : owner[s] \in members \cup {Nobody}

(* Once things are quiet, the map and the workers agree on every shard:    *)
(* nobody runs what another runs or what the map does not credit to it,    *)
(* and nothing is credited to a machine that nobody watches.               *)
QuietIsAgreed == DumpIsWhatWorkersRun /\ NoShardRunTwice /\ OwnersAreWatched

(* A worker that exited to be restarted is given no shard before it has    *)
(* registered again ("exit for restart -> re-register + deep check before  *)
(* new shards", CROSS_HOST.md).                                            *)
NoShardsBeforeReregister ==
    [][\A m \in Machine : Down(m) /\ response'[m] = {} =>
           {s \in Shard : owner'[s] = m} \subseteq ShardsFor(m)]_vars

(* No operation hands shards to a worker in a rolling update ("Workers in  *)
(* an in-flight rolling update are excluded", CROSS_HOST.md).              *)
UpdatingIsExcluded ==
    [][\A m \in updating \cap updating' :
           {s \in Shard : owner'[s] = m} \subseteq ShardsFor(m)]_vars

-------------------------------------------------------------------------------
(* What the code's scheduling guarantees: awaited calls settle, the timers *)
(* (failure watch, rebalance) keep firing, a started worker subscribes and *)
(* handles what it receives, a running updater ends.                       *)
Fairness ==
    /\ \A m \in Machine :
           /\ WF_vars(Subscribe(m))
           /\ WF_vars(ApplyAssignment(m))
           /\ WF_vars(\E ok \in BOOLEAN : WorkerAcks(m, ok))
           /\ WF_vars(Down(m) /\ \E t \in Task : DeclaresDead(t, m))
    /\ \A t \in Task :
           /\ WF_vars(Rebalances(t))
           /\ WF_vars(ResumesTask(t))
           /\ WF_vars(TimesOut(t))

FairSpec == Spec /\ Fairness

(* Every shard ends up run by the worker the map credits it to, provided   *)
(* some registered worker stays up and no registered worker lost the last  *)
(* update for it: no order of joins, crashes, false alarms and shifts      *)
(* leaves a shard nobody will ever pick up.                                *)
EveryShardServed ==
    <>[](/\ members \cap listening # {}
         /\ \A m \in members \cap listening : Informed(m)
         => \A s \in Shard : /\ owner[s] \in members \cap listening
                             /\ s \in wShards[owner[s]])
===============================================================================
