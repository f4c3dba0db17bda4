---------------------------- MODULE ControlPlane ----------------------------
(***************************************************************************)
(* The orchestrator: membership registry, rebalance engine, dead-worker    *)
(* recovery, manual shard shift and rolling updates, all editing the one   *)
(* shard map.                                                              *)
(*                                                                         *)
(* The process is single-threaded but its operations are async functions   *)
(* that suspend at every ShardMap.assign (publish, then identify grants    *)
(* that take seconds each).  A suspended operation is a task; what it had  *)
(* computed before the suspension (its target lists) is kept in the task   *)
(* and used after it, whatever happened in between.  One action runs one   *)
(* task from one suspension to the next.  Nothing in the code keeps two    *)
(* operations from being suspended at the same time.                       *)
(*                                                                         *)
(* Iteration over workers follows Map insertion order in the code; here a  *)
(* loop takes its machines in any order.  Which shard a strategy moves is  *)
(* any choice within the move limit.                                       *)
(***************************************************************************)
EXTENDS ShardMap, FiniteSets

CONSTANTS
    Task,       \* names for operations in flight; their number is a bound
    MaxUpdates, \* CROSS_HOST_MAX_CONCURRENT_UPDATES
    MaxMoves    \* CROSS_HOST_REBALANCE_MAX_MOVES; 0: the load never leaves
                \* the imbalance threshold

ASSUME LimitsAssumption == MaxUpdates \in Nat /\ MaxMoves \in Nat

VARIABLES
    members,    \* machine ids in the membership registry
    reported,   \* reported[m]: the registry's idea of m's shards (w.shards)
    updating,   \* machines in an in-flight rolling update
    instructed, \* instructed[m]: the update instruct m is working on
    tasks       \* tasks[t]: the operation suspended under the name t

planeVars == <<members, reported, updating, instructed, tasks>>

(* idle: no operation.  join: fillUnownedShards from onWorkerJoined.       *)
(* fill, moves: the two loops of maybeRebalance.  shift: moveShard.        *)
(* recover: the failure watch, in clearMachine.  drain, poll, ack: runOne  *)
(* in assign, in waitUntilDrained, in waitAck.                             *)
Kind == {"idle", "join", "fill", "moves", "shift", "recover", "drain", "poll", "ack"}

(* last: the machine of the awaited call; todo and target: the rest of the *)
(* loop and the shard lists it was computed with.                          *)
TaskRecord == [kind : Kind, last : Machine \cup {Nobody},
               todo : SUBSET Machine, target : [Machine -> SUBSET Shard]]

NoTarget == [m \in Machine |-> {}]

Idle == [kind |-> "idle", last |-> Nobody, todo |-> {}, target |-> NoTarget]

Instruct == {"none", "awaited", "orphan"}

PlaneTypeOK ==
    /\ members \in SUBSET Machine
    /\ reported \in [Machine -> SUBSET Shard]
    /\ updating \in SUBSET Machine
    /\ instructed \in [Machine -> Instruct]
    /\ tasks \in [Task -> TaskRecord]

Suspend(t, kind, m, todo, target) ==
    tasks' = [tasks EXCEPT ![t] =
                [kind |-> kind, last |-> m, todo |-> todo, target |-> target]]

(* Mutant: a finished operation is marked done and never taken out.        *)
FinishKeepsEntry(t) == tasks' = [tasks EXCEPT ![t].kind = "done"]

Finish(t) == tasks' = [tasks EXCEPT ![t] = Idle]

Eligible(known) == known \ updating

-------------------------------------------------------------------------------
(* A loop "for each machine: skip it if the map already gives it its       *)
(* target, else await assign".  It suspends at the first machine to        *)
(* change; machines passed over before it are not looked at again.         *)
Due(todo, target) == {m \in todo : ShardsFor(m) # target[m]}

LoopAssign(t, kind, todo, target) ==
    \E m \in Due(todo, target) :
        \E passed \in SUBSET (todo \ Due(todo, target)) :
            /\ Assign(m, target[m])
            /\ Suspend(t, kind, m, todo \ ({m} \cup passed), target)

(* fillUnownedShards: every unowned shard goes to an eligible worker that  *)
(* has the fewest at that moment, so no receiver ends up two above anyone. *)
Filled(place) ==
    [m \in Machine |-> ShardsFor(m) \cup {s \in Unowned : place[s] = m}]

LeastCount(place, elig) ==
    \A s \in Unowned : \A m \in elig :
        Cardinality(Filled(place)[place[s]]) <= Cardinality(Filled(place)[m]) + 1

FillPlan(elig) ==
    {Filled(place) : place \in {p \in [Unowned -> elig] : LeastCount(p, elig)}}

CanFill(known) == Eligible(known) # {} /\ Unowned # {}

StartFill(t, kind, known) ==
    /\ CanFill(known)
    /\ \E target \in FillPlan(Eligible(known)) :
           LoopAssign(t, kind, Eligible(known), target)

(* strategy.propose: owned shards move between eligible workers, at most   *)
(* MaxMoves of them, or change hands towards one (manual overlay, unowned  *)
(* shards).  The lists of every owner in the result are re-assigned.       *)
Proposal(known) ==
    {place \in [Shard -> Machine \cup {Nobody}] :
        LET moved == {s \in Shard : place[s] # owner[s]} IN
        /\ moved # {}
        /\ \A s \in moved : place[s] \in Eligible(known)
        /\ Cardinality(moved \ Unowned) \in 1 .. MaxMoves}

StartMoves(t, known) ==
    /\ Cardinality(Eligible(known)) >= 2
    /\ \E place \in Proposal(known) :
           LET target == [m \in Machine |-> {s \in Shard : place[s] = m}]
           IN  LoopAssign(t, "moves",
                          Eligible(known) \cup {m \in Machine : target[m] # {}},
                          target)

(* maybeRebalance from where its fill loop is over: no proposal, or moves. *)
AfterFill(t, known) ==
    \/ Finish(t) /\ UNCHANGED mapVars
    \/ StartMoves(t, known)

(* maybeRebalance from its first line (after the cooldown check).          *)
StartCycle(t, known) ==
    \/ StartFill(t, "fill", known)
    \/ ~CanFill(known) /\ AfterFill(t, known)

-------------------------------------------------------------------------------
(* Starting an operation: the segment up to its first suspension.          *)

(* MembershipRegistry.register on success, then the join hook.  The hook   *)
(* is started, not awaited, but runs to its first assign before the        *)
(* response is built.                                                      *)
Register(m) ==
    /\ members' = members \cup {m}
    /\ reported' = [reported EXCEPT ![m] = ShardsFor(m)]
    /\ \/ ~CanFill(members') /\ UNCHANGED <<mapVars, tasks>>
       \/ \E t \in Task : /\ tasks[t].kind = "idle"
                          /\ StartFill(t, "join", members')
    /\ UNCHANGED <<updating, instructed>>

(* The rebalance timer; also the one forced run at start-up.               *)
RebalanceTimer(t) ==
    /\ tasks[t].kind = "idle"
    /\ StartCycle(t, members)
    /\ UNCHANGED <<members, reported, updating, instructed>>

(* POST cluster/shard-shift: moveShard computes both lists, assigns the    *)
(* receiver's, and has the donor's still to do.                            *)
ShardShift(t, s, to) ==
    /\ tasks[t].kind = "idle"
    /\ to \in members
    /\ owner[s] # to
    /\ Assign(to, ShardsFor(to) \cup {s})
    /\ LET from == {owner[s]} \ {Nobody}
       IN  Suspend(t, "shift", Nobody, from,
                   [m \in Machine |-> IF m \in from THEN ShardsFor(m) \ {s} ELSE {}])
    /\ UNCHANGED <<members, reported, updating, instructed>>

(* Mutant: recovery forgets the worker before its shards are cleared.      *)
DeclareDeadUncleared(t, m) ==
    /\ tasks[t].kind = "idle"
    /\ m \in members
    /\ Suspend(t, "recover", m, {}, NoTarget)
    /\ UNCHANGED <<mapVars, members, reported, updating, instructed>>

(* The failure watch finds m older than the dead limit: clear, then wait.  *)
DeclareDead(t, m) ==
    /\ tasks[t].kind = "idle"
    /\ m \in members
    /\ ClearMachine(m)
    /\ Suspend(t, "recover", m, {}, NoTarget)
    /\ UNCHANGED <<members, reported, updating, instructed>>

(* UpdateController.tick picks m; runOne marks it and drains it.           *)
StartUpdate(t, m) ==
    /\ tasks[t].kind = "idle"
    /\ m \in members \ updating
    /\ Cardinality(updating) < MaxUpdates
    /\ updating' = updating \cup {m}
    /\ Assign(m, {})
    /\ Suspend(t, "drain", m, {}, NoTarget)
    /\ UNCHANGED <<members, reported, instructed>>

-------------------------------------------------------------------------------
(* Resuming a task: the segment from one suspension to the next.           *)

SetWorkerShards(m, S) ==
    reported' = IF m \in members THEN [reported EXCEPT ![m] = S] ELSE reported

(* join, fill, moves: the bookkeeping after the awaited assign, then the   *)
(* rest of the loop.                                                       *)
ResumeLoop(t) ==
    LET k == tasks[t] IN
    /\ k.kind \in {"join", "fill", "moves"}
    /\ SetWorkerShards(k.last, k.target[k.last])
    /\ \/ LoopAssign(t, k.kind, k.todo, k.target)
       \/ /\ Due(k.todo, k.target) = {}
          /\ \/ k.kind = "fill" /\ AfterFill(t, members)
             \/ k.kind # "fill" /\ Finish(t) /\ UNCHANGED mapVars
    /\ UNCHANGED <<members, updating, instructed>>

(* moveShard: the donor's list is assigned whether or not it still fits.   *)
ResumeShift(t) ==
    LET k == tasks[t] IN
    /\ k.kind = "shift"
    /\ \/ /\ k.todo = {}
          /\ Finish(t)
          /\ UNCHANGED mapVars
       \/ \E from \in k.todo :
              /\ Assign(from, k.target[from])
              /\ Suspend(t, "shift", Nobody, {}, NoTarget)
    /\ UNCHANGED <<members, reported, updating, instructed>>

(* Recovery: drop the dead worker, then a forced rebalance.                *)
ResumeRecover(t) ==
    LET k == tasks[t] IN
    /\ k.kind = "recover"
    /\ members' = members \ {k.last}
    /\ StartCycle(t, members')
    /\ UNCHANGED <<reported, updating, instructed>>

(* waitUntilDrained looks only at the orchestrator's own records.          *)
Drained(m, seen) == ShardsFor(m) = {} /\ (m \in members => seen[m] = {})

SendInstruct(t, m) ==
    /\ instructed' = [instructed EXCEPT ![m] = IF m \in listening THEN "awaited" ELSE @]
    /\ Suspend(t, "ack", m, {}, NoTarget)

ResumeDrain(t) ==
    LET m == tasks[t].last IN
    /\ tasks[t].kind \in {"drain", "poll"}
    /\ IF tasks[t].kind = "drain" THEN SetWorkerShards(m, {}) ELSE UNCHANGED reported
    /\ \/ /\ Drained(m, reported')
          /\ SendInstruct(t, m)
          /\ UNCHANGED updating
       \/ /\ tasks[t].kind = "drain"
          /\ ~Drained(m, reported')
          /\ Suspend(t, "poll", m, {}, NoTarget)
          /\ UNCHANGED <<updating, instructed>>
       \/ /\ tasks[t].kind = "poll"           \* drain timeout
          /\ ~Drained(m, reported')
          /\ Finish(t)
          /\ updating' = updating \ {m}
          /\ UNCHANGED instructed
    /\ UNCHANGED <<members, mapVars>>

(* Mutant: the timeout path leaves the worker marked.                      *)
AckTimeoutKeepsMark(t) ==
    LET m == tasks[t].last IN
    /\ tasks[t].kind = "ack"
    /\ instructed' = [instructed EXCEPT ![m] = IF @ = "awaited" THEN "orphan" ELSE @]
    /\ Finish(t)
    /\ UNCHANGED <<updating, members, reported, mapVars>>

(* waitAck times out: the worker may still be running its updater, and its *)
(* late ack will find nobody waiting.                                      *)
AckTimeout(t) ==
    LET m == tasks[t].last IN
    /\ tasks[t].kind = "ack"
    /\ instructed' = [instructed EXCEPT ![m] = IF @ = "awaited" THEN "orphan" ELSE @]
    /\ updating' = updating \ {m}
    /\ Finish(t)
    /\ UNCHANGED <<members, reported, mapVars>>

(* The awaited publish or grant rejects: the operation ends there.  Only   *)
(* runOne has anything to undo.                                            *)
Abort(t) ==
    /\ tasks[t].kind \in {"join", "fill", "moves", "shift", "recover", "drain"}
    /\ Finish(t)
    /\ updating' = IF tasks[t].kind = "drain" THEN updating \ {tasks[t].last} ELSE updating
    /\ UNCHANGED <<members, reported, instructed, mapVars>>

Resume(t) ==
    ResumeLoop(t) \/ ResumeShift(t) \/ ResumeRecover(t) \/ ResumeDrain(t)

PlaneInit ==
    /\ members = {}
    /\ reported = [m \in Machine |-> {}]
    /\ updating = {}
    /\ instructed = [m \in Machine |-> "none"]
    /\ tasks = [t \in Task |-> Idle]
===============================================================================
