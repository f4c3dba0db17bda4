--------------------------- MODULE CrossHost_proof ---------------------------
(***************************************************************************)
(* Proofs about CrossHost, for every set of machines, shards and tasks,    *)
(* every mix of events and every bound: type correctness, the generation   *)
(* fence (UpdatesAreFresh), what owners have been told (OwnersAreTold), the*)
(* rolling-update exclusion set (UpdatingIsInFlight); and, for operations  *)
(* one after another, that map and workers agree at rest (QuietIsAgreed).  *)
(***************************************************************************)
EXTENDS CrossHost, FiniteSetTheorems, TLAPS

-------------------------------------------------------------------------------
(* Type correctness, operator by operator.                                 *)

LEMMA AssignTyped ==
    ASSUME MapTypeOK, NEW m \in Machine, NEW S \in SUBSET Shard, Assign(m, S)
    PROVE  MapTypeOK'
<1>. DEFINE msg == [generation |-> generation + 1, shards |-> S]
<1>1. msg \in Assignment
  BY DEF MapTypeOK, Assignment
<1>2. inbox' \in [Machine -> Seq(Assignment)]
  <2>1. CASE m \in listening
    <3>1. Append(inbox[m], msg) \in Seq(Assignment)
      BY <1>1 DEF MapTypeOK
    <3>. QED BY <2>1, <3>1 DEF Assign, Publish, MapTypeOK
  <2>2. CASE m \notin listening
    BY <2>2 DEF Assign, Publish, MapTypeOK
  <2>. QED BY <2>1, <2>2
<1>3. missed' \in [Machine -> Nat]
  BY DEF Assign, Publish, MapTypeOK
<1>4. owner' \in [Shard -> Machine \cup {Nobody}]
  BY DEF Assign, MapTypeOK
<1>. QED BY <1>2, <1>3, <1>4 DEF Assign, MapTypeOK

LEMMA ShardsForTyped ==
    ASSUME NEW m PROVE ShardsFor(m) \in SUBSET Shard
BY DEF ShardsFor

LEMMA ClearTyped ==
    ASSUME MapTypeOK, NEW m \in Machine, ClearMachine(m)
    PROVE  MapTypeOK'
<1>1. CASE UNCHANGED mapVars
  BY <1>1 DEF mapVars, MapTypeOK
<1>2. CASE Assign(m, {})
  BY <1>2, AssignTyped
<1>. QED BY <1>1, <1>2 DEF ClearMachine

TasksTyped == tasks \in [Task -> TaskRecord]

LEMMA SuspendTyped ==
    ASSUME TasksTyped, NEW t \in Task, NEW kind \in Kind,
           NEW m \in Machine \cup {Nobody}, NEW todo \in SUBSET Machine,
           NEW target \in [Machine -> SUBSET Shard],
           Suspend(t, kind, m, todo, target)
    PROVE  TasksTyped'
BY DEF TasksTyped, Suspend, TaskRecord

LEMMA IdleTyped == Idle \in TaskRecord /\ NoTarget \in [Machine -> SUBSET Shard]
BY DEF Idle, NoTarget, TaskRecord, Kind

LEMMA FinishTyped ==
    ASSUME TasksTyped, NEW t \in Task, Finish(t)
    PROVE  TasksTyped'
BY IdleTyped DEF TasksTyped, Finish

LEMMA LoopTyped ==
    ASSUME MapTypeOK, TasksTyped, NEW t \in Task, NEW kind \in Kind,
           NEW todo \in SUBSET Machine, NEW target \in [Machine -> SUBSET Shard],
           LoopAssign(t, kind, todo, target)
    PROVE  MapTypeOK' /\ TasksTyped'
<1>1. PICK m \in Due(todo, target) :
          \E passed \in SUBSET (todo \ Due(todo, target)) :
              /\ Assign(m, target[m])
              /\ Suspend(t, kind, m, todo \ ({m} \cup passed), target)
  BY DEF LoopAssign
<1>2. m \in Machine /\ target[m] \in SUBSET Shard
  BY DEF Due
<1>3. MapTypeOK'
  BY <1>1, <1>2, AssignTyped
<1>4. TasksTyped'
  <2>1. PICK passed : Suspend(t, kind, m, todo \ ({m} \cup passed), target)
    BY <1>1
  <2>2. todo \ ({m} \cup passed) \in SUBSET Machine
    OBVIOUS
  <2>. QED BY <1>2, <2>1, <2>2, SuspendTyped
<1>. QED BY <1>3, <1>4

LEMMA FillPlanTyped ==
    ASSUME NEW elig \in SUBSET Machine
    PROVE  FillPlan(elig) \subseteq [Machine -> SUBSET Shard]
BY DEF FillPlan, Filled, ShardsFor, Unowned

LEMMA StartFillTyped ==
    ASSUME MapTypeOK, TasksTyped, NEW t \in Task, NEW kind \in Kind,
           NEW known \in SUBSET Machine, StartFill(t, kind, known)
    PROVE  MapTypeOK' /\ TasksTyped'
<1>1. Eligible(known) \in SUBSET Machine
  BY DEF Eligible
<1>2. PICK target \in FillPlan(Eligible(known)) :
          LoopAssign(t, kind, Eligible(known), target)
  BY DEF StartFill
<1>3. target \in [Machine -> SUBSET Shard]
  BY <1>1, FillPlanTyped
<1>. QED BY <1>1, <1>2, <1>3, LoopTyped

LEMMA StartMovesTyped ==
    ASSUME MapTypeOK, TasksTyped, NEW t \in Task, NEW known \in SUBSET Machine,
           StartMoves(t, known)
    PROVE  MapTypeOK' /\ TasksTyped'
<1>1. PICK place \in Proposal(known) :
          LET target == [m \in Machine |-> {s \in Shard : place[s] = m}]
          IN  LoopAssign(t, "moves",
                         Eligible(known) \cup {m \in Machine : target[m] # {}},
                         target)
  BY DEF StartMoves
<1>. DEFINE target == [m \in Machine |-> {s \in Shard : place[s] = m}]
            todo == Eligible(known) \cup {m \in Machine : target[m] # {}}
<1>2. LoopAssign(t, "moves", todo, target)
  BY <1>1
<1>3. target \in [Machine -> SUBSET Shard]
  OBVIOUS
<1>4. todo \in SUBSET Machine
  BY DEF Eligible
<1>5. "moves" \in Kind
  BY DEF Kind
<1>. HIDE DEF target, todo
<1>. QED BY <1>2, <1>3, <1>4, <1>5, LoopTyped

LEMMA AfterFillTyped ==
    ASSUME MapTypeOK, TasksTyped, NEW t \in Task, NEW known \in SUBSET Machine,
           AfterFill(t, known)
    PROVE  MapTypeOK' /\ TasksTyped'
<1>1. CASE Finish(t) /\ UNCHANGED mapVars
  BY <1>1, FinishTyped DEF MapTypeOK, mapVars
<1>2. CASE StartMoves(t, known)
  BY <1>2, StartMovesTyped
<1>. QED BY <1>1, <1>2 DEF AfterFill

LEMMA StartCycleTyped ==
    ASSUME MapTypeOK, TasksTyped, NEW t \in Task, NEW known \in SUBSET Machine,
           StartCycle(t, known)
    PROVE  MapTypeOK' /\ TasksTyped'
<1>1. CASE StartFill(t, "fill", known)
  BY <1>1, StartFillTyped DEF Kind
<1>2. CASE AfterFill(t, known)
  BY <1>2, AfterFillTyped
<1>. QED BY <1>1, <1>2 DEF StartCycle

-------------------------------------------------------------------------------
(* Type correctness, action by action.                                     *)

WorkersTyped ==
    /\ response \in [Machine -> SUBSET Assignment]
    /\ wShards \in [Machine -> SUBSET Shard]
    /\ wGen \in [Machine -> Nat]

LEMMA RegisterTyped ==
    ASSUME TypeOK, NEW m \in Machine, WorkerRegisters(m)
    PROVE  TypeOK'
<1>. USE DEF TasksTyped
<1>1. members' \in SUBSET Machine
  BY DEF TypeOK, PlaneTypeOK, WorkerRegisters, Register
<1>2. MapTypeOK' /\ TasksTyped'
  <2>1. CASE UNCHANGED <<mapVars, tasks>>
    BY <2>1 DEF TypeOK, PlaneTypeOK, MapTypeOK, mapVars
  <2>2. CASE \E t \in Task : StartFill(t, "join", members')
    <3>1. PICK t \in Task : StartFill(t, "join", members')
      BY <2>2
    <3>2. "join" \in Kind
      BY DEF Kind
    <3>. QED BY <1>1, <3>1, <3>2, StartFillTyped DEF TypeOK, PlaneTypeOK
  <2>. QED BY <2>1, <2>2 DEF WorkerRegisters, Register
<1>3. Response(m) \in Assignment
  BY <1>2 DEF Response, Assignment, MapTypeOK
<1>4. WorkersTyped'
  BY <1>3 DEF WorkersTyped, WorkerRegisters, TypeOK
<1>5. reported' \in [Machine -> SUBSET Shard]
  BY ShardsForTyped DEF WorkerRegisters, Register, TypeOK, PlaneTypeOK
<1>. QED
  BY <1>1, <1>2, <1>4, <1>5
  DEF TypeOK, PlaneTypeOK, WorkersTyped, WorkerRegisters, Register, Happens

LEMMA SubscribeTyped ==
    ASSUME TypeOK, NEW m \in Machine, Subscribe(m)
    PROVE  TypeOK'
<1>1. PICK r \in response[m] :
          /\ wShards' = [wShards EXCEPT ![m] = r.shards]
          /\ wGen' = [wGen EXCEPT ![m] = r.generation]
  BY DEF Subscribe
<1>2. r \in Assignment
  BY DEF TypeOK
<1>3. WorkersTyped'
  BY <1>1, <1>2 DEF WorkersTyped, TypeOK, Subscribe, Assignment
<1>. QED BY <1>3 DEF TypeOK, WorkersTyped, MapTypeOK, PlaneTypeOK, planeVars, Subscribe

LEMMA ApplyTyped ==
    ASSUME TypeOK, NEW m \in Machine, ApplyAssignment(m)
    PROVE  TypeOK'
<1>1. inbox[m] \in Seq(Assignment) /\ inbox[m] # << >>
  BY DEF TypeOK, MapTypeOK, ApplyAssignment
<1>2. Head(inbox[m]) \in Assignment /\ Tail(inbox[m]) \in Seq(Assignment)
  BY <1>1
<1>3. WorkersTyped'
  BY <1>2 DEF WorkersTyped, TypeOK, ApplyAssignment, Assignment
<1>4. MapTypeOK'
  BY <1>2 DEF MapTypeOK, TypeOK, ApplyAssignment
<1>. QED BY <1>3, <1>4 DEF TypeOK, WorkersTyped, PlaneTypeOK, planeVars, ApplyAssignment

LEMMA LoseTyped ==
    ASSUME TypeOK, NEW m \in Machine, LoseUpdate(m)
    PROVE  TypeOK'
<1>1. inbox[m] \in Seq(Assignment) /\ inbox[m] # << >>
  BY DEF TypeOK, MapTypeOK, LoseUpdate
<1>2. Head(inbox[m]) \in Assignment /\ Tail(inbox[m]) \in Seq(Assignment)
  BY <1>1
<1>3. MapTypeOK'
  BY <1>2 DEF MapTypeOK, TypeOK, LoseUpdate, Assignment
<1>. QED BY <1>3 DEF TypeOK, PlaneTypeOK, planeVars, workerVars, LoseUpdate, Happens

LEMMA HeartbeatTyped ==
    ASSUME TypeOK, NEW m \in Machine, Heartbeat(m)
    PROVE  TypeOK'
<1>1. RunningShards(m) \subseteq SUBSET Shard
  BY DEF RunningShards, TypeOK, Assignment
<1>2. reported' \in [Machine -> SUBSET Shard]
  BY <1>1 DEF Heartbeat, TypeOK, PlaneTypeOK
<1>. QED BY <1>2 DEF TypeOK, PlaneTypeOK, MapTypeOK, mapVars, workerVars, Heartbeat

LEMMA ExitTyped ==
    ASSUME MapTypeOK, WorkersTyped, NEW m \in Machine, Exit(m)
    PROVE  MapTypeOK' /\ WorkersTyped'
<1>1. << >> \in Seq(Assignment)
  OBVIOUS
<1>. QED BY <1>1 DEF MapTypeOK, WorkersTyped, Exit

LEMMA CrashTyped ==
    ASSUME TypeOK, NEW m \in Machine, WorkerCrashes(m)
    PROVE  TypeOK'
<1>1. MapTypeOK' /\ WorkersTyped'
  BY ExitTyped DEF WorkerCrashes, TypeOK, WorkersTyped
<1>2. PlaneTypeOK'
  BY DEF TypeOK, PlaneTypeOK, WorkerCrashes, Instruct
<1>3. events' \in Nat
  BY DEF TypeOK, WorkerCrashes, Happens
<1>. QED BY <1>1, <1>2, <1>3 DEF TypeOK, WorkersTyped

LEMMA AcksTyped ==
    ASSUME TypeOK, NEW m \in Machine, NEW ok \in BOOLEAN, WorkerAcks(m, ok)
    PROVE  TypeOK'
<1>1. MapTypeOK' /\ WorkersTyped'
  <2>1. CASE Exit(m)
    BY <2>1, ExitTyped DEF TypeOK, WorkersTyped
  <2>2. CASE UNCHANGED <<mapVars, workerVars>>
    BY <2>2 DEF TypeOK, WorkersTyped, MapTypeOK, mapVars, workerVars
  <2>. QED BY <2>1, <2>2 DEF WorkerAcks
<1>2. TasksTyped' /\ updating' \in SUBSET Machine
  <2>1. CASE UNCHANGED <<updating, tasks>>
    BY <2>1 DEF TypeOK, PlaneTypeOK, TasksTyped
  <2>2. CASE updating' = updating \ {m} /\ \E t \in Task : Finish(t)
    BY <2>2, FinishTyped DEF TypeOK, PlaneTypeOK, TasksTyped
  <2>. QED BY <2>1, <2>2 DEF WorkerAcks
<1>. QED
  BY <1>1, <1>2 DEF TypeOK, PlaneTypeOK, TasksTyped, WorkersTyped, WorkerAcks, Instruct

LEMMA BystandersTyped ==
    ASSUME TypeOK, MapTypeOK', TasksTyped', updating' \in SUBSET Machine,
           UNCHANGED <<members, reported, instructed, workerVars>>,
           events' \in Nat
    PROVE  TypeOK'
BY DEF TypeOK, PlaneTypeOK, TasksTyped, workerVars

LEMMA EventsTyped ==
    ASSUME TypeOK, NEW kind, Happens(kind) \/ UNCHANGED events
    PROVE  events' \in Nat
BY DEF TypeOK, Happens

LEMMA RebalancesTyped ==
    ASSUME TypeOK, NEW t \in Task, Rebalances(t)
    PROVE  TypeOK'
<1>1. MapTypeOK' /\ TasksTyped'
  BY StartCycleTyped DEF Rebalances, RebalanceTimer, TypeOK, PlaneTypeOK, TasksTyped
<1>2. events' \in Nat
  BY EventsTyped DEF Rebalances
<1>3. updating' \in SUBSET Machine
  BY DEF Rebalances, RebalanceTimer, TypeOK, PlaneTypeOK
<1>. QED BY <1>1, <1>2, <1>3, BystandersTyped DEF Rebalances, RebalanceTimer

LEMMA ShiftsTyped ==
    ASSUME TypeOK, NEW t \in Task, NEW s \in Shard, NEW m \in Machine, Shifts(t, s, m)
    PROVE  TypeOK'
<1>1. MapTypeOK'
  <2>1. ShardsFor(m) \cup {s} \in SUBSET Shard
    BY ShardsForTyped
  <2>. QED BY <2>1, AssignTyped DEF Shifts, ShardShift, TypeOK
<1>2. TasksTyped'
  <2>. DEFINE from == {owner[s]} \ {Nobody}
              target == [x \in Machine |-> IF x \in from THEN ShardsFor(x) \ {s} ELSE {}]
  <2>1. Suspend(t, "shift", Nobody, from, target)
    BY DEF Shifts, ShardShift
  <2>2. from \in SUBSET Machine
    BY DEF TypeOK, MapTypeOK
  <2>3. target \in [Machine -> SUBSET Shard]
    BY ShardsForTyped
  <2>4. "shift" \in Kind
    BY DEF Kind
  <2>5. TasksTyped
    BY DEF TypeOK, PlaneTypeOK, TasksTyped
  <2>. HIDE DEF from, target
  <2>. QED BY <2>1, <2>2, <2>3, <2>4, <2>5, SuspendTyped
<1>3. events' \in Nat /\ updating' \in SUBSET Machine
  BY EventsTyped DEF Shifts, ShardShift, TypeOK, PlaneTypeOK
<1>. QED BY <1>1, <1>2, <1>3, BystandersTyped DEF Shifts, ShardShift

LEMMA SuspendPlainTyped ==
    ASSUME TypeOK, NEW t \in Task, NEW kind \in Kind, NEW m \in Machine \cup {Nobody},
           Suspend(t, kind, m, {}, NoTarget)
    PROVE  TasksTyped'
<1>1. TasksTyped /\ {} \in SUBSET Machine
  BY DEF TypeOK, PlaneTypeOK, TasksTyped
<1>. QED BY <1>1, IdleTyped, SuspendTyped

LEMMA DeclaresDeadTyped ==
    ASSUME TypeOK, NEW t \in Task, NEW m \in Machine, DeclaresDead(t, m)
    PROVE  TypeOK'
<1>1. MapTypeOK'
  BY ClearTyped DEF DeclaresDead, DeclareDead, TypeOK
<1>2. TasksTyped'
  BY SuspendPlainTyped DEF DeclaresDead, DeclareDead, Kind
<1>3. events' \in Nat /\ updating' \in SUBSET Machine
  BY EventsTyped DEF DeclaresDead, DeclareDead, TypeOK, PlaneTypeOK
<1>. QED BY <1>1, <1>2, <1>3, BystandersTyped DEF DeclaresDead, DeclareDead

LEMMA UpdatesTyped ==
    ASSUME TypeOK, NEW t \in Task, NEW m \in Machine, Updates(t, m)
    PROVE  TypeOK'
<1>1. MapTypeOK'
  BY AssignTyped DEF Updates, StartUpdate, TypeOK
<1>2. TasksTyped'
  BY SuspendPlainTyped DEF Updates, StartUpdate, Kind
<1>3. events' \in Nat /\ updating' \in SUBSET Machine
  BY EventsTyped DEF Updates, StartUpdate, TypeOK, PlaneTypeOK
<1>. QED BY <1>1, <1>2, <1>3, BystandersTyped DEF Updates, StartUpdate

LEMMA FinishingTyped ==
    ASSUME TypeOK, NEW t \in Task, Finish(t)
    PROVE  TasksTyped'
BY FinishTyped DEF TypeOK, PlaneTypeOK, TasksTyped

LEMMA TimesOutTyped ==
    ASSUME TypeOK, NEW t \in Task, TimesOut(t)
    PROVE  TypeOK'
<1>1. TasksTyped' /\ MapTypeOK'
  BY FinishingTyped DEF TimesOut, AckTimeout, TypeOK, MapTypeOK, mapVars
<1>2. instructed' \in [Machine -> Instruct]
  BY DEF TimesOut, AckTimeout, TypeOK, PlaneTypeOK, Instruct
<1>. QED
  BY <1>1, <1>2
  DEF TypeOK, PlaneTypeOK, TasksTyped, TimesOut, AckTimeout, workerVars

LEMMA AbortsTyped ==
    ASSUME TypeOK, NEW t \in Task, Aborts(t)
    PROVE  TypeOK'
<1>1. TasksTyped' /\ MapTypeOK'
  BY FinishingTyped DEF Aborts, Abort, TypeOK, MapTypeOK, mapVars
<1>2. events' \in Nat /\ updating' \in SUBSET Machine
  BY EventsTyped DEF Aborts, Abort, TypeOK, PlaneTypeOK
<1>. QED BY <1>1, <1>2, BystandersTyped DEF Aborts, Abort

LEMMA TaskFieldsTyped ==
    ASSUME TypeOK, NEW t \in Task
    PROVE  /\ tasks[t].kind \in Kind
           /\ tasks[t].last \in Machine \cup {Nobody}
           /\ tasks[t].todo \in SUBSET Machine
           /\ tasks[t].target \in [Machine -> SUBSET Shard]
BY DEF TypeOK, PlaneTypeOK, TaskRecord

LEMMA SetWorkerShardsTyped ==
    ASSUME TypeOK, NEW m, NEW S, m \in Machine => S \in SUBSET Shard, SetWorkerShards(m, S)
    PROVE  reported' \in [Machine -> SUBSET Shard]
BY DEF SetWorkerShards, TypeOK, PlaneTypeOK

LEMMA ResumeLoopTyped ==
    ASSUME TypeOK, NEW t \in Task, ResumeLoop(t)
    PROVE  MapTypeOK' /\ PlaneTypeOK'
<1>1. reported' \in [Machine -> SUBSET Shard]
  BY TaskFieldsTyped, SetWorkerShardsTyped DEF ResumeLoop
<1>2. MapTypeOK' /\ TasksTyped'
  <2>. USE DEF TypeOK, PlaneTypeOK, TasksTyped
  <2>1. CASE LoopAssign(t, tasks[t].kind, tasks[t].todo, tasks[t].target)
    BY <2>1, TaskFieldsTyped, LoopTyped
  <2>2. CASE AfterFill(t, members)
    BY <2>2, AfterFillTyped
  <2>3. CASE Finish(t) /\ UNCHANGED mapVars
    BY <2>3, FinishTyped DEF MapTypeOK, mapVars
  <2>. QED BY <2>1, <2>2, <2>3 DEF ResumeLoop
<1>. QED BY <1>1, <1>2 DEF ResumeLoop, TypeOK, PlaneTypeOK, TasksTyped

LEMMA ResumeShiftTyped ==
    ASSUME TypeOK, NEW t \in Task, ResumeShift(t)
    PROVE  MapTypeOK' /\ PlaneTypeOK'
<1>1. MapTypeOK' /\ TasksTyped'
  <2>1. CASE Finish(t) /\ UNCHANGED mapVars
    BY <2>1, FinishingTyped DEF MapTypeOK, mapVars, TypeOK
  <2>2. ASSUME NEW from \in tasks[t].todo,
               Assign(from, tasks[t].target[from]),
               Suspend(t, "shift", Nobody, {}, NoTarget)
        PROVE  MapTypeOK' /\ TasksTyped'
    <3>1. from \in Machine /\ tasks[t].target[from] \in SUBSET Shard
      BY TaskFieldsTyped
    <3>2. MapTypeOK'
      BY <2>2, <3>1, AssignTyped DEF TypeOK
    <3>. QED BY <2>2, <3>2, SuspendPlainTyped DEF Kind
  <2>. QED BY <2>1, <2>2 DEF ResumeShift
<1>. QED BY <1>1 DEF ResumeShift, TypeOK, PlaneTypeOK, TasksTyped

LEMMA ResumeRecoverTyped ==
    ASSUME TypeOK, NEW t \in Task, ResumeRecover(t)
    PROVE  MapTypeOK' /\ PlaneTypeOK'
<1>1. members' \in SUBSET Machine
  BY DEF ResumeRecover, TypeOK, PlaneTypeOK
<1>2. MapTypeOK' /\ TasksTyped'
  BY <1>1, StartCycleTyped DEF ResumeRecover, TypeOK, PlaneTypeOK, TasksTyped
<1>. QED BY <1>1, <1>2 DEF ResumeRecover, TypeOK, PlaneTypeOK, TasksTyped

LEMMA ResumeDrainTyped ==
    ASSUME TypeOK, NEW t \in Task, ResumeDrain(t)
    PROVE  MapTypeOK' /\ PlaneTypeOK'
<1>1. reported' \in [Machine -> SUBSET Shard]
  <2>1. CASE SetWorkerShards(tasks[t].last, {})
    BY <2>1, SetWorkerShardsTyped
  <2>2. CASE UNCHANGED reported
    BY <2>2 DEF TypeOK, PlaneTypeOK
  <2>. QED BY <2>1, <2>2 DEF ResumeDrain
<1>2. TasksTyped'
  <2>1. CASE Finish(t)
    BY <2>1, FinishingTyped
  <2>2. CASE \E kind \in {"ack", "poll"} : Suspend(t, kind, tasks[t].last, {}, NoTarget)
    BY <2>2, TaskFieldsTyped, SuspendPlainTyped DEF Kind
  <2>. QED BY <2>1, <2>2 DEF ResumeDrain, SendInstruct
<1>3. instructed' \in [Machine -> Instruct] /\ updating' \in SUBSET Machine
  BY DEF ResumeDrain, SendInstruct, TypeOK, PlaneTypeOK, Instruct
<1>. QED
  BY <1>1, <1>2, <1>3 DEF ResumeDrain, TypeOK, MapTypeOK, mapVars, PlaneTypeOK, TasksTyped

LEMMA ResumesTyped ==
    ASSUME TypeOK, NEW t \in Task, ResumesTask(t)
    PROVE  TypeOK'
<1>1. MapTypeOK' /\ PlaneTypeOK'
  BY ResumeLoopTyped, ResumeShiftTyped, ResumeRecoverTyped, ResumeDrainTyped
  DEF ResumesTask, Resume
<1>2. events' \in Nat
  BY EventsTyped DEF ResumesTask
<1>. QED BY <1>1, <1>2 DEF TypeOK, ResumesTask, workerVars

LEMMA RestartTyped ==
    ASSUME TypeOK, OrchestratorRestarts
    PROVE  TypeOK'
<1>1. MapTypeOK'
  BY DEF OrchestratorRestarts, TypeOK, MapTypeOK
<1>2. PlaneTypeOK'
  BY IdleTyped DEF OrchestratorRestarts, TypeOK, PlaneTypeOK, Instruct
<1>. QED BY <1>1, <1>2 DEF OrchestratorRestarts, TypeOK, Happens

LEMMA InitTyped == Init => TypeOK
<1>. SUFFICES ASSUME Init PROVE TypeOK
  OBVIOUS
<1>1. MapTypeOK
  BY DEF Init, MapInit, MapTypeOK
<1>2. PlaneTypeOK
  BY IdleTyped DEF Init, PlaneInit, PlaneTypeOK, Instruct
<1>. QED BY <1>1, <1>2 DEF Init, TypeOK

LEMMA StutterTyped == TypeOK /\ UNCHANGED vars => TypeOK'
BY DEF TypeOK, MapTypeOK, PlaneTypeOK, vars, mapVars, planeVars, workerVars

LEMMA NextTyped == TypeOK /\ [Next]_vars => TypeOK'
<1>. SUFFICES ASSUME TypeOK, [Next]_vars PROVE TypeOK'
  OBVIOUS
<1>1. ASSUME NEW m \in Machine,
             \/ WorkerRegisters(m) \/ Subscribe(m) \/ ApplyAssignment(m)
             \/ LoseUpdate(m) \/ Heartbeat(m) \/ WorkerCrashes(m)
             \/ \E ok \in BOOLEAN : WorkerAcks(m, ok)
      PROVE  TypeOK'
  BY <1>1, RegisterTyped, SubscribeTyped, ApplyTyped, LoseTyped, HeartbeatTyped,
     CrashTyped, AcksTyped
<1>2. ASSUME NEW t \in Task,
             Rebalances(t) \/ ResumesTask(t) \/ TimesOut(t) \/ Aborts(t)
      PROVE  TypeOK'
  BY <1>2, RebalancesTyped, ResumesTyped, TimesOutTyped, AbortsTyped
<1>3. ASSUME NEW t \in Task, NEW m \in Machine,
             \/ DeclaresDead(t, m) \/ Updates(t, m)
             \/ \E s \in Shard : Shifts(t, s, m)
      PROVE  TypeOK'
  BY <1>3, DeclaresDeadTyped, UpdatesTyped, ShiftsTyped
<1>4. CASE OrchestratorRestarts
  BY <1>4, RestartTyped
<1>5. CASE UNCHANGED vars
  BY <1>5, StutterTyped
<1>. QED BY <1>1, <1>2, <1>3, <1>4, <1>5 DEF Next

(* Every reachable state has the types declared in TypeOK.                 *)
THEOREM TypeCorrect == Spec => []TypeOK
<1>. QED BY InitTyped, NextTyped, PTL DEF Spec

-------------------------------------------------------------------------------
(* The inductive invariant.                                                *)

(* Machines the orchestrator may still address: everyone an operation that *)
(* starts now could pick, and everyone a suspended one will come back to.  *)
(* It never addresses a process that does not stem from a registration     *)
(* with this orchestrator.                                                 *)
Addressed(m) ==
    \/ m \in members
    \/ \E s \in Shard : owner[s] = m
    \/ \E t \in Task : m \in tasks[t].todo

(* An addressed, listening worker is never ahead of the map's generation.  *)
NotAhead ==
    \A m \in Machine : Addressed(m) /\ m \in listening =>
        /\ wGen[m] <= generation
        /\ \A i \in DOMAIN inbox[m] : inbox[m][i].generation <= generation

ResponsesNotAhead ==
    \A m \in Machine : \A r \in response[m] : r.generation <= generation

OneResponse ==
    \A m \in Machine :
        /\ \A r1, r2 \in response[m] : r1 = r2
        /\ m \in listening => response[m] = {}

OnlyListenersQueue ==
    \A m \in Machine : m \notin listening => inbox[m] = << >>

LossesAreBehind ==
    \A m \in Machine :
        /\ Addressed(m) \/ m \notin listening => missed[m] <= generation
        /\ \A i \in DOMAIN inbox[m] : missed[m] < inbox[m][i].generation

(* What waits at a worker is ahead of it and in order.                     *)
InOrder ==
    \A m \in Machine : \A i \in DOMAIN inbox[m] :
        /\ wGen[m] < inbox[m][i].generation
        /\ \A j \in DOMAIN inbox[m] :
               i < j => inbox[m][i].generation < inbox[m][j].generation

FenceInv ==
    /\ NotAhead
    /\ ResponsesNotAhead
    /\ OneResponse
    /\ OnlyListenersQueue
    /\ LossesAreBehind
    /\ InOrder

-------------------------------------------------------------------------------
(* What an orchestrator step does to the map: nothing, or one assignment   *)
(* to a machine it addresses or knows.  known is the membership after it.  *)
MapEffect(known) ==
    /\ \/ UNCHANGED mapVars
       \/ \E m \in Machine : \E S \in SUBSET Shard :
              (Addressed(m) \/ m \in known) /\ Assign(m, S)
    /\ \A m \in Machine : Addressed(m)' => Addressed(m) \/ m \in known

LEMMA AssignAddresses ==
    ASSUME NEW m \in Machine, NEW S \in SUBSET Shard, Assign(m, S),
           NEW n \in Machine, NEW s \in Shard, owner'[s] = n
    PROVE  n = m \/ owner[s] = n
BY NobodyAssumption DEF Assign

LEMMA SuspendAddresses ==
    ASSUME TasksTyped, NEW t \in Task, NEW kind, NEW last,
           NEW todo \in SUBSET Machine, NEW target, Suspend(t, kind, last, todo, target),
           NEW n \in Machine, NEW u \in Task, n \in tasks'[u].todo
    PROVE  n \in todo \/ n \in tasks[u].todo
BY DEF TasksTyped, Suspend

LEMMA FinishAddresses ==
    ASSUME TasksTyped, NEW t \in Task, Finish(t),
           NEW n \in Machine, NEW u \in Task, n \in tasks'[u].todo
    PROVE  n \in tasks[u].todo
BY DEF TasksTyped, Finish, Idle

LEMMA LoopEffect ==
    ASSUME TypeOK, NEW t \in Task, NEW kind, NEW known \in SUBSET Machine,
           NEW todo \in SUBSET Machine, NEW target \in [Machine -> SUBSET Shard],
           \A m \in todo : Addressed(m) \/ m \in known,
           members' \subseteq members \cup known,
           LoopAssign(t, kind, todo, target)
    PROVE  MapEffect(known)
<1>1. PICK m \in Due(todo, target) :
          \E passed \in SUBSET (todo \ Due(todo, target)) :
              /\ Assign(m, target[m])
              /\ Suspend(t, kind, m, todo \ ({m} \cup passed), target)
  BY DEF LoopAssign
<1>2. m \in todo /\ m \in Machine /\ target[m] \in SUBSET Shard
  BY DEF Due
<1>3. PICK passed : Suspend(t, kind, m, todo \ ({m} \cup passed), target)
  BY <1>1
<1>4. ASSUME NEW n \in Machine, Addressed(n)'
      PROVE  Addressed(n) \/ n \in known
  <2>1. CASE n \in members'
    BY <2>1 DEF Addressed
  <2>2. CASE \E s \in Shard : owner'[s] = n
    BY <1>1, <1>2, <2>2, AssignAddresses DEF Addressed
  <2>3. CASE \E u \in Task : n \in tasks'[u].todo
    <3>1. TasksTyped
      BY DEF TypeOK, PlaneTypeOK, TasksTyped
    <3>2. todo \ ({m} \cup passed) \in SUBSET Machine
      OBVIOUS
    <3>. QED BY <1>3, <2>3, <3>1, <3>2, SuspendAddresses DEF Addressed
  <2>. QED BY <1>4, <2>1, <2>2, <2>3 DEF Addressed
<1>5. \E x \in Machine : \E S \in SUBSET Shard :
          (Addressed(x) \/ x \in known) /\ Assign(x, S)
  BY <1>1, <1>2
<1>. QED BY <1>4, <1>5 DEF MapEffect

LEMMA StartFillEffect ==
    ASSUME TypeOK, NEW t \in Task, NEW kind, NEW known \in SUBSET Machine,
           members' \subseteq members \cup known,
           StartFill(t, kind, known)
    PROVE  MapEffect(known)
<1>1. Eligible(known) \in SUBSET Machine /\ Eligible(known) \subseteq known
  BY DEF Eligible
<1>2. PICK target \in FillPlan(Eligible(known)) :
          LoopAssign(t, kind, Eligible(known), target)
  BY DEF StartFill
<1>3. target \in [Machine -> SUBSET Shard]
  BY <1>1, FillPlanTyped
<1>. QED BY <1>1, <1>2, <1>3, LoopEffect

LEMMA StartMovesEffect ==
    ASSUME TypeOK, NEW t \in Task, NEW known \in SUBSET Machine,
           members' \subseteq members \cup known,
           StartMoves(t, known)
    PROVE  MapEffect(known)
<1>1. PICK place \in Proposal(known) :
          LET target == [m \in Machine |-> {s \in Shard : place[s] = m}]
          IN  LoopAssign(t, "moves",
                         Eligible(known) \cup {m \in Machine : target[m] # {}},
                         target)
  BY DEF StartMoves
<1>. DEFINE target == [m \in Machine |-> {s \in Shard : place[s] = m}]
            todo == Eligible(known) \cup {m \in Machine : target[m] # {}}
<1>2. LoopAssign(t, "moves", todo, target)
  BY <1>1
<1>3. target \in [Machine -> SUBSET Shard]
  OBVIOUS
<1>4. todo \in SUBSET Machine
  BY DEF Eligible
<1>5. \A m \in todo : Addressed(m) \/ m \in known
  <2>1. \A s \in Shard : place[s] # owner[s] => place[s] \in known
    BY DEF Proposal, Eligible
  <2>. QED BY <2>1 DEF Addressed, Eligible
<1>. HIDE DEF target, todo
<1>. QED BY <1>2, <1>3, <1>4, <1>5, LoopEffect

LEMMA IdleStepEffect ==
    ASSUME TypeOK, NEW t \in Task, NEW known \in SUBSET Machine,
           members' \subseteq members \cup known,
           Finish(t), UNCHANGED mapVars
    PROVE  MapEffect(known)
<1>1. TasksTyped
  BY DEF TypeOK, PlaneTypeOK, TasksTyped
<1>2. ASSUME NEW n \in Machine, Addressed(n)'
      PROVE  Addressed(n) \/ n \in known
  BY <1>1, <1>2, FinishAddresses DEF Addressed, mapVars
<1>. QED BY <1>2 DEF MapEffect

LEMMA AfterFillEffect ==
    ASSUME TypeOK, NEW t \in Task, NEW known \in SUBSET Machine,
           members' \subseteq members \cup known,
           AfterFill(t, known)
    PROVE  MapEffect(known)
BY IdleStepEffect, StartMovesEffect DEF AfterFill

LEMMA StartCycleEffect ==
    ASSUME TypeOK, NEW t \in Task, NEW known \in SUBSET Machine,
           members' \subseteq members \cup known,
           StartCycle(t, known)
    PROVE  MapEffect(known)
BY StartFillEffect, AfterFillEffect DEF StartCycle

LEMMA PlainSuspendEffect ==
    ASSUME TypeOK, NEW t \in Task, NEW kind, NEW last,
           Suspend(t, kind, last, {}, NoTarget) \/ Finish(t),
           members' \subseteq members,
           \/ UNCHANGED mapVars
           \/ \E m \in Machine : \E S \in SUBSET Shard : Addressed(m) /\ Assign(m, S)
    PROVE  MapEffect(members)
<1>1. TasksTyped /\ {} \in SUBSET Machine
  BY DEF TypeOK, PlaneTypeOK, TasksTyped
<1>2. ASSUME NEW n \in Machine, Addressed(n)'
      PROVE  Addressed(n)
  <2>1. CASE n \in members'
    BY <2>1 DEF Addressed
  <2>2. CASE \E s \in Shard : owner'[s] = n
    BY <2>2, AssignAddresses DEF Addressed, mapVars
  <2>3. CASE \E u \in Task : n \in tasks'[u].todo
    BY <1>1, <2>3, SuspendAddresses, FinishAddresses DEF Addressed
  <2>. QED BY <1>2, <2>1, <2>2, <2>3 DEF Addressed
<1>. QED BY <1>2 DEF MapEffect

LEMMA RegisterEffect ==
    ASSUME TypeOK, NEW m \in Machine, WorkerRegisters(m)
    PROVE  MapEffect(members \cup {m})
<1>1. members' = members \cup {m} /\ members' \in SUBSET Machine
  BY DEF WorkerRegisters, Register, TypeOK, PlaneTypeOK
<1>2. CASE UNCHANGED <<mapVars, tasks>>
  BY <1>1, <1>2 DEF MapEffect, Addressed, mapVars
<1>3. CASE \E t \in Task : StartFill(t, "join", members')
  BY <1>1, <1>3, StartFillEffect
<1>. QED BY <1>2, <1>3 DEF WorkerRegisters, Register

LEMMA ResumeEffect ==
    ASSUME TypeOK, NEW t \in Task, Resume(t)
    PROVE  MapEffect(members)
<1>0. members \in SUBSET Machine
  BY DEF TypeOK, PlaneTypeOK
<1>1. CASE ResumeLoop(t)
  <2>1. members' \subseteq members \cup members
    BY <1>1 DEF ResumeLoop
  <2>2. CASE LoopAssign(t, tasks[t].kind, tasks[t].todo, tasks[t].target)
    <3>1. \A m \in tasks[t].todo : Addressed(m) \/ m \in members
      BY DEF Addressed
    <3>. QED BY <1>0, <2>1, <2>2, <3>1, TaskFieldsTyped, LoopEffect
  <2>3. CASE AfterFill(t, members)
    BY <1>0, <2>1, <2>3, AfterFillEffect
  <2>4. CASE Finish(t) /\ UNCHANGED mapVars
    BY <1>0, <2>1, <2>4, IdleStepEffect
  <2>. QED BY <1>1, <2>2, <2>3, <2>4 DEF ResumeLoop
<1>2. CASE ResumeShift(t)
  <2>1. members' \subseteq members
    BY <1>2 DEF ResumeShift
  <2>2. CASE Finish(t) /\ UNCHANGED mapVars
    BY <2>1, <2>2, PlainSuspendEffect
  <2>3. CASE \E from \in tasks[t].todo : /\ Assign(from, tasks[t].target[from])
                                         /\ Suspend(t, "shift", Nobody, {}, NoTarget)
    <3>1. PICK from \in tasks[t].todo : /\ Assign(from, tasks[t].target[from])
                                        /\ Suspend(t, "shift", Nobody, {}, NoTarget)
      BY <2>3
    <3>2. from \in Machine /\ tasks[t].target[from] \in SUBSET Shard
      BY TaskFieldsTyped
    <3>3. Addressed(from)
      BY DEF Addressed
    <3>. QED BY <2>1, <3>1, <3>2, <3>3, PlainSuspendEffect
  <2>. QED BY <1>2, <2>2, <2>3 DEF ResumeShift
<1>3. CASE ResumeRecover(t)
  <2>1. members' \subseteq members /\ members' \in SUBSET Machine
    BY <1>0, <1>3 DEF ResumeRecover
  <2>2. MapEffect(members')
    BY <1>3, <2>1, StartCycleEffect DEF ResumeRecover
  <2>. QED BY <2>1, <2>2 DEF MapEffect
<1>4. CASE ResumeDrain(t)
  <2>1. \E kind \in {"ack", "poll"} :
            Suspend(t, kind, tasks[t].last, {}, NoTarget) \/ Finish(t)
    BY <1>4 DEF ResumeDrain, SendInstruct
  <2>2. members' \subseteq members /\ UNCHANGED mapVars
    BY <1>4 DEF ResumeDrain
  <2>. QED BY <2>1, <2>2, PlainSuspendEffect
<1>. QED BY <1>1, <1>2, <1>3, <1>4 DEF Resume

LEMMA ShiftEffect ==
    ASSUME TypeOK, NEW t \in Task, NEW s \in Shard, NEW m \in Machine,
           ShardShift(t, s, m)
    PROVE  MapEffect(members)
<1>. DEFINE from == {owner[s]} \ {Nobody}
            target == [x \in Machine |-> IF x \in from THEN ShardsFor(x) \ {s} ELSE {}]
<1>1. Suspend(t, "shift", Nobody, from, target)
  BY DEF ShardShift
<1>2. from \in SUBSET Machine /\ \A n \in from : Addressed(n)
  BY DEF TypeOK, MapTypeOK, Addressed
<1>3. Addressed(m) /\ ShardsFor(m) \cup {s} \in SUBSET Shard
  BY ShardsForTyped DEF ShardShift, Addressed
<1>4. Assign(m, ShardsFor(m) \cup {s}) /\ members' = members
  BY DEF ShardShift
<1>5. TasksTyped
  BY DEF TypeOK, PlaneTypeOK, TasksTyped
<1>. HIDE DEF from, target
<1>6. ASSUME NEW n \in Machine, Addressed(n)'
      PROVE  Addressed(n)
  <2>1. CASE n \in members'
    BY <1>4, <2>1 DEF Addressed
  <2>2. CASE \E x \in Shard : owner'[x] = n
    BY <1>3, <1>4, <2>2, AssignAddresses DEF Addressed
  <2>3. CASE \E u \in Task : n \in tasks'[u].todo
    BY <1>1, <1>2, <1>5, <2>3, SuspendAddresses DEF Addressed
  <2>. QED BY <1>6, <2>1, <2>2, <2>3 DEF Addressed
<1>. QED BY <1>3, <1>4, <1>6 DEF MapEffect

LEMMA DeclareDeadEffect ==
    ASSUME TypeOK, NEW t \in Task, NEW m \in Machine, DeclareDead(t, m)
    PROVE  MapEffect(members)
<1>1. Addressed(m) /\ members' \subseteq members
  BY DEF DeclareDead, Addressed
<1>2. UNCHANGED mapVars \/ Assign(m, {})
  BY DEF DeclareDead, ClearMachine
<1>. QED BY <1>1, <1>2, PlainSuspendEffect DEF DeclareDead

LEMMA StartUpdateEffect ==
    ASSUME TypeOK, NEW t \in Task, NEW m \in Machine, StartUpdate(t, m)
    PROVE  MapEffect(members)
<1>1. Addressed(m) /\ members' \subseteq members
  BY DEF StartUpdate, Addressed
<1>2. Assign(m, {}) /\ Suspend(t, "drain", m, {}, NoTarget)
  BY DEF StartUpdate
<1>. QED BY <1>1, <1>2, PlainSuspendEffect

(* Every step of the orchestrator alone.                                   *)
OrchestratorStep ==
    \E t \in Task :
        \/ Rebalances(t) \/ ResumesTask(t) \/ TimesOut(t) \/ Aborts(t)
        \/ \E m \in Machine :
               \/ DeclaresDead(t, m) \/ Updates(t, m)
               \/ \E s \in Shard : Shifts(t, s, m)

LEMMA OrchestratorEffect ==
    ASSUME TypeOK, OrchestratorStep
    PROVE  MapEffect(members) /\ UNCHANGED workerVars
<1>0. members \in SUBSET Machine
  BY DEF TypeOK, PlaneTypeOK
<1>1. ASSUME NEW t \in Task, Rebalances(t)
      PROVE  MapEffect(members) /\ UNCHANGED workerVars
  BY <1>0, <1>1, StartCycleEffect DEF Rebalances, RebalanceTimer
<1>2. ASSUME NEW t \in Task, ResumesTask(t)
      PROVE  MapEffect(members) /\ UNCHANGED workerVars
  BY <1>2, ResumeEffect DEF ResumesTask
<1>3. ASSUME NEW t \in Task, TimesOut(t)
      PROVE  MapEffect(members) /\ UNCHANGED workerVars
  BY <1>0, <1>3, IdleStepEffect DEF TimesOut, AckTimeout
<1>4. ASSUME NEW t \in Task, Aborts(t)
      PROVE  MapEffect(members) /\ UNCHANGED workerVars
  BY <1>0, <1>4, IdleStepEffect DEF Aborts, Abort
<1>5. ASSUME NEW t \in Task, NEW m \in Machine,
             \/ DeclaresDead(t, m) \/ Updates(t, m)
             \/ \E s \in Shard : Shifts(t, s, m)
      PROVE  MapEffect(members) /\ UNCHANGED workerVars
  BY <1>5, DeclareDeadEffect, StartUpdateEffect, ShiftEffect
  DEF DeclaresDead, Updates, Shifts
<1>. QED BY <1>1, <1>2, <1>3, <1>4, <1>5 DEF OrchestratorStep

-------------------------------------------------------------------------------
(* The fence invariant is inductive.                                       *)

(* The part of it an assignment can disturb.                               *)
QueueInv == NotAhead /\ OnlyListenersQueue /\ LossesAreBehind /\ InOrder

LEMMA QueuedTyped ==
    ASSUME TypeOK, NEW n \in Machine, NEW i \in DOMAIN inbox[n]
    PROVE  inbox[n][i].generation \in Nat
<1>1. inbox[n] \in Seq(Assignment)
  BY DEF TypeOK, MapTypeOK
<1>2. inbox[n][i] \in Assignment
  BY <1>1
<1>. QED BY <1>2 DEF Assignment

LEMMA AssignFence ==
    ASSUME TypeOK, FenceInv, NEW m \in Machine, NEW S \in SUBSET Shard,
           Addressed(m) \/ m \notin listening,
           Assign(m, S), UNCHANGED wGen,
           \A n \in Machine : Addressed(n)' => Addressed(n) \/ n \notin listening
    PROVE  QueueInv' /\ generation <= generation'
<1>. DEFINE msg == [generation |-> generation + 1, shards |-> S]
<1>0. /\ generation \in Nat /\ generation' = generation + 1
      /\ listening' = listening
      /\ msg \in Assignment
  BY DEF TypeOK, MapTypeOK, Assign, Assignment
<1>1. ASSUME NEW n \in Machine, n # m \/ m \notin listening
      PROVE  inbox'[n] = inbox[n]
  BY <1>1 DEF Assign, Publish, TypeOK, MapTypeOK
<1>2. ASSUME m \in listening
      PROVE  inbox'[m] = Append(inbox[m], msg)
  BY <1>2 DEF Assign, Publish, TypeOK, MapTypeOK
<1>3. \A n \in Machine : inbox[n] \in Seq(Assignment)
  BY DEF TypeOK, MapTypeOK
<1>4. ASSUME m \in listening, NEW i \in DOMAIN inbox'[m]
      PROVE  \/ i \in DOMAIN inbox[m] /\ inbox'[m][i] = inbox[m][i]
             \/ i = Len(inbox[m]) + 1 /\ inbox'[m][i] = msg
  BY <1>0, <1>2, <1>3, <1>4
<1>5. \A n \in Machine : \A i \in DOMAIN inbox[n] : inbox[n][i].generation \in Nat
  BY QueuedTyped
<1>6. NotAhead'
  <2>1. SUFFICES ASSUME NEW n \in Machine, Addressed(n)', n \in listening
                 PROVE  /\ wGen[n] <= generation + 1
                        /\ \A i \in DOMAIN inbox'[n] :
                               inbox'[n][i].generation <= generation + 1
    BY <1>0 DEF NotAhead
  <2>2. wGen[n] <= generation /\ wGen[n] \in Nat
    BY <2>1 DEF FenceInv, NotAhead, TypeOK
  <2>3. \A i \in DOMAIN inbox[n] : inbox[n][i].generation <= generation
    BY <2>1 DEF FenceInv, NotAhead
  <2>4. CASE n = m
    BY <1>0, <1>4, <1>5, <2>1, <2>2, <2>3, <2>4
  <2>5. CASE n # m
    BY <1>0, <1>1, <1>5, <2>1, <2>2, <2>3, <2>5
  <2>. QED BY <2>4, <2>5
<1>7. OnlyListenersQueue'
  BY <1>0, <1>1 DEF FenceInv, OnlyListenersQueue
<1>8. LossesAreBehind'
  <2>1. SUFFICES ASSUME NEW n \in Machine
                 PROVE  /\ Addressed(n)' \/ n \notin listening => missed'[n] <= generation + 1
                        /\ \A i \in DOMAIN inbox'[n] : missed'[n] < inbox'[n][i].generation
    BY <1>0 DEF LossesAreBehind
  <2>2. missed[n] \in Nat
    BY DEF TypeOK, MapTypeOK
  <2>3. Addressed(n)' \/ n \notin listening => missed[n] <= generation
    BY DEF FenceInv, LossesAreBehind
  <2>4. \A i \in DOMAIN inbox[n] : missed[n] < inbox[n][i].generation
    BY DEF FenceInv, LossesAreBehind
  <2>5. CASE n # m
    <3>1. missed'[n] = missed[n]
      BY <2>5 DEF Assign, Publish, TypeOK, MapTypeOK
    <3>. QED BY <1>0, <1>1, <2>2, <2>3, <2>4, <2>5, <3>1
  <2>6. CASE n = m /\ m \in listening
    <3>1. missed'[n] = missed[n]
      BY <2>6 DEF Assign, Publish
    <3>2. missed[n] <= generation
      BY <2>6 DEF FenceInv, LossesAreBehind
    <3>. QED BY <1>0, <1>4, <1>5, <2>2, <2>4, <2>6, <3>1, <3>2
  <2>7. CASE n = m /\ m \notin listening
    <3>1. missed'[n] = generation + 1
      BY <2>7 DEF Assign, Publish, TypeOK, MapTypeOK
    <3>2. inbox'[n] = << >>
      BY <1>1, <2>7 DEF FenceInv, OnlyListenersQueue
    <3>. QED BY <1>0, <3>1, <3>2
  <2>. QED BY <2>5, <2>6, <2>7
<1>9. InOrder'
  <2>1. SUFFICES ASSUME NEW n \in Machine, NEW i \in DOMAIN inbox'[n]
                 PROVE  /\ wGen[n] < inbox'[n][i].generation
                        /\ \A j \in DOMAIN inbox'[n] :
                               i < j => inbox'[n][i].generation < inbox'[n][j].generation
    BY DEF InOrder
  <2>2. \A k \in DOMAIN inbox[n] :
            /\ wGen[n] < inbox[n][k].generation
            /\ \A j \in DOMAIN inbox[n] :
                   k < j => inbox[n][k].generation < inbox[n][j].generation
    BY DEF FenceInv, InOrder
  <2>3. CASE n # m \/ m \notin listening
    BY <1>1, <2>1, <2>2, <2>3
  <2>4. CASE n = m /\ m \in listening
    <3>1. /\ wGen[m] <= generation /\ wGen[m] \in Nat
          /\ \A j \in DOMAIN inbox[m] : inbox[m][j].generation <= generation
      BY <2>4 DEF FenceInv, NotAhead, TypeOK
    <3>2. \A k \in DOMAIN inbox[m] : k \in Nat /\ k < Len(inbox[m]) + 1
      BY <1>3
    <3>. QED BY <1>0, <1>4, <1>5, <2>1, <2>2, <2>4, <3>1, <3>2
  <2>. QED BY <2>3, <2>4
<1>. QED BY <1>0, <1>6, <1>7, <1>8, <1>9 DEF QueueInv

LEMMA MapUnchangedFence ==
    ASSUME TypeOK, FenceInv, UNCHANGED <<mapVars, wGen>>,
           \A n \in Machine : Addressed(n)' => Addressed(n) \/ n \notin listening
    PROVE  QueueInv' /\ generation <= generation'
<1>1. UNCHANGED <<generation, inbox, listening, missed, wGen>> /\ generation \in Nat
  BY DEF mapVars, TypeOK, MapTypeOK
<1>2. NotAhead'
  BY <1>1 DEF FenceInv, NotAhead
<1>3. OnlyListenersQueue'
  BY <1>1 DEF FenceInv, OnlyListenersQueue
<1>4. LossesAreBehind'
  BY <1>1 DEF FenceInv, LossesAreBehind
<1>5. InOrder'
  BY <1>1 DEF FenceInv, InOrder
<1>. QED BY <1>1, <1>2, <1>3, <1>4, <1>5 DEF QueueInv

LEMMA EffectFence ==
    ASSUME TypeOK, FenceInv, NEW known \in SUBSET Machine,
           \A n \in known : Addressed(n) \/ n \notin listening,
           MapEffect(known), UNCHANGED wGen
    PROVE  QueueInv' /\ generation <= generation'
<1>1. \A n \in Machine : Addressed(n)' => Addressed(n) \/ n \notin listening
  BY DEF MapEffect
<1>2. CASE UNCHANGED mapVars
  BY <1>1, <1>2, MapUnchangedFence
<1>3. CASE \E m \in Machine : \E S \in SUBSET Shard :
              (Addressed(m) \/ m \in known) /\ Assign(m, S)
  BY <1>1, <1>3, AssignFence
<1>. QED BY <1>2, <1>3 DEF MapEffect

LEMMA EffectListening ==
    ASSUME NEW known, MapEffect(known)
    PROVE  UNCHANGED listening
BY DEF MapEffect, mapVars, Assign

LEMMA OrchestratorFence ==
    ASSUME TypeOK, FenceInv, OrchestratorStep
    PROVE  FenceInv'
<1>1. MapEffect(members) /\ UNCHANGED workerVars /\ members \in SUBSET Machine
  BY OrchestratorEffect DEF TypeOK, PlaneTypeOK
<1>2. QueueInv' /\ generation <= generation'
  <2>1. \A n \in members : Addressed(n) \/ n \notin listening
    BY DEF Addressed
  <2>2. UNCHANGED wGen
    BY <1>1 DEF workerVars
  <2>. QED BY <1>1, <2>1, <2>2, EffectFence
<1>3. UNCHANGED <<response, listening>>
  BY <1>1, EffectListening DEF workerVars
<1>4. ResponsesNotAhead'
  <2>1. SUFFICES ASSUME NEW m \in Machine, NEW r \in response[m]
                 PROVE  r.generation <= generation'
    BY <1>3 DEF ResponsesNotAhead
  <2>2. r.generation <= generation /\ r.generation \in Nat
    BY DEF FenceInv, ResponsesNotAhead, TypeOK, Assignment
  <2>3. generation \in Nat /\ generation' \in Nat
    BY NextTyped DEF TypeOK, MapTypeOK, OrchestratorStep, Next
  <2>. QED BY <1>2, <2>2, <2>3
<1>5. OneResponse'
  BY <1>3 DEF FenceInv, OneResponse
<1>. QED BY <1>2, <1>4, <1>5 DEF FenceInv, QueueInv

LEMMA RegisterFence ==
    ASSUME TypeOK, FenceInv, NEW m \in Machine, WorkerRegisters(m)
    PROVE  FenceInv'
<1>1. m \notin listening /\ UNCHANGED wGen
  BY DEF WorkerRegisters, Down
<1>2. members \cup {m} \in SUBSET Machine
  BY DEF TypeOK, PlaneTypeOK
<1>3. MapEffect(members \cup {m})
  BY RegisterEffect
<1>4. QueueInv' /\ generation <= generation'
  <2>1. \A n \in members \cup {m} : Addressed(n) \/ n \notin listening
    BY <1>1 DEF Addressed
  <2>. QED BY <1>1, <1>2, <1>3, <2>1, EffectFence
<1>5. generation \in Nat /\ generation' \in Nat
  BY RegisterTyped DEF TypeOK, MapTypeOK
<1>6. \A n \in Machine : response'[n] = IF n = m THEN {Response(m)} ELSE response[n]
  BY DEF WorkerRegisters, TypeOK
<1>7. ResponsesNotAhead'
  <2>1. SUFFICES ASSUME NEW n \in Machine, NEW r \in response'[n]
                 PROVE  r.generation <= generation'
    BY DEF ResponsesNotAhead
  <2>2. CASE n = m
    <3>1. r = Response(m)
      BY <1>6, <2>1, <2>2
    <3>. QED BY <1>5, <3>1 DEF Response
  <2>3. CASE n # m
    <3>1. r.generation <= generation /\ r.generation \in Nat
      BY <1>6, <2>1, <2>3 DEF FenceInv, ResponsesNotAhead, TypeOK, Assignment
    <3>. QED BY <1>4, <1>5, <3>1
  <2>. QED BY <2>2, <2>3
<1>8. OneResponse'
  <2>1. UNCHANGED listening
    BY <1>3, EffectListening
  <2>. QED BY <1>1, <1>6, <2>1 DEF FenceInv, OneResponse
<1>. QED BY <1>4, <1>7, <1>8 DEF FenceInv, QueueInv

LEMMA SubscribeFence ==
    ASSUME TypeOK, FenceInv, NEW m \in Machine, Subscribe(m)
    PROVE  FenceInv'
<1>1. PICK r \in response[m] : wGen' = [wGen EXCEPT ![m] = r.generation]
  BY DEF Subscribe
<1>2. /\ m \notin listening /\ inbox[m] = << >>
      /\ r.generation <= generation
      /\ missed[m] <= generation
  BY <1>1 DEF FenceInv, OneResponse, OnlyListenersQueue, ResponsesNotAhead, LossesAreBehind
<1>3. /\ UNCHANGED <<owner, generation, inbox, missed, members, tasks>>
      /\ listening' = listening \cup {m}
      /\ \A n \in Machine : Addressed(n)' <=> Addressed(n)
  BY DEF Subscribe, planeVars, Addressed
<1>4. \A n \in Machine : /\ n # m => wGen'[n] = wGen[n] /\ response'[n] = response[n]
                         /\ n = m => wGen'[n] = r.generation /\ response'[n] = {}
  BY <1>1 DEF Subscribe, TypeOK
<1>5. NotAhead'
  BY <1>2, <1>3, <1>4 DEF FenceInv, NotAhead
<1>6. ResponsesNotAhead' /\ OneResponse'
  BY <1>3, <1>4 DEF FenceInv, ResponsesNotAhead, OneResponse
<1>7. OnlyListenersQueue' /\ LossesAreBehind'
  BY <1>2, <1>3 DEF FenceInv, OnlyListenersQueue, LossesAreBehind
<1>8. InOrder'
  BY <1>2, <1>3, <1>4 DEF FenceInv, InOrder
<1>. QED BY <1>5, <1>6, <1>7, <1>8 DEF FenceInv

(* The queue behind its head.                                              *)
LEMMA TailIndex ==
    ASSUME TypeOK, NEW m \in Machine, inbox[m] # << >>
    PROVE  /\ 1 \in DOMAIN inbox[m] /\ Head(inbox[m]) = inbox[m][1]
           /\ Head(inbox[m]) \in Assignment
           /\ \A i \in DOMAIN Tail(inbox[m]) :
                  /\ i \in Nat /\ 1 < i + 1
                  /\ i + 1 \in DOMAIN inbox[m]
                  /\ Tail(inbox[m])[i] = inbox[m][i + 1]
<1>1. inbox[m] \in Seq(Assignment)
  BY DEF TypeOK, MapTypeOK
<1>2. Len(inbox[m]) \in Nat /\ Len(inbox[m]) >= 1 /\ DOMAIN inbox[m] = 1 .. Len(inbox[m])
  BY <1>1
<1>3. DOMAIN Tail(inbox[m]) = 1 .. (Len(inbox[m]) - 1)
  BY <1>1
<1>4. \A i \in 1 .. (Len(inbox[m]) - 1) : Tail(inbox[m])[i] = inbox[m][i + 1]
  BY <1>1
<1>5. Head(inbox[m]) = inbox[m][1] /\ Head(inbox[m]) \in Assignment
  BY <1>1
<1>6. ASSUME NEW i \in DOMAIN Tail(inbox[m])
      PROVE  i \in Nat /\ 1 < i + 1 /\ i + 1 \in DOMAIN inbox[m]
  BY <1>2, <1>3
<1>. QED BY <1>2, <1>3, <1>4, <1>5, <1>6

(* Taking the head off keeps what the invariant says of the queue, for a   *)
(* reader that is now at the head's generation or where it was.            *)
LEMMA TailInOrder ==
    ASSUME TypeOK, FenceInv, NEW m \in Machine, inbox[m] # << >>,
           inbox' = [inbox EXCEPT ![m] = Tail(@)],
           \A n \in Machine : n # m => wGen'[n] = wGen[n],
           wGen'[m] \in {wGen[m], Head(inbox[m]).generation}
    PROVE  InOrder'
<1>1. SUFFICES ASSUME NEW n \in Machine, NEW i \in DOMAIN inbox'[n]
               PROVE  /\ wGen'[n] < inbox'[n][i].generation
                      /\ \A j \in DOMAIN inbox'[n] :
                             i < j => inbox'[n][i].generation < inbox'[n][j].generation
  BY DEF InOrder
<1>2. \A k \in DOMAIN inbox[n] :
          /\ wGen[n] < inbox[n][k].generation
          /\ \A j \in DOMAIN inbox[n] :
                 k < j => inbox[n][k].generation < inbox[n][j].generation
  BY DEF FenceInv, InOrder
<1>3. CASE n # m
  BY <1>1, <1>2, <1>3 DEF TypeOK, MapTypeOK
<1>4. CASE n = m
  <2>1. inbox'[n] = Tail(inbox[n])
    BY <1>4 DEF TypeOK, MapTypeOK
  <2>2. /\ 1 \in DOMAIN inbox[n] /\ Head(inbox[n]) = inbox[n][1]
        /\ \A k \in DOMAIN Tail(inbox[n]) :
               /\ k \in Nat /\ 1 < k + 1
               /\ k + 1 \in DOMAIN inbox[n]
               /\ Tail(inbox[n])[k] = inbox[n][k + 1]
    BY <1>4, TailIndex
  <2>3. wGen'[n] < inbox'[n][i].generation
    <3>1. inbox[n][1].generation < inbox[n][i + 1].generation
      BY <1>1, <1>2, <2>1, <2>2
    <3>2. wGen[n] < inbox[n][i + 1].generation
      BY <1>1, <1>2, <2>1, <2>2
    <3>. QED BY <1>1, <1>4, <2>1, <2>2, <3>1, <3>2
  <2>4. ASSUME NEW j \in DOMAIN inbox'[n], i < j
        PROVE  inbox'[n][i].generation < inbox'[n][j].generation
    <3>1. i + 1 < j + 1
      BY <1>1, <2>1, <2>2, <2>4
    <3>. QED BY <1>1, <1>2, <2>1, <2>2, <2>4, <3>1
  <2>. QED BY <2>3, <2>4
<1>. QED BY <1>3, <1>4

LEMMA TailNotAhead ==
    ASSUME TypeOK, FenceInv, NEW m \in Machine, inbox[m] # << >>,
           inbox' = [inbox EXCEPT ![m] = Tail(@)],
           \A n \in Machine : n # m => wGen'[n] = wGen[n],
           wGen'[m] \in {wGen[m], Head(inbox[m]).generation},
           UNCHANGED <<generation, listening>>,
           \A n \in Machine : Addressed(n)' <=> Addressed(n)
    PROVE  NotAhead'
<1>1. SUFFICES ASSUME NEW n \in Machine, Addressed(n), n \in listening
               PROVE  /\ wGen'[n] <= generation
                      /\ \A i \in DOMAIN inbox'[n] : inbox'[n][i].generation <= generation
  BY DEF NotAhead
<1>2. /\ wGen[n] <= generation
      /\ \A i \in DOMAIN inbox[n] : inbox[n][i].generation <= generation
  BY <1>1 DEF FenceInv, NotAhead
<1>3. CASE n # m
  BY <1>2, <1>3 DEF TypeOK, MapTypeOK
<1>4. CASE n = m
  <2>1. inbox'[n] = Tail(inbox[n])
    BY <1>4 DEF TypeOK, MapTypeOK
  <2>. QED BY <1>2, <1>4, <2>1, TailIndex
<1>. QED BY <1>3, <1>4

LEMMA ApplyTakesHead ==
    ASSUME TypeOK, FenceInv, NEW m \in Machine, ApplyAssignment(m)
    PROVE  /\ wGen' = [wGen EXCEPT ![m] = Head(inbox[m]).generation]
           /\ wShards' = [wShards EXCEPT ![m] = Head(inbox[m]).shards]
<1>1. wGen[m] < Head(inbox[m]).generation
  BY TailIndex DEF ApplyAssignment, FenceInv, InOrder
<1>2. Head(inbox[m]).generation \in Nat /\ wGen[m] \in Nat
  BY TailIndex DEF ApplyAssignment, TypeOK, Assignment
<1>3. ~Stale(m, Head(inbox[m])) /\ ~Known(m, Head(inbox[m]))
  BY <1>1, <1>2 DEF Stale, Known
<1>. QED BY <1>3 DEF ApplyAssignment

LEMMA ApplyFence ==
    ASSUME TypeOK, FenceInv, NEW m \in Machine, ApplyAssignment(m)
    PROVE  FenceInv'
<1>1. inbox[m] # << >> /\ inbox' = [inbox EXCEPT ![m] = Tail(@)]
  BY DEF ApplyAssignment
<1>2. /\ UNCHANGED <<owner, generation, listening, missed, response, members, tasks>>
      /\ \A n \in Machine : Addressed(n)' <=> Addressed(n)
  BY DEF ApplyAssignment, planeVars, Addressed
<1>3. /\ \A n \in Machine : n # m => wGen'[n] = wGen[n]
      /\ wGen'[m] = Head(inbox[m]).generation
  BY ApplyTakesHead DEF TypeOK
<1>4. NotAhead' /\ InOrder'
  BY <1>1, <1>2, <1>3, TailNotAhead, TailInOrder
<1>5. ResponsesNotAhead' /\ OneResponse'
  BY <1>2 DEF FenceInv, ResponsesNotAhead, OneResponse
<1>6. OnlyListenersQueue'
  BY <1>1, <1>2 DEF FenceInv, OnlyListenersQueue, TypeOK, MapTypeOK
<1>7. LossesAreBehind'
  <2>1. SUFFICES ASSUME NEW n \in Machine
                 PROVE  \A i \in DOMAIN inbox'[n] : missed[n] < inbox'[n][i].generation
    BY <1>2 DEF FenceInv, LossesAreBehind
  <2>2. \A i \in DOMAIN inbox[n] : missed[n] < inbox[n][i].generation
    BY DEF FenceInv, LossesAreBehind
  <2>3. inbox'[n] = IF n = m THEN Tail(inbox[n]) ELSE inbox[n]
    BY <1>1 DEF TypeOK, MapTypeOK
  <2>. QED BY <1>1, <2>2, <2>3, TailIndex
<1>. QED BY <1>4, <1>5, <1>6, <1>7 DEF FenceInv

LEMMA LoseFence ==
    ASSUME TypeOK, FenceInv, NEW m \in Machine, LoseUpdate(m)
    PROVE  FenceInv'
<1>1. inbox[m] # << >> /\ inbox' = [inbox EXCEPT ![m] = Tail(@)]
  BY DEF LoseUpdate
<1>2. /\ UNCHANGED <<owner, generation, listening, response, members, tasks, wGen>>
      /\ \A n \in Machine : Addressed(n)' <=> Addressed(n)
  BY DEF LoseUpdate, planeVars, workerVars, Addressed
<1>3. m \in listening
  BY <1>1 DEF FenceInv, OnlyListenersQueue
<1>4. NotAhead' /\ InOrder'
  BY <1>1, <1>2, TailNotAhead, TailInOrder
<1>5. ResponsesNotAhead' /\ OneResponse'
  BY <1>2 DEF FenceInv, ResponsesNotAhead, OneResponse
<1>6. OnlyListenersQueue'
  BY <1>1, <1>2, <1>3 DEF FenceInv, OnlyListenersQueue, TypeOK, MapTypeOK
<1>7. LossesAreBehind'
  <2>1. SUFFICES ASSUME NEW n \in Machine
                 PROVE  /\ Addressed(n) \/ n \notin listening => missed'[n] <= generation
                        /\ \A i \in DOMAIN inbox'[n] : missed'[n] < inbox'[n][i].generation
    BY <1>2 DEF LossesAreBehind
  <2>2. CASE n # m
    BY <1>1, <2>2 DEF LoseUpdate, TypeOK, MapTypeOK, FenceInv, LossesAreBehind
  <2>3. CASE n = m
    <3>1. /\ missed'[m] = inbox[m][1].generation /\ 1 \in DOMAIN inbox[m]
          /\ inbox'[m] = Tail(inbox[m])
      BY <1>1, TailIndex DEF LoseUpdate, TypeOK, MapTypeOK
    <3>2. Addressed(m) => inbox[m][1].generation <= generation
      BY <1>3, <3>1 DEF FenceInv, NotAhead
    <3>3. ASSUME NEW i \in DOMAIN Tail(inbox[m])
          PROVE  inbox[m][1].generation < Tail(inbox[m])[i].generation
      <4>1. /\ i + 1 \in DOMAIN inbox[m] /\ 1 < i + 1
            /\ Tail(inbox[m])[i] = inbox[m][i + 1]
        BY <1>1, TailIndex
      <4>. QED BY <3>1, <4>1 DEF FenceInv, InOrder
    <3>. QED BY <1>3, <2>3, <3>1, <3>2, <3>3
  <2>. QED BY <2>2, <2>3
<1>. QED BY <1>4, <1>5, <1>6, <1>7 DEF FenceInv

LEMMA BystanderFence ==
    ASSUME TypeOK, FenceInv, UNCHANGED <<mapVars, workerVars>>,
           \A n \in Machine : Addressed(n)' => Addressed(n)
    PROVE  FenceInv'
<1>1. QueueInv'
  BY MapUnchangedFence DEF workerVars
<1>2. UNCHANGED <<generation, listening, response>>
  BY DEF mapVars, workerVars
<1>3. ResponsesNotAhead' /\ OneResponse'
  BY <1>2 DEF FenceInv, ResponsesNotAhead, OneResponse
<1>. QED BY <1>1, <1>3 DEF FenceInv, QueueInv

LEMMA ExitFence ==
    ASSUME TypeOK, FenceInv, NEW m \in Machine, Exit(m),
           \A n \in Machine : Addressed(n)' => Addressed(n)
    PROVE  FenceInv'
<1>1. /\ listening' = listening \ {m} /\ UNCHANGED <<generation, wGen>>
      /\ \A n \in Machine :
            /\ n # m => /\ inbox'[n] = inbox[n] /\ missed'[n] = missed[n]
                        /\ response'[n] = response[n]
            /\ n = m => inbox'[n] = << >> /\ missed'[n] = 0 /\ response'[n] = {}
  BY DEF Exit, TypeOK, MapTypeOK
<1>2. NotAhead'
  BY <1>1 DEF FenceInv, NotAhead
<1>3. ResponsesNotAhead' /\ OneResponse'
  BY <1>1 DEF FenceInv, ResponsesNotAhead, OneResponse
<1>4. OnlyListenersQueue'
  BY <1>1 DEF FenceInv, OnlyListenersQueue
<1>5. LossesAreBehind'
  <2>1. 0 <= generation
    BY DEF TypeOK, MapTypeOK
  <2>. QED BY <1>1, <2>1 DEF FenceInv, LossesAreBehind
<1>6. InOrder'
  BY <1>1 DEF FenceInv, InOrder
<1>. QED BY <1>2, <1>3, <1>4, <1>5, <1>6 DEF FenceInv

LEMMA HeartbeatFence ==
    ASSUME TypeOK, FenceInv, NEW m \in Machine, Heartbeat(m)
    PROVE  FenceInv'
<1>1. \A n \in Machine : Addressed(n)' => Addressed(n)
  BY DEF Heartbeat, mapVars, Addressed
<1>. QED BY <1>1, BystanderFence DEF Heartbeat

LEMMA CrashFence ==
    ASSUME TypeOK, FenceInv, NEW m \in Machine, WorkerCrashes(m)
    PROVE  FenceInv'
<1>1. \A n \in Machine : Addressed(n)' => Addressed(n)
  BY DEF WorkerCrashes, Exit, Addressed
<1>. QED BY <1>1, ExitFence DEF WorkerCrashes

LEMMA AcksFence ==
    ASSUME TypeOK, FenceInv, NEW m \in Machine, NEW ok \in BOOLEAN, WorkerAcks(m, ok)
    PROVE  FenceInv'
<1>1. UNCHANGED <<owner, members>>
  BY DEF WorkerAcks, Exit, mapVars
<1>2. UNCHANGED tasks \/ \E t \in Task : Finish(t)
  BY DEF WorkerAcks
<1>3. TasksTyped
  BY DEF TypeOK, PlaneTypeOK, TasksTyped
<1>4. \A n \in Machine : Addressed(n)' => Addressed(n)
  BY <1>1, <1>2, <1>3, FinishAddresses DEF Addressed
<1>. QED BY <1>4, ExitFence, BystanderFence DEF WorkerAcks

LEMMA RestartFence ==
    ASSUME TypeOK, FenceInv, OrchestratorRestarts
    PROVE  FenceInv'
<1>1. /\ generation' = 1 /\ UNCHANGED <<inbox, listening, wGen>>
      /\ \A n \in Machine : missed'[n] = 0 /\ response'[n] = {}
  BY DEF OrchestratorRestarts
<1>2. \A n \in Machine : ~Addressed(n)'
  BY NobodyAssumption DEF OrchestratorRestarts, Addressed, Idle
<1>3. NotAhead' /\ ResponsesNotAhead' /\ OneResponse'
  BY <1>1, <1>2 DEF NotAhead, ResponsesNotAhead, OneResponse
<1>4. OnlyListenersQueue' /\ InOrder'
  BY <1>1 DEF FenceInv, OnlyListenersQueue, InOrder
<1>5. LossesAreBehind'
  <2>1. SUFFICES ASSUME NEW n \in Machine, NEW i \in DOMAIN inbox[n]
                 PROVE  0 < inbox[n][i].generation
    BY <1>1 DEF LossesAreBehind
  <2>2. wGen[n] \in Nat /\ wGen[n] < inbox[n][i].generation
    BY DEF TypeOK, FenceInv, InOrder
  <2>. QED BY <2>2, QueuedTyped
<1>. QED BY <1>3, <1>4, <1>5 DEF FenceInv

LEMMA InitFence == Init => FenceInv
BY DEF Init, MapInit, PlaneInit, FenceInv, NotAhead, ResponsesNotAhead, OneResponse,
       OnlyListenersQueue, LossesAreBehind, InOrder

LEMMA NextFence == TypeOK /\ FenceInv /\ [Next]_vars => FenceInv'
<1>. SUFFICES ASSUME TypeOK, FenceInv, [Next]_vars PROVE FenceInv'
  OBVIOUS
<1>1. ASSUME NEW m \in Machine,
             \/ WorkerRegisters(m) \/ Subscribe(m) \/ ApplyAssignment(m)
             \/ LoseUpdate(m) \/ Heartbeat(m) \/ WorkerCrashes(m)
             \/ \E ok \in BOOLEAN : WorkerAcks(m, ok)
      PROVE  FenceInv'
  BY <1>1, RegisterFence, SubscribeFence, ApplyFence, LoseFence, HeartbeatFence,
     CrashFence, AcksFence
<1>2. CASE OrchestratorStep
  BY <1>2, OrchestratorFence
<1>3. CASE OrchestratorRestarts
  BY <1>3, RestartFence
<1>4. CASE UNCHANGED vars
  <2>1. \A n \in Machine : Addressed(n)' => Addressed(n)
    BY <1>4 DEF vars, mapVars, planeVars, Addressed
  <2>. QED BY <1>4, <2>1, BystanderFence DEF vars
<1>. QED BY <1>1, <1>2, <1>3, <1>4 DEF Next, OrchestratorStep

LEMMA FenceInvariant == Spec => []FenceInv
<1>. QED BY InitTyped, NextTyped, InitFence, NextFence, PTL DEF Spec

(* The fence of applyAssignment never rejects an update of the running     *)
(* orchestrator: what waits at a worker is ahead of what it holds, in      *)
(* order, whatever joins, crashes, losses and restarts came before.        *)
THEOREM FenceNeverRejects == Spec => []UpdatesAreFresh
<1>1. TypeOK /\ FenceInv => UpdatesAreFresh
  <2>. SUFFICES ASSUME TypeOK, FenceInv, NEW m \in Machine, NEW i \in DOMAIN inbox[m]
                PROVE  inbox[m][i].generation >
                           IF i = 1 THEN wGen[m] ELSE inbox[m][i - 1].generation
    BY DEF UpdatesAreFresh
  <2>1. inbox[m] \in Seq(Assignment)
    BY DEF TypeOK, MapTypeOK
  <2>2. i \in Nat /\ (i # 1 => i - 1 \in DOMAIN inbox[m] /\ i - 1 < i)
    BY <2>1
  <2>3. wGen[m] < inbox[m][i].generation
    BY DEF FenceInv, InOrder
  <2>4. i # 1 => inbox[m][i - 1].generation < inbox[m][i].generation
    BY <2>2 DEF FenceInv, InOrder
  <2>5. inbox[m][i].generation \in Nat /\ wGen[m] \in Nat
    BY QueuedTyped DEF TypeOK
  <2>6. i # 1 => inbox[m][i - 1].generation \in Nat
    BY <2>2, QueuedTyped
  <2>. QED BY <2>3, <2>4, <2>5, <2>6
<1>. QED BY <1>1, TypeCorrect, FenceInvariant, PTL

-------------------------------------------------------------------------------
(* What owners have been told.                                             *)

ToldOf(m) ==
    ~Down(m) /\ missed[m] <= Told(m).generation => ShardsFor(m) \subseteq Told(m).shards

LEMMA ToldParts == OwnersAreTold <=> \A m \in Machine : ToldOf(m)
BY DEF OwnersAreTold, ToldOf

(* Nothing m's view depends on changed, and the map took shards at most.   *)
LEMMA UndisturbedTold ==
    ASSUME NEW m \in Machine, ToldOf(m), UNCHANGED listening,
           inbox'[m] = inbox[m], missed'[m] = missed[m], response'[m] = response[m],
           wGen'[m] = wGen[m], wShards'[m] = wShards[m],
           \A s \in Shard : owner'[s] = m => owner[s] = m
    PROVE  ToldOf(m)'
<1>1. Told(m)' = Told(m)
  BY DEF Told
<1>2. ShardsFor(m)' \subseteq ShardsFor(m)
  BY DEF ShardsFor
<1>3. Down(m)' <=> Down(m)
  BY DEF Down
<1>. QED BY <1>1, <1>2, <1>3 DEF ToldOf

LEMMA DownTold ==
    ASSUME NEW m, Down(m)' PROVE ToldOf(m)'
BY DEF ToldOf

LEMMA AssignTold ==
    ASSUME TypeOK, FenceInv, NEW m \in Machine, NEW S \in SUBSET Shard, Assign(m, S),
           NEW n \in Machine, ToldOf(n), response'[n] = response[n],
           wGen'[n] = wGen[n], wShards'[n] = wShards[n]
    PROVE  ToldOf(n)'
<1>. DEFINE msg == [generation |-> generation + 1, shards |-> S]
<1>0. UNCHANGED listening
  BY DEF Assign
<1>1. CASE n # m
  <2>1. inbox'[n] = inbox[n] /\ missed'[n] = missed[n]
    BY <1>1 DEF Assign, Publish, TypeOK, MapTypeOK
  <2>2. \A s \in Shard : owner'[s] = n => owner[s] = n
    BY <1>1, AssignAddresses
  <2>. QED BY <1>0, <2>1, <2>2, UndisturbedTold
<1>2. CASE n = m /\ m \in listening
  <2>1. inbox'[m] = Append(inbox[m], msg) /\ inbox[m] \in Seq(Assignment)
    BY <1>2 DEF Assign, Publish, TypeOK, MapTypeOK
  <2>2. inbox'[m] # << >> /\ inbox'[m][Len(inbox'[m])] = msg
    BY <2>1
  <2>3. Told(m)' = msg
    BY <2>2 DEF Told
  <2>4. ShardsFor(m)' \subseteq S
    BY NobodyAssumption DEF ShardsFor, Assign
  <2>. QED BY <1>2, <2>3, <2>4 DEF ToldOf
<1>3. CASE n = m /\ m \notin listening /\ response[m] = {}
  BY <1>0, <1>3, DownTold DEF Down
<1>4. CASE n = m /\ m \notin listening /\ response[m] # {}
  <2>1. missed'[m] = generation + 1
    BY <1>4 DEF Assign, Publish, TypeOK, MapTypeOK
  <2>2. inbox'[m] = << >>
    BY <1>4 DEF Assign, Publish, FenceInv, OnlyListenersQueue
  <2>3. Told(m)' \in response[m]
    BY <1>4, <2>2 DEF Told
  <2>4. Told(m)'.generation <= generation /\ Told(m)'.generation \in Nat
    BY <2>3 DEF FenceInv, ResponsesNotAhead, TypeOK, Assignment
  <2>5. generation \in Nat
    BY DEF TypeOK, MapTypeOK
  <2>. QED BY <1>4, <2>1, <2>4, <2>5 DEF ToldOf
<1>. QED BY <1>1, <1>2, <1>3, <1>4

LEMMA EffectTold ==
    ASSUME TypeOK, FenceInv, NEW known, MapEffect(known),
           NEW n \in Machine, ToldOf(n), response'[n] = response[n],
           wGen'[n] = wGen[n], wShards'[n] = wShards[n]
    PROVE  ToldOf(n)'
<1>1. CASE UNCHANGED mapVars
  BY <1>1, UndisturbedTold DEF mapVars
<1>2. CASE \E m \in Machine : \E S \in SUBSET Shard : Assign(m, S)
  BY <1>2, AssignTold
<1>. QED BY <1>1, <1>2 DEF MapEffect

LEMMA OrchestratorTold ==
    ASSUME TypeOK, FenceInv, OwnersAreTold, OrchestratorStep
    PROVE  OwnersAreTold'
<1>1. MapEffect(members) /\ UNCHANGED workerVars
  BY OrchestratorEffect
<1>. QED BY <1>1, EffectTold DEF OwnersAreTold, ToldOf, workerVars

LEMMA RegisterTold ==
    ASSUME TypeOK, FenceInv, OwnersAreTold, NEW m \in Machine, WorkerRegisters(m)
    PROVE  OwnersAreTold'
<1>1. \A n \in Machine : response'[n] = IF n = m THEN {Response(m)} ELSE response[n]
  BY DEF WorkerRegisters, TypeOK
<1>2. UNCHANGED <<wGen, wShards>>
  BY DEF WorkerRegisters
<1>3. ASSUME NEW n \in Machine, n # m
      PROVE  ToldOf(n)'
  BY <1>1, <1>2, <1>3, RegisterEffect, EffectTold DEF OwnersAreTold, ToldOf
<1>4. ToldOf(m)'
  <2>1. m \notin listening'
    BY RegisterEffect, EffectListening DEF WorkerRegisters, Down
  <2>2. inbox'[m] = << >>
    BY <2>1, RegisterFence DEF FenceInv, OnlyListenersQueue
  <2>3. Told(m)' \in {Response(m)}
    BY <1>1, <2>2 DEF Told
  <2>. QED BY <2>3 DEF ToldOf, Response, ShardsFor
<1>. QED BY <1>3, <1>4 DEF OwnersAreTold, ToldOf

LEMMA SubscribeTold ==
    ASSUME TypeOK, FenceInv, OwnersAreTold, NEW m \in Machine, Subscribe(m)
    PROVE  OwnersAreTold'
<1>1. PICK r \in response[m] : /\ wGen' = [wGen EXCEPT ![m] = r.generation]
                               /\ wShards' = [wShards EXCEPT ![m] = r.shards]
  BY DEF Subscribe
<1>2. UNCHANGED <<owner, inbox, missed>>
  BY DEF Subscribe
<1>3. m \notin listening /\ inbox[m] = << >>
  BY <1>1 DEF FenceInv, OneResponse, OnlyListenersQueue
<1>4. ToldOf(m)'
  <2>1. Told(m) = r
    <3>1. Told(m) \in response[m]
      BY <1>1, <1>3 DEF Told
    <3>. QED BY <1>1, <3>1 DEF FenceInv, OneResponse
  <2>2. /\ response'[m] = {} /\ inbox'[m] = << >>
        /\ wGen'[m] = r.generation /\ wShards'[m] = r.shards
    BY <1>1, <1>2, <1>3 DEF Subscribe, TypeOK
  <2>3. Told(m)' = [generation |-> r.generation, shards |-> r.shards]
    BY <2>2 DEF Told
  <2>4. ~Down(m)
    BY <1>1 DEF Down
  <2>5. missed[m] <= r.generation => ShardsFor(m) \subseteq r.shards
    BY <2>1, <2>4 DEF OwnersAreTold
  <2>. QED BY <1>2, <2>3, <2>5 DEF ToldOf, ShardsFor
<1>5. ASSUME NEW n \in Machine, n # m
      PROVE  ToldOf(n)'
  <2>1. /\ response'[n] = response[n] /\ wGen'[n] = wGen[n] /\ wShards'[n] = wShards[n]
        /\ n \in listening' <=> n \in listening
    BY <1>1, <1>5 DEF Subscribe, TypeOK
  <2>. QED BY <1>2, <2>1 DEF OwnersAreTold, ToldOf, Told, Down, ShardsFor
<1>. QED BY <1>4, <1>5 DEF OwnersAreTold, ToldOf

LEMMA QueueEnds ==
    ASSUME TypeOK, NEW m \in Machine, inbox[m] # << >>
    PROVE  /\ inbox[m][Len(inbox[m])] \in Assignment
           /\ Tail(inbox[m]) = << >> => inbox[m][Len(inbox[m])] = Head(inbox[m])
           /\ Tail(inbox[m]) # << >> =>
                  Tail(inbox[m])[Len(Tail(inbox[m]))] = inbox[m][Len(inbox[m])]
<1>1. inbox[m] \in Seq(Assignment)
  BY DEF TypeOK, MapTypeOK
<1>2. Len(inbox[m]) \in Nat /\ Len(inbox[m]) >= 1
  BY <1>1
<1>3. inbox[m][Len(inbox[m])] \in Assignment
  BY <1>1, <1>2
<1>4. Len(Tail(inbox[m])) = Len(inbox[m]) - 1
  BY <1>1
<1>5. Tail(inbox[m]) = << >> => Len(inbox[m]) = 1
  <2>1. Len(<< >>) = 0
    OBVIOUS
  <2>2. Tail(inbox[m]) = << >> => Len(Tail(inbox[m])) = Len(<< >>)
    OBVIOUS
  <2>. QED BY <1>2, <1>4, <2>1, <2>2
<1>6. Head(inbox[m]) = inbox[m][1]
  BY <1>1
<1>7. Tail(inbox[m]) # << >> => Len(inbox[m]) - 1 >= 1
  BY <1>1, <1>2, <1>4
<1>8. \A i \in 1 .. (Len(inbox[m]) - 1) : Tail(inbox[m])[i] = inbox[m][i + 1]
  BY <1>1
<1>. QED BY <1>2, <1>3, <1>4, <1>5, <1>6, <1>7, <1>8

LEMMA ApplyTold ==
    ASSUME TypeOK, FenceInv, OwnersAreTold, NEW m \in Machine, ApplyAssignment(m)
    PROVE  OwnersAreTold'
<1>1. inbox[m] # << >> /\ inbox' = [inbox EXCEPT ![m] = Tail(@)]
  BY DEF ApplyAssignment
<1>2. UNCHANGED <<owner, listening, missed, response>>
  BY DEF ApplyAssignment
<1>3. /\ wGen' = [wGen EXCEPT ![m] = Head(inbox[m]).generation]
      /\ wShards' = [wShards EXCEPT ![m] = Head(inbox[m]).shards]
  BY ApplyTakesHead
<1>4. ASSUME NEW n \in Machine, n # m
      PROVE  ToldOf(n)'
  <2>1. /\ inbox'[n] = inbox[n] /\ missed'[n] = missed[n] /\ response'[n] = response[n]
        /\ wGen'[n] = wGen[n] /\ wShards'[n] = wShards[n]
    BY <1>1, <1>2, <1>3, <1>4 DEF TypeOK, MapTypeOK
  <2>. QED BY <1>2, <2>1, UndisturbedTold DEF OwnersAreTold, ToldOf
<1>5. ToldOf(m)'
  <2>1. m \in listening /\ response[m] = {}
    BY <1>1 DEF FenceInv, OnlyListenersQueue, OneResponse
  <2>2. /\ inbox'[m] = Tail(inbox[m])
        /\ wGen'[m] = Head(inbox[m]).generation /\ wShards'[m] = Head(inbox[m]).shards
    BY <1>1, <1>3 DEF TypeOK, MapTypeOK
  <2>3. Told(m) = inbox[m][Len(inbox[m])]
    BY <1>1 DEF Told
  <2>4. Told(m)'.generation = Told(m).generation /\ Told(m)'.shards = Told(m).shards
    BY <1>1, <1>2, <2>1, <2>2, <2>3, QueueEnds DEF Told
  <2>. QED BY <1>2, <2>1, <2>4 DEF OwnersAreTold, ToldOf, Down, ShardsFor
<1>. QED BY <1>4, <1>5 DEF OwnersAreTold, ToldOf

LEMMA LoseTold ==
    ASSUME TypeOK, FenceInv, OwnersAreTold, NEW m \in Machine, LoseUpdate(m)
    PROVE  OwnersAreTold'
<1>1. inbox[m] # << >> /\ inbox' = [inbox EXCEPT ![m] = Tail(@)]
  BY DEF LoseUpdate
<1>2. UNCHANGED <<owner, listening, response, wGen, wShards>>
  BY DEF LoseUpdate, workerVars
<1>3. missed' = [missed EXCEPT ![m] = Head(inbox[m]).generation]
  BY DEF LoseUpdate
<1>4. ASSUME NEW n \in Machine, n # m
      PROVE  ToldOf(n)'
  <2>1. inbox'[n] = inbox[n] /\ missed'[n] = missed[n]
    BY <1>1, <1>3, <1>4 DEF TypeOK, MapTypeOK
  <2>. QED BY <1>2, <2>1, UndisturbedTold DEF OwnersAreTold, ToldOf
<1>5. ToldOf(m)'
  <2>1. m \in listening /\ response[m] = {}
    BY <1>1 DEF FenceInv, OnlyListenersQueue, OneResponse
  <2>2. inbox'[m] = Tail(inbox[m]) /\ missed'[m] = inbox[m][1].generation
    BY <1>1, <1>3, TailIndex DEF TypeOK, MapTypeOK
  <2>3. CASE Tail(inbox[m]) = << >>
    <3>1. Told(m)' = [generation |-> wGen[m], shards |-> wShards[m]]
      BY <1>2, <2>1, <2>2, <2>3 DEF Told
    <3>2. wGen[m] < inbox[m][1].generation
      BY <1>1, TailIndex DEF FenceInv, InOrder
    <3>3. wGen[m] \in Nat /\ inbox[m][1].generation \in Nat
      BY <1>1, TailIndex, QueuedTyped DEF TypeOK
    <3>. QED BY <2>2, <3>1, <3>2, <3>3 DEF ToldOf
  <2>4. CASE Tail(inbox[m]) # << >>
    <3>1. Told(m)' = Told(m)
      BY <1>1, <2>2, <2>4, QueueEnds DEF Told
    <3>2. Told(m) = inbox[m][Len(inbox[m])]
      BY <1>1 DEF Told
    <3>3. Len(inbox[m]) \in DOMAIN inbox[m]
      <4>1. inbox[m] \in Seq(Assignment)
        BY DEF TypeOK, MapTypeOK
      <4>. QED BY <1>1, <4>1
    <3>4. missed[m] < Told(m).generation
      BY <3>2, <3>3 DEF FenceInv, LossesAreBehind
    <3>5. missed[m] \in Nat /\ Told(m).generation \in Nat
      BY <3>2, <3>3, QueuedTyped DEF TypeOK, MapTypeOK
    <3>6. ShardsFor(m) \subseteq Told(m).shards
      BY <2>1, <3>4, <3>5 DEF OwnersAreTold, Down
    <3>. QED BY <1>2, <3>1, <3>6 DEF ToldOf, ShardsFor
  <2>. QED BY <2>3, <2>4
<1>. QED BY <1>4, <1>5 DEF OwnersAreTold, ToldOf

LEMMA BystanderTold ==
    ASSUME OwnersAreTold, UNCHANGED <<mapVars, workerVars>>
    PROVE  OwnersAreTold'
BY DEF OwnersAreTold, Told, Down, ShardsFor, mapVars, workerVars

LEMMA ExitTold ==
    ASSUME TypeOK, OwnersAreTold, NEW m \in Machine, Exit(m)
    PROVE  OwnersAreTold'
<1>1. Down(m)'
  BY DEF Down, Exit, TypeOK
<1>2. ASSUME NEW n \in Machine, n # m
      PROVE  ToldOf(n)'
  <2>1. /\ inbox'[n] = inbox[n] /\ missed'[n] = missed[n] /\ response'[n] = response[n]
        /\ n \in listening' <=> n \in listening
        /\ UNCHANGED <<owner, wGen, wShards>>
    BY <1>2 DEF Exit, TypeOK, MapTypeOK
  <2>. QED BY <2>1 DEF OwnersAreTold, ToldOf, Told, Down, ShardsFor
<1>. QED BY <1>1, <1>2, DownTold DEF OwnersAreTold, ToldOf

LEMMA RestartTold ==
    ASSUME TypeOK, OrchestratorRestarts
    PROVE  OwnersAreTold'
BY NobodyAssumption DEF OrchestratorRestarts, OwnersAreTold, ShardsFor

LEMMA InitTold == Init => OwnersAreTold
BY NobodyAssumption DEF Init, MapInit, OwnersAreTold, ShardsFor

LEMMA NextTold == TypeOK /\ FenceInv /\ OwnersAreTold /\ [Next]_vars => OwnersAreTold'
<1>. SUFFICES ASSUME TypeOK, FenceInv, OwnersAreTold, [Next]_vars PROVE OwnersAreTold'
  OBVIOUS
<1>1. ASSUME NEW m \in Machine,
             WorkerRegisters(m) \/ Subscribe(m) \/ ApplyAssignment(m) \/ LoseUpdate(m)
      PROVE  OwnersAreTold'
  BY <1>1, RegisterTold, SubscribeTold, ApplyTold, LoseTold
<1>2. ASSUME NEW m \in Machine, Heartbeat(m)
      PROVE  OwnersAreTold'
  BY <1>2, BystanderTold DEF Heartbeat
<1>3. ASSUME NEW m \in Machine, NEW ok \in BOOLEAN, WorkerAcks(m, ok)
      PROVE  OwnersAreTold'
  <2>1. CASE Exit(m)
    BY <2>1, ExitTold
  <2>2. CASE UNCHANGED <<mapVars, workerVars>>
    BY <2>2, BystanderTold
  <2>. QED BY <1>3, <2>1, <2>2 DEF WorkerAcks
<1>4. CASE OrchestratorStep
  BY <1>4, OrchestratorTold
<1>5. CASE OrchestratorRestarts
  BY <1>5, RestartTold
<1>6. CASE UNCHANGED vars
  BY <1>6, BystanderTold DEF vars
<1>7. ASSUME NEW m \in Machine, WorkerCrashes(m)
      PROVE  OwnersAreTold'
  BY <1>7, ExitTold DEF WorkerCrashes
<1>. QED BY <1>1, <1>2, <1>3, <1>4, <1>5, <1>6, <1>7 DEF Next, OrchestratorStep

(* Every running worker has been told of every shard the map credits to    *)
(* it, unless the last update for it was lost: for any number of           *)
(* overlapping operations assigning stale lists.                           *)
THEOREM OwnersTold == Spec => []OwnersAreTold
<1>. QED
  BY InitTyped, NextTyped, InitFence, NextFence, InitTold, NextTold, PTL DEF Spec

-------------------------------------------------------------------------------
(* Rolling updates.                                                        *)

UpdateKind == {"drain", "poll", "ack"}

InFlight == {t \in Task : tasks[t].kind \in UpdateKind}

UpdateInv == UpdatingIsInFlight /\ IsFiniteSet(updating)

(* The task t goes to something that is not an update.                     *)
LeavesUpdates(t) ==
    \E r : tasks' = [tasks EXCEPT ![t] = r] /\ r.kind \notin UpdateKind

LEMMA UpdateParts ==
    UpdateInv <=> /\ updating = {tasks[t].last : t \in InFlight}
                  /\ \A t, u \in InFlight : tasks[t].last = tasks[u].last => t = u
                  /\ Cardinality(updating) <= MaxUpdates
                  /\ IsFiniteSet(updating)
BY DEF UpdateInv, UpdatingIsInFlight, InFlight, UpdateKind

LEMMA UpdatePartsNext ==
    UpdateInv' <=> /\ updating' = {tasks'[t].last : t \in InFlight'}
                   /\ \A t, u \in InFlight' : tasks'[t].last = tasks'[u].last => t = u
                   /\ Cardinality(updating') <= MaxUpdates
                   /\ IsFiniteSet(updating')
BY DEF UpdateInv, UpdatingIsInFlight, InFlight, UpdateKind

LEMMA FinishLeaves ==
    ASSUME NEW t, Finish(t) PROVE LeavesUpdates(t)
<1>1. tasks' = [tasks EXCEPT ![t] = Idle] /\ Idle.kind \notin UpdateKind
  BY DEF Finish, Idle, UpdateKind
<1>. QED BY <1>1 DEF LeavesUpdates

LEMMA LoopLeaves ==
    ASSUME NEW t, NEW kind, kind \notin UpdateKind, NEW todo, NEW target,
           LoopAssign(t, kind, todo, target)
    PROVE  LeavesUpdates(t)
<1>1. PICK m, passed : Suspend(t, kind, m, todo \ ({m} \cup passed), target)
  BY DEF LoopAssign
<1>. DEFINE r == [kind |-> kind, last |-> m, todo |-> todo \ ({m} \cup passed),
                 target |-> target]
<1>2. tasks' = [tasks EXCEPT ![t] = r] /\ r.kind \notin UpdateKind
  BY <1>1 DEF Suspend
<1>. QED BY <1>2 DEF LeavesUpdates

LEMMA StartFillLeaves ==
    ASSUME NEW t, NEW kind, kind \notin UpdateKind, NEW known, StartFill(t, kind, known)
    PROVE  LeavesUpdates(t)
BY LoopLeaves DEF StartFill

LEMMA AfterFillLeaves ==
    ASSUME NEW t, NEW known, AfterFill(t, known)
    PROVE  LeavesUpdates(t)
<1>1. CASE Finish(t)
  BY <1>1, FinishLeaves
<1>2. CASE StartMoves(t, known)
  <2>1. \E todo, target : LoopAssign(t, "moves", todo, target)
    BY <1>2 DEF StartMoves
  <2>. QED BY <2>1, LoopLeaves DEF UpdateKind
<1>. QED BY <1>1, <1>2 DEF AfterFill

LEMMA StartCycleLeaves ==
    ASSUME NEW t, NEW known, StartCycle(t, known)
    PROVE  LeavesUpdates(t)
BY StartFillLeaves, AfterFillLeaves DEF StartCycle, UpdateKind

(* A task that was no update and does not become one.                      *)
LEMMA OtherTaskUpdate ==
    ASSUME TypeOK, UpdateInv, NEW t \in Task, tasks[t].kind \notin UpdateKind,
           LeavesUpdates(t), UNCHANGED updating
    PROVE  UpdateInv'
<1>1. /\ tasks'[t].kind \notin UpdateKind
      /\ \A u \in Task : u # t => tasks'[u] = tasks[u]
  BY DEF LeavesUpdates, TypeOK, PlaneTypeOK
<1>2. InFlight' = InFlight /\ t \notin InFlight
  BY <1>1 DEF InFlight
<1>3. \A u \in InFlight : tasks'[u].last = tasks[u].last
  BY <1>1, <1>2 DEF InFlight
<1>. QED BY <1>2, <1>3, UpdateParts, UpdatePartsNext

LEMMA SameTasksUpdate ==
    ASSUME UpdateInv, UNCHANGED <<updating, tasks>>
    PROVE  UpdateInv'
BY DEF UpdateInv, UpdatingIsInFlight

(* An update that ends unmarks its worker.                                 *)
LEMMA EndUpdate ==
    ASSUME TypeOK, UpdateInv, NEW t \in Task, tasks[t].kind \in UpdateKind,
           LeavesUpdates(t), updating' = updating \ {tasks[t].last}
    PROVE  UpdateInv'
<1>1. /\ tasks'[t].kind \notin UpdateKind
      /\ \A u \in Task : u # t => tasks'[u] = tasks[u]
  BY DEF LeavesUpdates, TypeOK, PlaneTypeOK
<1>2. InFlight' = InFlight \ {t} /\ t \in InFlight
  BY <1>1 DEF InFlight
<1>3. \A u \in InFlight' : tasks'[u].last = tasks[u].last
  BY <1>1, <1>2 DEF InFlight
<1>4. updating' = {tasks'[u].last : u \in InFlight'}
  BY <1>2, <1>3, UpdateParts
<1>5. \A u, v \in InFlight' : tasks'[u].last = tasks'[v].last => u = v
  BY <1>2, <1>3, UpdateParts
<1>6. IsFiniteSet(updating') /\ Cardinality(updating') <= MaxUpdates
  <2>1. IsFiniteSet(updating) /\ Cardinality(updating) <= MaxUpdates /\ updating' \subseteq updating
    BY UpdateParts
  <2>2. IsFiniteSet(updating') /\ Cardinality(updating') <= Cardinality(updating)
    BY <2>1, FS_Subset
  <2>3. Cardinality(updating) \in Nat /\ Cardinality(updating') \in Nat
    BY <2>1, <2>2, FS_CardinalityType
  <2>. QED BY <2>1, <2>2, <2>3, LimitsAssumption
<1>. QED BY <1>4, <1>5, <1>6, UpdatePartsNext

(* An update goes on to its next wait.                                     *)
LEMMA GoOnUpdate ==
    ASSUME TypeOK, UpdateInv, NEW t \in Task, tasks[t].kind \in UpdateKind,
           NEW kind \in UpdateKind, Suspend(t, kind, tasks[t].last, {}, NoTarget),
           UNCHANGED updating
    PROVE  UpdateInv'
<1>1. /\ tasks'[t].kind \in UpdateKind /\ tasks'[t].last = tasks[t].last
      /\ \A u \in Task : u # t => tasks'[u] = tasks[u]
  BY DEF Suspend, TypeOK, PlaneTypeOK
<1>2. InFlight' = InFlight
  BY <1>1 DEF InFlight
<1>3. \A u \in InFlight : tasks'[u].last = tasks[u].last
  BY <1>1 DEF InFlight
<1>. QED BY <1>2, <1>3, UpdateParts, UpdatePartsNext

LEMMA StartUpdateUpdate ==
    ASSUME TypeOK, UpdateInv, NEW t \in Task, NEW m \in Machine, StartUpdate(t, m)
    PROVE  UpdateInv'
<1>1. /\ tasks[t].kind \notin UpdateKind
      /\ tasks'[t].kind \in UpdateKind /\ tasks'[t].last = m
      /\ \A u \in Task : u # t => tasks'[u] = tasks[u]
      /\ updating' = updating \cup {m} /\ m \notin updating
      /\ Cardinality(updating) < MaxUpdates
  BY DEF StartUpdate, Suspend, TypeOK, PlaneTypeOK, UpdateKind
<1>2. InFlight' = InFlight \cup {t} /\ t \notin InFlight
  BY <1>1 DEF InFlight
<1>3. \A u \in InFlight : tasks'[u].last = tasks[u].last /\ tasks[u].last # m
  BY <1>1, <1>2, UpdateParts DEF InFlight
<1>4. updating' = {tasks'[u].last : u \in InFlight'}
  <2>1. updating = {tasks'[u].last : u \in InFlight}
    BY <1>3, UpdateParts
  <2>. QED BY <1>1, <1>2, <2>1
<1>5. \A u, v \in InFlight' : tasks'[u].last = tasks'[v].last => u = v
  BY <1>1, <1>2, <1>3, UpdateParts
<1>6. IsFiniteSet(updating') /\ Cardinality(updating') <= MaxUpdates
  <2>1. IsFiniteSet(updating)
    BY UpdateParts
  <2>2. IsFiniteSet(updating') /\ Cardinality(updating') = Cardinality(updating) + 1
    BY <1>1, <2>1, FS_AddElement
  <2>3. Cardinality(updating) \in Nat
    BY <2>1, FS_CardinalityType
  <2>. QED BY <1>1, <2>2, <2>3, LimitsAssumption
<1>. QED BY <1>4, <1>5, <1>6, UpdatePartsNext

LEMMA RegisterUpdate ==
    ASSUME TypeOK, UpdateInv, NEW m \in Machine, WorkerRegisters(m)
    PROVE  UpdateInv'
<1>1. UNCHANGED updating
  BY DEF WorkerRegisters, Register
<1>2. CASE UNCHANGED tasks
  BY <1>1, <1>2, SameTasksUpdate
<1>3. ASSUME NEW t \in Task, tasks[t].kind = "idle", StartFill(t, "join", members')
      PROVE  UpdateInv'
  <2>1. tasks[t].kind \notin UpdateKind /\ "join" \notin UpdateKind
    BY <1>3 DEF UpdateKind
  <2>. QED BY <1>1, <1>3, <2>1, StartFillLeaves, OtherTaskUpdate
<1>. QED BY <1>2, <1>3 DEF WorkerRegisters, Register

LEMMA StarterUpdate ==
    ASSUME TypeOK, UpdateInv, NEW t \in Task, tasks[t].kind = "idle", UNCHANGED updating,
           \/ StartCycle(t, members)
           \/ \E kind \in {"shift", "recover"} : \E m, todo, target :
                  Suspend(t, kind, m, todo, target)
    PROVE  UpdateInv'
<1>1. tasks[t].kind \notin UpdateKind
  BY DEF UpdateKind
<1>2. LeavesUpdates(t)
  <2>1. CASE StartCycle(t, members)
    BY <2>1, StartCycleLeaves
  <2>2. ASSUME NEW kind \in {"shift", "recover"}, NEW m, NEW todo, NEW target,
               Suspend(t, kind, m, todo, target)
        PROVE  LeavesUpdates(t)
    <3>. DEFINE r == [kind |-> kind, last |-> m, todo |-> todo, target |-> target]
    <3>1. tasks' = [tasks EXCEPT ![t] = r] /\ r.kind \notin UpdateKind
      BY <2>2 DEF Suspend, UpdateKind
    <3>. QED BY <3>1 DEF LeavesUpdates
  <2>. QED BY <2>1, <2>2
<1>. QED BY <1>1, <1>2, OtherTaskUpdate

LEMMA ResumeUpdate ==
    ASSUME TypeOK, UpdateInv, NEW t \in Task, Resume(t)
    PROVE  UpdateInv'
<1>1. CASE ResumeLoop(t)
  <2>1. tasks[t].kind \notin UpdateKind /\ UNCHANGED updating
    BY <1>1 DEF ResumeLoop, UpdateKind
  <2>2. LeavesUpdates(t)
    BY <1>1, <2>1, LoopLeaves, AfterFillLeaves, FinishLeaves DEF ResumeLoop
  <2>. QED BY <2>1, <2>2, OtherTaskUpdate
<1>2. CASE ResumeShift(t)
  <2>1. tasks[t].kind \notin UpdateKind /\ UNCHANGED updating
    BY <1>2 DEF ResumeShift, UpdateKind
  <2>2. LeavesUpdates(t)
    <3>1. CASE Finish(t)
      BY <3>1, FinishLeaves
    <3>2. CASE Suspend(t, "shift", Nobody, {}, NoTarget)
      <4>. DEFINE r == [kind |-> "shift", last |-> Nobody, todo |-> {}, target |-> NoTarget]
      <4>1. tasks' = [tasks EXCEPT ![t] = r] /\ r.kind \notin UpdateKind
        BY <3>2 DEF Suspend, UpdateKind
      <4>. QED BY <4>1 DEF LeavesUpdates
    <3>. QED BY <1>2, <3>1, <3>2 DEF ResumeShift
  <2>. QED BY <2>1, <2>2, OtherTaskUpdate
<1>3. CASE ResumeRecover(t)
  <2>1. tasks[t].kind \notin UpdateKind /\ UNCHANGED updating
    BY <1>3 DEF ResumeRecover, UpdateKind
  <2>2. LeavesUpdates(t)
    BY <1>3, StartCycleLeaves DEF ResumeRecover
  <2>. QED BY <2>1, <2>2, OtherTaskUpdate
<1>4. CASE ResumeDrain(t)
  <2>1. tasks[t].kind \in UpdateKind
    BY <1>4 DEF ResumeDrain, UpdateKind
  <2>2. CASE Finish(t) /\ updating' = updating \ {tasks[t].last}
    BY <2>1, <2>2, FinishLeaves, EndUpdate
  <2>3. CASE /\ UNCHANGED updating
             /\ \E kind \in {"ack", "poll"} : Suspend(t, kind, tasks[t].last, {}, NoTarget)
    BY <2>1, <2>3, GoOnUpdate DEF UpdateKind
  <2>. QED BY <1>4, <2>2, <2>3 DEF ResumeDrain, SendInstruct
<1>. QED BY <1>1, <1>2, <1>3, <1>4 DEF Resume

LEMMA AbortUpdate ==
    ASSUME TypeOK, UpdateInv, NEW t \in Task, Abort(t)
    PROVE  UpdateInv'
<1>1. LeavesUpdates(t)
  BY FinishLeaves DEF Abort
<1>2. CASE tasks[t].kind = "drain"
  <2>1. tasks[t].kind \in UpdateKind /\ updating' = updating \ {tasks[t].last}
    BY <1>2 DEF Abort, UpdateKind
  <2>. QED BY <1>1, <2>1, EndUpdate
<1>3. CASE tasks[t].kind # "drain"
  <2>1. tasks[t].kind \notin UpdateKind /\ UNCHANGED updating
    BY <1>3 DEF Abort, UpdateKind
  <2>. QED BY <1>1, <2>1, OtherTaskUpdate
<1>. QED BY <1>2, <1>3

LEMMA AckTimeoutUpdate ==
    ASSUME TypeOK, UpdateInv, NEW t \in Task, AckTimeout(t)
    PROVE  UpdateInv'
<1>1. /\ LeavesUpdates(t) /\ tasks[t].kind \in UpdateKind
      /\ updating' = updating \ {tasks[t].last}
  BY FinishLeaves DEF AckTimeout, UpdateKind
<1>. QED BY <1>1, EndUpdate

LEMMA AcksUpdate ==
    ASSUME TypeOK, UpdateInv, NEW m \in Machine, NEW ok \in BOOLEAN, WorkerAcks(m, ok)
    PROVE  UpdateInv'
<1>1. CASE UNCHANGED <<updating, tasks>>
  BY <1>1, SameTasksUpdate
<1>2. ASSUME NEW t \in Task, tasks[t].kind = "ack", tasks[t].last = m, Finish(t),
             updating' = updating \ {m}
      PROVE  UpdateInv'
  <2>1. tasks[t].kind \in UpdateKind /\ LeavesUpdates(t)
    BY <1>2, FinishLeaves DEF UpdateKind
  <2>. QED BY <1>2, <2>1, EndUpdate
<1>. QED BY <1>1, <1>2 DEF WorkerAcks

LEMMA NoUpdatesInv ==
    ASSUME updating = {}, tasks = [t \in Task |-> Idle]
    PROVE  UpdateInv
<1>1. InFlight = {}
  BY DEF InFlight, UpdateKind, Idle
<1>2. IsFiniteSet({}) /\ Cardinality({}) = 0
  BY FS_EmptySet
<1>. QED BY <1>1, <1>2, UpdateParts, LimitsAssumption

LEMMA RestartUpdate ==
    ASSUME OrchestratorRestarts
    PROVE  UpdateInv'
<1>1. updating' = {} /\ tasks' = [t \in Task |-> Idle]
  BY DEF OrchestratorRestarts
<1>2. InFlight' = {}
  BY <1>1 DEF InFlight, UpdateKind, Idle
<1>3. IsFiniteSet({}) /\ Cardinality({}) = 0
  BY FS_EmptySet
<1>. QED BY <1>1, <1>2, <1>3, UpdatePartsNext, LimitsAssumption

LEMMA NextUpdate == TypeOK /\ UpdateInv /\ [Next]_vars => UpdateInv'
<1>. SUFFICES ASSUME TypeOK, UpdateInv, [Next]_vars PROVE UpdateInv'
  OBVIOUS
<1>1. ASSUME NEW m \in Machine,
             \/ Subscribe(m) \/ ApplyAssignment(m) \/ LoseUpdate(m)
             \/ Heartbeat(m) \/ WorkerCrashes(m)
      PROVE  UpdateInv'
  <2>1. UNCHANGED <<updating, tasks>>
    BY <1>1 DEF Subscribe, ApplyAssignment, LoseUpdate, Heartbeat, WorkerCrashes, planeVars
  <2>. QED BY <2>1, SameTasksUpdate
<1>2. ASSUME NEW m \in Machine,
             WorkerRegisters(m) \/ \E ok \in BOOLEAN : WorkerAcks(m, ok)
      PROVE  UpdateInv'
  BY <1>2, RegisterUpdate, AcksUpdate
<1>3. ASSUME NEW t \in Task,
             Rebalances(t) \/ ResumesTask(t) \/ TimesOut(t) \/ Aborts(t)
      PROVE  UpdateInv'
  BY <1>3, StarterUpdate, ResumeUpdate, AckTimeoutUpdate, AbortUpdate
  DEF Rebalances, RebalanceTimer, ResumesTask, TimesOut, Aborts
<1>4. ASSUME NEW t \in Task, NEW m \in Machine, DeclaresDead(t, m)
      PROVE  UpdateInv'
  BY <1>4, StarterUpdate DEF DeclaresDead, DeclareDead
<1>5. ASSUME NEW t \in Task, NEW m \in Machine, Updates(t, m)
      PROVE  UpdateInv'
  BY <1>5, StartUpdateUpdate DEF Updates
<1>6. ASSUME NEW t \in Task, NEW m \in Machine, NEW s \in Shard, Shifts(t, s, m)
      PROVE  UpdateInv'
  BY <1>6, StarterUpdate DEF Shifts, ShardShift
<1>7. CASE OrchestratorRestarts
  BY <1>7, RestartUpdate
<1>8. CASE UNCHANGED vars
  BY <1>8, SameTasksUpdate DEF vars, planeVars
<1>. QED BY <1>1, <1>2, <1>3, <1>4, <1>5, <1>6, <1>7, <1>8 DEF Next

(* The workers excluded from rebalancing are exactly those with a rolling  *)
(* update in flight, one operation each, never more than the configured    *)
(* number: no path of runOne leaks an entry.                               *)
THEOREM NoLeakedExclusion == Spec => []UpdatingIsInFlight
<1>1. Init => UpdateInv
  BY NoUpdatesInv DEF Init, PlaneInit
<1>2. UpdateInv => UpdatingIsInFlight
  BY DEF UpdateInv
<1>. QED BY <1>1, <1>2, InitTyped, NextTyped, NextUpdate, PTL DEF Spec

-------------------------------------------------------------------------------
(* One operation at a time.                                                *)

(* What QuietIsAgreed holds under: no two operations are suspended at once,*)
(* the load moves nothing, no shift is given up halfway, and no new        *)
(* orchestrator meets the workers of another.                              *)
Serial ==
    /\ \A t, u \in Task : t = u
    /\ MaxMoves = 0
    /\ "restart" \notin Event
    /\ "shift" \notin Event \/ "abort" \notin Event

(* A shard was shifted away from m, and m is still to be told.             *)
Donor(m) == \E t \in Task : tasks[t].kind = "shift" /\ m \in tasks[t].todo

InformedOf(m) == ~Down(m) /\ missed[m] <= Told(m).generation

(* Nobody else was told of more than the map credits to it.                *)
AgreedOf(m) == InformedOf(m) => Told(m).shards \subseteq ShardsFor(m)

AgreedInv == \A m \in Machine : ~Donor(m) => AgreedOf(m)

(* A machine is given what it has and shards that nobody has, which no     *)
(* other is given.                                                         *)
Extends(todo, target) ==
    /\ \A m \in todo : /\ ShardsFor(m) \subseteq target[m]
                       /\ target[m] \subseteq ShardsFor(m) \cup Unowned
    /\ \A m, n \in todo : m # n => target[m] \cap target[n] = {}

Watched(known) == \A s \in Shard : owner[s] \in known \cup {Nobody}

(* The target lists of the operation still fit the map.                    *)
TaskInv ==
    \A t \in Task :
        /\ tasks[t].kind # "moves"
        /\ tasks[t].kind \in {"join", "fill"} =>
              tasks[t].todo \subseteq members /\ Extends(tasks[t].todo, tasks[t].target)
        /\ tasks[t].kind = "shift" =>
              /\ "shift" \in Event
              /\ \A m, n \in tasks[t].todo : m = n
              /\ \A m \in tasks[t].todo : tasks[t].target[m] = ShardsFor(m)
        /\ tasks[t].kind = "recover" => ShardsFor(tasks[t].last) = {}

SerialInv == AgreedInv /\ TaskInv /\ Watched(members)

(* Whoever is informed after the step was so before, of the same list.     *)
KeepsView(m) == InformedOf(m)' => InformedOf(m) /\ Told(m)'.shards = Told(m).shards

LEMMA AgreedStays ==
    ASSUME NEW m \in Machine, AgreedOf(m), KeepsView(m), ShardsFor(m) \subseteq ShardsFor(m)'
    PROVE  AgreedOf(m)'
BY DEF AgreedOf, KeepsView

LEMMA UndisturbedView ==
    ASSUME NEW m \in Machine, UNCHANGED listening,
           inbox'[m] = inbox[m], missed'[m] = missed[m], response'[m] = response[m],
           wGen'[m] = wGen[m], wShards'[m] = wShards[m]
    PROVE  KeepsView(m)
<1>1. Told(m)' = Told(m)
  BY DEF Told
<1>2. Down(m)' <=> Down(m)
  BY DEF Down
<1>. QED BY <1>1, <1>2 DEF KeepsView, InformedOf

(* What an orchestrator step does to the map, the donors being as after it. *)
MapAgrees ==
    \/ UNCHANGED mapVars /\ \A n \in Machine : Donor(n) => Donor(n)'
    \/ \E m \in Machine : \E S \in SUBSET Shard :
          /\ Assign(m, S)
          /\ \A n \in Machine \ {m} :
                ~Donor(n)' => ~Donor(n) /\ ShardsFor(n) \subseteq ShardsFor(n)'

(* The machine of an assignment is told of it, or is not informed.         *)
LEMMA AssignAgrees ==
    ASSUME TypeOK, FenceInv, NEW m \in Machine, NEW S \in SUBSET Shard, Assign(m, S),
           response'[m] = response[m]
    PROVE  AgreedOf(m)'
<1>. DEFINE msg == [generation |-> generation + 1, shards |-> S]
<1>0. UNCHANGED listening
  BY DEF Assign
<1>1. CASE m \in listening
  <2>1. inbox'[m] = Append(inbox[m], msg) /\ inbox[m] \in Seq(Assignment)
    BY <1>1 DEF Assign, Publish, TypeOK, MapTypeOK
  <2>2. inbox'[m] # << >> /\ inbox'[m][Len(inbox'[m])] = msg
    BY <2>1
  <2>3. Told(m)' = msg
    BY <2>2 DEF Told
  <2>4. S \subseteq ShardsFor(m)'
    BY DEF ShardsFor, Assign
  <2>. QED BY <2>3, <2>4 DEF AgreedOf
<1>2. CASE m \notin listening /\ response[m] = {}
  BY <1>0, <1>2 DEF Down, AgreedOf, InformedOf
<1>3. CASE m \notin listening /\ response[m] # {}
  <2>1. missed'[m] = generation + 1
    BY <1>3 DEF Assign, Publish, TypeOK, MapTypeOK
  <2>2. inbox'[m] = << >>
    BY <1>3 DEF Assign, Publish, FenceInv, OnlyListenersQueue
  <2>3. Told(m)' \in response[m]
    BY <1>3, <2>2 DEF Told
  <2>4. Told(m)'.generation <= generation /\ Told(m)'.generation \in Nat
    BY <2>3 DEF FenceInv, ResponsesNotAhead, TypeOK, Assignment
  <2>5. generation \in Nat
    BY DEF TypeOK, MapTypeOK
  <2>. QED BY <2>1, <2>4, <2>5 DEF AgreedOf, InformedOf
<1>. QED BY <1>1, <1>2, <1>3

LEMMA EffectAgrees ==
    ASSUME TypeOK, FenceInv, AgreedInv, MapAgrees, NEW n \in Machine, ~Donor(n)',
           response'[n] = response[n], wGen'[n] = wGen[n], wShards'[n] = wShards[n]
    PROVE  AgreedOf(n)'
<1>1. CASE UNCHANGED mapVars /\ \A x \in Machine : Donor(x) => Donor(x)'
  <2>1. ~Donor(n) /\ AgreedOf(n)
    BY <1>1 DEF AgreedInv
  <2>2. KeepsView(n)
    BY <1>1, UndisturbedView DEF mapVars
  <2>3. ShardsFor(n) \subseteq ShardsFor(n)'
    BY <1>1 DEF ShardsFor, mapVars
  <2>. QED BY <2>1, <2>2, <2>3, AgreedStays
<1>2. ASSUME NEW m \in Machine, NEW S \in SUBSET Shard, Assign(m, S),
             \A x \in Machine \ {m} :
                ~Donor(x)' => ~Donor(x) /\ ShardsFor(x) \subseteq ShardsFor(x)'
      PROVE  AgreedOf(n)'
  <2>1. CASE n = m
    BY <1>2, <2>1, AssignAgrees
  <2>2. CASE n # m
    <3>1. ~Donor(n) /\ ShardsFor(n) \subseteq ShardsFor(n)' /\ AgreedOf(n)
      BY <1>2, <2>2 DEF AgreedInv
    <3>2. inbox'[n] = inbox[n] /\ missed'[n] = missed[n] /\ UNCHANGED listening
      BY <1>2, <2>2 DEF Assign, Publish, TypeOK, MapTypeOK
    <3>3. KeepsView(n)
      BY <3>2, UndisturbedView
    <3>. QED BY <3>1, <3>3, AgreedStays
  <2>. QED BY <2>1, <2>2
<1>. QED BY <1>1, <1>2 DEF MapAgrees

(* The steps of the workers.                                               *)
LEMMA SubscribeView ==
    ASSUME TypeOK, FenceInv, NEW m \in Machine, Subscribe(m), NEW n \in Machine
    PROVE  KeepsView(n)
<1>1. PICK r \in response[m] : /\ wGen' = [wGen EXCEPT ![m] = r.generation]
                               /\ wShards' = [wShards EXCEPT ![m] = r.shards]
  BY DEF Subscribe
<1>2. UNCHANGED <<owner, inbox, missed>>
  BY DEF Subscribe
<1>3. m \notin listening /\ inbox[m] = << >>
  BY <1>1 DEF FenceInv, OneResponse, OnlyListenersQueue
<1>4. KeepsView(m)
  <2>1. Told(m) = r
    <3>1. Told(m) \in response[m]
      BY <1>1, <1>3 DEF Told
    <3>. QED BY <1>1, <3>1 DEF FenceInv, OneResponse
  <2>2. /\ response'[m] = {} /\ inbox'[m] = << >>
        /\ wGen'[m] = r.generation /\ wShards'[m] = r.shards
    BY <1>1, <1>2, <1>3 DEF Subscribe, TypeOK
  <2>3. Told(m)' = [generation |-> r.generation, shards |-> r.shards]
    BY <2>2 DEF Told
  <2>4. ~Down(m)
    BY <1>1 DEF Down
  <2>. QED BY <1>2, <2>1, <2>3, <2>4 DEF KeepsView, InformedOf
<1>5. ASSUME n # m
      PROVE  KeepsView(n)
  <2>1. /\ response'[n] = response[n] /\ wGen'[n] = wGen[n] /\ wShards'[n] = wShards[n]
        /\ n \in listening' <=> n \in listening
    BY <1>1, <1>5 DEF Subscribe, TypeOK
  <2>. QED BY <1>2, <2>1 DEF KeepsView, InformedOf, Told, Down
<1>. QED BY <1>4, <1>5

LEMMA ApplyView ==
    ASSUME TypeOK, FenceInv, NEW m \in Machine, ApplyAssignment(m), NEW n \in Machine
    PROVE  KeepsView(n)
<1>1. inbox[m] # << >> /\ inbox' = [inbox EXCEPT ![m] = Tail(@)]
  BY DEF ApplyAssignment
<1>2. UNCHANGED <<owner, listening, missed, response>>
  BY DEF ApplyAssignment
<1>3. /\ wGen' = [wGen EXCEPT ![m] = Head(inbox[m]).generation]
      /\ wShards' = [wShards EXCEPT ![m] = Head(inbox[m]).shards]
  BY ApplyTakesHead
<1>4. ASSUME n # m
      PROVE  KeepsView(n)
  <2>1. /\ inbox'[n] = inbox[n] /\ missed'[n] = missed[n] /\ response'[n] = response[n]
        /\ wGen'[n] = wGen[n] /\ wShards'[n] = wShards[n]
    BY <1>1, <1>2, <1>3, <1>4 DEF TypeOK, MapTypeOK
  <2>. QED BY <1>2, <2>1, UndisturbedView
<1>5. KeepsView(m)
  <2>1. m \in listening /\ response[m] = {}
    BY <1>1 DEF FenceInv, OnlyListenersQueue, OneResponse
  <2>2. /\ inbox'[m] = Tail(inbox[m])
        /\ wGen'[m] = Head(inbox[m]).generation /\ wShards'[m] = Head(inbox[m]).shards
    BY <1>1, <1>3 DEF TypeOK, MapTypeOK
  <2>3. Told(m) = inbox[m][Len(inbox[m])]
    BY <1>1 DEF Told
  <2>4. Told(m)'.generation = Told(m).generation /\ Told(m)'.shards = Told(m).shards
    BY <1>1, <1>2, <2>1, <2>2, <2>3, QueueEnds DEF Told
  <2>. QED BY <1>2, <2>1, <2>4 DEF KeepsView, InformedOf, Down
<1>. QED BY <1>4, <1>5

(* Who has lost an update was informed if it is; and who was not lost one  *)
(* that is still the last.                                                 *)
LEMMA LoseView ==
    ASSUME TypeOK, FenceInv, NEW m \in Machine, LoseUpdate(m), NEW n \in Machine
    PROVE  KeepsView(n)
<1>1. inbox[m] # << >> /\ inbox' = [inbox EXCEPT ![m] = Tail(@)]
  BY DEF LoseUpdate
<1>2. UNCHANGED <<owner, listening, response, wGen, wShards>>
  BY DEF LoseUpdate, workerVars
<1>3. missed' = [missed EXCEPT ![m] = Head(inbox[m]).generation]
  BY DEF LoseUpdate
<1>4. ASSUME n # m
      PROVE  KeepsView(n)
  <2>1. inbox'[n] = inbox[n] /\ missed'[n] = missed[n]
    BY <1>1, <1>3, <1>4 DEF TypeOK, MapTypeOK
  <2>. QED BY <1>2, <2>1, UndisturbedView
<1>5. KeepsView(m)
  <2>1. m \in listening /\ response[m] = {}
    BY <1>1 DEF FenceInv, OnlyListenersQueue, OneResponse
  <2>2. inbox'[m] = Tail(inbox[m]) /\ missed'[m] = inbox[m][1].generation
    BY <1>1, <1>3, TailIndex DEF TypeOK, MapTypeOK
  <2>3. CASE Tail(inbox[m]) = << >>
    <3>1. Told(m)' = [generation |-> wGen[m], shards |-> wShards[m]]
      BY <1>2, <2>1, <2>2, <2>3 DEF Told
    <3>2. wGen[m] < inbox[m][1].generation
      BY <1>1, TailIndex DEF FenceInv, InOrder
    <3>3. wGen[m] \in Nat /\ inbox[m][1].generation \in Nat
      BY <1>1, TailIndex, QueuedTyped DEF TypeOK
    <3>. QED BY <2>2, <3>1, <3>2, <3>3 DEF KeepsView, InformedOf
  <2>4. CASE Tail(inbox[m]) # << >>
    <3>1. Told(m)' = Told(m)
      BY <1>1, <2>2, <2>4, QueueEnds DEF Told
    <3>2. Told(m) = inbox[m][Len(inbox[m])]
      BY <1>1 DEF Told
    <3>3. Len(inbox[m]) \in DOMAIN inbox[m]
      <4>1. inbox[m] \in Seq(Assignment)
        BY DEF TypeOK, MapTypeOK
      <4>. QED BY <1>1, <4>1
    <3>4. missed[m] < Told(m).generation
      BY <3>2, <3>3 DEF FenceInv, LossesAreBehind
    <3>5. missed[m] \in Nat /\ Told(m).generation \in Nat
      BY <3>2, <3>3, QueuedTyped DEF TypeOK, MapTypeOK
    <3>. QED BY <2>1, <3>1, <3>4, <3>5 DEF KeepsView, InformedOf, Down
  <2>. QED BY <2>3, <2>4
<1>. QED BY <1>4, <1>5

LEMMA ExitView ==
    ASSUME TypeOK, NEW m \in Machine, Exit(m), NEW n \in Machine
    PROVE  KeepsView(n)
<1>1. Down(m)'
  BY DEF Down, Exit, TypeOK
<1>2. ASSUME n # m
      PROVE  KeepsView(n)
  <2>1. /\ inbox'[n] = inbox[n] /\ missed'[n] = missed[n] /\ response'[n] = response[n]
        /\ n \in listening' <=> n \in listening
        /\ UNCHANGED <<wGen, wShards>>
    BY <1>2 DEF Exit, TypeOK, MapTypeOK
  <2>. QED BY <2>1 DEF KeepsView, InformedOf, Told, Down
<1>. QED BY <1>1, <1>2 DEF KeepsView, InformedOf

(* What an operation leaves, up to its next suspension.                    *)
Leaves == TaskInv' /\ Watched(members)' /\ MapAgrees

(* With one operation, what is true of it is true of all.                  *)
LEMMA TheTask ==
    ASSUME TypeOK, Serial, NEW t \in Task,
           NEW kind, NEW last, NEW todo, NEW target, Suspend(t, kind, last, todo, target)
    PROVE  /\ \A u \in Task : u = t
           /\ \A u \in Task :
                 tasks'[u] = [kind |-> kind, last |-> last, todo |-> todo, target |-> target]
           /\ \A n \in Machine : Donor(n)' <=> kind = "shift" /\ n \in todo
<1>1. \A u \in Task : u = t
  BY DEF Serial
<1>2. tasks'[t] = [kind |-> kind, last |-> last, todo |-> todo, target |-> target]
  BY DEF Suspend, TypeOK, PlaneTypeOK
<1>. QED BY <1>1, <1>2 DEF Donor

LEMMA TheIdle ==
    ASSUME TypeOK, Serial, NEW t \in Task, Finish(t)
    PROVE  TaskInv' /\ \A n \in Machine : ~Donor(n)'
<1>1. \A u \in Task : u = t
  BY DEF Serial
<1>2. tasks'[t] = Idle
  BY DEF Finish, TypeOK, PlaneTypeOK
<1>. QED BY <1>1, <1>2 DEF Donor, TaskInv, Idle

LEMMA NoDonor ==
    ASSUME Serial, NEW t \in Task, tasks[t].kind # "shift"
    PROVE  \A n \in Machine : ~Donor(n)
BY DEF Serial, Donor

(* A machine is given what fits.                                           *)
LEMMA LoopLeavesMap ==
    ASSUME TypeOK, Serial, NEW t \in Task, NEW kind \in {"join", "fill"},
           NEW known \in SUBSET Machine, members' = known, Watched(known),
           NEW todo \in SUBSET known, NEW target \in [Machine -> SUBSET Shard],
           Extends(todo, target), \A n \in Machine : ~Donor(n),
           LoopAssign(t, kind, todo, target)
    PROVE  Leaves
<1>1. PICK m \in Due(todo, target) :
          \E passed \in SUBSET (todo \ Due(todo, target)) :
              /\ Assign(m, target[m])
              /\ Suspend(t, kind, m, todo \ ({m} \cup passed), target)
  BY DEF LoopAssign
<1>2. m \in todo /\ m \in Machine /\ target[m] \in SUBSET Shard
  BY DEF Due
<1>3. PICK passed : Suspend(t, kind, m, todo \ ({m} \cup passed), target)
  BY <1>1
<1>. DEFINE rest == todo \ ({m} \cup passed)
<1>4. \A u \in Task : tasks'[u] = [kind |-> kind, last |-> m, todo |-> rest, target |-> target]
  BY <1>3, TheTask
<1>5. /\ ShardsFor(m)' = target[m]
      /\ \A n \in Machine \ {m} : ShardsFor(n)' = ShardsFor(n)
      /\ Unowned' = Unowned \ target[m]
  <2>1. owner' = [s \in Shard |-> IF s \in target[m] THEN m
                                  ELSE IF owner[s] = m THEN Nobody ELSE owner[s]]
    BY <1>1 DEF Assign
  <2>2. ShardsFor(m) \subseteq target[m] /\ target[m] \subseteq ShardsFor(m) \cup Unowned
    BY <1>2 DEF Extends
  <2>. QED BY <1>2, <2>1, <2>2, NobodyAssumption DEF ShardsFor, Unowned
<1>6. TaskInv'
  <2>1. rest \subseteq members'
    OBVIOUS
  <2>2. Extends(rest, target)'
    BY <1>2, <1>5 DEF Extends
  <2>3. \A u \in Task : /\ tasks'[u].kind \in {"join", "fill"}
                        /\ tasks'[u].todo = rest /\ tasks'[u].target = target
    BY <1>4
  <2>. HIDE DEF rest
  <2>. QED BY <2>1, <2>2, <2>3 DEF TaskInv, Extends
<1>7. Watched(members)'
  BY <1>1, <1>2 DEF Watched, Assign
<1>8. MapAgrees
  BY <1>1, <1>2, <1>5 DEF MapAgrees
<1>. QED BY <1>6, <1>7, <1>8 DEF Leaves

LEMMA FillPlanExtends ==
    ASSUME NEW elig \in SUBSET Machine, NEW target \in FillPlan(elig)
    PROVE  Extends(elig, target)
<1>1. PICK place \in [Unowned -> elig] : target = Filled(place)
  BY DEF FillPlan
<1>. QED BY <1>1, NobodyAssumption DEF Filled, Extends, ShardsFor, Unowned

LEMMA StartFillLeavesMap ==
    ASSUME TypeOK, Serial, NEW t \in Task, NEW kind \in {"join", "fill"},
           NEW known \in SUBSET Machine, members' = known, Watched(known),
           \A n \in Machine : ~Donor(n), StartFill(t, kind, known)
    PROVE  Leaves
<1>1. Eligible(known) \in SUBSET Machine /\ Eligible(known) \subseteq known
  BY DEF Eligible
<1>2. PICK target \in FillPlan(Eligible(known)) :
          LoopAssign(t, kind, Eligible(known), target)
  BY DEF StartFill
<1>3. target \in [Machine -> SUBSET Shard]
  BY <1>1, FillPlanTyped
<1>4. Extends(Eligible(known), target)
  BY <1>1, FillPlanExtends
<1>. QED BY <1>1, <1>2, <1>3, <1>4, LoopLeavesMap

(* The load moves nothing.                                                 *)
LEMMA NothingMoves == ASSUME Serial, NEW known PROVE Proposal(known) = {}
<1>1. 1 .. MaxMoves = {}
  BY DEF Serial
<1>. QED BY <1>1 DEF Proposal

LEMMA AfterFillLeavesMap ==
    ASSUME TypeOK, Serial, NEW t \in Task, NEW known \in SUBSET Machine,
           members' = known, Watched(known), \A n \in Machine : ~Donor(n), AfterFill(t, known)
    PROVE  Leaves
<1>1. Finish(t) /\ UNCHANGED mapVars
  BY NothingMoves DEF AfterFill, StartMoves
<1>2. TaskInv' /\ MapAgrees
  BY <1>1, TheIdle DEF MapAgrees
<1>3. Watched(members)'
  BY <1>1 DEF Watched, mapVars
<1>. QED BY <1>2, <1>3 DEF Leaves

LEMMA StartCycleLeavesMap ==
    ASSUME TypeOK, Serial, NEW t \in Task, NEW known \in SUBSET Machine,
           members' = known, Watched(known), \A n \in Machine : ~Donor(n), StartCycle(t, known)
    PROVE  Leaves
BY StartFillLeavesMap, AfterFillLeavesMap DEF StartCycle

(* A machine loses all that it has.                                        *)
LEMMA ClearLeaves ==
    ASSUME TypeOK, Serial, TaskInv, Watched(members), NEW t \in Task, tasks[t].kind # "shift",
           NEW kind \in {"recover", "drain"}, NEW m \in Machine,
           Suspend(t, kind, m, {}, NoTarget), members' = members,
           Assign(m, {}) \/ (UNCHANGED mapVars /\ ShardsFor(m) = {})
    PROVE  Leaves
<1>1. ShardsFor(m)' = {} /\ \A n \in Machine \ {m} : ShardsFor(n)' = ShardsFor(n)
  BY NobodyAssumption DEF Assign, ShardsFor, mapVars
<1>2. \A u \in Task : tasks'[u] = [kind |-> kind, last |-> m, todo |-> {}, target |-> NoTarget]
  BY TheTask
<1>3. TaskInv'
  BY <1>1, <1>2 DEF TaskInv
<1>4. Watched(members)'
  BY DEF Watched, Assign, mapVars
<1>5. MapAgrees
  BY <1>1, NoDonor DEF MapAgrees
<1>. QED BY <1>3, <1>4, <1>5 DEF Leaves

(* The receiver of a shift is assigned, the donor is to be.                *)
LEMMA ShiftLeaves ==
    ASSUME TypeOK, Serial, TaskInv, Watched(members), NEW t \in Task,
           NEW s \in Shard, NEW m \in Machine, "shift" \in Event, ShardShift(t, s, m)
    PROVE  Leaves
<1>. DEFINE from == {owner[s]} \ {Nobody}
            target == [x \in Machine |-> IF x \in from THEN ShardsFor(x) \ {s} ELSE {}]
            S == ShardsFor(m) \cup {s}
<1>1. Suspend(t, "shift", Nobody, from, target) /\ Assign(m, S) /\ members' = members
  BY DEF ShardShift
<1>2. tasks[t].kind = "idle" /\ m \in members /\ owner[s] # m
  BY DEF ShardShift
<1>3. /\ \A u \in Task :
            tasks'[u] = [kind |-> "shift", last |-> Nobody, todo |-> from, target |-> target]
      /\ \A n \in Machine : Donor(n)' <=> n \in from
  <2>. HIDE DEF from, target, S
  <2>. QED BY <1>1, TheTask
<1>4. \A n \in Machine \ {m} : ShardsFor(n)' = ShardsFor(n) \ {s}
  BY <1>1 DEF Assign, ShardsFor
<1>5. \A n \in from : n \in Machine \ {m} /\ owner[s] = n
  BY <1>2 DEF TypeOK, MapTypeOK
<1>6. TaskInv'
  <2>1. \A x, y \in from : x = y
    OBVIOUS
  <2>2. \A x \in from : target[x] = ShardsFor(x)'
    BY <1>4, <1>5
  <2>. QED
    <3>. HIDE DEF from, target
    <3>. QED BY <1>3, <2>1, <2>2 DEF TaskInv
<1>7. Watched(members)'
  BY <1>1, <1>2 DEF Watched, Assign
<1>8. ASSUME NEW n \in Machine \ {m}, ~Donor(n)'
      PROVE  ~Donor(n) /\ ShardsFor(n) \subseteq ShardsFor(n)'
  <2>1. ~Donor(n)
    BY <1>2, NoDonor
  <2>2. n \notin from
    BY <1>3, <1>8
  <2>3. owner[s] # n
    BY <2>2, NobodyAssumption
  <2>. QED BY <1>4, <2>1, <2>3 DEF ShardsFor
<1>9. S \in SUBSET Shard
  BY DEF ShardsFor
<1>. QED BY <1>1, <1>6, <1>7, <1>8, <1>9 DEF Leaves, MapAgrees

LEMMA ResumeShiftLeaves ==
    ASSUME TypeOK, Serial, TaskInv, Watched(members), NEW t \in Task, ResumeShift(t)
    PROVE  Leaves
<1>1. tasks[t].kind = "shift" /\ members' = members
  BY DEF ResumeShift
<1>2. CASE tasks[t].todo = {} /\ Finish(t) /\ UNCHANGED mapVars
  <2>1. \A n \in Machine : ~Donor(n)
    BY <1>2 DEF Serial, Donor
  <2>2. TaskInv' /\ MapAgrees
    BY <1>2, <2>1, TheIdle DEF MapAgrees
  <2>3. Watched(members)'
    BY <1>1, <1>2 DEF Watched, mapVars
  <2>. QED BY <2>2, <2>3 DEF Leaves
<1>3. ASSUME NEW from \in tasks[t].todo, Assign(from, tasks[t].target[from]),
             Suspend(t, "shift", Nobody, {}, NoTarget)
      PROVE  Leaves
  <2>1. from \in Machine /\ tasks[t].target[from] = ShardsFor(from) /\ "shift" \in Event
    BY <1>1, TaskFieldsTyped DEF TaskInv
  <2>2. \A n \in Machine : n # from => ~Donor(n)
    BY <1>1 DEF Serial, Donor, TaskInv
  <2>3. owner' = owner
    BY <1>3, <2>1 DEF Assign, ShardsFor, TypeOK, MapTypeOK
  <2>4. \A n \in Machine : ShardsFor(n)' = ShardsFor(n)
    BY <2>3 DEF ShardsFor
  <2>5. TaskInv'
    <3>1. \A u \in Task :
             tasks'[u] = [kind |-> "shift", last |-> Nobody, todo |-> {}, target |-> NoTarget]
      BY <1>3, TheTask
    <3>. QED BY <2>1, <3>1 DEF TaskInv
  <2>6. Watched(members)'
    BY <1>1, <2>3 DEF Watched
  <2>7. MapAgrees
    BY <1>3, <2>1, <2>2, <2>4, ShardsForTyped DEF MapAgrees
  <2>. QED BY <2>5, <2>6, <2>7 DEF Leaves
<1>. QED BY <1>2, <1>3 DEF ResumeShift

LEMMA ResumeLoopLeaves ==
    ASSUME TypeOK, Serial, TaskInv, Watched(members), NEW t \in Task, ResumeLoop(t)
    PROVE  Leaves
<1>1. tasks[t].kind \in {"join", "fill"} /\ members' = members /\ members \in SUBSET Machine
  BY DEF ResumeLoop, TaskInv, TypeOK, PlaneTypeOK
<1>2. \A n \in Machine : ~Donor(n)
  BY <1>1, NoDonor
<1>3. /\ tasks[t].todo \in SUBSET members /\ Extends(tasks[t].todo, tasks[t].target)
      /\ tasks[t].target \in [Machine -> SUBSET Shard]
  BY <1>1, TaskFieldsTyped DEF TaskInv
<1>4. CASE LoopAssign(t, tasks[t].kind, tasks[t].todo, tasks[t].target)
  BY <1>1, <1>2, <1>3, <1>4, LoopLeavesMap
<1>5. CASE AfterFill(t, members)
  BY <1>1, <1>2, <1>5, AfterFillLeavesMap
<1>6. CASE Finish(t) /\ UNCHANGED mapVars
  <2>1. TaskInv' /\ MapAgrees
    BY <1>2, <1>6, TheIdle DEF MapAgrees
  <2>2. Watched(members)'
    BY <1>1, <1>6 DEF Watched, mapVars
  <2>. QED BY <2>1, <2>2 DEF Leaves
<1>. QED BY <1>4, <1>5, <1>6 DEF ResumeLoop

LEMMA ResumeRecoverLeaves ==
    ASSUME TypeOK, Serial, TaskInv, Watched(members), NEW t \in Task, ResumeRecover(t)
    PROVE  Leaves
<1>1. /\ tasks[t].kind = "recover" /\ members' = members \ {tasks[t].last}
      /\ StartCycle(t, members')
  BY DEF ResumeRecover
<1>2. \A n \in Machine : ~Donor(n)
  BY <1>1, NoDonor
<1>3. ShardsFor(tasks[t].last) = {}
  BY <1>1 DEF TaskInv
<1>4. Watched(members')
  BY <1>1, <1>3 DEF Watched, ShardsFor
<1>5. members' \in SUBSET Machine
  BY <1>1 DEF TypeOK, PlaneTypeOK
<1>. QED BY <1>1, <1>2, <1>4, <1>5, StartCycleLeavesMap

(* An operation ends, or waits, and the map stays.                         *)
LEMMA RestLeaves ==
    ASSUME TypeOK, Serial, Watched(members), NEW t \in Task, tasks[t].kind # "shift",
           Finish(t) \/ \E kind \in {"poll", "ack"}, m \in Machine \cup {Nobody} :
                            Suspend(t, kind, m, {}, NoTarget),
           UNCHANGED <<mapVars, members>>
    PROVE  Leaves
<1>1. TaskInv'
  <2>1. CASE Finish(t)
    BY <2>1, TheIdle
  <2>2. ASSUME NEW kind \in {"poll", "ack"}, NEW m, Suspend(t, kind, m, {}, NoTarget)
        PROVE  TaskInv'
    <3>1. \A u \in Task : tasks'[u] = [kind |-> kind, last |-> m, todo |-> {}, target |-> NoTarget]
      BY <2>2, TheTask
    <3>. QED BY <3>1 DEF TaskInv
  <2>. QED BY <2>1, <2>2
<1>2. Watched(members)'
  BY DEF Watched, mapVars
<1>3. MapAgrees
  BY NoDonor DEF MapAgrees
<1>. QED BY <1>1, <1>2, <1>3 DEF Leaves

LEMMA OrchestratorLeaves ==
    ASSUME TypeOK, Serial, TaskInv, Watched(members), OrchestratorStep
    PROVE  Leaves
<1>0. members \in SUBSET Machine
  BY DEF TypeOK, PlaneTypeOK
<1>1. ASSUME NEW t \in Task, Rebalances(t)
      PROVE  Leaves
  <2>1. tasks[t].kind = "idle" /\ members' = members /\ StartCycle(t, members)
    BY <1>1 DEF Rebalances, RebalanceTimer
  <2>2. \A n \in Machine : ~Donor(n)
    BY <2>1, NoDonor
  <2>. QED BY <1>0, <2>1, <2>2, StartCycleLeavesMap
<1>2. ASSUME NEW t \in Task, ResumesTask(t)
      PROVE  Leaves
  <2>1. CASE ResumeDrain(t)
    <3>1. /\ \/ Finish(t)
             \/ \E kind \in {"poll", "ack"} : Suspend(t, kind, tasks[t].last, {}, NoTarget)
          /\ UNCHANGED <<mapVars, members>> /\ tasks[t].kind # "shift"
      BY <2>1 DEF ResumeDrain, SendInstruct
    <3>2. tasks[t].last \in Machine \cup {Nobody}
      BY DEF TypeOK, PlaneTypeOK, TaskRecord
    <3>. QED BY <3>1, <3>2, RestLeaves
  <2>. QED BY <1>2, <2>1, ResumeLoopLeaves, ResumeShiftLeaves, ResumeRecoverLeaves
       DEF ResumesTask, Resume
<1>3. ASSUME NEW t \in Task, TimesOut(t)
      PROVE  Leaves
  BY <1>3, RestLeaves DEF TimesOut, AckTimeout
<1>4. ASSUME NEW t \in Task, Aborts(t)
      PROVE  Leaves
  <2>1. tasks[t].kind # "shift"
    BY <1>4 DEF Aborts, Happens, TaskInv, Serial
  <2>. QED BY <1>4, <2>1, RestLeaves DEF Aborts, Abort
<1>5. ASSUME NEW t \in Task, NEW m \in Machine, DeclaresDead(t, m)
      PROVE  Leaves
  BY <1>5, ClearLeaves DEF DeclaresDead, DeclareDead, ClearMachine
<1>6. ASSUME NEW t \in Task, NEW m \in Machine, Updates(t, m)
      PROVE  Leaves
  BY <1>6, ClearLeaves DEF Updates, StartUpdate
<1>7. ASSUME NEW t \in Task, NEW m \in Machine, NEW s \in Shard, Shifts(t, s, m)
      PROVE  Leaves
  BY <1>7, ShiftLeaves DEF Shifts, Happens
<1>. QED BY <1>1, <1>2, <1>3, <1>4, <1>5, <1>6, <1>7 DEF OrchestratorStep

LEMMA OrchestratorAgrees ==
    ASSUME TypeOK, FenceInv, Serial, SerialInv, OrchestratorStep
    PROVE  SerialInv'
<1>1. Leaves
  BY OrchestratorLeaves DEF SerialInv
<1>2. UNCHANGED workerVars
  BY OrchestratorEffect
<1>3. AgreedInv'
  BY <1>1, <1>2, EffectAgrees DEF AgreedInv, SerialInv, Leaves, workerVars
<1>. QED BY <1>1, <1>3 DEF SerialInv, Leaves

LEMMA RegisterAgrees ==
    ASSUME TypeOK, FenceInv, Serial, SerialInv, NEW m \in Machine, WorkerRegisters(m)
    PROVE  SerialInv'
<1>1. members' = members \cup {m} /\ members' \in SUBSET Machine
  BY DEF WorkerRegisters, Register, TypeOK, PlaneTypeOK
<1>2. Leaves
  <2>1. CASE UNCHANGED <<mapVars, tasks>>
    <3>1. \A n \in Machine : Donor(n)' <=> Donor(n)
      BY <2>1 DEF Donor
    <3>2. TaskInv' /\ Watched(members)'
      BY <1>1, <2>1 DEF SerialInv, TaskInv, Watched, Extends, ShardsFor, Unowned, mapVars
    <3>. QED BY <2>1, <3>1, <3>2 DEF Leaves, MapAgrees
  <2>2. ASSUME NEW t \in Task, tasks[t].kind = "idle", StartFill(t, "join", members')
        PROVE  Leaves
    <3>1. Watched(members')
      BY <1>1 DEF SerialInv, Watched
    <3>2. \A n \in Machine : ~Donor(n)
      BY <2>2, NoDonor
    <3>. QED BY <1>1, <2>2, <3>1, <3>2, StartFillLeavesMap
  <2>. QED BY <2>1, <2>2 DEF WorkerRegisters, Register
<1>3. \A n \in Machine : response'[n] = IF n = m THEN {Response(m)} ELSE response[n]
  BY DEF WorkerRegisters, TypeOK
<1>4. UNCHANGED <<wGen, wShards>>
  BY DEF WorkerRegisters
<1>5. ASSUME NEW n \in Machine, n # m, ~Donor(n)'
      PROVE  AgreedOf(n)'
  BY <1>2, <1>3, <1>4, <1>5, EffectAgrees DEF SerialInv, Leaves
<1>6. AgreedOf(m)'
  <2>1. m \notin listening'
    BY RegisterEffect, EffectListening DEF WorkerRegisters, Down
  <2>2. inbox'[m] = << >>
    BY <2>1, RegisterFence DEF FenceInv, OnlyListenersQueue
  <2>3. Told(m)' \in {Response(m)}
    BY <1>3, <2>2 DEF Told
  <2>. QED BY <2>3 DEF AgreedOf, Response, ShardsFor
<1>. QED BY <1>2, <1>5, <1>6 DEF SerialInv, AgreedInv, Leaves

(* A step of a worker, which leaves the map and the operations.            *)
LEMMA WorkerAgrees ==
    ASSUME SerialInv, UNCHANGED <<owner, members>>,
           UNCHANGED tasks \/ \E t \in Task : tasks[t].kind = "ack" /\ Finish(t),
           TypeOK, Serial, \A n \in Machine : KeepsView(n)
    PROVE  SerialInv'
<1>1. \A n \in Machine : ShardsFor(n)' = ShardsFor(n)
  BY DEF ShardsFor
<1>2. /\ \A n \in Machine : Donor(n) <=> Donor(n)'
      /\ TaskInv'
  <2>1. CASE UNCHANGED tasks
    BY <2>1 DEF Donor, SerialInv, TaskInv, Extends, ShardsFor, Unowned
  <2>2. ASSUME NEW t \in Task, tasks[t].kind = "ack", Finish(t)
        PROVE  (\A n \in Machine : Donor(n) <=> Donor(n)') /\ TaskInv'
    BY <2>2, TheIdle, NoDonor
  <2>. QED BY <2>1, <2>2
<1>3. AgreedInv'
  BY <1>1, <1>2, AgreedStays DEF SerialInv, AgreedInv
<1>4. Watched(members)'
  BY DEF SerialInv, Watched
<1>. QED BY <1>2, <1>3, <1>4 DEF SerialInv

LEMMA InitSerial == Init => SerialInv
<1>. SUFFICES ASSUME Init PROVE SerialInv
  OBVIOUS
<1>1. AgreedInv
  BY DEF Init, MapInit, AgreedInv, AgreedOf, InformedOf, Down
<1>2. TaskInv /\ Watched(members)
  BY DEF Init, MapInit, PlaneInit, TaskInv, Watched, Idle
<1>. QED BY <1>1, <1>2 DEF SerialInv

LEMMA NextSerial ==
    ASSUME Serial PROVE TypeOK /\ FenceInv /\ SerialInv /\ [Next]_vars => SerialInv'
<1>. SUFFICES ASSUME TypeOK, FenceInv, SerialInv, [Next]_vars PROVE SerialInv'
  OBVIOUS
<1>1. ASSUME NEW m \in Machine, Subscribe(m)
      PROVE  SerialInv'
  BY <1>1, SubscribeView, WorkerAgrees DEF Subscribe, planeVars
<1>2. ASSUME NEW m \in Machine, ApplyAssignment(m)
      PROVE  SerialInv'
  BY <1>2, ApplyView, WorkerAgrees DEF ApplyAssignment, planeVars
<1>3. ASSUME NEW m \in Machine, LoseUpdate(m)
      PROVE  SerialInv'
  BY <1>3, LoseView, WorkerAgrees DEF LoseUpdate, planeVars
<1>4. ASSUME UNCHANGED <<mapVars, workerVars>>
      PROVE  UNCHANGED owner /\ \A n \in Machine : KeepsView(n)
  BY <1>4, UndisturbedView DEF mapVars, workerVars
<1>5. ASSUME NEW m \in Machine, Heartbeat(m)
      PROVE  SerialInv'
  BY <1>4, <1>5, WorkerAgrees DEF Heartbeat
<1>6. ASSUME NEW m \in Machine, WorkerCrashes(m)
      PROVE  SerialInv'
  BY <1>6, ExitView, WorkerAgrees DEF WorkerCrashes, Exit
<1>7. ASSUME NEW m \in Machine, NEW ok \in BOOLEAN, WorkerAcks(m, ok)
      PROVE  SerialInv'
  <2>1. UNCHANGED owner /\ \A n \in Machine : KeepsView(n)
    BY <1>4, <1>7, ExitView DEF WorkerAcks, Exit
  <2>2. UNCHANGED members /\ (UNCHANGED tasks \/ \E t \in Task : tasks[t].kind = "ack" /\ Finish(t))
    BY <1>7 DEF WorkerAcks
  <2>. QED BY <2>1, <2>2, WorkerAgrees
<1>8. CASE UNCHANGED vars
  BY <1>4, <1>8, WorkerAgrees DEF vars, planeVars
<1>9. ~OrchestratorRestarts
  BY DEF Serial, OrchestratorRestarts, Happens
<1>. QED
  BY <1>1, <1>2, <1>3, <1>5, <1>6, <1>7, <1>8, <1>9, RegisterAgrees, OrchestratorAgrees
  DEF Next, OrchestratorStep

(* At rest a worker runs what it was told, so what the map credits to it.  *)
LEMMA QuietAgrees ==
    ASSUME TypeOK, OwnersAreTold, SerialInv PROVE QuietIsAgreed
<1>1. ASSUME Quiet, NEW m \in Machine, Informed(m)
      PROVE  wShards[m] = ShardsFor(m)
  <2>1. Told(m) = [generation |-> wGen[m], shards |-> wShards[m]]
    BY <1>1 DEF Quiet, Told
  <2>2. InformedOf(m) /\ ~Down(m)
    BY <1>1, <2>1 DEF Informed, InformedOf, Down
  <2>3. ~Donor(m)
    BY <1>1 DEF Quiet, Donor, Idle
  <2>4. wShards[m] \subseteq ShardsFor(m)
    BY <2>1, <2>2, <2>3 DEF SerialInv, AgreedInv, AgreedOf
  <2>5. ShardsFor(m) \subseteq wShards[m]
    BY <2>1, <2>2 DEF OwnersAreTold, InformedOf
  <2>. QED BY <2>4, <2>5
<1>2. members \subseteq Machine
  BY DEF TypeOK, PlaneTypeOK
<1>3. \A m, n \in Machine : m # n => ShardsFor(m) \cap ShardsFor(n) = {}
  BY DEF ShardsFor
<1>4. NoShardRunTwice
  BY <1>1, <1>3 DEF NoShardRunTwice
<1>5. DumpIsWhatWorkersRun
  BY <1>1, <1>2 DEF DumpIsWhatWorkersRun
<1>6. OwnersAreWatched
  BY DEF SerialInv, Watched, OwnersAreWatched
<1>. QED BY <1>4, <1>5, <1>6 DEF QuietIsAgreed

(* As long as one operation of the orchestrator runs at a time, none by    *)
(* load, the map and the workers agree whenever nothing is in flight: no   *)
(* shard is run by two, and none is owned by a machine nobody watches.     *)
THEOREM SerialAgrees == ASSUME Serial PROVE Spec => []QuietIsAgreed
<1>. QED
  BY InitTyped, NextTyped, InitFence, NextFence, InitTold, NextTold, InitSerial, NextSerial,
     QuietAgrees, PTL DEF Spec
===============================================================================
