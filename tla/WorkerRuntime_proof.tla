------------------------ MODULE WorkerRuntime_proof ------------------------
(***************************************************************************)
(* Proofs about WorkerRuntime, for any shards, any number of updates, and  *)
(* any combination of timeouts, expiries and failed logins.  The first two *)
(* theorems hold for any number of calls in flight, the last two while no  *)
(* more than two overlap.                                                  *)
(***************************************************************************)
EXTENDS WorkerRuntime, FiniteSetTheorems, TLAPS

(* The part of TypeOK that the shard adapter changes.                      *)
AdapterTypeOK ==
    /\ up \in BOOLEAN
    /\ calls \in [Call -> CallRecord]
    /\ inflight \in Call \cup {None}
    /\ managed \in [Shard -> 0 .. Len(clients)]
    /\ clients \in Seq(ClientRecord)
    /\ buffered \in SUBSET Shard

(* The records that calls suspend with are call records.                   *)
LEMMA IdleType ==
    /\ Idle \in CallRecord
    /\ \A pc \in Pc : [Idle EXCEPT !.pc = pc] \in CallRecord
    /\ \A S, T \in SUBSET Shard :
           [Idle EXCEPT !.applying = TRUE, !.remove = S, !.add = T] \in CallRecord
    /\ \A S \in SUBSET Shard : [Idle EXCEPT !.remove = S] \in CallRecord
    /\ \A f \in Call, S \in SUBSET Shard :
           [Idle EXCEPT !.pc = "wait", !.on = f, !.target = S] \in CallRecord
BY DEF Idle, CallRecord, Pc

(* What the loops make of a call record is a call record.                  *)
LEMMA WorkType ==
    ASSUME NEW work \in CallRecord
    PROVE  /\ \A S \in SUBSET Shard : [work EXCEPT !.remove = S] \in CallRecord
           /\ \A S \in SUBSET Shard :
                  [work EXCEPT !.remove = {}, !.add = S] \in CallRecord
           /\ \A k \in Nat : [work EXCEPT !.pc = "drop", !.client = k] \in CallRecord
           /\ \A s \in Shard : [work EXCEPT !.pc = "grant", !.shard = s] \in CallRecord
           /\ \A s \in Shard, k \in Nat :
                  [work EXCEPT !.pc = "login", !.shard = s, !.client = k] \in CallRecord
           /\ [work EXCEPT !.pc = "released"] \in CallRecord
           /\ work.remove \in SUBSET Shard /\ work.add \in SUBSET Shard
           /\ work.target \in SUBSET Shard /\ work.client \in Nat
BY DEF CallRecord, Pc

LEMMA AfterApplyType == AfterApply \in CallRecord
BY IdleType DEF AfterApply, Pc

(* A new client of spawnShard keeps the types.                             *)
LEMMA CreateTypes ==
    ASSUME AdapterTypeOK, NEW c \in Call, NEW s \in Shard, NEW work \in CallRecord,
           NEW cl \in Seq(ClientRecord), Len(cl) = Len(clients), Create(c, s, work, cl)
    PROVE  /\ calls' \in [Call -> CallRecord]
           /\ managed' \in [Shard -> 0 .. Len(clients')]
           /\ clients' \in Seq(ClientRecord)
<1>1. [shard |-> s, state |-> "connecting"] \in ClientRecord
  BY DEF ClientRecord
<1>2. clients' \in Seq(ClientRecord) /\ Len(clients') = Len(cl) + 1 /\ Len(cl) \in Nat
  BY <1>1 DEF Create
<1>3. managed' \in [Shard -> 0 .. Len(clients')]
  BY <1>2 DEF Create, AdapterTypeOK
<1>4. calls' \in [Call -> CallRecord]
  <2>1. [work EXCEPT !.pc = "login", !.shard = s, !.client = Len(cl) + 1] \in CallRecord
    <3> DEFINE k == Len(cl) + 1
    <3>1. k \in Nat
      BY <1>2
    <3> HIDE DEF k
    <3>2. [work EXCEPT !.pc = "login", !.shard = s, !.client = k] \in CallRecord
      BY <3>1, WorkType
    <3> QED
      BY <3>2 DEF k
  <2> QED
    BY <2>1 DEF Create, Suspend, AdapterTypeOK
<1> QED
  BY <1>2, <1>3, <1>4

(* A step of the drop and add loops keeps the types.                       *)
LEMMA ProceedTypes ==
    ASSUME AdapterTypeOK, NEW c \in Call, NEW work \in CallRecord,
           NEW cl \in Seq(ClientRecord), Len(cl) = Len(clients),
           NEW flight \in Call \cup {None}, Proceed(c, work, cl, flight)
    PROVE  AdapterTypeOK'
<1> DEFINE present == work.remove \cap Managed
           missing == {s \in work.add : ~IsReady(cl, s)}
<1>0. Len(cl) \in Nat /\ present \subseteq Shard /\ missing \subseteq Shard
  BY DEF CallRecord
<1>1. CASE /\ \E s \in present : DropShard(c, s, [work EXCEPT !.remove = present \ {s}], cl)
           /\ inflight' = flight
  <2>1. PICK s \in present : DropShard(c, s, [work EXCEPT !.remove = present \ {s}], cl)
    BY <1>1
  <2> DEFINE w == [work EXCEPT !.remove = present \ {s}]
  <2>2. w \in CallRecord /\ managed[s] \in Nat /\ s \in Shard
    <3>1. present \ {s} \in SUBSET Shard /\ s \in Shard
      BY <1>0
    <3>2. managed[s] \in Nat
      BY <3>1, <1>0 DEF AdapterTypeOK
    <3>3. w \in CallRecord
      BY <3>1, WorkType
    <3> QED
      BY <3>1, <3>2, <3>3
  <2>3. [w EXCEPT !.pc = "drop", !.client = managed[s]] \in CallRecord
    BY <2>2, WorkType
  <2> HIDE DEF w
  <2>4. calls' \in [Call -> CallRecord]
    BY <2>1, <2>3 DEF DropShard, Suspend, AdapterTypeOK, w
  <2>5. managed' \in [Shard -> 0 .. Len(clients')] /\ clients' \in Seq(ClientRecord)
    BY <2>1, <1>0 DEF DropShard, AdapterTypeOK
  <2>6. up' \in BOOLEAN /\ buffered' \in SUBSET Shard
    BY <2>1 DEF DropShard, AdapterTypeOK
  <2> QED
    BY <1>1, <2>4, <2>5, <2>6 DEF AdapterTypeOK
<1>2. CASE /\ \E s \in missing :
                  WaitForGrant(c, s, [work EXCEPT !.remove = {}, !.add = missing \ {s}], cl)
           /\ inflight' = flight
  <2>1. PICK s \in missing :
            WaitForGrant(c, s, [work EXCEPT !.remove = {}, !.add = missing \ {s}], cl)
    BY <1>2
  <2> DEFINE w == [work EXCEPT !.remove = {}, !.add = missing \ {s}]
  <2>2. w \in CallRecord /\ s \in Shard
    BY <1>0, WorkType
  <2> HIDE DEF w
  <2>3. CASE s \in buffered /\ buffered' = buffered \ {s} /\ Create(c, s, w, cl) /\ UNCHANGED up
    BY <2>2, <2>3, <1>2, CreateTypes DEF AdapterTypeOK
  <2>4. CASE /\ up' = (Waiting(s) = {})
             /\ Suspend(c, [w EXCEPT !.pc = "grant", !.shard = s])
             /\ clients' = cl
             /\ UNCHANGED <<managed, buffered>>
    <3>1. [w EXCEPT !.pc = "grant", !.shard = s] \in CallRecord
      BY <2>2, WorkType
    <3>2. calls' \in [Call -> CallRecord]
      BY <2>4, <3>1 DEF Suspend, AdapterTypeOK
    <3>3. up' \in BOOLEAN
      BY <2>4
    <3> QED
      BY <2>4, <3>2, <3>3, <1>2 DEF AdapterTypeOK
  <2> QED
    BY <2>1, <2>3, <2>4 DEF WaitForGrant, w
<1>3. CASE Settle(c, cl) /\ inflight' = None
  <2>1. calls' \in [Call -> CallRecord]
    <3>1. \A x \in Call : [calls[x] EXCEPT !.pc = "released"] \in CallRecord
      BY WorkType DEF AdapterTypeOK
    <3> QED
      BY <1>3, <3>1, AfterApplyType DEF Settle, AdapterTypeOK
  <2> QED
    BY <1>3, <2>1 DEF Settle, AdapterTypeOK
<1>4. CASE /\ Suspend(c, Idle) /\ clients' = cl /\ inflight' = flight
           /\ UNCHANGED <<up, managed, buffered>>
  BY <1>4, IdleType DEF Suspend, AdapterTypeOK
<1> QED
  BY <1>1, <1>2, <1>3, <1>4 DEF Proceed

-------------------------------------------------------------------------------
(* cl is a state of the clients in which those managed are live.           *)
Live(cl) == \A s \in Managed : cl[managed[s]].shard = s /\ cl[managed[s]].state # "closed"

(* A client that x is about to destroy is not managed any more.            *)
DropsUnmanaged(x) ==
    calls[x].pc = "drop" => /\ calls[x].client \in 1 .. Len(clients)
                            /\ \A s \in Shard : managed[s] # calls[x].client

(* What makes ManagedClientsLive inductive.                                *)
LiveInv == ManagedClientsLive /\ \A x \in Call : DropsUnmanaged(x)

(* The same with calls of type CallRecord, for the steps of the adapter.   *)
AdapterInv == AdapterTypeOK /\ LiveInv

(* A new client is live, and nobody's to destroy.                          *)
LEMMA CreateLive ==
    ASSUME AdapterTypeOK, NEW c \in Call, NEW s \in Shard, NEW work \in CallRecord,
           NEW cl \in Seq(ClientRecord), Len(cl) = Len(clients), Live(cl),
           \A x \in Call \ {c} : DropsUnmanaged(x),
           Create(c, s, work, cl)
    PROVE  LiveInv'
<1> DEFINE k == Len(cl) + 1
<1>1. /\ k \in Nat /\ clients' \in Seq(ClientRecord) /\ Len(clients') = k
      /\ clients'[k] = [shard |-> s, state |-> "connecting"]
      /\ \A i \in 1 .. Len(cl) : clients'[i] = cl[i]
  BY DEF Create, ClientRecord
<1>2. managed' = [managed EXCEPT ![s] = k]
  BY DEF Create
<1>3. \A r \in Shard : managed[r] \in 0 .. Len(cl) /\ (r \in Managed <=> managed[r] # 0)
  BY DEF AdapterTypeOK, Managed
<1>4. ManagedClientsLive'
  <2> SUFFICES ASSUME NEW r \in Shard, managed'[r] # 0
               PROVE  clients'[managed'[r]].shard = r /\ clients'[managed'[r]].state # "closed"
    BY DEF ManagedClientsLive, Managed
  <2>1. CASE r = s
    BY <2>1, <1>1, <1>2 DEF AdapterTypeOK
  <2>2. CASE r # s
    <3>1. managed'[r] = managed[r] /\ r \in Managed /\ managed[r] \in 1 .. Len(cl)
      BY <2>2, <1>2, <1>3 DEF AdapterTypeOK
    <3> QED
      BY <3>1, <1>1 DEF Live
  <2> QED
    BY <2>1, <2>2
<1>5. ASSUME NEW x \in Call PROVE DropsUnmanaged(x)'
  <2>1. CASE x = c
    <3>1. calls'[c].pc = "login"
      BY DEF Create, Suspend, AdapterTypeOK, CallRecord
    <3> QED
      BY <2>1, <3>1 DEF DropsUnmanaged
  <2>2. CASE x # c
    <3>1. calls'[x] = calls[x]
      BY <2>2 DEF Create, Suspend, AdapterTypeOK
    <3>2. DropsUnmanaged(x)
      BY <2>2
    <3> QED
      BY <3>1, <3>2, <1>1, <1>2 DEF DropsUnmanaged, AdapterTypeOK
  <2> QED
    BY <2>1, <2>2
<1> QED
  BY <1>4, <1>5 DEF LiveInv

(* A step that makes and manages nothing, and starts no drop.              *)
LEMMA KeepsLive ==
    ASSUME NEW cl, clients' = cl, Len(cl) = Len(clients), Live(cl), UNCHANGED managed,
           \A x \in Call : calls'[x].pc = "drop" => calls'[x] = calls[x] /\ DropsUnmanaged(x)
    PROVE  LiveInv'
BY DEF LiveInv, ManagedClientsLive, Live, Managed, DropsUnmanaged

(* A step of the drop and add loops, from a state cl of the clients in     *)
(* which the managed ones are live, when no other call destroys one.       *)
LEMMA ProceedLive ==
    ASSUME AdapterTypeOK, NEW c \in Call, NEW work \in CallRecord,
           NEW cl \in Seq(ClientRecord), Len(cl) = Len(clients), Live(cl),
           \A x \in Call \ {c} : DropsUnmanaged(x),
           NEW flight \in Call \cup {None}, Proceed(c, work, cl, flight)
    PROVE  LiveInv'
<1> DEFINE present == work.remove \cap Managed
           missing == {s \in work.add : ~IsReady(cl, s)}
<1>0. Len(cl) \in Nat /\ present \subseteq Shard \cap Managed /\ missing \subseteq Shard
  BY DEF CallRecord
<1>1. CASE \E s \in present : DropShard(c, s, [work EXCEPT !.remove = present \ {s}], cl)
  <2>1. PICK s \in present : DropShard(c, s, [work EXCEPT !.remove = present \ {s}], cl)
    BY <1>1
  <2>2. /\ s \in Shard /\ s \in Managed /\ managed[s] \in 1 .. Len(cl)
        /\ managed' = [managed EXCEPT ![s] = 0] /\ clients' = cl
    BY <2>1, <1>0 DEF DropShard, AdapterTypeOK, Managed
  <2>3. ManagedClientsLive'
    BY <2>2 DEF ManagedClientsLive, Live, Managed, AdapterTypeOK
  <2>4. \A r \in Shard : managed'[r] # managed[s]
    BY <2>2 DEF Live, Managed, AdapterTypeOK
  <2>5. ASSUME NEW x \in Call PROVE DropsUnmanaged(x)'
    <3>1. CASE x = c
      <4>1. calls'[c].client = managed[s]
        BY <2>1 DEF DropShard, Suspend, AdapterTypeOK, CallRecord
      <4> QED
        BY <3>1, <4>1, <2>2, <2>4 DEF DropsUnmanaged
    <3>2. CASE x # c
      <4>1. calls'[x] = calls[x] /\ DropsUnmanaged(x)
        BY <3>2, <2>1 DEF DropShard, Suspend, AdapterTypeOK
      <4>2. \A r \in Shard : managed'[r] = managed[r] \/ managed'[r] = 0
        BY <2>2 DEF AdapterTypeOK
      <4>3. calls[x].client \in 1 .. Len(clients) => calls[x].client # 0
        BY <1>0
      <4> QED
        BY <4>1, <4>2, <4>3, <2>2 DEF DropsUnmanaged
    <3> QED
      BY <3>1, <3>2
  <2> QED
    BY <2>3, <2>5 DEF LiveInv
<1>2. CASE \E s \in missing :
               WaitForGrant(c, s, [work EXCEPT !.remove = {}, !.add = missing \ {s}], cl)
  <2>1. PICK s \in missing :
            WaitForGrant(c, s, [work EXCEPT !.remove = {}, !.add = missing \ {s}], cl)
    BY <1>2
  <2> DEFINE w == [work EXCEPT !.remove = {}, !.add = missing \ {s}]
  <2>2. w \in CallRecord /\ s \in Shard
    BY <1>0, WorkType
  <2> HIDE DEF w
  <2>3. CASE Create(c, s, w, cl)
    BY <2>2, <2>3, CreateLive
  <2>4. CASE /\ Suspend(c, [w EXCEPT !.pc = "grant", !.shard = s])
             /\ clients' = cl
             /\ UNCHANGED <<managed, buffered>>
    <3>1. calls'[c].pc = "grant" /\ \A x \in Call \ {c} : calls'[x] = calls[x]
      BY <2>2, <2>4 DEF Suspend, AdapterTypeOK, CallRecord
    <3> QED
      BY <2>4, <3>1, KeepsLive
  <2> QED
    BY <2>1, <2>3, <2>4 DEF WaitForGrant, w
<1>3. CASE Settle(c, cl)
  <2>1. calls'[c].pc # "drop"
    BY <1>3 DEF Settle, AfterApply, Idle
  <2>2. \A x \in Call \ {c} : calls'[x].pc = "drop" => calls'[x] = calls[x]
    BY <1>3 DEF Settle, AdapterTypeOK, CallRecord
  <2> QED
    BY <1>3, <2>1, <2>2, KeepsLive DEF Settle
<1>4. CASE /\ Suspend(c, Idle) /\ clients' = cl /\ UNCHANGED <<up, managed, buffered>>
  <2>1. calls'[c].pc = "idle" /\ \A x \in Call \ {c} : calls'[x] = calls[x]
    BY <1>4 DEF Suspend, AdapterTypeOK, Idle
  <2> QED
    BY <1>4, <2>1, KeepsLive
<1> QED
  BY <1>1, <1>2, <1>3, <1>4 DEF Proceed

-------------------------------------------------------------------------------
(* When all is well, no call is an obstacle to another.                    *)
LEMMA WellBefore ==
    ASSUME AdapterInv
    PROVE  /\ Live(clients) /\ clients \in Seq(ClientRecord)
           /\ \A x \in Call : DropsUnmanaged(x) /\ calls[x] \in CallRecord
           /\ inflight \in Call \cup {None}
BY DEF AdapterInv, AdapterTypeOK, LiveInv, ManagedClientsLive, Live

(* A call suspends in some await other than a drop; the adapter is left    *)
(* alone.                                                                  *)
LEMMA SuspendKeeps ==
    ASSUME AdapterInv, NEW c \in Call, NEW work \in CallRecord, work.pc # "drop",
           Suspend(c, work), UNCHANGED adapterVars
    PROVE  AdapterInv'
<1>1. AdapterTypeOK'
  BY DEF AdapterInv, AdapterTypeOK, Suspend, adapterVars
<1>2. calls'[c] = work /\ \A x \in Call \ {c} : calls'[x] = calls[x]
  BY DEF AdapterInv, AdapterTypeOK, Suspend
<1>3. LiveInv'
  BY <1>2, WellBefore, KeepsLive DEF adapterVars
<1> QED
  BY <1>1, <1>3 DEF AdapterInv

LEMMA ProceedKeeps ==
    ASSUME AdapterInv, NEW c \in Call, NEW work \in CallRecord,
           NEW flight \in Call \cup {None}, Proceed(c, work, clients, flight)
    PROVE  AdapterInv'
<1>1. AdapterTypeOK'
  BY WellBefore, ProceedTypes DEF AdapterInv
<1>2. LiveInv'
  BY WellBefore, ProceedLive DEF AdapterInv
<1> QED
  BY <1>1, <1>2 DEF AdapterInv

LEMMA RunApplyKeeps ==
    ASSUME AdapterInv, NEW c \in Call, NEW target \in SUBSET Shard, RunApply(c, target)
    PROVE  AdapterInv'
<1>1. Managed \ target \in SUBSET Shard /\ target \ Managed \in SUBSET Shard
  BY DEF Managed
<1>2. [Idle EXCEPT !.applying = TRUE, !.remove = Managed \ target,
                   !.add = target \ Managed] \in CallRecord
  BY <1>1, IdleType
<1> QED
  BY <1>2, ProceedKeeps DEF RunApply

LEMMA ApplyShardSetKeeps ==
    ASSUME AdapterInv, assigned \in SUBSET Shard, NEW c \in Call, ApplyShardSet(c)
    PROVE  AdapterInv'
<1>1. CASE RunApply(c, assigned)
  BY <1>1, RunApplyKeeps
<1>2. CASE /\ inflight # None
           /\ Suspend(c, [Idle EXCEPT !.pc = "wait", !.on = inflight, !.target = assigned])
           /\ UNCHANGED <<up, inflight, managed, clients, buffered>>
  <2> DEFINE work == [Idle EXCEPT !.pc = "wait", !.on = inflight, !.target = assigned]
  <2>1. inflight \in Call
    BY <1>2, WellBefore
  <2>2. work \in CallRecord /\ work.pc = "wait"
    BY <2>1, IdleType DEF Idle
  <2> HIDE DEF work
  <2> QED
    BY <1>2, <2>2, SuspendKeeps DEF work, adapterVars
<1> QED
  BY <1>1, <1>2 DEF ApplyShardSet

LEMMA StartClientKeeps ==
    ASSUME AdapterInv, assigned \in SUBSET Shard, NEW c \in Call
    PROVE  /\ WithInfrastructure(c) => AdapterInv'
           /\ StartClientIfNeeded(c) => AdapterInv'
<1>1. ASSUME NEW pc \in Pc, pc # "drop",
             Suspend(c, [Idle EXCEPT !.pc = pc]), UNCHANGED adapterVars
      PROVE  AdapterInv'
  <2> DEFINE work == [Idle EXCEPT !.pc = pc]
  <2>1. work \in CallRecord /\ work.pc # "drop"
    BY <1>1, IdleType DEF Idle
  <2> HIDE DEF work
  <2> QED
    BY <1>1, <2>1, SuspendKeeps DEF work
<1>2. WithInfrastructure(c) => AdapterInv'
  BY <1>1, ApplyShardSetKeeps DEF WithInfrastructure, Pc
<1>3. DestroyAll(c) => AdapterInv'
  <2> DEFINE work == [Idle EXCEPT !.remove = Managed]
  <2>1. work \in CallRecord
    BY IdleType DEF Managed
  <2> HIDE DEF work
  <2> QED
    BY <2>1, WellBefore, ProceedKeeps DEF DestroyAll, work
<1>4. StartClientIfNeeded(c) => AdapterInv'
  BY <1>1, <1>2, <1>3 DEF StartClientIfNeeded, Pc
<1> QED
  BY <1>2, <1>4

(* The client at hand changes to a state in which it is still live, or is  *)
(* nobody's: the loop goes on from there.                                  *)
LEMMA ResumeKeeps ==
    ASSUME AdapterInv, NEW c \in Call, NEW st \in {"ready", "closed"},
           st = "closed" => calls[c].pc = "drop",
           Proceed(c, calls[c], [clients EXCEPT ![calls[c].client].state = st], inflight)
    PROVE  AdapterInv'
<1> DEFINE cl == [clients EXCEPT ![calls[c].client].state = st]
<1>1. cl \in Seq(ClientRecord) /\ Len(cl) = Len(clients)
  <2>1. clients \in Seq(ClientRecord) /\ Len(clients) \in Nat
    BY WellBefore
  <2>2. cl = [i \in 1 .. Len(clients) |->
                 IF i = calls[c].client THEN [clients[i] EXCEPT !.state = st]
                 ELSE clients[i]]
    BY <2>1
  <2>3. ASSUME NEW i \in 1 .. Len(clients) PROVE cl[i] \in ClientRecord
    <3>1. clients[i] \in ClientRecord
      BY <2>1
    <3>2. [clients[i] EXCEPT !.state = st] \in ClientRecord
      BY <3>1 DEF ClientRecord
    <3> QED
      BY <2>2, <3>1, <3>2
  <2> HIDE DEF cl
  <2>4. cl \in [1 .. Len(clients) -> ClientRecord]
    BY <2>2, <2>3
  <2> QED
    BY <2>1, <2>4
<1>2. Live(cl)
  <2> SUFFICES ASSUME NEW s \in Shard, s \in Managed
               PROVE  cl[managed[s]].shard = s /\ cl[managed[s]].state # "closed"
    BY DEF Live, Managed
  <2>1. managed[s] \in 1 .. Len(clients) /\ clients[managed[s]] \in ClientRecord
    BY WellBefore DEF AdapterInv, AdapterTypeOK, Managed
  <2>2. clients[managed[s]].shard = s /\ clients[managed[s]].state # "closed"
    BY WellBefore DEF Live
  <2>3. st = "closed" => managed[s] # calls[c].client
    BY WellBefore DEF DropsUnmanaged
  <2> QED
    BY <2>1, <2>2, <2>3, WellBefore DEF ClientRecord
<1> HIDE DEF cl
<1>3. AdapterTypeOK'
  BY <1>1, WellBefore, ProceedTypes DEF AdapterInv, cl
<1>4. LiveInv'
  BY <1>1, <1>2, WellBefore, ProceedLive DEF AdapterInv, cl
<1> QED
  BY <1>3, <1>4 DEF AdapterInv

-------------------------------------------------------------------------------
(* Deliver, the one way a grant reaches a call.                            *)
LEMMA DeliverKeeps ==
    ASSUME AdapterInv, NEW s \in Shard, Deliver(s)
    PROVE  AdapterInv'
<1>1. PICK c \in Call :
          /\ Create(c, s, calls[c], clients)
          /\ buffered' = buffered \ {s} \/ buffered' = buffered \cup {s}
          /\ UNCHANGED <<up, inflight>>
  BY DEF Deliver, Waiting
<1>2. AdapterTypeOK'
  BY <1>1, WellBefore, CreateTypes DEF AdapterInv, AdapterTypeOK
<1>3. LiveInv'
  BY <1>1, WellBefore, CreateLive DEF AdapterInv
<1> QED
  BY <1>2, <1>3 DEF AdapterInv

(* The parts of the state that are not the shard adapter's.                *)
RestTypeOK ==
    /\ preloaded \in BOOLEAN /\ infra \in BOOLEAN /\ booted \in BOOLEAN
    /\ assigned \in SUBSET Shard
    /\ keys \in SUBSET Shard /\ owed \in SUBSET Shard
    /\ updates \in 0 .. MaxUpdates

Inv == AdapterInv /\ RestTypeOK

LEMMA InvInit == Init => Inv
<1> SUFFICES ASSUME Init PROVE Inv
  OBVIOUS
<1> USE RuntimeAssumption
<1>1. calls \in [Call -> CallRecord] /\ \A x \in Call : calls[x].pc # "drop"
  BY IdleType DEF Init, Pc, Idle
<1>2. AdapterTypeOK
  BY <1>1 DEF Init, AdapterTypeOK
<1>3. LiveInv
  BY <1>1 DEF Init, LiveInv, ManagedClientsLive, Managed, DropsUnmanaged
<1>4. RestTypeOK
  <2>1. preloaded \in BOOLEAN /\ infra \in BOOLEAN /\ booted \in BOOLEAN
    BY DEF Init
  <2>2. /\ assigned \in SUBSET Shard /\ keys \in SUBSET Shard /\ owed \in SUBSET Shard
        /\ updates \in 0 .. MaxUpdates
    BY DEF Init
  <2> QED
    BY <2>1, <2>2 DEF RestTypeOK
<1> QED
  BY <1>2, <1>3, <1>4 DEF Inv, AdapterInv

LEMMA InvNext == Inv /\ [Next]_vars => Inv'
<1> SUFFICES ASSUME Inv, [Next]_vars PROVE Inv'
  OBVIOUS
<1> USE RuntimeAssumption
<1>0. AdapterInv /\ RestTypeOK /\ assigned \in SUBSET Shard
  BY DEF Inv, RestTypeOK
<1>1. CASE Hydrate
  <2>1. AdapterInv'
    <3>1. CASE Suspend(Main, [Idle EXCEPT !.pc = "load"]) /\ UNCHANGED adapterVars
      <4> DEFINE work == [Idle EXCEPT !.pc = "load"]
      <4>1. work \in CallRecord /\ work.pc # "drop"
        BY IdleType DEF Idle, Pc
      <4> HIDE DEF work
      <4> QED
        BY <1>0, <3>1, <4>1, SuspendKeeps DEF work
    <3> QED
      BY <1>0, <1>1, <3>1, StartClientKeeps DEF Hydrate
  <2> QED
    BY <1>0, <1>1, <2>1 DEF Hydrate, Inv, RestTypeOK, bootVars
<1>2. ASSUME NEW c \in Call, Preloaded(c) PROVE Inv'
  BY <1>0, <1>2, StartClientKeeps DEF Preloaded, Inv, RestTypeOK
<1>3. ASSUME NEW c \in Call, HooksDone(c) PROVE Inv'
  BY <1>0, <1>3, StartClientKeeps DEF HooksDone, Inv, RestTypeOK, bootVars
<1>4. ASSUME NEW c \in Call, Dropped(c) PROVE Inv'
  BY <1>0, <1>4, ResumeKeeps DEF Dropped, At, Inv, RestTypeOK, bootVars
<1>5. ASSUME NEW c \in Call, LoginReady(c) PROVE Inv'
  BY <1>0, <1>5, ResumeKeeps DEF LoginReady, Inv, RestTypeOK, bootVars
<1>6. ASSUME NEW c \in Call, Booted(c) PROVE Inv'
  BY <1>0, <1>6, IdleType, SuspendKeeps DEF Booted, Inv, RestTypeOK, Idle
<1>7. ASSUME NEW c \in Call, Rejects(c) PROVE Inv'
  <2>1. AdapterTypeOK'
    BY <1>0, <1>7 DEF Rejects, AdapterInv, AdapterTypeOK, grantVars
  <2>2. LiveInv'
    BY <1>0, <1>7 DEF Rejects, AdapterInv, LiveInv, ManagedClientsLive, Managed, DropsUnmanaged
  <2> QED
    BY <1>0, <1>7, <2>1, <2>2 DEF Rejects, Inv, AdapterInv, RestTypeOK, bootVars, grantVars
<1>8. ASSUME NEW c \in Call, NEW S \in SUBSET Shard, Update(c, S) PROVE Inv'
  <2>1. AdapterInv'
    <3> DEFINE work == [Idle EXCEPT !.pc = "hooks"]
    <3>1. work \in CallRecord /\ work.pc # "drop"
      BY IdleType DEF Idle, Pc
    <3> HIDE DEF work
    <3> QED
      BY <1>0, <1>8, <3>1, SuspendKeeps DEF Update, work
  <2> QED
    BY <1>0, <1>8, <2>1 DEF Update, Inv, RestTypeOK, bootVars
<1>9. ASSUME NEW s \in Shard, GrantIssued(s) PROVE Inv'
  <2>1. CASE Deliver(s)
    BY <1>0, <1>9, <2>1, DeliverKeeps DEF GrantIssued, Inv, RestTypeOK, bootVars
  <2>2. CASE /\ buffered' \in SUBSET Shard
             /\ UNCHANGED <<up, inflight, managed, clients, calls>>
    <3>1. AdapterTypeOK'
      BY <1>0, <2>2 DEF AdapterInv, AdapterTypeOK
    <3>2. LiveInv'
      BY <1>0, <2>2 DEF AdapterInv, LiveInv, ManagedClientsLive, Managed, DropsUnmanaged
    <3> QED
      BY <1>0, <1>9, <3>1, <3>2 DEF GrantIssued, Inv, AdapterInv, RestTypeOK, bootVars
  <2> QED
    BY <1>0, <1>9, <2>1, <2>2 DEF GrantIssued, AdapterInv, AdapterTypeOK, adapterVars
<1>10. ASSUME NEW s \in Shard, Poll(s) PROVE Inv'
  BY <1>0, <1>10, DeliverKeeps DEF Poll, Inv, RestTypeOK, bootVars
<1>11. ASSUME NEW s \in Shard, Expiry(s) PROVE Inv'
  <2>1. AdapterTypeOK'
    BY <1>0, <1>11 DEF Expiry, AdapterInv, AdapterTypeOK
  <2>2. LiveInv'
    BY <1>0, <1>11 DEF Expiry, AdapterInv, LiveInv, ManagedClientsLive, Managed, DropsUnmanaged
  <2> QED
    BY <1>0, <1>11, <2>1, <2>2 DEF Expiry, Inv, AdapterInv, RestTypeOK, bootVars
<1>12. ASSUME NEW c \in Call, Release(c) PROVE Inv'
  <2>1. calls[c].target \in SUBSET Shard
    BY <1>0, WellBefore DEF CallRecord
  <2> QED
    BY <1>0, <1>12, <2>1, RunApplyKeeps DEF Release, Inv, RestTypeOK, bootVars
<1>13. ASSUME NEW c \in Call, InfrastructureReady(c) PROVE Inv'
  BY <1>0, <1>13, ApplyShardSetKeeps DEF InfrastructureReady, Inv, RestTypeOK
<1>14. CASE UNCHANGED vars
  <2>1. AdapterTypeOK'
    BY <1>0, <1>14 DEF vars, grantVars, AdapterInv, AdapterTypeOK
  <2>2. LiveInv'
    BY <1>0, <1>14 DEF vars, AdapterInv, LiveInv, ManagedClientsLive, Managed, DropsUnmanaged
  <2> QED
    BY <1>0, <1>14, <2>1, <2>2 DEF vars, grantVars, bootVars, Inv, AdapterInv, RestTypeOK
<1> QED
  BY <1>1, <1>2, <1>3, <1>4, <1>5, <1>6, <1>7, <1>8, <1>9, <1>10, <1>11, <1>12, <1>13,
     <1>14 DEF Next, Step

LEMMA AlwaysInv == Spec => []Inv
BY InvInit, InvNext, PTL DEF Spec

(* The state has the shapes TypeOK says: among them, a client the adapter  *)
(* or a suspended call refers to has been made.                            *)
THEOREM TypeCorrect == Spec => []TypeOK
<1>1. Inv => TypeOK
  BY DEF Inv, AdapterInv, AdapterTypeOK, RestTypeOK, TypeOK
<1> QED
  BY <1>1, AlwaysInv, PTL

(* Whatever getClientForShard hands out is a client of that shard that was *)
(* not destroyed, also when any number of calls overlap and two applies    *)
(* run at once.                                                            *)
THEOREM HandedOutIsLive == Spec => []ManagedClientsLive
<1>1. Inv => ManagedClientsLive
  BY DEF Inv, AdapterInv, LiveInv
<1> QED
  BY <1>1, AlwaysInv, PTL

-------------------------------------------------------------------------------
(* At most two calls overlap, and none when the assignment is or becomes   *)
(* empty: what NoDoubleIdentify and RunsWhatIsAssigned hold under.  With a *)
(* third call two of them are released by the same runApply and interleave.*)
Overlap == MaxOverlap <= 2 /\ "empty_overlap" \notin Event

(* Before the list is looked at; in the loops of runApply or destroyAll.   *)
Early == {"pull", "load", "hooks", "preload", "infra"}
Working == {"drop", "grant", "login"}

AtMostTwo == IsFiniteSet(Busy) /\ \A x, y, z \in Busy : x = y \/ y = z \/ x = z

AloneWhenEmpty == assigned = {} => \A x, y \in Busy : x = y

(* applyInflight is the call in runApply; destroyAll runs alone.           *)
OneFlight ==
    \A x \in Call : /\ calls[x].applying <=> inflight = x
                    /\ calls[x].applying => calls[x].pc \in Working
                    /\ calls[x].pc \in Working /\ ~calls[x].applying =>
                          calls[x].pc = "drop" /\ assigned = {} /\ calls[x].add = {}

(* A call waits for the one in runApply, with the list of this moment.     *)
Waits ==
    \A x \in Call : calls[x].pc = "wait" =>
        calls[x].on = inflight /\ inflight # None /\ calls[x].target = assigned

Released ==
    \A x \in Call : calls[x].pc = "released" =>
        /\ calls[x].target = assigned /\ inflight = None
        /\ \A y \in Call \ {x} : calls[y].pc \in {"idle", "boot"}

Spawns ==
    \A x \in Call : calls[x].pc \in {"grant", "login"} =>
        /\ calls[x].remove = {} /\ calls[x].shard \in Shard
        /\ calls[x].pc = "grant" => managed[calls[x].shard] = 0

Drops ==
    \A x \in Call : calls[x].pc = "drop" => managed[clients[calls[x].client].shard] = 0

(* No client lives on but the one managed and the one about to be dropped. *)
LiveIsKnown ==
    \A i \in 1 .. Len(clients) : clients[i].state # "closed" =>
        \/ managed[clients[i].shard] = i
        \/ \E x \in Call : calls[x].pc = "drop" /\ calls[x].client = i

ManagedIsReady ==
    \A s \in Managed : \/ clients[managed[s]].state = "ready"
                       \/ \E x \in Call : calls[x].pc = "login" /\ calls[x].client = managed[s]

(* What the loops of a call leave managed.                                 *)
Goal(w) == (Managed \ w.remove) \cup w.add \cup (IF w.pc = "grant" THEN {w.shard} ELSE {})

(* Whoever is last to finish has applied the assignment.                   *)
WillBeApplied ==
    \/ \E x \in Call : calls[x].pc \in Early \cup {"wait", "released"}
    \/ /\ \A x \in Call : calls[x].pc \in Working => Goal(calls[x]) = assigned
       /\ (\A x \in Call : calls[x].pc \notin Working) => Managed = assigned

FlightInv == /\ AtMostTwo /\ AloneWhenEmpty /\ OneFlight /\ Waits /\ Released /\ Spawns /\ Drops
             /\ LiveIsKnown /\ ManagedIsReady /\ WillBeApplied

(* No call but c works or is released, and those that wait wait for c.     *)
OthersRest(c, applying) ==
    \A x \in Call \ {c} :
        /\ calls[x].pc \notin Working \cup {"released"} /\ ~calls[x].applying
        /\ calls[x].pc = "wait" => applying /\ calls[x].on = c /\ calls[x].target = assigned

(* In cl the live clients are those managed, and all of them are ready.    *)
AllReady(cl) ==
    /\ \A i \in 1 .. Len(cl) : cl[i].state # "closed" => managed[cl[i].shard] = i
    /\ \A s \in Managed : cl[managed[s]].state = "ready" /\ cl[managed[s]].shard = s

(* A call is in runApply, or alone in destroyAll.                          *)
Flies(c, work, flight) ==
    \/ work.applying /\ flight = c
    \/ ~work.applying /\ flight = None /\ work.add = {} /\ assigned = {}

OtherFollows(c) == \E x \in Call \ {c} : calls[x].pc \in Early \cup {"wait"}

(* Fewer calls are busy.                                                   *)
LEMMA FewerBusy ==
    ASSUME AtMostTwo, AloneWhenEmpty, Busy' \subseteq Busy, UNCHANGED assigned
    PROVE  AtMostTwo' /\ AloneWhenEmpty'
<1>1. IsFiniteSet(Busy')
  BY FS_Subset DEF AtMostTwo
<1>2. \A x, y, z \in Busy' : x = y \/ y = z \/ x = z
  BY DEF AtMostTwo
<1>3. assigned' = {} => \A x, y \in Busy' : x = y
  BY DEF AloneWhenEmpty
<1> QED
  BY <1>1, <1>2, <1>3 DEF AtMostTwo, AloneWhenEmpty

(* The call c, which is busy, goes on as w.                                *)
LEMMA GoesOnBusy ==
    ASSUME calls \in [Call -> CallRecord], AtMostTwo, AloneWhenEmpty, UNCHANGED assigned,
           NEW c \in Busy, NEW w, Suspend(c, w)
    PROVE  /\ AtMostTwo' /\ AloneWhenEmpty'
           /\ calls'[c] = w /\ \A x \in Call \ {c} : calls'[x] = calls[x]
<1>1. calls'[c] = w /\ \A x \in Call \ {c} : calls'[x] = calls[x]
  BY DEF Suspend, Busy
<1>2. Busy' \subseteq Busy
  BY <1>1 DEF Busy
<1> QED
  BY <1>1, <1>2, FewerBusy

(* spawnShard makes the client of a shard that has none.                   *)
LEMMA CreateFlight ==
    ASSUME AdapterTypeOK, AtMostTwo, AloneWhenEmpty, UNCHANGED assigned,
           NEW c \in Busy, NEW s \in Shard, NEW w \in CallRecord,
           NEW cl \in Seq(ClientRecord), Len(cl) = Len(clients),
           OthersRest(c, TRUE), AllReady(cl), managed[s] = 0,
           w.applying, w.remove = {}, inflight' = c,
           Managed \cup {s} \cup w.add = assigned \/ OtherFollows(c),
           Create(c, s, w, cl)
    PROVE  FlightInv'
<1> DEFINE k == Len(cl) + 1
<1> DEFINE v == [w EXCEPT !.pc = "login", !.shard = s, !.client = k]
<1>0. c \in Call /\ calls \in [Call -> CallRecord]
  BY DEF Busy, AdapterTypeOK
<1>1. /\ k \in Nat /\ k # 0 /\ clients' \in Seq(ClientRecord) /\ Len(clients') = k
      /\ clients'[k] = [shard |-> s, state |-> "connecting"]
      /\ \A i \in 1 .. Len(cl) : clients'[i] = cl[i]
  BY DEF Create, ClientRecord
<1>2. /\ \A r \in Shard : managed'[r] = IF r = s THEN k ELSE managed[r]
      /\ \A r \in Shard : managed[r] \in 0 .. Len(cl)
  BY DEF Create, AdapterTypeOK
<1>3. Managed' = Managed \cup {s}
  BY <1>1, <1>2 DEF Managed
<1>4. /\ v.pc = "login" /\ v.shard = s /\ v.client = k /\ v.applying /\ v.remove = {} /\ v.add = w.add
  BY DEF CallRecord
<1>5. Suspend(c, v)
  BY DEF Create
<1> HIDE DEF v
<1>6. /\ AtMostTwo' /\ AloneWhenEmpty'
      /\ calls'[c] = v /\ \A x \in Call \ {c} : calls'[x] = calls[x]
  BY <1>0, <1>5, GoesOnBusy
<1>7. OneFlight'
  BY <1>4, <1>6 DEF OneFlight, OthersRest, Working
<1>8. Waits'
  BY <1>0, <1>4, <1>6, RuntimeAssumption DEF Waits, OthersRest
<1>9. Released' /\ Drops'
  BY <1>4, <1>6 DEF Released, Drops, OthersRest, Working
<1>10. Spawns'
  BY <1>4, <1>6 DEF Spawns, OthersRest, Working
<1>11. LiveIsKnown'
  <2> SUFFICES ASSUME NEW i \in 1 .. k, clients'[i].state # "closed"
               PROVE  managed'[clients'[i].shard] = i
    BY <1>1 DEF LiveIsKnown
  <2>1. CASE i = k
    BY <2>1, <1>1, <1>2
  <2>2. CASE i # k
    <3>1. i \in 1 .. Len(cl) /\ clients'[i] = cl[i] /\ cl[i] \in ClientRecord
      BY <2>2, <1>1
    <3>2. managed[cl[i].shard] = i /\ cl[i].shard \in Shard
      BY <3>1 DEF AllReady, ClientRecord
    <3>3. cl[i].shard # s
      BY <3>1, <3>2
    <3> QED
      BY <3>1, <3>2, <3>3, <1>2
  <2> QED
    BY <2>1, <2>2
<1>12. ManagedIsReady'
  <2> SUFFICES ASSUME NEW r \in Managed'
               PROVE  \/ clients'[managed'[r]].state = "ready"
                      \/ calls'[c].pc = "login" /\ calls'[c].client = managed'[r]
    BY <1>0 DEF ManagedIsReady
  <2>1. CASE r = s
    BY <2>1, <1>2, <1>4, <1>6
  <2>2. CASE r # s
    <3>1. r \in Managed /\ r \in Shard /\ managed'[r] = managed[r] /\ managed[r] \in 1 .. Len(cl)
      BY <2>2, <1>2, <1>3 DEF Managed
    <3> QED
      BY <3>1, <1>1 DEF AllReady
  <2> QED
    BY <2>1, <2>2
<1>13. WillBeApplied'
  <2>1. CASE OtherFollows(c)
    BY <2>1, <1>6 DEF OtherFollows, WillBeApplied
  <2>2. CASE Managed \cup {s} \cup w.add = assigned
    <3>1. \A x \in Call : calls'[x].pc \in Working => x = c
      BY <1>6 DEF OthersRest
    <3>2. (Managed' \ v.remove) \cup v.add \cup (IF v.pc = "grant" THEN {v.shard} ELSE {}) = assigned'
      BY <2>2, <1>3, <1>4
    <3>3. c \in Call /\ calls'[c].pc \in Working
      BY <1>0, <1>4, <1>6 DEF Working
    <3> QED
      BY <3>1, <3>2, <3>3, <1>6 DEF WillBeApplied, Goal
  <2> QED
    BY <2>1, <2>2
<1> QED
  BY <1>6, <1>7, <1>8, <1>9, <1>10, <1>11, <1>12, <1>13 DEF FlightInv

(* A step of the drop and add loops, when no other call is in them.        *)
LEMMA ProceedFlight ==
    ASSUME AdapterTypeOK, assigned \in SUBSET Shard, AtMostTwo, AloneWhenEmpty, UNCHANGED assigned,
           NEW c \in Busy, NEW work \in CallRecord,
           NEW cl \in Seq(ClientRecord), Len(cl) = Len(clients),
           NEW flight, Flies(c, work, flight),
           OthersRest(c, work.applying), AllReady(cl),
           (Managed \ work.remove) \cup work.add = assigned \/ OtherFollows(c),
           Proceed(c, work, cl, flight)
    PROVE  FlightInv'
<1> DEFINE present == work.remove \cap Managed
           missing == {s \in work.add : ~IsReady(cl, s)}
<1>0. /\ c \in Call /\ calls \in [Call -> CallRecord] /\ None \notin Call
      /\ present \subseteq Managed /\ Managed \subseteq Shard /\ missing \subseteq work.add
      /\ work.add \subseteq Shard /\ Len(cl) \in Nat
  BY RuntimeAssumption DEF Busy, AdapterTypeOK, CallRecord, Managed
<1>1. CASE /\ \E s \in present : DropShard(c, s, [work EXCEPT !.remove = present \ {s}], cl)
           /\ inflight' = flight
  <2>1. PICK s \in present : DropShard(c, s, [work EXCEPT !.remove = present \ {s}], cl)
    BY <1>1
  <2> DEFINE v == [[work EXCEPT !.remove = present \ {s}] EXCEPT !.pc = "drop", !.client = managed[s]]
  <2>2. /\ v.pc = "drop" /\ v.client = managed[s] /\ v.applying = work.applying
        /\ v.remove = present \ {s} /\ v.add = work.add
    BY DEF CallRecord
  <2>3. Suspend(c, v) /\ clients' = cl
    BY <2>1 DEF DropShard
  <2> DEFINE rest == present \ {s}
  <2>a. v.remove = rest
    BY <2>2
  <2> HIDE DEF v
  <2>4. /\ AtMostTwo' /\ AloneWhenEmpty'
        /\ calls'[c] = v /\ \A x \in Call \ {c} : calls'[x] = calls[x]
    BY <1>0, <2>3, GoesOnBusy
  <2>5. /\ s \in Shard /\ managed[s] \in 1 .. Len(cl) /\ cl[managed[s]].shard = s
        /\ \A r \in Shard : managed'[r] = IF r = s THEN 0 ELSE managed[r]
    BY <1>0, <2>1 DEF DropShard, AdapterTypeOK, Managed, AllReady
  <2>6. Managed' = Managed \ {s}
    BY <2>5 DEF Managed
  <2>7. OneFlight'
    <3>1. \/ v.applying /\ inflight' = c
          \/ ~v.applying /\ inflight' = None /\ v.add = {} /\ assigned' = {}
      BY <1>1, <2>2 DEF Flies
    <3> QED
      BY <1>0, <3>1, <2>2, <2>4 DEF OneFlight, OthersRest, Working
  <2>8. Waits'
    BY <1>0, <1>1, <2>2, <2>4 DEF Waits, OthersRest, Flies
  <2>9. Released' /\ Spawns'
    BY <2>2, <2>4 DEF Released, Spawns, OthersRest, Working
  <2>10. Drops'
    BY <2>2, <2>3, <2>4, <2>5 DEF Drops, OthersRest, Working
  <2>11. LiveIsKnown'
    <3> SUFFICES ASSUME NEW i \in 1 .. Len(cl), cl[i].state # "closed"
                 PROVE  \/ managed'[cl[i].shard] = i
                        \/ calls'[c].pc = "drop" /\ calls'[c].client = i
      BY <1>0, <2>3 DEF LiveIsKnown
    <3>1. managed[cl[i].shard] = i
      BY DEF AllReady
    <3>2. cl[i] \in ClientRecord
      BY <1>0
    <3>3. cl[i].shard \in Shard
      BY <3>2 DEF ClientRecord
    <3> QED
      BY <3>1, <3>3, <2>2, <2>4, <2>5
  <2>12. ManagedIsReady'
    BY <2>3, <2>5, <2>6, <1>0 DEF ManagedIsReady, AllReady
  <2>13. WillBeApplied'
    <3>1. CASE OtherFollows(c)
      BY <3>1, <2>4 DEF OtherFollows, WillBeApplied
    <3>2. CASE (Managed \ work.remove) \cup work.add = assigned
      <4>1. \A x \in Call : calls'[x].pc \in Working => x = c
        BY <2>4 DEF OthersRest
      <4>2. (Managed' \ v.remove) \cup v.add \cup (IF v.pc = "grant" THEN {v.shard} ELSE {}) = assigned'
        <5>1. Managed' \ rest = Managed \ work.remove
          BY <2>6, <2>1
        <5> QED
          BY <5>1, <3>2, <2>2, <2>a
      <4>3. calls'[c].pc \in Working
        BY <2>2, <2>4 DEF Working
      <4> QED
        BY <1>0, <4>1, <4>2, <4>3, <2>4 DEF WillBeApplied, Goal
    <3> QED
      BY <3>1, <3>2
  <2> QED
    BY <2>4, <2>7, <2>8, <2>9, <2>10, <2>11, <2>12, <2>13 DEF FlightInv
<1>2. CASE /\ present = {}
           /\ \E s \in missing :
                  WaitForGrant(c, s, [work EXCEPT !.remove = {}, !.add = missing \ {s}], cl)
           /\ inflight' = flight
  <2>1. PICK s \in missing :
            WaitForGrant(c, s, [work EXCEPT !.remove = {}, !.add = missing \ {s}], cl)
    BY <1>2
  <2> DEFINE w == [work EXCEPT !.remove = {}, !.add = missing \ {s}]
  <2>2. /\ w \in CallRecord /\ s \in Shard /\ work.applying /\ inflight' = c /\ managed[s] = 0
        /\ w.applying /\ w.remove = {} /\ w.add = missing \ {s}
    <3>1. w \in CallRecord /\ s \in Shard
      BY <1>0, WorkType
    <3>2. work.applying /\ inflight' = c
      BY <1>2 DEF Flies
    <3>3. managed[s] = 0
      BY <3>1 DEF IsReady, AllReady, Managed
    <3> QED
      BY <3>1, <3>2, <3>3 DEF CallRecord
  <2>3. (Managed \ work.remove) \cup work.add = Managed \cup {s} \cup w.add
    <3>1. Managed \ work.remove = Managed
      BY <1>2
    <3>2. work.add \ missing \subseteq Managed
      BY <1>0 DEF IsReady, Managed
    <3> QED
      BY <3>1, <3>2, <2>1, <2>2
  <2> HIDE DEF w
  <2>4. CASE Create(c, s, w, cl)
    BY <2>2, <2>3, <2>4, CreateFlight
  <2>5. CASE /\ Suspend(c, [w EXCEPT !.pc = "grant", !.shard = s])
             /\ clients' = cl
             /\ UNCHANGED <<managed, buffered>>
    <3> DEFINE v == [w EXCEPT !.pc = "grant", !.shard = s]
    <3>1. v.pc = "grant" /\ v.shard = s /\ v.applying /\ v.remove = {} /\ v.add = w.add
      BY <2>2 DEF CallRecord
    <3>2. Suspend(c, v)
      BY <2>5
    <3> HIDE DEF v
    <3>3. /\ AtMostTwo' /\ AloneWhenEmpty'
          /\ calls'[c] = v /\ \A x \in Call \ {c} : calls'[x] = calls[x]
      BY <1>0, <3>2, GoesOnBusy
    <3>4. Managed' = Managed /\ managed' = managed /\ clients' = cl
      BY <2>5 DEF Managed
    <3>5. OneFlight' /\ Waits'
      BY <1>0, <2>2, <3>1, <3>3 DEF OneFlight, Waits, OthersRest, Working
    <3>6. Released' /\ Spawns' /\ Drops'
      BY <2>2, <3>1, <3>3, <3>4 DEF Released, Spawns, Drops, OthersRest, Working
    <3>7. LiveIsKnown' /\ ManagedIsReady'
      BY <3>4 DEF LiveIsKnown, ManagedIsReady, AllReady
    <3>8. WillBeApplied'
      <4>1. CASE OtherFollows(c)
        BY <4>1, <3>3 DEF OtherFollows, WillBeApplied
      <4>2. CASE (Managed \ work.remove) \cup work.add = assigned
        <5>1. \A x \in Call : calls'[x].pc \in Working => x = c
          BY <3>3 DEF OthersRest
        <5>2. (Managed' \ v.remove) \cup v.add \cup (IF v.pc = "grant" THEN {v.shard} ELSE {}) = assigned'
          BY <4>2, <3>1, <3>4, <2>3
        <5>3. calls'[c].pc \in Working
          BY <3>1, <3>3 DEF Working
        <5> QED
          BY <1>0, <5>1, <5>2, <5>3, <3>3 DEF WillBeApplied, Goal
      <4> QED
        BY <4>1, <4>2
    <3> QED
      BY <3>3, <3>5, <3>6, <3>7, <3>8 DEF FlightInv
  <2> QED
    BY <2>1, <2>4, <2>5 DEF WaitForGrant, w
<1>3. CASE present = {} /\ missing = {} /\ work.applying /\ Settle(c, cl) /\ inflight' = None
  <2>1. /\ calls'[c].pc \in {"idle", "boot"} /\ ~calls'[c].applying
        /\ clients' = cl /\ managed' = managed /\ Managed' = Managed
    BY <1>0, <1>3 DEF Settle, AfterApply, Idle, Managed
  <2>2. ASSUME NEW x \in Call \ {c}
        PROVE  /\ calls[x].pc = "wait" => /\ calls'[x].pc = "released"
                                          /\ calls'[x].target = assigned
               /\ calls[x].pc # "wait" => calls'[x] = calls[x]
               /\ ~calls'[x].applying /\ calls'[x].pc # "wait" /\ calls'[x].pc \notin Working
    <3>1. CASE calls[x].pc = "wait"
      <4>1. calls'[x] = [calls[x] EXCEPT !.pc = "released"] /\ calls[x] \in CallRecord
        BY <1>0, <1>3, <3>1 DEF Settle, OthersRest
      <4> QED
        BY <4>1, <3>1 DEF OthersRest, CallRecord, Working
    <3>2. CASE calls[x].pc # "wait"
      BY <1>0, <1>3, <3>2 DEF Settle, OthersRest
    <3> QED
      BY <3>1, <3>2
  <2>3. Busy' \subseteq Busy
    BY <2>2 DEF Busy
  <2>4. AtMostTwo' /\ AloneWhenEmpty'
    BY <2>3, FewerBusy
  <2>a. \A x \in Call : ~calls'[x].applying /\ calls'[x].pc # "wait" /\ calls'[x].pc \notin Working
    BY <2>1, <2>2 DEF Working
  <2>b. OneFlight' /\ Waits'
    BY <1>0, <1>3, <2>a DEF OneFlight, Waits
  <2>5. OneFlight' /\ Waits' /\ Spawns' /\ Drops'
    BY <2>a, <2>b DEF Spawns, Drops, Working
  <2>6. Released'
    <3> SUFFICES ASSUME NEW x \in Call, calls'[x].pc = "released"
                 PROVE  /\ calls'[x].target = assigned
                        /\ \A y \in Call \ {x} : calls'[y].pc \in {"idle", "boot"}
      BY <1>3 DEF Released
    <3>0. x \in Call \ {c}
      BY <2>1
    <3>1. calls[x].pc = "wait"
      BY <3>0, <2>2 DEF OthersRest
    <3>2. calls'[x].target = assigned
      BY <3>0, <3>1, <2>2
    <3>3. ASSUME NEW y \in Call \ {x}, y # c PROVE calls'[y].pc \in {"idle", "boot"}
      <4>1. x \in Busy /\ (y \in Busy => y = x \/ y = c)
        BY <3>0, <3>1, <3>3 DEF Busy, AtMostTwo
      <4>2. calls[y].pc = "idle"
        BY <4>1, <3>3 DEF Busy
      <4> QED
        BY <4>2, <3>3, <2>2
    <3> QED
      BY <3>2, <3>3, <2>1
  <2>7. LiveIsKnown' /\ ManagedIsReady'
    BY <2>1 DEF LiveIsKnown, ManagedIsReady, AllReady
  <2>8. WillBeApplied'
    <3>1. CASE OtherFollows(c)
      BY <3>1, <2>2 DEF OtherFollows, WillBeApplied
    <3>2. CASE (Managed \ work.remove) \cup work.add = assigned
      <4>1. work.add \subseteq Managed
        BY <1>0, <1>3 DEF IsReady, Managed
      <4>2. Managed = assigned
        BY <4>1, <3>2, <1>3
      <4> QED
        BY <4>2, <2>1, <2>2 DEF WillBeApplied, Working
    <3> QED
      BY <3>1, <3>2
  <2> QED
    BY <2>4, <2>5, <2>6, <2>7, <2>8 DEF FlightInv
<1>4. CASE /\ present = {} /\ missing = {} /\ ~work.applying
           /\ Suspend(c, Idle) /\ clients' = cl /\ inflight' = flight
           /\ UNCHANGED <<up, managed, buffered>>
  <2>1. /\ AtMostTwo' /\ AloneWhenEmpty'
        /\ calls'[c] = Idle /\ \A x \in Call \ {c} : calls'[x] = calls[x]
    BY <1>0, <1>4, GoesOnBusy
  <2>2. work.add = {} /\ assigned = {} /\ inflight' = None
    BY <1>4 DEF Flies
  <2>3. \A x \in Call : calls'[x].pc = "idle" /\ ~calls'[x].applying
    BY <2>1, <2>2, <1>0 DEF AloneWhenEmpty, Busy, Idle, OthersRest
  <2>4. OneFlight' /\ Waits' /\ Released' /\ Spawns' /\ Drops'
    BY <1>0, <2>2, <2>3 DEF OneFlight, Waits, Released, Spawns, Drops, Working
  <2>5. LiveIsKnown' /\ ManagedIsReady' /\ Managed' = Managed
    BY <1>4 DEF LiveIsKnown, ManagedIsReady, AllReady, Managed
  <2>6. WillBeApplied'
    <3>1. ~OtherFollows(c)
      BY <2>1, <2>3 DEF OtherFollows, Early
    <3>2. Managed = assigned
      BY <3>1, <2>2, <1>4
    <3> QED
      BY <3>2, <2>3, <2>5 DEF WillBeApplied, Working
  <2> QED
    BY <2>1, <2>4, <2>5, <2>6 DEF FlightInv
<1> QED
  BY <1>1, <1>2, <1>3, <1>4 DEF Proceed

-------------------------------------------------------------------------------
(* FlightInv in the steps that leave the adapter alone                     *)

Kept == <<inflight, managed, clients, assigned>>

(* Calls that are not in the loops change, none but c.                     *)
LEMMA IdlesFlight ==
    ASSUME AdapterTypeOK, FlightInv, NEW c \in Busy, NEW w,
           calls[c].pc \in Early \cup {"boot"},
           Suspend(c, w), UNCHANGED Kept, ~w.applying,
           \/ w.pc \in Early /\ calls[c].pc \in Early
           \/ w.pc = "idle" /\ calls[c].pc = "boot"
           \/ /\ w.pc = "wait" /\ calls[c].pc \in Early
              /\ w.on = inflight /\ inflight # None /\ w.target = assigned
    PROVE  FlightInv'
<1>0. c \in Call /\ calls \in [Call -> CallRecord] /\ AtMostTwo /\ AloneWhenEmpty /\ UNCHANGED assigned
  BY DEF Busy, AdapterTypeOK, FlightInv, Kept
<1>1. /\ AtMostTwo' /\ AloneWhenEmpty'
      /\ calls'[c] = w /\ \A x \in Call \ {c} : calls'[x] = calls[x]
  BY <1>0, GoesOnBusy
<1>2. UNCHANGED inflight /\ UNCHANGED managed /\ UNCHANGED clients /\ UNCHANGED assigned /\ Managed' = Managed
  BY DEF Kept, Managed
<1>3. /\ calls[c].pc \notin Working \cup {"wait", "released", "idle"}
      /\ w.pc \notin Working \cup {"released"}
  BY DEF Early, Working
<1>4. \A x \in Call : calls[x].pc \in Working \/ calls'[x].pc \in Working => x # c /\ calls'[x] = calls[x]
  BY <1>1, <1>3
<1>5. OneFlight'
  BY <1>1, <1>2, <1>3 DEF FlightInv, OneFlight
<1>6. Waits'
  BY <1>1, <1>2 DEF FlightInv, Waits, Early
<1>7. Released'
  <2> SUFFICES ASSUME NEW x \in Call, calls'[x].pc = "released"
               PROVE  /\ calls'[x].target = assigned /\ inflight = None
                      /\ \A y \in Call \ {x} : calls'[y].pc \in {"idle", "boot"}
    BY <1>2 DEF Released
  <2>1. x # c /\ calls'[x] = calls[x]
    BY <1>1, <1>3
  <2>2. /\ calls[x].target = assigned /\ inflight = None
        /\ \A y \in Call \ {x} : calls[y].pc \in {"idle", "boot"}
    BY <2>1 DEF FlightInv, Released
  <2>3. calls[c].pc \notin Early /\ w.pc = "idle"
    BY <2>1, <2>2, <1>0 DEF Early
  <2> QED
    BY <2>1, <2>2, <2>3, <1>1
<1>8. Spawns' /\ Drops'
  BY <1>2, <1>4 DEF FlightInv, Spawns, Drops, Working
<1>9. LiveIsKnown' /\ ManagedIsReady'
  <2>1. \A x \in Call : calls[x].pc \in {"drop", "login"} => calls'[x] = calls[x]
    BY <1>4 DEF Working
  <2> QED
    BY <1>2, <2>1 DEF FlightInv, LiveIsKnown, ManagedIsReady
<1>10. WillBeApplied'
  <2>1. CASE calls[c].pc \in Early
    BY <2>1, <1>0, <1>1 DEF WillBeApplied, Early
  <2>2. CASE calls[c].pc = "boot"
    <3>1. CASE \E x \in Call : calls[x].pc \in Early \cup {"wait", "released"}
      BY <2>2, <3>1, <1>1 DEF WillBeApplied, Early
    <3>2. CASE /\ \A x \in Call : calls[x].pc \in Working => Goal(calls[x]) = assigned
               /\ (\A x \in Call : calls[x].pc \notin Working) => Managed = assigned
      BY <3>2, <1>2, <1>4 DEF WillBeApplied, Goal
    <3> QED
      BY <3>1, <3>2 DEF FlightInv, WillBeApplied
  <2> QED
    BY <2>1, <2>2
<1> QED
  BY <1>1, <1>5, <1>6, <1>7, <1>8, <1>9, <1>10 DEF FlightInv

(* Nothing it speaks of changes.                                           *)
LEMMA SameFlight == ASSUME FlightInv, UNCHANGED calls, UNCHANGED Kept PROVE FlightInv'
<1>1. UNCHANGED inflight /\ UNCHANGED managed /\ UNCHANGED clients /\ UNCHANGED assigned
  BY DEF Kept
<1>2. Managed' = Managed /\ Busy' = Busy
  BY <1>1 DEF Managed, Busy
<1>3. AtMostTwo' /\ AloneWhenEmpty' /\ OneFlight' /\ Waits' /\ Released'
  BY <1>1, <1>2 DEF FlightInv, AtMostTwo, AloneWhenEmpty, OneFlight, Waits, Released
<1>4. Spawns' /\ Drops' /\ LiveIsKnown' /\ ManagedIsReady'
  BY <1>1, <1>2 DEF FlightInv, Spawns, Drops, LiveIsKnown, ManagedIsReady
<1>5. WillBeApplied'
  BY <1>1, <1>2 DEF FlightInv, WillBeApplied, Goal
<1> QED
  BY <1>3, <1>4, <1>5 DEF FlightInv

-------------------------------------------------------------------------------
(* FlightInv in the steps of the adapter                                   *)

(* No call works when applyInflight is None and another call is about to   *)
(* look at its list.                                                       *)
LEMMA NobodyWorks ==
    ASSUME AdapterInv, FlightInv, NEW c \in Busy, calls[c].pc \in Early \cup {"released"},
           inflight = None \/ assigned = {}
    PROVE  /\ OthersRest(c, FALSE) /\ AllReady(clients) /\ inflight = None
           /\ \A x \in Call \ {c} : calls[x].pc # "wait"
<1>0. c \in Call /\ None \notin Call /\ calls[c].pc \notin Working \cup {"wait", "idle", "boot"}
  BY RuntimeAssumption DEF Busy, Early, Working
<1>1. assigned = {} => \A x \in Call \ {c} : calls[x].pc = "idle"
  BY DEF FlightInv, AloneWhenEmpty, Busy
<1>2. \A x \in Call : ~calls[x].applying /\ calls[x].pc \notin Working
  BY <1>0, <1>1 DEF FlightInv, OneFlight, Working
<1>3. inflight = None
  BY <1>2 DEF FlightInv, OneFlight, AdapterInv, AdapterTypeOK
<1>4. \A x \in Call \ {c} : calls[x].pc \notin {"wait", "released"}
  BY <1>0, <1>3 DEF FlightInv, Waits, Released
<1>5. AllReady(clients)
  <2>1. \A i \in 1 .. Len(clients) : clients[i].state # "closed" => managed[clients[i].shard] = i
    BY <1>2 DEF FlightInv, LiveIsKnown, Working
  <2>2. \A s \in Managed : clients[managed[s]].state = "ready"
    BY <1>2 DEF FlightInv, ManagedIsReady, Working
  <2>3. \A s \in Managed : clients[managed[s]].shard = s
    BY DEF AdapterInv, LiveInv, ManagedClientsLive
  <2> QED
    BY <2>1, <2>2, <2>3 DEF AllReady
<1> QED
  BY <1>2, <1>3, <1>4, <1>5 DEF OthersRest

(* runApply with the assignment of this moment.                            *)
LEMMA RunApplyFlight ==
    ASSUME AdapterInv, FlightInv, assigned \in SUBSET Shard, UNCHANGED assigned,
           NEW c \in Busy, calls[c].pc \in Early \cup {"released"}, inflight = None,
           NEW target, target = assigned, RunApply(c, target)
    PROVE  FlightInv'
<1> DEFINE work == [Idle EXCEPT !.applying = TRUE, !.remove = Managed \ assigned,
                                !.add = assigned \ Managed]
<1>1. Managed \ assigned \in SUBSET Shard /\ assigned \ Managed \in SUBSET Shard /\ c \in Call
  BY DEF Managed, Busy
<1>2. work \in CallRecord
  BY <1>1, IdleType
<1>3. work.applying /\ work.remove = Managed \ assigned /\ work.add = assigned \ Managed
  BY DEF Idle
<1>4. Proceed(c, work, clients, c)
  BY DEF RunApply
<1> HIDE DEF work
<1>5. OthersRest(c, work.applying) /\ AllReady(clients)
  BY NobodyWorks DEF OthersRest
<1>6. (Managed \ work.remove) \cup work.add = assigned
  BY <1>3
<1>7. Flies(c, work, c)
  BY <1>3 DEF Flies
<1>8. clients \in Seq(ClientRecord) /\ AdapterTypeOK /\ AtMostTwo /\ AloneWhenEmpty
  BY DEF AdapterInv, AdapterTypeOK, FlightInv
<1> QED
  BY <1>2, <1>4, <1>5, <1>6, <1>7, <1>8, ProceedFlight

LEMMA ApplyShardSetFlight ==
    ASSUME AdapterInv, FlightInv, assigned \in SUBSET Shard, UNCHANGED assigned,
           NEW c \in Busy, calls[c].pc \in Early, ApplyShardSet(c)
    PROVE  FlightInv'
<1>1. CASE inflight = None /\ RunApply(c, assigned)
  BY <1>1, RunApplyFlight
<1>2. CASE /\ inflight # None
           /\ Suspend(c, [Idle EXCEPT !.pc = "wait", !.on = inflight, !.target = assigned])
           /\ UNCHANGED <<up, inflight, managed, clients, buffered>>
  <2> DEFINE w == [Idle EXCEPT !.pc = "wait", !.on = inflight, !.target = assigned]
  <2>1. ~w.applying /\ w.pc = "wait" /\ w.on = inflight /\ w.target = assigned
    BY DEF Idle
  <2>2. Suspend(c, w) /\ UNCHANGED Kept /\ AdapterTypeOK
    BY <1>2 DEF Kept, AdapterInv
  <2> HIDE DEF w
  <2> QED
    BY <1>2, <2>1, <2>2, IdlesFlight
<1> QED
  BY <1>1, <1>2 DEF ApplyShardSet

LEMMA StartClientFlight ==
    ASSUME AdapterInv, FlightInv, assigned \in SUBSET Shard, UNCHANGED assigned,
           NEW c \in Busy, calls[c].pc \in Early
    PROVE  /\ WithInfrastructure(c) => FlightInv'
           /\ StartClientIfNeeded(c) => FlightInv'
<1>1. ASSUME NEW pc \in Early, Suspend(c, [Idle EXCEPT !.pc = pc]), UNCHANGED adapterVars
      PROVE  FlightInv'
  <2> DEFINE w == [Idle EXCEPT !.pc = pc]
  <2>1. ~w.applying /\ w.pc = pc
    BY DEF Idle
  <2>2. Suspend(c, w) /\ UNCHANGED Kept /\ AdapterTypeOK
    BY <1>1 DEF Kept, AdapterInv, adapterVars
  <2> HIDE DEF w
  <2> QED
    BY <1>1, <2>1, <2>2, IdlesFlight
<1>2. WithInfrastructure(c) => FlightInv'
  <2>1. "infra" \in Early
    BY DEF Early
  <2> QED
    BY <1>1, <2>1, ApplyShardSetFlight DEF WithInfrastructure
<1>3. ASSUME assigned = {}, DestroyAll(c) PROVE FlightInv'
  <2> DEFINE work == [Idle EXCEPT !.remove = Managed]
  <2>1. work \in CallRecord
    BY IdleType DEF Managed
  <2>2. ~work.applying /\ work.remove = Managed /\ work.add = {}
    BY DEF Idle
  <2>3. Proceed(c, work, clients, inflight)
    BY <1>3 DEF DestroyAll
  <2> HIDE DEF work
  <2>4. OthersRest(c, work.applying) /\ AllReady(clients) /\ inflight = None
    BY <1>3, <2>2, NobodyWorks DEF OthersRest
  <2>5. (Managed \ work.remove) \cup work.add = assigned
    BY <1>3, <2>2
  <2>6. Flies(c, work, inflight)
    BY <1>3, <2>2, <2>4 DEF Flies
  <2>7. clients \in Seq(ClientRecord) /\ AdapterTypeOK /\ AtMostTwo /\ AloneWhenEmpty
    BY DEF AdapterInv, AdapterTypeOK, FlightInv
  <2> QED
    BY <2>1, <2>3, <2>4, <2>5, <2>6, <2>7, ProceedFlight
<1>4. StartClientIfNeeded(c) => FlightInv'
  <2>1. "preload" \in Early
    BY DEF Early
  <2> QED
    BY <1>1, <1>2, <1>3, <2>1 DEF StartClientIfNeeded
<1> QED
  BY <1>2, <1>4

(* A call that works does so alone.                                        *)
LEMMA WorksAlone ==
    ASSUME AdapterInv, FlightInv, NEW c \in Call, calls[c].pc \in Working
    PROVE  /\ c \in Busy /\ OthersRest(c, calls[c].applying)
           /\ Flies(c, calls[c], inflight)
           /\ Goal(calls[c]) = assigned \/ OtherFollows(c)
<1>0. c \in Busy /\ None \notin Call /\ calls[c].pc \notin {"idle", "boot", "wait", "released"} \cup Early
  BY RuntimeAssumption DEF Busy, Working, Early
<1>1. \/ calls[c].applying /\ inflight = c
      \/ /\ ~calls[c].applying /\ calls[c].add = {} /\ assigned = {}
         /\ \A x \in Call \ {c} : calls[x].pc = "idle"
  BY <1>0 DEF FlightInv, OneFlight, AloneWhenEmpty, Busy
<1>2. \A x \in Call \ {c} : calls[x].pc \notin Working /\ ~calls[x].applying
  <2> SUFFICES ASSUME NEW x \in Call \ {c} PROVE calls[x].pc \notin Working /\ ~calls[x].applying
    OBVIOUS
  <2>1. CASE calls[c].applying /\ inflight = c
    <3>1. ~calls[x].applying
      BY <2>1 DEF FlightInv, OneFlight
    <3>2. calls[x].pc \in Working => assigned = {} /\ x \in Busy
      BY <3>1 DEF FlightInv, OneFlight, Busy, Working
    <3> QED
      BY <1>0, <3>1, <3>2 DEF FlightInv, AloneWhenEmpty
  <2>2. CASE calls[x].pc = "idle"
    BY <2>2 DEF FlightInv, OneFlight, Working
  <2> QED
    BY <1>1, <2>1, <2>2
<1>3. \A x \in Call : calls[x].pc # "released"
  BY <1>0 DEF FlightInv, Released
<1>4. \A x \in Call \ {c} : calls[x].pc = "wait" =>
          calls[c].applying /\ calls[x].on = c /\ calls[x].target = assigned
  BY <1>1 DEF FlightInv, Waits
<1>5. Flies(c, calls[c], inflight)
  <2>1. ~calls[c].applying => inflight = None
    BY <1>1, <1>2 DEF FlightInv, OneFlight, AdapterInv, AdapterTypeOK
  <2> QED
    BY <1>1, <2>1 DEF Flies
<1>6. Goal(calls[c]) = assigned \/ OtherFollows(c)
  <2>1. CASE \E x \in Call : calls[x].pc \in Early \cup {"wait", "released"}
    BY <1>0, <1>3, <2>1 DEF OtherFollows
  <2>2. CASE \A x \in Call : calls[x].pc \in Working => Goal(calls[x]) = assigned
    BY <2>2
  <2> QED
    BY <2>1, <2>2 DEF FlightInv, WillBeApplied
<1> QED
  BY <1>0, <1>2, <1>3, <1>4, <1>5, <1>6 DEF OthersRest

(* The client at hand is closed, or ready: the loop goes on from there.    *)
LEMMA ResumeFlight ==
    ASSUME AdapterInv, FlightInv, assigned \in SUBSET Shard, UNCHANGED assigned,
           NEW c \in Call, NEW st \in {"ready", "closed"},
           calls[c].pc = IF st = "closed" THEN "drop" ELSE "login",
           st = "ready" => clients[calls[c].client].state # "closed",
           Proceed(c, calls[c], [clients EXCEPT ![calls[c].client].state = st], inflight)
    PROVE  FlightInv'
<1> DEFINE cl == [clients EXCEPT ![calls[c].client].state = st]
<1>0. /\ calls[c].pc \in {"drop", "login"} /\ calls[c].pc \in Working /\ calls[c] \in CallRecord
      /\ AdapterTypeOK /\ AtMostTwo /\ AloneWhenEmpty
  BY WellBefore DEF Working, AdapterInv, FlightInv
<1>1. /\ clients \in Seq(ClientRecord) /\ Len(cl) = Len(clients) /\ Len(clients) \in Nat
      /\ \A i \in 1 .. Len(clients) :
             /\ cl[i].shard = clients[i].shard
             /\ cl[i].state = IF i = calls[c].client THEN st ELSE clients[i].state
             /\ cl[i] \in ClientRecord
      /\ cl \in [1 .. Len(clients) -> ClientRecord]
  <2>1. clients \in Seq(ClientRecord) /\ Len(clients) \in Nat
    BY WellBefore
  <2>2. cl = [i \in 1 .. Len(clients) |->
                 IF i = calls[c].client THEN [clients[i] EXCEPT !.state = st]
                 ELSE clients[i]]
    BY <2>1
  <2>3. ASSUME NEW i \in 1 .. Len(clients)
        PROVE  /\ cl[i].shard = clients[i].shard
               /\ cl[i].state = IF i = calls[c].client THEN st ELSE clients[i].state
               /\ cl[i] \in ClientRecord
    <3>1. clients[i] \in ClientRecord
      BY <2>1
    <3>2. /\ [clients[i] EXCEPT !.state = st] \in ClientRecord
          /\ [clients[i] EXCEPT !.state = st].shard = clients[i].shard
          /\ [clients[i] EXCEPT !.state = st].state = st
      BY <3>1 DEF ClientRecord
    <3> HIDE DEF cl
    <3> QED
      BY <2>2, <3>1, <3>2
  <2>4. Len(cl) = Len(clients)
    BY <2>1
  <2> HIDE DEF cl
  <2>5. cl \in [1 .. Len(clients) -> ClientRecord]
    BY <2>2, <2>3
  <2> QED
    BY <2>1, <2>3, <2>4, <2>5
<1>2. cl \in Seq(ClientRecord)
  <2> HIDE DEF cl
  <2> QED
    BY <1>1
<1>3. Proceed(c, calls[c], cl, inflight)
  OBVIOUS
<1> HIDE DEF cl
<1>4. /\ c \in Busy /\ OthersRest(c, calls[c].applying) /\ Flies(c, calls[c], inflight)
      /\ (Managed \ calls[c].remove) \cup calls[c].add = assigned \/ OtherFollows(c)
  BY <1>0, WorksAlone DEF Goal
<1>5. ASSUME NEW i \in 1 .. Len(cl), cl[i].state # "closed" PROVE managed[cl[i].shard] = i
  <2>1. clients[i].state # "closed"
    <3>1. CASE i = calls[c].client
      BY <1>1, <1>5, <3>1
    <3>2. CASE i # calls[c].client
      BY <1>1, <1>5, <3>2
    <3> QED
      BY <3>1, <3>2
  <2>2. ~\E x \in Call : calls[x].pc = "drop" /\ calls[x].client = i
    <3>1. \A x \in Call \ {c} : calls[x].pc # "drop"
      BY <1>4 DEF OthersRest, Working
    <3>2. calls[c].pc = "drop" => calls[c].client # i
      BY <1>1, <1>5
    <3> QED
      BY <3>1, <3>2
  <2> QED
    BY <1>1, <2>1, <2>2 DEF FlightInv, LiveIsKnown
<1>6. ASSUME NEW s \in Managed PROVE cl[managed[s]].state = "ready" /\ cl[managed[s]].shard = s
  <2>1. managed[s] \in 1 .. Len(clients) /\ clients[managed[s]].shard = s /\ s \in Shard
    BY DEF AdapterInv, AdapterTypeOK, LiveInv, ManagedClientsLive, Managed
  <2>2. calls[c].pc = "drop" => calls[c].client # managed[s]
    BY <2>1 DEF AdapterInv, LiveInv, DropsUnmanaged
  <2>3. \/ clients[managed[s]].state = "ready"
        \/ calls[c].pc = "login" /\ calls[c].client = managed[s]
    BY <1>4 DEF FlightInv, ManagedIsReady, OthersRest, Working
  <2> QED
    BY <1>1, <2>1, <2>2, <2>3
<1>7. AllReady(cl)
  BY <1>5, <1>6 DEF AllReady
<1> QED
  BY <1>0, <1>1, <1>2, <1>3, <1>4, <1>7, ProceedFlight

(* A grant reaches the call that waits for it.                             *)
LEMMA DeliverFlight ==
    ASSUME AdapterInv, FlightInv, UNCHANGED assigned, NEW s \in Shard, Deliver(s)
    PROVE  FlightInv'
<1>1. PICK c \in Call : /\ calls[c].pc = "grant" /\ calls[c].shard = s
                        /\ Create(c, s, calls[c], clients) /\ UNCHANGED inflight
  BY DEF Deliver, Waiting
<1>2. /\ calls[c].pc \in Working /\ calls[c] \in CallRecord /\ clients \in Seq(ClientRecord)
      /\ AdapterTypeOK /\ AtMostTwo /\ AloneWhenEmpty
  BY <1>1, WellBefore DEF Working, AdapterInv, FlightInv
<1>3. /\ c \in Busy /\ OthersRest(c, calls[c].applying) /\ Flies(c, calls[c], inflight)
      /\ Goal(calls[c]) = assigned \/ OtherFollows(c)
  BY <1>2, WorksAlone
<1>4. calls[c].remove = {} /\ managed[s] = 0 /\ calls[c].applying
  BY <1>1, <1>2 DEF FlightInv, Spawns, OneFlight
<1>5. inflight' = c
  BY <1>1, <1>3, <1>4 DEF Flies
<1>6. Managed \cup {s} \cup calls[c].add = assigned \/ OtherFollows(c)
  BY <1>1, <1>3, <1>4 DEF Goal
<1>7. AllReady(clients)
  <2>1. \A x \in Call : calls[x].pc \notin {"drop", "login"}
    BY <1>1, <1>3 DEF OthersRest, Working
  <2> QED
    BY <2>1 DEF FlightInv, LiveIsKnown, ManagedIsReady, AllReady, AdapterInv, LiveInv,
                ManagedClientsLive
<1> QED
  <2> DEFINE w == calls[c]
  <2>1. /\ w \in CallRecord /\ w.applying /\ w.remove = {} /\ OthersRest(c, TRUE)
        /\ Managed \cup {s} \cup w.add = assigned \/ OtherFollows(c)
        /\ Create(c, s, w, clients)
    BY <1>1, <1>2, <1>3, <1>4, <1>6 DEF OthersRest
  <2> HIDE DEF w
  <2> QED
    BY <1>2, <1>3, <1>4, <1>5, <1>7, <2>1, CreateFlight

(* An update is accepted: with its call there are at most two.             *)
LEMMA UpdateFlight ==
    ASSUME Overlap, Inv, FlightInv, Settled, NEW c \in Call, NEW S \in SUBSET Shard, Update(c, S)
    PROVE  FlightInv'
<1> DEFINE w == [Idle EXCEPT !.pc = "hooks"]
<1>1. w.pc = "hooks" /\ ~w.applying
  BY DEF Idle
<1>2. calls \in [Call -> CallRecord] /\ Suspend(c, w)
  BY DEF Inv, AdapterInv, AdapterTypeOK, Update
<1> HIDE DEF w
<1>3. calls'[c] = w /\ \A x \in Call \ {c} : calls'[x] = calls[x]
  BY <1>2 DEF Suspend
<1>4. /\ calls[c].pc = "idle" /\ assigned' = S
      /\ UNCHANGED inflight /\ UNCHANGED managed /\ UNCHANGED clients
      /\ Managed' = Managed
  BY DEF Update, adapterVars, Managed
<1>5. \A x, y \in Busy : x = y
  <2>1. IsFiniteSet(Busy)
    BY DEF FlightInv, AtMostTwo
  <2>2. Cardinality(Busy) \in Nat /\ Cardinality(Busy) < 2
    BY <2>1, FS_CardinalityType, RuntimeAssumption DEF Update, Overlap
  <2> SUFFICES ASSUME NEW x \in Busy, NEW y \in Busy, x # y PROVE FALSE
    OBVIOUS
  <2>3. {x, y} \subseteq Busy /\ IsFiniteSet({x, y}) /\ Cardinality({x, y}) = 2
    <3>1. IsFiniteSet({x}) /\ Cardinality({x}) = 1
      BY FS_Singleton
    <3>2. y \notin {x} /\ {x, y} = {x} \cup {y}
      OBVIOUS
    <3> QED
      BY <3>1, <3>2, FS_AddElement
  <2>4. Cardinality({x, y}) <= Cardinality(Busy)
    BY <2>1, <2>3, FS_Subset
  <2> QED
    BY <2>2, <2>3, <2>4
<1>6. Busy' = Busy \cup {c} /\ c \notin Busy
  BY <1>1, <1>3, <1>4 DEF Busy
<1>7. AtMostTwo'
  <2>1. IsFiniteSet(Busy')
    BY <1>6, FS_AddElement DEF FlightInv, AtMostTwo
  <2> QED
    BY <1>5, <1>6, <2>1 DEF AtMostTwo
<1>8. {} \in {S, assigned} => Busy = {}
  BY DEF Update, Overlap
<1>9. AloneWhenEmpty'
  BY <1>4, <1>6, <1>8 DEF AloneWhenEmpty
<1>10. \A x \in Call : calls[x].pc \notin {"wait", "released"}
  <2>1. \A x \in Call : calls[x].pc # "released"
    BY DEF Settled
  <2>2. ASSUME NEW x \in Call, calls[x].pc = "wait" PROVE FALSE
    <3>1. inflight \in Call /\ calls[inflight].pc \in Working
      BY <2>2 DEF FlightInv, Waits, OneFlight, Inv, AdapterInv, AdapterTypeOK
    <3>2. x \in Busy /\ inflight \in Busy /\ x # inflight
      BY <2>2, <3>1 DEF Busy, Working
    <3> QED
      BY <3>2, <1>5
  <2> QED
    BY <2>1, <2>2
<1>11. \A x \in Call : calls'[x].pc \in Working => x # c /\ calls'[x] = calls[x] /\ x \in Busy
  BY <1>1, <1>3 DEF Working, Busy
<1>12. OneFlight'
  <2> SUFFICES ASSUME NEW x \in Call
               PROVE  /\ calls'[x].applying <=> inflight = x
                      /\ calls'[x].applying => calls'[x].pc \in Working
                      /\ calls'[x].pc \in Working /\ ~calls'[x].applying =>
                            calls'[x].pc = "drop" /\ assigned' = {} /\ calls'[x].add = {}
    BY <1>4 DEF OneFlight
  <2>1. CASE x = c
    <3>1. inflight # c
      BY <1>4 DEF FlightInv, OneFlight, Working
    <3> QED
      BY <2>1, <3>1, <1>1, <1>3, <1>11
  <2>2. CASE x # c
    <3>1. calls[x].pc \in Working /\ ~calls[x].applying => FALSE
      BY <1>8 DEF FlightInv, OneFlight, Busy, Working
    <3> QED
      BY <2>2, <3>1, <1>3 DEF FlightInv, OneFlight
  <2> QED
    BY <2>1, <2>2
<1>13. Waits' /\ Released'
  BY <1>1, <1>3, <1>10 DEF Waits, Released
<1>14. Spawns' /\ Drops'
  BY <1>4, <1>11 DEF FlightInv, Spawns, Drops, Working
<1>15. LiveIsKnown' /\ ManagedIsReady'
  <2>1. \A x \in Call : calls[x].pc \in {"drop", "login"} => calls'[x] = calls[x]
    BY <1>3, <1>4
  <2> QED
    BY <1>4, <2>1 DEF FlightInv, LiveIsKnown, ManagedIsReady
<1>16. WillBeApplied'
  BY <1>1, <1>3 DEF WillBeApplied, Early
<1> QED
  BY <1>7, <1>9, <1>12, <1>13, <1>14, <1>15, <1>16 DEF FlightInv

LEMMA FlightInit == Init => FlightInv
<1> SUFFICES ASSUME Init PROVE FlightInv
  OBVIOUS
<1> USE RuntimeAssumption
<1>1. \A x \in Call : calls[x] = IF x = Main THEN [Idle EXCEPT !.pc = "pull"] ELSE Idle
  BY DEF Init
<1>2. \A x \in Call : ~calls[x].applying /\ calls[x].pc = IF x = Main THEN "pull" ELSE "idle"
  BY <1>1 DEF Idle
<1>3. Busy = {Main}
  BY <1>2 DEF Busy
<1>4. AtMostTwo /\ AloneWhenEmpty
  BY <1>3, FS_Singleton DEF AtMostTwo, AloneWhenEmpty
<1>5. OneFlight /\ Waits /\ Released /\ Spawns /\ Drops
  BY <1>2 DEF Init, OneFlight, Waits, Released, Spawns, Drops, Working
<1>6. LiveIsKnown /\ ManagedIsReady
  <2>1. Len(clients) = 0 /\ Managed = {}
    BY DEF Init, Managed
  <2> QED
    BY <2>1 DEF LiveIsKnown, ManagedIsReady
<1>7. WillBeApplied
  BY <1>2 DEF WillBeApplied, Early
<1> QED
  BY <1>4, <1>5, <1>6, <1>7 DEF FlightInv

LEMMA FlightNext == ASSUME Overlap, Inv, FlightInv, [Next]_vars PROVE FlightInv'
<1>0. /\ AdapterInv /\ AdapterTypeOK /\ assigned \in SUBSET Shard /\ Main \in Call
  BY RuntimeAssumption DEF Inv, AdapterInv, RestTypeOK
<1>1. ASSUME Hydrate PROVE FlightInv'
  <2>1. calls[Main].pc \in Early /\ Main \in Busy /\ UNCHANGED assigned
    BY <1>0, <1>1 DEF Hydrate, At, Busy, Early
  <2>2. CASE Suspend(Main, [Idle EXCEPT !.pc = "load"]) /\ UNCHANGED adapterVars
    <3> DEFINE w == [Idle EXCEPT !.pc = "load"]
    <3>1. ~w.applying /\ w.pc \in Early
      BY DEF Idle, Early
    <3>2. Suspend(Main, w) /\ UNCHANGED Kept
      BY <2>1, <2>2 DEF Kept, adapterVars
    <3> HIDE DEF w
    <3> QED
      BY <1>0, <2>1, <3>1, <3>2, IdlesFlight
  <2>3. CASE StartClientIfNeeded(Main)
    BY <1>0, <2>1, <2>3, StartClientFlight
  <2> QED
    BY <1>1, <2>2, <2>3 DEF Hydrate
<1>2. ASSUME NEW c \in Call, Preloaded(c) PROVE FlightInv'
  <2>1. calls[c].pc \in Early /\ c \in Busy /\ UNCHANGED assigned
    BY <1>2 DEF Preloaded, At, Busy, Early
  <2> QED
    BY <1>0, <1>2, <2>1, StartClientFlight DEF Preloaded
<1>3. ASSUME NEW c \in Call, HooksDone(c) PROVE FlightInv'
  <2>1. calls[c].pc \in Early /\ c \in Busy /\ UNCHANGED assigned
    BY <1>3 DEF HooksDone, At, Busy, Early
  <2> QED
    BY <1>0, <1>3, <2>1, StartClientFlight DEF HooksDone
<1>4. ASSUME NEW c \in Call, Dropped(c) PROVE FlightInv'
  BY <1>0, <1>4, ResumeFlight DEF Dropped, At
<1>5. ASSUME NEW c \in Call, LoginReady(c) PROVE FlightInv'
  BY <1>0, <1>5, ResumeFlight DEF LoginReady, At
<1>6. ASSUME NEW c \in Call, Booted(c) PROVE FlightInv'
  <2>1. calls[c].pc = "boot" /\ c \in Busy /\ Suspend(c, Idle) /\ UNCHANGED Kept
    BY <1>6 DEF Booted, At, Busy, adapterVars, Kept
  <2> QED
    BY <1>0, <2>1, IdlesFlight DEF Idle
<1>7. ASSUME NEW c \in Call, Rejects(c) PROVE FlightInv'
  BY <1>7, SameFlight DEF Rejects, Kept
<1>8. ASSUME Settled, NEW c \in Call, NEW S \in SUBSET Shard, Update(c, S) PROVE FlightInv'
  BY <1>8, UpdateFlight
<1>9. ASSUME NEW s \in Shard, GrantIssued(s) PROVE FlightInv'
  BY <1>0, <1>9, DeliverFlight, SameFlight DEF GrantIssued, Kept, adapterVars
<1>10. ASSUME NEW s \in Shard, Poll(s) PROVE FlightInv'
  BY <1>0, <1>10, DeliverFlight DEF Poll
<1>11. ASSUME NEW s \in Shard, Expiry(s) PROVE FlightInv'
  BY <1>11, SameFlight DEF Expiry, Kept
<1>12. ASSUME NEW c \in Call, Release(c) PROVE FlightInv'
  <2>1. calls[c].pc = "released" /\ c \in Busy /\ UNCHANGED assigned /\ RunApply(c, calls[c].target)
    BY <1>12 DEF Release, At, Busy
  <2>2. inflight = None /\ calls[c].target = assigned
    BY <2>1 DEF FlightInv, Released
  <2> QED
    BY <1>0, <2>1, <2>2, RunApplyFlight
<1>13. ASSUME NEW c \in Call, InfrastructureReady(c) PROVE FlightInv'
  <2>1. calls[c].pc \in Early /\ c \in Busy /\ UNCHANGED assigned
    BY <1>13 DEF InfrastructureReady, At, Busy, Early
  <2> QED
    BY <1>0, <1>13, <2>1, ApplyShardSetFlight DEF InfrastructureReady
<1>14. CASE UNCHANGED vars
  BY <1>14, SameFlight DEF vars, Kept
<1> QED
  BY <1>1, <1>2, <1>3, <1>4, <1>5, <1>6, <1>7, <1>8, <1>9, <1>10, <1>11, <1>12, <1>13, <1>14
     DEF Next, Step

LEMMA AlwaysFlight == ASSUME Overlap PROVE Spec => [](Inv /\ FlightInv)
<1>1. Init => Inv /\ FlightInv
  BY InvInit, FlightInit
<1>2. Inv /\ FlightInv /\ [Next]_vars => (Inv /\ FlightInv)'
  BY InvNext, FlightNext
<1> QED
  BY <1>1, <1>2, PTL DEF Spec

(* applyShardSet is single-flight, and no two clients that were not        *)
(* destroyed are of one shard, whatever is waited for, times out, expires  *)
(* or fails to log in while up to two calls overlap.                       *)
THEOREM NeverIdentifiesTwice == ASSUME Overlap PROVE Spec => []NoDoubleIdentify
<1>1. ASSUME Inv, FlightInv PROVE SingleFlight
  <2> DEFINE flying == {c \in Call : calls[c].applying}
  <2>1. flying \subseteq {inflight}
    BY <1>1 DEF FlightInv, OneFlight
  <2>2. IsFiniteSet({inflight}) /\ Cardinality({inflight}) = 1
    BY FS_Singleton
  <2>3. Cardinality(flying) <= Cardinality({inflight})
    BY <2>1, <2>2, FS_Subset
  <2> QED
    BY <2>2, <2>3 DEF SingleFlight
<1>2. ASSUME Inv, FlightInv PROVE OneClientPerShard
  <2> SUFFICES ASSUME NEW i \in DOMAIN clients, NEW j \in DOMAIN clients,
                      clients[i].state # "closed", clients[j].state # "closed",
                      clients[i].shard = clients[j].shard
               PROVE  i = j
    BY DEF OneClientPerShard
  <2>1. i \in 1 .. Len(clients) /\ j \in 1 .. Len(clients) /\ AdapterInv
    BY <1>2, WellBefore DEF Inv
  <2>2. ASSUME NEW k \in 1 .. Len(clients), clients[k].state # "closed"
        PROVE  \/ managed[clients[k].shard] = k
               \/ \E x \in Call : /\ calls[x].pc = "drop" /\ calls[x].client = k
                                 /\ managed[clients[k].shard] = 0
    BY <1>2, <2>2 DEF FlightInv, LiveIsKnown, Drops
  <2>3. \A x, y \in Call : calls[x].pc = "drop" /\ calls[y].pc = "drop" => x = y
    BY <1>2, <2>1, WorksAlone DEF OthersRest, Working
  <2>4. i # 0 /\ j # 0
    BY <2>1
  <2> QED
    BY <2>1, <2>2, <2>3, <2>4
<1> QED
  BY <1>1, <1>2, AlwaysFlight, PTL DEF NoDoubleIdentify

(* When up to two calls have overlapped and none is left, the shards       *)
(* connected and the shards the adapter has a client for are those of the  *)
(* last assignment, in whatever order the updates were applied.            *)
THEOREM RunsTheLastAssignment == ASSUME Overlap PROVE Spec => []RunsWhatIsAssigned
<1>1. ASSUME Inv, FlightInv, Quiet PROVE Connected = assigned /\ Managed = assigned
  <2>1. up /\ \A x \in Call : calls[x].pc = "idle"
    BY <1>1 DEF Quiet, Busy
  <2>2. Managed = assigned
    BY <1>1, <2>1 DEF FlightInv, WillBeApplied, Early, Working
  <2>3. /\ \A i \in 1 .. Len(clients) : clients[i].state # "closed" => managed[clients[i].shard] = i
        /\ \A s \in Managed : clients[managed[s]].state = "ready"
    BY <1>1, <2>1 DEF FlightInv, LiveIsKnown, ManagedIsReady
  <2>4. /\ \A s \in Managed : /\ managed[s] \in 1 .. Len(clients) /\ s \in Shard
                              /\ clients[managed[s]].shard = s
        /\ DOMAIN clients = 1 .. Len(clients)
        /\ \A i \in 1 .. Len(clients) : clients[i].shard \in Shard
    <3>1. AdapterTypeOK /\ ManagedClientsLive
      BY <1>1 DEF Inv, AdapterInv, LiveInv
    <3>2. clients \in Seq(ClientRecord) /\ managed \in [Shard -> 0 .. Len(clients)]
      BY <3>1 DEF AdapterTypeOK
    <3>3. \A i \in 1 .. Len(clients) : clients[i] \in ClientRecord
      BY <3>2
    <3> QED
      BY <3>1, <3>2, <3>3 DEF ManagedClientsLive, Managed, ClientRecord
  <2>5. Connected \subseteq Managed
    <3> SUFFICES ASSUME NEW i \in DOMAIN clients, clients[i].state = "ready"
                 PROVE  clients[i].shard \in Managed
      BY DEF Connected, Connections
    <3>1. i \in 1 .. Len(clients)
      BY <2>4
    <3>2. managed[clients[i].shard] = i /\ clients[i].shard \in Shard /\ i # 0
      BY <2>3, <2>4, <3>1
    <3> QED
      BY <3>2 DEF Managed
  <2>6. Managed \subseteq Connected
    <3> SUFFICES ASSUME NEW s \in Managed PROVE s \in Connected
      OBVIOUS
    <3>1. managed[s] \in Connections /\ clients[managed[s]].shard = s
      BY <2>1, <2>3, <2>4 DEF Connections
    <3> QED
      BY <3>1 DEF Connected
  <2> QED
    BY <2>2, <2>5, <2>6
<1> QED
  BY <1>1, AlwaysFlight, PTL DEF RunsWhatIsAssigned
===============================================================================
