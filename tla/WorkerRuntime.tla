--------------------------- MODULE WorkerRuntime ---------------------------
(***************************************************************************)
(* One worker process between its registration and its exit: the runtime   *)
(* state (worker/runtime.ts), the boot sequence and the update handler     *)
(* (worker/adapter.ts), the identify-grant waiter (worker/                 *)
(* identifyClient.ts) and the shard adapter, one Discord client per shard  *)
(* (manager/discordShardAdapter.ts).                                       *)
(*                                                                         *)
(* The boot sequence and every assignment update run as async calls that   *)
(* overlap freely.  A call is a process here: one action runs it from one  *)
(* suspension to the next.  A call that rejects is nobody's to catch: in a *)
(* worker nothing handles unhandled rejections, so the process exits.      *)
(*                                                                         *)
(* Clients are numbered in the order they are created.  Iteration over     *)
(* shards is in any order.                                                 *)
(***************************************************************************)
EXTENDS Integers, Sequences, FiniteSets

CONSTANTS
    Shard,      \* shard ids
    Call,       \* names for calls in flight
    MaxOverlap, \* bound on the calls in flight at once
    Main,       \* the call that is the boot sequence
    None,       \* "no call", "no shard"
    Event,      \* the unforced events of this instance
    MaxUpdates  \* bound on assignment updates received

ASSUME RuntimeAssumption ==
    /\ Main \in Call
    /\ None \notin Call \cup Shard
    /\ MaxOverlap \in Nat
    /\ MaxUpdates \in Nat
    /\ Event \subseteq {"empty_overlap", "timeout", "expiry", "login_fails"}

VARIABLES
    up,         \* the process is running
    assigned,   \* state.shards
    calls,      \* calls[c]: where call c is suspended, and what it remembers
    inflight,   \* applyInflight: the call whose runApply it is, or None
    managed,    \* managed[s]: the client of shard s, 0 when there is none
    clients,    \* the Discord clients ever made
    buffered,   \* shards with a grant in the waiter's buffer
    keys,       \* shards whose grant is in Redis
    owed,       \* shards the orchestrator has still to grant
    preloaded,  \* pluginsPreloaded
    infra,      \* infrastructureReady
    booted,     \* pluginsBooted
    updates     \* updates received so far

grantVars == <<buffered, keys, owed>>
bootVars == <<preloaded, infra, booted>>
vars == <<up, assigned, calls, inflight, managed, clients, grantVars, bootVars, updates>>

(* pull, load: the boot sequence in pullSnapshot, in ensurePluginsPreloaded. *)
(* hooks: runBeforeAssignment.  preload, infra: in startClientIfNeeded.    *)
(* wait: for another's runApply; released: that one settled.  drop, grant, *)
(* login: in dropShard, waitForGrant, the login promise.  boot: bootAll.   *)
Pc == {"idle", "pull", "load", "hooks", "preload", "infra", "wait", "released",
       "drop", "grant", "login", "boot"}

CallRecord == [pc : Pc,
               on : Call \cup {None},       \* wait, released: whose runApply
               target : SUBSET Shard,       \* wait, released: the list to apply
               applying : BOOLEAN,          \* in runApply, not in destroyAll
               remove : SUBSET Shard,       \* still to drop
               add : SUBSET Shard,          \* still to spawn
               shard : Shard \cup {None},   \* grant, login: the one being spawned
               client : Nat]                \* drop, login: the client at hand

Idle == [pc |-> "idle", on |-> None, target |-> {}, applying |-> FALSE,
         remove |-> {}, add |-> {}, shard |-> None, client |-> 0]

ClientRecord == [shard : Shard, state : {"connecting", "ready", "closed"}]

TypeOK ==
    /\ up \in BOOLEAN
    /\ preloaded \in BOOLEAN /\ infra \in BOOLEAN /\ booted \in BOOLEAN
    /\ assigned \in SUBSET Shard
    /\ calls \in [Call -> CallRecord]
    /\ inflight \in Call \cup {None}
    /\ managed \in [Shard -> 0 .. Len(clients)]
    /\ clients \in Seq(ClientRecord)
    /\ buffered \in SUBSET Shard /\ keys \in SUBSET Shard /\ owed \in SUBSET Shard
    /\ updates \in 0 .. MaxUpdates

Managed == {s \in Shard : managed[s] # 0}

Busy == {c \in Call : calls[c].pc # "idle"}

At(c, pc) == up /\ calls[c].pc = pc

(* Continuations of a settled promise run before anything else happens.    *)
Settled == \A c \in Call : /\ calls[c].pc # "released"
                           /\ calls[c].pc = "infra" => ~infra

-------------------------------------------------------------------------------
(* The shard adapter                                                       *)

IsReady(cl, s) == managed[s] # 0 /\ cl[managed[s]].state = "ready"

Suspend(c, work) == calls' = [calls EXCEPT ![c] = work]

(* Mutant: the client is used before it is made.                           *)
CreateLate(c, s, work, cl) ==
    /\ clients' = cl
    /\ managed' = [managed EXCEPT ![s] = Len(cl) + 1]
    /\ Suspend(c, [work EXCEPT !.pc = "login", !.shard = s, !.client = Len(cl) + 1])

(* spawnShard, once the grant is there: a new client, in the map at once.  *)
Create(c, s, work, cl) ==
    /\ clients' = Append(cl, [shard |-> s, state |-> "connecting"])
    /\ managed' = [managed EXCEPT ![s] = Len(cl) + 1]
    /\ Suspend(c, [work EXCEPT !.pc = "login", !.shard = s, !.client = Len(cl) + 1])

Waiting(s) == {c \in Call : calls[c].pc = "grant" /\ calls[c].shard = s}

(* waitFor: a buffered grant is taken; otherwise the call waits, and an    *)
(* earlier wait for the same shard rejects.                                *)
WaitForGrant(c, s, work, cl) ==
    \/ /\ s \in buffered
       /\ buffered' = buffered \ {s}
       /\ Create(c, s, work, cl)
       /\ UNCHANGED up
    \/ /\ s \notin buffered
       /\ up' = (Waiting(s) = {})
       /\ Suspend(c, [work EXCEPT !.pc = "grant", !.shard = s])
       /\ clients' = cl
       /\ UNCHANGED <<managed, buffered>>

(* Mutant: the entry stays in the map.                                     *)
DropShardKeepsEntry(c, s, work, cl) ==
    /\ Suspend(c, [work EXCEPT !.pc = "drop", !.client = managed[s]])
    /\ clients' = cl
    /\ UNCHANGED <<up, managed, buffered>>

(* dropShard up to its await; the client is destroyed after it.            *)
DropShard(c, s, work, cl) ==
    /\ managed' = [managed EXCEPT ![s] = 0]
    /\ Suspend(c, [work EXCEPT !.pc = "drop", !.client = managed[s]])
    /\ clients' = cl
    /\ UNCHANGED <<up, buffered>>

(* The rest of startClientIfNeeded: the plugins are booted on the first    *)
(* call that ends with a client.                                           *)
AfterApply == IF Managed # {} /\ ~booted THEN [Idle EXCEPT !.pc = "boot"] ELSE Idle

(* Mutant: the calls that waited for it are left waiting.                  *)
SettleForgetsWaiters(c, cl) ==
    /\ calls' = [calls EXCEPT ![c] = AfterApply]
    /\ clients' = cl
    /\ UNCHANGED <<up, managed, buffered>>

(* runApply settles: every call that waited for it goes on.                *)
Settle(c, cl) ==
    /\ calls' = [x \in Call |->
                    IF x = c THEN AfterApply
                    ELSE IF calls[x].pc = "wait" /\ calls[x].on = c
                         THEN [calls[x] EXCEPT !.pc = "released"]
                         ELSE calls[x]]
    /\ clients' = cl
    /\ UNCHANGED <<up, managed, buffered>>

(* One step of the drop and add loops of runApply or destroyAll.  cl: what *)
(* the clients have become; flight: applyInflight while it goes on.  It is *)
(* cleared at the end of runApply, whoever's it is by then.                *)
Proceed(c, work, cl, flight) ==
    LET present == work.remove \cap Managed
        missing == {s \in work.add : ~IsReady(cl, s)}
    IN
    \/ /\ \E s \in present : DropShard(c, s, [work EXCEPT !.remove = present \ {s}], cl)
       /\ inflight' = flight
    \/ /\ present = {}
       /\ \E s \in missing :
              WaitForGrant(c, s, [work EXCEPT !.remove = {}, !.add = missing \ {s}], cl)
       /\ inflight' = flight
    \/ /\ present = {} /\ missing = {}
       /\ work.applying
       /\ Settle(c, cl)
       /\ inflight' = None
    \/ /\ present = {} /\ missing = {}
       /\ ~work.applying                                \* end of destroyAll
       /\ Suspend(c, Idle)
       /\ clients' = cl
       /\ inflight' = flight
       /\ UNCHANGED <<up, managed, buffered>>

(* Mutant: shards that went away are not dropped.                          *)
RunApplyWithoutRemove(c, target) ==
    Proceed(c, [Idle EXCEPT !.applying = TRUE, !.add = target \ Managed], clients, c)

(* runApply: the difference to what there is when it starts.               *)
RunApply(c, target) ==
    Proceed(c, [Idle EXCEPT !.applying = TRUE, !.remove = Managed \ target,
                            !.add = target \ Managed],
            clients, c)

(* Mutant: the apply in flight is not waited for.                          *)
ApplyAtOnce(c) == RunApply(c, assigned)

(* applyShardSet: the list is the caller's at this moment, applied after   *)
(* the apply in flight, if there is one, has settled.                      *)
ApplyShardSet(c) ==
    \/ inflight = None /\ RunApply(c, assigned)
    \/ /\ inflight # None
       /\ Suspend(c, [Idle EXCEPT !.pc = "wait", !.on = inflight, !.target = assigned])
       /\ UNCHANGED <<up, inflight, managed, clients, buffered>>

DestroyAll(c) == Proceed(c, [Idle EXCEPT !.remove = Managed], clients, inflight)

adapterVars == <<up, inflight, managed, clients, buffered>>

-------------------------------------------------------------------------------
(* startClientIfNeeded                                                     *)

WithInfrastructure(c) ==
    \/ infra /\ ApplyShardSet(c)
    \/ ~infra /\ Suspend(c, [Idle EXCEPT !.pc = "infra"]) /\ UNCHANGED adapterVars

StartClientIfNeeded(c) ==
    \/ assigned = {} /\ DestroyAll(c)
    \/ assigned # {} /\ preloaded /\ WithInfrastructure(c)
    \/ /\ assigned # {} /\ ~preloaded
       /\ Suspend(c, [Idle EXCEPT !.pc = "preload"])
       /\ UNCHANGED adapterVars

-------------------------------------------------------------------------------
(* Calls                                                                   *)

(* The boot sequence: the snapshot is pulled, then plugins are preloaded.  *)
Hydrate ==
    /\ At(Main, "pull")
    /\ \/ ~preloaded /\ Suspend(Main, [Idle EXCEPT !.pc = "load"]) /\ UNCHANGED adapterVars
       \/ preloaded /\ StartClientIfNeeded(Main)
    /\ UNCHANGED <<assigned, keys, owed, bootVars, updates>>

Preloaded(c) ==
    /\ \/ At(c, "load") /\ StartClientIfNeeded(c)
       \/ At(c, "preload") /\ WithInfrastructure(c)
    /\ preloaded' = TRUE
    /\ UNCHANGED <<assigned, keys, owed, infra, booted, updates>>

(* One initialisation, which every call at this point awaits.             *)
InfrastructureReady(c) ==
    /\ At(c, "infra")
    /\ infra \/ Settled
    /\ infra' = TRUE
    /\ ApplyShardSet(c)
    /\ UNCHANGED <<assigned, keys, owed, preloaded, booted, updates>>

(* applyAssignment up to its hooks, for an update it accepts.  The         *)
(* orchestrator then grants every shard of the update, one after another.  *)
Update(c, S) ==
    /\ up
    /\ calls[c].pc = "idle"
    /\ c # Main
    /\ updates < MaxUpdates
    /\ Cardinality(Busy) < MaxOverlap
    /\ Busy # {} /\ {} \in {S, assigned} => "empty_overlap" \in Event
    /\ updates' = updates + 1
    /\ assigned' = S
    /\ owed' = owed \cup S
    /\ Suspend(c, [Idle EXCEPT !.pc = "hooks"])
    /\ UNCHANGED <<adapterVars, keys, bootVars>>

HooksDone(c) ==
    /\ At(c, "hooks")
    /\ StartClientIfNeeded(c)
    /\ UNCHANGED <<assigned, keys, owed, bootVars, updates>>

Release(c) ==
    /\ At(c, "released")
    /\ RunApply(c, calls[c].target)
    /\ UNCHANGED <<assigned, keys, owed, bootVars, updates>>

(* dropShard resumes: the client is destroyed, then the loop goes on.      *)
Dropped(c) ==
    /\ At(c, "drop")
    /\ Proceed(c, calls[c], [clients EXCEPT ![calls[c].client].state = "closed"], inflight)
    /\ UNCHANGED <<assigned, keys, owed, bootVars, updates>>

(* ClientReady of the client whose login the call awaits, destroyed or not *)
(* managed any more: a destroyed one is never ready.                       *)
LoginReady(c) ==
    /\ At(c, "login")
    /\ clients[calls[c].client].state = "connecting"
    /\ Proceed(c, calls[c], [clients EXCEPT ![calls[c].client].state = "ready"], inflight)
    /\ UNCHANGED <<assigned, keys, owed, bootVars, updates>>

Booted(c) ==
    /\ At(c, "boot")
    /\ booted' = TRUE
    /\ Suspend(c, Idle)
    /\ UNCHANGED <<adapterVars, assigned, keys, owed, preloaded, infra, updates>>

-------------------------------------------------------------------------------
(* Identify grants                                                         *)

(* deliver, to the one call that waits for s.  A poll of the key that was  *)
(* under way then puts the same grant into the buffer again.               *)
Deliver(s) ==
    \E c \in Waiting(s) :
        /\ Create(c, s, calls[c], clients)
        /\ \/ buffered' = buffered \ {s}
           \/ s \in keys' /\ buffered' = buffered \cup {s}
        /\ UNCHANGED <<up, inflight>>

(* The orchestrator's grant: the key, then the message, which              *)
(* onIdentifyGrant drops for a shard that is not assigned.                 *)
GrantIssued(s) ==
    /\ up
    /\ s \in owed
    /\ owed' = owed \ {s}
    /\ keys' = keys \cup {s}
    /\ \/ s \in assigned /\ Deliver(s)
       \/ /\ s \in assigned /\ Waiting(s) = {}
          /\ buffered' = buffered \cup {s}
          /\ UNCHANGED <<up, inflight, managed, clients, calls>>
       \/ s \notin assigned /\ UNCHANGED <<adapterVars, calls>>
    /\ UNCHANGED <<assigned, bootVars, updates>>

(* The waiter's own poll of the key: no look at the assignment.            *)
Poll(s) ==
    /\ up
    /\ s \in keys
    /\ UNCHANGED keys
    /\ Deliver(s)
    /\ UNCHANGED <<assigned, owed, bootVars, updates>>

Expiry(s) ==
    /\ up
    /\ "expiry" \in Event
    /\ s \in keys \cup buffered
    /\ keys' = keys \ {s}
    /\ buffered' = buffered \ {s}
    /\ UNCHANGED <<up, inflight, managed, clients, calls, assigned, owed, bootVars, updates>>

(* The calls that reject: the wait for a grant times out, a login fails.   *)
Rejects(c) ==
    /\ \/ "timeout" \in Event /\ At(c, "grant")
       \/ "login_fails" \in Event /\ At(c, "login")
    /\ up' = FALSE
    /\ UNCHANGED <<inflight, managed, clients, calls, grantVars, assigned, bootVars, updates>>

-------------------------------------------------------------------------------
(* The process has just registered and got its shards.                     *)
Init ==
    /\ up = TRUE
    /\ assigned \in SUBSET Shard
    /\ calls = [[c \in Call |-> Idle] EXCEPT ![Main].pc = "pull"]
    /\ inflight = None
    /\ managed = [s \in Shard |-> 0]
    /\ clients = << >>
    /\ buffered = {} /\ keys = {} /\ owed = assigned
    /\ preloaded = FALSE /\ infra = FALSE /\ booted = FALSE
    /\ updates = 0

Step ==
    \/ Hydrate
    \/ \E c \in Call :
           \/ Preloaded(c) \/ HooksDone(c) \/ Dropped(c) \/ LoginReady(c)
           \/ Booted(c) \/ Rejects(c)
           \/ \E S \in SUBSET Shard : Update(c, S)
    \/ \E s \in Shard : GrantIssued(s) \/ Poll(s) \/ Expiry(s)

Next ==
    \/ Settled /\ Step
    \/ \E c \in Call : Release(c) \/ InfrastructureReady(c)

Spec == Init /\ [][Next]_vars

-------------------------------------------------------------------------------
(* Properties                                                              *)

Connections == {i \in DOMAIN clients : up /\ clients[i].state = "ready"}

Connected == {clients[i].shard : i \in Connections}

Quiet == up /\ Busy = {}

(* Two live clients never identify the same shard: Discord would drop one. *)
OneClientPerShard ==
    \A i, j \in DOMAIN clients :
        clients[i].state # "closed" /\ clients[j].state # "closed"
        /\ clients[i].shard = clients[j].shard => i = j

(* Whatever the adapter hands out for a shard (getClientForShard) is a     *)
(* client of that shard that was not destroyed.                            *)
ManagedClientsLive ==
    \A s \in Managed : /\ clients[managed[s]].shard = s
                       /\ clients[managed[s]].state # "closed"

(* When no call is in flight the shards connected are the ones assigned,   *)
(* and the adapter knows a client for each of them.                        *)
RunsWhatIsAssigned ==
    Quiet => Connected = assigned /\ Managed = assigned

(* "applyShardSet is single-flight" (CROSS_HOST.md): two runApply never    *)
(* interleave.                                                             *)
SingleFlight ==
    up => Cardinality({c \in Call : calls[c].applying}) <= 1

(* Overlapping applies never identify a shard twice: one runs at a time,   *)
(* and no two live clients are of one shard.                               *)
NoDoubleIdentify == SingleFlight /\ OneClientPerShard

(* "Empty assignment tears down all sockets" (CROSS_HOST.md).              *)
EmptyTearsDown ==
    Quiet /\ assigned = {} => Connected = {}

(* "add/remove without touching other sockets" (CROSS_HOST.md): a step     *)
(* never takes down a connected shard that stays assigned.                 *)
OtherSocketsUntouched ==
    [][Connected \cap assigned \cap assigned' \subseteq Connected']_vars

Fairness ==
    /\ WF_vars(Settled /\ Hydrate)
    /\ \A c \in Call : WF_vars(Release(c) \/ InfrastructureReady(c))
                    /\ WF_vars(Settled /\ (Preloaded(c) \/ HooksDone(c) \/ Dropped(c)
                                           \/ LoginReady(c) \/ Booted(c)))
                    /\ WF_vars(Settled /\ At(c, "grant") /\ Rejects(c))
    /\ \A s \in Shard : WF_vars(Settled /\ GrantIssued(s)) /\ WF_vars(Settled /\ Poll(s))

FairSpec == Spec /\ Fairness

(* Every assignment is carried out, or the process exits to be restarted:  *)
(* no call waits for ever for a grant, a login or another call, and the    *)
(* last assignment is what ends up connected.                              *)
AssignmentsConverge == <>[](up => Connected = assigned)
===============================================================================
