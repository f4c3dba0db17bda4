-------------------------- MODULE GatewayMultiplex --------------------------
(***************************************************************************)
(* The raw gateway package (packages/gateway-multiplex/src): one shard id, *)
(* the GatewayShard objects made for it one after another, their sockets,  *)
(* and the lock under which shards are added and removed.                  *)
(*                                                                         *)
(* Callbacks of sockets, timers and the turn of the identify queue come in *)
(* any order.  The session store is the default one, in memory: an await   *)
(* of it does not let other events in.  A socket is named by its object    *)
(* and its connect generation.  The READY timeout is left out: the connect *)
(* timeout is shorter, starts earlier and is cancelled with it.            *)
(***************************************************************************)
EXTENDS Naturals, FiniteSets

CONSTANTS
    MaxShards,  \* bound: GatewayShard objects made
    MaxFaults,  \* bound: closes, timeouts and refusals from outside
    MaxOps      \* bound: addShard, removeShard, setShards, destroy

ASSUME GatewayAssumption ==
    /\ MaxShards \in Nat \ {0} /\ MaxFaults \in Nat /\ MaxOps \in Nat

VARIABLES
    shards,   \* per object: its status, socket, generation, flags
    sock,     \* per object and generation: the socket, as both ends see it
    current,  \* the object in the map of the multiplex, 0 for none
    stored,   \* does the session store hold a session?
    lock,     \* the connect the holder of the lock awaits, or Free
    turns,    \* Hello handlers that wait for their turn to identify
    sleeps,   \* onClose handlers that wait before they reconnect
    count,    \* objects, faults and operations so far
    mishaps   \* what has happened: "late_turn", a socket was lost while its
              \* turn was awaited; "second_connect", addShard of a shard that
              \* was about to reconnect by itself

vars == <<shards, sock, current, stored, lock, turns, sleeps, count, mishaps>>

Shards == 1..MaxShards
Gens   == 1..(MaxFaults + MaxOps + 1)
Conns  == Shards \X Gens
Free   == <<0, 0>>

Status == {"idle", "connecting", "reconnecting", "identifying", "resuming",
           "ready", "disconnected", "destroyed"}

NoShard == [status |-> "idle", ws |-> 0, gen |-> 0, session |-> FALSE,
            heartbeat |-> FALSE, destroyed |-> FALSE, refused |-> FALSE]

NoSocket == [st |-> "none", resume |-> FALSE, hello |-> FALSE, auth |-> "none",
             settled |-> FALSE, timer |-> FALSE]

----------------------------------------------------------------------------
(* Helpers. *)

\* Messages and closes of a socket are handled if no later connect began.
Handled(c) == shards[c[1]].gen = c[2]

\* The socket the object holds now, which need not be the one an event is of.
Held(c) == <<c[1], shards[c[1]].ws>>

\* ok and fail: the promise of the connect is settled and its timer stopped,
\* if the connect is the latest.
Settle(s, c) == IF Handled(c) THEN [s EXCEPT !.settled = TRUE, !.timer = FALSE] ELSE s

\* this.ws?.close or terminate: the close event is still to come.
CloseHeld(c) ==
    IF shards[c[1]].ws # 0 /\ sock[Held(c)].st \in {"connecting", "open"}
    THEN [sock EXCEPT ![Held(c)].st = "closing"] ELSE sock

\* Something goes wrong from outside, perhaps while a Hello handler of the
\* object waits for its turn.
Fault(i) ==
    /\ count.faults < MaxFaults
    /\ count' = [count EXCEPT !.faults = @ + 1]
    /\ mishaps' = IF turns \cap ({i} \X Gens) = {} THEN mishaps
                                                   ELSE mishaps \cup {"late_turn"}

----------------------------------------------------------------------------
(* connect: reads the stored session and opens a socket; it returns at     *)
(* once when the status says that a connection is there or on its way.     *)

\* Mutant: only a ready shard is left alone.
ReturnsIfReady(i) == shards[i].status = "ready"

ConnectReturns(i) == shards[i].status \in {"ready", "identifying", "resuming"}

Connect(i, sh) ==
    LET g == sh.gen + 1
    IN /\ g \in Gens
       /\ shards' = [shards EXCEPT ![i] =
              [sh EXCEPT !.gen = g, !.ws = g, !.refused = FALSE,
                         !.status = IF stored THEN "reconnecting" ELSE "connecting",
                         !.session = @ \/ stored]]
       /\ sock' = [sock EXCEPT ![<<i, g>>] =
              [NoSocket EXCEPT !.st = "connecting", !.resume = stored, !.timer = TRUE]]

\* No attempt of the object is under way or about to begin.
Rests(i) ==
    /\ \A g \in Gens : <<i, g>> \notin sleeps
    /\ shards[i].gen # 0 => sock[<<i, shards[i].gen>>].st = "closed"

----------------------------------------------------------------------------
(* The multiplex.  Operations run one after another under the lock; those  *)
(* that wait for it are the ones that have not begun.                      *)

Operation ==
    /\ lock = Free
    /\ count.ops < MaxOps

\* addShard and setShards: a new object, and its connect is awaited.
AddNew ==
    LET i == count.made + 1
    IN /\ Operation
       /\ current = 0 /\ i \in Shards
       /\ current' = i
       /\ count' = [count EXCEPT !.ops = @ + 1, !.made = i]
       /\ Connect(i, NoShard)
       /\ lock' = <<i, 1>>
       /\ UNCHANGED <<stored, turns, sleeps, mishaps>>

\* addShard of a shard that is in the map and not ready.
AddExisting ==
    /\ Operation
    /\ current # 0 /\ ~ConnectReturns(current)
    /\ mishaps' = IF Rests(current) THEN mishaps ELSE mishaps \cup {"second_connect"}
    /\ count' = [count EXCEPT !.ops = @ + 1]
    /\ Connect(current, shards[current])
    /\ lock' = <<current, shards[current].gen + 1>>
    /\ UNCHANGED <<current, stored, turns, sleeps>>

\* removeShard, setShards and destroy, with or without the session.  A
\* socket that is still connecting is forgotten, not closed.
Remove(clear) ==
    LET c == <<current, shards[current].ws>>
    IN /\ Operation
       /\ current # 0
       /\ count' = [count EXCEPT !.ops = @ + 1]
       /\ shards' = [shards EXCEPT ![current] =
              [shards[current] EXCEPT !.destroyed = TRUE, !.heartbeat = FALSE, !.ws = 0,
                                      !.status = "destroyed", !.session = @ /\ ~clear]]
       /\ stored' = (stored /\ ~clear)
       /\ sock' = IF c[2] # 0 /\ sock[c].st = "open"
                  THEN [sock EXCEPT ![c].st = "closing"] ELSE sock
       /\ current' = 0
       /\ UNCHANGED <<lock, turns, sleeps, mishaps>>

\* The awaited connect has settled, one way or the other.
Release ==
    /\ lock # Free /\ sock[lock].settled
    /\ lock' = Free
    /\ UNCHANGED <<shards, sock, current, stored, turns, sleeps, count, mishaps>>

----------------------------------------------------------------------------
(* Messages of a socket. *)

Opens(c) ==
    /\ sock[c].st = "connecting"
    /\ sock' = [sock EXCEPT ![c].st = "open"]
    /\ UNCHANGED <<shards, current, stored, lock, turns, sleeps, count, mishaps>>

\* Hello: the heartbeat starts; resume at once, or wait for a turn to
\* identify.  A send without an open socket throws and fails the connect.
Hello(c) ==
    LET i == c[1]
        resumes == sock[c].resume /\ shards[i].session
        sends == shards[i].ws # 0 /\ sock[Held(c)].st = "open"
    IN /\ sock[c].st = "open" /\ ~sock[c].hello
       /\ shards' = IF ~Handled(c) THEN shards
                    ELSE [shards EXCEPT ![i].heartbeat = TRUE,
                             ![i].status = IF resumes THEN "resuming" ELSE @]
       /\ turns' = IF Handled(c) /\ ~resumes THEN turns \cup {c} ELSE turns
       /\ sock' = CASE ~Handled(c) \/ ~resumes -> [sock EXCEPT ![c].hello = TRUE]
                    [] Handled(c) /\ resumes /\ sends ->
                         [sock EXCEPT ![c].hello = TRUE, ![Held(c)].auth = "resume"]
                    [] OTHER -> [sock EXCEPT ![c] = Settle([@ EXCEPT !.hello = TRUE], c)]
       /\ UNCHANGED <<current, stored, lock, sleeps, count, mishaps>>

\* The turn of a Hello handler comes.  It goes on whatever has become of its
\* socket, and identifies on the one the object holds.
Turn(c) ==
    /\ c \in turns
    /\ turns' = turns \ {c}
    /\ shards' = [shards EXCEPT ![c[1]].status = "identifying"]
    /\ sock' = IF shards[c[1]].ws # 0 /\ sock[Held(c)].st = "open"
               THEN [sock EXCEPT ![Held(c)] =
                        IF @.auth = "none" THEN [@ EXCEPT !.auth = "identify"]
                        ELSE [@ EXCEPT !.st = "closing"]]  \* 4005 from Discord
               ELSE [sock EXCEPT ![c] = Settle(@, c)]
    /\ UNCHANGED <<current, stored, lock, sleeps, count, mishaps>>

\* READY: the session is kept, the connect succeeds.
Ready(c) ==
    /\ sock[c].st \in {"open", "closing"} /\ sock[c].auth = "identify"
    /\ IF Handled(c)
       THEN /\ shards' = [shards EXCEPT ![c[1]].session = TRUE, ![c[1]].status = "ready"]
            /\ stored' = TRUE
       ELSE UNCHANGED <<shards, stored>>
    /\ sock' = [sock EXCEPT ![c] = Settle([@ EXCEPT !.auth = "live"], c)]
    /\ UNCHANGED <<current, lock, turns, sleeps, count, mishaps>>

Resumed(c) ==
    /\ sock[c].st \in {"open", "closing"} /\ sock[c].auth = "resume"
    /\ shards' = IF Handled(c) THEN [shards EXCEPT ![c[1]].status = "ready"] ELSE shards
    /\ sock' = [sock EXCEPT ![c] = Settle([@ EXCEPT !.auth = "live"], c)]
    /\ UNCHANGED <<current, stored, lock, turns, sleeps, count, mishaps>>

\* The session cannot be resumed; it is forgotten unless Discord says that
\* it can be tried again, and the socket is closed.
InvalidSession(c, resumable) ==
    /\ sock[c].st = "open" /\ sock[c].auth \in {"identify", "resume"} /\ Handled(c)
    /\ Fault(c[1])
    /\ shards' = IF resumable THEN shards ELSE [shards EXCEPT ![c[1]].session = FALSE]
    /\ stored' = (stored /\ resumable)
    /\ sock' = CloseHeld(c)
    /\ UNCHANGED <<current, lock, turns, sleeps>>

\* Discord asks for a reconnect, or a heartbeat was not acknowledged.
Reconnect(c) ==
    /\ sock[c].st = "open" /\ Handled(c) /\ shards[c[1]].heartbeat
    /\ Fault(c[1])
    /\ sock' = CloseHeld(c)
    /\ UNCHANGED <<shards, current, stored, lock, turns, sleeps>>

----------------------------------------------------------------------------
(* Timers and closes. *)

\* The connect timer: fails its own connect, terminates the socket held now.
ConnectTimeout(c) ==
    /\ sock[c].timer
    /\ Fault(c[1])
    /\ sock' = [CloseHeld(c) EXCEPT ![c] = Settle([@ EXCEPT !.timer = FALSE], c)]
    /\ UNCHANGED <<shards, current, stored, lock, turns, sleeps>>

\* Mutant: a connect that did not succeed is not tried again.
ClosedForGood(c, fatal) ==
    LET i == c[1]
    IN /\ sock' = [sock EXCEPT ![c] = Settle([@ EXCEPT !.st = "closed"], c)]
       /\ IF Handled(c)
          THEN /\ shards' = [shards EXCEPT ![i] =
                      [@ EXCEPT !.heartbeat = FALSE, !.ws = 0,
                                !.status = "disconnected", !.refused = fatal]]
               /\ stored' = (stored /\ ~fatal)
               /\ sleeps' = IF shards[i].destroyed \/ fatal \/ ~sock[c].settled
                            THEN sleeps ELSE sleeps \cup {c}
          ELSE UNCHANGED <<shards, stored, sleeps>>
       /\ UNCHANGED <<current, lock, turns>>

\* Mutant: the connect of a socket that closed is not failed.
ClosedKeepsPromise(c, fatal) ==
    LET i == c[1]
    IN /\ sock' = [sock EXCEPT ![c].st = "closed"]
       /\ IF Handled(c)
          THEN /\ shards' = [shards EXCEPT ![i] =
                      [@ EXCEPT !.heartbeat = FALSE, !.ws = 0,
                                !.status = "disconnected", !.refused = fatal]]
               /\ stored' = (stored /\ ~fatal)
               /\ sleeps' = IF shards[i].destroyed \/ fatal THEN sleeps
                                                          ELSE sleeps \cup {c}
          ELSE UNCHANGED <<shards, stored, sleeps>>
       /\ UNCHANGED <<current, lock, turns>>

\* onClose: a fatal code drops the session and ends the attempts; otherwise
\* the shard sleeps and reconnects, unless it is destroyed.  A connect that
\* was not settled fails.
Closed(c, fatal) ==
    LET i == c[1]
    IN /\ sock' = [sock EXCEPT ![c] = Settle([@ EXCEPT !.st = "closed"], c)]
       /\ IF Handled(c)
          THEN /\ shards' = [shards EXCEPT ![i] =
                      [@ EXCEPT !.heartbeat = FALSE, !.ws = 0,
                                !.status = "disconnected", !.refused = fatal]]
               /\ stored' = (stored /\ ~fatal)
               /\ sleeps' = IF shards[i].destroyed \/ fatal THEN sleeps
                                                          ELSE sleeps \cup {c}
          ELSE UNCHANGED <<shards, stored, sleeps>>
       /\ UNCHANGED <<current, lock, turns>>

\* The end of a close that one side has begun.
CloseEnds(c) ==
    /\ sock[c].st = "closing"
    /\ Closed(c, FALSE)
    /\ UNCHANGED <<count, mishaps>>

\* The other side or the network closes.
Drops(c, fatal) ==
    /\ sock[c].st \in {"connecting", "open"}
    /\ fatal => sock[c].st = "open" /\ sock[c].auth # "none"
    /\ Fault(c[1])
    /\ Closed(c, fatal)

\* The sleep of onClose is over.
Wakes(c) ==
    LET i == c[1]
    IN /\ c \in sleeps
       /\ sleeps' = sleeps \ {c}
       /\ IF shards[i].destroyed \/ ConnectReturns(i)
          THEN UNCHANGED <<shards, sock>>
          ELSE Connect(i, shards[i])
       /\ UNCHANGED <<current, stored, lock, turns, count, mishaps>>

----------------------------------------------------------------------------

Init ==
    /\ shards = [i \in Shards |-> NoShard]
    /\ sock = [c \in Conns |-> NoSocket]
    /\ current = 0 /\ stored = FALSE /\ lock = Free
    /\ turns = {} /\ sleeps = {}
    /\ count = [made |-> 0, faults |-> 0, ops |-> 0]
    /\ mishaps = {}

\* What Discord, the queue and the event loop bring in the end.
Progress(c) ==
    \/ Opens(c) \/ Hello(c) \/ Turn(c) \/ Ready(c) \/ Resumed(c)
    \/ CloseEnds(c) \/ Wakes(c)

Faults(c) ==
    \/ Reconnect(c) \/ ConnectTimeout(c)
    \/ \E b \in BOOLEAN : InvalidSession(c, b) \/ Drops(c, b)

Next ==
    \/ AddNew \/ AddExisting \/ (\E clear \in BOOLEAN : Remove(clear)) \/ Release
    \/ \E c \in Conns : Progress(c) \/ Faults(c)

Spec == Init /\ [][Next]_vars

FairSpec ==
    /\ Spec /\ WF_vars(Release)
    /\ \A c \in Conns :
         /\ WF_vars(Opens(c)) /\ WF_vars(Hello(c)) /\ WF_vars(Turn(c))
         /\ WF_vars(Ready(c)) /\ WF_vars(Resumed(c))
         /\ WF_vars(CloseEnds(c)) /\ WF_vars(Wakes(c))

----------------------------------------------------------------------------
(* Properties. *)

TypeOK ==
    /\ shards \in [Shards -> [status: Status, ws: {0} \cup Gens, gen: {0} \cup Gens,
           session: BOOLEAN, heartbeat: BOOLEAN, destroyed: BOOLEAN, refused: BOOLEAN]]
    /\ \A c \in Conns :
         /\ sock[c].st \in {"none", "connecting", "open", "closing", "closed"}
         /\ sock[c].auth \in {"none", "identify", "resume", "live"}
    /\ current \in {0} \cup Shards /\ lock \in Conns \cup {Free}
    /\ turns \subseteq Conns /\ sleeps \subseteq Conns

\* The shard has at most one session at Discord: of all sockets that were
\* ever opened for it, at most one that is open has identified or resumed
\* (GatewayShard.ts:75, GatewayMultiplex.ts:164).
OneSession ==
    Cardinality({c \in Conns : sock[c].st = "open" /\ sock[c].auth # "none"}) <= 1

\* A shard that was removed has no session at Discord, and nothing brings it
\* back (GatewayShard.ts:92).
RemovedIsSilent == \A c \in Conns :
    shards[c[1]].destroyed => ~(sock[c].st = "open" /\ sock[c].auth # "none")

\* A shard in the map that says it is ready holds the socket of its latest
\* connect, and Discord takes it for live (GatewayShard.ts:265).
ReadyIsLive ==
    current # 0 /\ shards[current].status = "ready" =>
        /\ shards[current].ws = shards[current].gen
        /\ sock[<<current, shards[current].ws>>].auth = "live"
        /\ sock[<<current, shards[current].ws>>].st # "closed"

\* Discord and the manager agree on the sessions of the shard: the state has
\* its shape, there is one session at most, none of a removed shard, and a
\* shard that says it is ready has it.
SessionsAreKnown == TypeOK /\ OneSession /\ RemovedIsSilent /\ ReadyIsLive

\* A shard in the map that is not ready becomes ready, unless it is removed
\* or Discord refuses it for good (GatewayShard.ts:330): "reconnecting".
ShardComesBack == \A i \in Shards :
    current = i ~> shards[i].status = "ready" \/ shards[i].refused \/ current # i

\* The same where no turn came late and no connect was doubled.
ShardComesBackUnlessLate == \A i \in Shards :
    current = i ~> \/ shards[i].status = "ready" \/ shards[i].refused
                   \/ current # i \/ mishaps # {}

\* Who holds the lock lets it go, so that operations do not wait for ever,
\* where no connect was doubled (GatewayMultiplex.ts:259).
LockIsReleased == lock # Free ~> lock = Free \/ "second_connect" \in mishaps
=============================================================================
