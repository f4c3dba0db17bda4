------------------------------ MODULE GuildGate -------------------------------
(***************************************************************************)
(* The guild gate (manager/guildGate.ts): guilds and plugins of guilds     *)
(* that are blocked, in a database and, for every check, in the memory of  *)
(* the process.  With Postgres and Mongo the database is awaited, then the *)
(* memory follows; the copy of it in Redis is written and never read.      *)
(* A gate is a row of either table; several processes share the database.  *)
(***************************************************************************)
EXTENDS Naturals, FiniteSets

CONSTANTS
    Process,    \* processes that share the database
    Call,       \* operations that may be under way at once in a process
    Gate,       \* the rows
    MaxCalls,   \* bound: operations
    MaxEvents   \* bound: restarts and rejected statements

VARIABLES
    db,        \* the rows there are
    presence,  \* per process the gates in memory
    ready,     \* the processes that have warmed their memory
    warming,   \* per process what the reads of warmCache gave
    call,      \* the operations: the gate and where it is
    crossed,   \* per process the gates two operations were under way for
    foreign,   \* per process the gates another process changed since its start
    count, events

vars == <<db, presence, ready, warming, call, crossed, foreign, count, events>>

Idle == [op |-> "none", gate |-> "none", pc |-> "idle"]
Cold == [on |-> FALSE, rows |-> {}]

----------------------------------------------------------------------------

\* init: the reads of warmCache, then the load.
Warm(p) ==
    /\ p \notin ready /\ ~warming[p].on
    /\ warming' = [warming EXCEPT ![p] = [on |-> TRUE, rows |-> db]]
    /\ foreign' = [foreign EXCEPT ![p] = {}]
    /\ UNCHANGED <<db, presence, ready, call, crossed, count, events>>

Ready(p) ==
    /\ warming[p].on
    /\ presence' = [presence EXCEPT ![p] = warming[p].rows]
    /\ warming' = [warming EXCEPT ![p] = Cold]
    /\ ready' = ready \cup {p}
    /\ UNCHANGED <<db, call, crossed, foreign, count, events>>

\* blockGuild, blockPlugin, unblockGuild, unblockPlugin: the statement is sent.
Begin(p, c, op, g) ==
    /\ p \in ready /\ call[p][c].pc = "idle"
    /\ count < MaxCalls /\ count' = count + 1
    /\ call' = [call EXCEPT ![p][c] = [op |-> op, gate |-> g, pc |-> "sent"]]
    /\ crossed' = [crossed EXCEPT ![p] =
                      IF \E d \in Call \ {c} : call[p][d].gate = g THEN @ \cup {g} ELSE @]
    /\ UNCHANGED <<db, presence, ready, warming, foreign, events>>

\* The database does it, in whatever order the statements arrive.
Execute(p, c) ==
    LET x == call[p][c]
    IN /\ x.pc = "sent"
       /\ db' = IF x.op = "block" THEN db \cup {x.gate} ELSE db \ {x.gate}
       /\ call' = [call EXCEPT ![p][c].pc = "done"]
       /\ foreign' = [q \in Process |-> IF q = p \/ db' = db THEN foreign[q]
                                        ELSE foreign[q] \cup {x.gate}]
       /\ UNCHANGED <<presence, ready, warming, crossed, count, events>>

\* Or rejects it: the memory stays.
Reject(p, c) ==
    /\ call[p][c].pc = "sent"
    /\ events < MaxEvents /\ events' = events + 1
    /\ call' = [call EXCEPT ![p][c] = Idle]
    /\ UNCHANGED <<db, presence, ready, warming, crossed, foreign, count>>

\* Mutant: nothing is taken out of the memory.
FollowedBlocks(p, x) ==
    IF x.op = "block" THEN presence[p] \cup {x.gate} ELSE presence[p]

Followed(p, x) ==
    IF x.op = "block" THEN presence[p] \cup {x.gate} ELSE presence[p] \ {x.gate}

\* The memory follows.
Finish(p, c) ==
    LET x == call[p][c]
    IN /\ x.pc = "done"
       /\ presence' = [presence EXCEPT ![p] = Followed(p, x)]
       /\ call' = [call EXCEPT ![p][c] = Idle]
       /\ UNCHANGED <<db, ready, warming, crossed, foreign, count, events>>

Restart(p) ==
    /\ events < MaxEvents /\ events' = events + 1
    /\ presence' = [presence EXCEPT ![p] = {}]
    /\ ready' = ready \ {p}
    /\ warming' = [warming EXCEPT ![p] = Cold]
    /\ call' = [call EXCEPT ![p] = [c \in Call |-> Idle]]
    /\ crossed' = [crossed EXCEPT ![p] = {}]
    /\ foreign' = [foreign EXCEPT ![p] = {}]
    /\ UNCHANGED <<db, count>>

Init ==
    /\ db = {} /\ presence = [p \in Process |-> {}] /\ ready = {}
    /\ warming = [p \in Process |-> Cold]
    /\ call = [p \in Process |-> [c \in Call |-> Idle]]
    /\ crossed = [p \in Process |-> {}] /\ foreign = [p \in Process |-> {}]
    /\ count = 0 /\ events = 0

Next ==
    \E p \in Process :
       \/ Warm(p) \/ Ready(p) \/ Restart(p)
       \/ \E c \in Call : \/ Execute(p, c) \/ Reject(p, c) \/ Finish(p, c)
                          \/ \E op \in {"block", "unblock"}, g \in Gate : Begin(p, c, op, g)

Spec == Init /\ [][Next]_vars

----------------------------------------------------------------------------
(* Properties. *)

TypeOK ==
    /\ db \subseteq Gate /\ ready \subseteq Process
    /\ presence \in [Process -> SUBSET Gate]
    /\ \A p \in Process, c \in Call : call[p][c].pc \in {"idle", "sent", "done"}

\* What a process checks against is what the database says of every gate that
\* is at rest, across restarts, rejected statements and operations on other
\* gates, unless two operations on that gate crossed in the process or
\* another process changed it since this one started: the memory follows the
\* answers, not the database, and nobody tells the others (blockGuild).
GateIsCurrent ==
    \A p \in ready, g \in Gate :
        /\ g \notin crossed[p] \cup foreign[p]
        /\ ~\E c \in Call : call[p][c].gate = g
        => (g \in presence[p] <=> g \in db)
==============================================================================
