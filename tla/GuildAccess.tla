----------------------------- MODULE GuildAccess ------------------------------
(***************************************************************************)
(* Which guilds the bot stays in (manager/guildAccess.ts and the event and *)
(* boot check of the core plugin): a blacklist, a whitelist and the guilds *)
(* an owner invited the bot to, in a database and, for every decision, in  *)
(* memory, with a count of the whitelist beside.                           *)
(*                                                                         *)
(* A row is a list and a guild.  Statements are awaited, as with Postgres  *)
(* and Mongo; with SQLite a call is all of its steps at once.  One process.*)
(***************************************************************************)
EXTENDS Naturals, FiniteSets

CONSTANTS
    Guild,
    Call,      \* commands and join handlers that may be under way at once
    MaxCalls,  \* bound: commands and joins
    MaxEvents  \* bound: reloads of the core plugin and failed statements

VARIABLES
    db,        \* the rows
    presence,  \* the rows in memory
    whitelistCount,
    ready,
    warm,      \* warmCache: where it is, and the rows read
    call,      \* the calls: what, on which row, where, did it change something
    count, events,
    \* For the properties: why the memory may be wrong, the guilds an owner's
    \* invitation was recorded for and is being handled, those of them left.
    excuse, invited, wronged

vars == <<db, presence, whitelistCount, ready, warm, call, count, events, excuse, invited,
          wronged>>

Kind == {"b", "w", "o"}
Row == Kind \X Guild
Idle == [op |-> "none", row |-> <<"b", "none">>, pc |-> "idle", changed |-> FALSE]
Cold == [at |-> "idle", keys |-> {}]
White(rows) == {r \in rows : r[1] = "w"}

----------------------------------------------------------------------------
(* The decision. *)

\* readPolicy: the configuration is read for every decision.
Policy == [conflictPriority : {"blacklist", "whitelist"},
           emptyWhitelistMeans : {"allow_all", "deny_all"}, allowOwner : BOOLEAN]

\* isGuildAllowed, over rows and a count of the whitelist.
Admits(policy, rows, whites, g) ==
    \/ policy.allowOwner /\ <<"o", g>> \in rows
    \/ <<"w", g>> \in rows /\ (<<"b", g>> \in rows => policy.conflictPriority = "whitelist")
    \/ /\ <<"b", g>> \notin rows /\ <<"w", g>> \notin rows
       /\ whites = 0 /\ policy.emptyWhitelistMeans = "allow_all"

IsGuildAllowed(policy, g) == ~ready \/ Admits(policy, presence, whitelistCount, g)

----------------------------------------------------------------------------
(* The memory. *)

Busy == \E c \in Call : call[c].pc \in {"sent", "done"}

\* init, also when the core plugin is loaded again: ready stays, the rows go.
WarmCache ==
    /\ warm.at = "idle"
    /\ IF ready THEN events < MaxEvents /\ events' = events + 1 ELSE UNCHANGED events
    /\ presence' = {}
    /\ warm' = [at |-> "b", keys |-> {}]
    /\ excuse' = IF Busy THEN {"torn"} ELSE {}
    /\ invited' = {}
    /\ UNCHANGED <<db, whitelistCount, ready, call, count, wronged>>

After(at) == CASE at = "b" -> "w" [] at = "w" -> "o" [] OTHER -> "load"

\* One of the three reads, in their order.
Read ==
    /\ warm.at \in Kind
    /\ warm' = [at |-> After(warm.at), keys |-> warm.keys \cup {r \in db : r[1] = warm.at}]
    /\ UNCHANGED <<db, presence, whitelistCount, ready, call, count, events, excuse,
                   invited, wronged>>

\* What was read is added to the rows that calls have set meanwhile.
Load ==
    /\ warm.at = "load"
    /\ presence' = presence \cup warm.keys
    /\ whitelistCount' = Cardinality(White(warm.keys))
    /\ ready' = TRUE
    /\ warm' = Cold
    /\ UNCHANGED <<db, call, count, events, excuse, invited, wronged>>

\* A read fails: a warning, and nothing is put back.
ReadFails ==
    /\ warm.at \in Kind
    /\ events < MaxEvents /\ events' = events + 1
    /\ warm' = Cold
    /\ excuse' = excuse \cup {"failed"}
    /\ UNCHANGED <<db, presence, whitelistCount, ready, call, count, invited, wronged>>

----------------------------------------------------------------------------
(* The calls. *)

Crossing(row) == \E c \in Call : call[c].pc # "idle" /\ call[c].row = row

\* Two statements on a row, or one while the memory is warmed, may end with
\* memory and database apart.
Excused(row) ==
    (IF Crossing(row) THEN {"crossed"} ELSE {}) \cup (IF warm.at # "idle" THEN {"torn"} ELSE {})

\* addToList and removeFromList: a command of an administrator.
Command(c, op, row) ==
    /\ ready /\ call[c].pc = "idle" /\ row[1] # "o"
    /\ count < MaxCalls /\ count' = count + 1
    /\ call' = [call EXCEPT ![c] = [op |-> op, row |-> row, pc |-> "sent", changed |-> FALSE]]
    /\ excuse' = excuse \cup Excused(row)
    /\ UNCHANGED <<db, presence, whitelistCount, ready, warm, events, invited, wronged>>

\* discord.guildCreate: with allowOwner the audit log is looked up, and a guild
\* that an owner invited the bot to is authorized.
Join(c, g, authorize) ==
    /\ ready /\ call[c].pc = "idle"
    /\ ~\E d \in Call : call[d].pc # "idle" /\ call[d].op = "join" /\ call[d].row[2] = g
    /\ count < MaxCalls /\ count' = count + 1
    /\ call' = [call EXCEPT ![c] = [op |-> "join", row |-> <<"o", g>>, changed |-> FALSE,
                                    pc |-> IF authorize THEN "sent" ELSE "check"]]
    /\ excuse' = excuse \cup (IF authorize THEN Excused(<<"o", g>>) ELSE {})
    /\ UNCHANGED <<db, presence, whitelistCount, ready, warm, events, invited, wronged>>

Execute(c) ==
    LET x == call[c] IN
    /\ x.pc = "sent"
    /\ db' = IF x.op = "remove" THEN db \ {x.row} ELSE db \cup {x.row}
    /\ call' = [call EXCEPT ![c].pc = "done", ![c].changed = (db' # db)]
    /\ UNCHANGED <<presence, whitelistCount, ready, warm, count, events, excuse, invited,
                   wronged>>

\* A command ends with the error; a join goes on to the check.
Reject(c) ==
    /\ call[c].pc = "sent"
    /\ events < MaxEvents /\ events' = events + 1
    /\ call' = [call EXCEPT ![c] = IF @.op = "join" THEN [@ EXCEPT !.pc = "check"] ELSE Idle]
    /\ UNCHANGED <<db, presence, whitelistCount, ready, warm, count, excuse, invited,
                   wronged>>

\* Mutant: a guild that is put on the whitelist again counts again.
CountedAgain(x) == IF x.row[1] = "w" /\ x.op = "add" THEN whitelistCount + 1 ELSE whitelistCount

\* The count follows what changes in memory, and stops at zero.
Counted(x) ==
    IF x.row[1] # "w" THEN whitelistCount
    ELSE IF x.op = "add" THEN
        IF x.row \in presence THEN whitelistCount ELSE whitelistCount + 1
    ELSE IF x.changed /\ x.row \in presence /\ whitelistCount > 0 THEN whitelistCount - 1
    ELSE whitelistCount

\* The memory follows; of a removal only when a row was there.
Follow(c) ==
    LET x == call[c] IN
    /\ x.pc = "done"
    /\ presence' = CASE x.op # "remove" -> presence \cup {x.row}
                     [] x.op = "remove" /\ x.changed -> presence \ {x.row}
                     [] OTHER -> presence
    /\ whitelistCount' = Counted(x)
    /\ call' = [call EXCEPT ![c] = IF x.op = "join" THEN [x EXCEPT !.pc = "check"] ELSE Idle]
    /\ invited' = IF x.op = "join" THEN invited \cup {x.row[2]} ELSE invited
    /\ UNCHANGED <<db, ready, warm, count, events, excuse, wronged>>

\* After the notice to the guild's owner, the guild is left or not.
CheckJoin(c, policy) ==
    LET g == call[c].row[2] IN
    /\ call[c].pc = "check"
    /\ wronged' = IF g \in invited /\ policy.allowOwner /\ ~IsGuildAllowed(policy, g)
                  THEN wronged \cup {g} ELSE wronged
    /\ invited' = invited \ {g}
    /\ call' = [call EXCEPT ![c] = Idle]
    /\ UNCHANGED <<db, presence, whitelistCount, ready, warm, count, events, excuse>>

Init ==
    /\ db \in {{}, {"w"} \X Guild}
    /\ presence = {} /\ whitelistCount = 0 /\ ready = FALSE /\ warm = Cold
    /\ call = [c \in Call |-> Idle] /\ count = 0 /\ events = 0
    /\ excuse = {} /\ invited = {} /\ wronged = {}

Next ==
    \/ WarmCache \/ Read \/ Load \/ ReadFails
    \/ \E c \in Call :
          \/ Execute(c) \/ Reject(c) \/ Follow(c)
          \/ \E policy \in Policy : CheckJoin(c, policy)
          \/ \E op \in {"add", "remove"}, row \in Row : Command(c, op, row)
          \/ \E g \in Guild, authorize \in BOOLEAN : Join(c, g, authorize)

Spec == Init /\ [][Next]_vars

----------------------------------------------------------------------------
(* Properties. *)

TypeOK ==
    /\ db \subseteq Row /\ presence \subseteq Row /\ whitelistCount \in Nat /\ ready \in BOOLEAN
    /\ warm.at \in Kind \cup {"idle", "load"} /\ warm.keys \subseteq Row
    /\ \A c \in Call : call[c].pc \in {"idle", "sent", "done", "check"}
    /\ excuse \subseteq {"crossed", "torn", "failed"} /\ invited \subseteq Guild

\* At rest the memory decides of every guild as the database would: rows and
\* count agree, over additions and removals that are repeated, refused or
\* under way together, unless two on one row crossed, or one met the warming,
\* or that failed.
DecidesAsDatabase ==
    ready /\ warm.at = "idle" /\ ~Busy /\ excuse = {} =>
        \A g \in Guild, policy \in Policy :
            IsGuildAllowed(policy, g) <=> Admits(policy, db, Cardinality(White(db)), g)

\* A guild whose invitation by an owner was recorded is not left on joining,
\* whatever the lists say, while allowOwner is set, unless the memory is
\* cleared between the record and the check (tryOwnerAuthorize, execute).
InvitedStay == wronged = {}

\* Of every guild the memory decides as the database would, and one that an
\* owner invited the bot to is not left.
GuildsAreDecided == TypeOK /\ DecidesAsDatabase /\ InvitedStay
===============================================================================
