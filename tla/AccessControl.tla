---------------------------- MODULE AccessControl -----------------------------
(***************************************************************************)
(* What says who may do what: the permissions, the cooldowns, the guild    *)
(* gate, the tokens and the guilds the bot stays in.  They share no state, *)
(* so a behaviour is one of a single one of them, chosen at its start, and *)
(* the others rest in their initial states.                                *)
(***************************************************************************)
EXTENDS Permissions, Integers, FiniteSets

CONSTANTS
    Process,        \* processes of the bot
    Limit, Window,  \* of the bucket of a cooldown
    Gate,           \* what a gate may block
    Operation,      \* operations and commands that may be under way in a process
    Guild,
    MaxTime,        \* bound: the clock of the cooldown
    MaxChecks,      \* bound: uses of it
    MaxRefunds,     \* bound: refunds
    MaxTokens,      \* bound: tokens
    MaxRevokes,     \* bound: revocations
    MaxOperations   \* bound: operations on gates, commands and joins

ASSUME CoolAssumption == Limit \in Nat /\ Window \in Nat \ {0} /\ MaxTime \in Nat \ {0}

ASSUME GuildsAssumption == IsFiniteSet(Guild)

VARIABLES
    which,   \* what is looked at
    c_now, c_redis, c_local, c_refund, c_allowed, c_refunded, c_told, c_checks, c_late, c_blip,
    g_db, g_presence, g_ready, g_warming, g_call, g_crossed, g_foreign, g_count, g_events,
    t_engine, t_global, t_device, t_tokens, t_call, t_torn, t_again, t_left,
    a_db, a_presence, a_whitelistCount, a_ready, a_warm, a_call, a_count, a_events, a_excuse,
    a_invited, a_wronged

Cool == INSTANCE Cooldown WITH
    now <- c_now, redis <- c_redis, local <- c_local, refund <- c_refund, allowed <- c_allowed,
    refunded <- c_refunded, told <- c_told, checks <- c_checks, late <- c_late, blip <- c_blip

Gates == INSTANCE GuildGate WITH
    Call <- Operation, MaxCalls <- MaxOperations,
    db <- g_db, presence <- g_presence, ready <- g_ready, warming <- g_warming, call <- g_call,
    crossed <- g_crossed, foreign <- g_foreign, count <- g_count, events <- g_events

Tok == INSTANCE Tokens WITH
    engine <- t_engine, global <- t_global, device <- t_device, tokens <- t_tokens,
    call <- t_call, torn <- t_torn, again <- t_again, left <- t_left

Access == INSTANCE GuildAccess WITH
    Call <- Operation, MaxCalls <- MaxOperations,
    db <- a_db, presence <- a_presence, whitelistCount <- a_whitelistCount, ready <- a_ready,
    warm <- a_warm, call <- a_call, count <- a_count, events <- a_events, excuse <- a_excuse,
    invited <- a_invited, wronged <- a_wronged

----------------------------------------------------------------------------

c_vars == <<c_now, c_redis, c_local, c_refund, c_allowed, c_refunded, c_told, c_checks, c_late,
            c_blip>>
g_vars == <<g_db, g_presence, g_ready, g_warming, g_call, g_crossed, g_foreign, g_count,
            g_events>>
t_vars == <<t_engine, t_global, t_device, t_tokens, t_call, t_torn, t_again, t_left>>
a_vars == <<a_db, a_presence, a_whitelistCount, a_ready, a_warm, a_call, a_count, a_events,
            a_excuse, a_invited, a_wronged>>

AllVars == <<which, vars, c_vars, g_vars, t_vars, a_vars>>

AccessInit ==
    /\ which \in {"permissions", "cooldown", "gates", "tokens", "guilds"}
    /\ Init /\ Cool!Init /\ Gates!Init /\ Tok!Init /\ Access!Init
    /\ which # "permissions" => member = {} /\ \A r \in Role : db.assigned[r] = {}
    /\ which # "tokens" => t_engine = "sql"
    /\ which # "guilds" => a_db = {}

\* A step of one of them, which leaves the others.
PermissionsStep ==
    /\ which = "permissions" /\ Next
    /\ UNCHANGED <<c_vars, g_vars, t_vars, a_vars>>
CooldownStep ==
    /\ which = "cooldown" /\ Cool!Next
    /\ UNCHANGED <<vars, g_vars, t_vars, a_vars>>
GatesStep ==
    /\ which = "gates" /\ Gates!Next
    /\ UNCHANGED <<vars, c_vars, t_vars, a_vars>>
TokensStep ==
    /\ which = "tokens" /\ Tok!Next
    /\ UNCHANGED <<vars, c_vars, g_vars, a_vars>>
GuildsStep ==
    /\ which = "guilds" /\ Access!Next
    /\ UNCHANGED <<vars, c_vars, g_vars, t_vars>>

AccessNext ==
    /\ UNCHANGED which
    /\ PermissionsStep \/ CooldownStep \/ GatesStep \/ TokensStep \/ GuildsStep

AccessSpec == AccessInit /\ [][AccessNext]_AllVars

----------------------------------------------------------------------------
(* The properties, each stated in full in its module; those of the         *)
(* permissions are HoldersHaveReasons and StaleHasReason.  What rests is   *)
(* not looked at.                                                          *)

\* No more uses in a window than twice the limit and the refunds, and the
\* refused wait as long as told (Bucket.ts; cacheFacade.ts, incrWithTtl).
CooldownIsKept == which = "cooldown" => Cool!CooldownIsKept

\* A process checks against what the database says (guildGate.ts).
GateIsCurrent == which = "gates" => Gates!TypeOK /\ Gates!GateIsCurrent

\* A revoked token stays revoked, and the last one issued is accepted until
\* then (token.ts, verify and upsertDevice).
RevocationIsExact == which = "tokens" => Tok!TypeOK /\ Tok!RevocationIsExact

\* Of every guild the memory decides as the database would, and one that an
\* owner invited the bot to is not left (guildAccess.ts).
GuildsAreDecided == which = "guilds" => Access!GuildsAreDecided
=============================================================================
