------------------------------- MODULE Cooldown -------------------------------
(***************************************************************************)
(* The rate limit of a bucket (manager/cooldown/Bucket.ts): a counter that *)
(* lives in Redis for a window (manager/cacheFacade.ts, incrWithTtl and    *)
(* decr) and, where Redis fails, in the process.  The pipeline of          *)
(* incrWithTtl is one step; a refund reads before it decrements.           *)
(* One key, several processes.                                             *)
(***************************************************************************)
EXTENDS Integers, Sequences, FiniteSets

CONSTANTS
    Process,     \* processes that share Redis
    Limit,       \* of the bucket
    Window,      \* of the bucket, in the unit of the clock
    MaxTime,     \* bound: the clock
    MaxChecks,   \* bound: uses
    MaxRefunds,  \* bound: refunds
    MaxEvents    \* bound: how often Redis fails

VARIABLES
    now,
    redis,     \* the counter in Redis and when it expires, 0 for never
    local,     \* per process its copy
    refund,    \* per process a refund between its read and its decrement
    allowed,   \* when uses were allowed
    refunded,  \* how many uses were given back
    told,      \* until when the refused were told to wait
    checks,    \* how many uses were tried
    late,      \* a decrement met another counter than its read
    blip       \* how often Redis failed

vars == <<now, redis, local, refund, allowed, refunded, told, checks, late, blip>>

NoCounter == [count |-> 0, until |-> 0, on |-> FALSE, number |-> 0]

Lives(c) == c.on /\ (c.until = 0 \/ c.until > now)

----------------------------------------------------------------------------

\* pexpire NX: the window begins with the first use.
Until(c) == IF Lives(c) /\ c.until # 0 THEN c.until ELSE now + Window

\* Mutant: the limit is one more.
LimitedLate(n) == n > Limit + 1

Limited(n) == n > Limit

Incremented(c) ==
    [count |-> (IF Lives(c) THEN c.count ELSE 0) + 1, until |-> Until(c), on |-> TRUE,
     number |-> IF Lives(c) THEN c.number ELSE c.number + 1]

Outcome(n, until) ==
    /\ checks < MaxChecks /\ checks' = checks + 1
    /\ IF Limited(n) THEN told' = told \cup {until} /\ UNCHANGED allowed
       ELSE allowed' = Append(allowed, now) /\ UNCHANGED told

\* incrWithTtl, with Redis: the copy takes the count over.
Check(p) ==
    LET c == Incremented(redis)
    IN /\ redis' = c
       /\ local' = [local EXCEPT ![p] = c]
       /\ Outcome(c.count, c.until)
       /\ UNCHANGED <<now, refund, refunded, late, blip>>

\* Redis fails: incrWithTtlLocal.
CheckLocally(p) ==
    LET c == Incremented(local[p])
    IN /\ blip < MaxEvents /\ blip' = blip + 1
       /\ local' = [local EXCEPT ![p] = c]
       /\ Outcome(c.count, c.until)
       /\ UNCHANGED <<now, redis, refund, refunded, late>>

\* decr: the read.
Refund(p) ==
    /\ ~refund[p].on /\ refunded + Cardinality({q \in Process : refund[q].on}) < MaxRefunds
    /\ Lives(redis) /\ redis.count > 0
    /\ refund' = [refund EXCEPT ![p] = [on |-> TRUE, number |-> redis.number]]
    /\ UNCHANGED <<now, redis, local, allowed, refunded, told, checks, late, blip>>

\* And the decrement, of whatever there is now: a counter that has expired is
\* made anew, below zero and without an expiry.
Decrement(p) ==
    /\ refund[p].on
    /\ refund' = [refund EXCEPT ![p].on = FALSE]
    /\ redis' = IF Lives(redis) THEN [redis EXCEPT !.count = @ - 1]
                ELSE [count |-> -1, until |-> 0, on |-> TRUE, number |-> redis.number + 1]
    /\ local' = [local EXCEPT ![p].count = IF Lives(local[p]) /\ @ > 0 THEN @ - 1 ELSE @]
    /\ refunded' = refunded + 1
    /\ late' = (late \/ ~Lives(redis) \/ redis.number # refund[p].number)
    /\ UNCHANGED <<now, allowed, told, checks, blip>>

\* Redis fails: the copy alone is decremented.
RefundLocally(p) ==
    /\ refunded + Cardinality({q \in Process : refund[q].on}) < MaxRefunds
    /\ blip < MaxEvents /\ blip' = blip + 1
    /\ Lives(local[p]) /\ local[p].count > 0
    /\ local' = [local EXCEPT ![p].count = @ - 1]
    /\ refunded' = refunded + 1
    /\ UNCHANGED <<now, redis, refund, allowed, told, checks, late>>

Tick ==
    /\ now < MaxTime /\ now' = now + 1
    /\ UNCHANGED <<redis, local, refund, allowed, refunded, told, checks, late, blip>>

Init ==
    /\ now = 1 /\ redis = NoCounter /\ local = [p \in Process |-> NoCounter]
    /\ refund = [p \in Process |-> [on |-> FALSE, number |-> 0]]
    /\ allowed = <<>> /\ refunded = 0 /\ told = {} /\ checks = 0 /\ late = FALSE /\ blip = 0

Next ==
    \/ Tick
    \/ \E p \in Process : Check(p) \/ CheckLocally(p) \/ Refund(p) \/ Decrement(p)
                           \/ RefundLocally(p)

Spec == Init /\ [][Next]_vars

----------------------------------------------------------------------------
(* Properties. *)

TypeOK ==
    /\ now \in 1..MaxTime /\ blip \in 0..MaxEvents
    /\ redis.count \in Int /\ redis.until \in 0..(MaxTime + Window)
    /\ \A p \in Process : local[p].count \in Int

Within(times, from) ==
    Cardinality({n \in DOMAIN times : times[n] >= from /\ times[n] < from + Window})

\* In no stretch of a window's length are more uses allowed than twice the
\* limit and what was given back so far, as long as Redis answers and no
\* refund outlives the counter it read: windows begin with a use, wherever
\* the stretch lies (incrWithTtl, decr).
BurstIsBounded ==
    blip = 0 /\ ~late =>
        \A t \in {allowed[n] : n \in DOMAIN allowed} :
            Within(allowed, t) <= 2 * Limit + refunded

\* Who was refused and waits as long as told finds a new window, although
\* others go on trying meanwhile, unless Redis failed: only the first use
\* sets the expiry (incrWithTtl).
WaitIsKept ==
    blip = 0 /\ Lives(redis) => \A t \in told : t > now => redis.until <= t

\* Neither more uses than the bucket stands for, nor a longer wait than told.
CooldownIsKept == TypeOK /\ BurstIsBounded /\ WaitIsKept
==============================================================================
