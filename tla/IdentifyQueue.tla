---------------------------- MODULE IdentifyQueue -----------------------------
(***************************************************************************)
(* The grants to identify with Discord                                     *)
(* (crosshost/orchestrator/identifyQueue.ts): shards of the same bucket    *)
(* may identify once in an interval.  A caller, an operation of the        *)
(* orchestrator, asks for grants one after another and waits in between;   *)
(* callers wait side by side.                                              *)
(*                                                                         *)
(* Times are kept relative to now: how long until, or how long since.      *)
(***************************************************************************)
EXTENDS Integers, Sequences

CONSTANTS
    Caller,          \* operations that may ask at once
    Shards,          \* number of shards
    MaxConcurrency,  \* buckets
    Interval,        \* 5,500 ms
    Lists            \* the lists of shards that may be asked for, sorted (grantMany)

VARIABLES
    bucketNextIn,  \* bucketNextAt: until when each bucket is taken
    waiting,       \* per caller the shards still to be granted, in order, where it
                   \* is with the first, and how long its timer has to run
    since,         \* how long ago each caller was last granted each bucket
    overlap        \* two callers waited for one bucket

vars == <<bucketNextIn, waiting, since, overlap>>

Shard == 0..(Shards - 1)
Buckets == 0..(MaxConcurrency - 1)
Bucket(s) == s % MaxConcurrency

\* A caller with these shards left, whose first it has not come to yet.
Left(shards) ==
    [shards |-> shards, pc |-> IF shards = <<>> THEN "idle" ELSE "next", wait |-> 0]

First(c) == Bucket(Head(waiting[c].shards))

----------------------------------------------------------------------------

\* Mutant: the time of the grant before, not of this one.
TakenFromLast(b) == [bucketNextIn EXCEPT ![b] = @ + Interval]

\* The bucket is taken from the moment of the grant on.
Taken(b) == [bucketNextIn EXCEPT ![b] = Interval]

\* grantMany.
Ask(c, shards) ==
    /\ waiting[c].pc = "idle"
    /\ waiting' = [waiting EXCEPT ![c] = Left(shards)]
    /\ UNCHANGED <<bucketNextIn, since, overlap>>

\* The bucket is taken: how long to wait is found out once.
Wait(c) ==
    /\ waiting[c].pc = "next" /\ bucketNextIn[First(c)] > 0
    /\ waiting' = [waiting EXCEPT ![c].pc = "wait", ![c].wait = bucketNextIn[First(c)]]
    /\ UNCHANGED <<bucketNextIn, since, overlap>>

\* The bucket is free, or the wait is over.
Turn(c) ==
    \/ waiting[c].pc = "next" /\ bucketNextIn[First(c)] <= 0
    \/ waiting[c].pc = "wait" /\ waiting[c].wait = 0

\* Noted for the properties: another caller waits for the same bucket.
Meets(c) ==
    overlap' = (overlap \/ \E d \in Caller \ {c} : waiting[d].pc = "wait" /\ First(d) = First(c))

\* The bucket is taken, the grant stored and published, for as long as that
\* takes; then the next shard of the list is come to.
Grant(c) ==
    /\ Turn(c)
    /\ bucketNextIn' = Taken(First(c))
    /\ since' = [since EXCEPT ![First(c)][c] = 0]
    /\ waiting' = [waiting EXCEPT ![c] = Left(Tail(waiting[c].shards))]
    /\ Meets(c)

\* Redis rejects: the bucket stays taken, the caller gives up.  The grant may
\* have been stored, where the worker finds it.
GrantFails(c) ==
    /\ Turn(c)
    /\ bucketNextIn' = Taken(First(c))
    /\ since' \in {since, [since EXCEPT ![First(c)][c] = 0]}
    /\ waiting' = [waiting EXCEPT ![c] = Left(<<>>)]
    /\ Meets(c)

\* A timer may fire late: time passes all the same.  What lies an interval
\* back makes no difference any more.
Tick ==
    /\ bucketNextIn' = [b \in Buckets |-> IF bucketNextIn[b] > -Interval THEN bucketNextIn[b] - 1
                                          ELSE -Interval]
    /\ waiting' = [c \in Caller |-> [waiting[c] EXCEPT !.wait = IF @ > 0 THEN @ - 1 ELSE 0]]
    /\ since' = [b \in Buckets |-> [c \in Caller |-> IF since[b][c] < Interval THEN since[b][c] + 1
                                                     ELSE Interval]]
    /\ UNCHANGED overlap

Init ==
    /\ bucketNextIn = [b \in Buckets |-> -Interval]
    /\ waiting = [c \in Caller |-> Left(<<>>)]
    /\ since = [b \in Buckets |-> [c \in Caller |-> Interval]]
    /\ overlap = FALSE

Next ==
    \/ Tick
    \/ \E c \in Caller : \/ Wait(c) \/ Grant(c) \/ GrantFails(c)
                       \/ \E shards \in Lists : Ask(c, shards)

Spec == Init /\ [][Next]_vars

----------------------------------------------------------------------------
(* Properties. *)

TypeOK ==
    /\ bucketNextIn \in [Buckets -> -Interval..Interval]
    /\ waiting \in [Caller -> [shards : Seq(Shard), pc : {"idle", "next", "wait"},
                            wait : 0..Interval]]
    /\ \A c \in Caller : waiting[c].pc = "idle" <=> waiting[c].shards = <<>>
    /\ since \in [Buckets -> [Caller -> 0..Interval]] /\ overlap \in BOOLEAN

\* Each caller keeps the interval between its grants of a bucket, so that a
\* bucket is never granted more often in an interval than there are callers;
\* and as long as no two of them wait for a bucket at once, all its grants are
\* an interval apart, whatever timers fire late and whichever grants fail: two
\* would both read when it is free before either takes it (grantMany, grant).
GrantsAreSpaced ==
    [][\A b \in Buckets, c \in Caller :
          <<Grant(c) \/ GrantFails(c)>>_vars /\ b = First(c) =>
              /\ since[b][c] = Interval
              /\ ~overlap' => \A d \in Caller : since[b][d] = Interval]_vars
==============================================================================
