------------------------- MODULE OrchestratorClaim -------------------------
(***************************************************************************)
(* The claim that keeps a second orchestrator away (auth/claim.ts): a      *)
(* Redis key set with NX and a time to live, renewed on a timer by a GET   *)
(* and a SET, released by a GET and a DEL.                                 *)
(*                                                                         *)
(* Time passes in ticks.  A tick that passes while a renewal is due or a   *)
(* command is on its way is a late one: the process was stalled, Redis was *)
(* slow.  late counts them, and a renewal lost to an error counts as an    *)
(* interval.  A process that finds the key taken exits; that changes       *)
(* nothing here.  A process that is down is started again some time.       *)
(***************************************************************************)
EXTENDS Integers, FiniteSets

CONSTANTS
    Process,    \* orchestrator processes
    Token,      \* claim tokens; every claim makes a fresh one
    None,       \* no token
    Ttl,        \* CLAIM_TTL_SEC in ticks
    Interval,   \* RENEW_INTERVAL_MS in ticks
    MaxLate     \* bound on lateness

ASSUME ClaimAssumption ==
    /\ None \notin Token
    /\ Ttl \in Nat /\ Interval \in Nat /\ Interval < Ttl
    /\ MaxLate \in Nat

VARIABLES
    key,    \* the token in Redis
    ttl,    \* ticks until the key expires
    token,  \* token[p]: the token p claimed, None when p does not run
    due,    \* due[p]: ticks until p's renewal timer fires
    sets,   \* sets[t]: renewals past their GET whose SET is on its way
    dels,   \* tokens whose release is past its GET, DEL on its way
    late    \* ticks lost to lateness so far

vars == <<key, ttl, token, due, sets, dels, late>>

TypeOK ==
    /\ key \in Token \cup {None}
    /\ ttl \in 0 .. Ttl
    /\ token \in [Process -> Token \cup {None}]
    /\ due \in [Process -> 0 .. Interval]
    /\ sets \in [Token -> Nat]
    /\ dels \in SUBSET Token
    /\ late \in Nat

Active == {p \in Process : token[p] # None}

InUse(t) == t = key \/ t \in dels \/ sets[t] > 0 \/ \E p \in Process : token[p] = t

(* Something waits for a process or for Redis.                             *)
Pending ==
    \/ \E p \in Active : due[p] = 0
    \/ \E t \in Token : sets[t] > 0
    \/ dels # {}

-------------------------------------------------------------------------------
Init ==
    /\ key = None
    /\ ttl = 0
    /\ token = [p \in Process |-> None]
    /\ due = [p \in Process |-> Interval]
    /\ sets = [t \in Token |-> 0]
    /\ dels = {}
    /\ late = 0

(* Mutant: SET without NX.                                                 *)
ClaimAnyway(p) ==
    /\ p \notin Active
    /\ \E t \in Token :
           /\ ~InUse(t)
           /\ key' = t
           /\ token' = [token EXCEPT ![p] = t]
    /\ ttl' = Ttl
    /\ due' = [due EXCEPT ![p] = Interval]
    /\ UNCHANGED <<sets, dels, late>>

(* acquireOrchestratorClaim: SET NX, and the renewal timer is started.     *)
Claim(p) ==
    /\ p \notin Active
    /\ key = None
    /\ \E t \in Token :
           /\ ~InUse(t)
           /\ key' = t
           /\ token' = [token EXCEPT ![p] = t]
    /\ ttl' = Ttl
    /\ due' = [due EXCEPT ![p] = Interval]
    /\ UNCHANGED <<sets, dels, late>>

(* Mutant: whoever holds the key now is overwritten.                       *)
RenewBlindly(p) ==
    /\ p \in Active
    /\ due[p] = 0
    /\ due' = [due EXCEPT ![p] = Interval]
    /\ sets' = [sets EXCEPT ![token[p]] = @ + 1]
    /\ UNCHANGED <<key, ttl, token, dels, late>>

(* The GET of a renewal: the SET is sent, or the process exits.            *)
Renew(p) ==
    /\ p \in Active
    /\ due[p] = 0
    /\ due' = [due EXCEPT ![p] = Interval]
    /\ \/ /\ key = token[p]
          /\ sets' = [sets EXCEPT ![token[p]] = @ + 1]
          /\ UNCHANGED token
       \/ /\ key # token[p]
          /\ token' = [token EXCEPT ![p] = None]
          /\ UNCHANGED sets
    /\ UNCHANGED <<key, ttl, dels, late>>

(* An error is logged; the next renewal is an interval away.               *)
RenewFails(p) ==
    /\ p \in Active
    /\ due[p] = 0
    /\ late + Interval <= MaxLate
    /\ late' = late + Interval
    /\ due' = [due EXCEPT ![p] = Interval]
    /\ UNCHANGED <<key, ttl, token, sets, dels>>

(* Mutant: the SET drops the time to live.                                 *)
SetForever(t) ==
    /\ sets[t] > 0
    /\ sets' = [sets EXCEPT ![t] = @ - 1]
    /\ key' = t
    /\ ttl' = 0
    /\ UNCHANGED <<token, due, dels, late>>

(* The SET of a renewal, whether its process still runs or not.            *)
SetArrives(t) ==
    /\ sets[t] > 0
    /\ sets' = [sets EXCEPT ![t] = @ - 1]
    /\ key' = t
    /\ ttl' = Ttl
    /\ UNCHANGED <<token, due, dels, late>>

(* stop, in the orchestrator's shutdown: its GET.                          *)
Stop(p) ==
    /\ p \in Active
    /\ dels' = IF key = token[p] THEN dels \cup {token[p]} ELSE dels
    /\ token' = [token EXCEPT ![p] = None]
    /\ UNCHANGED <<key, ttl, due, sets, late>>

(* Its DEL, behind the SETs sent before it on the same connection.         *)
DelArrives(t) ==
    /\ t \in dels
    /\ sets[t] = 0
    /\ dels' = dels \ {t}
    /\ key' = None
    /\ ttl' = 0
    /\ UNCHANGED <<token, due, sets, late>>

(* The process dies; what it had sent still arrives.                       *)
Crash(p) ==
    /\ p \in Active
    /\ token' = [token EXCEPT ![p] = None]
    /\ sets' \in {sets, [sets EXCEPT ![token[p]] = 0]}
    /\ UNCHANGED <<key, ttl, due, dels, late>>

Tick ==
    /\ Pending => late < MaxLate
    /\ late' = IF Pending THEN late + 1 ELSE late
    /\ due' = [p \in Process |-> IF due[p] > 0 THEN due[p] - 1 ELSE 0]
    /\ ttl' = IF ttl > 0 THEN ttl - 1 ELSE 0
    /\ key' = IF ttl = 1 THEN None ELSE key
    /\ UNCHANGED <<token, sets, dels>>

Next ==
    \/ \E p \in Process : Claim(p) \/ Renew(p) \/ RenewFails(p) \/ Stop(p) \/ Crash(p)
    \/ \E t \in Token : SetArrives(t) \/ DelArrives(t)
    \/ Tick

Spec == Init /\ [][Next]_vars

-------------------------------------------------------------------------------
(* Properties                                                              *)

(* "Only one orchestrator should hold the Redis claim" (CROSS_HOST.md):    *)
(* two processes never both act as the orchestrator as long as renewals    *)
(* and commands have lost less time than the key outlives an interval.     *)
OneOrchestrator ==
    late < Ttl - Interval => \A p, q \in Active : p = q

(* The timers fire, commands arrive, time passes; an orchestrator that is  *)
(* down is started again by whatever supervises it.                        *)
Fairness ==
    /\ WF_vars(Tick)
    /\ \A p \in Process : WF_vars(Claim(p)) /\ WF_vars(Renew(p))
    /\ \A t \in Token : WF_vars(SetArrives(t)) /\ WF_vars(DelArrives(t))

FairSpec == Spec /\ Fairness

(* When lateness did let a second one in, that ends: the renewals of the   *)
(* two cannot keep overwriting each other for ever.                        *)
SplitBrainEnds == []<>(\A p, q \in Active : p = q)

(* However the last orchestrator went, with or without its release, with   *)
(* or without a renewal on its way, the claim becomes free and another     *)
(* takes it.                                                               *)
ClaimIsRecovered == []<>(Active # {})
=============================================================================
