---------------------- MODULE OrchestratorClaim_proof ----------------------
(***************************************************************************)
(* Proofs about OrchestratorClaim, for any processes, tokens, time to live *)
(* and renewal interval shorter than it, and any bound on lateness.        *)
(***************************************************************************)
EXTENDS OrchestratorClaim, TLAPS

(* The state has the shapes TypeOK says, whatever the claims do.           *)
THEOREM TypeCorrect == Spec => []TypeOK
<1> USE ClaimAssumption
<1>1. Init => TypeOK
  BY DEF Init, TypeOK
<1>2. TypeOK /\ [Next]_vars => TypeOK'
  <2> SUFFICES ASSUME TypeOK, [Next]_vars PROVE TypeOK'
    OBVIOUS
  <2> USE DEF TypeOK
  <2>1. ASSUME NEW p \in Process, Claim(p) PROVE TypeOK'
    BY <2>1 DEF Claim
  <2>2. ASSUME NEW p \in Process, Renew(p) PROVE TypeOK'
    BY <2>2 DEF Renew, Active
  <2>3. ASSUME NEW p \in Process, RenewFails(p) PROVE TypeOK'
    BY <2>3 DEF RenewFails
  <2>4. ASSUME NEW p \in Process, Stop(p) PROVE TypeOK'
    BY <2>4 DEF Stop, Active
  <2>5. ASSUME NEW p \in Process, Crash(p) PROVE TypeOK'
    BY <2>5 DEF Crash, Active
  <2>6. ASSUME NEW t \in Token, SetArrives(t) PROVE TypeOK'
    BY <2>6 DEF SetArrives
  <2>7. ASSUME NEW t \in Token, DelArrives(t) PROVE TypeOK'
    BY <2>7 DEF DelArrives
  <2>8. ASSUME Tick PROVE TypeOK'
    BY <2>8 DEF Tick
  <2>9. ASSUME UNCHANGED vars PROVE TypeOK'
    BY <2>9 DEF vars
  <2> QED
    BY <2>1, <2>2, <2>3, <2>4, <2>5, <2>6, <2>7, <2>8, <2>9 DEF Next
<1> QED
  BY <1>1, <1>2, PTL DEF Spec

-------------------------------------------------------------------------------
(* What is left of the time the key outlives an interval.                  *)
Slack == Ttl - Interval - late

(* An orchestrator holds the key, for long enough to renew it in time      *)
(* unless the renewal is already on its way.                               *)
HoldersHaveTheKey ==
    \A p \in Active : /\ key = token[p]
                      /\ sets[token[p]] > 0 \/ due[p] + Slack <= ttl

(* Commands on their way meet the key of the process that sent them.       *)
CommandsMeetTheKey ==
    \A t \in Token : sets[t] > 0 \/ t \in dels => key = t /\ Slack <= ttl

(* No two orchestrators with one token, none with a token being released.  *)
TokensAreDistinct ==
    /\ \A p, q \in Active : token[p] = token[q] => p = q
    /\ \A p \in Active : token[p] \notin dels

ClaimInv == Slack > 0 => /\ HoldersHaveTheKey
                         /\ CommandsMeetTheKey
                         /\ TokensAreDistinct

(* Lateness only grows, so the invariant may be assumed before any step    *)
(* after which there is slack left.                                        *)
LEMMA SlackShrinks ==
    ASSUME TypeOK, [Next]_vars
    PROVE  late' \in Nat /\ late <= late' /\ Slack' <= Slack
<1> USE ClaimAssumption DEF TypeOK
<1>1. late' = late \/ late' = late + Interval \/ late' = late + 1
  BY DEF Next, vars, Claim, Renew, RenewFails, SetArrives, Stop, DelArrives, Crash, Tick
<1> QED
  BY <1>1 DEF Slack

(* Every step of the claim protocol keeps the invariant.                   *)
LEMMA ClaimInductive == TypeOK /\ ClaimInv /\ [Next]_vars => ClaimInv'
<1> USE ClaimAssumption
<1> SUFFICES ASSUME TypeOK, ClaimInv, [Next]_vars, Slack' > 0 PROVE ClaimInv'
  BY DEF ClaimInv
<1>0. /\ Slack > 0 /\ Slack' <= Slack
      /\ HoldersHaveTheKey /\ CommandsMeetTheKey /\ TokensAreDistinct
  BY SlackShrinks DEF ClaimInv, Slack, TypeOK
<1> USE DEF TypeOK
<1>1. ASSUME NEW p \in Process, Claim(p) PROVE ClaimInv'
  <2>1. Active = {} /\ dels = {} /\ \A t \in Token : sets[t] = 0
    BY <1>0, <1>1 DEF Claim, HoldersHaveTheKey, CommandsMeetTheKey, Active
  <2>2. Active' = {p}
    BY <1>1, <2>1 DEF Claim, Active
  <2> QED
    BY <1>1, <2>1, <2>2 DEF Claim, ClaimInv, HoldersHaveTheKey, CommandsMeetTheKey,
                            TokensAreDistinct, Slack
<1>2. ASSUME NEW p \in Process, Renew(p) PROVE ClaimInv'
  <2>1. key = token[p]
    BY <1>0, <1>2 DEF Renew, HoldersHaveTheKey
  <2>2. /\ token' = token /\ key' = key /\ ttl' = ttl /\ dels' = dels /\ late' = late
        /\ sets' = [sets EXCEPT ![token[p]] = @ + 1]
        /\ due' = [due EXCEPT ![p] = Interval]
        /\ Active' = Active /\ p \in Active /\ due[p] = 0 /\ token[p] \in Token
    BY <1>2, <2>1 DEF Renew, Active
  <2>3. Slack <= ttl
    BY <1>0, <2>2 DEF HoldersHaveTheKey, CommandsMeetTheKey, Slack
  <2>4. HoldersHaveTheKey'
    BY <1>0, <2>1, <2>2 DEF HoldersHaveTheKey, TokensAreDistinct, Slack, Active
  <2>5. CommandsMeetTheKey'
    BY <1>0, <2>1, <2>2, <2>3 DEF CommandsMeetTheKey, Slack
  <2> QED
    BY <1>0, <2>2, <2>4, <2>5 DEF ClaimInv, TokensAreDistinct
<1>3. ASSUME NEW p \in Process, RenewFails(p) PROVE ClaimInv'
  <2>1. /\ token' = token /\ key' = key /\ ttl' = ttl /\ dels' = dels /\ sets' = sets
        /\ due' = [due EXCEPT ![p] = Interval] /\ due[p] = 0
        /\ late' = late + Interval /\ Active' = Active
    BY <1>3 DEF RenewFails, Active
  <2>2. HoldersHaveTheKey'
    BY <1>0, <2>1 DEF HoldersHaveTheKey, Slack, Active
  <2>3. CommandsMeetTheKey'
    BY <1>0, <2>1 DEF CommandsMeetTheKey, Slack
  <2> QED
    BY <1>0, <2>1, <2>2, <2>3 DEF ClaimInv, TokensAreDistinct
<1>4. ASSUME NEW p \in Process, Stop(p) PROVE ClaimInv'
  <2>1. p \in Active /\ key = token[p] /\ Active = {p} /\ token[p] \in Token
    BY <1>0, <1>4 DEF Stop, HoldersHaveTheKey, TokensAreDistinct, Active
  <2>2. Active' = {} /\ dels' = dels \cup {token[p]}
    BY <1>4, <2>1 DEF Stop, Active
  <2>3. Slack <= ttl
    BY <1>0, <2>1 DEF HoldersHaveTheKey, CommandsMeetTheKey, Slack, Active
  <2> QED
    BY <1>0, <1>4, <2>1, <2>2, <2>3
    DEF Stop, ClaimInv, HoldersHaveTheKey, CommandsMeetTheKey, TokensAreDistinct, Slack
<1>5. ASSUME NEW p \in Process, Crash(p) PROVE ClaimInv'
  <2>1. p \in Active /\ Active = {p} /\ token[p] \in Token
    BY <1>0, <1>5 DEF Crash, HoldersHaveTheKey, TokensAreDistinct, Active
  <2>2. Active' = {}
    BY <1>5, <2>1 DEF Crash, Active
  <2>3. \A t \in Token : sets'[t] > 0 => sets[t] > 0
    BY <1>5 DEF Crash
  <2> QED
    BY <1>0, <1>5, <2>2, <2>3
    DEF Crash, ClaimInv, HoldersHaveTheKey, CommandsMeetTheKey, TokensAreDistinct, Slack
<1>6. ASSUME NEW t \in Token, SetArrives(t) PROVE ClaimInv'
  <2>1. /\ key = t /\ key' = key /\ ttl' = Ttl /\ token' = token /\ due' = due
        /\ dels' = dels /\ late' = late /\ Active' = Active
        /\ \A u \in Token : sets'[u] > 0 => sets[u] > 0
    BY <1>0, <1>6 DEF SetArrives, CommandsMeetTheKey, Active
  <2>2. HoldersHaveTheKey'
    BY <1>0, <2>1 DEF HoldersHaveTheKey, Slack, Active
  <2>3. CommandsMeetTheKey'
    BY <1>0, <2>1 DEF CommandsMeetTheKey, Slack
  <2> QED
    BY <1>0, <2>1, <2>2, <2>3 DEF ClaimInv, TokensAreDistinct
<1>7. ASSUME NEW t \in Token, DelArrives(t) PROVE ClaimInv'
  <2>1. key = t /\ Active = {} /\ dels = {t} /\ \A u \in Token : sets[u] = 0
    BY <1>0, <1>7
    DEF DelArrives, HoldersHaveTheKey, CommandsMeetTheKey, TokensAreDistinct, Active
  <2> QED
    BY <1>7, <2>1 DEF DelArrives, ClaimInv, HoldersHaveTheKey, CommandsMeetTheKey,
                      TokensAreDistinct, Active
<1>8. ASSUME Tick PROVE ClaimInv'
  <2>1. /\ token' = token /\ sets' = sets /\ dels' = dels /\ Active' = Active
        /\ due' = [q \in Process |-> IF due[q] > 0 THEN due[q] - 1 ELSE 0]
        /\ ttl' = IF ttl > 0 THEN ttl - 1 ELSE 0
        /\ key' = IF ttl = 1 THEN None ELSE key
    BY <1>8 DEF Tick, Active
  <2>2. CASE Pending
    <3>1. Slack' = Slack - 1 /\ Slack >= 2
      BY <1>0, <1>8, <2>2 DEF Tick, Slack
    <3>2. HoldersHaveTheKey'
      BY <1>0, <2>1, <3>1 DEF HoldersHaveTheKey, CommandsMeetTheKey, Slack, Active
    <3>3. CommandsMeetTheKey'
      BY <1>0, <2>1, <3>1 DEF CommandsMeetTheKey, Slack
    <3> QED
      BY <1>0, <2>1, <3>2, <3>3 DEF ClaimInv, TokensAreDistinct
  <2>3. CASE ~Pending
    <3>0. late' = late
      BY <1>8, <2>3 DEF Tick
    <3>1. /\ Slack' = Slack /\ dels = {}
          /\ \A p \in Active : due[p] > 0
          /\ \A t \in Token : sets[t] = 0
      BY <2>3, <3>0 DEF Pending, Slack, Active
    <3>2. HoldersHaveTheKey'
      BY <1>0, <2>1, <3>1 DEF HoldersHaveTheKey, Slack, Active
    <3>3. CommandsMeetTheKey'
      BY <2>1, <3>1 DEF CommandsMeetTheKey
    <3> QED
      BY <1>0, <2>1, <3>2, <3>3 DEF ClaimInv, TokensAreDistinct
  <2> QED
    BY <2>2, <2>3
<1>9. ASSUME UNCHANGED vars PROVE ClaimInv'
  BY <1>0, <1>9 DEF vars, ClaimInv, HoldersHaveTheKey, CommandsMeetTheKey,
                    TokensAreDistinct, Active, Slack
<1> QED
  BY <1>1, <1>2, <1>3, <1>4, <1>5, <1>6, <1>7, <1>8, <1>9 DEF Next

(* Two orchestrators never both act as long as renewals and commands have  *)
(* lost less time than the key outlives an interval (20 s as configured).  *)
THEOREM ClaimIsExclusive == Spec => []OneOrchestrator
<1>1. Init => ClaimInv
  BY ClaimAssumption DEF Init, ClaimInv, HoldersHaveTheKey, CommandsMeetTheKey,
                         TokensAreDistinct, Active
<1>2. TypeOK /\ ClaimInv => OneOrchestrator
  BY ClaimAssumption DEF TypeOK, ClaimInv, HoldersHaveTheKey, TokensAreDistinct,
                         OneOrchestrator, Slack, Active
<1> QED
  BY <1>1, <1>2, TypeCorrect, ClaimInductive, PTL DEF Spec
=============================================================================
