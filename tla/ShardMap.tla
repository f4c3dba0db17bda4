------------------------------- MODULE ShardMap -------------------------------
(***************************************************************************)
(* The orchestrator's shard map (orchestrator/shardMap.ts) and the Redis   *)
(* channel its assignment updates travel on.                               *)
(*                                                                         *)
(* The map edits itself synchronously and then publishes one update,       *)
(* addressed to the machine the edit was about; every other machine        *)
(* ignores it.  So the channel is kept here as one queue per machine.      *)
(* Redis pub/sub gives at-most-once delivery in publication order, to the  *)
(* connections subscribed at the time: an update for a machine that is not *)
(* listening is gone, and a listening one may lose updates while its       *)
(* connection is down.                                                     *)
(***************************************************************************)
EXTENDS Integers, Sequences

CONSTANTS
    Machine,    \* machine ids of the workers
    Shard,      \* shard ids, 0 .. totalShards - 1; fixed when the map is built
    Nobody      \* "no machine": a key absent from the owner map

ASSUME NobodyAssumption == Nobody \notin Machine

VARIABLES
    owner,      \* owner[s]: the machine shard s is credited to
    generation, \* the map's generation, one more for every published edit
    inbox,      \* inbox[m]: updates for m published and not yet handled by m
    listening,  \* machines whose worker process is subscribed to the channel
    missed      \* history: missed[m] is the generation of the last update for m
                \* that was lost since its last process ended

mapVars == <<owner, generation, inbox, listening, missed>>

(* What an assignment update tells its addressee (reason and totalShards   *)
(* are constant for the receiver's decisions and left out).                *)
Assignment == [generation : Nat, shards : SUBSET Shard]

MapTypeOK ==
    /\ owner \in [Shard -> Machine \cup {Nobody}]
    /\ generation \in Nat
    /\ inbox \in [Machine -> Seq(Assignment)]
    /\ listening \in SUBSET Machine
    /\ missed \in [Machine -> Nat]

ShardsFor(m) == {s \in Shard : owner[s] = m}

Unowned == {s \in Shard : owner[s] = Nobody}

-------------------------------------------------------------------------------
(* pub.publish: queued for a listening addressee, lost on any other.       *)
Publish(m, msg) ==
    /\ inbox' = IF m \in listening
                THEN [inbox EXCEPT ![m] = Append(@, msg)]
                ELSE inbox
    /\ missed' = IF m \in listening
                 THEN missed
                 ELSE [missed EXCEPT ![m] = msg.generation]

(* Mutant: the update carries the generation from before the edit.         *)
AssignOldGeneration(m, S) ==
    /\ owner' = [s \in Shard |-> IF s \in S THEN m
                                 ELSE IF owner[s] = m THEN Nobody
                                 ELSE owner[s]]
    /\ generation' = generation + 1
    /\ Publish(m, [generation |-> generation, shards |-> S])
    /\ UNCHANGED listening

(* The synchronous part of ShardMap.assign: m keeps exactly S.  A shard of *)
(* S that had another owner is taken from it, and only m is told.          *)
Assign(m, S) ==
    /\ owner' = [s \in Shard |-> IF s \in S THEN m
                                 ELSE IF owner[s] = m THEN Nobody
                                 ELSE owner[s]]
    /\ generation' = generation + 1
    /\ Publish(m, [generation |-> generation + 1, shards |-> S])
    /\ UNCHANGED listening

(* ShardMap.clearMachine: nothing to do for a machine without shards.      *)
ClearMachine(m) ==
    \/ /\ ShardsFor(m) = {}
       /\ UNCHANGED mapVars
    \/ /\ ShardsFor(m) # {}
       /\ Assign(m, {})

MapInit ==
    /\ owner = [s \in Shard |-> Nobody]
    /\ generation = 1
    /\ inbox = [m \in Machine |-> << >>]
    /\ listening = {}
    /\ missed = [m \in Machine |-> 0]
===============================================================================
