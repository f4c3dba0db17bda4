------------------------------- MODULE QueryRpc -------------------------------
(***************************************************************************)
(* Queries of the orchestrator to the workers about one audit or error     *)
(* record: the requests over Redis (crosshost/query/rpc.ts), asking one    *)
(* worker or all of them (scatterGather.ts), and the ways a query takes    *)
(* (auditQuery.ts and errorQuery.ts, which are the same).                  *)
(*                                                                         *)
(* The record has an identifier of its own and lives on the machine that   *)
(* wrote it; the index says where, if its entry was written.               *)
(***************************************************************************)
EXTENDS Naturals, Sequences, SequencesExt, FiniteSetsExt

CONSTANTS
    Machine,      \* workers
    Home,         \* the one that may write the record
    Listed,       \* the sets of machines that may be registered
    Concurrency,  \* requests a query has under way at once
    MaxRequests   \* bound: requests

VARIABLES
    holder,   \* the machine that has the record
    born,     \* the record was written
    indexed,  \* the machine the index names
    reqs,     \* the requests: to whom, and where the worker is with each
    wire,     \* answers on their way
    pending,  \* requests the client waits for
    query     \* the query under way

vars == <<holder, born, indexed, reqs, wire, pending, query>>
world == <<holder, born, indexed>>

Nobody == "nobody"
Somebody == Machine \cup {Nobody}

Failed == [ok |-> FALSE, has |-> FALSE]

NoQuery == [kind |-> "none", pc |-> "idle", asked |-> {}, todo |-> {}, open |-> {},
            found |-> FALSE, partial |-> FALSE, fresh |-> FALSE]

----------------------------------------------------------------------------
(* The record. *)

Running == query.pc \notin {"idle", "done"}

\* A worker writes the record; the entry of the index may fail.
WriteRecord ==
    /\ ~born /\ born' = TRUE /\ holder' = Home
    /\ indexed' \in {Home, Nobody}
    /\ query' = [query EXCEPT !.fresh = Running]
    /\ UNCHANGED <<reqs, wire, pending>>

\* Retention removes the record, not always with its entry.
Expire ==
    /\ holder # Nobody /\ holder' = Nobody
    /\ indexed' \in {indexed, Nobody}
    /\ query' = [query EXCEPT !.fresh = Running]
    /\ UNCHANGED <<born, reqs, wire, pending>>

----------------------------------------------------------------------------
(* The worker: startQueryRpcServer.  A worker that is down does nothing. *)

\* The request arrives, the handler reads.
Read(i) ==
    /\ reqs[i].pc = "sent"
    /\ reqs' = [reqs EXCEPT ![i].pc = "read", ![i].has = holder = reqs[i].to]
    /\ UNCHANGED <<world, wire, pending, query>>

\* The answer is published; where that, or the handler, fails the error is.
Reply(i) ==
    /\ reqs[i].pc = "read"
    /\ reqs' = [reqs EXCEPT ![i].pc = "over", ![i].has = FALSE]
    /\ \E r \in {[ok |-> TRUE, has |-> reqs[i].has], Failed} :
          wire' = wire \cup {[id |-> i, ok |-> r.ok, has |-> r.has]}
    /\ UNCHANGED <<world, pending, query>>

----------------------------------------------------------------------------
(* The client: request, and what the queries do with what it resolves to. *)

\* Requests to the machines S beside those that wait, T being left for later.
Asking(q, S, T, waiting) ==
    LET n == Len(reqs)
        ids == (n + 1)..(n + Cardinality(S))
    IN /\ n + Cardinality(S) <= MaxRequests
       /\ reqs' = reqs \o [k \in 1..Cardinality(S) |->
                              [to |-> SetToSeq(S)[k], pc |-> "sent", has |-> FALSE]]
       /\ pending' = waiting \cup ids
       /\ query' = [q EXCEPT !.todo = T, !.open = @ \cup ids]

Ends(q, found, partial, waiting) ==
    /\ query' = [NoQuery EXCEPT !.pc = "done", !.found = found, !.partial = partial]
    /\ pending' = waiting
    /\ UNCHANGED reqs

\* scatterGather over the machines that were listed when the query began.
Scatter(q, waiting) ==
    IF q.asked = {} THEN Ends(q, FALSE, FALSE, waiting)
    ELSE \E T \in SUBSET q.asked :
            /\ Cardinality(T) = Min({Concurrency, Cardinality(q.asked)})
            /\ Asking([q EXCEPT !.pc = "scatter"], T, q.asked \ T, waiting)

\* A probe of one of them, which the hash of the identifier names.
Probe(q, waiting) ==
    IF q.asked = {} THEN Scatter(q, waiting)
    ELSE \E m \in q.asked : Asking([q EXCEPT !.pc = "probe"], {m}, {}, waiting)

\* queryAuditGet and queryAuditList, with the owner of a shard or without,
\* with an index or without, and the machines listed, which matter only
\* without an owner.
Query(kind, owner, index, asked) ==
    LET q == [NoQuery EXCEPT !.kind = kind, !.asked = asked]
    IN /\ ~Running
       /\ owner # Nobody => asked = {}
       /\ IF owner # Nobody THEN Asking([q EXCEPT !.pc = "owner"], {owner}, {}, pending)
          ELSE IF index /\ indexed # Nobody
               THEN Asking([q EXCEPT !.pc = "index"], {indexed}, {}, pending)
          ELSE IF kind = "get" THEN Probe(q, pending)
          ELSE IF index THEN Ends(q, FALSE, FALSE, pending) ELSE Scatter(q, pending)
       /\ UNCHANGED <<world, wire>>

\* With a shard that has no owner nothing is asked, and nothing is missing.
QueryUnowned ==
    /\ ~Running
    /\ Ends(NoQuery, FALSE, FALSE, pending)
    /\ UNCHANGED <<world, wire>>

\* Mutant: a request that failed is no error.
ScatteredQuietly(q, r) == [q EXCEPT !.found = @ \/ r.has]

\* One request of a scatter has ended.
Scattered(q, r) == [q EXCEPT !.found = @ \/ r.has, !.partial = @ \/ ~r.ok]

\* Mutant: the request stays in the map.
ForgetNone(i) == pending

Forget(i) == pending \ {i}

\* The promise of request i, for which the query waits, resolves to r.
Continue(i, r) ==
    LET q == [query EXCEPT !.open = @ \ {i}]
        s == Scattered(q, r)
        waiting == Forget(i)
    IN \/ q.pc = "owner" /\ Ends(q, r.has, ~r.ok, waiting)
       \/ q.pc = "index" /\ q.kind = "list" /\ Ends(q, r.has, ~r.has, waiting)
       \/ q.pc = "index" /\ q.kind = "get" /\ r.ok /\ Ends(q, r.has, FALSE, waiting)
       \/ q.pc = "index" /\ q.kind = "get" /\ ~r.ok /\ Probe(q, waiting)
       \/ q.pc = "probe" /\ r.has /\ Ends(q, TRUE, FALSE, waiting)
       \/ q.pc = "probe" /\ ~r.has /\ Scatter(q, waiting)
       \/ /\ q.pc = "scatter"
          /\ \E m \in s.todo : Asking(s, {m}, s.todo \ {m}, waiting)
       \/ /\ q.pc = "scatter" /\ s.todo = {} /\ s.open # {}
          /\ query' = s /\ pending' = waiting /\ UNCHANGED reqs
       \/ /\ q.pc = "scatter" /\ s.todo = {} /\ s.open = {}
          /\ Ends(s, s.found, s.partial, waiting)

Answers(w, i) == w.id = i

\* An answer for which nobody waits is dropped.
Receive(w) ==
    /\ wire' = wire \ {w}
    /\ \/ \E i \in pending : Answers(w, i) /\ Continue(i, [ok |-> w.ok, has |-> w.has])
       \/ ~(\E i \in pending : Answers(w, i)) /\ UNCHANGED <<reqs, pending, query>>
    /\ UNCHANGED world

\* The timer of a request fires, or its publication is rejected.
Timeout(i) ==
    /\ Continue(i, Failed)
    /\ UNCHANGED <<world, wire>>

Init ==
    /\ holder = Nobody /\ born = FALSE /\ indexed = Nobody
    /\ reqs = <<>> /\ wire = {} /\ pending = {} /\ query = NoQuery

Next ==
    \/ WriteRecord \/ Expire \/ QueryUnowned
    \/ \E i \in DOMAIN reqs : Read(i) \/ Reply(i)
    \/ \E kind \in {"get", "list"}, owner \in Somebody, index \in BOOLEAN,
         asked \in Listed : Query(kind, owner, index, asked)
    \/ \E w \in wire : Receive(w)
    \/ \E i \in pending : Timeout(i)

Spec == Init /\ [][Next]_vars

----------------------------------------------------------------------------
(* Properties. *)

TypeOK ==
    /\ holder \in Somebody /\ indexed \in Somebody
    /\ \A i \in DOMAIN reqs : reqs[i].to \in Machine /\ reqs[i].pc \in {"sent", "read", "over"}
    /\ pending \subseteq DOMAIN reqs /\ query.open \subseteq DOMAIN reqs

\* A get without an owner that finds nothing and does not say it is partial
\* has told the truth of every worker that was listed when it began, over all
\* ways it may have taken, unless the record was written or removed meanwhile
\* (queryAuditGet).
NotFoundIsAbsent ==
    [][query'.pc = "done" /\ query.pc \in {"index", "probe", "scatter"} /\ query.kind = "get"
         /\ ~query'.found /\ ~query'.partial /\ ~query.fresh
          => holder \notin query.asked]_query

\* What a query waits for the client has not forgotten, and it waits while it
\* runs: every request resolves once, to its answer, to its timer or to a
\* rejection, and then the query goes on (request).
QueryWaits ==
    /\ query.open = pending
    /\ Running => query.open # {}
==============================================================================
