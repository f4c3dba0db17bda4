----------------------------- MODULE SnapshotSync -----------------------------
(***************************************************************************)
(* The distribution of configuration, translations and emoji assets: the   *)
(* orchestrator publishes versions of one document                         *)
(* (crosshost/orchestrator/snapshot.ts), a worker follows them             *)
(* (crosshost/worker/snapshotCache.ts, adapter.ts).                        *)
(*                                                                         *)
(* A publish is left at its awaits of Redis, a pull between the request,   *)
(* the answer and its arrival.  A rejected pull reaches no handler and ends*)
(* the worker's process.                                                   *)
(***************************************************************************)
EXTENDS Naturals, Sequences, SequencesExt

CONSTANTS
    Publisher,    \* the publishes that may be under way at once
    MaxRetained,  \* MAX_RETAINED
    MaxVersion,   \* bound: versions
    MaxEvents,    \* bound: how often something goes wrong
    Event         \* bound: what may go wrong

VARIABLES
    content,  \* what the managers of the orchestrator hold
    docs,     \* the documents of the versions so far
    pub,      \* the publishes
    wire,     \* notifications on their way to the worker
    worker,   \* the worker: its phase, the document it has and its version
    pulls,    \* pulls under way, in the order they were made
    count,    \* how often something went wrong
    mishaps   \* what has gone wrong

vars == <<content, docs, pub, wire, worker, pulls, count, mishaps>>

Doc == {1, 2}
NoDoc == 0
Version == Len(docs)

Retained == {v \in DOMAIN docs : v + MaxRetained > Version}

NoPublish == [doc |-> NoDoc, from |-> NoDoc, base |-> 0, pc |-> "idle"]

DocAt(v) == IF v = 0 THEN NoDoc ELSE docs[v]
Down == [pc |-> "down", want |-> 0, ver |-> 0, doc |-> NoDoc]

Happened(kinds) == mishaps \cap kinds # {}

Mishap(kind) ==
    /\ kind \in Event
    /\ count < MaxEvents /\ count' = count + 1
    /\ mishaps' = mishaps \cup {kind}

Noted(kind, happens) == IF happens THEN Mishap(kind) ELSE UNCHANGED <<count, mishaps>>

----------------------------------------------------------------------------
(* The orchestrator. *)

Edit ==
    /\ \E d \in Doc \ {content} : content' = d
    /\ Version < MaxVersion
    /\ UNCHANGED <<docs, pub, wire, worker, pulls, count, mishaps>>

\* publishFromManagers up to its first await: the timer of the bootstrap, or
\* (force) its start.
Publish(p) ==
    /\ pub[p].pc = "idle" /\ Version < MaxVersion
    /\ Version > 0 => content # docs[Version]
    /\ docs' = Append(docs, content)
    /\ pub' = [pub EXCEPT ![p] = [doc |-> content, from |-> DocAt(Version),
                                  base |-> Version, pc |-> "store"]]
    /\ Noted("overlap", \E q \in Publisher : pub[q].pc # "idle")
    /\ UNCHANGED <<content, wire, worker, pulls>>

\* What is announced: the version is the one of now, the document and the
\* base those of the publish.
Note(p) ==
    [version |-> Version, doc |-> pub[p].doc, base |-> pub[p].base,
     from |-> pub[p].from, diff |-> pub[p].base > 0]

Notify(p) ==
    /\ pub[p].pc = "store"
    /\ pub' = [pub EXCEPT ![p] = NoPublish]
    /\ IF worker.pc \in {"on", "boot"} THEN wire' = Append(wire, Note(p)) /\ UNCHANGED <<count, mishaps>>
       ELSE /\ UNCHANGED wire
            /\ Noted("lost", worker.pc = "registered")
    /\ UNCHANGED <<content, docs, worker, pulls>>

\* Redis rejects: the version stays, nobody is told.
PublishFails(p) ==
    /\ pub[p].pc = "store"
    /\ Mishap("failed")
    /\ pub' = [pub EXCEPT ![p] = NoPublish]
    /\ UNCHANGED <<content, docs, wire, worker, pulls>>

\* A new orchestrator counts from 1 again.  A pull that was not answered is
\* reset, which is rejected as one for a version that is not retained.
Restart ==
    /\ Mishap("restart")
    /\ docs' = <<content>>
    /\ \E p \in Publisher :
          pub' = [q \in Publisher |->
                     IF q = p THEN [doc |-> content, from |-> NoDoc, base |-> 0, pc |-> "store"]
                     ELSE NoPublish]
    /\ pulls' = [n \in DOMAIN pulls |-> [pulls[n] EXCEPT !.pc = "answered"]]
    /\ UNCHANGED <<content, wire, worker>>

----------------------------------------------------------------------------
(* The worker. *)

\* The answer to the registration names the version of then.
Register ==
    /\ worker.pc = "down" /\ Version > 0
    /\ worker' = [Down EXCEPT !.pc = "registered", !.want = Version]
    /\ UNCHANGED <<content, docs, pub, wire, pulls, count, mishaps>>

Pulling(v) ==
    /\ pulls' = Append(pulls, [version |-> v, doc |-> NoDoc, pc |-> "asked"])
    /\ Noted("pulls", pulls # <<>>)

\* The subscription, then the first pull.
Subscribe ==
    /\ worker.pc = "registered"
    /\ worker' = [worker EXCEPT !.pc = "boot"]
    /\ Pulling(worker.want)
    /\ UNCHANGED <<content, docs, pub, wire>>

\* GET /snapshot?version=v: only what is retained can be had.
Answer(n) ==
    /\ pulls[n].pc = "asked"
    /\ pulls' = [pulls EXCEPT ![n].pc = "answered",
                    ![n].doc = IF pulls[n].version \in Retained THEN docs[pulls[n].version]
                               ELSE NoDoc]
    /\ UNCHANGED <<content, docs, pub, wire, worker, count, mishaps>>

Exits == worker' = Down /\ wire' = <<>> /\ pulls' = <<>>

\* Mutant: a full document is taken for the version last announced.
FullAsNewest(v, d) ==
    [worker EXCEPT !.pc = "on", !.ver = Version, !.doc = d]

\* applyFull does not look at the version there is.
Full(v, d) == [worker EXCEPT !.pc = "on", !.ver = v, !.doc = d]

Arrive(n) ==
    /\ pulls[n].pc = "answered"
    /\ IF pulls[n].doc = NoDoc THEN Exits
       ELSE /\ worker' = Full(pulls[n].version, pulls[n].doc)
            /\ pulls' = RemoveAt(pulls, n)
            /\ UNCHANGED wire
    /\ UNCHANGED <<content, docs, pub, count, mishaps>>

Fresh(m) == m.version > worker.ver

\* Mutant: the base is not compared.
PatchesAny(m) == m.diff /\ worker.doc # NoDoc

\* applyDiff: the base is the version there is.
Patches(m) ==
    /\ m.diff /\ worker.doc # NoDoc /\ worker.ver = m.base
    /\ worker.doc = m.from

Diff(m) == [worker EXCEPT !.ver = m.version, !.doc = m.doc]

\* handleSnapshotNotify.  Where the order of keys comes out differently, the
\* hash of the patched document is another one and the diff is rejected.
Hear ==
    LET m == Head(wire)
    IN /\ wire # <<>>
       /\ wire' = Tail(wire)
       /\ \/ ~Fresh(m) /\ UNCHANGED <<worker, pulls, count, mishaps>>
          \/ Fresh(m) /\ Patches(m) /\ worker' = Diff(m) /\ UNCHANGED <<pulls, count, mishaps>>
          \/ Fresh(m) /\ Pulling(m.version) /\ UNCHANGED worker
       /\ UNCHANGED <<content, docs, pub>>

Lose ==
    /\ wire # <<>>
    /\ Mishap("lost")
    /\ wire' = Tail(wire)
    /\ UNCHANGED <<content, docs, pub, worker, pulls>>

Exit ==
    /\ worker.pc # "down"
    /\ Mishap("exit")
    /\ Exits
    /\ UNCHANGED <<content, docs, pub>>

----------------------------------------------------------------------------

Init ==
    /\ content = 1
    /\ docs = <<>>
    /\ pub = [p \in Publisher |-> NoPublish]
    /\ wire = <<>> /\ worker = Down /\ pulls = <<>> /\ count = 0 /\ mishaps = {}

Next ==
    \/ Edit \/ Restart \/ Register \/ Subscribe \/ Hear \/ Lose \/ Exit
    \/ \E p \in Publisher : Publish(p) \/ Notify(p) \/ PublishFails(p)
    \/ \E n \in DOMAIN pulls : Answer(n) \/ Arrive(n)

Spec == Init /\ [][Next]_vars

----------------------------------------------------------------------------
(* Properties. *)

TypeOK ==
    /\ content \in Doc /\ docs \in Seq(Doc)
    /\ pub \in [Publisher -> [doc : Doc \cup {NoDoc}, from : Doc \cup {NoDoc}, base : Nat,
                           pc : {"idle", "store"}]]
    /\ wire \in Seq([version : Nat, doc : Doc, from : Doc \cup {NoDoc}, base : Nat,
                 diff : BOOLEAN])
    /\ worker \in [pc : {"down", "registered", "boot", "on"}, want : Nat, ver : Nat,
                   doc : Doc \cup {NoDoc}]
    /\ pulls \in Seq([version : Nat, doc : Doc \cup {NoDoc}, pc : {"asked", "answered"}])

\* A worker has the document of the version it says it has, by whatever mix
\* of diffs and full documents it came there, while publishes do not overlap
\* (publishFromManagers announces the version of the moment) and the
\* orchestrator was not restarted.
VersionIsDocument ==
    worker.ver > 0 /\ ~Happened({"overlap", "restart"}) =>
        worker.ver \in DOMAIN docs /\ worker.doc = docs[worker.ver]

\* The version of a worker never goes back while it runs, as long as its pulls
\* and the publishes do not overlap: applyFull does not compare (adapter.ts:586).
VersionsAscend ==
    [][worker'.pc # "down" /\ worker.pc # "down" /\ ~Happened({"pulls", "overlap", "restart"})
          => worker'.ver >= worker.ver]_worker

\* When nothing is under way a worker has the latest version, unless a
\* notification was lost, not sent or given in before its subscription, or
\* something overlapped: nothing else brings it up to date.
WorkerIsCurrent ==
    /\ worker.pc = "on" /\ wire = <<>> /\ pulls = <<>>
    /\ \A p \in Publisher : pub[p].pc = "idle"
    /\ ~Happened({"lost", "failed", "overlap", "restart", "pulls"})
    => worker.ver = Version /\ worker.doc = docs[Version]
==============================================================================
