---------------------------- MODULE Channels_proof ----------------------------
(***************************************************************************)
(* Proofs about the services that carry something from one part to         *)
(* another: the snapshots, the queries, the events and the messages of     *)
(* plugins, for any workers, machines, listeners and handlers.             *)
(***************************************************************************)
EXTENDS Services_proof

--------------------------------------------------------------------------------
(* The snapshots.                                                          *)

(* The shapes of what the service keeps.                                   *)
SnapNote == [version : Nat, doc : Snap!Doc, from : Snap!Doc \cup {Snap!NoDoc}, base : Nat,
             diff : BOOLEAN]
SnapPull == [version : Nat, doc : Snap!Doc \cup {Snap!NoDoc}, pc : {"asked", "answered"}]
SnapPub == [doc : Snap!Doc \cup {Snap!NoDoc}, from : Snap!Doc \cup {Snap!NoDoc}, base : Nat,
            pc : {"idle", "store"}]
SnapWorker == [pc : {"down", "registered", "boot", "on"}, want : Nat, ver : Nat,
               doc : Snap!Doc \cup {Snap!NoDoc}]

Storing(p) == s_pub[p].pc = "store"

(* What goes wrong is not forgotten.  Without overlapping publishes and    *)
(* restarts a version is a document; without pulls that overlap it does    *)
(* not go back; and if nothing was lost it reaches the worker.             *)
Orderly == ~Snap!Happened({"overlap", "restart"})
Ascending == ~Snap!Happened({"pulls", "overlap", "restart"})
Reached == ~Snap!Happened({"lost", "failed", "overlap", "restart", "pulls"})

(* A publish that overlaps no other announces the latest version.          *)
PublishInv ==
    /\ \A p, q \in Publisher : Storing(p) /\ Storing(q) => p = q
    /\ \A p \in Publisher : Storing(p) =>
          /\ Snap!Version > 0 /\ s_pub[p].base = Snap!Version - 1
          /\ s_pub[p].doc = s_docs[Snap!Version]

(* The notifications come in the order of their versions.                  *)
WireInv ==
    /\ \A i \in DOMAIN s_wire :
          /\ s_wire[i].version \in DOMAIN s_docs /\ s_wire[i].doc = s_docs[s_wire[i].version]
          /\ s_wire[i].base = s_wire[i].version - 1
    /\ \A i, j \in DOMAIN s_wire : i < j => s_wire[i].version < s_wire[j].version
    /\ \A i \in DOMAIN s_wire, p \in Publisher : Storing(p) => s_wire[i].version < Snap!Version

(* Whatever the worker has or gets is the document of its version.         *)
HoldsInv ==
    /\ \A n \in DOMAIN s_pulls :
          /\ s_pulls[n].version \in DOMAIN s_docs
          /\ s_pulls[n].doc \in {Snap!NoDoc, s_docs[s_pulls[n].version]}
    /\ s_worker.ver > 0 => s_worker.ver \in DOMAIN s_docs /\ s_worker.doc = s_docs[s_worker.ver]
    /\ s_worker.ver = 0 => s_worker.doc = Snap!NoDoc
    /\ s_worker.pc = "registered" => s_worker.want \in DOMAIN s_docs

(* A worker that is not up has nothing under way.                          *)
OffInv ==
    /\ s_worker.pc \in {"down", "registered"} => s_wire = <<>> /\ s_pulls = <<>>
    /\ s_worker.pc \in {"down", "registered", "boot"} <=> s_worker.ver = 0

OrderInv == PublishInv /\ WireInv /\ HoldsInv /\ OffInv

(* One pull at a time: it brings something newer, and what is announced    *)
(* behind it is newer still, unless it is the pull of the boot.            *)
PullInv ==
    /\ Len(s_pulls) <= 1
    /\ \A n \in DOMAIN s_pulls :
          /\ s_pulls[n].version > s_worker.ver
          /\ s_worker.pc = "on" =>
                /\ \A i \in DOMAIN s_wire : s_wire[i].version > s_pulls[n].version
                /\ \A p \in Publisher : Storing(p) => Snap!Version > s_pulls[n].version

(* The latest version is the worker's, or on its way to it.                *)
ReachesInv ==
    \/ s_worker.pc = "down"
    \/ \E p \in Publisher : Storing(p)
    \/ s_worker.pc = "registered" /\ s_worker.want = Snap!Version
    \/ s_worker.pc \in {"boot", "on"} /\
          \/ s_worker.ver = Snap!Version
          \/ \E i \in DOMAIN s_wire : s_wire[i].version = Snap!Version
          \/ \E n \in DOMAIN s_pulls : s_pulls[n].version = Snap!Version

SnapInv ==
    /\ Snap!TypeOK
    /\ \A p \in Publisher : Storing(p) => s_pub[p].doc \in Snap!Doc
    /\ Orderly => OrderInv
    /\ Ascending => PullInv
    /\ Reached => ReachesInv

LEMMA SnapTyped ==
    ASSUME Snap!TypeOK
    PROVE  /\ s_content \in Snap!Doc
           /\ s_docs \in Seq(Snap!Doc) /\ Len(s_docs) \in Nat /\ DOMAIN s_docs = 1..Len(s_docs)
           /\ Snap!Version = Len(s_docs) /\ \A v \in DOMAIN s_docs : s_docs[v] \in Snap!Doc
           /\ s_wire \in Seq(SnapNote) /\ Len(s_wire) \in Nat /\ DOMAIN s_wire = 1..Len(s_wire)
           /\ \A i \in DOMAIN s_wire : s_wire[i] \in SnapNote
           /\ s_pulls \in Seq(SnapPull) /\ Len(s_pulls) \in Nat /\ DOMAIN s_pulls = 1..Len(s_pulls)
           /\ \A n \in DOMAIN s_pulls : s_pulls[n] \in SnapPull
           /\ s_worker \in SnapWorker /\ s_pub \in [Publisher -> SnapPub]
<1>1. /\ s_docs \in Seq(Snap!Doc) /\ s_wire \in Seq(SnapNote) /\ s_pulls \in Seq(SnapPull)
      /\ s_worker \in SnapWorker /\ s_pub \in [Publisher -> SnapPub] /\ s_content \in Snap!Doc
  BY DEF Snap!TypeOK, SnapNote, SnapPull, SnapWorker, SnapPub
<1>2. Snap!Version = Len(s_docs)
  BY DEF Snap!Version
<1> HIDE DEF SnapNote, SnapPull, SnapWorker, SnapPub
<1> QED
  BY <1>1, <1>2

LEMMA SnapType ==
    ASSUME s_docs \in Seq(Snap!Doc), s_wire \in Seq(SnapNote), s_pulls \in Seq(SnapPull),
           s_worker \in SnapWorker, s_pub \in [Publisher -> SnapPub], s_content \in Snap!Doc
    PROVE  Snap!TypeOK
BY DEF Snap!TypeOK, SnapNote, SnapPull, SnapWorker, SnapPub

(* What went wrong before has gone wrong after.                            *)
LEMMA MishapGrows ==
    ASSUME NEW kind, \/ Snap!Mishap(kind)
                     \/ UNCHANGED <<s_count, s_mishaps>>
                     \/ \E happens \in BOOLEAN : Snap!Noted(kind, happens)
    PROVE  /\ Orderly' => Orderly
           /\ Ascending' => Ascending
           /\ Reached' => Reached
           /\ Reached' => Ascending'
           /\ Ascending' => Orderly'
<1>1. s_mishaps \subseteq s_mishaps'
  BY DEF Snap!Mishap, Snap!Noted
<1> QED
  BY <1>1 DEF Orderly, Ascending, Reached, Snap!Happened

LEMMA MishapNoted ==
    ASSUME NEW kind, NEW happens \in BOOLEAN, Snap!Noted(kind, happens), kind \notin s_mishaps'
    PROVE  ~happens
BY DEF Snap!Noted, Snap!Mishap

(* Nothing but the managers or the count of mishaps changes.               *)
LEMMA SnapSame ==
    ASSUME SnapInv, UNCHANGED <<s_docs, s_pub, s_wire, s_worker, s_pulls>>,
           s_content' \in Snap!Doc, s_mishaps' = s_mishaps
    PROVE  SnapInv'
<1>1. Snap!TypeOK'
  BY DEF SnapInv, Snap!TypeOK
<1>2. Orderly' = Orderly /\ Ascending' = Ascending /\ Reached' = Reached
  BY DEF Orderly, Ascending, Reached, Snap!Happened
<1>3. Snap!Version' = Snap!Version
  BY DEF Snap!Version
<1>4. /\ PublishInv => PublishInv'
      /\ WireInv => WireInv'
      /\ HoldsInv => HoldsInv'
      /\ OffInv => OffInv'
      /\ PullInv => PullInv'
      /\ ReachesInv => ReachesInv'
  BY <1>3 DEF PublishInv, WireInv, HoldsInv, OffInv, PullInv, ReachesInv, Storing
<1> QED
  BY <1>1, <1>2, <1>4 DEF SnapInv, OrderInv, Storing

LEMMA PublishKeeps ==
    ASSUME SnapInv, NEW p \in Publisher, Snap!Publish(p)
    PROVE  SnapInv'
<1> DEFINE V == Len(s_docs)
           overlap == \E q \in Publisher : s_pub[q].pc # "idle"
<1>1. /\ s_docs' = Append(s_docs, s_content) /\ Snap!Noted("overlap", overlap)
      /\ s_pub' = [s_pub EXCEPT ![p] = [doc |-> s_content, from |-> Snap!DocAt(Snap!Version),
                                        base |-> Snap!Version, pc |-> "store"]]
      /\ UNCHANGED <<s_content, s_wire, s_worker, s_pulls>>
  BY DEF Snap!Publish
<1>2. /\ V \in Nat /\ Snap!Version = V /\ DOMAIN s_docs = 1..V /\ s_content \in Snap!Doc
      /\ s_docs \in Seq(Snap!Doc) /\ s_pub \in [Publisher -> SnapPub]
  BY SnapTyped DEF SnapInv
<1>3. /\ s_docs' \in Seq(Snap!Doc) /\ Len(s_docs') = V + 1 /\ DOMAIN s_docs' = 1..(V + 1)
      /\ s_docs'[V + 1] = s_content /\ \A v \in DOMAIN s_docs : s_docs'[v] = s_docs[v]
      /\ Snap!Version' = V + 1
  BY <1>1, <1>2 DEF Snap!Version
<1>4. s_pub' \in [Publisher -> SnapPub] /\ s_pub'[p].pc = "store" /\ s_pub'[p].base = V
      /\ s_pub'[p].doc = s_content /\ \A q \in Publisher : q # p => s_pub'[q] = s_pub[q]
  <2>1. Snap!DocAt(V) \in Snap!Doc \cup {Snap!NoDoc}
    BY <1>2 DEF Snap!DocAt
  <2> QED
    BY <1>1, <1>2, <2>1 DEF SnapPub
<1>5. Snap!TypeOK'
  <2>1. Snap!TypeOK
    BY DEF SnapInv
  <2> QED
    BY <1>1, <1>2, <1>3, <1>4, <2>1 DEF Snap!TypeOK, SnapPub
<1>6. /\ Orderly' => Orderly
      /\ Ascending' => Ascending /\ Orderly'
      /\ Reached' => Reached /\ Ascending'
  BY <1>1, MishapGrows
<1>7. Orderly' => \A q \in Publisher : ~Storing(q)
  <2> SUFFICES ASSUME Orderly' PROVE \A q \in Publisher : ~Storing(q)
    OBVIOUS
  <2>1. "overlap" \notin s_mishaps'
    BY DEF Orderly, Snap!Happened
  <2>2. ~overlap
    BY <1>1, <2>1, MishapNoted
  <2> QED
    BY <2>2 DEF Storing
<1>8. Orderly' => OrderInv'
  <2> SUFFICES ASSUME Orderly' PROVE OrderInv'
    OBVIOUS
  <2>1. OrderInv
    BY <1>6 DEF SnapInv
  <2>2. PublishInv'
    BY <1>2, <1>3, <1>4, <1>7 DEF PublishInv, Storing
  <2>3. WireInv'
    BY <1>1, <1>2, <1>3, <2>1 DEF OrderInv, WireInv
  <2>4. HoldsInv' /\ OffInv'
    BY <1>1, <1>2, <1>3, <2>1 DEF OrderInv, HoldsInv, OffInv
  <2> QED
    BY <2>2, <2>3, <2>4 DEF OrderInv
<1>9. Ascending' => PullInv'
  <2> SUFFICES ASSUME Ascending' PROVE PullInv'
    OBVIOUS
  <2>1. PullInv /\ HoldsInv
    BY <1>6 DEF SnapInv, OrderInv
  <2> QED
    BY <1>1, <1>2, <1>3, <2>1 DEF PullInv, HoldsInv
<1>10. Reached' => ReachesInv'
  BY <1>4 DEF ReachesInv, Storing
<1>11. \A q \in Publisher : s_pub'[q].pc = "store" => s_pub'[q].doc \in Snap!Doc
  BY <1>2, <1>4 DEF SnapInv, Storing
<1> QED
  BY <1>5, <1>8, <1>9, <1>10, <1>11 DEF SnapInv, Storing

(* A publish that is told or not.                                          *)
LEMMA NotifyKeeps ==
    ASSUME SnapInv, NEW p \in Publisher, Snap!Notify(p)
    PROVE  SnapInv'
<1> DEFINE V == Len(s_docs)
           hears == s_worker.pc \in {"on", "boot"}
<1>1. /\ Storing(p) /\ s_pub' = [s_pub EXCEPT ![p] = Snap!NoPublish]
      /\ UNCHANGED <<s_content, s_docs, s_worker, s_pulls>>
      /\ IF hears THEN s_wire' = Append(s_wire, Snap!Note(p)) /\ UNCHANGED <<s_count, s_mishaps>>
         ELSE UNCHANGED s_wire /\ Snap!Noted("lost", s_worker.pc = "registered")
  BY DEF Snap!Notify, Storing
<1>2. /\ V \in Nat /\ Snap!Version = V /\ DOMAIN s_docs = 1..V
      /\ s_pub \in [Publisher -> SnapPub] /\ s_worker \in SnapWorker
      /\ s_wire \in Seq(SnapNote) /\ Len(s_wire) \in Nat /\ DOMAIN s_wire = 1..Len(s_wire)
      /\ s_docs \in Seq(Snap!Doc) /\ s_content \in Snap!Doc /\ s_pulls \in Seq(SnapPull)
  BY SnapTyped DEF SnapInv
<1>3. /\ s_pub' \in [Publisher -> SnapPub] /\ s_pub'[p].pc = "idle"
      /\ \A q \in Publisher : q # p => s_pub'[q] = s_pub[q]
      /\ Snap!Version' = V
  BY <1>1, <1>2 DEF SnapPub, Snap!NoPublish, Snap!Version
<1>4. /\ Snap!Note(p) \in SnapNote /\ Snap!Note(p).version = V
      /\ Snap!Note(p).doc = s_pub[p].doc /\ Snap!Note(p).base = s_pub[p].base
  <2>1. s_pub[p].doc \in Snap!Doc /\ s_pub[p] \in SnapPub
    BY <1>1, <1>2 DEF SnapInv
  <2> QED
    BY <1>2, <2>1 DEF Snap!Note, SnapNote, SnapPub
<1>5. /\ hears => /\ Len(s_wire') = Len(s_wire) + 1 /\ s_wire' \in Seq(SnapNote)
                  /\ DOMAIN s_wire' = 1..(Len(s_wire) + 1)
                  /\ s_wire'[Len(s_wire) + 1] = Snap!Note(p)
                  /\ \A i \in DOMAIN s_wire : s_wire'[i] = s_wire[i]
      /\ ~hears => s_wire' = s_wire
  <2> DEFINE note == Snap!Note(p)
  <2>1. /\ Append(s_wire, note) \in Seq(SnapNote) /\ Len(Append(s_wire, note)) = Len(s_wire) + 1
        /\ Append(s_wire, note)[Len(s_wire) + 1] = note
        /\ \A i \in 1..Len(s_wire) : Append(s_wire, note)[i] = s_wire[i]
    BY <1>2, <1>4, Appended
  <2>2. DOMAIN Append(s_wire, note) = 1..(Len(s_wire) + 1)
    BY <2>1, Entries
  <2> HIDE DEF note, hears
  <2> QED
    BY <1>1, <1>2, <2>1, <2>2 DEF note
<1>6. Snap!TypeOK'
  <2>1. s_wire' \in Seq(SnapNote)
    BY <1>2, <1>5
  <2>2. Snap!TypeOK
    BY DEF SnapInv
  <2> QED
    BY <1>1, <1>3, <2>1, <2>2 DEF Snap!TypeOK, SnapPub, SnapNote
<1>7. /\ Orderly' => Orderly
      /\ Ascending' => Ascending /\ Orderly'
      /\ Reached' => Reached /\ Ascending'
  BY <1>1, MishapGrows
<1>8. Orderly' => OrderInv'
  <2> SUFFICES ASSUME Orderly' PROVE OrderInv'
    OBVIOUS
  <2>1. PublishInv /\ WireInv /\ HoldsInv /\ OffInv
    BY <1>7 DEF SnapInv, OrderInv
  <2>2. \A q \in Publisher : ~Storing(q)'
    BY <1>1, <1>3, <2>1 DEF PublishInv, Storing
  <2>3. V > 0 /\ s_pub[p].base = V - 1 /\ s_pub[p].doc = s_docs[V]
    BY <1>1, <1>2, <2>1 DEF PublishInv
  <2>4. WireInv'
    <3>1. CASE hears
      <4>1. \A i \in DOMAIN s_wire : s_wire[i].version < V
        BY <1>1, <1>2, <2>1 DEF WireInv
      <4> QED
        <5> DEFINE L == Len(s_wire)
        <5>4. /\ DOMAIN s_wire' = 1..(L + 1) /\ L \in Nat /\ DOMAIN s_wire = 1..L
              /\ s_wire'[L + 1] = Snap!Note(p) /\ \A i \in DOMAIN s_wire : s_wire'[i] = s_wire[i]
          BY <1>2, <1>5, <3>1
        <5> HIDE DEF L
        <5>1. \A i \in DOMAIN s_wire' : \/ (i \in DOMAIN s_wire /\ s_wire'[i] = s_wire[i])
                                       \/ (i = L + 1 /\ s_wire'[i] = Snap!Note(p))
          <6>1. 1..(L + 1) = 1..L \cup {L + 1}
            BY <5>4
          <6> QED
            BY <5>4, <6>1
        <5>2. \A i \in DOMAIN s_wire' :
                 /\ s_wire'[i].version \in DOMAIN s_docs /\ s_wire'[i].doc = s_docs[s_wire'[i].version]
                 /\ s_wire'[i].base = s_wire'[i].version - 1
          BY <1>2, <1>4, <2>1, <2>3, <5>1 DEF WireInv
        <5>3. \A i, j \in DOMAIN s_wire' : i < j => s_wire'[i].version < s_wire'[j].version
          BY <1>2, <1>4, <2>1, <4>1, <5>1, <5>4 DEF WireInv
        <5> QED
          BY <1>1, <2>2, <5>2, <5>3 DEF WireInv
    <3>2. CASE ~hears
      BY <1>1, <1>5, <2>1, <2>2, <3>2 DEF WireInv
    <3> QED
      BY <3>1, <3>2
  <2>5. PublishInv' /\ HoldsInv'
    BY <1>1, <2>1, <2>2 DEF PublishInv, HoldsInv
  <2>6. OffInv'
    BY <1>1, <1>5, <2>1 DEF OffInv
  <2> QED
    BY <2>4, <2>5, <2>6 DEF OrderInv
<1>9. Ascending' => PullInv'
  <2> SUFFICES ASSUME Ascending' PROVE PullInv'
    OBVIOUS
  <2>1. PullInv /\ OrderInv
    BY <1>7 DEF SnapInv
  <2>3. \A q \in Publisher : ~Storing(q)'
    BY <1>1, <1>3, <1>7, <2>1 DEF OrderInv, PublishInv, Storing
  <2>2. ASSUME NEW n \in DOMAIN s_pulls, s_worker.pc = "on", NEW i \in DOMAIN s_wire'
        PROVE  s_wire'[i].version > s_pulls[n].version
    <3>1. CASE i \in DOMAIN s_wire
      BY <1>5, <2>1, <2>2, <3>1 DEF PullInv
    <3>2. CASE i \notin DOMAIN s_wire
      <4>1. s_wire'[i].version = V
        BY <1>2, <1>4, <1>5, <2>2, <3>2
      <4>2. s_pulls[n].version < V
        BY <1>1, <1>2, <2>1, <2>2 DEF PullInv
      <4> QED
        BY <4>1, <4>2
    <3> QED
      BY <3>1, <3>2
  <2> QED
    BY <1>1, <2>1, <2>2, <2>3 DEF PullInv
<1>10. Reached' => ReachesInv'
  <2> SUFFICES ASSUME Reached' PROVE ReachesInv'
    OBVIOUS
  <2>1. "lost" \notin s_mishaps'
    BY DEF Reached, Snap!Happened
  <2>2. CASE hears
    <3>1. Len(s_wire) + 1 \in DOMAIN s_wire' /\ s_wire'[Len(s_wire) + 1].version = Snap!Version'
      BY <1>2, <1>3, <1>4, <1>5, <2>2
    <3>2. s_worker'.pc \in {"boot", "on"}
      BY <1>1, <2>2
    <3> QED
      BY <3>1, <3>2 DEF ReachesInv
  <2>3. CASE ~hears
    <3>1. s_worker.pc # "registered"
      BY <1>1, <2>1, <2>3, MishapNoted
    <3> QED
      BY <1>1, <1>2, <2>3, <3>1 DEF ReachesInv, SnapWorker
  <2> QED
    BY <2>2, <2>3
<1>11. \A q \in Publisher : s_pub'[q].pc = "store" => s_pub'[q].doc \in Snap!Doc
  BY <1>3 DEF SnapInv, Storing
<1> QED
  BY <1>6, <1>8, <1>9, <1>10, <1>11 DEF SnapInv, Storing

LEMMA PublishFailsKeeps ==
    ASSUME SnapInv, NEW p \in Publisher, Snap!PublishFails(p)
    PROVE  SnapInv'
<1>1. /\ s_pub' = [s_pub EXCEPT ![p] = Snap!NoPublish] /\ Snap!Mishap("failed")
      /\ UNCHANGED <<s_content, s_docs, s_worker, s_wire, s_pulls>>
  BY DEF Snap!PublishFails
<1>2. s_pub \in [Publisher -> SnapPub] /\ Snap!TypeOK
  BY SnapTyped DEF SnapInv
<1>3. /\ s_pub' \in [Publisher -> SnapPub] /\ s_pub'[p].pc = "idle"
      /\ \A q \in Publisher : q # p => s_pub'[q] = s_pub[q]
      /\ Snap!Version' = Snap!Version
  BY <1>1, <1>2 DEF SnapPub, Snap!NoPublish, Snap!Version
<1>4. Snap!TypeOK'
  BY <1>1, <1>2, <1>3 DEF Snap!TypeOK, SnapPub
<1>5. ~Reached' /\ (Orderly' => Orderly) /\ (Ascending' => Ascending /\ Orderly')
  <2>1. "failed" \in s_mishaps'
    BY <1>1 DEF Snap!Mishap
  <2> QED
    BY <1>1, <2>1, MishapGrows DEF Reached, Snap!Happened
<1>6. \A q \in Publisher : Storing(q)' => Storing(q) /\ s_pub'[q] = s_pub[q]
  BY <1>3 DEF Storing
<1>7. Orderly' => OrderInv'
  <2> SUFFICES ASSUME OrderInv PROVE OrderInv'
    BY <1>5 DEF SnapInv
  <2>1. PublishInv'
    BY <1>1, <1>3, <1>6 DEF OrderInv, PublishInv
  <2>2. WireInv' /\ HoldsInv' /\ OffInv'
    BY <1>1, <1>3, <1>6 DEF OrderInv, WireInv, HoldsInv, OffInv
  <2> QED
    BY <2>1, <2>2 DEF OrderInv
<1>8. Ascending' => PullInv'
  BY <1>1, <1>3, <1>5, <1>6 DEF SnapInv, PullInv
<1> QED
  BY <1>4, <1>5, <1>6, <1>7, <1>8 DEF SnapInv

(* Nothing is asked of what a new orchestrator says.                       *)
LEMMA RestartsKeeps ==
    ASSUME SnapInv, Snap!Restart
    PROVE  SnapInv'
<1>1. PICK p \in Publisher :
         s_pub' = [q \in Publisher |->
                     IF q = p THEN [doc |-> s_content, from |-> Snap!NoDoc, base |-> 0, pc |-> "store"]
                     ELSE Snap!NoPublish]
  BY DEF Snap!Restart
<1>2. /\ s_docs' = <<s_content>> /\ UNCHANGED <<s_content, s_wire, s_worker>>
      /\ s_pulls' = [n \in DOMAIN s_pulls |-> [s_pulls[n] EXCEPT !.pc = "answered"]]
      /\ Snap!Mishap("restart")
  BY DEF Snap!Restart
<1>3. /\ s_content \in Snap!Doc /\ s_pulls \in Seq(SnapPull) /\ Snap!TypeOK
      /\ Len(s_pulls) \in Nat /\ DOMAIN s_pulls = 1..Len(s_pulls)
      /\ \A n \in DOMAIN s_pulls : s_pulls[n] \in SnapPull
  BY SnapTyped DEF SnapInv
<1>4. s_pub' \in [Publisher -> SnapPub] /\ \A q \in Publisher : s_pub'[q].pc = "store" => q = p
  BY <1>1, <1>3 DEF SnapPub, Snap!NoPublish
<1>5. s_pulls' \in Seq(SnapPull)
  <2>1. \A n \in DOMAIN s_pulls : [s_pulls[n] EXCEPT !.pc = "answered"] \in SnapPull
    BY <1>3 DEF SnapPull
  <2>2. s_pulls' \in [1..Len(s_pulls) -> SnapPull]
    BY <1>2, <1>3, <2>1
  <2> QED
    BY <1>3, <2>2
<1>6. s_docs' \in Seq(Snap!Doc)
  BY <1>2, <1>3
<1>7. Snap!TypeOK'
  <2> USE DEF SnapNote, SnapPull, SnapPub, SnapWorker
  <2> QED
    BY <1>2, <1>3, <1>4, <1>5, <1>6 DEF Snap!TypeOK
<1>8. ~Orderly' /\ ~Ascending' /\ ~Reached'
  <2>1. "restart" \in s_mishaps'
    BY <1>2 DEF Snap!Mishap
  <2> QED
    BY <2>1 DEF Orderly, Ascending, Reached, Snap!Happened
<1>9. \A q \in Publisher : Storing(q)' => s_pub'[q].doc \in Snap!Doc
  BY <1>1, <1>3, <1>4 DEF Storing
<1> QED
  BY <1>7, <1>8, <1>9 DEF SnapInv

(* What is there when the publishes and the versions stay.                 *)
LEMMA VersionsStay ==
    ASSUME SnapInv, UNCHANGED <<s_content, s_docs, s_pub>>,
           s_wire' \in Seq(SnapNote), s_pulls' \in Seq(SnapPull), s_worker' \in SnapWorker
    PROVE  /\ Snap!TypeOK' /\ Snap!Version' = Snap!Version
           /\ \A q \in Publisher : Storing(q)' <=> Storing(q)
           /\ PublishInv => PublishInv'
           /\ \A q \in Publisher : Storing(q)' => s_pub'[q].doc \in Snap!Doc
<1>1. s_docs \in Seq(Snap!Doc) /\ s_content \in Snap!Doc /\ s_pub \in [Publisher -> SnapPub]
  BY SnapTyped DEF SnapInv
<1>2. Snap!TypeOK'
  BY <1>1 DEF Snap!TypeOK, SnapNote, SnapPull, SnapPub, SnapWorker
<1> QED
  BY <1>2 DEF SnapInv, PublishInv, Storing, Snap!Version

(* The same, of a worker that registers.                                   *)
LEMMA RegisterSnapKeeps ==
    ASSUME SnapInv, Snap!Register
    PROVE  SnapInv'
<1>1. /\ s_worker.pc = "down" /\ Snap!Version > 0
      /\ s_worker' = [Snap!Down EXCEPT !.pc = "registered", !.want = Snap!Version]
      /\ UNCHANGED <<s_content, s_docs, s_pub, s_wire, s_pulls, s_count, s_mishaps>>
  BY DEF Snap!Register
<1>2. /\ Snap!Version \in Nat /\ DOMAIN s_docs = 1..Snap!Version
      /\ s_wire \in Seq(SnapNote) /\ s_pulls \in Seq(SnapPull)
  BY SnapTyped DEF SnapInv
<1>3. /\ s_worker' \in SnapWorker /\ s_worker'.pc = "registered" /\ s_worker'.want = Snap!Version
      /\ s_worker'.ver = 0 /\ s_worker'.doc = Snap!NoDoc
  BY <1>1, <1>2 DEF SnapWorker, Snap!Down
<1>4. /\ Snap!TypeOK' /\ Snap!Version' = Snap!Version
      /\ \A q \in Publisher : Storing(q)' <=> Storing(q)
      /\ PublishInv => PublishInv'
      /\ \A q \in Publisher : Storing(q)' => s_pub'[q].doc \in Snap!Doc
  BY <1>1, <1>2, <1>3, VersionsStay
<1>5. Orderly' = Orderly /\ Ascending' = Ascending /\ Reached' = Reached /\ (Ascending => Orderly)
  BY <1>1 DEF Orderly, Ascending, Reached, Snap!Happened
<1>6. OrderInv => OrderInv'
  <2> SUFFICES ASSUME OrderInv PROVE OrderInv'
    OBVIOUS
  <2>1. WireInv'
    BY <1>1, <1>4 DEF OrderInv, WireInv
  <2>2. HoldsInv'
    BY <1>1, <1>2, <1>3 DEF OrderInv, HoldsInv
  <2>3. OffInv'
    BY <1>1, <1>3 DEF OrderInv, OffInv
  <2> QED
    BY <1>4, <2>1, <2>2, <2>3 DEF OrderInv
<1>7. PullInv /\ OrderInv => PullInv'
  BY <1>1, <1>3 DEF PullInv, OrderInv, OffInv
<1>8. ReachesInv'
  BY <1>3, <1>4 DEF ReachesInv
<1> QED
  BY <1>4, <1>5, <1>6, <1>7, <1>8 DEF SnapInv

(* One more pull.                                                          *)
LEMMA PullingAdds ==
    ASSUME SnapInv, NEW v \in Nat, Snap!Pulling(v)
    PROVE  /\ s_pulls' \in Seq(SnapPull) /\ Len(s_pulls') = Len(s_pulls) + 1
           /\ DOMAIN s_pulls' = 1..(Len(s_pulls) + 1)
           /\ s_pulls'[Len(s_pulls) + 1] = [version |-> v, doc |-> Snap!NoDoc, pc |-> "asked"]
           /\ \A n \in DOMAIN s_pulls : s_pulls'[n] = s_pulls[n]
           /\ (Orderly' => Orderly) /\ (Ascending' => Ascending /\ Orderly')
           /\ Reached' => Reached /\ Ascending'
           /\ Ascending' => s_pulls = <<>>
<1> DEFINE q == [version |-> v, doc |-> Snap!NoDoc, pc |-> "asked"]
<1>1. s_pulls' = Append(s_pulls, q) /\ Snap!Noted("pulls", s_pulls # <<>>)
  BY DEF Snap!Pulling
<1>2. q \in SnapPull
  BY DEF SnapPull
<1>3. s_pulls \in Seq(SnapPull)
  BY SnapTyped DEF SnapInv
<1> HIDE DEF q
<1>4. /\ Append(s_pulls, q) \in Seq(SnapPull) /\ Len(Append(s_pulls, q)) = Len(s_pulls) + 1
      /\ Append(s_pulls, q)[Len(s_pulls) + 1] = q
      /\ \A i \in 1..Len(s_pulls) : Append(s_pulls, q)[i] = s_pulls[i]
  BY <1>2, <1>3, Appended
<1>5. DOMAIN s_pulls' = 1..(Len(s_pulls) + 1) /\ DOMAIN s_pulls = 1..Len(s_pulls)
  BY <1>1, <1>3, <1>4, Entries
<1>6. (Orderly' => Orderly) /\ (Ascending' => Ascending /\ Orderly') /\ (Reached' => Reached /\ Ascending')
  BY <1>1, MishapGrows
<1>7. ASSUME Ascending' PROVE s_pulls = <<>>
  <2>1. "pulls" \notin s_mishaps'
    BY <1>7 DEF Ascending, Snap!Happened
  <2>2. (s_pulls # <<>>) \in BOOLEAN
    OBVIOUS
  <2> QED
    BY <1>1, <2>1, <2>2, MishapNoted
<1> QED
  BY <1>1, <1>4, <1>5, <1>6, <1>7 DEF q

LEMMA SubscribeKeeps ==
    ASSUME SnapInv, Snap!Subscribe
    PROVE  SnapInv'
<1> DEFINE v == s_worker.want
<1>1. /\ s_worker.pc = "registered" /\ s_worker' = [s_worker EXCEPT !.pc = "boot"]
      /\ Snap!Pulling(v) /\ UNCHANGED <<s_content, s_docs, s_pub, s_wire>>
  BY DEF Snap!Subscribe
<1>2. /\ Snap!Version \in Nat /\ DOMAIN s_docs = 1..Snap!Version /\ s_worker \in SnapWorker
      /\ s_wire \in Seq(SnapNote) /\ s_pulls \in Seq(SnapPull)
      /\ DOMAIN s_pulls = 1..Len(s_pulls) /\ Len(s_pulls) \in Nat
  BY SnapTyped DEF SnapInv
<1>3. /\ s_worker' \in SnapWorker /\ s_worker'.pc = "boot"
      /\ s_worker'.ver = s_worker.ver /\ s_worker'.doc = s_worker.doc /\ v \in Nat
  BY <1>1, <1>2 DEF SnapWorker
<1>4. /\ s_pulls' \in Seq(SnapPull) /\ Len(s_pulls') = Len(s_pulls) + 1
      /\ DOMAIN s_pulls' = 1..(Len(s_pulls) + 1)
      /\ s_pulls'[Len(s_pulls) + 1] = [version |-> v, doc |-> Snap!NoDoc, pc |-> "asked"]
      /\ \A n \in DOMAIN s_pulls : s_pulls'[n] = s_pulls[n]
      /\ (Orderly' => Orderly) /\ (Ascending' => Ascending /\ Orderly')
      /\ Reached' => Reached /\ Ascending'
      /\ Ascending' => s_pulls = <<>>
  BY <1>1, <1>3, PullingAdds
<1>5. /\ Snap!TypeOK' /\ Snap!Version' = Snap!Version
      /\ \A q \in Publisher : Storing(q)' <=> Storing(q)
      /\ PublishInv => PublishInv'
      /\ \A q \in Publisher : Storing(q)' => s_pub'[q].doc \in Snap!Doc
  BY <1>1, <1>2, <1>3, <1>4, VersionsStay
<1> HIDE DEF v
<1>6. \A n \in DOMAIN s_pulls' : \/ n \in DOMAIN s_pulls /\ s_pulls'[n] = s_pulls[n]
                                 \/ s_pulls'[n].version = v /\ s_pulls'[n].doc = Snap!NoDoc
  BY <1>2, <1>4
<1>7. Orderly' => OrderInv'
  <2> SUFFICES ASSUME OrderInv PROVE OrderInv'
    BY <1>4 DEF SnapInv
  <2>1. WireInv'
    BY <1>1, <1>5 DEF OrderInv, WireInv
  <2>2. HoldsInv'
    <3>1. v \in DOMAIN s_docs
      BY <1>1 DEF OrderInv, HoldsInv, v
    <3> QED
      BY <1>1, <1>3, <1>6, <3>1 DEF OrderInv, HoldsInv
  <2>3. OffInv'
    BY <1>1, <1>3 DEF OrderInv, OffInv
  <2> QED
    BY <1>5, <2>1, <2>2, <2>3 DEF OrderInv
<1>8. Ascending' => PullInv'
  <2> SUFFICES ASSUME Ascending' PROVE PullInv'
    OBVIOUS
  <2>1. OrderInv /\ s_pulls = <<>> /\ Len(s_pulls) = 0
    BY <1>2, <1>4 DEF SnapInv
  <2>2. s_worker.ver = 0 /\ v > 0
    BY <1>1, <1>2, <2>1 DEF OrderInv, OffInv, HoldsInv, v
  <2> QED
    BY <1>3, <1>4, <1>6, <2>1, <2>2 DEF PullInv
<1>9. Reached' => ReachesInv'
  <2> SUFFICES ASSUME ReachesInv PROVE ReachesInv'
    BY <1>4 DEF SnapInv
  <2>1. (\E p \in Publisher : Storing(p)) \/ v = Snap!Version
    BY <1>1 DEF ReachesInv, v
  <2>2. Len(s_pulls) + 1 \in DOMAIN s_pulls' /\ s_pulls'[Len(s_pulls) + 1].version = v
    BY <1>2, <1>4
  <2> QED
    BY <1>3, <1>5, <2>1, <2>2 DEF ReachesInv
<1> QED
  BY <1>5, <1>7, <1>8, <1>9 DEF SnapInv

(* The first notification is taken.                                        *)
LEMMA WireFalls ==
    ASSUME SnapInv, s_wire # <<>>, s_wire' = Tail(s_wire), UNCHANGED <<s_docs, s_pub>>
    PROVE  /\ s_wire' \in Seq(SnapNote) /\ Len(s_wire') = Len(s_wire) - 1
           /\ Head(s_wire) = s_wire[1] /\ 1 \in DOMAIN s_wire /\ s_wire[1] \in SnapNote
           /\ \A i \in DOMAIN s_wire' : i + 1 \in DOMAIN s_wire /\ s_wire'[i] = s_wire[i + 1]
           /\ \A i \in DOMAIN s_wire : i = 1 \/ (i - 1 \in DOMAIN s_wire' /\ s_wire'[i - 1] = s_wire[i])
           /\ WireInv => WireInv'
           /\ WireInv => \A i \in DOMAIN s_wire' : s_wire'[i].version > s_wire[1].version
<1>1. /\ s_wire \in Seq(SnapNote) /\ Len(s_wire) \in Nat /\ DOMAIN s_wire = 1..Len(s_wire)
      /\ \A i \in DOMAIN s_wire : s_wire[i] \in SnapNote
      /\ DOMAIN s_docs = 1..Snap!Version /\ Snap!Version \in Nat
  BY SnapTyped DEF SnapInv
<1> DEFINE L == Len(s_wire)
<1>2. /\ s_wire' \in Seq(SnapNote) /\ Len(s_wire') = L - 1 /\ L > 0
      /\ Head(s_wire) = s_wire[1] /\ \A i \in 1..(L - 1) : s_wire'[i] = s_wire[i + 1]
  BY <1>1
<1>3. DOMAIN s_wire' = 1..(L - 1)
  BY <1>2, Entries
<1>4. Snap!Version' = Snap!Version
  BY DEF Snap!Version
<1> HIDE DEF L
<1>5. L \in Nat /\ DOMAIN s_wire = 1..L
  BY <1>1 DEF L
<1>6. \A i \in DOMAIN s_wire' : i \in Nat /\ i + 1 \in DOMAIN s_wire /\ s_wire'[i] = s_wire[i + 1]
  BY <1>2, <1>3, <1>5
<1>7. 1 \in DOMAIN s_wire /\ s_wire[1] \in SnapNote
  BY <1>1, <1>2, <1>5
<1>8. \A i \in DOMAIN s_wire : i = 1 \/ (i - 1 \in DOMAIN s_wire' /\ s_wire'[i - 1] = s_wire[i])
  <2> SUFFICES ASSUME NEW i \in 1..L, i # 1
               PROVE  i - 1 \in 1..(L - 1) /\ s_wire'[i - 1] = s_wire[i]
    BY <1>3, <1>5
  <2>1. i - 1 \in 1..(L - 1) /\ (i - 1) + 1 = i
    BY <1>5
  <2> QED
    BY <1>2, <2>1
<1>9. ASSUME WireInv PROVE WireInv' /\ \A i \in DOMAIN s_wire' : s_wire'[i].version > s_wire[1].version
  <2>1. \A i \in DOMAIN s_wire' :
           /\ s_wire'[i].version \in DOMAIN s_docs /\ s_wire'[i].doc = s_docs[s_wire'[i].version]
           /\ s_wire'[i].base = s_wire'[i].version - 1
           /\ s_wire'[i].version > s_wire[1].version
    <3> SUFFICES ASSUME NEW i \in DOMAIN s_wire', NEW k \in DOMAIN s_wire, k = i + 1, i \in Nat,
                        s_wire'[i] = s_wire[k], i \in 1..(L - 1)
                 PROVE  /\ s_wire[k].version \in DOMAIN s_docs
                        /\ s_wire[k].doc = s_docs[s_wire[k].version]
                        /\ s_wire[k].base = s_wire[k].version - 1
                        /\ s_wire[k].version > s_wire[1].version
      BY <1>3, <1>6
    <3>1. 1 < k /\ s_wire[1].version \in Nat /\ s_wire[k].version \in Nat
      BY <1>1, <1>7 DEF SnapNote
    <3> QED
      BY <1>7, <1>9, <3>1 DEF WireInv
  <2>2. \A i, j \in DOMAIN s_wire' : i < j => s_wire'[i].version < s_wire'[j].version
    <3> SUFFICES ASSUME NEW i \in DOMAIN s_wire', NEW j \in DOMAIN s_wire', i < j
                 PROVE  s_wire'[i].version < s_wire'[j].version
      OBVIOUS
    <3>1. i + 1 < j + 1
      BY <1>6
    <3> QED
      BY <1>6, <1>9, <3>1 DEF WireInv
  <2>3. \A i \in DOMAIN s_wire', p \in Publisher : Storing(p)' => s_wire'[i].version < Snap!Version
    BY <1>6, <1>9 DEF WireInv, Storing
  <2> QED
    BY <1>4, <2>1, <2>2, <2>3 DEF WireInv
<1> QED
  BY <1>2, <1>6, <1>7, <1>8, <1>9 DEF L

LEMMA LoseKeeps ==
    ASSUME SnapInv, Snap!Lose
    PROVE  SnapInv'
<1>1. /\ s_wire # <<>> /\ s_wire' = Tail(s_wire) /\ Snap!Mishap("lost")
      /\ UNCHANGED <<s_content, s_docs, s_pub, s_worker, s_pulls>>
  BY DEF Snap!Lose
<1>2. /\ s_wire' \in Seq(SnapNote)
      /\ \A i \in DOMAIN s_wire' : i + 1 \in DOMAIN s_wire /\ s_wire'[i] = s_wire[i + 1]
      /\ WireInv => WireInv'
  BY <1>1, WireFalls
<1>3. s_worker \in SnapWorker /\ s_pulls \in Seq(SnapPull) /\ s_wire \in Seq(SnapNote)
  BY SnapTyped DEF SnapInv
<1>4. /\ Snap!TypeOK' /\ Snap!Version' = Snap!Version
      /\ \A q \in Publisher : Storing(q)' <=> Storing(q)
      /\ PublishInv => PublishInv'
      /\ \A q \in Publisher : Storing(q)' => s_pub'[q].doc \in Snap!Doc
  BY <1>1, <1>2, <1>3, VersionsStay
<1>5. ~Reached' /\ (Orderly' => Orderly) /\ (Ascending' => Ascending /\ Orderly')
  <2>1. "lost" \in s_mishaps'
    BY <1>1 DEF Snap!Mishap
  <2> QED
    BY <1>1, <2>1, MishapGrows DEF Reached, Snap!Happened
<1>6. Orderly' => OrderInv'
  <2> SUFFICES ASSUME OrderInv PROVE OrderInv'
    BY <1>5 DEF SnapInv
  <2>1. HoldsInv'
    BY <1>1 DEF OrderInv, HoldsInv
  <2>2. OffInv'
    BY <1>1 DEF OrderInv, OffInv
  <2> QED
    BY <1>2, <1>4, <2>1, <2>2 DEF OrderInv
<1>7. Ascending' => PullInv'
  <2> SUFFICES ASSUME PullInv PROVE PullInv'
    BY <1>5 DEF SnapInv
  <2> QED
    BY <1>1, <1>2, <1>4 DEF PullInv
<1> QED
  BY <1>4, <1>5, <1>6, <1>7 DEF SnapInv

(* A worker whose process has ended has nothing.                           *)
LEMMA ExitsKeep ==
    ASSUME SnapInv, Snap!Exits, UNCHANGED <<s_content, s_docs, s_pub>>,
           s_mishaps \subseteq s_mishaps'
    PROVE  SnapInv'
<1>1. s_worker' = Snap!Down /\ s_wire' = <<>> /\ s_pulls' = <<>>
  BY DEF Snap!Exits
<1>2. /\ s_worker' \in SnapWorker /\ s_worker'.pc = "down" /\ s_worker'.ver = 0
      /\ s_worker'.doc = Snap!NoDoc
  BY <1>1 DEF SnapWorker, Snap!Down
<1>3. /\ s_wire' \in Seq(SnapNote) /\ s_pulls' \in Seq(SnapPull)
      /\ DOMAIN s_wire' = {} /\ DOMAIN s_pulls' = {} /\ Len(s_pulls') = 0
  BY <1>1
<1>4. /\ Snap!TypeOK' /\ Snap!Version' = Snap!Version
      /\ \A q \in Publisher : Storing(q)' <=> Storing(q)
      /\ PublishInv => PublishInv'
      /\ \A q \in Publisher : Storing(q)' => s_pub'[q].doc \in Snap!Doc
  BY <1>2, <1>3, VersionsStay
<1>5. Orderly' => Orderly
  BY DEF Orderly, Snap!Happened
<1>6. WireInv' /\ PullInv' /\ HoldsInv' /\ OffInv' /\ ReachesInv'
  BY <1>1, <1>2, <1>3 DEF WireInv, PullInv, HoldsInv, OffInv, ReachesInv
<1> QED
  BY <1>4, <1>5, <1>6 DEF SnapInv, OrderInv

(* The entries but one.                                                    *)
LEMMA Removed ==
    ASSUME NEW S, NEW s \in Seq(S), NEW n \in DOMAIN s
    PROVE  /\ Snap!RemoveAt(s, n) \in Seq(S) /\ Len(Snap!RemoveAt(s, n)) = Len(s) - 1
           /\ \A k \in DOMAIN Snap!RemoveAt(s, n) : \E m \in DOMAIN s : Snap!RemoveAt(s, n)[k] = s[m]
<1>1. Len(s) \in Nat /\ DOMAIN s = 1..Len(s) /\ n \in 1..Len(s)
  BY Entries
<1> DEFINE L == Len(s)
           a == SubSeq(s, 1, n - 1)
           b == SubSeq(s, n + 1, L)
<1>2. /\ a \in Seq(S) /\ Len(a) = n - 1 /\ \A k \in 1..(n - 1) : a[k] = s[k]
  BY <1>1
<1>3. /\ b \in Seq(S) /\ Len(b) = L - n /\ \A k \in 1..(L - n) : b[k] = s[n + k]
  BY <1>1
<1>4. Snap!RemoveAt(s, n) = a \o b
  BY DEF Snap!RemoveAt
<1> HIDE DEF a, b
<1>5. /\ a \o b \in Seq(S) /\ Len(a \o b) = Len(a) + Len(b)
      /\ \A k \in 1..(Len(a) + Len(b)) : (a \o b)[k] = IF k <= Len(a) THEN a[k] ELSE b[k - Len(a)]
  BY <1>2, <1>3
<1> DEFINE c == a \o b
<1> HIDE DEF c, L
<1>6. /\ c \in Seq(S) /\ Len(c) = L - 1 /\ Snap!RemoveAt(s, n) = c
      /\ \A k \in 1..(L - 1) : c[k] = IF k <= n - 1 THEN a[k] ELSE b[k - (n - 1)]
  <2>1. Len(a) + Len(b) = L - 1
    BY <1>1, <1>2, <1>3 DEF L
  <2> QED
    BY <1>2, <1>4, <1>5, <2>1 DEF c
<1>8. DOMAIN c = 1..(L - 1)
  BY <1>6, Entries
<1>9. L \in Nat /\ n \in 1..L /\ DOMAIN s = 1..L
  BY <1>1 DEF L
<1>7. ASSUME NEW k \in 1..(L - 1) PROVE \E m \in DOMAIN s : c[k] = s[m]
  <2>1. CASE k <= n - 1
    <3>1. c[k] = s[k] /\ k \in DOMAIN s
      BY <1>2, <1>6, <1>9, <2>1
    <3> QED
      BY <3>1
  <2>2. CASE ~(k <= n - 1)
    <3>1. k - (n - 1) \in 1..(L - n) /\ n + (k - (n - 1)) = k + 1 /\ k + 1 \in DOMAIN s
      BY <1>9, <2>2
    <3>2. c[k] = b[k - (n - 1)]
      BY <1>6, <2>2
    <3> QED
      BY <1>3, <3>1, <3>2
  <2> QED
    BY <2>1, <2>2
<1> QED
  BY <1>6, <1>7, <1>8 DEF L

LEMMA AnswerKeeps ==
    ASSUME SnapInv, NEW n \in DOMAIN s_pulls, Snap!Answer(n)
    PROVE  SnapInv'
<1> DEFINE d == IF s_pulls[n].version \in Snap!Retained THEN s_docs[s_pulls[n].version]
                ELSE Snap!NoDoc
<1>1. /\ s_pulls' = [s_pulls EXCEPT ![n].pc = "answered", ![n].doc = d]
      /\ UNCHANGED <<s_content, s_docs, s_pub, s_wire, s_worker, s_count, s_mishaps>>
  BY DEF Snap!Answer
<1>2. /\ s_docs \in Seq(Snap!Doc) /\ DOMAIN s_docs = 1..Len(s_docs) /\ Len(s_docs) \in Nat
      /\ \A v \in DOMAIN s_docs : s_docs[v] \in Snap!Doc
      /\ s_wire \in Seq(SnapNote) /\ s_worker \in SnapWorker
      /\ s_pulls \in Seq(SnapPull) /\ Len(s_pulls) \in Nat /\ DOMAIN s_pulls = 1..Len(s_pulls)
      /\ \A m \in DOMAIN s_pulls : s_pulls[m] \in SnapPull
  BY SnapTyped DEF SnapInv
<1>3. d \in Snap!Doc \cup {Snap!NoDoc} /\ d \in {Snap!NoDoc, s_docs[s_pulls[n].version]}
  BY <1>2 DEF Snap!Retained
<1> HIDE DEF d
<1>4. /\ DOMAIN s_pulls' = DOMAIN s_pulls /\ s_pulls'[n] = [s_pulls[n] EXCEPT !.pc = "answered", !.doc = d]
      /\ \A m \in DOMAIN s_pulls : m # n => s_pulls'[m] = s_pulls[m]
  BY <1>1, <1>2
<1>5. /\ s_pulls'[n] \in SnapPull /\ s_pulls'[n].version = s_pulls[n].version
      /\ s_pulls'[n].doc = d
  <2>1. s_pulls[n] \in SnapPull
    BY <1>2
  <2> QED
    BY <1>3, <1>4, <2>1 DEF SnapPull
<1>6. s_pulls' \in Seq(SnapPull) /\ Len(s_pulls') = Len(s_pulls)
  <2>1. s_pulls' \in [1..Len(s_pulls) -> SnapPull]
    BY <1>1, <1>2, <1>4, <1>5
  <2> QED
    BY <1>2, <2>1
<1>7. /\ Snap!TypeOK' /\ Snap!Version' = Snap!Version
      /\ \A q \in Publisher : Storing(q)' <=> Storing(q)
      /\ PublishInv => PublishInv'
      /\ \A q \in Publisher : Storing(q)' => s_pub'[q].doc \in Snap!Doc
  BY <1>1, <1>2, <1>6, VersionsStay
<1>8. Orderly' = Orderly /\ Ascending' = Ascending /\ Reached' = Reached
  BY <1>1 DEF Orderly, Ascending, Reached, Snap!Happened
<1>9. \A m \in DOMAIN s_pulls : s_pulls'[m].version = s_pulls[m].version
  BY <1>4, <1>5
<1>10. OrderInv => OrderInv'
  <2> SUFFICES ASSUME OrderInv PROVE OrderInv'
    OBVIOUS
  <2>1. WireInv'
    BY <1>1, <1>7 DEF OrderInv, WireInv
  <2>2. HoldsInv'
    BY <1>1, <1>3, <1>4, <1>5 DEF OrderInv, HoldsInv
  <2>3. OffInv'
    <3>1. s_pulls # <<>>
      BY <1>2
    <3> QED
      BY <1>1, <3>1 DEF OrderInv, OffInv
  <2> QED
    BY <1>7, <2>1, <2>2, <2>3 DEF OrderInv
<1>11. PullInv => PullInv'
  BY <1>1, <1>4, <1>6, <1>7, <1>9 DEF PullInv
<1>12. ReachesInv => ReachesInv'
  BY <1>1, <1>4, <1>7, <1>9 DEF ReachesInv
<1> QED
  BY <1>7, <1>8, <1>10, <1>11, <1>12 DEF SnapInv

LEMMA ArriveKeeps ==
    ASSUME SnapInv, NEW n \in DOMAIN s_pulls, Snap!Arrive(n)
    PROVE  /\ SnapInv'
           /\ Ascending => s_worker'.pc = "down" \/ s_worker'.ver > s_worker.ver
<1>1. CASE s_pulls[n].doc = Snap!NoDoc
  <2>1. Snap!Exits /\ UNCHANGED <<s_content, s_docs, s_pub, s_count, s_mishaps>>
    BY <1>1 DEF Snap!Arrive
  <2> QED
    BY <2>1, ExitsKeep DEF Snap!Exits, Snap!Down
<1>2. CASE s_pulls[n].doc # Snap!NoDoc
  <2> DEFINE v == s_pulls[n].version
  <2>1. /\ s_worker' = [s_worker EXCEPT !.pc = "on", !.ver = v, !.doc = s_pulls[n].doc]
        /\ s_pulls' = Snap!RemoveAt(s_pulls, n)
        /\ UNCHANGED <<s_wire, s_content, s_docs, s_pub, s_count, s_mishaps>>
    BY <1>2 DEF Snap!Arrive, Snap!Full
  <2>2. /\ DOMAIN s_docs = 1..Snap!Version /\ Snap!Version \in Nat
        /\ s_wire \in Seq(SnapNote) /\ s_worker \in SnapWorker
        /\ s_pulls \in Seq(SnapPull) /\ Len(s_pulls) \in Nat /\ DOMAIN s_pulls = 1..Len(s_pulls)
        /\ \A m \in DOMAIN s_pulls : s_pulls[m] \in SnapPull
    BY SnapTyped DEF SnapInv
  <2>3. v \in Nat /\ s_pulls[n].doc \in Snap!Doc \cup {Snap!NoDoc}
    BY <2>2 DEF SnapPull
  <2>4. /\ s_worker' \in SnapWorker /\ s_worker'.pc = "on" /\ s_worker'.ver = v
        /\ s_worker'.doc = s_pulls[n].doc
    BY <2>1, <2>2, <2>3 DEF SnapWorker
  <2>5. /\ s_pulls' \in Seq(SnapPull) /\ Len(s_pulls') = Len(s_pulls) - 1
        /\ \A k \in DOMAIN s_pulls' : \E m \in DOMAIN s_pulls : s_pulls'[k] = s_pulls[m]
    <3> DEFINE rest == Snap!RemoveAt(s_pulls, n)
    <3>1. /\ rest \in Seq(SnapPull) /\ Len(rest) = Len(s_pulls) - 1
          /\ \A k \in DOMAIN rest : \E m \in DOMAIN s_pulls : rest[k] = s_pulls[m]
      BY <2>2, Removed
    <3>2. s_pulls' = rest
      BY <2>1
    <3> HIDE DEF rest
    <3> QED
      BY <3>1, <3>2
  <2>6. /\ Snap!TypeOK' /\ Snap!Version' = Snap!Version
        /\ \A q \in Publisher : Storing(q)' <=> Storing(q)
        /\ PublishInv => PublishInv'
        /\ \A q \in Publisher : Storing(q)' => s_pub'[q].doc \in Snap!Doc
    BY <2>1, <2>2, <2>4, <2>5, VersionsStay
  <2> HIDE DEF v
  <2>7. /\ Orderly' = Orderly /\ Ascending' = Ascending /\ Reached' = Reached
        /\ (Ascending => Orderly) /\ (Reached => Ascending)
    BY <2>1 DEF Orderly, Ascending, Reached, Snap!Happened
  <2>8. OrderInv => OrderInv' /\ v > 0
    <3> SUFFICES ASSUME OrderInv PROVE OrderInv' /\ v > 0
      OBVIOUS
    <3>1. WireInv'
      BY <2>1, <2>6 DEF OrderInv, WireInv
    <3>2. v \in DOMAIN s_docs /\ s_pulls[n].doc = s_docs[v]
      BY <1>2 DEF OrderInv, HoldsInv, v
    <3>3. HoldsInv'
      BY <2>1, <2>2, <2>4, <2>5, <3>2 DEF OrderInv, HoldsInv
    <3>4. OffInv'
      BY <2>2, <2>4, <3>2 DEF OffInv
    <3> QED
      BY <2>2, <2>6, <3>1, <3>2, <3>3, <3>4 DEF OrderInv
  <2>9. ASSUME Ascending PROVE PullInv' /\ v > s_worker.ver /\ Len(s_pulls') = 0 /\ n = 1
                               /\ DOMAIN s_pulls = {1}
    <3>1. PullInv
      BY <2>9 DEF SnapInv
    <3>2. Len(s_pulls) = 1
      BY <2>2, <3>1 DEF PullInv
    <3>3. v > s_worker.ver
      BY <3>1 DEF PullInv, v
    <3>4. DOMAIN s_pulls' = {}
      BY <2>5, <3>2
    <3> QED
      BY <2>2, <2>5, <3>2, <3>3, <3>4 DEF PullInv
  <2>10. ASSUME Reached PROVE ReachesInv'
    <3>1. ReachesInv /\ OrderInv /\ n = 1 /\ DOMAIN s_pulls = {1} /\ v > s_worker.ver
      BY <2>7, <2>9, <2>10 DEF SnapInv
    <3>2. s_worker.pc \in {"boot", "on"}
      <4>1. s_pulls # <<>>
        BY <2>2
      <4> QED
        BY <2>2, <3>1, <4>1 DEF OrderInv, OffInv, SnapWorker
    <3>3. CASE s_worker.ver = Snap!Version
      <4>1. v \in DOMAIN s_docs
        BY <3>1 DEF OrderInv, HoldsInv, v
      <4> QED
        BY <2>2, <3>1, <3>3, <4>1
    <3>4. CASE s_worker.ver # Snap!Version
      BY <2>1, <2>4, <2>6, <3>1, <3>2, <3>4 DEF ReachesInv, v
    <3> QED
      BY <3>3, <3>4
  <2> QED
    BY <2>4, <2>6, <2>7, <2>8, <2>9, <2>10 DEF SnapInv
<1> QED
  BY <1>1, <1>2

(* A notification that is not newer, a diff that fits, or one more pull.   *)
LEMMA HearKeeps ==
    ASSUME SnapInv, Snap!Hear
    PROVE  /\ SnapInv'
           /\ s_worker' = s_worker \/ s_worker'.ver > s_worker.ver
<1> DEFINE m == s_wire[1]
           fresh == m.version > s_worker.ver
<1>1. /\ s_wire # <<>> /\ s_wire' = Tail(s_wire) /\ UNCHANGED <<s_content, s_docs, s_pub>>
  BY DEF Snap!Hear
<1>2. /\ s_wire' \in Seq(SnapNote) /\ Head(s_wire) = m /\ 1 \in DOMAIN s_wire /\ m \in SnapNote
      /\ \A i \in DOMAIN s_wire' : i + 1 \in DOMAIN s_wire /\ s_wire'[i] = s_wire[i + 1]
      /\ \A i \in DOMAIN s_wire : i = 1 \/ (i - 1 \in DOMAIN s_wire' /\ s_wire'[i - 1] = s_wire[i])
      /\ WireInv => WireInv'
      /\ WireInv => \A i \in DOMAIN s_wire' : s_wire'[i].version > m.version
  BY <1>1, WireFalls
<1>3. /\ DOMAIN s_docs = 1..Snap!Version /\ Snap!Version \in Nat
      /\ s_worker \in SnapWorker /\ s_pulls \in Seq(SnapPull)
      /\ Len(s_pulls) \in Nat /\ DOMAIN s_pulls = 1..Len(s_pulls)
      /\ \A n \in DOMAIN s_pulls : s_pulls[n] \in SnapPull
  BY SnapTyped DEF SnapInv
<1>4. \/ ~fresh /\ UNCHANGED <<s_worker, s_pulls, s_count, s_mishaps>>
      \/ /\ fresh /\ Snap!Patches(m) /\ s_worker' = Snap!Diff(m)
         /\ UNCHANGED <<s_pulls, s_count, s_mishaps>>
      \/ fresh /\ Snap!Pulling(m.version) /\ UNCHANGED s_worker
  BY <1>2 DEF Snap!Hear, Snap!Fresh
<1>5. m.version \in Nat /\ s_worker.ver \in Nat /\ m.doc \in Snap!Doc
  BY <1>2, <1>3 DEF SnapNote, SnapWorker
<1> HIDE DEF m
<1>6. OrderInv => s_worker.pc \in {"boot", "on"}
  BY <1>1, <1>3 DEF OrderInv, OffInv, SnapWorker
<1>7. OrderInv => m.version \in DOMAIN s_docs /\ m.doc = s_docs[m.version] /\ m.version > 0
                  /\ m.base = m.version - 1
  BY <1>2, <1>3 DEF OrderInv, WireInv, m
<1>8. /\ (Ascending => Orderly) /\ (Reached => Ascending)
  BY DEF Orderly, Ascending, Reached, Snap!Happened
(* What waits for the worker, when it is not the first notification.       *)
<1>9. ASSUME OrderInv, ReachesInv
      PROVE  \/ \E p \in Publisher : Storing(p)
             \/ s_worker.ver = Snap!Version
             \/ m.version = Snap!Version
             \/ \E i \in DOMAIN s_wire' : s_wire'[i].version = Snap!Version
             \/ \E n \in DOMAIN s_pulls : s_pulls[n].version = Snap!Version
  <2>1. \A i \in DOMAIN s_wire : s_wire[i].version = Snap!Version =>
           m.version = Snap!Version \/ \E j \in DOMAIN s_wire' : s_wire'[j].version = Snap!Version
    BY <1>2 DEF m
  <2> QED
    BY <1>6, <1>9, <2>1 DEF ReachesInv
<1>10. CASE ~fresh /\ UNCHANGED <<s_worker, s_pulls, s_count, s_mishaps>>
  <2>1. /\ Snap!TypeOK' /\ Snap!Version' = Snap!Version
        /\ \A q \in Publisher : Storing(q)' <=> Storing(q)
        /\ PublishInv => PublishInv'
        /\ \A q \in Publisher : Storing(q)' => s_pub'[q].doc \in Snap!Doc
    BY <1>1, <1>2, <1>3, <1>10, VersionsStay
  <2>2. Orderly' = Orderly /\ Ascending' = Ascending /\ Reached' = Reached
    BY <1>10 DEF Orderly, Ascending, Reached, Snap!Happened
  <2>3. OrderInv => OrderInv'
    <3> SUFFICES ASSUME OrderInv PROVE OrderInv'
      OBVIOUS
    <3>1. HoldsInv'
      BY <1>1, <1>10 DEF OrderInv, HoldsInv
    <3>2. OffInv'
      BY <1>6, <1>10 DEF OrderInv, OffInv
    <3> QED
      BY <1>2, <2>1, <3>1, <3>2 DEF OrderInv
  <2>4. PullInv => PullInv'
    BY <1>1, <1>2, <1>10, <2>1 DEF PullInv
  <2>5. OrderInv /\ ReachesInv => ReachesInv'
    <3> SUFFICES ASSUME OrderInv, ReachesInv PROVE ReachesInv'
      OBVIOUS
    <3>1. m.version = Snap!Version => s_worker.ver = Snap!Version
      <4>1. s_worker.ver <= Snap!Version
        BY <1>3, <1>5 DEF OrderInv, HoldsInv
      <4> QED
        BY <1>3, <1>5, <1>10, <4>1
    <3> QED
      BY <1>6, <1>9, <1>10, <2>1, <3>1 DEF ReachesInv
  <2> QED
    BY <1>8, <1>10, <2>1, <2>2, <2>3, <2>4, <2>5 DEF SnapInv
<1>11. CASE fresh /\ Snap!Patches(m) /\ s_worker' = Snap!Diff(m)
            /\ UNCHANGED <<s_pulls, s_count, s_mishaps>>
  <2>1. /\ s_worker' \in SnapWorker /\ s_worker'.ver = m.version /\ s_worker'.doc = m.doc
        /\ s_worker'.pc = s_worker.pc
    BY <1>3, <1>5, <1>11 DEF Snap!Diff, SnapWorker
  <2>2. /\ Snap!TypeOK' /\ Snap!Version' = Snap!Version
        /\ \A q \in Publisher : Storing(q)' <=> Storing(q)
        /\ PublishInv => PublishInv'
        /\ \A q \in Publisher : Storing(q)' => s_pub'[q].doc \in Snap!Doc
    BY <1>1, <1>2, <1>3, <1>11, <2>1, VersionsStay
  <2>3. Orderly' = Orderly /\ Ascending' = Ascending /\ Reached' = Reached
    BY <1>11 DEF Orderly, Ascending, Reached, Snap!Happened
  <2>4. s_worker.ver = m.base /\ s_worker.doc # Snap!NoDoc
    BY <1>11 DEF Snap!Patches
  <2>5. ASSUME OrderInv PROVE OrderInv' /\ s_worker.pc = "on"
    <3>1. s_worker.pc = "on"
      BY <1>5, <1>6, <2>4, <2>5 DEF OrderInv, HoldsInv, OffInv
    <3>2. HoldsInv'
      BY <1>1, <1>7, <1>11, <2>1, <2>5, <3>1 DEF OrderInv, HoldsInv
    <3>3. OffInv'
      BY <1>7, <2>1, <2>5, <3>1 DEF OffInv
    <3> QED
      BY <1>2, <2>2, <2>5, <3>1, <3>2, <3>3 DEF OrderInv
  <2>6. ASSUME OrderInv, PullInv PROVE PullInv'
    <3>1. DOMAIN s_pulls = {}
      <4> SUFFICES ASSUME NEW n \in DOMAIN s_pulls PROVE FALSE
        OBVIOUS
      <4>2. s_pulls[n].version \in Nat
        BY <1>3 DEF SnapPull
      <4>3. s_pulls[n].version > s_worker.ver /\ m.version > s_pulls[n].version
        BY <1>2, <2>5, <2>6 DEF PullInv, m
      <4> QED
        BY <1>5, <1>7, <2>4, <2>6, <4>2, <4>3
    <3> QED
      BY <1>11, <2>6, <3>1 DEF PullInv
  <2>7. OrderInv /\ ReachesInv => ReachesInv'
    <3> SUFFICES ASSUME OrderInv, ReachesInv PROVE ReachesInv'
      OBVIOUS
    <3>1. s_worker.ver # Snap!Version
      BY <1>3, <1>5, <1>7, <1>11
    <3> QED
      BY <1>6, <1>9, <1>11, <2>1, <2>2, <3>1 DEF ReachesInv
  <2> QED
    BY <1>8, <1>11, <2>1, <2>2, <2>3, <2>5, <2>6, <2>7 DEF SnapInv
<1>12. CASE fresh /\ Snap!Pulling(m.version) /\ UNCHANGED s_worker
  <2>1. /\ s_pulls' \in Seq(SnapPull) /\ Len(s_pulls') = Len(s_pulls) + 1
        /\ DOMAIN s_pulls' = 1..(Len(s_pulls) + 1)
        /\ s_pulls'[Len(s_pulls) + 1] = [version |-> m.version, doc |-> Snap!NoDoc, pc |-> "asked"]
        /\ \A n \in DOMAIN s_pulls : s_pulls'[n] = s_pulls[n]
        /\ (Orderly' => Orderly) /\ (Ascending' => Ascending /\ Orderly')
        /\ Reached' => Reached /\ Ascending'
        /\ Ascending' => s_pulls = <<>>
    BY <1>5, <1>12, PullingAdds
  <2>2. /\ Snap!TypeOK' /\ Snap!Version' = Snap!Version
        /\ \A q \in Publisher : Storing(q)' <=> Storing(q)
        /\ PublishInv => PublishInv'
        /\ \A q \in Publisher : Storing(q)' => s_pub'[q].doc \in Snap!Doc
    BY <1>1, <1>2, <1>3, <1>12, <2>1, VersionsStay
  <2>3. \A n \in DOMAIN s_pulls' : \/ n \in DOMAIN s_pulls /\ s_pulls'[n] = s_pulls[n]
                                   \/ s_pulls'[n].version = m.version /\ s_pulls'[n].doc = Snap!NoDoc
    BY <1>3, <2>1
  <2>4. ASSUME OrderInv PROVE OrderInv'
    <3>1. HoldsInv'
      BY <1>1, <1>7, <1>12, <2>3, <2>4 DEF OrderInv, HoldsInv
    <3>2. OffInv'
      BY <1>6, <1>12, <2>4 DEF OrderInv, OffInv
    <3> QED
      BY <1>2, <2>2, <2>4, <3>1, <3>2 DEF OrderInv
  <2>5. ASSUME Ascending' PROVE PullInv'
    <3>1. OrderInv /\ s_pulls = <<>> /\ Len(s_pulls) = 0 /\ DOMAIN s_pulls = {}
      BY <1>3, <2>1, <2>5 DEF SnapInv
    <3>2. \A n \in DOMAIN s_pulls' : s_pulls'[n].version = m.version
      BY <2>3, <3>1
    <3>3. \A p \in Publisher : Storing(p) => Snap!Version > m.version
      BY <1>2, <1>3, <1>5, <3>1 DEF OrderInv, WireInv, m
    <3> QED
      BY <1>2, <1>12, <2>1, <2>2, <3>1, <3>2, <3>3 DEF PullInv, OrderInv
  <2>6. ASSUME OrderInv, ReachesInv PROVE ReachesInv'
    <3>1. Len(s_pulls) + 1 \in DOMAIN s_pulls' /\ s_pulls'[Len(s_pulls) + 1].version = m.version
      BY <1>3, <2>1
    <3>2. \A n \in DOMAIN s_pulls : n \in DOMAIN s_pulls' /\ s_pulls'[n] = s_pulls[n]
      BY <1>3, <2>1
    <3> QED
      BY <1>6, <1>9, <1>12, <2>2, <2>6, <3>1, <3>2 DEF ReachesInv
  <2> QED
    BY <1>8, <1>12, <2>1, <2>2, <2>4, <2>5, <2>6 DEF SnapInv
<1> QED
  BY <1>4, <1>10, <1>11, <1>12

LEMMA SnapStarts ==
    ASSUME Snap!Init
    PROVE  SnapInv
<1>1. /\ s_content = 1 /\ s_docs = <<>> /\ s_wire = <<>> /\ s_worker = Snap!Down /\ s_pulls = <<>>
      /\ s_pub = [p \in Publisher |-> Snap!NoPublish]
  BY DEF Snap!Init
<1>2. Snap!TypeOK
  <2>1. /\ s_docs \in Seq(Snap!Doc) /\ s_wire \in Seq(SnapNote) /\ s_pulls \in Seq(SnapPull)
        /\ s_content \in Snap!Doc
    BY <1>1 DEF Snap!Doc
  <2>2. s_worker \in SnapWorker /\ s_pub \in [Publisher -> SnapPub]
    BY <1>1 DEF SnapWorker, SnapPub, Snap!Down, Snap!NoPublish
  <2> QED
    BY <2>1, <2>2, SnapType
<1>3. \A p \in Publisher : ~Storing(p)
  BY <1>1 DEF Storing, Snap!NoPublish
<1>4. /\ s_worker.pc = "down" /\ s_worker.ver = 0 /\ s_worker.doc = Snap!NoDoc
      /\ DOMAIN s_wire = {} /\ DOMAIN s_pulls = {} /\ Len(s_pulls) = 0
  BY <1>1 DEF Snap!Down
<1>5. PublishInv /\ WireInv /\ HoldsInv /\ OffInv /\ PullInv /\ ReachesInv
  BY <1>1, <1>3, <1>4 DEF PublishInv, WireInv, HoldsInv, OffInv, PullInv, ReachesInv
<1> QED
  BY <1>2, <1>3, <1>5 DEF SnapInv, OrderInv

(* Every step; the third fact is the one VersionsAscend is about.          *)
LEMMA SnapInductive ==
    ASSUME SnapInv, [Snap!Next]_(Snap!vars)
    PROVE  /\ SnapInv'
           /\ Ascending => \/ s_worker' = s_worker
                           \/ s_worker.pc = "down" \/ s_worker'.pc = "down"
                            \/ s_worker'.ver >= s_worker.ver
<1> DEFINE Ascends == \/ s_worker' = s_worker
                      \/ s_worker.pc = "down" \/ s_worker'.pc = "down"
                      \/ s_worker'.ver >= s_worker.ver
<1>0. s_worker \in SnapWorker /\ (SnapInv' => s_worker' \in SnapWorker)
  <2>1. s_worker \in SnapWorker
    BY SnapTyped DEF SnapInv
  <2>2. SnapInv' => s_worker' \in SnapWorker
    BY DEF SnapInv, Snap!TypeOK, SnapWorker
  <2> QED
    BY <2>1, <2>2
<1>1. CASE Snap!Edit
  <2>1. /\ UNCHANGED <<s_docs, s_pub, s_wire, s_worker, s_pulls>> /\ s_content' \in Snap!Doc
        /\ s_mishaps' = s_mishaps
    BY <1>1 DEF Snap!Edit
  <2> QED
    BY <2>1, SnapSame
<1>2. CASE Snap!Restart
  BY <1>2, RestartsKeeps DEF Snap!Restart
<1>3. CASE Snap!Register
  BY <1>3, RegisterSnapKeeps DEF Snap!Register
<1>4. CASE Snap!Subscribe
  <2>1. s_worker'.ver = s_worker.ver /\ s_worker.ver \in Nat
    BY <1>0, <1>4 DEF Snap!Subscribe, SnapWorker
  <2> QED
    BY <1>4, <2>1, SubscribeKeeps
<1>5. CASE Snap!Hear
  <2>1. SnapInv' /\ (s_worker' = s_worker \/ s_worker'.ver > s_worker.ver)
    BY <1>5, HearKeeps
  <2>2. s_worker'.ver \in Nat /\ s_worker.ver \in Nat
    BY <1>0, <2>1 DEF SnapWorker
  <2> QED
    BY <2>1, <2>2
<1>6. CASE Snap!Lose
  BY <1>6, LoseKeeps DEF Snap!Lose
<1>7. CASE Snap!Exit
  <2>1. Snap!Exits /\ UNCHANGED <<s_content, s_docs, s_pub>> /\ s_mishaps \subseteq s_mishaps'
    BY <1>7 DEF Snap!Exit, Snap!Mishap
  <2> QED
    BY <2>1, ExitsKeep DEF Snap!Exits, Snap!Down
<1>8. ASSUME NEW p \in Publisher, Snap!Publish(p) \/ Snap!Notify(p) \/ Snap!PublishFails(p)
      PROVE  SnapInv' /\ Ascends
  <2>1. s_worker' = s_worker
    BY <1>8 DEF Snap!Publish, Snap!Notify, Snap!PublishFails
  <2> QED
    BY <1>8, <2>1, PublishKeeps, NotifyKeeps, PublishFailsKeeps
<1>9. ASSUME NEW n \in DOMAIN s_pulls, Snap!Answer(n) PROVE SnapInv' /\ Ascends
  BY <1>9, AnswerKeeps DEF Snap!Answer
<1>10. ASSUME NEW n \in DOMAIN s_pulls, Snap!Arrive(n) PROVE SnapInv' /\ (Ascending => Ascends)
  <2>1. SnapInv' /\ (Ascending => s_worker'.pc = "down" \/ s_worker'.ver > s_worker.ver)
    BY <1>10, ArriveKeeps
  <2>2. s_worker'.ver \in Nat /\ s_worker.ver \in Nat
    BY <1>0, <2>1 DEF SnapWorker
  <2> QED
    BY <2>1, <2>2
<1>11. CASE UNCHANGED Snap!vars
  <2>1. s_content \in Snap!Doc
    BY DEF SnapInv, Snap!TypeOK
  <2> QED
    BY <1>11, <2>1, SnapSame DEF Snap!vars
<1> QED
  BY <1>1, <1>2, <1>3, <1>4, <1>5, <1>6, <1>7, <1>8, <1>9, <1>10, <1>11 DEF Snap!Next

LEMMA SnapMeans ==
    ASSUME SnapInv
    PROVE  Snap!TypeOK /\ Snap!VersionIsDocument /\ Snap!WorkerIsCurrent
<1>1. /\ DOMAIN s_docs = 1..Snap!Version /\ Snap!Version \in Nat /\ s_worker \in SnapWorker
  BY SnapTyped DEF SnapInv
<1>2. Reached => Orderly
  BY DEF Reached, Orderly, Snap!Happened
<1>3. Snap!VersionIsDocument
  BY DEF Snap!VersionIsDocument, SnapInv, OrderInv, HoldsInv, Orderly
<1>4. Snap!WorkerIsCurrent
  <2> SUFFICES ASSUME s_worker.pc = "on", s_wire = <<>>, s_pulls = <<>>,
                      \A p \in Publisher : s_pub[p].pc = "idle", Reached
               PROVE  s_worker.ver = Snap!Version /\ s_worker.doc = s_docs[Snap!Version]
    BY DEF Snap!WorkerIsCurrent, Reached
  <2>1. ReachesInv /\ HoldsInv /\ OffInv
    BY <1>2 DEF SnapInv, OrderInv
  <2>2. s_worker.ver = Snap!Version
    BY <2>1 DEF ReachesInv, Storing
  <2>3. s_worker.ver # 0
    BY <2>1 DEF OffInv
  <2> QED
    BY <1>1, <2>1, <2>2, <2>3 DEF HoldsInv
<1> QED
  BY <1>3, <1>4 DEF SnapInv

(* In every behaviour of the services a worker has the document of its     *)
(* version and at rest the latest one, and its version does not go back.   *)
THEOREM SnapshotsStayTrue == SvcSpec => SnapshotsAreTrue
<1>1. SvcSpec => Snap!Spec
  BY Each
<1>2. Snap!Spec => []SnapInv
  BY SnapStarts, SnapInductive, PTL DEF Snap!Spec
<1>3. SnapInv => (which = "snapshots" => Snap!TypeOK /\ Snap!VersionIsDocument /\ Snap!WorkerIsCurrent)
  BY SnapMeans
<1>4. SnapInv /\ [Snap!Next]_(Snap!vars)
         => [s_worker'.pc # "down" /\ s_worker.pc # "down"
                /\ ~Snap!Happened({"pulls", "overlap", "restart"})
             => s_worker'.ver >= s_worker.ver]_s_worker
  BY SnapInductive DEF Ascending
<1> QED
  BY <1>1, <1>2, <1>3, <1>4, PTL DEF SnapshotsAreTrue, Snap!VersionsAscend, Snap!Spec

--------------------------------------------------------------------------------
(* The queries.                                                            *)

(* The shapes of what the queries keep.                                    *)
RpcReq == [to : Worker, pc : {"sent", "read", "over"}, has : BOOLEAN]
RpcAnswer == [id : Nat, ok : BOOLEAN, has : BOOLEAN]
RpcQuery == [kind : {"none", "get", "list"},
             pc : {"idle", "done", "owner", "index", "probe", "scatter"},
             asked : SUBSET Worker, todo : SUBSET Worker, open : SUBSET Nat,
             found : BOOLEAN, partial : BOOLEAN, fresh : BOOLEAN]

RpcType ==
    /\ q_holder \in {Home, Rpc!Nobody} /\ q_indexed \in {Home, Rpc!Nobody}
    /\ q_reqs \in Seq(RpcReq) /\ q_wire \subseteq RpcAnswer /\ q_query \in RpcQuery

AnswersOver == \A w \in q_wire : w.id \in DOMAIN q_reqs /\ q_reqs[w.id].pc = "over"

(* The query waits for what the client waits for; an answer is on its way  *)
(* for a request that is over.                                             *)
WaitInv ==
    /\ q_query.open = q_pending /\ q_pending \subseteq DOMAIN q_reqs
    /\ Rpc!Running <=> q_query.open # {}
    /\ q_query.pc # "scatter" => \A i, j \in q_query.open : i = j
    /\ AnswersOver
    /\ q_query.pc = "index" => \A i \in q_query.open : q_reqs[i].to = Home

(* What was read for query q is as it was read, and a worker that has the  *)
(* record is asked, or is to be, or has been asked in vain.                *)
Consistent(q, todo) ==
    ~q.fresh =>
      /\ \A i \in q.open : q_reqs[i].pc = "read" => q_reqs[i].has = (q_holder = q_reqs[i].to)
      /\ \A w \in q_wire : w.id \in q.open /\ w.ok => w.has = (q_holder = q_reqs[w.id].to)
      /\ q.pc = "scatter" /\ ~q.found /\ ~q.partial /\ q_holder \in q.asked =>
            q_holder \in todo \/ \E i \in q.open : q_reqs[i].to = q_holder

TruthInv == Consistent(q_query, q_query.todo)

RpcInv == RpcType /\ WaitInv /\ TruthInv

LEMMA RpcTyped ==
    ASSUME RpcType
    PROVE  /\ q_reqs \in Seq(RpcReq) /\ Len(q_reqs) \in Nat /\ DOMAIN q_reqs = 1..Len(q_reqs)
           /\ \A i \in DOMAIN q_reqs : q_reqs[i] \in RpcReq
           /\ q_wire \subseteq RpcAnswer /\ q_query \in RpcQuery
<1>1. q_reqs \in Seq(RpcReq) /\ q_wire \subseteq RpcAnswer /\ q_query \in RpcQuery
  BY DEF RpcType
<1> QED
  BY <1>1

LEMMA SameRpcCardinality == \A S : Rpc!Cardinality(S) = Cardinality(S)
  BY DEF Rpc!Cardinality, Cardinality

(* Every member of a set is at a place of its own in the list of them.     *)
LEMMA Listing ==
    ASSUME NEW S, IsFiniteSet(S)
    PROVE  /\ Cardinality(S) \in Nat /\ Rpc!SetToSeq(S) \in [1..Cardinality(S) -> S]
           /\ \A m \in S : \E k \in 1..Cardinality(S) : Rpc!SetToSeq(S)[k] = m
<1> DEFINE n == Cardinality(S)
           f == Rpc!SetToSeq(S)
<1>1. n \in Nat /\ ExistsBijection(1..n, S)
  BY FS_CardinalityType
<1>2. \E g \in [1..n -> S] : Rpc!IsInjective(g)
  BY <1>1 DEF ExistsBijection, Bijection, Injection, IsInjective, Rpc!IsInjective
<1>3. f = CHOOSE g \in [1..n -> S] : Rpc!IsInjective(g)
  BY SameRpcCardinality DEF Rpc!SetToSeq
<1>4. f \in [1..n -> S] /\ Rpc!IsInjective(f)
  BY <1>2, <1>3
<1> HIDE DEF f
<1>5. f \in Injection(1..n, S)
  BY <1>4 DEF Rpc!IsInjective, Injection, IsInjective
<1>6. IsFiniteSet(1..n) /\ Cardinality(1..n) = n
  <2>1. 1 \in Int /\ n \in Int /\ (1 > n => n = 0) /\ n - 1 + 1 = n
    BY <1>1
  <2> QED
    BY <2>1, FS_Interval
<1>7. f \in Surjection(1..n, S)
  BY <1>5, <1>6, FS_Injection
<1> QED
  BY <1>1, <1>4, <1>7 DEF Surjection, f

(* The requests ids are made, one to each worker of S.                     *)
Added(q, S, T, waiting, ids) ==
    /\ q_reqs' \in Seq(RpcReq)
    /\ DOMAIN q_reqs' = DOMAIN q_reqs \cup ids /\ DOMAIN q_reqs \cap ids = {}
    /\ \A i \in DOMAIN q_reqs : q_reqs'[i] = q_reqs[i]
    /\ \A i \in ids : q_reqs'[i].to \in S /\ q_reqs'[i].pc = "sent"
    /\ \A m \in S : \E i \in ids : q_reqs'[i].to = m
    /\ S # {} => ids # {}
    /\ (\E m : S = {m}) => \A i, j \in ids : i = j
    /\ q_pending' = waiting \cup ids
    /\ q_query' = [q EXCEPT !.todo = T, !.open = @ \cup ids]

LEMMA AskingAdds ==
    ASSUME RpcType, NEW q, NEW S \in SUBSET Worker, NEW T, NEW waiting,
           Rpc!Asking(q, S, T, waiting)
    PROVE  \E ids \in SUBSET Nat : Added(q, S, T, waiting, ids)
<1> DEFINE n == Len(q_reqs)
           c == Cardinality(S)
           f == Rpc!SetToSeq(S)
           g == [k \in 1..c |-> [to |-> f[k], pc |-> "sent", has |-> FALSE]]
           ids == (n + 1)..(n + c)
<1>1. IsFiniteSet(S)
  BY RpcAssumption, FS_Subset
<1>2. c \in Nat /\ f \in [1..c -> S] /\ \A m \in S : \E k \in 1..c : f[k] = m
  BY <1>1, Listing
<1>3. /\ q_reqs' = q_reqs \o g /\ q_pending' = waiting \cup ids
      /\ q_query' = [q EXCEPT !.todo = T, !.open = @ \cup ids]
  BY SameRpcCardinality DEF Rpc!Asking
<1>4. q_reqs \in Seq(RpcReq) /\ n \in Nat /\ DOMAIN q_reqs = 1..n
  BY RpcTyped
<1> HIDE DEF n, c, f
<1>5. /\ g \in Seq(RpcReq) /\ Len(g) = c
      /\ \A k \in 1..c : g[k].to = f[k] /\ g[k].pc = "sent"
  <2>1. \A k \in 1..c : f[k] \in Worker /\ g[k] = [to |-> f[k], pc |-> "sent", has |-> FALSE]
    BY <1>2
  <2>2. \A k \in 1..c : g[k] \in RpcReq
    BY <2>1 DEF RpcReq
  <2>3. g \in [1..c -> RpcReq]
    BY <2>2
  <2> HIDE DEF g
  <2>4. g \in Seq(RpcReq) /\ Len(g) = c
    BY <1>2, <2>3
  <2> QED
    BY <2>1, <2>4
<1> HIDE DEF g
<1>6. /\ q_reqs' \in Seq(RpcReq) /\ Len(q_reqs') = n + c
      /\ \A i \in 1..n : q_reqs'[i] = q_reqs[i]
      /\ \A i \in (n + 1)..(n + c) : q_reqs'[i] = g[i - n]
  <2> DEFINE r == q_reqs
  <2>1. Len(r) = n /\ r \in Seq(RpcReq) /\ g \in Seq(RpcReq) /\ Len(g) = c
    BY <1>4, <1>5 DEF n
  <2> HIDE DEF r
  <2>2. /\ r \o g \in Seq(RpcReq) /\ Len(r \o g) = Len(r) + Len(g)
        /\ \A i \in 1..(Len(r) + Len(g)) : (r \o g)[i] = IF i <= Len(r) THEN r[i] ELSE g[i - Len(r)]
    BY <2>1
  <2>3. \A i \in 1..n : (r \o g)[i] = r[i]
    BY <1>2, <1>4, <2>1, <2>2
  <2>4. \A i \in (n + 1)..(n + c) : (r \o g)[i] = g[i - n]
    BY <1>2, <1>4, <2>1, <2>2
  <2> QED
    BY <1>3, <2>1, <2>2, <2>3, <2>4 DEF r
<1>7. DOMAIN q_reqs' = 1..(n + c)
  BY <1>2, <1>4, <1>6, Entries
<1>8. DOMAIN q_reqs' = DOMAIN q_reqs \cup ids /\ DOMAIN q_reqs \cap ids = {} /\ ids \in SUBSET Nat
  BY <1>2, <1>4, <1>7
<1>9. \A i \in ids : i - n \in 1..c /\ q_reqs'[i].to = f[i - n] /\ q_reqs'[i].pc = "sent"
  BY <1>2, <1>4, <1>5, <1>6
<1>10. \A k \in 1..c : n + k \in ids /\ q_reqs'[n + k].to = f[k]
  <2> SUFFICES ASSUME NEW k \in 1..c PROVE n + k \in ids /\ q_reqs'[n + k].to = f[k]
    OBVIOUS
  <2>1. n + k \in ids /\ (n + k) - n = k
    BY <1>2, <1>4
  <2> QED
    BY <1>9, <2>1
<1>11. \A i \in ids : q_reqs'[i].to \in S /\ q_reqs'[i].pc = "sent"
  BY <1>2, <1>9
<1>12. \A m \in S : \E i \in ids : q_reqs'[i].to = m
  <2> SUFFICES ASSUME NEW m \in S PROVE \E i \in ids : q_reqs'[i].to = m
    OBVIOUS
  <2>1. PICK k \in 1..c : f[k] = m
    BY <1>2
  <2> QED
    BY <1>10, <2>1
<1>13. (\E m : S = {m}) => \A i, j \in ids : i = j
  <2> SUFFICES ASSUME NEW m, S = {m} PROVE \A i, j \in ids : i = j
    OBVIOUS
  <2>1. c = 1
    BY FS_Singleton DEF c
  <2> QED
    BY <1>4, <2>1
<1> HIDE DEF ids
<1>14. S # {} => ids # {}
  BY <1>12
<1>15. \A i \in DOMAIN q_reqs : q_reqs'[i] = q_reqs[i]
  BY <1>4, <1>6
<1>16. q_reqs' \in Seq(RpcReq)
  BY <1>6
<1> QED
  BY <1>3, <1>8, <1>11, <1>12, <1>13, <1>14, <1>15, <1>16 DEF Added

LEMMA AskingKeeps ==
    ASSUME RpcType, AnswersOver, NEW q \in RpcQuery, NEW S \in SUBSET Worker, S # {},
           NEW T \in SUBSET Worker, q.open \subseteq DOMAIN q_reqs,
           q.pc \in {"owner", "index", "probe", "scatter"},
           q.pc # "scatter" => q.open = {} /\ \E m : S = {m},
           q.pc = "index" => S = {Home},
           Consistent(q, S \cup T), Rpc!Asking(q, S, T, q.open),
           q_wire' \subseteq q_wire, UNCHANGED <<q_holder, q_indexed>>
    PROVE  RpcInv' /\ q_query'.pc = q.pc
<1>1. PICK ids \in SUBSET Nat :
             /\ q_reqs' \in Seq(RpcReq)
             /\ DOMAIN q_reqs' = DOMAIN q_reqs \cup ids /\ DOMAIN q_reqs \cap ids = {}
             /\ \A i \in DOMAIN q_reqs : q_reqs'[i] = q_reqs[i]
             /\ \A i \in ids : q_reqs'[i].to \in S /\ q_reqs'[i].pc = "sent"
             /\ \A m \in S : \E i \in ids : q_reqs'[i].to = m
             /\ S # {} => ids # {}
             /\ (\E m : S = {m}) => \A i, j \in ids : i = j
             /\ q_pending' = q.open \cup ids
             /\ q_query' = [q EXCEPT !.todo = T, !.open = @ \cup ids]
  <2>1. \E ids \in SUBSET Nat : Added(q, S, T, q.open, ids)
    BY AskingAdds
  <2> QED
    BY <2>1 DEF Added
<1>2. /\ q_query' \in RpcQuery /\ q_query'.pc = q.pc /\ q_query'.todo = T
      /\ q_query'.open = q.open \cup ids /\ q_query'.asked = q.asked /\ q_query'.found = q.found
      /\ q_query'.partial = q.partial /\ q_query'.fresh = q.fresh
  <2>1. q.open \in SUBSET Nat
    BY DEF RpcQuery
  <2> QED
    BY <1>1, <2>1 DEF RpcQuery
<1>3. RpcType'
  BY <1>1, <1>2 DEF RpcType
<1>4. AnswersOver'
  BY <1>1 DEF AnswersOver
<1>5. WaitInv'
  <2>1. q_query'.open = q_pending' /\ q_pending' \subseteq DOMAIN q_reqs'
    BY <1>1, <1>2
  <2>2. Rpc!Running' /\ q_query'.open # {}
    BY <1>1, <1>2 DEF Rpc!Running
  <2>3. q_query'.pc # "scatter" => \A i, j \in q_query'.open : i = j
    BY <1>1, <1>2
  <2>4. q_query'.pc = "index" => \A i \in q_query'.open : q_reqs'[i].to = Home
    BY <1>1, <1>2
  <2> QED
    BY <1>4, <2>1, <2>2, <2>3, <2>4 DEF WaitInv
<1>6. TruthInv'
  <2> SUFFICES ASSUME ~q.fresh
               PROVE  /\ \A i \in q_query'.open : q_reqs'[i].pc = "read"
                                       => q_reqs'[i].has = (q_holder = q_reqs'[i].to)
                      /\ \A w \in q_wire' : w.id \in q_query'.open /\ w.ok
                                       => w.has = (q_holder = q_reqs'[w.id].to)
                      /\ q.pc = "scatter" /\ ~q.found /\ ~q.partial /\ q_holder \in q.asked =>
                            q_holder \in T \/ \E i \in q_query'.open : q_reqs'[i].to = q_holder
    BY <1>2 DEF TruthInv, Consistent
  <2>1. \A i \in q_query'.open : q_reqs'[i].pc = "read"
                                       => q_reqs'[i].has = (q_holder = q_reqs'[i].to)
    BY <1>1, <1>2 DEF Consistent
  <2>2. \A w \in q_wire' : w.id \in q_query'.open /\ w.ok => w.has = (q_holder = q_reqs'[w.id].to)
    BY <1>1, <1>2 DEF Consistent, AnswersOver
  <2>3. ASSUME q.pc = "scatter", ~q.found, ~q.partial, q_holder \in q.asked
        PROVE  q_holder \in T \/ \E i \in q_query'.open : q_reqs'[i].to = q_holder
    <3>1. q_holder \in S \/ q_holder \in T \/ \E i \in q.open : q_reqs[i].to = q_holder
      BY <2>3 DEF Consistent
    <3> QED
      BY <1>1, <1>2, <3>1
  <2> QED
    BY <2>1, <2>2, <2>3
<1> QED
  BY <1>2, <1>3, <1>5, <1>6 DEF RpcInv

LEMMA NoQueryIs ==
    /\ Rpc!NoQuery \in RpcQuery /\ Rpc!NoQuery.open = {} /\ Rpc!NoQuery.pc = "idle"
    /\ Rpc!NoQuery.todo = {} /\ Rpc!NoQuery.asked = {}
BY DEF Rpc!NoQuery, RpcQuery

LEMMA EndsKeep ==
    ASSUME RpcType, AnswersOver, NEW q, NEW found \in BOOLEAN, NEW partial \in BOOLEAN,
           Rpc!Ends(q, found, partial, {}), q_wire' \subseteq q_wire,
           UNCHANGED <<q_holder, q_indexed>>
    PROVE  RpcInv' /\ q_query'.pc = "done" /\ q_query'.found = found /\ q_query'.partial = partial
<1>1. /\ q_query' = [Rpc!NoQuery EXCEPT !.pc = "done", !.found = found, !.partial = partial]
      /\ q_pending' = {} /\ UNCHANGED q_reqs
  BY DEF Rpc!Ends
<1>2. /\ q_query' \in RpcQuery /\ q_query'.open = {} /\ q_query'.pc = "done"
      /\ q_query'.found = found /\ q_query'.partial = partial
  BY <1>1 DEF Rpc!NoQuery, RpcQuery
<1>3. RpcType' /\ AnswersOver'
  BY <1>1, <1>2 DEF RpcType, AnswersOver
<1>4. WaitInv'
  BY <1>1, <1>2, <1>3 DEF WaitInv, Rpc!Running
<1>5. TruthInv'
  BY <1>1, <1>2 DEF TruthInv, Consistent
<1> QED
  BY <1>2, <1>3, <1>4, <1>5 DEF RpcInv

LEMMA ScatterKeeps ==
    ASSUME RpcType, AnswersOver, NEW q \in RpcQuery, q.open = {}, Rpc!Scatter(q, {}),
           q_wire' \subseteq q_wire, UNCHANGED <<q_holder, q_indexed>>
    PROVE  RpcInv' /\ (q_query'.pc = "done" => q.asked = {})
<1>1. CASE q.asked = {}
  <2>1. Rpc!Ends(q, FALSE, FALSE, {})
    BY <1>1 DEF Rpc!Scatter
  <2> QED
    BY <1>1, <2>1, EndsKeep
<1>2. CASE q.asked # {}
  <2> DEFINE sq == [q EXCEPT !.pc = "scatter"]
  <2>1. PICK T \in SUBSET q.asked :
           /\ Rpc!Cardinality(T) = Rpc!Min({Concurrency, Rpc!Cardinality(q.asked)})
           /\ Rpc!Asking(sq, T, q.asked \ T, {})
    BY <1>2 DEF Rpc!Scatter
  <2>2. q.asked \in SUBSET Worker
    BY DEF RpcQuery
  <2>3. T # {}
    <3> DEFINE k == Cardinality(q.asked)
    <3>1. IsFiniteSet(q.asked)
      BY <2>2, RpcAssumption, FS_Subset
    <3>2. k \in Nat /\ k # 0
      BY <1>2, <3>1, FS_CardinalityType, FS_EmptySet
    <3>3. Cardinality(T) = Rpc!Min({Concurrency, k})
      BY <2>1, SameRpcCardinality
    <3> HIDE DEF k
    <3>4. Rpc!Min({Concurrency, k}) \in {Concurrency, k}
      <4>1. \E x \in {Concurrency, k} : \A y \in {Concurrency, k} : x =< y
        BY <3>2, RpcAssumption
      <4> QED
        BY <4>1 DEF Rpc!Min
    <3> QED
      BY <3>2, <3>3, <3>4, RpcAssumption, FS_EmptySet
  <2>4. /\ sq \in RpcQuery /\ sq.pc = "scatter" /\ sq.open = {} /\ sq.asked = q.asked
    BY DEF RpcQuery
  <2> HIDE DEF sq
  <2>5. Consistent(sq, T \cup (q.asked \ T))
    BY <2>4 DEF Consistent
  <2>6. T \in SUBSET Worker /\ q.asked \ T \in SUBSET Worker
    BY <2>1, <2>2
  <2>7. sq.open \subseteq DOMAIN q_reqs /\ Rpc!Asking(sq, T, q.asked \ T, sq.open)
    BY <2>1, <2>4
  <2>8. RpcInv' /\ q_query'.pc = sq.pc
    BY <2>3, <2>4, <2>5, <2>6, <2>7, AskingKeeps
  <2> QED
    BY <2>4, <2>8
<1> QED
  BY <1>1, <1>2

(* One worker is asked.                                                    *)
LEMMA OneAsked ==
    ASSUME RpcType, AnswersOver, NEW q \in RpcQuery, q.open = {}, NEW m \in Worker,
           q.pc \in {"owner", "index", "probe"}, q.pc = "index" => m = Home,
           Rpc!Asking(q, {m}, {}, {}), q_wire' \subseteq q_wire,
           UNCHANGED <<q_holder, q_indexed>>
    PROVE  RpcInv' /\ q_query'.pc = q.pc
<1>1. Consistent(q, {m} \cup {})
  BY DEF Consistent
<1>2. q.open \subseteq DOMAIN q_reqs /\ Rpc!Asking(q, {m}, {}, q.open)
  BY DEF Consistent
<1>3. {m} \in SUBSET Worker /\ {m} # {} /\ {} \in SUBSET Worker /\ \E k : {m} = {k}
  OBVIOUS
<1> QED
  BY <1>1, <1>2, <1>3, AskingKeeps

LEMMA ProbeKeeps ==
    ASSUME RpcType, AnswersOver, NEW q \in RpcQuery, q.open = {}, Rpc!Probe(q, {}),
           q_wire' \subseteq q_wire, UNCHANGED <<q_holder, q_indexed>>
    PROVE  RpcInv' /\ (q_query'.pc = "done" => q.asked = {})
<1>1. CASE q.asked = {}
  BY <1>1, ScatterKeeps DEF Rpc!Probe
<1>2. CASE q.asked # {}
  <2> DEFINE pq == [q EXCEPT !.pc = "probe"]
  <2>1. PICK m \in q.asked : Rpc!Asking(pq, {m}, {}, {})
    BY <1>2 DEF Rpc!Probe
  <2>2. pq \in RpcQuery /\ pq.pc = "probe" /\ pq.open = {} /\ m \in Worker
    BY DEF RpcQuery
  <2> HIDE DEF pq
  <2>3. RpcInv' /\ q_query'.pc = pq.pc
    BY <2>1, <2>2, OneAsked
  <2> QED
    BY <2>2, <2>3
<1> QED
  BY <1>1, <1>2

QueryMisses ==
    /\ q_query'.pc = "done" /\ q_query.pc \in {"index", "probe", "scatter"}
    /\ q_query.kind = "get" /\ ~q_query'.found /\ ~q_query'.partial /\ ~q_query.fresh

(* A request that ends, well or not, and what the query does then.         *)
LEMMA ContinueKeeps ==
    ASSUME RpcInv, NEW i \in q_pending, NEW r \in [ok : BOOLEAN, has : BOOLEAN],
           r.ok /\ ~q_query.fresh => r.has = (q_holder = q_reqs[i].to),
           Rpc!Continue(i, r), q_wire' \subseteq q_wire,
           UNCHANGED <<q_holder, q_indexed>>
    PROVE  RpcInv' /\ (QueryMisses => q_holder \notin q_query.asked)
<1> DEFINE iq == [q_query EXCEPT !.open = @ \ {i}]
           s == Rpc!Scattered(iq, r)
           waiting == q_pending \ {i}
<1>1. /\ RpcType /\ AnswersOver /\ q_query \in RpcQuery /\ q_query.open = q_pending
      /\ q_pending \subseteq DOMAIN q_reqs /\ DOMAIN q_reqs = 1..Len(q_reqs)
      /\ q_query.pc # "scatter" => \A k, l \in q_query.open : k = l
      /\ q_query.pc = "index" => \A k \in q_query.open : q_reqs[k].to = Home
      /\ Consistent(q_query, q_query.todo)
  BY RpcTyped DEF RpcInv, WaitInv, TruthInv
<1>2. /\ iq \in RpcQuery /\ iq.open = waiting /\ iq.pc = q_query.pc /\ iq.kind = q_query.kind
      /\ iq.asked = q_query.asked /\ iq.todo = q_query.todo /\ iq.fresh = q_query.fresh
      /\ iq.found = q_query.found /\ iq.partial = q_query.partial
  BY <1>1 DEF RpcQuery
<1>3. /\ s \in RpcQuery /\ s.open = waiting /\ s.pc = q_query.pc
      /\ s.asked = q_query.asked /\ s.todo = q_query.todo /\ s.fresh = q_query.fresh
      /\ s.found = (q_query.found \/ r.has) /\ s.partial = (q_query.partial \/ ~r.ok)
  <2> HIDE DEF iq
  <2> QED
    BY <1>2 DEF Rpc!Scattered, RpcQuery
<1>4. \/ iq.pc = "owner" /\ Rpc!Ends(iq, r.has, ~r.ok, waiting)
      \/ iq.pc = "index" /\ iq.kind = "list" /\ Rpc!Ends(iq, r.has, ~r.has, waiting)
      \/ iq.pc = "index" /\ iq.kind = "get" /\ r.ok /\ Rpc!Ends(iq, r.has, FALSE, waiting)
      \/ iq.pc = "index" /\ iq.kind = "get" /\ ~r.ok /\ Rpc!Probe(iq, waiting)
      \/ iq.pc = "probe" /\ r.has /\ Rpc!Ends(iq, TRUE, FALSE, waiting)
      \/ iq.pc = "probe" /\ ~r.has /\ Rpc!Scatter(iq, waiting)
      \/ /\ iq.pc = "scatter"
         /\ \E m \in s.todo : Rpc!Asking(s, {m}, s.todo \ {m}, waiting)
      \/ /\ iq.pc = "scatter" /\ s.todo = {} /\ s.open # {}
         /\ q_query' = s /\ q_pending' = waiting /\ UNCHANGED q_reqs
      \/ /\ iq.pc = "scatter" /\ s.todo = {} /\ s.open = {}
         /\ Rpc!Ends(s, s.found, s.partial, waiting)
  BY DEF Rpc!Continue, Rpc!Forget
<1>5. r.has \in BOOLEAN /\ r.ok \in BOOLEAN /\ (~r.ok) \in BOOLEAN /\ (~r.has) \in BOOLEAN
  <2>1. r.has \in BOOLEAN /\ r.ok \in BOOLEAN
    OBVIOUS
  <2> QED
    BY <2>1, Zenon
<1>6. q_query.pc # "scatter" => waiting = {}
  BY <1>1
<1> HIDE DEF iq, s, waiting
<1>7. CASE iq.pc = "owner" /\ Rpc!Ends(iq, r.has, ~r.ok, waiting)
  <2>1. RpcInv'
    BY <1>1, <1>2, <1>5, <1>6, <1>7, EndsKeep
  <2> QED
    BY <1>2, <1>7, <2>1 DEF QueryMisses
<1>8. CASE iq.pc = "index" /\ iq.kind = "list" /\ Rpc!Ends(iq, r.has, ~r.has, waiting)
  <2>1. RpcInv'
    BY <1>1, <1>2, <1>5, <1>6, <1>8, EndsKeep
  <2> QED
    BY <1>2, <1>8, <2>1 DEF QueryMisses
<1>9. CASE iq.pc = "index" /\ iq.kind = "get" /\ r.ok /\ Rpc!Ends(iq, r.has, FALSE, waiting)
  <2>1. RpcInv' /\ q_query'.found = r.has
    BY <1>1, <1>2, <1>5, <1>6, <1>9, EndsKeep
  <2>2. QueryMisses => q_holder # Home
    BY <1>1, <1>2, <1>9, <2>1 DEF QueryMisses
  <2>3. q_query.asked \subseteq Worker /\ q_holder \in {Home, Rpc!Nobody}
    BY <1>1 DEF RpcQuery, RpcType
  <2> QED
    BY <2>1, <2>2, <2>3, RpcAssumption
<1>10. CASE iq.pc = "index" /\ iq.kind = "get" /\ ~r.ok /\ Rpc!Probe(iq, waiting)
  <2>1. RpcInv' /\ (q_query'.pc = "done" => iq.asked = {})
    BY <1>1, <1>2, <1>6, <1>10, ProbeKeeps
  <2> QED
    BY <1>2, <2>1 DEF QueryMisses
<1>11. CASE iq.pc = "probe" /\ r.has /\ Rpc!Ends(iq, TRUE, FALSE, waiting)
  <2>1. RpcInv' /\ q_query'.found
    BY <1>1, <1>2, <1>6, <1>11, EndsKeep
  <2> QED
    BY <2>1 DEF QueryMisses
<1>12. CASE iq.pc = "probe" /\ ~r.has /\ Rpc!Scatter(iq, waiting)
  <2>1. RpcInv' /\ (q_query'.pc = "done" => iq.asked = {})
    BY <1>1, <1>2, <1>6, <1>12, ScatterKeeps
  <2> QED
    BY <1>2, <2>1 DEF QueryMisses
(* The worker that has the record is not the one that has just been asked  *)
(* in vain.                                                                *)
<1>13. Consistent(s, s.todo)
  <2> SUFFICES ASSUME ~q_query.fresh
               PROVE  /\ \A k \in s.open : q_reqs[k].pc = "read"
                                              => q_reqs[k].has = (q_holder = q_reqs[k].to)
                      /\ \A w \in q_wire : w.id \in s.open /\ w.ok
                                              => w.has = (q_holder = q_reqs[w.id].to)
                      /\ s.pc = "scatter" /\ ~s.found /\ ~s.partial /\ q_holder \in s.asked =>
                            q_holder \in s.todo \/ \E k \in s.open : q_reqs[k].to = q_holder
    BY <1>3 DEF Consistent
  <2>1. s.open \subseteq q_query.open
    BY <1>1, <1>3 DEF waiting
  <2>2. ASSUME s.pc = "scatter", ~s.found, ~s.partial, q_holder \in s.asked
        PROVE  q_holder \in s.todo \/ \E k \in s.open : q_reqs[k].to = q_holder
    <3>1. q_holder \in q_query.todo \/ \E k \in q_query.open : q_reqs[k].to = q_holder
      BY <1>1, <1>3, <2>2 DEF Consistent
    <3>2. q_reqs[i].to # q_holder
      BY <1>3, <2>2
    <3> QED
      BY <1>1, <1>3, <3>1, <3>2 DEF waiting
  <2> QED
    BY <1>1, <2>1, <2>2 DEF Consistent
<1>14. CASE /\ iq.pc = "scatter"
            /\ \E m \in s.todo : Rpc!Asking(s, {m}, s.todo \ {m}, waiting)
  <2>1. PICK m \in s.todo : Rpc!Asking(s, {m}, s.todo \ {m}, waiting)
    BY <1>14
  <2>2. /\ {m} \in SUBSET Worker /\ {m} # {} /\ s.todo \ {m} \in SUBSET Worker
        /\ s.open \subseteq DOMAIN q_reqs /\ {m} \cup (s.todo \ {m}) = s.todo
    BY <1>1, <1>3, <2>1 DEF RpcQuery, waiting
  <2>3. Consistent(s, {m} \cup (s.todo \ {m}))
    BY <1>13, <2>2
  <2>4. s.pc = "scatter" /\ Rpc!Asking(s, {m}, s.todo \ {m}, s.open)
    BY <1>2, <1>3, <1>14, <2>1
  <2>5. RpcInv' /\ q_query'.pc = s.pc
    BY <1>1, <1>3, <2>2, <2>3, <2>4, AskingKeeps
  <2> QED
    BY <2>4, <2>5 DEF QueryMisses
<1>15. CASE /\ iq.pc = "scatter" /\ s.todo = {} /\ s.open # {}
            /\ q_query' = s /\ q_pending' = waiting /\ UNCHANGED q_reqs
  <2>1. RpcType' /\ AnswersOver'
    BY <1>1, <1>3, <1>15 DEF RpcType, AnswersOver
  <2>2. s.pc = "scatter" /\ waiting \subseteq DOMAIN q_reqs
    BY <1>1, <1>2, <1>3, <1>15 DEF waiting
  <2>3. WaitInv'
    BY <1>3, <1>15, <2>1, <2>2 DEF WaitInv, Rpc!Running
  <2>4. TruthInv'
    BY <1>13, <1>15 DEF TruthInv, Consistent
  <2> QED
    BY <1>15, <2>1, <2>2, <2>3, <2>4 DEF RpcInv, QueryMisses
<1>16. CASE /\ iq.pc = "scatter" /\ s.todo = {} /\ s.open = {}
            /\ Rpc!Ends(s, s.found, s.partial, waiting)
  <2>1. waiting = {} /\ s.found \in BOOLEAN /\ s.partial \in BOOLEAN /\ s.pc = "scatter"
    BY <1>2, <1>3, <1>16 DEF RpcQuery
  <2>2. RpcInv' /\ q_query'.found = s.found /\ q_query'.partial = s.partial
    BY <1>1, <1>16, <2>1, EndsKeep
  <2>3. QueryMisses => q_holder \notin s.asked
    BY <1>3, <1>13, <1>16, <2>1, <2>2 DEF QueryMisses, Consistent
  <2> QED
    BY <1>3, <2>2, <2>3
<1> QED
  BY <1>4, <1>7, <1>8, <1>9, <1>10, <1>11, <1>12, <1>14, <1>15, <1>16

(* The record is written or removed.                                       *)
LEMMA QueryRecordKeeps ==
    ASSUME RpcInv, Rpc!WriteRecord \/ Rpc!Expire
    PROVE  RpcInv' /\ ~QueryMisses
<1>1. /\ q_query' = [q_query EXCEPT !.fresh = Rpc!Running]
      /\ UNCHANGED <<q_reqs, q_wire, q_pending>>
  BY DEF Rpc!WriteRecord, Rpc!Expire
<1>0. q_holder' \in {Home, Rpc!Nobody} /\ q_indexed' \in {Home, Rpc!Nobody}
  <2>1. q_indexed \in {Home, Rpc!Nobody}
    BY DEF RpcInv, RpcType
  <2>2. CASE Rpc!WriteRecord
    BY <2>2 DEF Rpc!WriteRecord
  <2>3. CASE Rpc!Expire
    BY <2>1, <2>3 DEF Rpc!Expire
  <2> QED
    BY <2>2, <2>3
<1>2. RpcType /\ WaitInv /\ q_query \in RpcQuery
  BY DEF RpcInv, RpcType
<1> DEFINE running == Rpc!Running
<1>3. running \in BOOLEAN
  BY DEF Rpc!Running
<1>4. /\ q_query' \in RpcQuery /\ q_query'.pc = q_query.pc /\ q_query'.open = q_query.open
      /\ q_query'.todo = q_query.todo /\ q_query'.fresh = running
  <2> HIDE DEF running
  <2>1. q_query' = [q_query EXCEPT !.fresh = running]
    BY <1>1 DEF running
  <2> QED
    BY <1>2, <1>3, <2>1 DEF RpcQuery
<1>5. RpcType'
  BY <1>0, <1>1, <1>2, <1>4 DEF RpcType
<1>6. WaitInv'
  BY <1>1, <1>2, <1>4 DEF WaitInv, AnswersOver, Rpc!Running
<1>7. TruthInv'
  <2> SUFFICES ASSUME ~running PROVE Consistent(q_query, q_query.todo)'
    BY <1>4 DEF TruthInv, Consistent
  <2>1. q_query'.open = {} /\ q_query'.pc # "scatter"
    BY <1>2, <1>4 DEF WaitInv, Rpc!Running
  <2> QED
    BY <2>1 DEF Consistent
<1>8. ~QueryMisses
  <2>1. q_query.pc = "done" => ~(q_query.pc \in {"index", "probe", "scatter"})
    OBVIOUS
  <2> QED
    BY <1>4, <2>1 DEF QueryMisses
<1> HIDE DEF running
<1>9. RpcInv'
  BY <1>5, <1>6, <1>7 DEF RpcInv
<1> QED
  BY <1>8, <1>9

(* A worker reads for a request.                                           *)
LEMMA RpcReadKeeps ==
    ASSUME RpcInv, NEW i \in DOMAIN q_reqs, Rpc!Read(i)
    PROVE  RpcInv' /\ ~QueryMisses
<1> DEFINE h == (q_holder = q_reqs[i].to)
<1>1. /\ q_reqs[i].pc = "sent" /\ q_reqs' = [q_reqs EXCEPT ![i].pc = "read", ![i].has = h]
      /\ UNCHANGED <<q_holder, q_indexed, q_wire, q_pending, q_query>>
  BY DEF Rpc!Read, Rpc!world
<1>11. UNCHANGED <<q_holder, q_wire, q_query>>
  BY DEF Rpc!Read, Rpc!world
<1>2. /\ q_reqs \in Seq(RpcReq) /\ Len(q_reqs) \in Nat /\ DOMAIN q_reqs = 1..Len(q_reqs)
      /\ \A k \in DOMAIN q_reqs : q_reqs[k] \in RpcReq
      /\ RpcType /\ WaitInv /\ TruthInv
  BY RpcTyped DEF RpcInv
<1>3. h \in BOOLEAN
  OBVIOUS
<1>4. /\ DOMAIN q_reqs' = DOMAIN q_reqs /\ q_reqs'[i] = [q_reqs[i] EXCEPT !.pc = "read", !.has = h]
      /\ \A k \in DOMAIN q_reqs : k # i => q_reqs'[k] = q_reqs[k]
  <2> HIDE DEF h
  <2> QED
    BY <1>1, <1>2
<1>5. /\ q_reqs'[i] \in RpcReq /\ q_reqs'[i].to = q_reqs[i].to /\ q_reqs'[i].pc = "read"
      /\ q_reqs'[i].has = h
  <2> HIDE DEF h
  <2>1. q_reqs[i] \in RpcReq
    BY <1>2
  <2> QED
    BY <1>3, <1>4, <2>1 DEF RpcReq
<1>6. q_reqs' \in Seq(RpcReq)
  <2>1. q_reqs' \in [1..Len(q_reqs) -> RpcReq]
    <3> HIDE DEF h
    <3> QED
      BY <1>1, <1>2, <1>4, <1>5
  <2> QED
    BY <1>2, <2>1
<1>7. \A k \in DOMAIN q_reqs : q_reqs'[k].to = q_reqs[k].to
  BY <1>4, <1>5
<1>8. RpcType'
  BY <1>1, <1>2, <1>6 DEF RpcType
<1>9. WaitInv'
  <2>1. AnswersOver'
    BY <1>1, <1>2, <1>4 DEF WaitInv, AnswersOver
  <2> QED
    BY <1>1, <1>2, <1>4, <1>7, <2>1 DEF WaitInv, Rpc!Running
<1>10. TruthInv'
  <2> SUFFICES ASSUME ~q_query.fresh
               PROVE  /\ \A k \in q_query.open : q_reqs'[k].pc = "read"
                                       => q_reqs'[k].has = (q_holder = q_reqs'[k].to)
                      /\ \A w \in q_wire : w.id \in q_query.open /\ w.ok
                                       => w.has = (q_holder = q_reqs'[w.id].to)
                      /\ q_query.pc = "scatter" /\ ~q_query.found /\ ~q_query.partial
                            /\ q_holder \in q_query.asked =>
                               \/ q_holder \in q_query.todo
                               \/ \E k \in q_query.open : q_reqs'[k].to = q_holder
    BY <1>11 DEF TruthInv, Consistent
  <2>1. Consistent(q_query, q_query.todo) /\ q_query.open \subseteq DOMAIN q_reqs
    BY <1>2 DEF TruthInv, WaitInv
  <2>2. \A k \in q_query.open : q_reqs'[k].pc = "read" => q_reqs'[k].has = (q_holder = q_reqs'[k].to)
    BY <1>4, <1>5, <2>1 DEF Consistent
  <2>3. \A w \in q_wire : w.id \in q_query.open /\ w.ok => w.has = (q_holder = q_reqs'[w.id].to)
    BY <1>7, <2>1 DEF Consistent
  <2>4. q_query.pc = "scatter" /\ ~q_query.found /\ ~q_query.partial
                            /\ q_holder \in q_query.asked =>
                               \/ q_holder \in q_query.todo
                               \/ \E k \in q_query.open : q_reqs'[k].to = q_holder
    BY <1>7, <2>1 DEF Consistent
  <2> QED
    BY <2>2, <2>3, <2>4
<1> QED
  BY <1>1, <1>8, <1>9, <1>10 DEF RpcInv, QueryMisses

(* A worker publishes what it has read, or that it failed.                 *)
LEMMA RpcReplyKeeps ==
    ASSUME RpcInv, NEW i \in DOMAIN q_reqs, Rpc!Reply(i)
    PROVE  RpcInv' /\ ~QueryMisses
<1>1. PICK r \in {[ok |-> TRUE, has |-> q_reqs[i].has], Rpc!Failed} :
         q_wire' = q_wire \cup {[id |-> i, ok |-> r.ok, has |-> r.has]}
  BY DEF Rpc!Reply
<1>2. /\ q_reqs[i].pc = "read" /\ q_reqs' = [q_reqs EXCEPT ![i].pc = "over", ![i].has = FALSE]
      /\ UNCHANGED <<q_holder, q_indexed, q_pending, q_query>>
  BY DEF Rpc!Reply, Rpc!world
<1>3. /\ q_reqs \in Seq(RpcReq) /\ Len(q_reqs) \in Nat /\ DOMAIN q_reqs = 1..Len(q_reqs)
      /\ \A k \in DOMAIN q_reqs : q_reqs[k] \in RpcReq
      /\ RpcType /\ WaitInv /\ TruthInv
  BY RpcTyped DEF RpcInv
<1>4. /\ DOMAIN q_reqs' = DOMAIN q_reqs
      /\ q_reqs'[i] = [q_reqs[i] EXCEPT !.pc = "over", !.has = FALSE]
      /\ \A k \in DOMAIN q_reqs : k # i => q_reqs'[k] = q_reqs[k]
  BY <1>2, <1>3
<1>5. /\ q_reqs'[i] \in RpcReq /\ q_reqs'[i].to = q_reqs[i].to /\ q_reqs'[i].pc = "over"
      /\ q_reqs[i].has \in BOOLEAN
  <2>1. q_reqs[i] \in RpcReq
    BY <1>3
  <2> QED
    BY <1>4, <2>1 DEF RpcReq
<1>6. q_reqs' \in Seq(RpcReq)
  <2>1. q_reqs' \in [1..Len(q_reqs) -> RpcReq]
    BY <1>2, <1>3, <1>4, <1>5
  <2> QED
    BY <1>3, <2>1
<1>7. \A k \in DOMAIN q_reqs : q_reqs'[k].to = q_reqs[k].to
  BY <1>4, <1>5
<1> DEFINE a == [id |-> i, ok |-> r.ok, has |-> r.has]
<1>8. a \in RpcAnswer /\ a.id = i /\ (a.ok => a.has = q_reqs[i].has)
  <2>1. i \in Nat
    BY <1>3
  <2>2. r.ok \in BOOLEAN /\ r.has \in BOOLEAN /\ (r.ok => r.has = q_reqs[i].has)
    <3>1. CASE r = [ok |-> TRUE, has |-> q_reqs[i].has]
      BY <1>5, <3>1
    <3>2. CASE r = Rpc!Failed
      BY <3>2 DEF Rpc!Failed
    <3> QED
      BY <1>1, <3>1, <3>2
  <2> QED
    BY <2>1, <2>2 DEF RpcAnswer
<1> HIDE DEF a
<1>9. RpcType'
  <2>1. q_wire' \subseteq RpcAnswer
    BY <1>1, <1>3, <1>8 DEF RpcType, a
  <2> QED
    BY <1>2, <1>3, <1>6, <2>1 DEF RpcType
<1>10. \A w \in q_wire' : w \in q_wire \/ w = a
  BY <1>1 DEF a
<1>11. WaitInv'
  <2>1. AnswersOver'
    <3> SUFFICES ASSUME NEW w \in q_wire'
                 PROVE  w.id \in DOMAIN q_reqs /\ q_reqs'[w.id].pc = "over"
      BY <1>4 DEF AnswersOver
    <3>1. CASE w = a
      BY <1>5, <1>8, <3>1
    <3>2. CASE w \in q_wire
      BY <1>2, <1>3, <1>4, <3>2 DEF WaitInv, AnswersOver
    <3> QED
      BY <1>10, <3>1, <3>2
  <2> QED
    BY <1>2, <1>3, <1>4, <1>7, <2>1 DEF WaitInv, Rpc!Running
<1>12. TruthInv'
  <2> SUFFICES ASSUME ~q_query.fresh
               PROVE  /\ \A k \in q_query.open : q_reqs'[k].pc = "read"
                                       => q_reqs'[k].has = (q_holder = q_reqs'[k].to)
                      /\ \A w \in q_wire' : w.id \in q_query.open /\ w.ok
                                       => w.has = (q_holder = q_reqs'[w.id].to)
                      /\ q_query.pc = "scatter" /\ ~q_query.found /\ ~q_query.partial
                            /\ q_holder \in q_query.asked =>
                               \/ q_holder \in q_query.todo
                               \/ \E k \in q_query.open : q_reqs'[k].to = q_holder
    BY <1>2 DEF TruthInv, Consistent
  <2>1. Consistent(q_query, q_query.todo) /\ q_query.open \subseteq DOMAIN q_reqs
    BY <1>3 DEF TruthInv, WaitInv
  <2>2. \A k \in q_query.open : q_reqs'[k].pc = "read" => q_reqs'[k].has = (q_holder = q_reqs'[k].to)
    BY <1>4, <1>5, <2>1 DEF Consistent
  <2>3. ASSUME NEW w \in q_wire', w.id \in q_query.open, w.ok
        PROVE  w.has = (q_holder = q_reqs'[w.id].to)
    <3>1. CASE w = a
      BY <1>2, <1>5, <1>8, <2>1, <2>3, <3>1 DEF Consistent
    <3>2. CASE w \in q_wire
      BY <1>7, <2>1, <2>3, <3>2 DEF Consistent
    <3> QED
      BY <1>10, <3>1, <3>2
  <2>4. q_query.pc = "scatter" /\ ~q_query.found /\ ~q_query.partial
                            /\ q_holder \in q_query.asked =>
                               \/ q_holder \in q_query.todo
                               \/ \E k \in q_query.open : q_reqs'[k].to = q_holder
    BY <1>7, <2>1 DEF Consistent
  <2> QED
    BY <2>2, <2>3, <2>4
<1> QED
  BY <1>2, <1>9, <1>11, <1>12 DEF RpcInv, QueryMisses

(* A query begins.                                                         *)
LEMMA QueryKeeps ==
    ASSUME RpcInv, NEW kind \in {"get", "list"}, NEW owner \in Rpc!Somebody,
           NEW index \in BOOLEAN, NEW asked \in Listed, Rpc!Query(kind, owner, index, asked)
    PROVE  RpcInv' /\ ~QueryMisses
<1> DEFINE q == [Rpc!NoQuery EXCEPT !.kind = kind, !.asked = asked]
           oq == [q EXCEPT !.pc = "owner"]
           xq == [q EXCEPT !.pc = "index"]
<1>1. RpcType /\ AnswersOver /\ ~Rpc!Running /\ q_pending = {}
  BY DEF RpcInv, WaitInv, Rpc!Query
<1>2. UNCHANGED <<q_holder, q_indexed>> /\ q_wire' \subseteq q_wire
  BY DEF Rpc!Query, Rpc!world
<1>3. asked \in SUBSET Worker
  BY RpcAssumption
<1>4. q \in RpcQuery /\ q.open = {}
  BY <1>3 DEF Rpc!NoQuery, RpcQuery
<1>5. IF owner # Rpc!Nobody THEN Rpc!Asking(oq, {owner}, {}, {})
      ELSE IF index /\ q_indexed # Rpc!Nobody THEN Rpc!Asking(xq, {q_indexed}, {}, {})
      ELSE IF kind = "get" THEN Rpc!Probe(q, {})
      ELSE IF index THEN Rpc!Ends(q, FALSE, FALSE, {}) ELSE Rpc!Scatter(q, {})
  BY <1>1 DEF Rpc!Query
<1>6. /\ oq \in RpcQuery /\ oq.open = {} /\ oq.pc = "owner"
      /\ xq \in RpcQuery /\ xq.open = {} /\ xq.pc = "index"
  <2> HIDE DEF q
  <2> QED
    BY <1>4 DEF RpcQuery
<1> HIDE DEF q, oq, xq
<1>7. CASE Rpc!Asking(oq, {owner}, {}, {}) /\ owner # Rpc!Nobody
  <2>1. owner \in Worker
    BY <1>7 DEF Rpc!Somebody
  <2> QED
    BY <1>1, <1>2, <1>6, <1>7, <2>1, OneAsked DEF QueryMisses
<1>8. CASE Rpc!Asking(xq, {q_indexed}, {}, {}) /\ q_indexed # Rpc!Nobody
  <2>1. q_indexed \in Worker /\ q_indexed = Home
    BY <1>1, <1>8, RpcAssumption DEF RpcType
  <2> QED
    BY <1>1, <1>2, <1>6, <1>8, <2>1, OneAsked DEF QueryMisses
<1>9. ~QueryMisses
  BY <1>1 DEF QueryMisses, Rpc!Running
<1>10. CASE Rpc!Probe(q, {})
  BY <1>1, <1>2, <1>4, <1>9, <1>10, ProbeKeeps
<1>11. CASE Rpc!Ends(q, FALSE, FALSE, {})
  BY <1>1, <1>2, <1>9, <1>11, EndsKeep
<1>12. CASE Rpc!Scatter(q, {})
  BY <1>1, <1>2, <1>4, <1>9, <1>12, ScatterKeeps
<1> QED
  BY <1>5, <1>7, <1>8, <1>10, <1>11, <1>12

LEMMA UnownedKeeps ==
    ASSUME RpcInv, Rpc!QueryUnowned
    PROVE  RpcInv' /\ ~QueryMisses
<1>1. RpcType /\ AnswersOver /\ ~Rpc!Running /\ q_pending = {}
  BY DEF RpcInv, WaitInv, Rpc!QueryUnowned
<1>2. UNCHANGED <<q_holder, q_indexed>> /\ q_wire' \subseteq q_wire
      /\ Rpc!Ends(Rpc!NoQuery, FALSE, FALSE, {})
  BY <1>1 DEF Rpc!QueryUnowned, Rpc!world
<1> QED
  BY <1>1, <1>2, EndsKeep DEF QueryMisses, Rpc!Running

(* Nothing but the answers on their way changes.                           *)
LEMMA DropKeeps ==
    ASSUME RpcInv, q_wire' \subseteq q_wire,
           UNCHANGED <<q_holder, q_indexed, q_reqs, q_pending, q_query>>
    PROVE  RpcInv' /\ (QueryMisses => q_query' # q_query)
<1>1. RpcType'
  BY DEF RpcInv, RpcType
<1>2. WaitInv'
  BY DEF RpcInv, WaitInv, AnswersOver, Rpc!Running
<1>3. TruthInv'
  BY DEF RpcInv, TruthInv, Consistent
<1> QED
  BY <1>1, <1>2, <1>3 DEF RpcInv, QueryMisses

LEMMA RpcInductive ==
    ASSUME RpcInv, [Rpc!Next]_(Rpc!vars)
    PROVE  RpcInv' /\ (QueryMisses /\ q_query' # q_query => q_holder \notin q_query.asked)
<1>1. CASE Rpc!WriteRecord \/ Rpc!Expire
  BY <1>1, QueryRecordKeeps
<1>2. CASE Rpc!QueryUnowned
  BY <1>2, UnownedKeeps
<1>3. ASSUME NEW i \in DOMAIN q_reqs, Rpc!Read(i) \/ Rpc!Reply(i)
      PROVE  RpcInv' /\ ~QueryMisses
  BY <1>3, RpcReadKeeps, RpcReplyKeeps
<1>4. ASSUME NEW kind \in {"get", "list"}, NEW owner \in Rpc!Somebody,
             NEW index \in BOOLEAN, NEW asked \in Listed, Rpc!Query(kind, owner, index, asked)
      PROVE  RpcInv' /\ ~QueryMisses
  BY <1>4, QueryKeeps
<1>5. ASSUME NEW w \in q_wire, Rpc!Receive(w)
      PROVE  RpcInv' /\ (QueryMisses /\ q_query' # q_query => q_holder \notin q_query.asked)
  <2>1. q_wire' \subseteq q_wire /\ UNCHANGED <<q_holder, q_indexed>>
    BY <1>5 DEF Rpc!Receive, Rpc!world
  <2>2. CASE UNCHANGED <<q_reqs, q_pending, q_query>>
    BY <2>1, <2>2, DropKeeps
  <2>3. ASSUME NEW i \in q_pending, w.id = i, Rpc!Continue(i, [ok |-> w.ok, has |-> w.has])
        PROVE  RpcInv' /\ (QueryMisses => q_holder \notin q_query.asked)
    <3> DEFINE r == [ok |-> w.ok, has |-> w.has]
    <3>1. w \in RpcAnswer
      BY DEF RpcInv, RpcType
    <3>2. r \in [ok : BOOLEAN, has : BOOLEAN] /\ r.ok = w.ok /\ r.has = w.has
      BY <3>1 DEF RpcAnswer
    <3>3. r.ok /\ ~q_query.fresh => r.has = (q_holder = q_reqs[i].to)
      BY <2>3, <3>2 DEF RpcInv, WaitInv, TruthInv, Consistent
    <3>4. Rpc!Continue(i, r)
      BY <2>3
    <3> HIDE DEF r
    <3> QED
      BY <2>1, <3>2, <3>3, <3>4, ContinueKeeps
  <2> QED
    BY <1>5, <2>2, <2>3 DEF Rpc!Receive, Rpc!Answers
<1>6. ASSUME NEW i \in q_pending, Rpc!Timeout(i)
      PROVE  RpcInv' /\ (QueryMisses => q_holder \notin q_query.asked)
  <2>1. /\ Rpc!Failed \in [ok : BOOLEAN, has : BOOLEAN] /\ ~Rpc!Failed.ok
        /\ Rpc!Continue(i, Rpc!Failed) /\ UNCHANGED <<q_holder, q_indexed, q_wire>>
    BY <1>6 DEF Rpc!Timeout, Rpc!world, Rpc!Failed
  <2> QED
    BY <2>1, ContinueKeeps
<1>7. CASE UNCHANGED Rpc!vars
  BY <1>7, DropKeeps DEF Rpc!vars
<1> QED
  BY <1>1, <1>2, <1>3, <1>4, <1>5, <1>6, <1>7 DEF Rpc!Next

LEMMA RpcStarts ==
    ASSUME Rpc!Init
    PROVE  RpcInv
<1>1. /\ q_holder = Rpc!Nobody /\ q_indexed = Rpc!Nobody /\ q_reqs = <<>> /\ q_wire = {}
      /\ q_pending = {} /\ q_query = Rpc!NoQuery
  BY DEF Rpc!Init
<1>2. RpcType
  BY <1>1, NoQueryIs DEF RpcType
<1>3. WaitInv /\ TruthInv
  BY <1>1, NoQueryIs DEF WaitInv, AnswersOver, TruthInv, Consistent, Rpc!Running
<1> QED
  BY <1>2, <1>3 DEF RpcInv

LEMMA RpcMeans ==
    ASSUME RpcInv
    PROVE  Rpc!TypeOK /\ Rpc!QueryWaits
<1>1. \A i \in DOMAIN q_reqs : q_reqs[i].to \in Worker /\ q_reqs[i].pc \in {"sent", "read", "over"}
  <2>1. \A i \in DOMAIN q_reqs : q_reqs[i] \in RpcReq
    BY RpcTyped DEF RpcInv
  <2> QED
    BY <2>1 DEF RpcReq
<1>2. Rpc!TypeOK
  BY <1>1, RpcAssumption DEF RpcInv, RpcType, WaitInv, Rpc!TypeOK, Rpc!Somebody
<1> QED
  BY <1>2 DEF RpcInv, WaitInv, Rpc!QueryWaits

(* In every behaviour of the services a query waits for what the client    *)
(* waits for, and what a get does not find is on no worker it was to ask.  *)
THEOREM QueriesWait == SvcSpec => QueryWaits
<1>1. SvcSpec => Rpc!Spec
  BY Each
<1>2. Rpc!Spec => []RpcInv
  BY RpcStarts, RpcInductive, PTL DEF Rpc!Spec
<1>3. RpcInv => (which = "queries" => Rpc!TypeOK /\ Rpc!QueryWaits)
  BY RpcMeans
<1>4. RpcInv /\ [Rpc!Next]_(Rpc!vars)
         => [q_query'.pc = "done" /\ q_query.pc \in {"index", "probe", "scatter"}
                /\ q_query.kind = "get" /\ ~q_query'.found /\ ~q_query'.partial /\ ~q_query.fresh
             => q_holder \notin q_query.asked]_q_query
  BY RpcInductive DEF QueryMisses
<1> QED
  BY <1>1, <1>2, <1>3, <1>4, PTL DEF QueryWaits, Rpc!NotFoundIsAbsent, Rpc!Spec

-------------------------------------------------------------------------------
(* The event bus.                                                          *)

(* The shapes of what the bus keeps.                                       *)
Listener ==
    [id : Nat, pattern : Pattern, callback : Callback, owner : Owner, priority : Priority,
     once : BOOLEAN]
BusEmit ==
    [mode : {"idle", "serial", "concurrent"}, todo : SUBSET Listener,
     running : SUBSET Listener, remove : SUBSET Listener, seen : Seq(Listener)]

BusType ==
    /\ b_listeners \subseteq Listener /\ IsFiniteSet(b_listeners)
    /\ b_counter \in 0..MaxListeners /\ b_count \in 0..MaxEmits
    /\ b_emits \in [Emit -> BusEmit]
    /\ \A e \in Emit : /\ IsFiniteSet(b_emits[e].todo)
                       /\ b_emits[e].mode = "idle" => b_emits[e] = Bus!Idle
    /\ b_calls \in [0..(MaxListeners - 1) -> Nat]

(* Every listener that is registered or in an emit under way.              *)
Known == b_listeners \cup UNION {Bus!Held(e) : e \in Emit}

(* Numbers name listeners, and were given out.                             *)
IdInv ==
    /\ \A l \in Known : l.id < b_counter
    /\ \A l, m \in Known : l.id = m.id => l = m
    /\ \A n \in DOMAIN b_calls : n >= b_counter => b_calls[n] = 0

(* Unless a callback was registered twice, it names its listener.          *)
TwinInv ==
    ~b_doubled => \A l, m \in Known : l.pattern = m.pattern /\ l.callback = m.callback => l = m

(* What was called comes before what is still to be called.                *)
SeenInv ==
    \A e \in Emit :
        /\ \A i, j \in DOMAIN b_emits[e].seen :
              i < j => Bus!Before(b_emits[e].seen[i], b_emits[e].seen[j])
        /\ \A i \in DOMAIN b_emits[e].seen, l \in b_emits[e].todo : Bus!Before(b_emits[e].seen[i], l)

(* A once listener that one emit holds was not called before, or is in the *)
(* hands of the emit that called it, which will remove it.                 *)
Called(l) == \E e \in Emit : l \in b_emits[e].running \cup b_emits[e].remove
CalledInv ==
    /\ \A n \in DOMAIN b_calls : b_calls[n] > 1 => n \in b_shared
    /\ \A l \in Known : l.id \notin b_shared =>
          /\ \A e, f \in Emit : l \in Bus!Held(e) /\ l \in Bus!Held(f) => e = f
          /\ l.once /\ l \in b_listeners /\ b_calls[l.id] > 0 => Called(l)
          /\ l.once /\ (\E e \in Emit : l \in b_emits[e].todo) => b_calls[l.id] = 0

BusInv == BusType /\ IdInv /\ TwinInv /\ SeenInv /\ CalledInv

LEMMA SameBusCardinality == \A S : Bus!Cardinality(S) = Cardinality(S)
  BY DEF Bus!Cardinality, Cardinality

(* Listeners whose numbers differ are in an order.                         *)
LEMMA BeforeOrders ==
    ASSUME NEW S \in SUBSET Listener, \A l, m \in S : l.id = m.id => l = m
    PROVE  /\ \A l, m \in S : l = m \/ Bus!Before(l, m) \/ Bus!Before(m, l)
           /\ \A l \in S : ~Bus!Before(l, l)
           /\ \A l, m \in S : Bus!Before(l, m) => ~Bus!Before(m, l)
           /\ \A k, l, m \in S : Bus!Before(k, l) /\ Bus!Before(l, m) => Bus!Before(k, m)
<1>1. ASSUME NEW l \in S PROVE l.priority \in Int /\ l.id \in Int
  <2>1. l \in Listener
    OBVIOUS
  <2>2. l.priority \in Priority /\ l.id \in Nat
    BY <2>1 DEF Listener
  <2>3. Priority \subseteq Int
    BY BusAssumption
  <2>4. l.priority \in Int
    BY <2>2, <2>3, Zenon
  <2>5. l.id \in Int
    BY <2>2
  <2> QED
    BY <2>4, <2>5
<1> QED
  BY <1>1 DEF Bus!Before

(* So finitely many can be listed in it, and one comes first.              *)
LEMMA Orderable ==
    ASSUME NEW S \in SUBSET Listener, IsFiniteSet(S), \A l, m \in S : l.id = m.id => l = m
    PROVE  /\ Cardinality(S) \in Nat
           /\ \E s \in [1..Cardinality(S) -> S] :
                 /\ \A i, j \in 1..Cardinality(S) : i < j => Bus!Before(s[i], s[j])
                 /\ \A l \in S : \E i \in 1..Cardinality(S) : s[i] = l
<1> DEFINE Upto(l) == {m \in S : m = l \/ Bus!Before(m, l)}
           rank == [l \in S |-> Cardinality(Upto(l))]
           n == Cardinality(S)
<1>1. n \in Nat
  BY FS_CardinalityType
<1>2. ASSUME NEW l \in S
      PROVE  IsFiniteSet(Upto(l)) /\ Cardinality(Upto(l)) \in 1..n /\ rank[l] = Cardinality(Upto(l))
  <2>1. IsFiniteSet(Upto(l)) /\ Cardinality(Upto(l)) <= n
    <3>1. Upto(l) \in SUBSET S
      OBVIOUS
    <3> HIDE DEF Upto
    <3> QED
      BY <3>1, FS_Subset
  <2>2. l \in Upto(l)
    OBVIOUS
  <2>3. rank[l] = Cardinality(Upto(l))
    OBVIOUS
  <2> HIDE DEF Upto, rank
  <2>4. Cardinality(Upto(l)) \in Nat
    BY <2>1, FS_CardinalityType
  <2>5. Cardinality(Upto(l)) # 0
    BY <2>1, <2>2, FS_EmptySet
  <2> QED
    BY <1>1, <2>1, <2>3, <2>4, <2>5
<1>3. ASSUME NEW l \in S, NEW m \in S, Bus!Before(l, m)
      PROVE  rank[l] < rank[m]
  <2>1. Upto(l) \in SUBSET Upto(m) /\ m \in Upto(m) /\ m \notin Upto(l)
    BY <1>3, BeforeOrders
  <2>2. /\ IsFiniteSet(Upto(m)) /\ rank[l] = Cardinality(Upto(l)) /\ rank[m] = Cardinality(Upto(m))
        /\ Cardinality(Upto(l)) \in 1..n /\ Cardinality(Upto(m)) \in 1..n
    BY <1>2
  <2> HIDE DEF Upto, rank
  <2>3. Cardinality(Upto(l)) <= Cardinality(Upto(m))
        /\ (Cardinality(Upto(m)) = Cardinality(Upto(l)) => Upto(m) = Upto(l))
    BY <2>1, <2>2, FS_Subset
  <2>4. Upto(l) # Upto(m)
    BY <2>1
  <2> QED
    BY <1>1, <2>2, <2>3, <2>4
<1>4. rank \in [S -> 1..n]
  <2>1. \A l \in S : rank[l] \in 1..n
    BY <1>2
  <2>2. rank = [l \in S |-> rank[l]]
    OBVIOUS
  <2> HIDE DEF rank, n
  <2> QED
    BY <2>1, <2>2
<1> HIDE DEF rank, Upto
<1>5. \A l, m \in S : rank[l] = rank[m] => l = m
  <2> SUFFICES ASSUME NEW l \in S, NEW m \in S, l # m PROVE rank[l] # rank[m]
    OBVIOUS
  <2>1. Bus!Before(l, m) \/ Bus!Before(m, l)
    BY BeforeOrders
  <2>2. rank[l] \in Int /\ rank[m] \in Int
    BY <1>1, <1>4
  <2> QED
    BY <1>3, <2>1, <2>2
<1>6. rank \in Injection(S, 1..n)
  BY <1>4, <1>5 DEF Injection, IsInjective
<1>7. IsFiniteSet(1..n) /\ Cardinality(1..n) = n
  <2>1. 1 \in Int /\ n \in Int /\ (1 > n => n = 0) /\ n - 1 + 1 = n
    BY <1>1
  <2> QED
    BY <2>1, FS_Interval
<1>8. rank \in Surjection(S, 1..n)
  BY <1>6, <1>7, FS_Injection
<1>9. \A k \in 1..n : \E l \in S : rank[l] = k
  BY <1>8 DEF Surjection
<1> DEFINE s == [k \in 1..n |-> CHOOSE l \in S : rank[l] = k]
<1>10. \A k \in 1..n : s[k] \in S /\ rank[s[k]] = k
  BY <1>9
<1>11. s \in [1..n -> S]
  BY <1>10
<1> HIDE DEF s
<1>12. ASSUME NEW i \in 1..n, NEW j \in 1..n, i < j
       PROVE  Bus!Before(s[i], s[j])
  <2>1. s[i] \in S /\ s[j] \in S /\ rank[s[i]] = i /\ rank[s[j]] = j
    BY <1>10
  <2>2. s[i] # s[j] /\ ~Bus!Before(s[j], s[i])
    <3>1. i # j /\ ~(j < i)
      BY <1>1, <1>12
    <3> QED
      BY <1>3, <2>1, <3>1
  <2> QED
    BY <2>1, <2>2, BeforeOrders
<1>13. ASSUME NEW l \in S
       PROVE  \E i \in 1..n : s[i] = l
  <2>1. rank[l] \in 1..n
    BY <1>4
  <2>2. s[rank[l]] \in S /\ rank[s[rank[l]]] = rank[l]
    BY <1>10, <2>1
  <2> QED
    BY <1>5, <2>1, <2>2
<1> QED
  BY <1>1, <1>11, <1>12, <1>13

LEMMA OrderedLists ==
    ASSUME NEW S \in SUBSET Listener, IsFiniteSet(S), \A l, m \in S : l.id = m.id => l = m
    PROVE  /\ Bus!Ordered(S) \in Seq(S) /\ Len(Bus!Ordered(S)) = Cardinality(S)
           /\ DOMAIN Bus!Ordered(S) = 1..Cardinality(S)
           /\ \A i, j \in DOMAIN Bus!Ordered(S) :
                 i < j => Bus!Before(Bus!Ordered(S)[i], Bus!Ordered(S)[j])
<1> DEFINE n == Cardinality(S)
           Sorts(s) == \A i, j \in 1..n : i < j => Bus!Before(s[i], s[j])
<1>1. n \in Nat /\ \E s \in [1..n -> S] : Sorts(s)
  BY Orderable
<1>2. Bus!Ordered(S) = CHOOSE s \in [1..n -> S] : Sorts(s)
  BY SameBusCardinality DEF Bus!Ordered
<1> HIDE DEF Sorts
<1>3. Bus!Ordered(S) \in [1..n -> S] /\ Sorts(Bus!Ordered(S))
  BY <1>1, <1>2
<1> QED
  BY <1>1, <1>3 DEF Sorts

LEMMA FirstIsFirst ==
    ASSUME NEW S \in SUBSET Listener, IsFiniteSet(S), S # {}, \A l, m \in S : l.id = m.id => l = m
    PROVE  Bus!First(S) \in S /\ \A m \in S \ {Bus!First(S)} : Bus!Before(Bus!First(S), m)
<1> DEFINE n == Cardinality(S)
           Leads(l) == \A m \in S \ {l} : Bus!Before(l, m)
<1>1. n \in Nat
  BY FS_CardinalityType
<1>2. PICK s \in [1..n -> S] : /\ \A i, j \in 1..n : i < j => Bus!Before(s[i], s[j])
                               /\ \A l \in S : \E i \in 1..n : s[i] = l
  BY Orderable
<1>3. 1 \in 1..n
  <2>1. \E i \in 1..n : TRUE
    BY <1>2
  <2> QED
    BY <1>1, <2>1
<1>4. s[1] \in S /\ Leads(s[1])
  <2>1. ASSUME NEW m \in S \ {s[1]} PROVE Bus!Before(s[1], m)
    <3>1. PICK i \in 1..n : s[i] = m
      BY <1>2
    <3>2. i # 1 /\ 1 < i
      BY <1>1, <3>1
    <3> QED
      BY <1>2, <1>3, <3>1, <3>2
  <2> QED
    BY <1>2, <1>3, <2>1
<1> HIDE DEF Leads
<1>5. Bus!First(S) = CHOOSE l \in S : Leads(l)
  BY DEF Bus!First, Leads
<1>6. Bus!First(S) \in S /\ Leads(Bus!First(S))
  BY <1>4, <1>5
<1> QED
  BY <1>6 DEF Leads

(* At most one listener, in a list.                                        *)
LEMMA OrderedOne ==
    ASSUME NEW S \in SUBSET Listener, S = {} \/ \E l \in S : S = {l}
    PROVE  /\ Bus!Ordered(S) \in Seq(S) /\ Len(Bus!Ordered(S)) \in {0, 1}
           /\ S = {} => Bus!Ordered(S) = <<>>
           /\ \A l \in S : Bus!Ordered(S) = <<l>>
<1>1. IsFiniteSet(S) /\ \A l, m \in S : l.id = m.id => l = m
  <2>1. CASE S = {}
    BY <2>1, FS_EmptySet
  <2>2. ASSUME NEW l \in S, S = {l} PROVE IsFiniteSet(S) /\ \A k, m \in S : k = m
    BY <2>2, FS_Singleton
  <2> QED
    BY <2>1, <2>2
<1>2. Bus!Ordered(S) \in Seq(S) /\ Len(Bus!Ordered(S)) = Cardinality(S)
  BY <1>1, OrderedLists
<1>3. S = {} => Len(Bus!Ordered(S)) = 0
  BY <1>2, FS_EmptySet
<1>4. ASSUME NEW l \in S PROVE Len(Bus!Ordered(S)) = 1 /\ S = {l}
  BY <1>2, FS_Singleton
<1> DEFINE o == Bus!Ordered(S)
<1> HIDE DEF o
<1>5. ASSUME NEW l \in S PROVE o = <<l>>
  <2>1. o \in Seq({l}) /\ Len(o) = 1
    BY <1>2, <1>4 DEF o
  <2> QED
    BY <2>1
<1>6. S = {} => o = <<>>
  BY <1>2, <1>3 DEF o
<1> QED
  BY <1>2, <1>3, <1>4, <1>5, <1>6 DEF o

(* What an emit holds.                                                     *)
HeldBy(x) == x.todo \cup x.running \cup x.remove

LEMMA BusEmitTyped ==
    ASSUME NEW x \in BusEmit
    PROVE  /\ x.mode \in {"idle", "serial", "concurrent"}
           /\ x.todo \subseteq Listener /\ x.running \subseteq Listener /\ x.remove \subseteq Listener
           /\ x.seen \in Seq(Listener) /\ HeldBy(x) \subseteq Listener
  BY DEF BusEmit, HeldBy

LEMMA BusTyped ==
    ASSUME BusType
    PROVE  /\ b_listeners \in SUBSET Listener /\ IsFiniteSet(b_listeners) /\ Known \in SUBSET Listener
           /\ \A e \in Emit : /\ b_emits[e] \in BusEmit /\ IsFiniteSet(b_emits[e].todo)
                              /\ Bus!Held(e) = HeldBy(b_emits[e]) /\ Bus!Held(e) \subseteq Known
           /\ \A e \in Emit : b_emits[e].mode = "idle" => b_emits[e] = Bus!Idle /\ Bus!Held(e) = {}
           /\ b_counter \in Nat /\ MaxListeners \in Nat
           /\ b_calls \in [0..(MaxListeners - 1) -> Nat]
<1>1. ASSUME NEW e \in Emit
      PROVE  /\ b_emits[e] \in BusEmit /\ IsFiniteSet(b_emits[e].todo)
             /\ Bus!Held(e) = HeldBy(b_emits[e]) /\ Bus!Held(e) \subseteq Known
  BY DEF BusType, Known, Bus!Held, HeldBy
<1>2. Known \in SUBSET Listener
  BY <1>1, BusEmitTyped DEF BusType, Known
<1>3. \A e \in Emit : b_emits[e].mode = "idle" => b_emits[e] = Bus!Idle /\ Bus!Held(e) = {}
  BY DEF BusType, Bus!Held, Bus!Idle
<1>4. b_counter \in Nat /\ MaxListeners \in Nat
  BY BusAssumption DEF BusType
<1> QED
  BY <1>1, <1>2, <1>3, <1>4 DEF BusType

(* An emit goes on as x.                                                   *)
LEMMA HeldNext ==
    ASSUME BusType, NEW e \in Emit, NEW x \in BusEmit, b_emits' = [b_emits EXCEPT ![e] = x],
           IsFiniteSet(x.todo), x.mode = "idle" => x = Bus!Idle
    PROVE  /\ b_emits' \in [Emit -> BusEmit]
           /\ b_emits'[e] = x /\ Bus!Held(e)' = HeldBy(x)
           /\ \A f \in Emit \ {e} : b_emits'[f] = b_emits[f] /\ Bus!Held(f)' = Bus!Held(f)
           /\ \A f \in Emit : /\ IsFiniteSet(b_emits'[f].todo)
                              /\ b_emits'[f].mode = "idle" => b_emits'[f] = Bus!Idle
<1>1. b_emits' \in [Emit -> BusEmit] /\ b_emits'[e] = x
      /\ \A f \in Emit \ {e} : b_emits'[f] = b_emits[f]
  BY DEF BusType
<1>2. \A f \in Emit : /\ IsFiniteSet(b_emits'[f].todo)
                      /\ b_emits'[f].mode = "idle" => b_emits'[f] = Bus!Idle
  BY <1>1 DEF BusType
<1> QED
  BY <1>1, <1>2 DEF Bus!Held, HeldBy

(* No listener is new.                                                     *)
LEMMA NoneIsNew ==
    ASSUME IdInv, TwinInv, UNCHANGED <<b_counter, b_doubled>>, Known' \subseteq Known,
           \A n \in DOMAIN b_calls : n >= b_counter => b_calls'[n] = b_calls[n],
           DOMAIN b_calls' = DOMAIN b_calls
    PROVE  IdInv' /\ TwinInv'
<1>1. IdInv'
  BY DEF IdInv
<1>2. TwinInv'
  BY DEF TwinInv
<1> QED
  BY <1>1, <1>2

(* Listeners leave, and nothing else happens.                              *)
LEMMA LeaveKeeps ==
    ASSUME BusInv, b_listeners' \subseteq b_listeners,
           UNCHANGED <<b_counter, b_emits, b_count, b_calls, b_ended, b_shared, b_doubled>>
    PROVE  BusInv'
<1>1. \A e \in Emit : Bus!Held(e)' = Bus!Held(e)
  BY DEF Bus!Held
<1>2. Known' \subseteq Known
  BY <1>1 DEF Known
<1>3. BusType'
  <2>1. IsFiniteSet(b_listeners')
    BY FS_Subset DEF BusInv, BusType
  <2> QED
    BY <2>1 DEF BusInv, BusType
<1>4. IdInv' /\ TwinInv'
  BY <1>2, NoneIsNew DEF BusInv
<1>5. SeenInv'
  BY DEF BusInv, SeenInv
<1>6. CalledInv'
  BY <1>1, <1>2 DEF BusInv, CalledInv, Called
<1> QED
  BY <1>3, <1>4, <1>5, <1>6 DEF BusInv

LEMMA OnKeeps ==
    ASSUME BusInv, NEW p \in Pattern, NEW c \in Callback, NEW o \in Owner, NEW pri \in Priority,
           NEW once \in BOOLEAN, Bus!On(p, c, o, pri, once)
    PROVE  BusInv'
<1> DEFINE l == [id |-> b_counter, pattern |-> p, callback |-> c, owner |-> o, priority |-> pri,
                 once |-> once]
<1>1. /\ b_counter < MaxListeners /\ b_listeners' = b_listeners \cup {l}
      /\ b_counter' = b_counter + 1
      /\ UNCHANGED <<b_emits, b_count, b_calls, b_ended, b_shared>>
      /\ b_doubled' = (b_doubled \/ \E m \in Known : m.pattern = p /\ m.callback = c)
  BY DEF Bus!On, Known
<1>2. /\ b_listeners \in SUBSET Listener /\ IsFiniteSet(b_listeners) /\ Known \in SUBSET Listener
      /\ b_counter \in Nat /\ MaxListeners \in Nat /\ b_calls \in [0..(MaxListeners - 1) -> Nat]
      /\ \A e \in Emit : Bus!Held(e) \subseteq Known
  BY BusTyped DEF BusInv
<1>3. l \in Listener /\ l.id = b_counter /\ l.pattern = p /\ l.callback = c /\ l.once = once
  BY <1>2 DEF Listener
<1> HIDE DEF l
<1>4. \A e \in Emit : Bus!Held(e)' = Bus!Held(e)
  BY <1>1 DEF Bus!Held
<1>5. Known' = Known \cup {l}
  BY <1>1, <1>4 DEF Known
<1>6. \A m \in Known : m.id < b_counter /\ m.id \in Nat
  BY <1>2 DEF BusInv, IdInv, Listener
<1>7. l \notin Known /\ \A m \in Known : m.id # l.id
  BY <1>2, <1>3, <1>6
<1>8. BusType'
  <2>1. IsFiniteSet(b_listeners') /\ b_listeners' \subseteq Listener
    BY <1>1, <1>2, <1>3, FS_AddElement
  <2>2. b_counter' \in 0..MaxListeners
    BY <1>1, <1>2
  <2> QED
    BY <1>1, <2>1, <2>2 DEF BusInv, BusType
<1>9. IdInv'
  <2>1. \A m \in Known' : m.id < b_counter'
    BY <1>1, <1>2, <1>3, <1>5, <1>6
  <2>2. \A m, n \in Known' : m.id = n.id => m = n
    BY <1>5, <1>7 DEF BusInv, IdInv
  <2>3. \A n \in DOMAIN b_calls' : n >= b_counter' => b_calls'[n] = 0
    BY <1>1, <1>2 DEF BusInv, IdInv
  <2> QED
    BY <2>1, <2>2, <2>3 DEF IdInv
<1>10. TwinInv'
  <2> SUFFICES ASSUME ~b_doubled', NEW m \in Known', NEW n \in Known',
                      m.pattern = n.pattern, m.callback = n.callback
               PROVE  m = n
    BY DEF TwinInv
  <2>1. ~b_doubled /\ \A k \in Known : ~(k.pattern = p /\ k.callback = c)
    BY <1>1
  <2> QED
    BY <1>3, <1>5, <2>1 DEF BusInv, TwinInv
<1>11. SeenInv'
  BY <1>1 DEF BusInv, SeenInv
<1>12. CalledInv'
  <2>1. \A n \in DOMAIN b_calls' : b_calls'[n] > 1 => n \in b_shared'
    BY <1>1 DEF BusInv, CalledInv
  <2>2. \A e \in Emit : l \notin Bus!Held(e) /\ l \notin b_emits[e].todo
    BY <1>2, <1>7 DEF Bus!Held
  <2>3. b_calls[l.id] = 0
    BY <1>1, <1>2, <1>3 DEF BusInv, IdInv
  <2>4. ASSUME NEW m \in Known', m.id \notin b_shared'
        PROVE  /\ \A e, f \in Emit : m \in Bus!Held(e)' /\ m \in Bus!Held(f)' => e = f
               /\ m.once /\ m \in b_listeners' /\ b_calls'[m.id] > 0 => Called(m)'
               /\ m.once /\ (\E e \in Emit : m \in b_emits'[e].todo) => b_calls'[m.id] = 0
    <3>1. CASE m = l
      <4>1. ~(b_calls'[m.id] > 0)
        BY <1>1, <2>3, <3>1
      <4> QED
        BY <1>1, <1>4, <2>2, <3>1, <4>1
    <3>2. CASE m \in Known /\ m # l
      <4>1. Called(m)' <=> Called(m)
        BY <1>1 DEF Called
      <4> QED
        BY <1>1, <1>4, <2>4, <3>2, <4>1 DEF BusInv, CalledInv
    <3> QED
      BY <1>5, <3>1, <3>2
  <2> QED
    BY <2>1, <2>4 DEF CalledInv
<1> QED
  BY <1>8, <1>9, <1>10, <1>11, <1>12 DEF BusInv

(* The listeners of S are called.                                          *)
Counted(S) ==
    b_calls' = [n \in DOMAIN b_calls |->
                   IF \E l \in S : l.id = n /\ l.once THEN b_calls[n] + 1 ELSE b_calls[n]]

LEMMA CountedTyped ==
    ASSUME BusInv, NEW S \in SUBSET Known, Counted(S)
    PROVE  /\ b_calls' \in [0..(MaxListeners - 1) -> Nat] /\ DOMAIN b_calls' = DOMAIN b_calls
           /\ \A n \in DOMAIN b_calls : /\ b_calls[n] \in Nat
                                        /\ n >= b_counter => b_calls'[n] = b_calls[n]
                                        /\ \/ b_calls'[n] = b_calls[n]
                                           \/ /\ b_calls'[n] = b_calls[n] + 1
                                              /\ \E l \in S : l.id = n /\ l.once
           /\ \A l \in Known : l.id \in DOMAIN b_calls /\ (l \notin S => b_calls'[l.id] = b_calls[l.id])
<1>1. b_calls \in [0..(MaxListeners - 1) -> Nat] /\ b_counter \in Nat /\ MaxListeners \in Nat
      /\ Known \in SUBSET Listener /\ b_counter <= MaxListeners
  BY BusTyped DEF BusInv, BusType
<1>2. b_calls' \in [0..(MaxListeners - 1) -> Nat] /\ DOMAIN b_calls' = DOMAIN b_calls
  BY <1>1 DEF Counted
<1>3. \A l \in Known : l.id < b_counter /\ l.id \in Nat
  BY <1>1 DEF BusInv, IdInv, Listener
<1>4. ASSUME NEW n \in DOMAIN b_calls
      PROVE  /\ b_calls[n] \in Nat
             /\ n >= b_counter => b_calls'[n] = b_calls[n]
             /\ \/ b_calls'[n] = b_calls[n]
                \/ b_calls'[n] = b_calls[n] + 1 /\ \E l \in S : l.id = n /\ l.once
  <2>1. n \in Nat
    BY <1>1
  <2>2. n >= b_counter => ~\E l \in S : l.id = n
    BY <1>1, <1>3, <2>1
  <2> QED
    BY <1>1, <2>2 DEF Counted
<1>5. ASSUME NEW l \in Known
      PROVE  l.id \in DOMAIN b_calls /\ (l \notin S => b_calls'[l.id] = b_calls[l.id])
  <2>1. l.id \in DOMAIN b_calls
    BY <1>1, <1>3
  <2>2. l \notin S => ~\E m \in S : m.id = l.id
    BY DEF BusInv, IdInv
  <2> QED
    BY <2>1, <2>2 DEF Counted
<1> QED
  BY <1>2, <1>4, <1>5

(* An emit begins: those it holds are registered, and what another emit    *)
(* holds is shared from now on.                                            *)
LEMMA BeginKeeps ==
    ASSUME BusInv, NEW e \in Emit, NEW mode \in {"serial", "concurrent"}, Bus!Begin(e, mode)
    PROVE  BusInv' /\ UNCHANGED b_listeners
<1> DEFINE called == IF b_listeners = {} THEN {}
                     ELSE IF mode = "concurrent" THEN b_listeners ELSE {Bus!First(b_listeners)}
           x == [mode |-> mode, todo |-> b_listeners \ called, running |-> called,
                 remove |-> IF mode = "concurrent" THEN {l \in called : l.once} ELSE {},
                 seen |-> Bus!Ordered(called)]
<1>1. /\ b_emits[e].mode = "idle" /\ b_count < MaxEmits /\ b_count' = b_count + 1
      /\ b_listeners # {} /\ b_emits' = [b_emits EXCEPT ![e] = x] /\ Counted(called)
      /\ b_shared' = b_shared \cup {l.id : l \in {m \in b_listeners :
                                       \E f \in Emit \ {e} : m \in Bus!Held(f)}}
      /\ UNCHANGED <<b_listeners, b_counter, b_ended, b_doubled>>
  BY DEF Bus!Begin, Counted
<1>2. /\ b_listeners \in SUBSET Listener /\ IsFiniteSet(b_listeners) /\ Known \in SUBSET Listener
      /\ Bus!Held(e) = {} /\ b_listeners \subseteq Known
      /\ \A f \in Emit : Bus!Held(f) \subseteq Known
  BY <1>1, BusTyped DEF BusInv, Known
<1>3. \A l, m \in b_listeners : l.id = m.id => l = m
  BY <1>2 DEF BusInv, IdInv
<1>4. called \in SUBSET b_listeners /\ IsFiniteSet(called)
  <2>1. Bus!First(b_listeners) \in b_listeners
    BY <1>1, <1>2, <1>3, FirstIsFirst
  <2>2. IsFiniteSet({Bus!First(b_listeners)})
    BY FS_Singleton
  <2> QED
    BY <1>1, <1>2, <2>1, <2>2
<1>5. \/ b_listeners \ called = {}
      \/ /\ called = {Bus!First(b_listeners)}
         /\ \A m \in b_listeners \ called : Bus!Before(Bus!First(b_listeners), m)
  <2>1. \A m \in b_listeners \ {Bus!First(b_listeners)} : Bus!Before(Bus!First(b_listeners), m)
    BY <1>1, <1>2, <1>3, FirstIsFirst
  <2> QED
    BY <1>1, <2>1
<1> HIDE DEF called
<1>6. /\ Bus!Ordered(called) \in Seq(called)
      /\ DOMAIN Bus!Ordered(called) = 1..Len(Bus!Ordered(called))
      /\ \A i, j \in DOMAIN Bus!Ordered(called) :
            i < j => Bus!Before(Bus!Ordered(called)[i], Bus!Ordered(called)[j])
  <2>1. called \in SUBSET Listener /\ \A l, m \in called : l.id = m.id => l = m
    BY <1>2, <1>3, <1>4
  <2> QED
    BY <1>4, <2>1, OrderedLists
<1>7. /\ x \in BusEmit /\ x.mode # "idle" /\ x.todo = b_listeners \ called /\ x.running = called
      /\ HeldBy(x) \subseteq b_listeners /\ x.seen = Bus!Ordered(called)
  <2>1. Bus!Ordered(called) \in Seq(Listener)
    BY <1>2, <1>4, <1>6
  <2>2. {l \in called : l.once} \subseteq Listener /\ called \subseteq Listener
        /\ b_listeners \ called \subseteq Listener
    BY <1>2, <1>4
  <2>3. x \in BusEmit
    BY <2>1, <2>2 DEF BusEmit
  <2> QED
    BY <1>4, <2>3 DEF HeldBy
<1> HIDE DEF x
<1>8. IsFiniteSet(x.todo)
  BY <1>2, <1>7, FS_Subset
<1>9. /\ b_emits' \in [Emit -> BusEmit] /\ b_emits'[e] = x /\ Bus!Held(e)' = HeldBy(x)
      /\ \A f \in Emit \ {e} : b_emits'[f] = b_emits[f] /\ Bus!Held(f)' = Bus!Held(f)
      /\ \A f \in Emit : /\ IsFiniteSet(b_emits'[f].todo)
                         /\ b_emits'[f].mode = "idle" => b_emits'[f] = Bus!Idle
  BY <1>1, <1>7, <1>8, HeldNext DEF BusInv
<1>10. called \in SUBSET Known
  BY <1>2, <1>4
<1>11. /\ b_calls' \in [0..(MaxListeners - 1) -> Nat] /\ DOMAIN b_calls' = DOMAIN b_calls
       /\ \A n \in DOMAIN b_calls : /\ b_calls[n] \in Nat
                                    /\ n >= b_counter => b_calls'[n] = b_calls[n]
                                    /\ \/ b_calls'[n] = b_calls[n]
                                       \/ /\ b_calls'[n] = b_calls[n] + 1
                                          /\ \E l \in called : l.id = n /\ l.once
       /\ \A l \in Known : l.id \in DOMAIN b_calls
                           /\ (l \notin called => b_calls'[l.id] = b_calls[l.id])
  BY <1>1, <1>10, CountedTyped
<1>12. Known' \subseteq Known
  <2>1. \A f \in Emit : Bus!Held(f)' \subseteq Known
    BY <1>2, <1>7, <1>9
  <2> QED
    BY <1>1, <1>2, <2>1 DEF Known
<1>13. BusType'
  <2>1. b_count' \in 0..MaxEmits
    BY <1>1, BusAssumption DEF BusInv, BusType
  <2> QED
    BY <1>1, <1>9, <1>11, <2>1 DEF BusInv, BusType
<1>14. IdInv' /\ TwinInv'
  BY <1>1, <1>11, <1>12, NoneIsNew DEF BusInv
<1>15. SeenInv'
  <2>1. ASSUME NEW f \in Emit
        PROVE  /\ \A i, j \in DOMAIN b_emits'[f].seen :
                     i < j => Bus!Before(b_emits'[f].seen[i], b_emits'[f].seen[j])
               /\ \A i \in DOMAIN b_emits'[f].seen, l \in b_emits'[f].todo :
                     Bus!Before(b_emits'[f].seen[i], l)
    <3>1. CASE f # e
      BY <1>9, <3>1 DEF BusInv, SeenInv
    <3>2. ASSUME f = e, NEW i \in DOMAIN x.seen, NEW l \in x.todo
          PROVE  Bus!Before(x.seen[i], l)
      <4>1. called = {Bus!First(b_listeners)} /\ Bus!Before(Bus!First(b_listeners), l)
        BY <1>5, <1>7, <3>2
      <4>2. x.seen[i] \in called
        BY <1>6, <1>7, <3>2
      <4> QED
        BY <4>1, <4>2
    <3> QED
      BY <1>6, <1>7, <1>9, <3>1, <3>2
  <2> QED
    BY <2>1 DEF SeenInv
<1>16. CalledInv'
  <2>1. \A f \in Emit, l \in b_listeners : f # e /\ l \in Bus!Held(f) => l.id \in b_shared'
    BY <1>1
  <2>2. \A l \in b_listeners : Called(l) => l.id \in b_shared'
    BY <1>2, <2>1 DEF Called, Bus!Held
  <2>3. b_shared \subseteq b_shared'
    BY <1>1
  <2>4. ASSUME NEW n \in DOMAIN b_calls', b_calls'[n] > 1
        PROVE  n \in b_shared'
    <3>1. n \in DOMAIN b_calls /\ b_calls[n] \in Nat
      BY <1>11
    <3>2. CASE b_calls'[n] = b_calls[n]
      BY <2>3, <2>4, <3>1, <3>2 DEF BusInv, CalledInv
    <3>3. ASSUME b_calls'[n] = b_calls[n] + 1, NEW l \in called, l.id = n, l.once
          PROVE  n \in b_shared'
      <4>1. b_calls[l.id] > 0
        BY <2>4, <3>1, <3>3
      <4>2. l \in b_listeners /\ l \in Known
        BY <1>2, <1>4
      <4>3. l.id \in b_shared \/ Called(l)
        BY <3>3, <4>1, <4>2 DEF BusInv, CalledInv
      <4> QED
        BY <2>2, <2>3, <3>3, <4>2, <4>3
    <3> QED
      BY <1>11, <3>1, <3>2, <3>3
  <2>5. ASSUME NEW l \in Known', l.id \notin b_shared'
        PROVE  /\ \A a, b \in Emit : l \in Bus!Held(a)' /\ l \in Bus!Held(b)' => a = b
               /\ l.once /\ l \in b_listeners' /\ b_calls'[l.id] > 0 => Called(l)'
               /\ l.once /\ (\E a \in Emit : l \in b_emits'[a].todo) => b_calls'[l.id] = 0
    <3>1. l \in Known /\ l.id \notin b_shared /\ l.id \in DOMAIN b_calls /\ b_calls[l.id] \in Nat
      BY <1>11, <1>12, <2>3, <2>5
    <3>2. /\ \A a, b \in Emit : l \in Bus!Held(a) /\ l \in Bus!Held(b) => a = b
          /\ l.once /\ l \in b_listeners /\ b_calls[l.id] > 0 => Called(l)
          /\ l.once /\ (\E a \in Emit : l \in b_emits[a].todo) => b_calls[l.id] = 0
      BY <3>1 DEF BusInv, CalledInv
    <3>3. l \in b_listeners => \A f \in Emit : f # e => l \notin Bus!Held(f)
      BY <2>1, <2>5
    <3>4. \A a, b \in Emit : l \in Bus!Held(a)' /\ l \in Bus!Held(b)' => a = b
      BY <1>7, <1>9, <3>2, <3>3
    <3>5. l \in b_listeners => ~Called(l)
      BY <2>2, <2>5
    <3>6. ASSUME l.once, l \in b_listeners', b_calls'[l.id] > 0
          PROVE  Called(l)'
      <4>1. l \in called
        BY <1>1, <1>11, <3>1, <3>2, <3>5, <3>6
      <4>2. l \in b_emits'[e].running
        BY <1>7, <1>9, <4>1
      <4> QED
        BY <4>2 DEF Called
    <3>7. ASSUME l.once, NEW a \in Emit, l \in b_emits'[a].todo
          PROVE  b_calls'[l.id] = 0
      <4>1. CASE a = e
        <5>1. l \in b_listeners /\ l \notin called
          BY <1>7, <1>9, <3>7, <4>1
        <5>2. ~(b_calls[l.id] > 0)
          BY <3>2, <3>5, <3>7, <5>1
        <5> QED
          BY <1>11, <3>1, <5>1, <5>2
      <4>2. CASE a # e
        <5>1. l \in b_emits[a].todo /\ l \in Bus!Held(a)
          BY <1>9, <3>7, <4>2 DEF Bus!Held
        <5>2. b_calls[l.id] = 0
          BY <3>2, <3>7, <5>1
        <5>3. l \notin called
          BY <1>4, <3>3, <4>2, <5>1
        <5> QED
          BY <1>11, <3>1, <5>2, <5>3
      <4> QED
        BY <4>1, <4>2
    <3> QED
      BY <3>4, <3>6, <3>7
  <2> QED
    BY <2>4, <2>5 DEF CalledInv
<1> QED
  BY <1>1, <1>13, <1>14, <1>15, <1>16 DEF BusInv

(* A callback ends: what its emit goes on as, and what it leaves behind.   *)
LEMMA ReturnDoes ==
    ASSUME BusInv, NEW e \in Emit, NEW l \in b_emits[e].running, Bus!Return(e, l)
    PROVE  \E next \in SUBSET b_emits[e].todo, x \in BusEmit, y \in BusEmit :
              /\ next = {} \/ \E m \in next : /\ next = {m}
                                              /\ \A k \in b_emits[e].todo \ next : Bus!Before(m, k)
              /\ Counted(next)
              /\ x.todo = b_emits[e].todo \ next /\ x.running = (b_emits[e].running \ {l}) \cup next
              /\ x.remove = b_emits[e].remove \cup (IF l.once THEN {l} ELSE {})
              /\ x.seen = b_emits[e].seen \o Bus!Ordered(next) /\ x.mode # "idle"
              /\ \/ /\ x.running = {} /\ x.todo = {} /\ y = Bus!Idle
                    /\ b_listeners' = {k \in b_listeners : ~\E m \in x.remove :
                                          k.pattern = m.pattern /\ k.callback = m.callback}
                    /\ b_ended' = b_ended \cup {m.id : m \in x.remove}
                 \/ /\ x.running # {} \/ x.todo # {}
                    /\ y = x /\ UNCHANGED <<b_listeners, b_ended>>
              /\ b_emits' = [b_emits EXCEPT ![e] = y]
              /\ UNCHANGED <<b_counter, b_count, b_shared, b_doubled>>
<1> DEFINE left == b_emits[e].todo
           next == IF b_emits[e].mode = "concurrent" \/ left = {} THEN {} ELSE {Bus!First(left)}
           x == [b_emits[e] EXCEPT !.running = (b_emits[e].running \ {l}) \cup next,
                    !.todo = left \ next,
                    !.remove = IF l.once THEN b_emits[e].remove \cup {l} ELSE b_emits[e].remove,
                    !.seen = b_emits[e].seen \o Bus!Ordered(next)]
           over == x.running = {} /\ x.todo = {}
           y == IF over THEN Bus!Idle ELSE x
<1>1. /\ Counted(next)
      /\ IF over
         THEN /\ b_emits' = [b_emits EXCEPT ![e] = Bus!Idle]
              /\ b_listeners' = {k \in b_listeners : ~\E m \in x.remove :
                                          k.pattern = m.pattern /\ k.callback = m.callback}
              /\ b_ended' = b_ended \cup {m.id : m \in x.remove}
         ELSE b_emits' = [b_emits EXCEPT ![e] = x] /\ UNCHANGED <<b_listeners, b_ended>>
      /\ UNCHANGED <<b_counter, b_count, b_shared, b_doubled>>
  BY DEF Bus!Return, Bus!Left, Bus!Over, Bus!Removed, Counted
<1>2. /\ b_emits[e] \in BusEmit /\ IsFiniteSet(left) /\ Known \in SUBSET Listener
      /\ Bus!Held(e) \subseteq Known /\ b_emits[e].mode # "idle"
  <2>1. Bus!Idle.running = {}
    BY DEF Bus!Idle
  <2> QED
    BY <2>1, BusTyped DEF BusInv
<1>3. left \subseteq Known /\ l \in Known /\ left \in SUBSET Listener /\ l \in Listener
  BY <1>2 DEF Bus!Held
<1>4. left # {} => Bus!First(left) \in left
                   /\ \A k \in left \ {Bus!First(left)} : Bus!Before(Bus!First(left), k)
  <2>1. \A k, m \in left : k.id = m.id => k = m
    BY <1>3 DEF BusInv, IdInv
  <2> QED
    BY <1>2, <1>3, <2>1, FirstIsFirst
<1>5. /\ next \in SUBSET left
      /\ next = {} \/ \E m \in next : next = {m} /\ \A k \in left \ next : Bus!Before(m, k)
  BY <1>4
<1>6. Bus!Ordered(next) \in Seq(Listener)
  <2>1. next \in SUBSET Listener /\ (next = {} \/ \E m \in next : next = {m})
    BY <1>3, <1>5
  <2> HIDE DEF next
  <2>2. Bus!Ordered(next) \in Seq(next)
    BY <2>1, OrderedOne
  <2> QED
    BY <2>1, <2>2
<1> HIDE DEF next
<1>7. /\ x \in BusEmit /\ x.todo = left \ next /\ x.running = (b_emits[e].running \ {l}) \cup next
      /\ x.remove = b_emits[e].remove \cup (IF l.once THEN {l} ELSE {})
      /\ x.seen = b_emits[e].seen \o Bus!Ordered(next) /\ x.mode # "idle"
  <2>1. /\ b_emits[e].mode \in {"idle", "serial", "concurrent"}
        /\ b_emits[e].running \subseteq Listener /\ b_emits[e].remove \subseteq Listener
        /\ b_emits[e].seen \in Seq(Listener)
    BY <1>2, BusEmitTyped
  <2>2. b_emits[e].seen \o Bus!Ordered(next) \in Seq(Listener)
    BY <1>6, <2>1
  <2>3. /\ (b_emits[e].running \ {l}) \cup next \in SUBSET Listener /\ left \ next \in SUBSET Listener
        /\ (IF l.once THEN b_emits[e].remove \cup {l} ELSE b_emits[e].remove) \in SUBSET Listener
        /\ (IF l.once THEN b_emits[e].remove \cup {l} ELSE b_emits[e].remove)
           = b_emits[e].remove \cup (IF l.once THEN {l} ELSE {})
    BY <1>3, <1>5, <2>1
  <2> QED
    BY <1>2, <2>2, <2>3 DEF BusEmit
<1>8. y \in BusEmit
  <2>1. Bus!Idle \in BusEmit
    BY DEF Bus!Idle, BusEmit
  <2> QED
    BY <1>7, <2>1
<1>9. /\ \/ /\ x.running = {} /\ x.todo = {} /\ y = Bus!Idle
            /\ b_listeners' = {k \in b_listeners : ~\E m \in x.remove :
                                  k.pattern = m.pattern /\ k.callback = m.callback}
            /\ b_ended' = b_ended \cup {m.id : m \in x.remove}
         \/ /\ x.running # {} \/ x.todo # {}
            /\ y = x /\ UNCHANGED <<b_listeners, b_ended>>
      /\ b_emits' = [b_emits EXCEPT ![e] = y]
  BY <1>1
<1> HIDE DEF x, y, over
<1> QED
  BY <1>1, <1>5, <1>7, <1>8, <1>9

LEMMA ReturnKeeps ==
    ASSUME BusInv, NEW e \in Emit, NEW l \in b_emits[e].running, Bus!Return(e, l)
    PROVE  BusInv' /\ (~b_doubled => \A k \in b_listeners \ b_listeners' : k.id \in b_ended')
<1>1. PICK next \in SUBSET b_emits[e].todo, x \in BusEmit, y \in BusEmit :
              /\ next = {} \/ \E m \in next : /\ next = {m}
                                              /\ \A k \in b_emits[e].todo \ next : Bus!Before(m, k)
              /\ Counted(next)
              /\ x.todo = b_emits[e].todo \ next /\ x.running = (b_emits[e].running \ {l}) \cup next
              /\ x.remove = b_emits[e].remove \cup (IF l.once THEN {l} ELSE {})
              /\ x.seen = b_emits[e].seen \o Bus!Ordered(next) /\ x.mode # "idle"
              /\ \/ /\ x.running = {} /\ x.todo = {} /\ y = Bus!Idle
                    /\ b_listeners' = {k \in b_listeners : ~\E m \in x.remove :
                                          k.pattern = m.pattern /\ k.callback = m.callback}
                    /\ b_ended' = b_ended \cup {m.id : m \in x.remove}
                 \/ /\ x.running # {} \/ x.todo # {}
                    /\ y = x /\ UNCHANGED <<b_listeners, b_ended>>
              /\ b_emits' = [b_emits EXCEPT ![e] = y]
              /\ UNCHANGED <<b_counter, b_count, b_shared, b_doubled>>
  BY ReturnDoes
<1>2. /\ b_listeners \in SUBSET Listener /\ IsFiniteSet(b_listeners) /\ Known \in SUBSET Listener
      /\ b_listeners \subseteq Known /\ \A f \in Emit : Bus!Held(f) \subseteq Known
      /\ b_emits[e] \in BusEmit /\ IsFiniteSet(b_emits[e].todo)
      /\ Bus!Held(e) = HeldBy(b_emits[e])
  BY BusTyped DEF BusInv, Known
<1>3. /\ Bus!Idle.todo = {} /\ Bus!Idle.running = {} /\ Bus!Idle.remove = {} /\ Bus!Idle.seen = <<>>
      /\ HeldBy(Bus!Idle) = {}
  BY DEF Bus!Idle, HeldBy
<1>4. /\ y.todo \subseteq b_emits[e].todo \ next /\ HeldBy(y) \subseteq Bus!Held(e)
      /\ y.todo # {} => y = x
  <2>1. HeldBy(x) \subseteq Bus!Held(e)
    BY <1>1, <1>2 DEF HeldBy
  <2> QED
    BY <1>1, <1>3, <2>1
<1>5. IsFiniteSet(y.todo) /\ (y.mode = "idle" => y = Bus!Idle)
  <2>1. IsFiniteSet(y.todo)
    BY <1>2, <1>4, FS_Subset
  <2> QED
    BY <1>1, <2>1
<1>6. /\ b_emits' \in [Emit -> BusEmit] /\ b_emits'[e] = y /\ Bus!Held(e)' = HeldBy(y)
      /\ \A f \in Emit \ {e} : b_emits'[f] = b_emits[f] /\ Bus!Held(f)' = Bus!Held(f)
      /\ \A f \in Emit : /\ IsFiniteSet(b_emits'[f].todo)
                         /\ b_emits'[f].mode = "idle" => b_emits'[f] = Bus!Idle
  <2>1. b_emits' = [b_emits EXCEPT ![e] = y]
    BY <1>1
  <2> QED
    BY <1>5, <2>1, HeldNext DEF BusInv
<1>7. next \in SUBSET Known /\ next \subseteq Bus!Held(e) /\ l \in Bus!Held(e)
  BY <1>2 DEF Bus!Held
<1>8. Counted(next)
  BY <1>1
<1>9. /\ b_calls' \in [0..(MaxListeners - 1) -> Nat] /\ DOMAIN b_calls' = DOMAIN b_calls
      /\ \A n \in DOMAIN b_calls : /\ b_calls[n] \in Nat
                                   /\ n >= b_counter => b_calls'[n] = b_calls[n]
                                   /\ \/ b_calls'[n] = b_calls[n]
                                      \/ /\ b_calls'[n] = b_calls[n] + 1
                                         /\ \E k \in next : k.id = n /\ k.once
      /\ \A k \in Known : k.id \in DOMAIN b_calls
                          /\ (k \notin next => b_calls'[k.id] = b_calls[k.id])
  BY <1>7, <1>8, CountedTyped
<1>10. /\ b_listeners' \subseteq b_listeners
       /\ UNCHANGED <<b_counter, b_count, b_shared, b_doubled>>
  BY <1>1
<1>11. /\ Known' \subseteq Known
       /\ \A f \in Emit : Bus!Held(f)' \subseteq Bus!Held(f)
  <2>1. \A f \in Emit : Bus!Held(f)' \subseteq Bus!Held(f)
    BY <1>4, <1>6
  <2> QED
    BY <1>10, <2>1 DEF Known
<1>12. BusType'
  <2>1. IsFiniteSet(b_listeners') /\ b_listeners' \subseteq Listener
    BY <1>2, <1>10, FS_Subset
  <2> QED
    BY <1>6, <1>9, <1>10, <2>1 DEF BusInv, BusType
<1>13. IdInv' /\ TwinInv'
  BY <1>9, <1>10, <1>11, NoneIsNew DEF BusInv
<1>14. SeenInv'
  <2>1. b_emits[e].seen \in Seq(Listener) /\ b_emits[e].todo \subseteq Listener
    BY <1>2, BusEmitTyped
  <2>2. /\ \A i, j \in DOMAIN b_emits[e].seen :
              i < j => Bus!Before(b_emits[e].seen[i], b_emits[e].seen[j])
        /\ \A i \in DOMAIN b_emits[e].seen, k \in b_emits[e].todo :
              Bus!Before(b_emits[e].seen[i], k)
    BY DEF BusInv, SeenInv
  <2>3. CASE next = {}
    <3>1. Bus!Ordered(next) = <<>>
      <4>1. next \in SUBSET Listener
        BY <2>1
      <4> QED
        BY <2>3, <4>1, OrderedOne
    <3>2. x.seen = b_emits[e].seen
      BY <1>1, <2>1, <3>1
    <3>3. y.seen = <<>> \/ y.seen = b_emits[e].seen
      BY <1>1, <1>3, <3>2
    <3>4. ASSUME NEW f \in Emit
          PROVE  /\ \A i, j \in DOMAIN b_emits'[f].seen :
                       i < j => Bus!Before(b_emits'[f].seen[i], b_emits'[f].seen[j])
                 /\ \A i \in DOMAIN b_emits'[f].seen, k \in b_emits'[f].todo :
                       Bus!Before(b_emits'[f].seen[i], k)
      <4>1. CASE f # e
        BY <1>6, <4>1 DEF BusInv, SeenInv
      <4>2. CASE f = e
        BY <1>4, <1>6, <2>2, <3>3, <4>2
      <4> QED
        BY <4>1, <4>2
    <3> QED
      BY <3>4 DEF SeenInv
  <2>4. ASSUME NEW m \in next, next = {m}, \A k \in b_emits[e].todo \ next : Bus!Before(m, k)
        PROVE  SeenInv'
    <3>1. Bus!Ordered(next) = <<m>>
      <4>1. next \in SUBSET Listener
        BY <2>1
      <4> QED
        BY <2>4, <4>1, OrderedOne
    <3>2. x.seen = b_emits[e].seen \o <<m>> /\ y = x
      BY <1>1, <3>1
    <3> DEFINE s == b_emits[e].seen
    <3>3. /\ s \in Seq(Listener) /\ m \in Listener
      BY <2>1, <2>4
    <3> HIDE DEF s
    <3>4. /\ DOMAIN (s \o <<m>>) = 1..(Len(s) + 1) /\ Len(s) \in Nat /\ DOMAIN s = 1..Len(s)
          /\ \A i \in 1..Len(s) : (s \o <<m>>)[i] = s[i]
          /\ (s \o <<m>>)[Len(s) + 1] = m
      BY <3>3
    <3>5. y.seen = s \o <<m>>
      BY <3>2 DEF s
    <3>6. /\ \A i, j \in DOMAIN s : i < j => Bus!Before(s[i], s[j])
          /\ \A i \in DOMAIN s, k \in b_emits[e].todo : Bus!Before(s[i], k)
      BY <2>2 DEF s
    <3>7. ASSUME NEW i \in DOMAIN y.seen
          PROVE  /\ \A j \in DOMAIN y.seen : i < j => Bus!Before(y.seen[i], y.seen[j])
                 /\ \A k \in y.todo : Bus!Before(y.seen[i], k)
      <4>1. CASE i \in DOMAIN s
        <5>1. y.seen[i] = s[i]
          BY <3>4, <3>5, <4>1
        <5>2. \A k \in b_emits[e].todo : Bus!Before(s[i], k)
          BY <3>6, <4>1
        <5>3. ASSUME NEW j \in DOMAIN y.seen, i < j
              PROVE  Bus!Before(y.seen[i], y.seen[j])
          <6>1. (j \in DOMAIN s /\ y.seen[j] = s[j]) \/ y.seen[j] = m
            BY <3>4, <3>5
          <6> QED
            BY <2>4, <3>6, <4>1, <5>1, <5>2, <5>3, <6>1
        <5> QED
          BY <1>4, <5>1, <5>2, <5>3
      <4>2. CASE i = Len(s) + 1
        <5>1. y.seen[i] = m
          BY <3>4, <3>5, <4>2
        <5>2. \A j \in DOMAIN y.seen : ~(i < j)
          BY <3>4, <3>5, <4>2
        <5> QED
          BY <1>4, <2>4, <5>1, <5>2
      <4> QED
        BY <3>4, <3>5, <4>1, <4>2
    <3>8. ASSUME NEW f \in Emit
          PROVE  /\ \A i, j \in DOMAIN b_emits'[f].seen :
                       i < j => Bus!Before(b_emits'[f].seen[i], b_emits'[f].seen[j])
                 /\ \A i \in DOMAIN b_emits'[f].seen, k \in b_emits'[f].todo :
                       Bus!Before(b_emits'[f].seen[i], k)
      <4>1. CASE f # e
        BY <1>6, <4>1 DEF BusInv, SeenInv
      <4>2. CASE f = e
        BY <1>6, <3>7, <4>2
      <4> QED
        BY <4>1, <4>2
    <3> QED
      BY <3>8 DEF SeenInv
  <2> QED
    BY <1>1, <2>3, <2>4
<1>15. CalledInv'
  <2>1. ASSUME NEW n \in DOMAIN b_calls', b_calls'[n] > 1
        PROVE  n \in b_shared'
    <3>1. n \in DOMAIN b_calls /\ b_calls[n] \in Nat
      BY <1>9
    <3>2. CASE b_calls'[n] = b_calls[n]
      BY <1>10, <2>1, <3>1, <3>2 DEF BusInv, CalledInv
    <3>3. ASSUME b_calls'[n] = b_calls[n] + 1, NEW k \in next, k.id = n, k.once
          PROVE  n \in b_shared'
      <4>1. b_calls[k.id] # 0
        BY <2>1, <3>1, <3>3
      <4>2. k \in Known /\ k \in b_emits[e].todo
        BY <1>7
      <4> QED
        BY <1>10, <3>3, <4>1, <4>2 DEF BusInv, CalledInv
    <3> QED
      BY <1>9, <3>1, <3>2, <3>3
  <2>2. ASSUME NEW k \in Known', k.id \notin b_shared'
        PROVE  /\ \A a, b \in Emit : k \in Bus!Held(a)' /\ k \in Bus!Held(b)' => a = b
               /\ k.once /\ k \in b_listeners' /\ b_calls'[k.id] > 0 => Called(k)'
               /\ k.once /\ (\E a \in Emit : k \in b_emits'[a].todo) => b_calls'[k.id] = 0
    <3>1. k \in Known /\ k.id \notin b_shared
      BY <1>10, <1>11, <2>2
    <3>2. /\ \A a, b \in Emit : k \in Bus!Held(a) /\ k \in Bus!Held(b) => a = b
          /\ k.once /\ k \in b_listeners /\ b_calls[k.id] > 0 => Called(k)
          /\ k.once /\ (\E a \in Emit : k \in b_emits[a].todo) => b_calls[k.id] = 0
      BY <3>1 DEF BusInv, CalledInv
    <3>3. \A a, b \in Emit : k \in Bus!Held(a)' /\ k \in Bus!Held(b)' => a = b
      BY <1>11, <3>2
    <3>4. ASSUME k.once, k \in b_listeners', b_calls'[k.id] > 0
          PROVE  Called(k)'
      <4>1. CASE k \in next
        <5>1. k \in x.running /\ y = x
          BY <1>1, <4>1
        <5>2. k \in b_emits'[e].running
          BY <1>6, <5>1
        <5> QED
          BY <5>2 DEF Called
      <4>2. CASE k \notin next
        <5>1. b_calls'[k.id] = b_calls[k.id] /\ k \in b_listeners
          BY <1>9, <1>10, <3>1, <3>4, <4>2
        <5>2. PICK f \in Emit : k \in b_emits[f].running \cup b_emits[f].remove
          BY <3>2, <3>4, <5>1 DEF Called
        <5>3. CASE f # e
          <6>1. k \in b_emits'[f].running \cup b_emits'[f].remove
            BY <1>6, <5>2, <5>3
          <6> QED
            BY <6>1 DEF Called
        <5>4. CASE f = e
          <6>1. k \in x.running \cup x.remove
            BY <1>1, <3>4, <5>2, <5>4
          <6>2. y = x
            BY <1>1, <3>4, <6>1
          <6>3. k \in b_emits'[e].running \cup b_emits'[e].remove
            BY <1>6, <6>1, <6>2
          <6> QED
            BY <6>3 DEF Called
        <5> QED
          BY <5>3, <5>4
      <4> QED
        BY <4>1, <4>2
    <3>5. ASSUME k.once, NEW a \in Emit, k \in b_emits'[a].todo
          PROVE  b_calls'[k.id] = 0
      <4>1. k \in b_emits[a].todo /\ k \notin next
        <5>1. CASE a = e
          BY <1>4, <1>6, <3>5, <5>1
        <5>2. CASE a # e
          <6>1. k \in b_emits[a].todo
            BY <1>6, <3>5, <5>2
          <6>2. k \in Bus!Held(a)
            BY <6>1 DEF Bus!Held
          <6> QED
            BY <1>7, <3>2, <5>2, <6>1, <6>2
        <5> QED
          BY <5>1, <5>2
      <4>2. b_calls[k.id] = 0
        BY <3>2, <3>5, <4>1
      <4> QED
        BY <1>9, <3>1, <4>1, <4>2
    <3> QED
      BY <3>3, <3>4, <3>5
  <2> QED
    BY <2>1, <2>2 DEF CalledInv
<1>16. ASSUME ~b_doubled, NEW k \in b_listeners \ b_listeners'
       PROVE  k.id \in b_ended'
  <2>1. /\ b_ended' = b_ended \cup {m.id : m \in x.remove}
        /\ \E m \in x.remove : k.pattern = m.pattern /\ k.callback = m.callback
    BY <1>1, <1>16
  <2>2. PICK m \in x.remove : k.pattern = m.pattern /\ k.callback = m.callback
    BY <2>1
  <2>3. m \in Known
    BY <1>1, <1>2, <1>7 DEF Bus!Held
  <2>4. k = m
    BY <1>2, <1>16, <2>2, <2>3 DEF BusInv, TwinInv
  <2> QED
    BY <2>1, <2>4
<1> QED
  BY <1>12, <1>13, <1>14, <1>15, <1>16 DEF BusInv

LEMMA BusInductive ==
    ASSUME BusInv, [Bus!Next]_(Bus!vars)
    PROVE  /\ BusInv'
           /\ [b_emits' # b_emits /\ ~b_doubled
               => \A l \in b_listeners \ b_listeners' : l.id \in b_ended']_(Bus!vars)
<1> DEFINE Goes == /\ BusInv'
                   /\ b_emits' # b_emits /\ ~b_doubled
                      => \A l \in b_listeners \ b_listeners' : l.id \in b_ended'
<1>1. ASSUME NEW p \in Pattern, NEW c \in Callback, NEW o \in Owner, NEW pri \in Priority,
             NEW once \in BOOLEAN, Bus!On(p, c, o, pri, once)
      PROVE  Goes
  BY <1>1, OnKeeps DEF Bus!On
<1>2. ASSUME NEW p \in Pattern, NEW c \in Callback, Bus!Off(p, c) PROVE Goes
  BY <1>2, LeaveKeeps DEF Bus!Off, Bus!Without
<1>3. ASSUME NEW o \in Owner, Bus!UnregisterByOwner(o) PROVE Goes
  BY <1>3, LeaveKeeps DEF Bus!UnregisterByOwner
<1>4. ASSUME NEW e \in Emit, NEW mode \in {"serial", "concurrent"}, Bus!Begin(e, mode) PROVE Goes
  BY <1>4, BeginKeeps
<1>5. ASSUME NEW e \in Emit, NEW l \in b_emits[e].running, Bus!Return(e, l) PROVE Goes
  BY <1>5, ReturnKeeps
<1>6. CASE UNCHANGED Bus!vars
  <2>1. UNCHANGED <<b_listeners, b_counter, b_emits, b_count, b_calls, b_ended, b_shared, b_doubled>>
    BY <1>6 DEF Bus!vars
  <2> QED
    BY <1>6, <2>1, LeaveKeeps
<1> HIDE DEF Goes
<1>7. ASSUME Bus!Next PROVE Goes
  <2>1. CASE \E p \in Pattern, c \in Callback, o \in Owner, pri \in Priority, once \in BOOLEAN :
                Bus!On(p, c, o, pri, once)
    BY <1>1, <2>1
  <2>2. CASE \E p \in Pattern, c \in Callback : Bus!Off(p, c)
    BY <1>2, <2>2
  <2>3. CASE \E o \in Owner : Bus!UnregisterByOwner(o)
    BY <1>3, <2>3
  <2>4. ASSUME NEW e \in Emit, \E mode \in {"serial", "concurrent"} : Bus!Begin(e, mode) PROVE Goes
    BY <1>4, <2>4
  <2>5. ASSUME NEW e \in Emit, \E l \in b_emits[e].running : Bus!Return(e, l) PROVE Goes
    BY <1>5, <2>5
  <2> QED
    BY <1>7, <2>1, <2>2, <2>3, <2>4, <2>5 DEF Bus!Next
<1> QED
  BY <1>6, <1>7 DEF Goes

LEMMA BusStarts == Bus!Init => BusInv
<1> SUFFICES ASSUME Bus!Init PROVE BusInv
  OBVIOUS
<1>1. /\ b_listeners = {} /\ b_counter = 0 /\ b_emits = [e \in Emit |-> Bus!Idle] /\ b_count = 0
      /\ b_calls = [n \in 0..(MaxListeners - 1) |-> 0] /\ b_shared = {} /\ b_doubled = FALSE
  BY DEF Bus!Init
<1>2. Bus!Idle = [mode |-> "idle", todo |-> {}, running |-> {}, remove |-> {}, seen |-> <<>>]
  BY DEF Bus!Idle
<1>3. \A e \in Emit : b_emits[e] = Bus!Idle /\ Bus!Held(e) = {}
  BY <1>1, <1>2 DEF Bus!Held
<1>4. Known = {}
  BY <1>1, <1>3 DEF Known
<1>5. BusType
  <2>1. Bus!Idle \in BusEmit
    BY <1>2 DEF BusEmit
  <2>2. IsFiniteSet({}) /\ \A e \in Emit : IsFiniteSet(b_emits[e].todo)
    <3>1. Bus!Idle.todo = {}
      BY <1>2
    <3> QED
      BY <1>3, <3>1, FS_EmptySet
  <2>3. b_emits \in [Emit -> BusEmit] /\ b_calls \in [0..(MaxListeners - 1) -> Nat]
    BY <1>1, <2>1
  <2>4. b_counter \in 0..MaxListeners /\ b_count \in 0..MaxEmits
    BY <1>1, BusAssumption
  <2> QED
    BY <1>1, <1>3, <2>1, <2>2, <2>3, <2>4 DEF BusType
<1>6. IdInv /\ TwinInv /\ CalledInv
  BY <1>1, <1>4 DEF IdInv, TwinInv, CalledInv
<1>7. SeenInv
  BY <1>2, <1>3 DEF SeenInv
<1> QED
  BY <1>5, <1>6, <1>7 DEF BusInv

LEMMA BusMeans == BusInv => Bus!TypeOK /\ Bus!OnceIsOnce /\ Bus!CallsAreOrdered
<1> SUFFICES ASSUME BusInv PROVE Bus!TypeOK /\ Bus!OnceIsOnce /\ Bus!CallsAreOrdered
  OBVIOUS
<1>1. Bus!TypeOK
  <2>1. ASSUME NEW l \in b_listeners
        PROVE  /\ l.id \in 0..(MaxListeners - 1) /\ l.pattern \in Pattern
               /\ l.callback \in Callback /\ l.owner \in Owner
               /\ l.priority \in Priority /\ l.once \in BOOLEAN
    <3>1. l \in Listener /\ l \in Known /\ l.id < b_counter
          /\ b_counter \in 0..MaxListeners /\ MaxListeners \in Nat
      BY BusAssumption DEF BusInv, BusType, IdInv, Known
    <3>2. l.id \in Nat
      BY <3>1 DEF Listener
    <3>3. l.id \in 0..(MaxListeners - 1)
      BY <3>1, <3>2
    <3> QED
      BY <3>1, <3>3 DEF Listener
  <2>2. \A e \in Emit : b_emits[e].mode \in {"idle", "serial", "concurrent"}
    BY BusEmitTyped DEF BusInv, BusType
  <2> QED
    BY <2>1, <2>2 DEF BusInv, BusType, Bus!TypeOK
<1>2. Bus!OnceIsOnce
  BY DEF BusInv, CalledInv, Bus!OnceIsOnce
<1>3. Bus!CallsAreOrdered
  BY DEF BusInv, SeenInv, Bus!CallsAreOrdered
<1> QED
  BY <1>1, <1>2, <1>3

(* In every behaviour of the services a once listener is called once       *)
(* unless its event came again while an emit held it, the calls of an emit *)
(* come by priority and age, and its end removes no listener it did not    *)
(* call unless a callback was registered twice.                            *)
THEOREM CallsRight == SvcSpec => CallsAreRight
<1>1. SvcSpec => Bus!Spec
  BY Each
<1>2. Bus!Spec => []BusInv
  BY BusStarts, BusInductive, PTL DEF Bus!Spec
<1>3. BusInv => (which = "events" => Bus!TypeOK /\ Bus!OnceIsOnce /\ Bus!CallsAreOrdered)
  BY BusMeans
<1>4. BusInv /\ [Bus!Next]_(Bus!vars)
         => [b_emits' # b_emits /\ ~b_doubled
             => \A l \in b_listeners \ b_listeners' : l.id \in b_ended']_(Bus!vars)
  BY BusInductive
<1> QED
  BY <1>1, <1>2, <1>3, <1>4, PTL DEF CallsAreRight, Bus!NoneIsLost, Bus!Spec

-------------------------------------------------------------------------------
(* The bus of the plugins.                                                 *)

(* The shapes of what it keeps.                                            *)
TalkKind == {"none", "sent", "waiting", "result", "error", "timeout"}
TalkOutcome == [kind : TalkKind, of : Handler \cup {"none"}]
TalkMsg ==
    [kind : {"send", "request", "response"}, id : 1..MaxMessages, from : Machine,
     to : Machine \cup {Talk!All}, payload : TalkOutcome]
Delivery ==
    [at : Machine, msg : TalkMsg, heard : BOOLEAN, awaiting : Handler \cup {"none"}, next : Nat,
     last : Handler \cup {"none", "throws"}]

TalkType ==
    /\ u_handlers \in [Machine -> Seq(Handler)]
    /\ u_wire \in [Machine -> Seq(TalkMsg)]
    /\ u_pending \subseteq 1..u_messages /\ u_removed \subseteq Machine \X Handler
    /\ u_runs \subseteq Delivery
    /\ u_outcome \in [1..MaxMessages -> TalkOutcome]
    /\ u_messages \in 0..MaxMessages
    /\ DOMAIN u_sent = 1..MaxMessages
    /\ u_called \in [1..MaxMessages -> Seq(Machine \X Handler)]

(* A machine has a handler once; a delivery goes through them in order.    *)
PlaceInv ==
    /\ \A m \in Machine : \A i, j \in DOMAIN u_handlers[m] :
          u_handlers[m][i] = u_handlers[m][j] => i = j
    /\ \A d \in u_runs : d.next >= 1 /\ (d.next <= Len(u_handlers[d.at]) + 1 \/ d.next = 2)

(* The messages so far; those to come were given to no handler.            *)
SentInv ==
    /\ \A id \in 1..u_messages :
          /\ u_sent[id] \in TalkMsg /\ u_sent[id].id = id /\ u_sent[id].kind # "response"
          /\ u_sent[id].kind = "request" => u_sent[id].to \in Machine
    /\ \A id \in 1..MaxMessages : id > u_messages => u_called[id] = <<>>

(* What is on the wire of a machine is a message for it, once, or an       *)
(* answer to one of its requests.                                          *)
OnWire(m, id) == \E i \in DOMAIN u_wire[m] : u_wire[m][i].id = id /\ u_wire[m][i].kind # "response"
OnWireOnce(w) ==
    \A i, j \in DOMAIN w :
        w[i].kind # "response" /\ w[j].kind # "response" /\ w[i].id = w[j].id => i = j
TalkWireInv ==
    \A m \in Machine :
        /\ \A i \in DOMAIN u_wire[m] :
              LET msg == u_wire[m][i] IN
              /\ msg.id \in 1..u_messages /\ u_sent[msg.id].to # u_sent[msg.id].from
              /\ msg.kind # "response" => msg = u_sent[msg.id] /\ msg.to \in {m, Talk!All}
              /\ msg.kind = "response" => /\ u_sent[msg.id].kind = "request"
                                          /\ msg.payload.kind \in {"result", "error"}
        /\ OnWireOnce(u_wire[m])

(* A delivery is of a message for its machine, here before the wire or     *)
(* heard from it, once each.                                               *)
DeliveryInv ==
    /\ \A d \in u_runs :
          /\ d.msg.id \in 1..u_messages /\ d.msg = u_sent[d.msg.id]
          /\ d.msg.to \in {d.at, Talk!All}
          /\ d.heard => d.msg.to # d.msg.from /\ ~OnWire(d.at, d.msg.id)
          /\ ~d.heard => d.at = d.msg.from
    /\ \A d, e \in u_runs : d.msg.id = e.msg.id /\ d.at = e.at /\ d.heard = e.heard => d = e

(* A request is waited for while nothing became of it.                     *)
PendingInv ==
    \A id \in 1..u_messages :
        id \in u_pending <=> u_outcome[id].kind = "waiting" /\ u_sent[id].to # u_sent[id].from

(* The last call of a message was of h on m.                               *)
LastWas(id, m, h) == u_called[id] # <<>> /\ u_called[id][Len(u_called[id])] = <<m, h>>

(* A request that has an answer was heard and is over.                     *)
OverWith(id, h) ==
    /\ LastWas(id, u_sent[id].to, h) /\ u_sent[id].kind = "request"
    /\ \A d \in u_runs : d.msg.id # id
    /\ \A m \in Machine : ~OnWire(m, id)
LastInv ==
    /\ \A d \in u_runs : d.msg.kind = "request" =>
          /\ d.awaiting # "none" => LastWas(d.msg.id, d.at, d.awaiting)
          /\ d.awaiting = "none" /\ d.last \notin {"none", "throws"} => LastWas(d.msg.id, d.at, d.last)
    /\ \A m \in Machine : \A i \in DOMAIN u_wire[m] :
          u_wire[m][i].kind = "response" /\ u_wire[m][i].payload.kind = "result" =>
             OverWith(u_wire[m][i].id, u_wire[m][i].payload.of)
    /\ \A id \in 1..u_messages : u_outcome[id].kind = "result" => OverWith(id, u_outcome[id].of)

(* How often a handler was called with a message, and may still be.        *)
Counts(s, c) == Cardinality({i \in DOMAIN s : s[i] = c})
Ahead(d, h) ==
    d.awaiting # "none" /\ \A i \in DOMAIN u_handlers[d.at] : i < d.next => u_handlers[d.at][i] # h
Yet(id, m, h, heard) ==
    \/ heard /\ OnWire(m, id)
    \/ \E d \in u_runs : d.msg.id = id /\ d.at = m /\ d.heard = heard /\ Ahead(d, h)
One(P) == IF P THEN 1 ELSE 0
Times(id, m) == IF u_sent[id].to = Talk!All /\ u_sent[id].from = m THEN 2 ELSE 1
CountInv ==
    \A id \in 1..u_messages, m \in Machine, h \in Handler : <<m, h>> \notin u_removed =>
        Counts(u_called[id], <<m, h>>) + One(Yet(id, m, h, FALSE)) + One(Yet(id, m, h, TRUE))
            <= Times(id, m)

TalkInv ==
    /\ TalkType /\ PlaceInv /\ SentInv /\ TalkWireInv /\ DeliveryInv /\ PendingInv /\ LastInv
    /\ CountInv

(* The calls of a list that grows.                                         *)
LEMMA CountsGrow ==
    ASSUME NEW S, NEW s \in Seq(S), NEW c
    PROVE  /\ Counts(s, c) \in Nat /\ Counts(<<>>, c) = 0
           /\ \A x \in S : Counts(Append(s, x), c) = IF x = c THEN Counts(s, c) + 1 ELSE Counts(s, c)
<1> DEFINE At(l) == {i \in DOMAIN l : l[i] = c}
<1>1. Len(s) \in Nat /\ DOMAIN s = 1..Len(s)
  BY Entries
<1>2. IsFiniteSet(At(s)) /\ Cardinality(At(s)) \in Nat
  <2>1. IsFiniteSet(DOMAIN s)
    <3>1. 1 \in Int /\ Len(s) \in Int
      BY <1>1
    <3> QED
      BY <1>1, <3>1, FS_Interval
  <2>2. At(s) \in SUBSET DOMAIN s
    OBVIOUS
  <2> HIDE DEF At
  <2> QED
    BY <2>1, <2>2, FS_Subset, FS_CardinalityType
<1>3. At(<<>>) = {}
  OBVIOUS
<1>4. ASSUME NEW x \in S
      PROVE  Cardinality(At(Append(s, x))) = IF x = c THEN Cardinality(At(s)) + 1 ELSE Cardinality(At(s))
  <2> DEFINE t == Append(s, x)
  <2>1. /\ DOMAIN t = 1..(Len(s) + 1) /\ t[Len(s) + 1] = x
        /\ \A i \in 1..Len(s) : t[i] = s[i]
    BY Appended, Entries
  <2> HIDE DEF t
  <2>2. Len(s) + 1 \notin At(s)
    BY <1>1
  <2>3. CASE x = c
    <3>1. At(t) = At(s) \cup {Len(s) + 1}
      BY <1>1, <2>1, <2>3
    <3> HIDE DEF At
    <3>2. Cardinality(At(t)) = Cardinality(At(s)) + 1
      BY <1>2, <2>2, <3>1, FS_AddElement
    <3> QED
      BY <2>3, <3>2 DEF t
  <2>4. CASE x # c
    <3>1. At(t) = At(s)
      BY <1>1, <2>1, <2>4
    <3> HIDE DEF At
    <3> QED
      BY <1>2, <2>4, <3>1 DEF t
  <2> QED
    BY <2>3, <2>4
<1>5. Cardinality(At(<<>>)) = 0
  <2> HIDE DEF At
  <2> QED
    BY <1>3, FS_EmptySet
<1> QED
  BY <1>2, <1>4, <1>5 DEF Counts

LEMMA TalkTyped ==
    ASSUME TalkType
    PROVE  /\ MaxMessages \in Nat /\ u_messages \in Nat /\ u_messages <= MaxMessages
           /\ 1..u_messages \subseteq 1..MaxMessages
           /\ \A m \in Machine : /\ u_handlers[m] \in Seq(Handler) /\ u_wire[m] \in Seq(TalkMsg)
                                 /\ Len(u_handlers[m]) \in Nat /\ Len(u_wire[m]) \in Nat
                                 /\ DOMAIN u_handlers[m] = 1..Len(u_handlers[m])
                                 /\ DOMAIN u_wire[m] = 1..Len(u_wire[m])
                                 /\ \A i \in DOMAIN u_wire[m] : u_wire[m][i] \in TalkMsg
                                 /\ \A i \in DOMAIN u_handlers[m] : u_handlers[m][i] \in Handler
           /\ \A d \in u_runs : /\ d \in Delivery /\ d.at \in Machine /\ d.msg \in TalkMsg
                                /\ d.heard \in BOOLEAN /\ d.awaiting \in Handler \cup {"none"}
                                /\ d.next \in Nat /\ d.last \in Handler \cup {"none", "throws"}
           /\ \A id \in 1..MaxMessages : /\ u_called[id] \in Seq(Machine \X Handler)
                                         /\ u_outcome[id] \in TalkOutcome
<1>1. MaxMessages \in Nat /\ u_messages \in Nat /\ u_messages <= MaxMessages
      /\ 1..u_messages \subseteq 1..MaxMessages
  BY TalkAssumption DEF TalkType
<1>2. ASSUME NEW m \in Machine
      PROVE  /\ u_handlers[m] \in Seq(Handler) /\ u_wire[m] \in Seq(TalkMsg)
             /\ Len(u_handlers[m]) \in Nat /\ Len(u_wire[m]) \in Nat
             /\ DOMAIN u_handlers[m] = 1..Len(u_handlers[m])
             /\ DOMAIN u_wire[m] = 1..Len(u_wire[m])
             /\ \A i \in DOMAIN u_wire[m] : u_wire[m][i] \in TalkMsg
             /\ \A i \in DOMAIN u_handlers[m] : u_handlers[m][i] \in Handler
  <2>1. u_handlers[m] \in Seq(Handler) /\ u_wire[m] \in Seq(TalkMsg)
    BY DEF TalkType
  <2> QED
    BY <2>1, Entries
<1>3. \A d \in u_runs : /\ d \in Delivery /\ d.at \in Machine /\ d.msg \in TalkMsg
                        /\ d.heard \in BOOLEAN /\ d.awaiting \in Handler \cup {"none"}
                        /\ d.next \in Nat /\ d.last \in Handler \cup {"none", "throws"}
  BY DEF TalkType, Delivery
<1>4. \A id \in 1..MaxMessages : u_called[id] \in Seq(Machine \X Handler) /\ u_outcome[id] \in TalkOutcome
  BY DEF TalkType
<1> QED
  BY <1>1, <1>2, <1>3, <1>4

LEMMA TalkMsgTyped ==
    ASSUME NEW x \in TalkMsg
    PROVE  /\ x.kind \in {"send", "request", "response"} /\ x.id \in 1..MaxMessages
           /\ x.from \in Machine /\ x.to \in Machine \cup {Talk!All}
           /\ x.payload \in TalkOutcome /\ x.payload.kind \in TalkKind
  BY DEF TalkMsg, TalkOutcome

(* The wire of a machine loses its first message, or all.                  *)
LEMMA TalkFalls ==
    ASSUME TalkType, TalkWireInv, NEW m \in Machine, u_wire[m] # <<>>,
           NEW s, s = <<>> \/ s = Tail(u_wire[m]),
           u_wire' = [u_wire EXCEPT ![m] = s], UNCHANGED <<u_messages, u_sent>>
    PROVE  /\ u_wire' \in [Machine -> Seq(TalkMsg)] /\ TalkWireInv'
           /\ \A k \in Machine : \A i \in DOMAIN u_wire'[k] :
                 \E j \in DOMAIN u_wire[k] : u_wire'[k][i] = u_wire[k][j]
           /\ \A k \in Machine, id \in Nat : OnWire(k, id)' => OnWire(k, id)
           /\ \A i \in DOMAIN s : i + 1 \in DOMAIN u_wire[m] /\ s[i] = u_wire[m][i + 1]
           /\ 1 \in DOMAIN u_wire[m]
<1>1. u_wire[m] \in Seq(TalkMsg) /\ DOMAIN u_wire[m] = 1..Len(u_wire[m]) /\ Len(u_wire[m]) \in Nat
  BY TalkTyped
<1>2. /\ s \in Seq(TalkMsg) /\ 1 \in DOMAIN u_wire[m]
      /\ \A i \in DOMAIN s : i + 1 \in DOMAIN u_wire[m] /\ s[i] = u_wire[m][i + 1] /\ i \in Nat
  <2>1. Len(u_wire[m]) >= 1
    BY <1>1, WithoutFirst
  <2>2. CASE s = <<>>
    BY <1>1, <2>1, <2>2
  <2>3. CASE s = Tail(u_wire[m])
    <3>1. /\ s \in Seq(TalkMsg) /\ Len(s) = Len(u_wire[m]) - 1
          /\ \A i \in 1..(Len(u_wire[m]) - 1) : s[i] = u_wire[m][i + 1]
      BY <1>1, <2>3, WithoutFirst
    <3>2. DOMAIN s = 1..Len(s)
      BY <3>1, Entries
    <3> QED
      BY <1>1, <2>1, <3>1, <3>2
  <2> QED
    BY <2>2, <2>3
<1>3. u_wire' \in [Machine -> Seq(TalkMsg)] /\ u_wire'[m] = s
      /\ \A k \in Machine \ {m} : u_wire'[k] = u_wire[k]
  BY <1>2 DEF TalkType
<1>4. \A k \in Machine : \A i \in DOMAIN u_wire'[k] :
         \E j \in DOMAIN u_wire[k] : u_wire'[k][i] = u_wire[k][j]
  BY <1>2, <1>3
<1>5. \A k \in Machine, id \in Nat : OnWire(k, id)' => OnWire(k, id)
  BY <1>4 DEF OnWire
<1>6. TalkWireInv'
  <2> SUFFICES ASSUME NEW k \in Machine
               PROVE  /\ \A i \in DOMAIN u_wire'[k] :
                            LET msg == u_wire'[k][i] IN
                            /\ msg.id \in 1..u_messages /\ u_sent[msg.id].to # u_sent[msg.id].from
                            /\ msg.kind # "response" => msg = u_sent[msg.id] /\ msg.to \in {k, Talk!All}
                            /\ msg.kind = "response" => /\ u_sent[msg.id].kind = "request"
                                                        /\ msg.payload.kind \in {"result", "error"}
                      /\ OnWireOnce(u_wire'[k])
    BY DEF TalkWireInv
  <2>1. OnWireOnce(u_wire'[k])
    <3>1. OnWireOnce(u_wire[k])
      BY DEF TalkWireInv
    <3>2. CASE k # m
      BY <1>3, <3>1, <3>2
    <3>3. CASE k = m
      <4> SUFFICES ASSUME NEW i \in DOMAIN s, NEW j \in DOMAIN s, s[i].kind # "response",
                          s[j].kind # "response", s[i].id = s[j].id
                   PROVE  i = j
        BY <1>3, <3>3 DEF OnWireOnce
      <4>0. /\ i + 1 \in DOMAIN u_wire[m] /\ s[i] = u_wire[m][i + 1]
            /\ j + 1 \in DOMAIN u_wire[m] /\ s[j] = u_wire[m][j + 1]
        BY <1>2
      <4>1. i + 1 = j + 1
        BY <3>1, <3>3, <4>0 DEF OnWireOnce
      <4> QED
        BY <1>2, <4>1
    <3> QED
      BY <3>2, <3>3
  <2> QED
    BY <1>4, <2>1 DEF TalkWireInv
<1> QED
  BY <1>2, <1>3, <1>4, <1>5, <1>6

(* A message that is published.                                            *)
LEMMA TalkRises ==
    ASSUME TalkType, NEW msg \in TalkMsg, Talk!Publish(msg)
    PROVE  /\ u_wire' \in [Machine -> Seq(TalkMsg)]
           /\ \A m \in Machine : \A i \in DOMAIN u_wire'[m] :
                 \/ i \in DOMAIN u_wire[m] /\ u_wire'[m][i] = u_wire[m][i]
                 \/ /\ i \notin DOMAIN u_wire[m] /\ i = Len(u_wire[m]) + 1
                    /\ u_wire'[m][i] = msg /\ msg.to \in {m, Talk!All}
           /\ \A m \in Machine, id \in Nat :
                 OnWire(m, id)' => \/ OnWire(m, id)
                                   \/ msg.id = id /\ msg.kind # "response" /\ msg.to \in {m, Talk!All}
<1>1. u_wire' = [m \in Machine |->
                    IF msg.to \in {m, Talk!All} THEN Append(u_wire[m], msg) ELSE u_wire[m]]
  BY DEF Talk!Publish
<1>2. ASSUME NEW m \in Machine
      PROVE  /\ u_wire'[m] \in Seq(TalkMsg)
             /\ \A i \in DOMAIN u_wire'[m] :
                   \/ i \in DOMAIN u_wire[m] /\ u_wire'[m][i] = u_wire[m][i]
                   \/ /\ i \notin DOMAIN u_wire[m] /\ i = Len(u_wire[m]) + 1
                      /\ u_wire'[m][i] = msg /\ msg.to \in {m, Talk!All}
  <2>1. u_wire[m] \in Seq(TalkMsg) /\ Len(u_wire[m]) \in Nat /\ DOMAIN u_wire[m] = 1..Len(u_wire[m])
    BY TalkTyped
  <2>2. CASE msg.to \notin {m, Talk!All}
    BY <1>1, <2>1, <2>2
  <2>3. CASE msg.to \in {m, Talk!All}
    <3> DEFINE s == Append(u_wire[m], msg)
    <3>1. /\ s \in Seq(TalkMsg) /\ Len(s) = Len(u_wire[m]) + 1 /\ s[Len(u_wire[m]) + 1] = msg
          /\ \A i \in 1..Len(u_wire[m]) : s[i] = u_wire[m][i]
      BY <2>1, Appended
    <3>2. u_wire'[m] = s
      BY <1>1, <2>3
    <3> HIDE DEF s
    <3>3. DOMAIN s = 1..Len(s)
      BY <3>1, Entries
    <3> QED
      BY <2>1, <2>3, <3>1, <3>2, <3>3
  <2> QED
    BY <2>2, <2>3
<1>3. u_wire' \in [Machine -> Seq(TalkMsg)]
  <2>1. u_wire' = [m \in Machine |-> u_wire'[m]]
    BY <1>1
  <2> QED
    BY <1>2, <2>1
<1>4. \A m \in Machine, id \in Nat :
         OnWire(m, id)' => \/ OnWire(m, id)
                           \/ msg.id = id /\ msg.kind # "response" /\ msg.to \in {m, Talk!All}
  BY <1>2 DEF OnWire
<1> QED
  BY <1>2, <1>3, <1>4

(* What a request is over with stays so.                                   *)
LEMMA OverStays ==
    ASSUME NEW id \in Nat, NEW h, OverWith(id, h), u_sent'[id] = u_sent[id],
           u_called'[id] = u_called[id],
           \A d \in u_runs' : d.msg.id = id => \E e \in u_runs : e.msg.id = id,
           \A m \in Machine : OnWire(m, id)' => OnWire(m, id)
    PROVE  OverWith(id, h)'
<1>1. LastWas(id, u_sent[id].to, h)'
  BY DEF OverWith, LastWas
<1>2. \A d \in u_runs' : d.msg.id # id
  BY DEF OverWith
<1>3. \A m \in Machine : ~OnWire(m, id)'
  BY DEF OverWith
<1> QED
  BY <1>1, <1>2, <1>3 DEF OverWith

(* No handler is called, and none has more ahead of it.                    *)
LEMMA CountStays ==
    ASSUME TalkType, CountInv, u_removed \subseteq u_removed', UNCHANGED <<u_messages, u_sent, u_called>>,
           \A id \in 1..u_messages, m \in Machine, h \in Handler, heard \in BOOLEAN :
              <<m, h>> \notin u_removed' /\ Yet(id, m, h, heard)' => Yet(id, m, h, heard)
    PROVE  CountInv'
<1> SUFFICES ASSUME NEW id \in 1..u_messages, NEW m \in Machine, NEW h \in Handler,
                    <<m, h>> \notin u_removed'
             PROVE  Counts(u_called[id], <<m, h>>) + One(Yet(id, m, h, FALSE)') + One(Yet(id, m, h, TRUE)')
                       <= Times(id, m)
  BY DEF CountInv, Times
<1>1. Counts(u_called[id], <<m, h>>) + One(Yet(id, m, h, FALSE)) + One(Yet(id, m, h, TRUE))
         <= Times(id, m)
  BY DEF CountInv
<1>2. Yet(id, m, h, FALSE)' => Yet(id, m, h, FALSE)
  OBVIOUS
<1>3. Yet(id, m, h, TRUE)' => Yet(id, m, h, TRUE)
  OBVIOUS
<1> DEFINE a == One(Yet(id, m, h, FALSE))
           b == One(Yet(id, m, h, TRUE))
           x == One(Yet(id, m, h, FALSE)')
           y == One(Yet(id, m, h, TRUE)')
<1>6. a \in {0, 1} /\ b \in {0, 1} /\ x \in {0, 1} /\ y \in {0, 1}
  BY DEF One
<1>7. (x = 1 => a = 1) /\ (y = 1 => b = 1)
  BY <1>2, <1>3 DEF One
<1>4. Counts(u_called[id], <<m, h>>) \in Nat
  BY TalkTyped, CountsGrow
<1>5. Times(id, m) \in Nat
  BY DEF Times
<1> HIDE DEF a, b, x, y
<1>8. Counts(u_called[id], <<m, h>>) + a + b <= Times(id, m)
  BY <1>1 DEF a, b
<1>9. Counts(u_called[id], <<m, h>>) + x + y <= Times(id, m)
  BY <1>4, <1>5, <1>6, <1>7, <1>8
<1> QED
  BY <1>9 DEF x, y

(* Deliveries that differ in their place among the handlers only.          *)
Same(d, e) ==
    d.at = e.at /\ d.msg = e.msg /\ d.heard = e.heard /\ d.awaiting = e.awaiting /\ d.last = e.last

(* No handler is called, no message is new.                                *)
LEMMA TalkQuiet ==
    ASSUME TalkInv, TalkType', PlaceInv', TalkWireInv', PendingInv', u_removed \subseteq u_removed',
           UNCHANGED <<u_messages, u_sent, u_called>>,
           \A m \in Machine, id \in Nat : OnWire(m, id)' => OnWire(m, id),
           \A d \in u_runs' : \E e \in u_runs : Same(d, e),
           \A d, e \in u_runs' : d.msg.id = e.msg.id /\ d.at = e.at /\ d.heard = e.heard => d = e,
           \A m \in Machine : \A i \in DOMAIN u_wire'[m] :
              u_wire'[m][i].kind = "response" /\ u_wire'[m][i].payload.kind = "result" =>
                 \/ \E j \in DOMAIN u_wire[m] : u_wire'[m][i] = u_wire[m][j]
                 \/ OverWith(u_wire[m][i].id, u_wire[m][i].payload.of)',
           \A id \in 1..u_messages : u_outcome'[id].kind = "result" =>
                 \/ u_outcome'[id] = u_outcome[id]
                 \/ OverWith(id, u_outcome[id].of)',
           \A h \in Handler : \A d \in u_runs' : <<d.at, h>> \notin u_removed' /\ Ahead(d, h)' =>
              \E e \in u_runs : Same(d, e) /\ Ahead(e, h)
    PROVE  TalkInv'
<1>1. SentInv'
  BY DEF TalkInv, SentInv
<1>2. DeliveryInv'
  <2>1. ASSUME NEW d \in u_runs'
        PROVE  /\ d.msg.id \in 1..u_messages' /\ d.msg = u_sent'[d.msg.id]
               /\ d.msg.to \in {d.at, Talk!All}
               /\ d.heard => d.msg.to # d.msg.from /\ ~OnWire(d.at, d.msg.id)'
               /\ ~d.heard => d.at = d.msg.from
    <3>1. PICK e \in u_runs : Same(d, e)
      OBVIOUS
    <3>2. /\ e.msg.id \in 1..u_messages /\ e.msg = u_sent[e.msg.id]
          /\ e.msg.to \in {e.at, Talk!All}
          /\ e.heard => e.msg.to # e.msg.from /\ ~OnWire(e.at, e.msg.id)
          /\ ~e.heard => e.at = e.msg.from
      BY DEF TalkInv, DeliveryInv
    <3>3. e.at \in Machine /\ e.msg.id \in Nat
      BY <3>2, TalkTyped DEF TalkInv
    <3> QED
      BY <3>1, <3>2, <3>3 DEF Same
  <2> QED
    BY <2>1 DEF DeliveryInv
<1>3. LastInv'
  <2>1. ASSUME NEW d \in u_runs', d.msg.kind = "request"
        PROVE  /\ d.awaiting # "none" => LastWas(d.msg.id, d.at, d.awaiting)'
               /\ d.awaiting = "none" /\ d.last \notin {"none", "throws"}
                  => LastWas(d.msg.id, d.at, d.last)'
    <3>1. PICK e \in u_runs : Same(d, e)
      OBVIOUS
    <3>2. /\ e.awaiting # "none" => LastWas(e.msg.id, e.at, e.awaiting)
          /\ e.awaiting = "none" /\ e.last \notin {"none", "throws"} => LastWas(e.msg.id, e.at, e.last)
      BY <2>1, <3>1 DEF TalkInv, LastInv, Same
    <3> QED
      BY <3>1, <3>2 DEF Same, LastWas
  <2>2. ASSUME NEW id \in Nat, NEW h, OverWith(id, h)
        PROVE  OverWith(id, h)'
    <3>1. \A d \in u_runs' : d.msg.id = id => \E e \in u_runs : e.msg.id = id
      BY DEF Same
    <3>2. u_sent'[id] = u_sent[id] /\ u_called'[id] = u_called[id]
          /\ \A m \in Machine : OnWire(m, id)' => OnWire(m, id)
      OBVIOUS
    <3> QED
      BY ONLY <2>2, <3>1, <3>2, OverStays
  <2>3. ASSUME NEW m \in Machine, NEW i \in DOMAIN u_wire'[m],
               u_wire'[m][i].kind = "response", u_wire'[m][i].payload.kind = "result"
        PROVE  OverWith(u_wire[m][i].id, u_wire[m][i].payload.of)'
    <3>1. CASE \E j \in DOMAIN u_wire[m] : u_wire'[m][i] = u_wire[m][j]
      <4>1. PICK j \in DOMAIN u_wire[m] : u_wire'[m][i] = u_wire[m][j]
        BY <3>1
      <4> DEFINE id == u_wire[m][j].id
                 h == u_wire[m][j].payload.of
      <4>2. OverWith(id, h)
        BY <2>3, <4>1 DEF TalkInv, LastInv
      <4>3. u_wire[m][j] \in TalkMsg /\ MaxMessages \in Nat
        BY TalkTyped DEF TalkInv
      <4>4. id \in Nat
        BY <4>3, TalkMsgTyped
      <4>5. \A n \in Nat : \A k : OverWith(n, k) => OverWith(n, k)'
        BY <2>2
      <4>6. PICK n \in Nat : n = id
        BY <4>4
      <4>7. PICK k : k = h
        OBVIOUS
      <4>8. OverWith(n, k)'
        BY <4>2, <4>5, <4>6, <4>7
      <4>9. u_wire'[m][i].id = n /\ u_wire'[m][i].payload.of = k
        BY <4>1, <4>6, <4>7
      <4> HIDE DEF id, h
      <4> QED
        BY <4>8, <4>9
    <3> QED
      BY <2>3, <3>1
  <2>4. ASSUME NEW id \in 1..u_messages, u_outcome'[id].kind = "result"
        PROVE  OverWith(id, u_outcome[id].of)'
    <3>1. CASE u_outcome'[id] = u_outcome[id]
      <4>1. OverWith(id, u_outcome[id].of) /\ id \in Nat
        BY <2>4, <3>1 DEF TalkInv, LastInv
      <4>2. PICK k : k = u_outcome[id].of
        OBVIOUS
      <4>3. OverWith(id, k)'
        BY <2>2, <4>1, <4>2
      <4>4. u_outcome'[id].of = k
        BY <3>1, <4>2
      <4> QED
        BY <4>3, <4>4
    <3> QED
      BY <2>4, <3>1
  <2> QED
    BY <2>1, <2>3, <2>4 DEF LastInv
<1>4. CountInv'
  <2>1. ASSUME NEW id \in 1..u_messages, NEW m \in Machine, NEW h \in Handler, NEW heard \in BOOLEAN,
               <<m, h>> \notin u_removed', Yet(id, m, h, heard)'
        PROVE  Yet(id, m, h, heard)
    <3>1. CASE heard /\ OnWire(m, id)'
      <4>1. id \in Nat
        OBVIOUS
      <4>2. OnWire(m, id)
        BY <3>1, <4>1
      <4> QED
        BY <3>1, <4>2 DEF Yet
    <3>2. ASSUME NEW d \in u_runs', d.msg.id = id, d.at = m, d.heard = heard, Ahead(d, h)'
          PROVE  Yet(id, m, h, heard)
      <4>1. PICK e \in u_runs : Same(d, e) /\ Ahead(e, h)
        BY <2>1, <3>2
      <4> QED
        BY <3>2, <4>1 DEF Yet, Same
    <3> QED
      BY <2>1, <3>1, <3>2 DEF Yet
  <2> QED
    BY <2>1, CountStays DEF TalkInv
<1> QED
  BY <1>1, <1>2, <1>3, <1>4 DEF TalkInv

LEMMA TimeoutKeeps ==
    ASSUME TalkInv, NEW id \in 1..MaxMessages, Talk!Timeout(id)
    PROVE  TalkInv'
<1>1. /\ id \in u_pending /\ u_pending' = u_pending \ {id}
      /\ u_outcome' = [u_outcome EXCEPT ![id] = [kind |-> "timeout", of |-> "none"]]
      /\ UNCHANGED <<u_handlers, u_wire, u_runs, u_messages, u_events, u_sent, u_called, u_removed>>
  BY DEF Talk!Timeout, Talk!Outcome
<1>2. TalkType
  BY DEF TalkInv
<1>3. /\ u_outcome' \in [1..MaxMessages -> TalkOutcome] /\ u_outcome'[id].kind = "timeout"
      /\ \A k \in 1..u_messages : k # id => u_outcome'[k] = u_outcome[k]
  <2>1. [kind |-> "timeout", of |-> "none"] \in TalkOutcome
    BY DEF TalkOutcome, TalkKind
  <2>2. 1..u_messages \subseteq 1..MaxMessages
    BY <1>2, TalkTyped
  <2> QED
    BY <1>1, <1>2, <2>1, <2>2 DEF TalkType
<1>4. TalkType'
  BY <1>1, <1>2, <1>3 DEF TalkType
<1>5. PlaceInv' /\ TalkWireInv'
  BY <1>1 DEF TalkInv, PlaceInv, TalkWireInv
<1>6. PendingInv'
  BY <1>1, <1>3 DEF TalkInv, PendingInv
<1>7. \A m \in Machine, n \in Nat : OnWire(m, n)' => OnWire(m, n)
  BY <1>1 DEF OnWire
<1>8. \A d \in u_runs' : \E e \in u_runs : Same(d, e)
  BY <1>1 DEF Same
<1>9. \A d, e \in u_runs' : d.msg.id = e.msg.id /\ d.at = e.at /\ d.heard = e.heard => d = e
  BY <1>1 DEF TalkInv, DeliveryInv
<1>10. \A h \in Handler : \A d \in u_runs' : <<d.at, h>> \notin u_removed' /\ Ahead(d, h)' =>
          \E e \in u_runs : Same(d, e) /\ Ahead(e, h)
  BY <1>1 DEF Same, Ahead
<1>11. \A k \in 1..u_messages : u_outcome'[k].kind = "result" => u_outcome'[k] = u_outcome[k]
  BY <1>3
<1> QED
  BY <1>1, <1>4, <1>5, <1>6, <1>7, <1>8, <1>9, <1>10, <1>11, TalkQuiet

LEMMA CutOffKeeps ==
    ASSUME TalkInv, NEW m \in Machine, Talk!CutOff(m)
    PROVE  TalkInv'
<1>1. /\ u_wire[m] # <<>> /\ u_wire' = [u_wire EXCEPT ![m] = <<>>]
      /\ UNCHANGED <<u_handlers, u_pending, u_runs, u_outcome, u_messages, u_sent, u_called, u_removed>>
  BY DEF Talk!CutOff
<1>2. /\ u_wire' \in [Machine -> Seq(TalkMsg)] /\ TalkWireInv'
      /\ \A k \in Machine : \A i \in DOMAIN u_wire'[k] :
            \E j \in DOMAIN u_wire[k] : u_wire'[k][i] = u_wire[k][j]
      /\ \A k \in Machine, id \in Nat : OnWire(k, id)' => OnWire(k, id)
  BY <1>1, TalkFalls DEF TalkInv
<1>3. TalkType'
  BY <1>1, <1>2 DEF TalkInv, TalkType
<1>4. PlaceInv' /\ PendingInv'
  BY <1>1 DEF TalkInv, PlaceInv, PendingInv
<1>5. \A d \in u_runs' : \E e \in u_runs : Same(d, e)
  BY <1>1 DEF Same
<1>6. \A d, e \in u_runs' : d.msg.id = e.msg.id /\ d.at = e.at /\ d.heard = e.heard => d = e
  BY <1>1 DEF TalkInv, DeliveryInv
<1>7. \A h \in Handler : \A d \in u_runs' : <<d.at, h>> \notin u_removed' /\ Ahead(d, h)' =>
          \E e \in u_runs : Same(d, e) /\ Ahead(e, h)
  BY <1>1 DEF Same, Ahead
<1> QED
  BY <1>1, <1>2, <1>3, <1>4, <1>5, <1>6, <1>7, TalkQuiet

LEMMA OnTalkKeeps ==
    ASSUME TalkInv, NEW m \in Machine, NEW h \in Handler, Talk!On(m, h)
    PROVE  TalkInv'
<1>1. /\ \A i \in DOMAIN u_handlers[m] : u_handlers[m][i] # h
      /\ u_handlers' = [u_handlers EXCEPT ![m] = Append(u_handlers[m], h)]
      /\ UNCHANGED <<u_wire, u_pending, u_runs, u_outcome, u_messages, u_sent, u_called, u_removed>>
  BY DEF Talk!On
<1> DEFINE s == Append(u_handlers[m], h)
<1>2. u_handlers[m] \in Seq(Handler) /\ Len(u_handlers[m]) \in Nat
      /\ DOMAIN u_handlers[m] = 1..Len(u_handlers[m])
  BY TalkTyped DEF TalkInv
<1>3. /\ s \in Seq(Handler) /\ Len(s) = Len(u_handlers[m]) + 1 /\ s[Len(u_handlers[m]) + 1] = h
      /\ \A i \in 1..Len(u_handlers[m]) : s[i] = u_handlers[m][i]
  BY <1>2, Appended
<1>4. DOMAIN s = 1..Len(s)
  BY <1>3, Entries
<1>5. /\ u_handlers' \in [Machine -> Seq(Handler)] /\ u_handlers'[m] = s
      /\ \A k \in Machine \ {m} : u_handlers'[k] = u_handlers[k]
  BY <1>1, <1>3 DEF TalkInv, TalkType
<1> HIDE DEF s
<1>6. TalkType'
  BY <1>1, <1>5 DEF TalkInv, TalkType
<1>7. PlaceInv'
  <2>1. \A k \in Machine : \A i, j \in DOMAIN u_handlers'[k] :
           u_handlers'[k][i] = u_handlers'[k][j] => i = j
    <3>1. ASSUME NEW i \in DOMAIN s, NEW j \in DOMAIN s, s[i] = s[j] PROVE i = j
      <4>1. \A a \in DOMAIN s : (a \in DOMAIN u_handlers[m] /\ s[a] = u_handlers[m][a])
                                \/ (a = Len(u_handlers[m]) + 1 /\ s[a] = h)
        BY <1>2, <1>3, <1>4
      <4> QED
        BY <1>1, <3>1, <4>1 DEF TalkInv, PlaceInv
    <3> QED
      BY <1>5, <3>1 DEF TalkInv, PlaceInv
  <2>2. ASSUME NEW d \in u_runs'
        PROVE  d.next >= 1 /\ (d.next <= Len(u_handlers'[d.at]) + 1 \/ d.next = 2)
    <3>1. d \in u_runs /\ d.next \in Nat /\ d.at \in Machine /\ Len(u_handlers[d.at]) \in Nat
      BY <1>1, TalkTyped DEF TalkInv
    <3>2. d.next >= 1 /\ (d.next <= Len(u_handlers[d.at]) + 1 \/ d.next = 2)
      BY <3>1 DEF TalkInv, PlaceInv
    <3>3. Len(u_handlers'[d.at]) \in Nat /\ Len(u_handlers[d.at]) <= Len(u_handlers'[d.at])
      BY <1>2, <1>3, <1>5, <3>1
    <3> QED
      BY <3>1, <3>2, <3>3
  <2> QED
    BY <2>1, <2>2 DEF PlaceInv
<1>8. TalkWireInv' /\ PendingInv'
  BY <1>1 DEF TalkInv, TalkWireInv, PendingInv
<1>9. \A k \in Machine, id \in Nat : OnWire(k, id)' => OnWire(k, id)
  BY <1>1 DEF OnWire
<1>10. \A d \in u_runs' : \E e \in u_runs : Same(d, e)
  BY <1>1 DEF Same
<1>11. \A d, e \in u_runs' : d.msg.id = e.msg.id /\ d.at = e.at /\ d.heard = e.heard => d = e
  BY <1>1 DEF TalkInv, DeliveryInv
<1>12. ASSUME NEW k \in Handler, NEW d \in u_runs', Ahead(d, k)'
       PROVE  \E e \in u_runs : Same(d, e) /\ Ahead(e, k)
  <2>1. d \in u_runs /\ d.at \in Machine
    BY <1>1, TalkTyped DEF TalkInv
  <2>2. \A i \in DOMAIN u_handlers[d.at] :
           i \in DOMAIN u_handlers'[d.at] /\ u_handlers'[d.at][i] = u_handlers[d.at][i]
    <3>1. CASE d.at = m
      BY <1>2, <1>3, <1>4, <1>5, <3>1
    <3>2. CASE d.at # m
      BY <1>5, <2>1, <3>2
    <3> QED
      BY <3>1, <3>2
  <2>3. Ahead(d, k) /\ Same(d, d)
    BY <1>12, <2>2 DEF Ahead, Same
  <2> QED
    BY <2>1, <2>3
<1> QED
  BY <1>1, <1>6, <1>7, <1>8, <1>9, <1>10, <1>11, <1>12, TalkQuiet

(* The parts of a list, and the list without its n-th entry.               *)
LEMMA UpTo ==
    ASSUME NEW S, NEW s \in Seq(S), NEW n \in 1..Len(s)
    PROVE  /\ SubSeq(s, 1, n - 1) \in Seq(S) /\ Len(SubSeq(s, 1, n - 1)) = n - 1
           /\ \A k \in 1..(n - 1) : SubSeq(s, 1, n - 1)[k] = s[k]
<1>1. Len(s) \in Nat
  BY Entries
<1> QED
  BY <1>1

LEMMA From ==
    ASSUME NEW S, NEW s \in Seq(S), NEW n \in 1..Len(s)
    PROVE  /\ SubSeq(s, n + 1, Len(s)) \in Seq(S) /\ Len(SubSeq(s, n + 1, Len(s))) = Len(s) - n
           /\ \A k \in 1..(Len(s) - n) : SubSeq(s, n + 1, Len(s))[k] = s[n + k]
<1>1. Len(s) \in Nat
  BY Entries
<1>2. SubSeq(s, n + 1, Len(s)) \in Seq(S)
  BY <1>1
<1>3. Len(SubSeq(s, n + 1, Len(s))) = Len(s) - n
  BY <1>1
<1>4. ASSUME NEW k \in 1..(Len(s) - n) PROVE SubSeq(s, n + 1, Len(s))[k] = s[n + k]
  BY <1>1
<1> QED
  BY <1>2, <1>3, <1>4

LEMMA Joined ==
    ASSUME NEW S, NEW a \in Seq(S), NEW b \in Seq(S)
    PROVE  /\ a \o b \in Seq(S) /\ Len(a \o b) = Len(a) + Len(b)
           /\ DOMAIN (a \o b) = 1..(Len(a) + Len(b))
           /\ \A k \in 1..(Len(a) + Len(b)) : (a \o b)[k] = IF k <= Len(a) THEN a[k] ELSE b[k - Len(a)]
<1>1. Len(a) \in Nat /\ Len(b) \in Nat
  BY Entries
<1>2. a \o b \in Seq(S) /\ Len(a \o b) = Len(a) + Len(b)
  BY <1>1
<1>3. \A k \in 1..(Len(a) + Len(b)) : (a \o b)[k] = IF k <= Len(a) THEN a[k] ELSE b[k - Len(a)]
  BY <1>1
<1>4. DOMAIN (a \o b) = 1..(Len(a) + Len(b))
  BY <1>1
<1> QED
  BY <1>2, <1>3, <1>4

LEMMA Dropped ==
    ASSUME NEW S, NEW s \in Seq(S), NEW n \in 1..Len(s)
    PROVE  LET t == SubSeq(s, 1, n - 1) \o SubSeq(s, n + 1, Len(s)) IN
           /\ t \in Seq(S) /\ Len(t) = Len(s) - 1 /\ DOMAIN t = 1..(Len(s) - 1)
           /\ \A k \in 1..(n - 1) : t[k] = s[k]
           /\ \A k \in n..(Len(s) - 1) : t[k] = s[k + 1]
<1> DEFINE L == Len(s)
           a == SubSeq(s, 1, n - 1)
           b == SubSeq(s, n + 1, L)
           t == a \o b
<1>1. L \in Nat /\ DOMAIN s = 1..L /\ n \in 1..L /\ n \in Nat /\ n <= L
  BY Entries
<1>2. a \in Seq(S) /\ Len(a) = n - 1 /\ \A k \in 1..(n - 1) : a[k] = s[k]
  BY UpTo
<1>3. b \in Seq(S) /\ Len(b) = L - n /\ \A k \in 1..(L - n) : b[k] = s[n + k]
  BY From
<1> HIDE DEF a, b
<1>4. /\ t \in Seq(S) /\ Len(t) = Len(a) + Len(b) /\ DOMAIN t = 1..(Len(a) + Len(b))
      /\ \A k \in 1..(Len(a) + Len(b)) : t[k] = IF k <= Len(a) THEN a[k] ELSE b[k - Len(a)]
  BY <1>2, <1>3, Joined
<1> HIDE DEF t, L
<1>5. Len(t) = L - 1 /\ DOMAIN t = 1..(L - 1)
  BY <1>1, <1>2, <1>3, <1>4
<1>6. ASSUME NEW k \in 1..(n - 1) PROVE t[k] = s[k]
  <2>1. k \in 1..(Len(a) + Len(b)) /\ k <= Len(a)
    BY <1>1, <1>2, <1>3
  <2> QED
    BY <1>2, <1>4, <2>1
<1>7. ASSUME NEW k \in n..(L - 1) PROVE t[k] = s[k + 1]
  <2>1. k - (n - 1) \in 1..(L - n) /\ ~(k <= n - 1) /\ k \in 1..(L - 1) /\ n + (k - (n - 1)) = k + 1
    BY <1>1
  <2>2. k \in 1..(Len(a) + Len(b)) /\ ~(k <= Len(a)) /\ k - Len(a) = k - (n - 1)
    BY <1>1, <1>2, <1>3, <2>1
  <2>3. t[k] = b[k - (n - 1)]
    BY <1>4, <2>2
  <2> QED
    BY <1>3, <2>1, <2>3
<1> QED
  BY <1>4, <1>5, <1>6, <1>7 DEF t, a, b, L

(* What a delivery becomes when the i-th handler of m is removed.          *)
Moved(d, m, i) == IF d.at = m /\ i < d.next THEN [d EXCEPT !.next = d.next - 1] ELSE d

LEMMA OffKeeps ==
    ASSUME TalkInv, NEW m \in Machine, NEW i \in DOMAIN u_handlers[m], Talk!Off(m, i)
    PROVE  TalkInv'
<1> DEFINE s == u_handlers[m]
           t == SubSeq(s, 1, i - 1) \o SubSeq(s, i + 1, Len(s))
<1>1. /\ u_removed' = u_removed \cup {<<m, s[i]>>}
      /\ u_handlers' = [u_handlers EXCEPT ![m] = t]
      /\ u_runs' = {Moved(d, m, i) : d \in u_runs}
      /\ UNCHANGED <<u_wire, u_pending, u_outcome, u_messages, u_sent, u_called>>
  BY DEF Talk!Off, Moved
<1>2. s \in Seq(Handler) /\ Len(s) \in Nat /\ DOMAIN s = 1..Len(s) /\ s[i] \in Handler
  BY TalkTyped DEF TalkInv
<1>3. /\ t \in Seq(Handler) /\ Len(t) = Len(s) - 1 /\ DOMAIN t = 1..(Len(s) - 1)
      /\ \A k \in 1..(i - 1) : t[k] = s[k]
      /\ \A k \in i..(Len(s) - 1) : t[k] = s[k + 1]
  <2>1. i \in 1..Len(s)
    BY <1>2
  <2> QED
    BY <1>2, <2>1, Dropped
<1> HIDE DEF t
<1>4. /\ u_handlers' \in [Machine -> Seq(Handler)] /\ u_handlers'[m] = t
      /\ \A k \in Machine \ {m} : u_handlers'[k] = u_handlers[k]
  BY <1>1, <1>3 DEF TalkInv, TalkType
<1>5. i \in 1..Len(s)
  BY <1>2
<1> HIDE DEF s
<1>6. ASSUME NEW d \in u_runs
      PROVE  /\ Moved(d, m, i) \in Delivery /\ Same(Moved(d, m, i), d)
             /\ d.at = m /\ i < d.next => Moved(d, m, i).next = d.next - 1
             /\ ~(d.at = m /\ i < d.next) => Moved(d, m, i) = d
             /\ d.at \in Machine /\ d.next \in Nat
             /\ d.next >= 1 /\ (d.next <= Len(u_handlers[d.at]) + 1 \/ d.next = 2)
  <2>1. d \in Delivery /\ d.at \in Machine /\ d.next \in Nat
        /\ d.next >= 1 /\ (d.next <= Len(u_handlers[d.at]) + 1 \/ d.next = 2)
    BY TalkTyped DEF TalkInv, PlaceInv
  <2>2. CASE d.at = m /\ i < d.next
    <3>1. d.next - 1 \in Nat
      BY <1>2, <1>5, <2>1, <2>2
    <3>2. Moved(d, m, i) = [d EXCEPT !.next = d.next - 1]
      BY <2>2 DEF Moved
    <3> QED
      BY <2>1, <2>2, <3>1, <3>2 DEF Delivery, Same
  <2>3. CASE ~(d.at = m /\ i < d.next)
    BY <2>1, <2>3 DEF Moved, Same
  <2> QED
    BY <2>1, <2>2, <2>3
<1>7. TalkType'
  <2>1. u_runs' \subseteq Delivery
    BY <1>1, <1>6
  <2>2. u_removed' \subseteq Machine \X Handler
    BY <1>1, <1>2 DEF TalkInv, TalkType
  <2> QED
    BY <1>1, <1>4, <2>1, <2>2 DEF TalkInv, TalkType
<1>8. PlaceInv'
  <2>1. ASSUME NEW a \in DOMAIN t, NEW b \in DOMAIN t, t[a] = t[b] PROVE a = b
    <3>1. \A x, y \in DOMAIN s : s[x] = s[y] => x = y
      BY DEF TalkInv, PlaceInv, s
    <3>2. \A k \in DOMAIN t : \/ k < i /\ t[k] = s[k] /\ k \in DOMAIN s
                              \/ k >= i /\ t[k] = s[k + 1] /\ k + 1 \in DOMAIN s
      BY <1>2, <1>3, <1>5
    <3>3. a \in Int /\ b \in Int /\ i \in Int
      BY <1>2, <1>3, <1>5
    <3> QED
      BY <2>1, <3>1, <3>2, <3>3
  <2>2. ASSUME NEW d \in u_runs'
        PROVE  d.next >= 1 /\ (d.next <= Len(u_handlers'[d.at]) + 1 \/ d.next = 2)
    <3>1. PICK e \in u_runs : d = Moved(e, m, i)
      BY <1>1
    <3>2. d.at = e.at
      BY <1>6, <3>1 DEF Same
    <3>3. e.next \in Nat /\ e.next >= 1 /\ (e.next <= Len(u_handlers[e.at]) + 1 \/ e.next = 2)
          /\ e.at \in Machine
      BY <1>6
    <3>4. CASE e.at = m
      <4>1. Len(u_handlers[e.at]) = Len(s) /\ Len(u_handlers'[d.at]) = Len(s) - 1
        BY <1>3, <1>4, <3>2, <3>4 DEF s
      <4>2. CASE i < e.next
        <5>1. d.next = e.next - 1
          BY <1>6, <3>1, <3>4, <4>2
        <5>2. Len(s) \in Nat /\ i \in Nat /\ i >= 1 /\ e.next - 1 >= 1
          BY <1>2, <1>5, <3>3, <4>2
        <5>3. e.next <= Len(s) + 1 => e.next - 1 <= (Len(s) - 1) + 1
          BY <3>3, <5>2
        <5>4. e.next = 2 => e.next - 1 <= (Len(s) - 1) + 1
          BY <1>5, <3>3, <5>2
        <5>5. e.next <= Len(s) + 1 \/ e.next = 2
          BY <3>3, <4>1
        <5>6. e.next - 1 <= (Len(s) - 1) + 1
          BY <5>3, <5>4, <5>5
        <5> QED
          BY <4>1, <5>1, <5>2, <5>6
      <4>3. CASE ~(i < e.next)
        <5>1. d.next = e.next
          BY <1>6, <3>1, <4>3
        <5>2. e.next <= (Len(s) - 1) + 1
          BY <1>2, <1>5, <3>3, <4>3
        <5> QED
          BY <3>3, <4>1, <5>1, <5>2
      <4> QED
        BY <4>2, <4>3
    <3>5. CASE e.at # m
      <4>1. d = e /\ u_handlers'[d.at] = u_handlers[e.at]
        BY <1>4, <1>6, <3>1, <3>2, <3>3, <3>5
      <4> QED
        BY <3>3, <4>1
    <3> QED
      BY <3>4, <3>5
  <2>3. \A k \in Machine : \A a, b \in DOMAIN u_handlers'[k] :
           u_handlers'[k][a] = u_handlers'[k][b] => a = b
    BY <1>4, <2>1 DEF TalkInv, PlaceInv
  <2> QED
    BY <2>2, <2>3 DEF PlaceInv
<1>9. TalkWireInv' /\ PendingInv'
  BY <1>1 DEF TalkInv, TalkWireInv, PendingInv
<1>10. \A k \in Machine, id \in Nat : OnWire(k, id)' => OnWire(k, id)
  BY <1>1 DEF OnWire
<1>11. \A d \in u_runs' : \E e \in u_runs : Same(d, e) /\ d = Moved(e, m, i)
  BY <1>1, <1>6
<1>12. \A d, e \in u_runs' : d.msg.id = e.msg.id /\ d.at = e.at /\ d.heard = e.heard => d = e
  <2> SUFFICES ASSUME NEW d \in u_runs', NEW e \in u_runs', d.msg.id = e.msg.id, d.at = e.at,
                      d.heard = e.heard
               PROVE  d = e
    OBVIOUS
  <2>1. PICK x \in u_runs : Same(d, x) /\ d = Moved(x, m, i)
    BY <1>11
  <2>2. PICK y \in u_runs : Same(e, y) /\ e = Moved(y, m, i)
    BY <1>11
  <2>3. x = y
    BY <2>1, <2>2 DEF TalkInv, DeliveryInv, Same
  <2> QED
    BY <2>1, <2>2, <2>3
<1>13. ASSUME NEW h \in Handler, NEW d \in u_runs', <<d.at, h>> \notin u_removed', Ahead(d, h)'
       PROVE  \E e \in u_runs : Same(d, e) /\ Ahead(e, h)
  <2>1. PICK e \in u_runs : Same(d, e) /\ d = Moved(e, m, i)
    BY <1>11
  <2>2. e.next \in Nat /\ e.at \in Machine /\ d.at = e.at /\ d.awaiting = e.awaiting
    BY <1>6, <2>1 DEF Same
  <2>3. /\ d.awaiting # "none"
        /\ \A k \in DOMAIN u_handlers'[d.at] : k < d.next => u_handlers'[d.at][k] # h
    BY <1>13 DEF Ahead
  <2>4. ASSUME NEW k \in DOMAIN u_handlers[e.at], k < e.next
        PROVE  u_handlers[e.at][k] # h
    <3>1. CASE e.at # m
      BY <1>4, <1>6, <2>1, <2>2, <2>3, <2>4, <3>1
    <3>2. CASE e.at = m
      <4>1. u_handlers[e.at] = s /\ u_handlers'[d.at] = t /\ k \in 1..Len(s)
        BY <1>2, <1>4, <2>2, <3>2 DEF s
      <4>2. h # s[i]
        BY <1>1, <1>13, <2>2, <3>2
      <4>3. d.next = IF i < e.next THEN e.next - 1 ELSE e.next
        BY <1>6, <2>1, <3>2
      <4>4. CASE k = i
        BY <4>1, <4>2, <4>4
      <4>5. CASE k < i
        <5>1. k \in DOMAIN t /\ t[k] = s[k] /\ k < d.next
          BY <1>2, <1>3, <1>5, <2>2, <2>4, <4>1, <4>3, <4>5
        <5> QED
          BY <2>3, <4>1, <5>1
      <4>6. CASE k > i
        <5>1. k - 1 \in DOMAIN t /\ t[k - 1] = s[k] /\ k - 1 < d.next
          <6>1. k - 1 \in i..(Len(s) - 1) /\ k - 1 \in 1..(Len(s) - 1) /\ (k - 1) + 1 = k
            BY <1>2, <1>5, <4>1, <4>6
          <6>2. i < e.next /\ k - 1 < e.next - 1
            BY <1>2, <1>5, <2>2, <2>4, <4>1, <4>6
          <6> QED
            BY <1>3, <4>3, <6>1, <6>2
        <5> QED
          BY <2>3, <4>1, <5>1
      <4> QED
        BY <1>2, <1>5, <4>1, <4>4, <4>5, <4>6
    <3> QED
      BY <3>1, <3>2
  <2>5. Ahead(e, h)
    BY <2>2, <2>3, <2>4 DEF Ahead
  <2> QED
    BY <2>1, <2>5
<1>14. \A d \in u_runs' : \E e \in u_runs : Same(d, e)
  BY <1>11
<1>15. u_removed \subseteq u_removed'
  BY <1>1
<1> QED
  BY <1>1, <1>7, <1>8, <1>9, <1>10, <1>12, <1>13, <1>14, <1>15, TalkQuiet

(* A request is delivered once, and is then no longer on the wire.         *)
LEMMA OneDelivery ==
    ASSUME TalkInv, NEW d \in u_runs, d.msg.kind = "request"
    PROVE  /\ d.msg.to = d.at
           /\ \A e \in u_runs : e.msg.id = d.msg.id => e = d
           /\ \A m \in Machine : ~OnWire(m, d.msg.id)
<1> DEFINE id == d.msg.id
<1>1. /\ d.at \in Machine /\ TalkType /\ id \in 1..u_messages /\ d.msg = u_sent[id]
      /\ d.msg.to \in {d.at, Talk!All} /\ (d.heard => d.msg.to # d.msg.from)
      /\ (d.heard => ~OnWire(d.at, id)) /\ (~d.heard => d.at = d.msg.from)
      /\ d.heard \in BOOLEAN
  BY TalkTyped DEF TalkInv, DeliveryInv
<1>2. d.msg.to = d.at
  <2>1. d.msg.to \in Machine
    BY <1>1 DEF TalkInv, SentInv
  <2> QED
    BY <1>1, <2>1, TalkAssumption
<1>3. ASSUME NEW e \in u_runs, e.msg.id = id PROVE e = d
  <2>1. /\ e.msg = d.msg /\ e.at \in Machine /\ e.msg.to \in {e.at, Talk!All}
        /\ (e.heard => e.msg.to # e.msg.from) /\ (~e.heard => e.at = e.msg.from)
        /\ e.heard \in BOOLEAN
    BY <1>1, <1>3, TalkTyped DEF TalkInv, DeliveryInv
  <2>2. e.at = d.at
    BY <1>1, <1>2, <2>1, TalkAssumption
  <2>3. e.heard = d.heard
    BY <1>1, <1>2, <2>1, <2>2
  <2> QED
    BY <1>3, <2>2, <2>3 DEF TalkInv, DeliveryInv
<1>4. ASSUME NEW m \in Machine, OnWire(m, id) PROVE FALSE
  <2>1. PICK i \in DOMAIN u_wire[m] : u_wire[m][i].id = id /\ u_wire[m][i].kind # "response"
    BY <1>4 DEF OnWire
  <2>2. d.msg.to # d.msg.from /\ d.msg.to \in {m, Talk!All}
    BY <1>1, <2>1 DEF TalkInv, TalkWireInv
  <2>3. m = d.at
    BY <1>1, <1>2, <2>2, TalkAssumption
  <2>4. d.heard
    BY <1>1, <1>2, <2>2
  <2> QED
    BY <1>1, <1>4, <2>3, <2>4
<1> QED
  BY <1>2, <1>3, <1>4

(* A request ends, and is answered.                                        *)
LEMMA FinishTalkKeeps ==
    ASSUME TalkInv, NEW d \in u_runs, Talk!Finish(d)
    PROVE  TalkInv'
<1>1. /\ d.awaiting = "none" /\ u_runs' = u_runs \ {d}
      /\ UNCHANGED <<u_handlers, u_pending, u_messages, u_sent, u_called, u_removed>>
  BY DEF Talk!Finish
<1> DEFINE a == Talk!Answer(d)
           id == d.msg.id
<1>2. /\ d \in Delivery /\ d.msg \in TalkMsg /\ d.at \in Machine
      /\ d.last \in Handler \cup {"none", "throws"} /\ TalkType
      /\ id \in 1..u_messages /\ id \in 1..MaxMessages /\ d.msg = u_sent[id]
      /\ d.msg.to \in {d.at, Talk!All} /\ (d.heard => d.msg.to # d.msg.from)
      /\ (d.heard => ~OnWire(d.at, id)) /\ (~d.heard => d.at = d.msg.from)
      /\ id \in Nat
  BY TalkTyped DEF TalkInv, DeliveryInv
<1>3. d.msg.kind = "request" =>
         d.msg.to = d.at /\ d.at \in Machine /\ u_sent[id].kind = "request"
  <2>1. d.msg.kind = "request" => d.msg.to \in Machine
    BY <1>2 DEF TalkInv, SentInv
  <2> QED
    BY <1>2, <2>1, TalkAssumption
<1>4. /\ a \in TalkOutcome /\ a.kind \in {"result", "error"}
      /\ a.kind = "result" => a.of = d.last /\ d.last \notin {"none", "throws"}
      /\ [kind |-> "error", of |-> "none"] \in TalkOutcome
  <2>1. [kind |-> "error", of |-> "none"] \in TalkOutcome
    BY DEF TalkOutcome, TalkKind
  <2>2. CASE d.last \in {"none", "throws"}
    BY <2>1, <2>2 DEF Talk!Answer, Talk!Outcome
  <2>3. CASE d.last \notin {"none", "throws"}
    <3>1. a = [kind |-> "result", of |-> d.last] /\ d.last \in Handler
      BY <1>2, <2>3 DEF Talk!Answer, Talk!Result
    <3>2. a \in TalkOutcome
      BY <3>1 DEF TalkOutcome, TalkKind
    <3> QED
      BY <2>1, <2>3, <3>1, <3>2
  <2> QED
    BY <2>2, <2>3
<1> HIDE DEF a
(* The answer is that of the last handler, and nothing else is under way. *)
<1>5. ASSUME d.msg.kind = "request", a.kind = "result",
             \A m \in Machine : OnWire(m, id)' => OnWire(m, id)
      PROVE  OverWith(id, a.of)'
  <2>1. LastWas(id, d.at, a.of)
    BY <1>1, <1>4, <1>5 DEF TalkInv, LastInv
  <2>2. \A e \in u_runs : e.msg.id = id => e = d
    BY <1>5, OneDelivery
  <2>3. \A m \in Machine : ~OnWire(m, id)
    BY <1>5, OneDelivery
  <2>4. LastWas(id, u_sent[id].to, a.of)'
    <3>1. u_sent'[id].to = d.at /\ u_called' = u_called
      BY <1>1, <1>2, <1>3, <1>5
    <3> QED
      BY <2>1, <3>1 DEF LastWas
  <2>5. \A e \in u_runs' : e.msg.id # id
    BY <1>1, <2>2
  <2>6. \A m \in Machine : ~OnWire(m, id)'
    BY <1>5, <2>3
  <2>7. u_sent'[id].kind = "request"
    BY <1>1, <1>3, <1>5
  <2> QED
    BY <2>4, <2>5, <2>6, <2>7 DEF OverWith
<1>6. /\ \A e \in u_runs' : \E f \in u_runs : Same(e, f)
      /\ \A e, f \in u_runs' : e.msg.id = f.msg.id /\ e.at = f.at /\ e.heard = f.heard => e = f
      /\ \A h \in Handler : \A e \in u_runs' : <<e.at, h>> \notin u_removed' /\ Ahead(e, h)' =>
            \E f \in u_runs : Same(e, f) /\ Ahead(f, h)
      /\ PlaceInv' /\ u_runs' \subseteq Delivery
  <2>1. \A e \in u_runs' : e \in u_runs /\ Same(e, e)
    BY <1>1 DEF Same
  <2>2. \A e, f \in u_runs' : e.msg.id = f.msg.id /\ e.at = f.at /\ e.heard = f.heard => e = f
    BY <2>1 DEF TalkInv, DeliveryInv
  <2>3. \A h, e : Ahead(e, h)' => Ahead(e, h)
    BY <1>1 DEF Ahead
  <2>4. PlaceInv'
    BY <1>1, <2>1 DEF TalkInv, PlaceInv
  <2>5. u_runs' \subseteq Delivery
    BY <2>1, TalkTyped DEF TalkInv
  <2> QED
    BY <2>1, <2>2, <2>3, <2>4, <2>5
<1>7. CASE UNCHANGED <<u_wire, u_outcome>>
  <2>1. TalkType'
    BY <1>1, <1>6, <1>7 DEF TalkInv, TalkType
  <2>2. TalkWireInv' /\ PendingInv'
    BY <1>1, <1>7 DEF TalkInv, TalkWireInv, PendingInv
  <2>3. \A m \in Machine, n \in Nat : OnWire(m, n)' => OnWire(m, n)
    BY <1>7 DEF OnWire
  <2> QED
    BY <1>1, <1>6, <1>7, <2>1, <2>2, <2>3, TalkQuiet
<1>8. ASSUME d.msg.kind = "request", ~d.heard, u_outcome' = [u_outcome EXCEPT ![id] = a],
             UNCHANGED u_wire
      PROVE  TalkInv'
  <2>1. u_outcome' \in [1..MaxMessages -> TalkOutcome] /\ u_outcome'[id] = a
        /\ \A n \in 1..u_messages : n # id => u_outcome'[n] = u_outcome[n]
    <3>1. 1..u_messages \subseteq 1..MaxMessages
      BY <1>2, TalkTyped
    <3> QED
      BY <1>2, <1>4, <1>8, <3>1 DEF TalkType
  <2>2. TalkType'
    BY <1>1, <1>6, <1>8, <2>1 DEF TalkInv, TalkType
  <2>3. TalkWireInv'
    BY <1>1, <1>8 DEF TalkInv, TalkWireInv
  <2>4. PendingInv'
    <3>1. u_sent[id].to = u_sent[id].from
      BY <1>2, <1>3, <1>8
    <3> QED
      BY <1>1, <1>4, <2>1, <3>1 DEF TalkInv, PendingInv
  <2>5. \A m \in Machine, n \in Nat : OnWire(m, n)' => OnWire(m, n)
    BY <1>8 DEF OnWire
  <2>6. ASSUME NEW n \in 1..u_messages, u_outcome'[n].kind = "result"
        PROVE  u_outcome'[n] = u_outcome[n] \/ OverWith(n, u_outcome[n].of)'
    <3>1. CASE n # id
      BY <2>1, <3>1
    <3>2. CASE n = id
      <4>1. a.kind = "result"
        BY <2>1, <2>6, <3>2
      <4>2. PICK k : k = a.of
        OBVIOUS
      <4>3. \A m \in Machine : OnWire(m, id)' => OnWire(m, id)
        BY <1>2, <2>5
      <4>4. OverWith(id, a.of)'
        BY <1>5, <1>8, <4>1, <4>3
      <4> QED
        BY <2>1, <3>2, <4>4
    <3> QED
      BY <3>1, <3>2
  <2> QED
    BY <1>1, <1>6, <1>8, <2>2, <2>3, <2>4, <2>5, <2>6, TalkQuiet
<1>9. ASSUME d.msg.kind = "request", d.heard, NEW o \in TalkOutcome,
             o = a \/ o.kind = "error", Talk!Publish(Talk!Response(d, o)), UNCHANGED u_outcome
      PROVE  TalkInv'
  <2> DEFINE r == Talk!Response(d, o)
  <2>1. /\ r \in TalkMsg /\ r.kind = "response" /\ r.id = id /\ r.payload = o
        /\ r.payload.kind \in {"result", "error"}
    <3>1. r = [kind |-> "response", id |-> id, from |-> d.at, to |-> d.msg.from, payload |-> o]
      BY DEF Talk!Response, Talk!Msg
    <3>2. d.msg.from \in Machine
      BY <1>2, TalkMsgTyped
    <3>3. r \in TalkMsg
      BY <1>2, <1>9, <3>1, <3>2 DEF TalkMsg
    <3> QED
      BY <1>4, <1>9, <3>1, <3>3
  <2> HIDE DEF r
  <2>2. /\ u_wire' \in [Machine -> Seq(TalkMsg)]
        /\ \A m \in Machine : \A i \in DOMAIN u_wire'[m] :
              \/ i \in DOMAIN u_wire[m] /\ u_wire'[m][i] = u_wire[m][i]
              \/ i \notin DOMAIN u_wire[m] /\ u_wire'[m][i] = r
        /\ \A m \in Machine, n \in Nat : OnWire(m, n)' => OnWire(m, n)
    <3>1. Talk!Publish(r)
      BY <1>9 DEF r
    <3> QED
      BY <1>2, <2>1, <3>1, TalkRises
  <2>3. TalkType'
    BY <1>1, <1>6, <1>9, <2>2 DEF TalkInv, TalkType
  <2>4. PendingInv'
    BY <1>1, <1>9 DEF TalkInv, PendingInv
  <2>5. TalkWireInv'
    <3> SUFFICES ASSUME NEW k \in Machine
                 PROVE  /\ \A i \in DOMAIN u_wire'[k] :
                              LET msg == u_wire'[k][i] IN
                              /\ msg.id \in 1..u_messages /\ u_sent[msg.id].to # u_sent[msg.id].from
                              /\ msg.kind # "response" => msg = u_sent[msg.id]
                                                          /\ msg.to \in {k, Talk!All}
                              /\ msg.kind = "response" => /\ u_sent[msg.id].kind = "request"
                                                          /\ msg.payload.kind \in {"result", "error"}
                        /\ OnWireOnce(u_wire'[k])
      BY <1>1 DEF TalkWireInv
    <3>1. OnWireOnce(u_wire'[k])
      BY <2>1, <2>2 DEF TalkInv, TalkWireInv, OnWireOnce
    <3>2. u_sent[id].to # u_sent[id].from /\ u_sent[id].kind = "request"
      BY <1>2, <1>3, <1>9
    <3> QED
      BY <1>2, <2>1, <2>2, <3>1, <3>2 DEF TalkInv, TalkWireInv
  <2>6. ASSUME NEW m \in Machine, NEW i \in DOMAIN u_wire'[m],
               u_wire'[m][i].kind = "response", u_wire'[m][i].payload.kind = "result"
        PROVE  \/ \E j \in DOMAIN u_wire[m] : u_wire'[m][i] = u_wire[m][j]
               \/ OverWith(u_wire[m][i].id, u_wire[m][i].payload.of)'
    <3>1. CASE i \in DOMAIN u_wire[m] /\ u_wire'[m][i] = u_wire[m][i]
      BY <3>1
    <3>2. CASE u_wire'[m][i] = r
      <4>1. o = a /\ a.kind = "result"
        BY <1>9, <2>1, <2>6, <3>2
      <4>2. \A k \in Machine : OnWire(k, id)' => OnWire(k, id)
        BY <1>2, <2>2
      <4>3. OverWith(id, a.of)'
        BY <1>5, <1>9, <4>1, <4>2
      <4>4. u_wire'[m][i].id = id /\ u_wire'[m][i].payload.of = a.of
        BY <2>1, <3>2, <4>1
      <4> QED
        BY <4>3, <4>4
    <3> QED
      BY <2>2, <3>1, <3>2
  <2>7. \A e \in u_runs' : \E f \in u_runs : Same(e, f)
    BY <1>6
  <2> QED
    BY <1>1, <1>6, <1>9, <2>2, <2>3, <2>4, <2>5, <2>6, <2>7, TalkQuiet
<1>10. Talk!Outcome("error") \in TalkOutcome /\ Talk!Outcome("error").kind = "error"
  BY <1>4 DEF Talk!Outcome
<1> QED
  BY <1>4, <1>7, <1>8, <1>9, <1>10 DEF Talk!Finish, Talk!Becomes, a

(* The number of calls after a step that makes one only if it was ahead.   *)
LEMMA CountStep ==
    ASSUME TalkType, CountInv, NEW id \in 1..u_messages, NEW m \in Machine, NEW h \in Handler,
           <<m, h>> \notin u_removed, NEW P \in BOOLEAN, NEW b \in BOOLEAN,
           Counts(u_called'[id], <<m, h>>) = Counts(u_called[id], <<m, h>>) + One(P),
           \A heard \in BOOLEAN : Yet(id, m, h, heard)' => Yet(id, m, h, heard),
           P => Yet(id, m, h, b) /\ ~Yet(id, m, h, b)'
    PROVE  Counts(u_called'[id], <<m, h>>) + One(Yet(id, m, h, FALSE)') + One(Yet(id, m, h, TRUE)')
               <= Times(id, m)
<1>1. Counts(u_called[id], <<m, h>>) + One(Yet(id, m, h, FALSE)) + One(Yet(id, m, h, TRUE))
         <= Times(id, m)
  BY DEF CountInv
<1>2. Yet(id, m, h, FALSE)' => Yet(id, m, h, FALSE)
  OBVIOUS
<1>3. Yet(id, m, h, TRUE)' => Yet(id, m, h, TRUE)
  OBVIOUS
<1> DEFINE c == Counts(u_called[id], <<m, h>>)
           n == Counts(u_called'[id], <<m, h>>)
           f == One(Yet(id, m, h, FALSE))
           t == One(Yet(id, m, h, TRUE))
           x == One(Yet(id, m, h, FALSE)')
           y == One(Yet(id, m, h, TRUE)')
           p == One(P)
<1>4. c \in Nat /\ Times(id, m) \in Nat
  <2>1. u_called[id] \in Seq(Machine \X Handler)
    BY TalkTyped
  <2> QED
    BY <2>1, CountsGrow DEF Times
<1>5. f \in {0, 1} /\ t \in {0, 1} /\ x \in {0, 1} /\ y \in {0, 1} /\ p \in {0, 1}
  BY DEF One
<1>6. (x = 1 => f = 1) /\ (y = 1 => t = 1)
  BY <1>2, <1>3 DEF One
<1>7. p = 1 => (f = 1 /\ x = 0) \/ (t = 1 /\ y = 0)
  <2>1. CASE b = FALSE
    <3>1. P => Yet(id, m, h, FALSE) /\ ~Yet(id, m, h, FALSE)'
      BY <2>1
    <3> QED
      BY <3>1 DEF One
  <2>2. CASE b = TRUE
    <3>1. P => Yet(id, m, h, TRUE) /\ ~Yet(id, m, h, TRUE)'
      BY <2>2
    <3> QED
      BY <3>1 DEF One
  <2> QED
    BY <2>1, <2>2
<1>8. n = c + p /\ c + f + t <= Times(id, m)
  BY <1>1
<1> HIDE DEF c, n, f, t, x, y, p
<1>9. n + x + y <= Times(id, m)
  BY <1>4, <1>5, <1>6, <1>7, <1>8
<1> QED
  BY <1>9 DEF n, x, y

(* A delivery begins with the first handler.                               *)
Begun(d, m, msg, heard) ==
    /\ d.at = m /\ d.msg = msg /\ d.heard = heard /\ d.next = 2 /\ d.last = "none"
    /\ u_runs' = u_runs \cup {d}
    /\ u_called' \in [1..MaxMessages -> Seq(Machine \X Handler)]
    /\ \A id \in 1..MaxMessages : id # msg.id => u_called'[id] = u_called[id]
    /\ \A k \in Machine, h \in Handler :
          Counts(u_called'[msg.id], <<k, h>>)
             = IF k = m /\ h = d.awaiting THEN Counts(u_called[msg.id], <<k, h>>) + 1
               ELSE Counts(u_called[msg.id], <<k, h>>)
    /\ \A h \in Handler : Ahead(d, h) => h # d.awaiting
    /\ d.awaiting # "none" => /\ u_called'[msg.id] # <<>>
                              /\ u_called'[msg.id][Len(u_called'[msg.id])] = <<m, d.awaiting>>

LEMMA DeliverDoes ==
    ASSUME TalkType, NEW m \in Machine, NEW msg \in TalkMsg, NEW heard \in BOOLEAN,
           Talk!Deliver(m, msg, heard)
    PROVE  \E d \in Delivery : Begun(d, m, msg, heard)
<1> DEFINE hs == u_handlers[m]
           first == IF hs = <<>> THEN "none" ELSE Head(hs)
           d == [at |-> m, msg |-> msg, heard |-> heard, awaiting |-> first, next |-> 2,
                 last |-> "none"]
<1>1. /\ u_runs' = u_runs \cup {d}
      /\ u_called' = IF hs = <<>> THEN u_called
                     ELSE [u_called EXCEPT ![msg.id] = Append(u_called[msg.id], <<m, first>>)]
  BY DEF Talk!Deliver
<1>2. /\ hs \in Seq(Handler) /\ DOMAIN hs = 1..Len(hs) /\ msg.id \in 1..MaxMessages
      /\ u_called \in [1..MaxMessages -> Seq(Machine \X Handler)]
      /\ u_called[msg.id] \in Seq(Machine \X Handler)
  BY TalkTyped, TalkMsgTyped DEF TalkType
<1>3. hs # <<>> => first = hs[1] /\ 1 \in DOMAIN hs /\ first \in Handler
  <2>1. hs # <<>> => Len(hs) >= 1 /\ Len(hs) \in Nat
    BY <1>2, WithoutFirst
  <2>2. hs # <<>> => 1 \in 1..Len(hs) /\ first = hs[1]
    BY <1>2, <2>1
  <2> QED
    BY <1>2, <2>2, Entries
<1>4. d \in Delivery
  <2>1. first \in Handler \cup {"none"}
    BY <1>3
  <2> HIDE DEF first
  <2> QED
    BY <2>1 DEF Delivery
<1>5. /\ d.at = m /\ d.msg = msg /\ d.heard = heard /\ d.next = 2 /\ d.last = "none"
      /\ d.awaiting = first
  OBVIOUS
<1> HIDE DEF d, first, hs
<1>6. CASE hs = <<>>
  <2>1. u_called' = u_called /\ d.awaiting = "none"
    BY <1>1, <1>5, <1>6 DEF first
  <2>2. "none" \notin Handler
    BY TalkAssumption
  <2>3. \A k \in Machine, h \in Handler :
           Counts(u_called'[msg.id], <<k, h>>)
              = IF k = m /\ h = d.awaiting THEN Counts(u_called[msg.id], <<k, h>>) + 1
                ELSE Counts(u_called[msg.id], <<k, h>>)
    BY <2>1, <2>2
  <2>4. \A h \in Handler : Ahead(d, h) => h # d.awaiting
    BY <2>1, <2>2
  <2> QED
    BY <1>1, <1>2, <1>4, <1>5, <2>1, <2>3, <2>4 DEF Begun
<1>7. CASE hs # <<>>
  <2> DEFINE c == Append(u_called[msg.id], <<m, first>>)
  <2>1. /\ u_called' = [u_called EXCEPT ![msg.id] = c] /\ first = hs[1] /\ 1 \in DOMAIN hs
        /\ first \in Handler /\ <<m, first>> \in Machine \X Handler
    BY <1>1, <1>3, <1>7
  <2>2. /\ c \in Seq(Machine \X Handler) /\ Len(c) = Len(u_called[msg.id]) + 1
        /\ c[Len(u_called[msg.id]) + 1] = <<m, first>> /\ Len(u_called[msg.id]) \in Nat
    BY <1>2, <2>1, Appended, Entries
  <2>3. ASSUME NEW k \in Machine, NEW h \in Handler
        PROVE  Counts(c, <<k, h>>)
                  = IF k = m /\ h = d.awaiting THEN Counts(u_called[msg.id], <<k, h>>) + 1
                    ELSE Counts(u_called[msg.id], <<k, h>>)
    <3>1. \A x \in Machine \X Handler :
             Counts(Append(u_called[msg.id], x), <<k, h>>)
                = IF x = <<k, h>> THEN Counts(u_called[msg.id], <<k, h>>) + 1
                  ELSE Counts(u_called[msg.id], <<k, h>>)
      BY <1>2, CountsGrow
    <3>2. Counts(c, <<k, h>>)
             = IF <<m, first>> = <<k, h>> THEN Counts(u_called[msg.id], <<k, h>>) + 1
               ELSE Counts(u_called[msg.id], <<k, h>>)
      BY <2>1, <3>1
    <3>3. <<m, first>> = <<k, h>> <=> k = m /\ h = d.awaiting
      BY <1>5
    <3> HIDE DEF c
    <3> QED
      BY <3>2, <3>3
  <2> HIDE DEF c
  <2>4. /\ u_called' \in [1..MaxMessages -> Seq(Machine \X Handler)] /\ u_called'[msg.id] = c
        /\ \A id \in 1..MaxMessages : id # msg.id => u_called'[id] = u_called[id]
    BY <1>2, <2>1, <2>2
  <2>5. \A h \in Handler : Ahead(d, h) => h # d.awaiting
    BY <1>5, <2>1 DEF Ahead, hs
  <2>6. c # <<>> /\ c[Len(c)] = <<m, d.awaiting>>
    BY <1>5, <2>2
  <2>7. /\ u_called'[msg.id] # <<>>
        /\ u_called'[msg.id][Len(u_called'[msg.id])] = <<m, d.awaiting>>
    BY <2>4, <2>6
  <2>8. \A k \in Machine, h \in Handler :
           Counts(u_called'[msg.id], <<k, h>>)
              = IF k = m /\ h = d.awaiting THEN Counts(u_called[msg.id], <<k, h>>) + 1
                ELSE Counts(u_called[msg.id], <<k, h>>)
    BY <2>3, <2>4
  <2> QED
    BY <1>1, <1>4, <1>5, <2>4, <2>5, <2>7, <2>8 DEF Begun
<1> QED
  BY <1>6, <1>7

LEMMA HearTalkKeeps ==
    ASSUME TalkInv, NEW m \in Machine, Talk!Hear(m)
    PROVE  TalkInv'
<1>0. TalkType /\ u_wire[m] # <<>> /\ u_wire[m] \in Seq(TalkMsg) /\ DOMAIN u_wire[m] = 1..Len(u_wire[m])
      /\ 1 \in DOMAIN u_wire[m] /\ Head(u_wire[m]) = u_wire[m][1]
  <2>1. TalkType /\ u_wire[m] # <<>> /\ u_wire[m] \in Seq(TalkMsg)
    BY TalkTyped DEF TalkInv, Talk!Hear
  <2>2. Len(u_wire[m]) \in Nat /\ Len(u_wire[m]) >= 1 /\ DOMAIN u_wire[m] = 1..Len(u_wire[m])
    BY <2>1, Entries, WithoutFirst
  <2> QED
    BY <2>1, <2>2
<1>b. PICK msg \in TalkMsg : msg = Head(u_wire[m])
  BY <1>0, TalkTyped
<1> DEFINE id == msg.id
<1>1. /\ u_wire[m] # <<>> /\ u_wire' = [u_wire EXCEPT ![m] = Tail(u_wire[m])]
      /\ IF msg.kind = "response"
         THEN /\ u_pending' = u_pending \ Talk!Settles(m, msg)
              /\ u_outcome' = [n \in DOMAIN u_outcome |->
                                  IF n \in Talk!Settles(m, msg) THEN msg.payload ELSE u_outcome[n]]
              /\ UNCHANGED <<u_runs, u_called>>
         ELSE Talk!Deliver(m, msg, TRUE) /\ UNCHANGED <<u_pending, u_outcome>>
      /\ UNCHANGED <<u_handlers, u_messages, u_events, u_sent, u_removed>>
  BY <1>b DEF Talk!Hear
<1>2. TalkType /\ u_wire[m] \in Seq(TalkMsg) /\ DOMAIN u_wire[m] = 1..Len(u_wire[m])
  BY TalkTyped DEF TalkInv
<1>3. /\ u_wire' \in [Machine -> Seq(TalkMsg)] /\ TalkWireInv'
      /\ \A k \in Machine : \A i \in DOMAIN u_wire'[k] :
            \E j \in DOMAIN u_wire[k] : u_wire'[k][i] = u_wire[k][j]
      /\ \A k \in Machine, n \in Nat : OnWire(k, n)' => OnWire(k, n)
      /\ \A i \in DOMAIN Tail(u_wire[m]) :
            i + 1 \in DOMAIN u_wire[m] /\ Tail(u_wire[m])[i] = u_wire[m][i + 1]
      /\ 1 \in DOMAIN u_wire[m] /\ u_wire'[m] = Tail(u_wire[m])
  <2>1. u_wire'[m] = Tail(u_wire[m])
    BY <1>1, <1>2 DEF TalkType
  <2> QED
    BY <1>1, <2>1, TalkFalls DEF TalkInv
<1>4. msg = u_wire[m][1]
  BY <1>0, <1>b
<1>5. /\ msg \in TalkMsg /\ id \in 1..u_messages /\ id \in Nat /\ id \in 1..MaxMessages
      /\ msg.kind # "response" => msg = u_sent[id] /\ msg.to \in {m, Talk!All} /\ OnWire(m, id)
                                  /\ msg.to # msg.from
      /\ msg.kind = "response" => /\ u_sent[id].kind = "request"
                                  /\ msg.payload.kind \in {"result", "error"}
  <2>1. /\ msg \in TalkMsg /\ id \in 1..u_messages
        /\ msg.kind # "response" => msg = u_sent[id] /\ msg.to \in {m, Talk!All}
        /\ msg.kind = "response" => /\ u_sent[id].kind = "request"
                                    /\ msg.payload.kind \in {"result", "error"}
        /\ u_sent[id].to # u_sent[id].from
    BY <1>2, <1>3, <1>4, TalkTyped DEF TalkInv, TalkWireInv
  <2>2. msg.kind # "response" => OnWire(m, id)
    BY <1>3, <1>4 DEF OnWire
  <2>3. id \in 1..MaxMessages
    BY <2>1, TalkMsgTyped
  <2> QED
    BY <2>1, <2>2, <2>3
<1>6. ASSUME msg.kind = "response"
      PROVE  TalkInv'
  <2> DEFINE S == Talk!Settles(m, msg)
  <2>1. S \subseteq {id} /\ S \subseteq u_pending
    BY DEF Talk!Settles
  <2>2. /\ u_pending' = u_pending \ S /\ UNCHANGED <<u_runs, u_called>>
        /\ u_outcome' = [n \in DOMAIN u_outcome |-> IF n \in S THEN msg.payload ELSE u_outcome[n]]
    BY <1>1, <1>6
  <2> HIDE DEF S
  <2>3. /\ u_outcome' \in [1..MaxMessages -> TalkOutcome]
        /\ \A n \in 1..u_messages :
              /\ n \in S => n = id /\ u_outcome'[n] = msg.payload
              /\ n \notin S => u_outcome'[n] = u_outcome[n]
    <3>1. msg.payload \in TalkOutcome
      BY <1>5, TalkMsgTyped
    <3>2. 1..u_messages \subseteq 1..MaxMessages
      BY <1>2, TalkTyped
    <3> QED
      BY <1>2, <2>1, <2>2, <3>1, <3>2 DEF TalkType
  <2>4. TalkType'
    BY <1>1, <1>2, <1>3, <2>2, <2>3 DEF TalkType
  <2>5. PlaceInv'
    BY <1>1, <2>2 DEF TalkInv, PlaceInv
  <2>6. PendingInv'
    <3> SUFFICES ASSUME NEW n \in 1..u_messages
                 PROVE  n \in u_pending' <=> /\ u_outcome'[n].kind = "waiting"
                                             /\ u_sent[n].to # u_sent[n].from
      BY <1>1 DEF PendingInv
    <3>1. n \in u_pending <=> u_outcome[n].kind = "waiting" /\ u_sent[n].to # u_sent[n].from
      BY DEF TalkInv, PendingInv
    <3>2. CASE n \in S
      BY <1>5, <1>6, <2>2, <2>3, <3>2
    <3>3. CASE n \notin S
      BY <2>2, <2>3, <3>1, <3>3
    <3> QED
      BY <3>2, <3>3
  <2>7. /\ \A d \in u_runs' : \E e \in u_runs : Same(d, e)
        /\ \A d, e \in u_runs' : d.msg.id = e.msg.id /\ d.at = e.at /\ d.heard = e.heard => d = e
        /\ \A h \in Handler : \A d \in u_runs' : <<d.at, h>> \notin u_removed' /\ Ahead(d, h)' =>
              \E e \in u_runs : Same(d, e) /\ Ahead(e, h)
    <3>1. \A d \in u_runs' : d \in u_runs /\ Same(d, d)
      BY <2>2 DEF Same
    <3>2. \A d, h : Ahead(d, h)' => Ahead(d, h)
      BY <1>1 DEF Ahead
    <3> QED
      BY <3>1, <3>2 DEF TalkInv, DeliveryInv
  <2>8. ASSUME NEW n \in 1..u_messages, u_outcome'[n].kind = "result"
        PROVE  u_outcome'[n] = u_outcome[n] \/ OverWith(n, u_outcome[n].of)'
    <3>1. CASE n \notin S
      BY <2>3, <3>1
    <3>2. CASE n \in S
      <4>1. n = id /\ u_outcome'[n] = msg.payload /\ msg.payload.kind = "result"
        BY <2>3, <2>8, <3>2
      <4>2. PICK h : h = msg.payload.of
        OBVIOUS
      <4>3. OverWith(n, h) /\ n \in Nat
        BY <1>3, <1>4, <1>6, <4>1, <4>2 DEF TalkInv, LastInv
      <4>4. /\ u_sent'[n] = u_sent[n] /\ u_called'[n] = u_called[n]
            /\ \A d \in u_runs' : d.msg.id = n => \E e \in u_runs : e.msg.id = n
            /\ \A k \in Machine : OnWire(k, n)' => OnWire(k, n)
        BY <1>1, <1>3, <2>2, <4>3
      <4>5. OverWith(n, h)'
        BY ONLY <4>3, <4>4, OverStays
      <4> QED
        BY <4>1, <4>2, <4>5
    <3> QED
      BY <3>1, <3>2
  <2>9. \A k \in Machine : \A i \in DOMAIN u_wire'[k] :
           u_wire'[k][i].kind = "response" /\ u_wire'[k][i].payload.kind = "result" =>
              \/ \E j \in DOMAIN u_wire[k] : u_wire'[k][i] = u_wire[k][j]
              \/ OverWith(u_wire[k][i].id, u_wire[k][i].payload.of)'
    BY <1>3
  <2>10. UNCHANGED <<u_messages, u_sent, u_called>> /\ u_removed \subseteq u_removed'
    BY <1>1, <2>2
  <2> QED
    BY <1>3, <2>4, <2>5, <2>6, <2>7, <2>8, <2>9, <2>10, TalkQuiet
<1>7. ASSUME msg.kind # "response"
      PROVE  TalkInv'
  <2>1. Talk!Deliver(m, msg, TRUE) /\ UNCHANGED <<u_pending, u_outcome>>
    BY <1>1, <1>7
  <2>a. PICK d \in Delivery : Begun(d, m, msg, TRUE)
    BY ONLY <1>0, <1>b, <2>1, TRUE \in BOOLEAN, DeliverDoes
  <2>2. /\ d.at = m /\ d.msg = msg /\ d.heard = TRUE /\ d.next = 2 /\ d.last = "none"
        /\ u_runs' = u_runs \cup {d}
        /\ u_called' \in [1..MaxMessages -> Seq(Machine \X Handler)]
        /\ \A n \in 1..MaxMessages : n # id => u_called'[n] = u_called[n]
        /\ \A k \in Machine, h \in Handler :
              Counts(u_called'[id], <<k, h>>)
                 = IF k = m /\ h = d.awaiting THEN Counts(u_called[id], <<k, h>>) + 1
                   ELSE Counts(u_called[id], <<k, h>>)
        /\ \A h \in Handler : Ahead(d, h) => h # d.awaiting
        /\ d.awaiting # "none" => /\ u_called'[id] # <<>>
                                  /\ u_called'[id][Len(u_called'[id])] = <<m, d.awaiting>>
    BY <2>a DEF Begun
  <2>3. /\ ~OnWire(m, id)'
        /\ \A e \in u_runs : ~(e.msg.id = id /\ e.at = m /\ e.heard)
        /\ \A n \in Nat : \A h : OverWith(n, h) => n # id
    <3>1. ASSUME NEW i \in DOMAIN u_wire'[m], u_wire'[m][i].id = id, u_wire'[m][i].kind # "response"
          PROVE  FALSE
      <4>1. i + 1 \in DOMAIN u_wire[m] /\ u_wire'[m][i] = u_wire[m][i + 1] /\ i + 1 # 1
        <5>1. i \in DOMAIN Tail(u_wire[m])
          BY <1>3
        <5>2. Tail(u_wire[m]) \in Seq(TalkMsg)
          BY <1>1, <1>2, WithoutFirst
        <5>3. i \in Nat /\ i >= 1
          BY <5>1, <5>2, Entries
        <5> QED
          BY <1>3, <5>1, <5>3
      <4> QED
        BY <1>3, <1>4, <1>7, <3>1, <4>1 DEF TalkInv, TalkWireInv, OnWireOnce
    <3>2. ~OnWire(m, id)'
      BY <3>1 DEF OnWire
    <3>3. \A e \in u_runs : ~(e.msg.id = id /\ e.at = m /\ e.heard)
      BY <1>5, <1>7 DEF TalkInv, DeliveryInv
    <3>4. \A n \in Nat : \A h : OverWith(n, h) => n # id
      BY <1>5, <1>7 DEF OverWith
    <3> QED
      BY <3>2, <3>3, <3>4
  <2>4. TalkType'
    BY <1>1, <1>2, <1>3, <2>1, <2>2 DEF TalkType
  <2>5. PlaceInv'
    BY <1>1, <2>2 DEF TalkInv, PlaceInv
  <2>6. SentInv'
    <3>1. \A n \in 1..MaxMessages : n > u_messages => n # id
      <4>1. u_messages \in Nat
        BY <1>2, TalkTyped
      <4> QED
        BY <1>5, <4>1
    <3> QED
      BY <1>1, <2>2, <3>1 DEF TalkInv, SentInv
  <2>7. DeliveryInv'
    <3>1. ASSUME NEW e \in u_runs'
          PROVE  /\ e.msg.id \in 1..u_messages' /\ e.msg = u_sent'[e.msg.id]
                 /\ e.msg.to \in {e.at, Talk!All}
                 /\ e.heard => e.msg.to # e.msg.from /\ ~OnWire(e.at, e.msg.id)'
                 /\ ~e.heard => e.at = e.msg.from
      <4>1. CASE e = d
        BY <1>1, <1>5, <1>7, <2>2, <2>3, <4>1
      <4>2. CASE e \in u_runs
        <5>1. /\ e.msg.id \in 1..u_messages /\ e.msg = u_sent[e.msg.id]
              /\ e.msg.to \in {e.at, Talk!All}
              /\ e.heard => e.msg.to # e.msg.from /\ ~OnWire(e.at, e.msg.id)
              /\ ~e.heard => e.at = e.msg.from
          BY <4>2 DEF TalkInv, DeliveryInv
        <5>2. e.at \in Machine /\ e.msg.id \in Nat
          BY <1>2, <4>2, <5>1, TalkTyped
        <5> QED
          BY <1>1, <1>3, <5>1, <5>2
      <4> QED
        BY <2>2, <4>1, <4>2
    <3>2. \A e, f \in u_runs' : e.msg.id = f.msg.id /\ e.at = f.at /\ e.heard = f.heard => e = f
      BY <2>2, <2>3 DEF TalkInv, DeliveryInv
    <3> QED
      BY <3>1, <3>2 DEF DeliveryInv
  <2>8. PendingInv'
    BY <1>1, <2>1 DEF TalkInv, PendingInv
  <2>9. LastInv'
    <3>1. ASSUME NEW e \in u_runs', e.msg.kind = "request"
          PROVE  /\ e.awaiting # "none" => LastWas(e.msg.id, e.at, e.awaiting)'
                 /\ e.awaiting = "none" /\ e.last \notin {"none", "throws"}
                    => LastWas(e.msg.id, e.at, e.last)'
      <4>1. CASE e = d
        BY <2>2, <4>1 DEF LastWas
      <4>2. CASE e \in u_runs
        <5>1. e.msg.id # id
          BY <1>5, <1>7, <3>1, <4>2, OneDelivery
        <5>2. e.msg.id \in 1..MaxMessages
          BY <1>2, <4>2, TalkTyped, TalkMsgTyped
        <5>3. u_called'[e.msg.id] = u_called[e.msg.id]
          BY <2>2, <5>1, <5>2
        <5> QED
          BY <3>1, <4>2, <5>3 DEF TalkInv, LastInv, LastWas
      <4> QED
        BY <2>2, <4>1, <4>2
    <3>2. ASSUME NEW n \in 1..u_messages, NEW h, OverWith(n, h)
          PROVE  OverWith(n, h)'
      <4>1. n # id /\ n \in Nat /\ n \in 1..MaxMessages
        BY <1>2, <2>3, <3>2, TalkTyped
      <4>2. /\ u_sent'[n] = u_sent[n] /\ u_called'[n] = u_called[n]
            /\ \A e \in u_runs' : e.msg.id = n => \E f \in u_runs : f.msg.id = n
            /\ \A k \in Machine : OnWire(k, n)' => OnWire(k, n)
        BY <1>1, <1>3, <2>2, <4>1
      <4> QED
        BY ONLY <3>2, <4>1, <4>2, OverStays
    <3>3. ASSUME NEW k \in Machine, NEW i \in DOMAIN u_wire'[k],
                 u_wire'[k][i].kind = "response", u_wire'[k][i].payload.kind = "result"
          PROVE  OverWith(u_wire[k][i].id, u_wire[k][i].payload.of)'
      <4>1. PICK j \in DOMAIN u_wire[k] : u_wire'[k][i] = u_wire[k][j]
        BY <1>3
      <4>2. /\ OverWith(u_wire[k][j].id, u_wire[k][j].payload.of)
            /\ u_wire[k][j].id \in 1..u_messages
        BY <3>3, <4>1 DEF TalkInv, LastInv, TalkWireInv
      <4>3. PICK n \in 1..u_messages : n = u_wire[k][j].id
        BY <4>2
      <4>4. PICK h : h = u_wire[k][j].payload.of
        OBVIOUS
      <4>5. OverWith(n, h)'
        BY <3>2, <4>2, <4>3, <4>4
      <4>6. u_wire'[k][i].id = n /\ u_wire'[k][i].payload.of = h
        BY <4>1, <4>3, <4>4
      <4> QED
        BY <4>5, <4>6
    <3>4. ASSUME NEW n \in 1..u_messages, u_outcome'[n].kind = "result"
          PROVE  OverWith(n, u_outcome[n].of)'
      <4>1. OverWith(n, u_outcome[n].of)
        BY <2>1, <3>4 DEF TalkInv, LastInv
      <4>2. PICK h : h = u_outcome[n].of
        OBVIOUS
      <4>3. OverWith(n, h)'
        BY <3>2, <4>1, <4>2
      <4> QED
        BY <2>1, <4>2, <4>3
    <3> QED
      BY <1>1, <3>1, <3>3, <3>4 DEF LastInv
  <2>10. CountInv'
    <3> SUFFICES ASSUME NEW n \in 1..u_messages, NEW k \in Machine, NEW h \in Handler,
                        <<k, h>> \notin u_removed
                 PROVE  Counts(u_called'[n], <<k, h>>) + One(Yet(n, k, h, FALSE)')
                            + One(Yet(n, k, h, TRUE)') <= Times(n, k)
      BY <1>1 DEF CountInv, Times
    <3>1. n \in 1..MaxMessages /\ n \in Nat
      BY <1>2, TalkTyped
    <3>2. \A e : Ahead(e, h)' <=> Ahead(e, h)
      BY <1>1 DEF Ahead
    <3>3. CASE n = id /\ k = m
      <4>1. Yet(n, k, h, TRUE)
        BY <1>5, <1>7, <3>3 DEF Yet
      <4>2. \A heard \in BOOLEAN : Yet(n, k, h, heard)' => Yet(n, k, h, heard)
        <5>1. Yet(n, k, h, FALSE)' => Yet(n, k, h, FALSE)
          BY <2>2, <3>2 DEF Yet
        <5> QED
          BY <4>1, <5>1
      <4>3. h = d.awaiting => ~Yet(n, k, h, TRUE)'
        <5> SUFFICES ASSUME h = d.awaiting, Yet(n, k, h, TRUE)' PROVE FALSE
          OBVIOUS
        <5>1. PICK e \in u_runs' : e.msg.id = n /\ e.at = k /\ e.heard = TRUE /\ Ahead(e, h)'
          BY <2>3, <3>3 DEF Yet
        <5>2. e = d
          BY <2>2, <2>3, <3>3, <5>1
        <5> QED
          BY <2>2, <3>2, <5>1, <5>2
      <4>4. /\ Counts(u_called[n], <<k, h>>) \in Nat
            /\ Counts(u_called'[n], <<k, h>>)
                  = IF h = d.awaiting THEN Counts(u_called[n], <<k, h>>) + 1
                    ELSE Counts(u_called[n], <<k, h>>)
        <5>1. Counts(u_called[n], <<k, h>>) \in Nat
          BY <1>2, <3>1, TalkTyped, CountsGrow
        <5> QED
          BY <2>2, <3>3, <5>1
      <4>5. PICK P \in BOOLEAN : P <=> h = d.awaiting
        OBVIOUS
      <4>6. Counts(u_called'[n], <<k, h>>) = Counts(u_called[n], <<k, h>>) + One(P)
        BY <4>4, <4>5 DEF One
      <4>7. P => Yet(n, k, h, TRUE) /\ ~Yet(n, k, h, TRUE)'
        BY <4>1, <4>3, <4>5
      <4>8. TalkType /\ CountInv
        BY DEF TalkInv
      <4> QED
        BY <4>2, <4>6, <4>7, <4>8, CountStep
    <3>4. CASE ~(n = id /\ k = m)
      <4>1. ASSUME NEW heard \in BOOLEAN, Yet(n, k, h, heard)' PROVE Yet(n, k, h, heard)
        <5>1. CASE heard /\ OnWire(k, n)'
          BY <1>3, <3>1, <5>1 DEF Yet
        <5>2. ASSUME NEW e \in u_runs', e.msg.id = n, e.at = k, e.heard = heard, Ahead(e, h)'
              PROVE  Yet(n, k, h, heard)
          BY <2>2, <3>2, <3>4, <5>2 DEF Yet
        <5> QED
          BY <4>1, <5>1, <5>2 DEF Yet
      <4>2. Counts(u_called'[n], <<k, h>>) = Counts(u_called[n], <<k, h>>) + One(FALSE)
        <5>1. Counts(u_called[n], <<k, h>>) \in Nat
          BY <1>2, <3>1, TalkTyped, CountsGrow
        <5>2. CASE n # id
          BY <2>2, <3>1, <5>1, <5>2 DEF One
        <5>3. CASE n = id /\ k # m
          BY <2>2, <5>1, <5>3 DEF One
        <5> QED
          BY <3>4, <5>2, <5>3
      <4>3. TalkType /\ CountInv
        BY DEF TalkInv
      <4> QED
        BY <4>1, <4>2, <4>3, CountStep
    <3> QED
      BY <3>3, <3>4
  <2> QED
    BY <1>3, <2>4, <2>5, <2>6, <2>7, <2>8, <2>9, <2>10 DEF TalkInv
<1> QED
  BY <1>6, <1>7

(* A handler of a delivery ends: the next is called, or none is left.      *)
LEMMA AHandlerReturns ==
    ASSUME TalkInv, NEW d \in u_runs, NEW throws \in BOOLEAN, Talk!Return(d, throws)
    PROVE  \E e \in Delivery :
              /\ d.awaiting # "none" /\ e.at = d.at /\ e.msg = d.msg /\ e.heard = d.heard
              /\ u_runs' = (u_runs \ {d}) \cup {e}
              /\ \/ /\ e.awaiting = "none" /\ e.next = d.next /\ e.last \in {"throws", d.awaiting}
                    /\ u_called' = u_called
                 \/ /\ d.next <= Len(u_handlers[d.at]) /\ e.next = d.next + 1
                    /\ e.awaiting = u_handlers[d.at][d.next] /\ d.next \in Nat
                    /\ u_called' = [u_called EXCEPT ![d.msg.id] =
                                       Append(u_called[d.msg.id], <<d.at, e.awaiting>>)]
<1>1. /\ d \in Delivery /\ d.at \in Machine /\ d.next \in Nat /\ d.next >= 1
      /\ d.awaiting \in Handler \cup {"none"}
      /\ u_handlers[d.at] \in Seq(Handler) /\ Len(u_handlers[d.at]) \in Nat
  BY TalkTyped DEF TalkInv, PlaceInv
<1> DEFINE hs == u_handlers[d.at]
           more == ~throws /\ d.next <= Len(hs)
           next == hs[d.next]
<1>2. more => next \in Handler
  <2>1. d.next <= Len(hs) => d.next \in 1..Len(hs)
    BY <1>1
  <2> QED
    BY <1>1, <2>1, Entries
<1> DEFINE e == [d EXCEPT !.last = IF throws THEN "throws" ELSE d.awaiting,
                          !.awaiting = IF more THEN next ELSE "none",
                          !.next = IF more THEN d.next + 1 ELSE d.next]
<1>3. /\ u_runs' = (u_runs \ {d}) \cup {e} /\ d.awaiting # "none"
      /\ u_called' = IF more THEN [u_called EXCEPT ![d.msg.id] = Append(u_called[d.msg.id], <<d.at, next>>)]
                     ELSE u_called
  BY DEF Talk!Return
<1> HIDE DEF more, next
<1>4. /\ e.at = d.at /\ e.msg = d.msg /\ e.heard = d.heard
      /\ e.last = IF throws THEN "throws" ELSE d.awaiting
      /\ e.awaiting = IF more THEN next ELSE "none"
      /\ e.next = IF more THEN d.next + 1 ELSE d.next
  BY <1>1 DEF Delivery
<1>5. e \in Delivery
  <2> DEFINE l == IF throws THEN "throws" ELSE d.awaiting
             a == IF more THEN next ELSE "none"
             x == IF more THEN d.next + 1 ELSE d.next
  <2>1. l \in Handler \cup {"none", "throws"}
    BY <1>1
  <2>2. a \in Handler \cup {"none"}
    BY <1>2
  <2>3. x \in Nat
    BY <1>1
  <2>4. e = [d EXCEPT !.last = l, !.awaiting = a, !.next = x]
    BY DEF e
  <2> HIDE DEF l, a, x
  <2> QED
    BY <1>1, <2>1, <2>2, <2>3, <2>4 DEF Delivery
<1> HIDE DEF e
<1>6. CASE more
  BY <1>1, <1>3, <1>4, <1>5, <1>6 DEF more, next
<1>7. CASE ~more
  BY <1>1, <1>3, <1>4, <1>5, <1>7
<1> QED
  BY <1>6, <1>7

LEMMA ReturnTalkKeeps ==
    ASSUME TalkInv, NEW d \in u_runs, NEW throws \in BOOLEAN, Talk!Return(d, throws)
    PROVE  TalkInv'
<1> DEFINE id == d.msg.id
<1>1. UNCHANGED <<u_handlers, u_wire, u_pending, u_outcome, u_messages, u_events, u_sent, u_removed>>
  BY DEF Talk!Return
<1>2. PICK e \in Delivery :
              /\ d.awaiting # "none" /\ e.at = d.at /\ e.msg = d.msg /\ e.heard = d.heard
              /\ u_runs' = (u_runs \ {d}) \cup {e}
              /\ \/ /\ e.awaiting = "none" /\ e.next = d.next /\ e.last \in {"throws", d.awaiting}
                    /\ u_called' = u_called
                 \/ /\ d.next <= Len(u_handlers[d.at]) /\ e.next = d.next + 1
                    /\ e.awaiting = u_handlers[d.at][d.next] /\ d.next \in Nat
                    /\ u_called' = [u_called EXCEPT ![d.msg.id] =
                                       Append(u_called[d.msg.id], <<d.at, e.awaiting>>)]
  BY AHandlerReturns
<1>3. /\ TalkType /\ d \in Delivery /\ d.at \in Machine /\ d.next \in Nat /\ d.next >= 1
      /\ d.heard \in BOOLEAN /\ d.msg \in TalkMsg
      /\ id \in 1..u_messages /\ id \in 1..MaxMessages /\ id \in Nat /\ d.msg = u_sent[id]
      /\ u_called[id] \in Seq(Machine \X Handler)
      /\ u_messages \in Nat /\ 1..u_messages \subseteq 1..MaxMessages
  <2>1. TalkType /\ d \in Delivery /\ d.at \in Machine /\ d.next \in Nat /\ d.next >= 1
        /\ d.heard \in BOOLEAN /\ d.msg \in TalkMsg /\ id \in 1..u_messages /\ d.msg = u_sent[id]
    BY TalkTyped DEF TalkInv, PlaceInv, DeliveryInv
  <2>2. u_messages \in Nat /\ 1..u_messages \subseteq 1..MaxMessages
    BY <2>1, TalkTyped
  <2>3. id \in 1..MaxMessages
    BY <2>1, <2>2
  <2>4. u_called[id] \in Seq(Machine \X Handler)
    BY <2>1, <2>3, TalkTyped
  <2> QED
    BY <2>1, <2>2, <2>3, <2>4
(* The call that the step makes. *)
<1>4. /\ u_called' \in [1..MaxMessages -> Seq(Machine \X Handler)]
      /\ \A n \in 1..MaxMessages : n # id => u_called'[n] = u_called[n]
      /\ e.awaiting = "none" => u_called' = u_called /\ e.last \in {"throws", d.awaiting}
      /\ e.awaiting # "none" =>
            /\ d.next \in DOMAIN u_handlers[d.at] /\ e.next = d.next + 1
            /\ e.awaiting = u_handlers[d.at][d.next] /\ e.awaiting \in Handler
            /\ u_called'[id] = Append(u_called[id], <<d.at, e.awaiting>>)
            /\ u_called'[id] # <<>> /\ u_called'[id][Len(u_called'[id])] = <<d.at, e.awaiting>>
      /\ e.next >= 1 /\ (e.next <= Len(u_handlers[d.at]) + 1 \/ e.next = 2)
  <2>1. /\ u_called \in [1..MaxMessages -> Seq(Machine \X Handler)]
        /\ u_handlers[d.at] \in Seq(Handler) /\ Len(u_handlers[d.at]) \in Nat
        /\ DOMAIN u_handlers[d.at] = 1..Len(u_handlers[d.at])
        /\ d.next <= Len(u_handlers[d.at]) + 1 \/ d.next = 2
    BY <1>3, TalkTyped DEF TalkInv, TalkType, PlaceInv
  <2>2. CASE e.awaiting = "none" /\ e.next = d.next /\ e.last \in {"throws", d.awaiting} /\ u_called' = u_called
    BY <1>3, <2>1, <2>2
  <2>3. ASSUME d.next <= Len(u_handlers[d.at]), e.next = d.next + 1,
               e.awaiting = u_handlers[d.at][d.next],
               u_called' = [u_called EXCEPT ![d.msg.id] =
                               Append(u_called[d.msg.id], <<d.at, e.awaiting>>)]
        PROVE  /\ u_called' \in [1..MaxMessages -> Seq(Machine \X Handler)]
               /\ \A n \in 1..MaxMessages : n # id => u_called'[n] = u_called[n]
               /\ e.awaiting # "none"
               /\ d.next \in DOMAIN u_handlers[d.at] /\ e.next = d.next + 1
               /\ e.awaiting = u_handlers[d.at][d.next] /\ e.awaiting \in Handler
               /\ u_called'[id] = Append(u_called[id], <<d.at, e.awaiting>>)
               /\ u_called'[id] # <<>> /\ u_called'[id][Len(u_called'[id])] = <<d.at, e.awaiting>>
               /\ e.next >= 1 /\ e.next <= Len(u_handlers[d.at]) + 1
    <3>1. d.next \in DOMAIN u_handlers[d.at] /\ e.next >= 1 /\ e.next <= Len(u_handlers[d.at]) + 1
      BY <1>3, <2>1, <2>3
    <3>2. e.awaiting \in Handler /\ "none" \notin Handler
      BY <2>1, <2>3, <3>1, Entries, TalkAssumption
    <3> DEFINE c == Append(u_called[id], <<d.at, e.awaiting>>)
    <3>3. /\ c \in Seq(Machine \X Handler) /\ Len(c) = Len(u_called[id]) + 1
          /\ c[Len(u_called[id]) + 1] = <<d.at, e.awaiting>> /\ Len(u_called[id]) \in Nat
      <4>1. <<d.at, e.awaiting>> \in Machine \X Handler
        BY <1>3, <3>2
      <4> QED
        BY <1>3, <4>1, Appended, Entries
    <3>4. u_called' = [u_called EXCEPT ![id] = c]
      BY <2>3
    <3> HIDE DEF c
    <3>5. u_called' \in [1..MaxMessages -> Seq(Machine \X Handler)] /\ u_called'[id] = c
          /\ \A n \in 1..MaxMessages : n # id => u_called'[n] = u_called[n]
      BY <1>3, <2>1, <3>3, <3>4
    <3>6. c # <<>> /\ c[Len(c)] = <<d.at, e.awaiting>>
      BY <3>3
    <3> QED
      BY <2>3, <3>1, <3>2, <3>5, <3>6 DEF c
  <2> QED
    BY <1>2, <2>2, <2>3
<1>5. TalkType'
  BY <1>1, <1>2, <1>3, <1>4 DEF TalkType
<1>6. PlaceInv'
  BY <1>1, <1>2, <1>4 DEF TalkInv, PlaceInv
<1>7. SentInv'
  <2>1. \A n \in 1..MaxMessages : n > u_messages => n # id
    BY <1>3
  <2> QED
    BY <1>1, <1>4, <2>1 DEF TalkInv, SentInv
<1>8. TalkWireInv' /\ PendingInv'
  BY <1>1 DEF TalkInv, TalkWireInv, PendingInv
<1>9. /\ \A k \in Machine, n \in Nat : OnWire(k, n)' <=> OnWire(k, n)
      /\ \A f, h : Ahead(f, h)' <=> Ahead(f, h)
  BY <1>1 DEF OnWire, Ahead
<1>10. \A f \in u_runs : f.msg.id = id /\ f.at = d.at /\ f.heard = d.heard => f = d
  BY DEF TalkInv, DeliveryInv
<1>11. DeliveryInv'
  <2>1. ASSUME NEW f \in u_runs'
        PROVE  /\ f.msg.id \in 1..u_messages' /\ f.msg = u_sent'[f.msg.id]
               /\ f.msg.to \in {f.at, Talk!All}
               /\ f.heard => f.msg.to # f.msg.from /\ ~OnWire(f.at, f.msg.id)'
               /\ ~f.heard => f.at = f.msg.from
    <3>1. PICK g \in u_runs : f.at = g.at /\ f.msg = g.msg /\ f.heard = g.heard
      BY <1>2
    <3>2. /\ g.msg.id \in 1..u_messages /\ g.msg = u_sent[g.msg.id]
          /\ g.msg.to \in {g.at, Talk!All}
          /\ g.heard => g.msg.to # g.msg.from /\ ~OnWire(g.at, g.msg.id)
          /\ ~g.heard => g.at = g.msg.from
      BY DEF TalkInv, DeliveryInv
    <3>3. g.at \in Machine /\ g.msg.id \in Nat
      BY <1>3, <3>2, TalkTyped
    <3> QED
      BY <1>1, <1>9, <3>1, <3>2, <3>3
  <2>2. \A f, g \in u_runs' : f.msg.id = g.msg.id /\ f.at = g.at /\ f.heard = g.heard => f = g
    BY <1>2, <1>10 DEF TalkInv, DeliveryInv
  <2> QED
    BY <2>1, <2>2 DEF DeliveryInv
<1>12. LastInv'
  <2>1. ASSUME NEW f \in u_runs', f.msg.kind = "request"
        PROVE  /\ f.awaiting # "none" => LastWas(f.msg.id, f.at, f.awaiting)'
               /\ f.awaiting = "none" /\ f.last \notin {"none", "throws"}
                  => LastWas(f.msg.id, f.at, f.last)'
    <3>1. CASE f = e
      <4>1. CASE e.awaiting # "none"
        BY <1>2, <1>4, <3>1, <4>1 DEF LastWas
      <4>2. CASE e.awaiting = "none"
        <5>1. LastWas(id, d.at, d.awaiting)
          BY <1>2, <2>1, <3>1 DEF TalkInv, LastInv
        <5> QED
          BY <1>2, <1>4, <3>1, <4>2, <5>1 DEF LastWas
      <4> QED
        BY <4>1, <4>2
    <3>2. CASE f \in u_runs \ {d}
      <4>1. f.msg.id # id
        <5>1. f.msg = u_sent[f.msg.id]
          BY <3>2 DEF TalkInv, DeliveryInv
        <5>2. f.msg.id = id => d.msg.kind = "request"
          BY <1>3, <2>1, <5>1
        <5> QED
          BY <3>2, <5>2, OneDelivery
      <4>2. f.msg.id \in 1..MaxMessages
        BY <1>3, <3>2, TalkTyped, TalkMsgTyped
      <4>3. u_called'[f.msg.id] = u_called[f.msg.id]
        BY <1>4, <4>1, <4>2
      <4> QED
        BY <2>1, <3>2, <4>3 DEF TalkInv, LastInv, LastWas
    <3> QED
      BY <1>2, <3>1, <3>2
  <2>2. ASSUME NEW n \in 1..u_messages, NEW h, OverWith(n, h)
        PROVE  OverWith(n, h)'
    <3>1. n # id /\ n \in Nat /\ n \in 1..MaxMessages
      BY <1>3, <2>2 DEF OverWith
    <3>2. /\ u_sent'[n] = u_sent[n] /\ u_called'[n] = u_called[n]
          /\ \A f \in u_runs' : f.msg.id = n => \E g \in u_runs : g.msg.id = n
          /\ \A k \in Machine : OnWire(k, n)' => OnWire(k, n)
      BY <1>1, <1>2, <1>4, <1>9, <3>1
    <3> QED
      BY ONLY <2>2, <3>1, <3>2, OverStays
  <2>3. ASSUME NEW k \in Machine, NEW i \in DOMAIN u_wire'[k],
               u_wire'[k][i].kind = "response", u_wire'[k][i].payload.kind = "result"
        PROVE  OverWith(u_wire[k][i].id, u_wire[k][i].payload.of)'
    <3>1. /\ OverWith(u_wire[k][i].id, u_wire[k][i].payload.of)
          /\ u_wire[k][i].id \in 1..u_messages
      BY <1>1, <2>3 DEF TalkInv, LastInv, TalkWireInv
    <3>2. PICK n \in 1..u_messages : n = u_wire[k][i].id
      BY <3>1
    <3>3. PICK h : h = u_wire[k][i].payload.of
      OBVIOUS
    <3>4. OverWith(n, h)'
      BY <2>2, <3>1, <3>2, <3>3
    <3> QED
      BY <1>1, <3>2, <3>3, <3>4
  <2>4. ASSUME NEW n \in 1..u_messages, u_outcome'[n].kind = "result"
        PROVE  OverWith(n, u_outcome[n].of)'
    <3>1. OverWith(n, u_outcome[n].of)
      BY <1>1, <2>4 DEF TalkInv, LastInv
    <3>2. PICK h : h = u_outcome[n].of
      OBVIOUS
    <3>3. OverWith(n, h)'
      BY <2>2, <3>1, <3>2
    <3> QED
      BY <1>1, <3>2, <3>3
  <2> QED
    BY <1>1, <2>1, <2>3, <2>4 DEF LastInv
<1>13. CountInv'
  <2> SUFFICES ASSUME NEW n \in 1..u_messages, NEW k \in Machine, NEW h \in Handler,
                      <<k, h>> \notin u_removed
               PROVE  Counts(u_called'[n], <<k, h>>) + One(Yet(n, k, h, FALSE)')
                          + One(Yet(n, k, h, TRUE)') <= Times(n, k)
    BY <1>1 DEF CountInv, Times
  <2>1. n \in 1..MaxMessages /\ n \in Nat /\ CountInv
        /\ Counts(u_called[n], <<k, h>>) \in Nat
    <3>1. n \in 1..MaxMessages
      BY <1>3
    <3>2. u_called[n] \in Seq(Machine \X Handler)
      BY <1>3, <3>1, TalkTyped
    <3> QED
      BY <3>1, <3>2, CountsGrow DEF TalkInv
  <2>2. ASSUME NEW heard \in BOOLEAN, Yet(n, k, h, heard)' PROVE Yet(n, k, h, heard)
    <3>1. CASE heard /\ OnWire(k, n)'
      BY <1>9, <2>1, <3>1 DEF Yet
    <3>2. ASSUME NEW f \in u_runs', f.msg.id = n, f.at = k, f.heard = heard, Ahead(f, h)'
          PROVE  Yet(n, k, h, heard)
      <4>1. CASE f \in u_runs
        BY <1>9, <3>2, <4>1 DEF Yet
      <4>2. CASE f = e
        <5>1. Ahead(e, h)
          BY <1>9, <3>2, <4>2
        <5>2. e.awaiting # "none" /\ \A i \in DOMAIN u_handlers[d.at] : i < e.next => u_handlers[d.at][i] # h
          BY <1>2, <5>1 DEF Ahead
        <5>3. \A i \in DOMAIN u_handlers[d.at] : i \in Nat
          BY <1>3, TalkTyped
        <5>4. \A i \in DOMAIN u_handlers[d.at] : i < d.next => u_handlers[d.at][i] # h
          BY <1>3, <1>4, <5>2, <5>3
        <5>5. Ahead(d, h)
          BY <1>2, <5>4 DEF Ahead
        <5> QED
          BY <1>2, <3>2, <4>2, <5>5 DEF Yet
      <4> QED
        BY <1>2, <3>2, <4>1, <4>2
    <3> QED
      BY <2>2, <3>1, <3>2 DEF Yet
  <2>3. CASE n = id /\ k = d.at /\ h = e.awaiting
    <3>1. /\ e.awaiting # "none" /\ d.next \in DOMAIN u_handlers[d.at] /\ e.next = d.next + 1
          /\ h = u_handlers[d.at][d.next]
      <4>1. "none" \notin Handler
        BY TalkAssumption
      <4> QED
        BY <1>4, <2>3, <4>1
    <3>2. Ahead(d, h)
      <4>1. \A i \in DOMAIN u_handlers[d.at] : u_handlers[d.at][i] = h => i = d.next
        BY <1>3, <3>1 DEF TalkInv, PlaceInv
      <4> QED
        BY <1>2, <1>3, <4>1 DEF Ahead
    <3>3. Yet(n, k, h, d.heard)
      BY <2>3, <3>2 DEF Yet
    <3>4. ~Yet(n, k, h, d.heard)'
      <4> SUFFICES ASSUME Yet(n, k, h, d.heard)' PROVE FALSE
        OBVIOUS
      <4>1. ~(d.heard /\ OnWire(k, n)')
        BY <1>3, <1>9, <2>3 DEF TalkInv, DeliveryInv
      <4>2. PICK f \in u_runs' : f.msg.id = n /\ f.at = k /\ f.heard = d.heard /\ Ahead(f, h)'
        BY <4>1 DEF Yet
      <4>3. f = e
        BY <1>2, <1>10, <2>3, <4>2
      <4>4. Ahead(e, h)
        BY <1>9, <4>2, <4>3
      <4>5. d.next < e.next
        BY <1>3, <3>1
      <4> QED
        BY <1>2, <3>1, <4>4, <4>5 DEF Ahead
    <3>5. Counts(u_called'[n], <<k, h>>) = Counts(u_called[n], <<k, h>>) + 1
      <4>1. \A x \in Machine \X Handler :
               Counts(Append(u_called[id], x), <<k, h>>)
                  = IF x = <<k, h>> THEN Counts(u_called[id], <<k, h>>) + 1
                    ELSE Counts(u_called[id], <<k, h>>)
        BY <1>3, CountsGrow
      <4>2. <<k, h>> \in Machine \X Handler
        OBVIOUS
      <4>3. u_called'[n] = Append(u_called[id], <<k, h>>)
        BY <1>4, <2>3, <3>1
      <4> QED
        BY <2>3, <4>1, <4>2, <4>3
    <3>6. Counts(u_called'[n], <<k, h>>) = Counts(u_called[n], <<k, h>>) + One(TRUE)
      BY <3>5 DEF One
    <3> QED
      BY <1>3, <2>1, <2>2, <3>3, <3>4, <3>6, CountStep
  <2>4. CASE ~(n = id /\ k = d.at /\ h = e.awaiting)
    <3>1. Counts(u_called'[n], <<k, h>>) = Counts(u_called[n], <<k, h>>)
      <4>1. CASE u_called'[n] = u_called[n]
        BY <4>1
      <4>2. CASE n = id /\ e.awaiting # "none"
        <5>1. \A x \in Machine \X Handler :
                 Counts(Append(u_called[id], x), <<k, h>>)
                    = IF x = <<k, h>> THEN Counts(u_called[id], <<k, h>>) + 1
                      ELSE Counts(u_called[id], <<k, h>>)
          BY <1>3, CountsGrow
        <5>2. <<d.at, e.awaiting>> \in Machine \X Handler /\ <<d.at, e.awaiting>> # <<k, h>>
              /\ u_called'[n] = Append(u_called[id], <<d.at, e.awaiting>>)
          BY <1>3, <1>4, <2>4, <4>2
        <5> QED
          BY <4>2, <5>1, <5>2
      <4> QED
        BY <1>4, <2>1, <4>1, <4>2
    <3>2. Counts(u_called'[n], <<k, h>>) = Counts(u_called[n], <<k, h>>) + One(FALSE)
      BY <2>1, <3>1 DEF One
    <3> QED
      BY <1>3, <2>1, <2>2, <3>2, CountStep
  <2> QED
    BY <2>3, <2>4
<1> QED
  BY <1>5, <1>6, <1>7, <1>8, <1>11, <1>12, <1>13 DEF TalkInv

(* A new message: what becomes of it at once, where it goes.               *)
LEMMA NewTalkKeeps ==
    ASSUME TalkInv, NEW m \in Machine, NEW msg \in TalkMsg, msg.kind \in {"send", "request"},
           msg.kind = "request" => msg.to \in Machine, msg.id = u_messages + 1, msg.from = m,
           Talk!New(msg), NEW o \in TalkOutcome, o.kind # "result", Talk!Becomes(msg, o),
           \/ Talk!Publish(msg) /\ msg.to # m
           \/ UNCHANGED u_wire,
           \/ Talk!Deliver(m, msg, FALSE) /\ msg.to \in {m, Talk!All}
           \/ UNCHANGED <<u_runs, u_called>>,
           u_pending' = IF o.kind = "waiting" /\ msg.to # m THEN u_pending \cup {msg.id} ELSE u_pending
    PROVE  TalkInv'
<1> DEFINE id == msg.id
<1>1. /\ u_messages' = u_messages + 1 /\ u_sent' = [u_sent EXCEPT ![id] = msg]
      /\ UNCHANGED <<u_handlers, u_removed>> /\ u_outcome' = [u_outcome EXCEPT ![id] = o]
  BY DEF Talk!New, Talk!Becomes
<1>2. /\ TalkType /\ u_messages \in Nat /\ u_messages <= MaxMessages /\ MaxMessages \in Nat
      /\ 1..u_messages \subseteq 1..MaxMessages /\ id \in 1..MaxMessages /\ id \in Nat
      /\ 1..(u_messages + 1) = (1..u_messages) \cup {id} /\ id \notin 1..u_messages
      /\ u_messages + 1 \in 0..MaxMessages /\ id > u_messages
      /\ \A n \in 1..u_messages : n # id /\ n \in Nat /\ n \in 1..MaxMessages
      /\ u_called \in [1..MaxMessages -> Seq(Machine \X Handler)]
  <2>1. TalkType
    BY DEF TalkInv
  <2>2. u_messages \in Nat /\ u_messages <= MaxMessages /\ MaxMessages \in Nat /\ id \in 1..MaxMessages
        /\ id = u_messages + 1
    BY <2>1, TalkTyped, TalkMsgTyped
  <2>3. 1..u_messages \subseteq 1..MaxMessages /\ id \in Nat /\ id \notin 1..u_messages /\ id > u_messages
        /\ u_messages + 1 \in 0..MaxMessages
    BY <2>2
  <2>4. 1..(u_messages + 1) = (1..u_messages) \cup {id}
    BY <2>2
  <2>5. \A n \in 1..u_messages : n # id /\ n \in Nat /\ n \in 1..MaxMessages
    BY <2>2
  <2>6. u_called \in [1..MaxMessages -> Seq(Machine \X Handler)]
    BY <2>1 DEF TalkType
  <2> QED
    BY <2>1, <2>2, <2>3, <2>4, <2>5, <2>6
(* What is known of the messages so far stays true. *)
<1>3. /\ u_sent'[id] = msg /\ \A n \in 1..u_messages : u_sent'[n] = u_sent[n]
      /\ u_outcome' \in [1..MaxMessages -> TalkOutcome]
      /\ u_outcome'[id] = o /\ \A n \in 1..u_messages : u_outcome'[n] = u_outcome[n]
      /\ DOMAIN u_sent' = 1..MaxMessages
  BY <1>1, <1>2 DEF TalkType
(* The wire. *)
<1>4. /\ u_wire' \in [Machine -> Seq(TalkMsg)]
      /\ \A k \in Machine : \A i \in DOMAIN u_wire'[k] :
            \/ i \in DOMAIN u_wire[k] /\ u_wire'[k][i] = u_wire[k][i]
            \/ /\ i \notin DOMAIN u_wire[k] /\ i = Len(u_wire[k]) + 1
               /\ u_wire'[k][i] = msg /\ msg.to \in {k, Talk!All} /\ msg.to # m
      /\ \A k \in Machine, n \in Nat :
            OnWire(k, n)' => \/ OnWire(k, n)
                             \/ id = n /\ msg.to \in {k, Talk!All} /\ msg.to # m
  <2>1. CASE UNCHANGED u_wire
    BY <1>2, <2>1 DEF TalkType, OnWire
  <2>2. CASE Talk!Publish(msg) /\ msg.to # m
    BY <1>2, <2>2, TalkRises
  <2> QED
    BY <2>1, <2>2
<1>5. /\ \A k \in Machine : ~OnWire(k, id)
      /\ \A f \in u_runs : f.msg.id \in 1..u_messages
      /\ u_called[id] = <<>>
  BY <1>2 DEF OnWire, TalkInv, TalkWireInv, DeliveryInv, SentInv
(* The delivery here. *)
<1>6. /\ u_called' \in [1..MaxMessages -> Seq(Machine \X Handler)]
      /\ \A n \in 1..MaxMessages : n # id => u_called'[n] = u_called[n]
      /\ u_runs' \subseteq Delivery /\ u_runs \subseteq u_runs'
      /\ \A f \in u_runs' \ u_runs :
            /\ f.at = m /\ f.msg = msg /\ f.heard = FALSE /\ f.next = 2 /\ f.last = "none"
            /\ msg.to \in {m, Talk!All}
            /\ \A h \in Handler : Ahead(f, h) => h # f.awaiting
            /\ f.awaiting # "none" => /\ u_called'[id] # <<>>
                                      /\ u_called'[id][Len(u_called'[id])] = <<m, f.awaiting>>
            /\ \A k \in Machine, h \in Handler :
                  Counts(u_called'[id], <<k, h>>)
                     = IF k = m /\ h = f.awaiting THEN Counts(u_called[id], <<k, h>>) + 1
                       ELSE Counts(u_called[id], <<k, h>>)
      /\ \A f, g \in u_runs' \ u_runs : f = g
      /\ u_runs' = u_runs => u_called'[id] = <<>>
  <2>1. CASE UNCHANGED <<u_runs, u_called>>
    BY <1>2, <1>5, <2>1 DEF TalkType
  <2>2. CASE Talk!Deliver(m, msg, FALSE) /\ msg.to \in {m, Talk!All}
    <3>1. PICK d \in Delivery : Begun(d, m, msg, FALSE)
      BY ONLY <1>2, <2>2, m \in Machine, msg \in TalkMsg, FALSE \in BOOLEAN, DeliverDoes
    <3>2. u_runs' = u_runs \cup {d} /\ d.msg = msg
      BY <3>1 DEF Begun
    <3>3. d \notin u_runs
      BY <1>2, <1>5, <3>2
    <3>4. u_runs' \ u_runs = {d} /\ u_runs' # u_runs
      BY <3>2, <3>3
    <3>5. u_runs' \subseteq Delivery /\ u_runs \subseteq u_runs'
      BY <1>2, <3>2 DEF TalkType
    <3> QED
      BY <2>2, <3>1, <3>4, <3>5 DEF Begun
  <2> QED
    BY <2>1, <2>2
<1>7. TalkType'
  <2>1. u_pending' \subseteq 1..u_messages'
    BY <1>1, <1>2 DEF TalkType
  <2> QED
    BY <1>1, <1>2, <1>3, <1>4, <1>6, <2>1 DEF TalkType
<1>8. PlaceInv'
  <2>1. \A f \in u_runs' \ u_runs : f.next = 2
    BY <1>6
  <2>2. ASSUME NEW f \in u_runs'
        PROVE  f.next >= 1 /\ (f.next <= Len(u_handlers'[f.at]) + 1 \/ f.next = 2)
    <3>1. CASE f \in u_runs
      BY <1>1, <3>1 DEF TalkInv, PlaceInv
    <3>2. CASE f \notin u_runs
      BY <2>1, <3>2
    <3> QED
      BY <3>1, <3>2
  <2> QED
    BY <1>1, <2>2 DEF TalkInv, PlaceInv
<1>9. SentInv'
  <2>1. ASSUME NEW n \in 1..u_messages'
        PROVE  /\ u_sent'[n] \in TalkMsg /\ u_sent'[n].id = n /\ u_sent'[n].kind # "response"
               /\ u_sent'[n].kind = "request" => u_sent'[n].to \in Machine
    BY <1>1, <1>2, <1>3 DEF TalkInv, SentInv
  <2>2. ASSUME NEW n \in 1..MaxMessages, n > u_messages' PROVE u_called'[n] = <<>>
    <3>1. n > u_messages /\ n # id
      BY <1>1, <1>2, <2>2
    <3> QED
      BY <1>6, <3>1 DEF TalkInv, SentInv
  <2> QED
    BY <2>1, <2>2 DEF SentInv
<1>10. TalkWireInv'
  <2> SUFFICES ASSUME NEW k \in Machine
               PROVE  /\ \A i \in DOMAIN u_wire'[k] :
                            LET g == u_wire'[k][i] IN
                            /\ g.id \in 1..u_messages' /\ u_sent'[g.id].to # u_sent'[g.id].from
                            /\ g.kind # "response" => g = u_sent'[g.id] /\ g.to \in {k, Talk!All}
                            /\ g.kind = "response" => /\ u_sent'[g.id].kind = "request"
                                                      /\ g.payload.kind \in {"result", "error"}
                      /\ OnWireOnce(u_wire'[k])
    BY DEF TalkWireInv
  <2>1. ASSUME NEW i \in DOMAIN u_wire[k]
        PROVE  LET g == u_wire[k][i] IN
               /\ g.id \in 1..u_messages /\ u_sent[g.id].to # u_sent[g.id].from
               /\ g.kind # "response" => g = u_sent[g.id] /\ g.to \in {k, Talk!All}
               /\ g.kind = "response" => /\ u_sent[g.id].kind = "request"
                                         /\ g.payload.kind \in {"result", "error"}
    BY DEF TalkInv, TalkWireInv
  <2>2. OnWireOnce(u_wire'[k])
    <3> SUFFICES ASSUME NEW i \in DOMAIN u_wire'[k], NEW j \in DOMAIN u_wire'[k],
                        u_wire'[k][i].kind # "response", u_wire'[k][j].kind # "response",
                        u_wire'[k][i].id = u_wire'[k][j].id
                 PROVE  i = j
      BY DEF OnWireOnce
    <3>1. CASE i \in DOMAIN u_wire[k] /\ j \in DOMAIN u_wire[k]
      <4>1. u_wire'[k][i] = u_wire[k][i] /\ u_wire'[k][j] = u_wire[k][j] /\ OnWireOnce(u_wire[k])
        BY <1>4, <3>1 DEF TalkInv, TalkWireInv
      <4> QED
        BY <3>1, <4>1 DEF OnWireOnce
    <3>2. CASE i \notin DOMAIN u_wire[k] /\ j \notin DOMAIN u_wire[k]
      BY <1>4, <3>2
    <3>3. CASE i \in DOMAIN u_wire[k] /\ j \notin DOMAIN u_wire[k]
      <4>1. u_wire'[k][i] = u_wire[k][i] /\ u_wire'[k][j] = msg /\ u_wire[k][i].id \in 1..u_messages
        BY <1>4, <2>1, <3>3
      <4> QED
        BY <1>2, <4>1
    <3>4. CASE i \notin DOMAIN u_wire[k] /\ j \in DOMAIN u_wire[k]
      <4>1. u_wire'[k][j] = u_wire[k][j] /\ u_wire'[k][i] = msg /\ u_wire[k][j].id \in 1..u_messages
        BY <1>4, <2>1, <3>4
      <4> QED
        BY <1>2, <4>1
    <3> QED
      BY <3>1, <3>2, <3>3, <3>4
  <2>3. ASSUME NEW i \in DOMAIN u_wire'[k]
        PROVE  LET g == u_wire'[k][i] IN
               /\ g.id \in 1..u_messages' /\ u_sent'[g.id].to # u_sent'[g.id].from
               /\ g.kind # "response" => g = u_sent'[g.id] /\ g.to \in {k, Talk!All}
               /\ g.kind = "response" => /\ u_sent'[g.id].kind = "request"
                                         /\ g.payload.kind \in {"result", "error"}
    <3>1. CASE i \in DOMAIN u_wire[k] /\ u_wire'[k][i] = u_wire[k][i]
      <4>1. u_sent'[u_wire[k][i].id] = u_sent[u_wire[k][i].id]
        BY <1>3, <2>1, <3>1
      <4> QED
        BY <1>1, <1>2, <2>1, <3>1, <4>1
    <3>2. CASE u_wire'[k][i] = msg /\ msg.to \in {k, Talk!All} /\ msg.to # m
      BY <1>1, <1>2, <1>3, <3>2
    <3> QED
      BY <1>4, <3>1, <3>2
  <2> QED
    BY <2>2, <2>3
<1>11. \A f \in u_runs' : f \in u_runs \/ (f \in u_runs' \ u_runs /\ f.msg = msg /\ f.msg.id = id)
  BY <1>6
<1>12. DeliveryInv'
  <2>1. ASSUME NEW f \in u_runs'
        PROVE  /\ f.msg.id \in 1..u_messages' /\ f.msg = u_sent'[f.msg.id]
               /\ f.msg.to \in {f.at, Talk!All}
               /\ f.heard => f.msg.to # f.msg.from /\ ~OnWire(f.at, f.msg.id)'
               /\ ~f.heard => f.at = f.msg.from
    <3>1. CASE f \in u_runs
      <4>1. /\ f.msg.id \in 1..u_messages /\ f.msg = u_sent[f.msg.id]
            /\ f.msg.to \in {f.at, Talk!All}
            /\ f.heard => f.msg.to # f.msg.from /\ ~OnWire(f.at, f.msg.id)
            /\ ~f.heard => f.at = f.msg.from
        BY <3>1 DEF TalkInv, DeliveryInv
      <4>2. f.at \in Machine /\ f.msg.id \in Nat /\ f.msg.id # id
        BY <1>2, <3>1, <4>1, TalkTyped
      <4> QED
        BY <1>1, <1>2, <1>3, <1>4, <4>1, <4>2
    <3>2. CASE f \in u_runs' \ u_runs
      BY <1>1, <1>2, <1>3, <1>6, <3>2
    <3> QED
      BY <3>1, <3>2
  <2>2. ASSUME NEW f \in u_runs', NEW g \in u_runs', f.msg.id = g.msg.id, f.at = g.at, f.heard = g.heard
        PROVE  f = g
    <3>1. CASE f \in u_runs /\ g \in u_runs
      BY <2>2, <3>1 DEF TalkInv, DeliveryInv
    <3>2. CASE f \in u_runs' \ u_runs /\ g \in u_runs' \ u_runs
      BY <1>6, <3>2
    <3>3. CASE f \in u_runs /\ g \in u_runs' \ u_runs
      BY <1>2, <1>5, <1>11, <2>2, <3>3
    <3>4. CASE f \in u_runs' \ u_runs /\ g \in u_runs
      BY <1>2, <1>5, <1>11, <2>2, <3>4
    <3> QED
      BY <3>1, <3>2, <3>3, <3>4
  <2> QED
    BY <2>1, <2>2 DEF DeliveryInv
<1>13. PendingInv'
  <2> SUFFICES ASSUME NEW n \in 1..u_messages'
               PROVE  n \in u_pending' <=> /\ u_outcome'[n].kind = "waiting"
                                           /\ u_sent'[n].to # u_sent'[n].from
    BY DEF PendingInv
  <2>1. CASE n = id
    <3>1. id \notin u_pending
      BY <1>2 DEF TalkType
    <3> QED
      BY <1>3, <2>1, <3>1
  <2>2. CASE n \in 1..u_messages
    <3>1. n \in u_pending <=> u_outcome[n].kind = "waiting" /\ u_sent[n].to # u_sent[n].from
      BY <2>2 DEF TalkInv, PendingInv
    <3>2. u_outcome'[n] = u_outcome[n] /\ u_sent'[n] = u_sent[n] /\ n # id
      BY <1>2, <1>3, <2>2
    <3> QED
      BY <3>1, <3>2
  <2> QED
    BY <1>1, <1>2, <2>1, <2>2
<1>14. LastInv'
  <2>1. ASSUME NEW f \in u_runs', f.msg.kind = "request"
        PROVE  /\ f.awaiting # "none" => LastWas(f.msg.id, f.at, f.awaiting)'
               /\ f.awaiting = "none" /\ f.last \notin {"none", "throws"}
                  => LastWas(f.msg.id, f.at, f.last)'
    <3>1. CASE f \in u_runs' \ u_runs
      BY <1>6, <3>1 DEF LastWas
    <3>2. CASE f \in u_runs
      <4>1. u_called'[f.msg.id] = u_called[f.msg.id]
        BY <1>2, <1>5, <1>6, <3>2
      <4> QED
        BY <2>1, <3>2, <4>1 DEF TalkInv, LastInv, LastWas
    <3> QED
      BY <3>1, <3>2
  <2>2. ASSUME NEW n \in 1..u_messages, NEW h, OverWith(n, h)
        PROVE  OverWith(n, h)'
    <3>1. n # id /\ n \in Nat /\ n \in 1..MaxMessages
      BY <1>2
    <3>2. /\ u_sent'[n] = u_sent[n] /\ u_called'[n] = u_called[n]
          /\ \A f \in u_runs' : f.msg.id = n => \E g \in u_runs : g.msg.id = n
          /\ \A k \in Machine : OnWire(k, n)' => OnWire(k, n)
      BY <1>3, <1>4, <1>6, <1>11, <3>1
    <3> QED
      BY ONLY <2>2, <3>1, <3>2, OverStays
  <2>3. ASSUME NEW k \in Machine, NEW i \in DOMAIN u_wire'[k],
               u_wire'[k][i].kind = "response", u_wire'[k][i].payload.kind = "result"
        PROVE  OverWith(u_wire[k][i].id, u_wire[k][i].payload.of)'
    <3>0. i \in DOMAIN u_wire[k] /\ u_wire'[k][i] = u_wire[k][i]
      BY <1>4, <2>3
    <3>1. /\ OverWith(u_wire[k][i].id, u_wire[k][i].payload.of)
          /\ u_wire[k][i].id \in 1..u_messages
      BY <2>3, <3>0 DEF TalkInv, LastInv, TalkWireInv
    <3>2. PICK n \in 1..u_messages : n = u_wire[k][i].id
      BY <3>1
    <3>3. PICK h : h = u_wire[k][i].payload.of
      OBVIOUS
    <3>4. OverWith(n, h)'
      BY <2>2, <3>1, <3>2, <3>3
    <3> QED
      BY <3>0, <3>2, <3>3, <3>4
  <2>4. ASSUME NEW n \in 1..u_messages', u_outcome'[n].kind = "result"
        PROVE  OverWith(n, u_outcome[n].of)'
    <3>0. n \in 1..u_messages /\ u_outcome'[n] = u_outcome[n]
      BY <1>1, <1>2, <1>3, <2>4
    <3>1. OverWith(n, u_outcome[n].of)
      BY <2>4, <3>0 DEF TalkInv, LastInv
    <3>2. PICK h : h = u_outcome[n].of
      OBVIOUS
    <3>3. OverWith(n, h)'
      BY <2>2, <3>0, <3>1, <3>2
    <3> QED
      BY <3>0, <3>2, <3>3
  <2> QED
    BY <2>1, <2>3, <2>4 DEF LastInv
<1>15. CountInv'
  <2> SUFFICES ASSUME NEW n \in 1..u_messages', NEW k \in Machine, NEW h \in Handler,
                      <<k, h>> \notin u_removed
               PROVE  Counts(u_called'[n], <<k, h>>) + One(Yet(n, k, h, FALSE)')
                          + One(Yet(n, k, h, TRUE)') <= Times(n, k)'
    BY <1>1 DEF CountInv
  <2>0. \A f, g : Ahead(f, g)' <=> Ahead(f, g)
    BY <1>1 DEF Ahead
  <2>1. CASE n \in 1..u_messages
    <3>1. n # id /\ n \in Nat /\ n \in 1..MaxMessages /\ CountInv
          /\ Counts(u_called[n], <<k, h>>) \in Nat
      <4>1. n # id /\ n \in Nat /\ n \in 1..MaxMessages
        BY <1>2, <2>1
      <4>2. u_called[n] \in Seq(Machine \X Handler)
        BY <1>2, <4>1
      <4> QED
        BY <4>1, <4>2, CountsGrow DEF TalkInv
    <3>2. ASSUME NEW heard \in BOOLEAN, Yet(n, k, h, heard)' PROVE Yet(n, k, h, heard)
      <4>1. CASE heard /\ OnWire(k, n)'
        BY <1>4, <3>1, <4>1 DEF Yet
      <4>2. ASSUME NEW f \in u_runs', f.msg.id = n, f.at = k, f.heard = heard, Ahead(f, h)'
            PROVE  Yet(n, k, h, heard)
        BY <1>11, <2>0, <3>1, <4>2 DEF Yet
      <4> QED
        BY <3>2, <4>1, <4>2 DEF Yet
    <3>3. Counts(u_called'[n], <<k, h>>) = Counts(u_called[n], <<k, h>>) + One(FALSE)
      BY <1>6, <3>1 DEF One
    <3>4. Counts(u_called'[n], <<k, h>>) + One(Yet(n, k, h, FALSE)') + One(Yet(n, k, h, TRUE)') <= Times(n, k)
      BY <1>2, <2>1, <3>1, <3>2, <3>3, CountStep
    <3>5. Times(n, k)' = Times(n, k)
      BY <1>3, <2>1 DEF Times
    <3> QED
      BY <3>4, <3>5
  <2>2. CASE n = id
    <3>a. PICK P \in BOOLEAN : P <=> Yet(n, k, h, FALSE)'
      OBVIOUS
    <3>b. PICK Q \in BOOLEAN : Q <=> Yet(n, k, h, TRUE)'
      OBVIOUS
    <3> DEFINE c == Counts(u_called'[id], <<k, h>>)
               x == One(P)
               y == One(Q)
    <3>1. Counts(<<>>, <<k, h>>) = 0
      <4>1. u_called[id] \in Seq(Machine \X Handler)
        BY <1>2
      <4> QED
        BY <4>1, CountsGrow
    (* Here it is called now or later. *)
    <3>2. c \in {0, 1} /\ x \in {0, 1} /\ y \in {0, 1} /\ (c = 1 => x = 0)
          /\ (c = 1 \/ x = 1 => k = m /\ msg.to \in {m, Talk!All})
      <4>1. y \in {0, 1} /\ x \in {0, 1}
        BY DEF One
      <4>2. ASSUME P
            PROVE  \E f \in u_runs' \ u_runs : f.at = k /\ Ahead(f, h)
        BY <1>2, <1>5, <2>0, <2>2, <3>a, <4>2 DEF Yet
      <4>3. CASE u_runs' = u_runs
        <5>1. c = 0
          BY <1>6, <3>1, <4>3
        <5>2. ~P
          BY <4>2, <4>3
        <5>3. x = 0
          BY <5>2 DEF One
        <5> HIDE DEF c, x, y
        <5> QED
          BY <4>1, <5>1, <5>3
      <4>4. ASSUME NEW f \in u_runs' \ u_runs
            PROVE  c \in {0, 1} /\ (c = 1 => x = 0) /\ (c = 1 \/ x = 1 => k = m /\ msg.to \in {m, Talk!All})
        <5>1. c = IF k = m /\ h = f.awaiting THEN 1 ELSE 0
          BY <1>5, <1>6, <3>1
        <5>0. x = 1 => P
          BY DEF One
        <5>2. x = 1 => f.at = k /\ Ahead(f, h)
          <6> HIDE DEF x
          <6> QED
            BY <1>6, <4>2, <5>0
        <5>3. f.at = m /\ msg.to \in {m, Talk!All} /\ (Ahead(f, h) => h # f.awaiting)
          BY <1>6
        <5> HIDE DEF c, x
        <5> QED
          BY <4>1, <5>1, <5>2, <5>3
      <4>5. CASE u_runs' # u_runs
        <5>1. PICK f \in u_runs' \ u_runs : TRUE
          BY <1>6, <4>5
        <5> QED
          BY <4>1, <4>4, <5>1
      <4> QED
        BY <4>3, <4>5
    (* It is heard here if it goes to another or to all. *)
    <3>3. y = 1 => msg.to \in {k, Talk!All} /\ msg.to # m
      <4>1. ASSUME Q PROVE OnWire(k, n)'
        <5>1. \A f \in u_runs' : f.msg.id = n => f.heard = FALSE
          BY <1>2, <1>5, <1>6, <2>2
        <5> QED
          BY <3>b, <4>1, <5>1 DEF Yet
      <4>2. OnWire(k, n)' => msg.to \in {k, Talk!All} /\ msg.to # m
        BY <1>2, <1>4, <1>5, <2>2
      <4>3. y = 1 => Q
        BY DEF One
      <4> HIDE DEF y
      <4> QED
        BY <4>1, <4>2, <4>3
    <3>4. Times(n, k)' = IF msg.to = Talk!All /\ m = k THEN 2 ELSE 1
      BY <1>3, <2>2 DEF Times
    <3> HIDE DEF c, x, y
    <3>5. c + x + y <= IF msg.to = Talk!All /\ m = k THEN 2 ELSE 1
      BY <3>2, <3>3
    <3> QED
      <4>1. x = One(Yet(n, k, h, FALSE)')
        BY <3>a DEF One, x
      <4>2. y = One(Yet(n, k, h, TRUE)')
        BY <3>b DEF One, y
      <4> QED
        BY <2>2, <3>4, <3>5, <4>1, <4>2 DEF c
  <2> QED
    BY <1>1, <1>2, <2>1, <2>2
<1> QED
  BY <1>7, <1>8, <1>9, <1>10, <1>12, <1>13, <1>14, <1>15 DEF TalkInv

LEMMA SendTalkKeeps ==
    ASSUME TalkInv, NEW m \in Sender, NEW to \in Machine \cup {Talk!All}, Talk!Send(m, to)
    PROVE  TalkInv'
<1>1. m \in Machine /\ TalkType
  BY TalkAssumption DEF TalkInv
<1>2. u_messages < MaxMessages
  BY DEF Talk!Send, Talk!New
<1>3. PICK n \in 1..MaxMessages : n = u_messages + 1
  <2>1. MaxMessages \in Nat /\ u_messages \in Nat
    BY <1>1, TalkTyped
  <2> QED
    BY <1>2, <2>1
<1>4. /\ Talk!Outcome("none") \in TalkOutcome /\ Talk!Outcome("sent") \in TalkOutcome
      /\ Talk!Outcome("error") \in TalkOutcome /\ Talk!Outcome("sent").kind = "sent"
      /\ Talk!Outcome("error").kind = "error"
  BY DEF Talk!Outcome, TalkOutcome, TalkKind
<1>5. PICK msg \in TalkMsg : /\ msg = Talk!Msg("send", n, m, to, Talk!Outcome("none"))
                             /\ msg.kind = "send" /\ msg.id = n /\ msg.from = m /\ msg.to = to
  <2> DEFINE g == [kind |-> "send", id |-> n, from |-> m, to |-> to, payload |-> Talk!Outcome("none")]
  <2>1. g = Talk!Msg("send", n, m, to, Talk!Outcome("none"))
    BY DEF Talk!Msg
  <2>2. g \in TalkMsg
    BY <1>1, <1>4 DEF TalkMsg
  <2>3. g.kind = "send" /\ g.id = n /\ g.from = m /\ g.to = to
    OBVIOUS
  <2> QED
    BY <2>1, <2>2, <2>3
<1>6. /\ Talk!New(msg) /\ UNCHANGED u_pending
      /\ \/ to = m /\ Talk!Deliver(m, msg, FALSE) /\ Talk!Becomes(msg, Talk!Outcome("sent"))
            /\ UNCHANGED u_wire
         \/ /\ to # m /\ Talk!Publish(msg) /\ Talk!Becomes(msg, Talk!Outcome("sent"))
            /\ IF to = Talk!All THEN Talk!Deliver(m, msg, FALSE) ELSE UNCHANGED <<u_runs, u_called>>
         \/ to # m /\ Talk!Becomes(msg, Talk!Outcome("error")) /\ UNCHANGED <<u_wire, u_runs, u_called>>
  BY <1>3, <1>5 DEF Talk!Send
<1>7. PICK o \in TalkOutcome : o.kind \notin {"result", "waiting"} /\ Talk!Becomes(msg, o)
  BY <1>4, <1>6
<1>8. /\ (Talk!Publish(msg) /\ msg.to # m) \/ UNCHANGED u_wire
      /\ (Talk!Deliver(m, msg, FALSE) /\ msg.to \in {m, Talk!All}) \/ UNCHANGED <<u_runs, u_called>>
  BY <1>5, <1>6
<1>9. u_pending' = IF o.kind = "waiting" /\ msg.to # m THEN u_pending \cup {msg.id} ELSE u_pending
  BY <1>6, <1>7
<1> QED
  BY <1>1, <1>3, <1>5, <1>6, <1>7, <1>8, <1>9, NewTalkKeeps

LEMMA RequestTalkKeeps ==
    ASSUME TalkInv, NEW m \in Sender, NEW to \in Machine, Talk!Request(m, to)
    PROVE  TalkInv'
<1>1. m \in Machine /\ TalkType
  BY TalkAssumption DEF TalkInv
<1>2. u_messages < MaxMessages
  BY DEF Talk!Request, Talk!New
<1>3. PICK n \in 1..MaxMessages : n = u_messages + 1
  <2>1. MaxMessages \in Nat /\ u_messages \in Nat
    BY <1>1, TalkTyped
  <2> QED
    BY <1>2, <2>1
<1>4. /\ Talk!Outcome("none") \in TalkOutcome /\ Talk!Outcome("waiting") \in TalkOutcome
      /\ Talk!Outcome("error") \in TalkOutcome /\ Talk!Outcome("waiting").kind = "waiting"
      /\ Talk!Outcome("error").kind = "error"
  BY DEF Talk!Outcome, TalkOutcome, TalkKind
<1>5. PICK msg \in TalkMsg : /\ msg = Talk!Msg("request", n, m, to, Talk!Outcome("none"))
                             /\ msg.kind = "request" /\ msg.id = n /\ msg.from = m /\ msg.to = to
  <2> DEFINE g == [kind |-> "request", id |-> n, from |-> m, to |-> to, payload |-> Talk!Outcome("none")]
  <2>1. g = Talk!Msg("request", n, m, to, Talk!Outcome("none"))
    BY DEF Talk!Msg
  <2>2. g \in TalkMsg
    BY <1>1, <1>4 DEF TalkMsg
  <2>3. g.kind = "request" /\ g.id = n /\ g.from = m /\ g.to = to
    OBVIOUS
  <2> QED
    BY <2>1, <2>2, <2>3
<1>6. /\ Talk!New(msg)
      /\ \/ /\ to = m /\ Talk!Deliver(m, msg, FALSE) /\ Talk!Becomes(msg, Talk!Outcome("waiting"))
            /\ UNCHANGED <<u_wire, u_pending>>
         \/ /\ to # m /\ Talk!Publish(msg) /\ Talk!Becomes(msg, Talk!Outcome("waiting"))
            /\ u_pending' = u_pending \cup {msg.id} /\ UNCHANGED <<u_runs, u_called>>
         \/ /\ to # m /\ Talk!Becomes(msg, Talk!Outcome("error"))
            /\ UNCHANGED <<u_wire, u_runs, u_called, u_pending>>
  BY <1>3, <1>5 DEF Talk!Request
<1>7. PICK o \in TalkOutcome :
         /\ o.kind # "result" /\ Talk!Becomes(msg, o)
         /\ u_pending' = IF o.kind = "waiting" /\ msg.to # m THEN u_pending \cup {msg.id} ELSE u_pending
  <2>1. CASE to = m
    BY <1>4, <1>5, <1>6, <2>1
  <2>2. CASE to # m /\ Talk!Becomes(msg, Talk!Outcome("waiting")) /\ u_pending' = u_pending \cup {msg.id}
    BY <1>4, <1>5, <2>2
  <2>3. CASE to # m /\ Talk!Becomes(msg, Talk!Outcome("error")) /\ UNCHANGED u_pending
    BY <1>4, <2>3
  <2> QED
    BY <1>6, <2>1, <2>2, <2>3
<1>8. /\ (Talk!Publish(msg) /\ msg.to # m) \/ UNCHANGED u_wire
      /\ (Talk!Deliver(m, msg, FALSE) /\ msg.to \in {m, Talk!All}) \/ UNCHANGED <<u_runs, u_called>>
  BY <1>5, <1>6
<1> QED
  BY <1>1, <1>3, <1>5, <1>6, <1>7, <1>8, NewTalkKeeps

LEMMA TalkStarts == Talk!Init => TalkInv
<1> SUFFICES ASSUME Talk!Init PROVE TalkInv
  OBVIOUS
<1>1. /\ u_handlers \in Registered /\ u_wire = [m \in Machine |-> <<>>] /\ u_pending = {} /\ u_runs = {}
      /\ u_outcome = [id \in 1..MaxMessages |-> Talk!Outcome("none")]
      /\ DOMAIN u_sent = 1..MaxMessages
      /\ u_called = [id \in 1..MaxMessages |-> <<>>] /\ u_removed = {} /\ u_messages = 0
  BY DEF Talk!Init
<1>2. TalkType
  <2>1. Talk!Outcome("none") \in TalkOutcome
    BY DEF Talk!Outcome, TalkOutcome, TalkKind
  <2>2. <<>> \in Seq(TalkMsg) /\ <<>> \in Seq(Machine \X Handler)
    OBVIOUS
  <2>3. u_messages \in 0..MaxMessages
    BY <1>1, TalkAssumption
  <2>4. u_handlers \in [Machine -> Seq(Handler)]
    BY <1>1, TalkAssumption
  <2> QED
    BY <1>1, <2>1, <2>2, <2>3, <2>4 DEF TalkType
<1>3. PlaceInv
  BY <1>1, TalkAssumption DEF PlaceInv
<1>4. 1..u_messages = {} /\ \A m \in Machine : u_wire[m] = <<>> /\ DOMAIN u_wire[m] = {}
  BY <1>1
<1>5. SentInv
  BY <1>1, <1>4 DEF SentInv
<1>6. TalkWireInv
  BY <1>4 DEF TalkWireInv, OnWireOnce
<1>7. DeliveryInv /\ PendingInv /\ LastInv /\ CountInv
  BY <1>1, <1>4 DEF DeliveryInv, PendingInv, LastInv, CountInv
<1> QED
  BY <1>2, <1>3, <1>5, <1>6, <1>7 DEF TalkInv

LEMMA TalkInductive ==
    ASSUME TalkInv, [Talk!Next]_(Talk!vars)
    PROVE  TalkInv'
<1>1. CASE UNCHANGED Talk!vars
  <2>1. UNCHANGED <<u_handlers, u_wire, u_pending, u_runs, u_outcome, u_messages, u_sent, u_called, u_removed>>
    BY <1>1 DEF Talk!vars
  <2>2. /\ TalkType' /\ PlaceInv' /\ SentInv' /\ PendingInv'
    BY <2>1 DEF TalkInv, TalkType, PlaceInv, SentInv, PendingInv
  <2>3. TalkWireInv'
    BY <2>1 DEF TalkInv, TalkWireInv
  <2>4. DeliveryInv'
    BY <2>1 DEF TalkInv, DeliveryInv, OnWire
  <2>5. LastInv'
    BY <2>1 DEF TalkInv, LastInv, LastWas, OverWith, OnWire
  <2>6. CountInv'
    <3>1. \A id \in 1..u_messages, m \in Machine, h \in Handler, heard \in BOOLEAN :
             <<m, h>> \notin u_removed' /\ Yet(id, m, h, heard)' => Yet(id, m, h, heard)
      BY <2>1 DEF Yet, OnWire, Ahead
    <3> QED
      BY <2>1, <3>1, CountStays DEF TalkInv
  <2> QED
    BY <2>2, <2>3, <2>4, <2>5, <2>6 DEF TalkInv
<1>2. ASSUME Talk!Next PROVE TalkInv'
  <2>1. CASE \E m \in Sender, to \in Machine \cup {Talk!All} : Talk!Send(m, to)
    BY <2>1, SendTalkKeeps
  <2>2. CASE \E m \in Sender, to \in Machine : Talk!Request(m, to)
    BY <2>2, RequestTalkKeeps
  <2>3. CASE \E m \in Machine : Talk!Hear(m)
    BY <2>3, HearTalkKeeps
  <2>4. CASE \E m \in Machine : Talk!CutOff(m)
    BY <2>4, CutOffKeeps
  <2>5. CASE \E m \in Machine, h \in Handler : Talk!On(m, h)
    BY <2>5, OnTalkKeeps
  <2>6. CASE \E m \in Machine : \E i \in DOMAIN u_handlers[m] : Talk!Off(m, i)
    BY <2>6, OffKeeps
  <2>7. CASE \E d \in u_runs : Talk!Finish(d)
    BY <2>7, FinishTalkKeeps
  <2>8. CASE \E d \in u_runs : \E throws \in BOOLEAN : Talk!Return(d, throws)
    BY <2>8, ReturnTalkKeeps
  <2>9. CASE \E id \in 1..MaxMessages : Talk!Timeout(id)
    BY <2>9, TimeoutKeeps
  <2> QED
    BY <1>2, <2>1, <2>2, <2>3, <2>4, <2>5, <2>6, <2>7, <2>8, <2>9 DEF Talk!Next
<1> QED
  BY <1>1, <1>2

LEMMA SameTalkCardinality == \A S : Talk!Cardinality(S) = Cardinality(S)
  BY DEF Talk!Cardinality, Cardinality

LEMMA TalkMeans == TalkInv => Talk!TypeOK /\ Talk!AnswersAreTheirs /\ Talk!HandledOnce
<1> SUFFICES ASSUME TalkInv PROVE Talk!TypeOK /\ Talk!AnswersAreTheirs /\ Talk!HandledOnce
  OBVIOUS
<1>1. TalkType /\ 1..u_messages \subseteq 1..MaxMessages
  BY TalkTyped DEF TalkInv
<1>2. Talk!TypeOK
  <2>1. ASSUME NEW d \in u_runs PROVE d.at \in Machine /\ d.next \in 1..(Talk!Cardinality(Handler) + 1) \cup {2}
    <3> DEFINE hs == u_handlers[d.at]
               c == Cardinality(Handler)
    <3>1. /\ d.at \in Machine /\ d.next \in Nat /\ d.next >= 1 /\ hs \in Seq(Handler)
          /\ Len(hs) \in Nat /\ (d.next <= Len(hs) + 1 \/ d.next = 2)
      BY <1>1, TalkTyped DEF TalkInv, PlaceInv
    <3>2. c \in Nat
      BY TalkAssumption, FS_CardinalityType
    <3>3. Len(hs) <= c
      <4>1. hs \in [1..Len(hs) -> Handler]
        BY <3>1, Entries
      <4>2. \A i, j \in 1..Len(hs) : hs[i] = hs[j] => i = j
        BY <3>1, <4>1 DEF TalkInv, PlaceInv
      <4>3. hs \in Injection(1..Len(hs), Handler)
        BY <4>1, <4>2 DEF Injection, IsInjective
      <4>4. IsFiniteSet(1..Len(hs)) /\ Cardinality(1..Len(hs)) = Len(hs)
        <5>1. 1 \in Int /\ Len(hs) \in Int /\ (1 > Len(hs) => Len(hs) = 0) /\ Len(hs) - 1 + 1 = Len(hs)
          BY <3>1
        <5> QED
          BY <3>1, <5>1, FS_Interval
      <4> HIDE DEF hs
      <4> QED
        BY <4>3, <4>4, TalkAssumption, FS_Injection
    <3> HIDE DEF hs, c
    <3>4. d.next \in 1..(c + 1) \cup {2}
      BY <3>1, <3>2, <3>3
    <3> QED
      BY <3>1, <3>4, SameTalkCardinality DEF c
  <2>2. \A id \in 1..MaxMessages :
           u_outcome[id].kind \in {"none", "sent", "waiting", "result", "error", "timeout"}
    BY <1>1 DEF TalkType, TalkOutcome, TalkKind
  <2> QED
    BY <1>1, <2>1, <2>2 DEF TalkType, Talk!TypeOK
<1>3. Talk!AnswersAreTheirs
  BY DEF TalkInv, PendingInv, LastInv, OverWith, LastWas, Talk!AnswersAreTheirs
<1>4. Talk!HandledOnce
  <2> SUFFICES ASSUME NEW id \in 1..u_messages, NEW m \in Machine, NEW h \in Handler,
                      <<m, h>> \notin u_removed
               PROVE  Talk!Cardinality({i \in DOMAIN u_called[id] : u_called[id][i] = <<m, h>>})
                         <= IF u_sent[id].to = Talk!All /\ u_sent[id].from = m THEN 2 ELSE 1
    BY DEF Talk!HandledOnce
  <2> DEFINE c == Counts(u_called[id], <<m, h>>)
             x == One(Yet(id, m, h, FALSE))
             y == One(Yet(id, m, h, TRUE))
             t == Times(id, m)
  <2>1. c + x + y <= t
    BY DEF TalkInv, CountInv
  <2>2. x \in Nat /\ y \in Nat /\ t \in Nat
    BY DEF One, Times
  <2>3. c \in Nat
    <3>1. u_called[id] \in Seq(Machine \X Handler)
      BY <1>1, TalkTyped
    <3> QED
      BY <3>1, CountsGrow
  <2> HIDE DEF c, x, y, t
  <2>4. c <= t
    BY <2>1, <2>2, <2>3
  <2> QED
    BY <2>4, SameTalkCardinality DEF c, t, Counts, Times
<1> QED
  BY <1>2, <1>3, <1>4

(* In every behaviour of the services a request of a plugin ends with what *)
(* the last handler of its target made of it, is waited for until then     *)
(* only, and no handler is called with a message more often than it was    *)
(* sent to its machine.                                                    *)
THEOREM AnswersRight == SvcSpec => []AnswersAreTheirs
<1>1. SvcSpec => Talk!Spec
  BY Each
<1>2. Talk!Spec => []TalkInv
  BY TalkStarts, TalkInductive, PTL DEF Talk!Spec
<1>3. TalkInv => AnswersAreTheirs
  BY TalkMeans DEF AnswersAreTheirs
<1> QED
  BY <1>1, <1>2, <1>3, PTL

===============================================================================
