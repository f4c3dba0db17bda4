---------------------------- MODULE Services_proof ----------------------------
(***************************************************************************)
(* Proofs about the services, for any callers, shards, jobs, workers,      *)
(* versions and messages, each service on its own: a behaviour of them all *)
(* is one of each.  Here the grants, the versions and the plans made from  *)
(* them, the migrations, the jobs and the files that are read again; the   *)
(* services that carry messages are in Channels_proof.                     *)
(***************************************************************************)
EXTENDS Services, FiniteSetTheorems, WellFoundedInduction, TLAPS

-------------------------------------------------------------------------------
(* What sequences become.                                                  *)

LEMMA Entries ==
    ASSUME NEW S, NEW l \in Seq(S)
    PROVE  Len(l) \in Nat /\ l \in [1..Len(l) -> S] /\ \A i \in 1..Len(l) : l[i] \in S
  OBVIOUS

LEMMA Appended ==
    ASSUME NEW S, NEW l \in Seq(S), NEW x \in S
    PROVE  /\ Append(l, x) \in Seq(S) /\ Len(Append(l, x)) = Len(l) + 1
           /\ Append(l, x)[Len(l) + 1] = x
           /\ \A i \in 1..Len(l) : Append(l, x)[i] = l[i]
  OBVIOUS

LEMMA WithoutFirst ==
    ASSUME NEW S, NEW l \in Seq(S), l # <<>>
    PROVE  /\ Tail(l) \in Seq(S) /\ Len(Tail(l)) = Len(l) - 1 /\ Len(l) >= 1
           /\ \A i \in 1..(Len(l) - 1) : Tail(l)[i] = l[i + 1]
  OBVIOUS

LEMMA Replaced ==
    ASSUME NEW S, NEW l \in Seq(S), NEW k \in 1..Len(l), NEW x \in S
    PROVE  /\ [l EXCEPT ![k] = x] \in Seq(S) /\ Len([l EXCEPT ![k] = x]) = Len(l)
           /\ [l EXCEPT ![k] = x][k] = x
           /\ \A i \in 1..Len(l) : i # k => [l EXCEPT ![k] = x][i] = l[i]
  OBVIOUS

(* The last three entries of a list, with a new one.                       *)
LEMMA LastThree ==
    ASSUME NEW S, NEW l \in Seq(S), Len(l) <= 3, NEW x \in S
    PROVE  \E r \in Seq(S), c \in 1..3, d \in Nat :
              /\ r = Append(IF Len(l) < 3 THEN l ELSE Tail(l), x)
              /\ Len(r) = c /\ r[c] = x /\ c + d = Len(l) + 1
              /\ \A i \in 1..(c - 1) : i + d \in 1..Len(l) /\ r[i] = l[i + d]
<1>0. PICK n \in Nat : n = Len(l)
  BY Entries
<1>1. CASE n < 3
  <2> DEFINE a == Append(l, x)
  <2>a. a \in Seq(S) /\ Len(a) = Len(l) + 1 /\ a[Len(l) + 1] = x
        /\ \A i \in 1..Len(l) : a[i] = l[i]
    BY Appended
  <2>b. a = Append(l, x)
    OBVIOUS
  <2> HIDE DEF a
  <2>c. a \in Seq(S) /\ Len(a) = n + 1 /\ a[n + 1] = x /\ \A i \in 1..n : a[i] = l[i]
    BY <1>0, <2>a
  <2>1. PICK r \in Seq(S) : r = Append(l, x) /\ Len(r) = n + 1 /\ r[n + 1] = x
                            /\ \A i \in 1..n : r[i] = l[i]
    BY <2>b, <2>c
  <2>2. n + 1 \in 1..3 /\ \A i \in 1..(n + 1 - 1) : i + 0 \in 1..n /\ r[i] = l[i + 0]
    BY <1>1, <2>1
  <2> WITNESS r \in Seq(S), n + 1 \in 1..3, 0 \in Nat
  <2> QED
    BY <1>0, <1>1, <2>1, <2>2
<1>2. CASE n = 3
  <2>0. l # <<>>
    <3>1. ASSUME l = <<>> PROVE Len(l) = 0
      BY <3>1
    <3> QED
      BY <1>0, <1>2, <3>1
  <2>1. PICK t \in Seq(S) : t = Tail(l) /\ Len(t) = Len(l) - 1
                            /\ \A i \in 1..(Len(l) - 1) : t[i] = l[i + 1]
    BY <2>0, WithoutFirst
  <2>2. Len(t) = 2 /\ \A i \in 1..2 : t[i] = l[i + 1]
    BY <1>0, <1>2, <2>1
  <2> DEFINE a == Append(t, x)
  <2>a. a \in Seq(S) /\ Len(a) = Len(t) + 1 /\ a[Len(t) + 1] = x
        /\ \A i \in 1..Len(t) : a[i] = t[i]
    BY Appended
  <2>b. a = Append(t, x)
    OBVIOUS
  <2> HIDE DEF a
  <2>3. PICK r \in Seq(S) : r = Append(t, x) /\ Len(r) = Len(t) + 1 /\ r[Len(t) + 1] = x
                            /\ \A i \in 1..Len(t) : r[i] = t[i]
    BY <2>a, <2>b
  <2>4. Len(r) = 3 /\ r[3] = x /\ \A i \in 1..2 : r[i] = l[i + 1]
    BY <2>2, <2>3
  <2>5. \A i \in 1..(3 - 1) : i + 1 \in 1..n /\ r[i] = l[i + 1]
    BY <1>2, <2>4
  <2>6. ~(Len(l) < 3)
    BY <1>0, <1>2
  <2>7. r = Append(IF Len(l) < 3 THEN l ELSE Tail(l), x)
    BY ONLY <2>1, <2>3, <2>6
  <2>8. 3 + 1 = Len(l) + 1 /\ n = Len(l)
    BY <1>0, <1>2
  <2> WITNESS r \in Seq(S), 3 \in 1..3, 1 \in Nat
  <2> QED
    BY <2>4, <2>5, <2>7, <2>8
<1> QED
  BY <1>0, <1>1, <1>2

(***************************************************************************)
(* A behaviour of the services is one of each of them.                     *)
(***************************************************************************)

(* A step of the services that changes what one of them keeps is a step of *)
(* that one.                                                               *)
LEMMA EachStep ==
    ASSUME [SvcNext]_All
    PROVE  /\ [Next]_vars /\ [CheckNext]_answer
           /\ [Queue!Next]_g_vars
           /\ [Snap!Next]_s_vars
           /\ [Bus!Next]_b_vars
           /\ [Jobs!Next]_j_vars
           /\ [Rpc!Next]_q_vars
           /\ [Mig!Next]_m_vars
           /\ [Talk!Next]_u_vars
           /\ [Reload!Next]_r_vars
<1> USE DEF SvcNext, GrantsStep, SnapshotsStep, EventsStep, JobsStep, QueriesStep, MigrationsStep,
        VersionsStep, PlansStep, MessagesStep, ReloadsStep
<1>1. UNCHANGED All =>
         UNCHANGED <<g_vars, s_vars, b_vars, j_vars, q_vars, m_vars, answer, vars, u_vars, r_vars>>
  BY DEF All
<1>2. [Next]_vars
  BY <1>1
<1>3. [CheckNext]_answer
  BY <1>1
<1>4. [Queue!Next]_g_vars
  BY <1>1
<1>5. [Snap!Next]_s_vars
  BY <1>1
<1>6. [Bus!Next]_b_vars
  BY <1>1
<1>7. [Jobs!Next]_j_vars
  BY <1>1
<1>8. [Rpc!Next]_q_vars
  BY <1>1
<1>9. [Mig!Next]_m_vars
  BY <1>1
<1>10. [Talk!Next]_u_vars
  BY <1>1
<1>11. [Reload!Next]_r_vars
  BY <1>1
<1> QED
  BY <1>2, <1>3, <1>4, <1>5, <1>6, <1>7, <1>8, <1>9, <1>10, <1>11

LEMMA Each ==
    SvcSpec => /\ CheckSpec /\ Spec
               /\ Queue!Spec /\ Snap!Spec /\ Bus!Spec /\ Jobs!Spec
               /\ Rpc!Spec /\ Mig!Spec /\ Talk!Spec /\ Reload!Spec
<1>1. SvcInit => CheckInit /\ Init
                 /\ Queue!Init /\ Snap!Init /\ Bus!Init /\ Jobs!Init
                 /\ Rpc!Init /\ Mig!Init /\ Talk!Init /\ Reload!Init
  BY DEF SvcInit
<1>2. [SvcNext]_All =>
         /\ [Next]_vars /\ [CheckNext]_answer
         /\ [Queue!Next]_(Queue!vars)
         /\ [Snap!Next]_(Snap!vars)
         /\ [Bus!Next]_(Bus!vars)
         /\ [Jobs!Next]_(Jobs!vars)
         /\ [Rpc!Next]_(Rpc!vars)
         /\ [Mig!Next]_(Mig!vars)
         /\ [Talk!Next]_(Talk!vars)
         /\ [Reload!Next]_(Reload!vars)
  <2> SUFFICES ASSUME [SvcNext]_All
               PROVE  /\ [Next]_vars /\ [CheckNext]_answer
                      /\ [Queue!Next]_(Queue!vars)
                      /\ [Snap!Next]_(Snap!vars)
                      /\ [Bus!Next]_(Bus!vars)
                      /\ [Jobs!Next]_(Jobs!vars)
                      /\ [Rpc!Next]_(Rpc!vars)
                      /\ [Mig!Next]_(Mig!vars)
                      /\ [Talk!Next]_(Talk!vars)
                      /\ [Reload!Next]_(Reload!vars)
    OBVIOUS
  <2>1. [Queue!Next]_g_vars => [Queue!Next]_(Queue!vars)
    BY DEF g_vars, Queue!vars
  <2>2. [Snap!Next]_s_vars => [Snap!Next]_(Snap!vars)
    BY DEF s_vars, Snap!vars
  <2>3. [Bus!Next]_b_vars => [Bus!Next]_(Bus!vars)
    BY DEF b_vars, Bus!vars
  <2>4. [Jobs!Next]_j_vars => [Jobs!Next]_(Jobs!vars)
    BY DEF j_vars, Jobs!vars
  <2>5. [Rpc!Next]_q_vars => [Rpc!Next]_(Rpc!vars)
    BY DEF q_vars, Rpc!vars
  <2>6. [Mig!Next]_m_vars => [Mig!Next]_(Mig!vars)
    BY DEF m_vars, Mig!vars
  <2>7. [Talk!Next]_u_vars => [Talk!Next]_(Talk!vars)
    BY DEF u_vars, Talk!vars
  <2>8. [Reload!Next]_r_vars => [Reload!Next]_(Reload!vars)
    BY DEF r_vars, Reload!vars
  <2> QED
    BY EachStep, <2>1, <2>2, <2>3, <2>4, <2>5, <2>6, <2>7, <2>8
<1> QED
  BY <1>1, <1>2, PTL DEF SvcSpec, CheckSpec, Spec, Queue!Spec, Snap!Spec, Bus!Spec, Jobs!Spec, Rpc!Spec, Mig!Spec, Talk!Spec, Reload!Spec

-------------------------------------------------------------------------------
(* Versions, ranges of versions and the plans made from them.              *)

Triple == Nat \X Nat \X Nat

(* The order of triples, without quantifiers.                              *)
LEMMA PrecedesParts ==
    ASSUME NEW p \in Triple, NEW q \in Triple
    PROVE  Precedes(p, q) <=> \/ p[1] < q[1]
                              \/ p[1] = q[1] /\ p[2] < q[2]
                              \/ p[1] = q[1] /\ p[2] = q[2] /\ p[3] < q[3]
<1>1. 1..3 = {1, 2, 3} /\ 1..(1 - 1) = {} /\ 1..(2 - 1) = {1} /\ 1..(3 - 1) = {1, 2}
  OBVIOUS
<1>2. Precedes(p, q) <=> \/ p[1] < q[1] /\ \A j \in 1..(1 - 1) : p[j] = q[j]
                         \/ p[2] < q[2] /\ \A j \in 1..(2 - 1) : p[j] = q[j]
                         \/ p[3] < q[3] /\ \A j \in 1..(3 - 1) : p[j] = q[j]
  BY <1>1 DEF Precedes
<1> QED
  BY <1>1, <1>2

LEMMA AgreeParts ==
    ASSUME NEW p \in Triple, NEW q \in Triple
    PROVE  /\ Agree(p, q, 0)
           /\ Agree(p, q, 1) <=> p[1] = q[1]
           /\ Agree(p, q, 2) <=> p[1] = q[1] /\ p[2] = q[2]
           /\ Agree(p, q, 3) <=> p[1] = q[1] /\ p[2] = q[2] /\ p[3] = q[3]
<1>1. 1..0 = {} /\ 1..1 = {1} /\ 1..2 = {1, 2} /\ 1..3 = {1, 2, 3}
  OBVIOUS
<1> QED
  BY <1>1 DEF Agree

-----------------------------------------------------------------------------
(* A release: a version without a prerelease.                              *)
IsRelease(v) ==
    /\ v.major \in Nat /\ v.minor \in Nat /\ v.patch \in Nat
    /\ v.prerelease = <<>>

LEMMA PartsTriple == ASSUME NEW v, IsRelease(v) PROVE Parts(v) \in Triple
BY DEF Parts, IsRelease, Triple

(* Of releases, Compare is the order of their numbers.                     *)
LEMMA CompareReleases ==
    ASSUME NEW v, NEW w, IsRelease(v), IsRelease(w)
    PROVE  /\ Compare(v, w) \in {-1, 0, 1}
           /\ Compare(v, w) < 0 <=> Precedes(Parts(v), Parts(w))
           /\ Compare(v, w) > 0 <=> Precedes(Parts(w), Parts(v))
<1>1. ComparePrerelease(v.prerelease, w.prerelease) = 0
  BY DEF ComparePrerelease, IsRelease
<1>2. /\ Precedes(Parts(v), Parts(w)) <=>
             \/ v.major < w.major
             \/ v.major = w.major /\ v.minor < w.minor
             \/ v.major = w.major /\ v.minor = w.minor /\ v.patch < w.patch
      /\ Precedes(Parts(w), Parts(v)) <=>
             \/ w.major < v.major
             \/ w.major = v.major /\ w.minor < v.minor
             \/ w.major = v.major /\ w.minor = v.minor /\ w.patch < v.patch
  BY PartsTriple, PrecedesParts DEF Parts
<1> QED
  BY <1>1, <1>2 DEF Compare, CompareNumbers, IsRelease

(* What each comparator takes, of releases.                                *)
LEMMA CompareWithOpReleases ==
    ASSUME NEW v, NEW w, IsRelease(v), IsRelease(w)
    PROVE  /\ CompareWithOp(v, Comparator(">", w)) <=> Precedes(Parts(w), Parts(v))
           /\ CompareWithOp(v, Comparator(">=", w)) <=> ~Precedes(Parts(v), Parts(w))
           /\ CompareWithOp(v, Comparator("<", w)) <=> Precedes(Parts(v), Parts(w))
           /\ CompareWithOp(v, Comparator("<=", w)) <=> ~Precedes(Parts(w), Parts(v))
           /\ CompareWithOp(v, Comparator("==", w)) <=> Parts(v) = Parts(w)
<1>1. Parts(v) \in Triple /\ Parts(w) \in Triple
  BY PartsTriple
<1>2. ~Precedes(Parts(v), Parts(w)) /\ ~Precedes(Parts(w), Parts(v)) <=> Parts(v) = Parts(w)
  <2>1. /\ Parts(v) = <<v.major, v.minor, v.patch>>
        /\ Parts(w) = <<w.major, w.minor, w.patch>>
    BY DEF Parts
  <2> QED
    BY <1>1, <2>1, PrecedesParts DEF IsRelease
<1> QED
  BY <1>2, CompareReleases DEF CompareWithOp, Comparator

(* All of a pair of bounds.                                                *)
LEMMA BetweenReleases ==
    ASSUME NEW v, NEW lo, NEW hi, IsRelease(v), IsRelease(lo), IsRelease(hi)
    PROVE  (\A c \in Between(lo, hi) : CompareWithOp(v, c)) <=>
               ~Precedes(Parts(v), Parts(lo)) /\ Precedes(Parts(v), Parts(hi))
BY CompareWithOpReleases DEF Between

-----------------------------------------------------------------------------
(* The tokens of releases.                                                 *)
Plain(t) == t \in Token /\ t.prerelease = <<>>

LEMMA PlainParts ==
    ASSUME NEW t, Plain(t)
    PROVE  /\ t.op \in Operator /\ t.prerelease = <<>>
           /\ t.major \in Nat \/ t.major = Wild
           /\ t.minor \in Nat \/ t.minor = Wild \/ t.minor = Absent
           /\ t.patch \in Nat \/ t.patch = Wild \/ t.patch = Absent
           /\ Number(t.minor) \in Nat /\ Number(t.patch) \in Nat
           /\ t.minor = Absent => t.patch = Absent
           /\ \A i \in DOMAIN t.prerelease : ~t.prerelease[i].x
BY DEF Plain, Token, Part, Number, Given

(* What a caret means.                                                     *)
LEMMA CaretMeans ==
    ASSUME NEW v, IsRelease(v), NEW t, Plain(t), t.major \in Nat
    PROVE  (\A c \in CaretComparators(t) : CompareWithOp(v, c)) <=>
               Agree(Parts(v), Base(t), Kept(Base(t))) /\ ~Precedes(Parts(v), Base(t))
<1> DEFINE lo == Lower(t)
           hi == IF lo.major > 0 THEN Ver(lo.major + 1, 0, 0, <<>>)
                 ELSE IF lo.minor > 0 THEN Ver(0, lo.minor + 1, 0, <<>>)
                 ELSE Ver(0, 0, lo.patch + 1, <<>>)
<1>1. /\ lo = [major |-> t.major, minor |-> Number(t.minor), patch |-> Number(t.patch),
               prerelease |-> <<>>]
      /\ Number(t.minor) \in Nat /\ Number(t.patch) \in Nat
  BY PlainParts DEF Lower, Ver
<1>2. IsRelease(lo) /\ IsRelease(hi)
  BY <1>1 DEF IsRelease, Ver
<1>3. (\A c \in CaretComparators(t) : CompareWithOp(v, c)) <=>
          ~Precedes(Parts(v), Parts(lo)) /\ Precedes(Parts(v), Parts(hi))
  <2>1. CaretComparators(t) = Between(lo, hi)
    BY DEF CaretComparators
  <2> HIDE DEF lo, hi
  <2> QED
    BY <1>2, <2>1, BetweenReleases
<1>4. Parts(lo) = Base(t) /\ Base(t) \in Triple /\ Parts(hi) \in Triple /\ Parts(v) \in Triple
  BY <1>1, <1>2, PartsTriple DEF Parts, Base, Triple
<1>5. Base(t) = <<t.major, Number(t.minor), Number(t.patch)>>
  BY DEF Base
<1>6. CASE t.major > 0
  <2>1. Parts(hi) = <<t.major + 1, 0, 0>> /\ Kept(Base(t)) = 1
    BY <1>1, <1>5, <1>6 DEF Parts, Ver, Kept
  <2> QED
    BY <1>3, <1>4, <1>5, <2>1, PrecedesParts, AgreeParts DEF Triple
<1>7. CASE t.major = 0 /\ Number(t.minor) > 0
  <2>1. Parts(hi) = <<0, Number(t.minor) + 1, 0>> /\ Kept(Base(t)) = 2
    BY <1>1, <1>5, <1>7 DEF Parts, Ver, Kept
  <2> QED
    BY <1>1, <1>3, <1>4, <1>5, <1>7, <2>1, PrecedesParts, AgreeParts DEF Triple
<1>8. CASE t.major = 0 /\ Number(t.minor) = 0
  <2>1. Parts(hi) = <<0, 0, Number(t.patch) + 1>> /\ Kept(Base(t)) = 3
    BY <1>1, <1>5, <1>8 DEF Parts, Ver, Kept
  <2> QED
    BY <1>1, <1>3, <1>4, <1>5, <1>8, <2>1, PrecedesParts, AgreeParts DEF Triple
<1> QED
  BY <1>1, <1>6, <1>7, <1>8

(* What a tilde means.                                                     *)
LEMMA TildeMeans ==
    ASSUME NEW v, IsRelease(v), NEW t, Plain(t), t.major \in Nat
    PROVE  (\A c \in TildeComparators(t) : CompareWithOp(v, c)) <=>
               /\ Agree(Parts(v), Base(t), IF Given(t.minor) THEN 2 ELSE 1)
               /\ Given(t.minor) => ~Precedes(Parts(v), Base(t))
<1>1. Parts(v) \in Triple /\ Base(t) \in Triple /\ t.prerelease = <<>>
  BY PartsTriple, PlainParts DEF Base, Triple
<1>2. CASE Given(t.minor)
  <2> DEFINE lo == Lower(t)
             hi == Ver(t.major, t.minor + 1, 0, <<>>)
  <2>1. /\ t.minor \in Nat /\ Number(t.minor) = t.minor /\ Number(t.patch) \in Nat
    BY <1>2, PlainParts DEF Given, Number
  <2>2. /\ IsRelease(lo) /\ IsRelease(hi) /\ Parts(lo) = Base(t)
        /\ Base(t) = <<t.major, t.minor, Number(t.patch)>>
        /\ Parts(hi) = <<t.major, t.minor + 1, 0>>
    BY <1>1, <2>1 DEF IsRelease, Lower, Ver, Parts, Base
  <2>3. (\A c \in TildeComparators(t) : CompareWithOp(v, c)) <=>
            ~Precedes(Parts(v), Parts(lo)) /\ Precedes(Parts(v), Parts(hi))
    <3>1. TildeComparators(t) = Between(lo, hi)
      BY <1>2 DEF TildeComparators
    <3> HIDE DEF lo, hi
    <3> QED
      BY <2>2, <3>1, BetweenReleases
  <2> QED
    BY <1>1, <1>2, <2>1, <2>2, <2>3, PartsTriple, PrecedesParts, AgreeParts DEF Triple
<1>3. CASE ~Given(t.minor)
  <2> DEFINE lo == Ver(t.major, 0, 0, t.prerelease)
             hi == Ver(t.major + 1, 0, 0, <<>>)
  <2>1. /\ IsRelease(lo) /\ IsRelease(hi)
        /\ Parts(lo) = <<t.major, 0, 0>> /\ Parts(hi) = <<t.major + 1, 0, 0>>
    BY <1>1 DEF IsRelease, Ver, Parts
  <2>2. (\A c \in TildeComparators(t) : CompareWithOp(v, c)) <=>
            ~Precedes(Parts(v), Parts(lo)) /\ Precedes(Parts(v), Parts(hi))
    <3>1. TildeComparators(t) = Between(lo, hi)
      BY <1>3 DEF TildeComparators
    <3> HIDE DEF lo, hi
    <3> QED
      BY <2>1, <3>1, BetweenReleases
  <2>3. Base(t)[1] = t.major
    BY DEF Base
  <2> QED
    BY <1>1, <1>3, <2>1, <2>2, <2>3, PartsTriple, PrecedesParts, AgreeParts DEF Triple
<1> QED
  BY <1>2, <1>3

(* What a wildcard means.                                                  *)
LEMMA XRangeMeans ==
    ASSUME NEW v, IsRelease(v), NEW t, Plain(t), Wild \in {t.major, t.minor, t.patch}
    PROVE  (\A c \in ExpandXRange(t) : CompareWithOp(v, c)) <=>
               Agree(Parts(v), Base(t), Numbers(t))
<1>1. Parts(v) \in Triple
  BY PartsTriple
<1>2. CASE t.major = Wild
  <2>1. Numbers(t) = 0 /\ ExpandXRange(t) = {}
    BY <1>2 DEF Numbers, ExpandXRange
  <2> QED
    BY <2>1 DEF Agree
<1>3. CASE t.major # Wild /\ ~Given(t.minor)
  <2> DEFINE lo == Ver(t.major, 0, 0, <<>>)
             hi == Ver(t.major + 1, 0, 0, <<>>)
  <2>1. t.major \in Nat /\ Base(t) \in Triple /\ Base(t)[1] = t.major /\ Numbers(t) = 1
    BY <1>3, PlainParts DEF Base, Triple, Numbers
  <2>2. /\ IsRelease(lo) /\ IsRelease(hi)
        /\ Parts(lo) = <<t.major, 0, 0>> /\ Parts(hi) = <<t.major + 1, 0, 0>>
    BY <2>1 DEF IsRelease, Ver, Parts
  <2>3. (\A c \in ExpandXRange(t) : CompareWithOp(v, c)) <=>
            ~Precedes(Parts(v), Parts(lo)) /\ Precedes(Parts(v), Parts(hi))
    <3>1. ExpandXRange(t) = Between(lo, hi)
      BY <1>3 DEF ExpandXRange
    <3> HIDE DEF lo, hi
    <3> QED
      BY <2>2, <3>1, BetweenReleases
  <2> QED
    BY <1>1, <2>1, <2>2, <2>3, PartsTriple, PrecedesParts, AgreeParts DEF Triple
<1>4. CASE t.major # Wild /\ Given(t.minor)
  <2> DEFINE lo == Ver(t.major, t.minor, 0, <<>>)
             hi == Ver(t.major, t.minor + 1, 0, <<>>)
  <2>1. /\ t.major \in Nat /\ t.minor \in Nat /\ t.patch = Wild
        /\ Base(t) \in Triple /\ Base(t)[1] = t.major /\ Base(t)[2] = t.minor
        /\ Numbers(t) = 2
    BY <1>4, PlainParts DEF Base, Triple, Numbers, Given, Number
  <2>2. /\ IsRelease(lo) /\ IsRelease(hi)
        /\ Parts(lo) = <<t.major, t.minor, 0>> /\ Parts(hi) = <<t.major, t.minor + 1, 0>>
    BY <2>1 DEF IsRelease, Ver, Parts
  <2>3. (\A c \in ExpandXRange(t) : CompareWithOp(v, c)) <=>
            ~Precedes(Parts(v), Parts(lo)) /\ Precedes(Parts(v), Parts(hi))
    <3>1. ExpandXRange(t) = Between(lo, hi)
      BY <1>4 DEF ExpandXRange
    <3> HIDE DEF lo, hi
    <3> QED
      BY <2>2, <3>1, BetweenReleases
  <2> QED
    BY <1>1, <2>1, <2>2, <2>3, PartsTriple, PrecedesParts, AgreeParts DEF Triple
<1> QED
  BY <1>2, <1>3, <1>4

(* A token that does not throw takes the releases that it means.           *)
LEMMA TokenMeans ==
    ASSUME NEW v, IsRelease(v), NEW t, Plain(t), ~TokenThrows(t)
    PROVE  (\A c \in ExpandToken(t) : CompareWithOp(v, c)) <=> Means(Parts(v), t)
<1>1. IsXRange(t) <=> t.op \in {"", "="} /\ Wild \in {t.major, t.minor, t.patch}
  BY PlainParts DEF IsXRange
<1>2. CASE IsXRange(t)
  BY <1>1, <1>2, XRangeMeans DEF ExpandToken, Means
<1>3. CASE ~IsXRange(t) /\ t.op = "^"
  BY <1>3, PlainParts, CaretMeans DEF ExpandToken, Means, TokenThrows
<1>4. CASE ~IsXRange(t) /\ t.op = "~"
  BY <1>4, PlainParts, TildeMeans DEF ExpandToken, Means, TokenThrows
<1>5. CASE ~IsXRange(t) /\ t.op \notin {"^", "~"}
  <2>1. t.op \in {"", "=", ">", ">=", "<", "<="} /\ Wild # t.major
    BY <1>1, <1>5, PlainParts DEF TokenThrows, Operator
  <2>2. IsRelease(Lower(t)) /\ Parts(Lower(t)) = Base(t)
    BY <2>1, PlainParts DEF IsRelease, Lower, Ver, Parts, Base
  <2>3. (\A c \in ExpandToken(t) : CompareWithOp(v, c)) <=>
            CompareWithOp(v, Comparator(IF t.op \in {"", "="} THEN "==" ELSE t.op, Lower(t)))
    BY <1>5 DEF ExpandToken
  <2> DEFINE w == Lower(t)
  <2>4. IsRelease(w) /\ Parts(w) = Base(t)
    BY <2>2
  <2> HIDE DEF w
  <2>5. CASE t.op \in {"", "="}
    <3>1. Means(Parts(v), t) <=> Parts(v) = Base(t)
      BY <1>1, <1>5, <2>5 DEF Means
    <3>2. (\A c \in ExpandToken(t) : CompareWithOp(v, c)) <=> CompareWithOp(v, Comparator("==", w))
      BY <2>3, <2>5 DEF w
    <3> QED
      BY <2>4, <3>1, <3>2, CompareWithOpReleases
  <2>6. CASE t.op \in {">", ">=", "<", "<="}
    <3>1. (\A c \in ExpandToken(t) : CompareWithOp(v, c)) <=> CompareWithOp(v, Comparator(t.op, w))
      BY <2>3, <2>6 DEF w
    <3>2. /\ t.op = ">" => (Means(Parts(v), t) <=> Precedes(Base(t), Parts(v)))
          /\ t.op = ">=" => (Means(Parts(v), t) <=> ~Precedes(Parts(v), Base(t)))
          /\ t.op = "<" => (Means(Parts(v), t) <=> Precedes(Parts(v), Base(t)))
          /\ t.op = "<=" => (Means(Parts(v), t) <=> ~Precedes(Base(t), Parts(v)))
      BY DEF Means
    <3> QED
      BY <2>4, <2>6, <3>1, <3>2, CompareWithOpReleases
  <2> QED
    BY <2>1, <2>5, <2>6
<1> QED
  BY <1>2, <1>3, <1>4, <1>5

-----------------------------------------------------------------------------
Group(g) == IF g.hyphen THEN g.lo \in Token /\ g.hi \in Token ELSE g.tokens \subseteq Token

(* So does a group, whose comparators must all hold.                       *)
LEMMA GroupMeans ==
    ASSUME NEW v, IsRelease(v), NEW g, Group(g), Final(g), ~GroupThrows(g), NEW i \in BOOLEAN
    PROVE  SatisfiesGroup(v, ExpandGroupToComparators(g), i) <=> MeansGroup(Parts(v), g)
<1> DEFINE all == \A c \in ExpandGroupToComparators(g) : CompareWithOp(v, c)
<1>1. SatisfiesGroup(v, ExpandGroupToComparators(g), i) <=> all
  BY DEF SatisfiesGroup, IsRelease
<1>2. CASE g.hyphen
  <2>1. /\ Plain(g.lo) /\ g.lo.major \in Nat
        /\ Plain(g.hi) /\ g.hi.major \in Nat
    BY <1>2, PlainParts DEF Group, Final, Plain, GroupThrows
  <2>2. /\ IsRelease(Lower(g.lo)) /\ Parts(Lower(g.lo)) = Base(g.lo)
        /\ IsRelease(Lower(g.hi)) /\ Parts(Lower(g.hi)) = Base(g.hi)
    BY <2>1, PlainParts DEF IsRelease, Lower, Ver, Parts, Base
  <2>3. ExpandGroupToComparators(g) = {Comparator(">=", Lower(g.lo)), Comparator("<=", Lower(g.hi))}
    BY <1>2 DEF ExpandGroupToComparators, Hyphen
  <2> QED
    BY <1>1, <1>2, <2>2, <2>3, CompareWithOpReleases DEF MeansGroup
<1>3. CASE ~g.hyphen
  <2>1. all <=> \A t \in g.tokens : \A c \in ExpandToken(t) : CompareWithOp(v, c)
    BY <1>3 DEF ExpandGroupToComparators
  <2>2. \A t \in g.tokens : Plain(t) /\ ~TokenThrows(t)
    BY <1>3 DEF Group, Final, Plain, GroupThrows
  <2> QED
    BY <1>1, <1>3, <2>1, <2>2, TokenMeans DEF MeansGroup
<1> QED
  BY <1>2, <1>3

(* What an answer is made of.                                              *)
AnswerInv ==
    \/ answer = NotAsked
    \/ /\ answer.version \in Version
       /\ answer.requirement \in Requirement /\ answer.includePrerelease \in BOOLEAN
       /\ answer.exit = Exit(answer.version, answer.requirement, answer.includePrerelease)

LEMMA AnswerInductive == AnswerInv /\ [CheckNext]_answer => AnswerInv'
<1> SUFFICES ASSUME AnswerInv, [CheckNext]_answer PROVE AnswerInv'
  OBVIOUS
<1>1. ASSUME NEW v \in Asked, NEW r \in Requirement, NEW i \in BOOLEAN, Check(v, r, i)
      PROVE  AnswerInv'
  BY <1>1, CheckAssumption DEF Check, AnswerInv
<1> QED
  BY <1>1 DEF CheckNext, AnswerInv

(* The ranges mean what their comparators are meant to say, for all        *)
(* versions and ranges there are, not only for those of a run.             *)
LEMMA AnswerMeans == AnswerInv => RangesMean
<1> DEFINE v == answer.version
           requirement == answer.requirement
           i == answer.includePrerelease
<1> SUFFICES ASSUME AnswerInv, answer.exit \in {0, 1}, v.prerelease = <<>>,
                    \A g \in requirement : Final(g)
             PROVE  answer.exit = 0 <=> \/ requirement = {}
                                        \/ \E g \in requirement : MeansGroup(Parts(v), g)
  BY DEF RangesMean
<1>1. /\ v \in Version /\ requirement \in Requirement /\ i \in BOOLEAN
      /\ answer.exit = Exit(v, requirement, i)
  BY DEF AnswerInv, NotAsked
<1>2. IsRelease(v)
  BY <1>1 DEF Version, IsRelease
<1> HIDE DEF v, requirement, i
<1>3. ~Throws(requirement) /\ (answer.exit = 0 <=> Satisfies(v, requirement, i))
  BY <1>1 DEF Exit
<1>4. \A g \in requirement :
          SatisfiesGroup(v, ExpandGroupToComparators(g), i) <=> MeansGroup(Parts(v), g)
  <2> SUFFICES ASSUME NEW g \in requirement
               PROVE  SatisfiesGroup(v, ExpandGroupToComparators(g), i) <=> MeansGroup(Parts(v), g)
    OBVIOUS
  <2>1. Group(g)
    BY <1>1, CheckAssumption DEF Group
  <2>2. ~GroupThrows(g) /\ Final(g)
    BY <1>3 DEF Throws, requirement
  <2> QED
    BY <1>1, <1>2, <2>1, <2>2, GroupMeans
<1> QED
  BY <1>3, <1>4 DEF Satisfies

(* RangesMean: a range without prereleases takes those releases that its   *)
(* tokens mean.                                                            *)
THEOREM RangesAreRight == CheckSpec => []RangesMean
<1>1. CheckInit => AnswerInv
  BY DEF CheckInit, AnswerInv
<1> QED
  BY <1>1, AnswerInductive, AnswerMeans, PTL DEF CheckSpec

-----------------------------------------------------------------------------
(* The order of all versions, prereleases included, as far as the plans    *)
(* rest on it.                                                             *)

(* A set of numbers has a least one.                                       *)
LEMMA LeastNumber ==
    ASSUME NEW T, T \subseteq Nat, T # {}
    PROVE  \E x \in T : \A y \in T : x <= y
<1>1. \A x, y \in Nat : <<x, y>> \in OpToRel(<, Nat) <=> x < y
  BY DEF OpToRel
<1>2. \E x \in T : \A y \in T : ~(<<y, x>> \in OpToRel(<, Nat))
  BY WFMin, NatLessThanWellFounded
<1>3. \E R : /\ \A x, y \in Nat : <<x, y>> \in R <=> x < y
             /\ \E x \in T : \A y \in T : ~(<<y, x>> \in R)
  BY <1>1, <1>2, Zenon
<1>4. PICK R : /\ \A x, y \in Nat : <<x, y>> \in R <=> x < y
               /\ \E x \in T : \A y \in T : ~(<<y, x>> \in R)
  BY <1>3, Zenon
<1>5. PICK x \in T : \A y \in T : ~(<<y, x>> \in R)
  BY <1>4
<1>6. ASSUME NEW y \in T PROVE x <= y
  <2>1. x \in Nat /\ y \in Nat
    OBVIOUS
  <2>2. (<<y, x>> \in R) <=> y < x
    BY <1>4, <2>1, Zenon
  <2>3. ~(<<y, x>> \in R)
    BY <1>5, Zenon
  <2>4. ~(y < x)
    BY <2>2, <2>3, Zenon
  <2> QED
    BY <2>1, <2>4
<1> QED
  BY <1>6

Longer(a, b) == IF Len(a) > Len(b) THEN Len(a) ELSE Len(b)

(* Two prereleases, in either order, differ at the same places, and there  *)
(* in opposite senses.                                                     *)
LEMMA IdentsOpposite ==
    ASSUME NEW a \in Seq(Ident), NEW b \in Seq(Ident), NEW i \in 1 .. Longer(a, b)
    PROVE  /\ CompareIdents(a, b, i) \in {-1, 0, 1}
           /\ CompareIdents(a, b, i) + CompareIdents(b, a, i) = 0
           /\ Differs(a, b, i) <=> Differs(b, a, i)
<1>1. Len(a) \in Nat /\ Len(b) \in Nat /\ i \in Nat /\ (i <= Len(a) \/ i <= Len(b))
  BY DEF Longer
<1>2. CASE i <= Len(a) /\ i <= Len(b)
  <2>1. a[i] \in Ident /\ b[i] \in Ident
    BY <1>1, <1>2
  <2>2. /\ a[i].rank \in Nat /\ b[i].rank \in Nat
        /\ a[i].numeric \in BOOLEAN /\ b[i].numeric \in BOOLEAN
    BY <2>1 DEF Ident
  <2>4. /\ CompareIdents(a, b, i) \in {-1, 0, 1} /\ CompareIdents(b, a, i) \in Int
        /\ CompareIdents(a, b, i) + CompareIdents(b, a, i) = 0
    <3>1. CASE a[i].numeric = b[i].numeric
      <4> DEFINE x == CompareNumbers(a[i].rank, b[i].rank)
                 y == CompareNumbers(b[i].rank, a[i].rank)
      <4>1. CompareIdents(a, b, i) = x /\ CompareIdents(b, a, i) = y
        BY <1>1, <1>2, <3>1 DEF CompareIdents
      <4>2. x \in {-1, 0, 1} /\ y \in {-1, 0, 1} /\ x + y = 0
        BY <2>2 DEF CompareNumbers
      <4> HIDE DEF x, y
      <4> QED
        BY <4>1, <4>2
    <3>2. CASE a[i].numeric # b[i].numeric
      BY <1>1, <1>2, <2>2, <3>2 DEF CompareIdents
    <3> QED
      BY <3>1, <3>2
  <2>5. CompareIdents(a, b, i) # 0 <=> CompareIdents(b, a, i) # 0
    BY <2>4
  <2> QED
    BY <2>4, <2>5 DEF Differs
<1> QED
  BY <1>1, <1>2 DEF CompareIdents, Differs

LEMMA PrereleasesOpposite ==
    ASSUME NEW a \in Seq(Ident), NEW b \in Seq(Ident)
    PROVE  /\ ComparePrerelease(a, b) \in {-1, 0, 1}
           /\ ComparePrerelease(a, b) + ComparePrerelease(b, a) = 0
<1>1. CASE a = <<>> \/ b = <<>>
  BY <1>1 DEF ComparePrerelease
<1>2. CASE a # <<>> /\ b # <<>>
  <2> DEFINE D == {i \in 1 .. Longer(a, b) : Differs(a, b, i)}
             E == {i \in 1 .. Longer(b, a) : Differs(b, a, i)}
  <2>1. Longer(a, b) = Longer(b, a) /\ Longer(a, b) \in Nat
    BY DEF Longer
  <2>2. D = E
    BY <2>1, IdentsOpposite
  <2>3. /\ ComparePrerelease(a, b) = IF D = {} THEN 0 ELSE CompareIdents(a, b, Min(D))
        /\ ComparePrerelease(b, a) = IF E = {} THEN 0 ELSE CompareIdents(b, a, Min(E))
    BY <1>2 DEF ComparePrerelease, Longer
  <2>4. D # {} => Min(D) \in D
    <3>1. D \subseteq Nat
      BY <2>1
    <3> HIDE DEF D
    <3> QED
      BY <3>1, LeastNumber DEF Min
  <2>5. CASE D = {}
    <3> HIDE DEF D, E
    <3>1. ComparePrerelease(a, b) = 0 /\ ComparePrerelease(b, a) = 0
      BY <2>2, <2>3, <2>5, Zenon
    <3> QED
      BY <3>1
  <2>6. CASE D # {}
    <3>1. Min(D) \in 1 .. Longer(a, b)
      BY <2>4, <2>6
    <3> HIDE DEF D, E
    <3> QED
      BY <2>2, <2>3, <2>6, <3>1, IdentsOpposite
  <2> QED
    BY <2>5, <2>6
<1> QED
  BY <1>1, <1>2

(* Numbers(v, w): v is above w by its numbers.                             *)
Above(v, w) ==
    \/ v.major > w.major
    \/ v.major = w.major /\ v.minor > w.minor
    \/ v.major = w.major /\ v.minor = w.minor /\ v.patch > w.patch

(* No version is above another that is above it, or as new.                *)
LEMMA CompareOpposite ==
    ASSUME NEW v \in Version, NEW w \in Version
    PROVE  /\ Compare(v, w) \in {-1, 0, 1}
           /\ Compare(v, w) + Compare(w, v) = 0
           /\ Above(v, w) => Compare(v, w) = 1
           /\ Compare(v, w) = 1 => ~Above(w, v)
<1>1. /\ v.major \in Nat /\ v.minor \in Nat /\ v.patch \in Nat
      /\ w.major \in Nat /\ w.minor \in Nat /\ w.patch \in Nat
  BY DEF Version
<1>2. /\ ComparePrerelease(v.prerelease, w.prerelease) \in {-1, 0, 1}
      /\ ComparePrerelease(v.prerelease, w.prerelease)
             + ComparePrerelease(w.prerelease, v.prerelease) = 0
  BY PrereleasesOpposite DEF Version
<1> QED
  BY <1>1, <1>2 DEF Compare, CompareNumbers, Above

-----------------------------------------------------------------------------
(* The core comes to rest.                                                 *)

(* What may still be installed after the newest that was allowed might     *)
(* have been installed before it, and would have been the newer of the two.*)
LEMMA NothingNewer ==
    ASSUME NEW tags, tags \subseteq Version, NEW v \in Version, NEW dev \in BOOLEAN,
           NEW w \in LatestAllowed(tags, v, dev)
    PROVE  LatestAllowed(tags, w, dev) = {}
<1>1. /\ w \in Version /\ w \in tags /\ Allowed(w, v, dev)
      /\ \A x \in tags : Allowed(x, v, dev) => Compare(w, x) >= 0
  BY DEF LatestAllowed
<1>2. SUFFICES ASSUME NEW x \in tags, Allowed(x, w, dev) PROVE FALSE
  BY DEF LatestAllowed
<1>3. /\ v.major \in Nat /\ v.minor \in Nat /\ v.patch \in Nat
      /\ w.major \in Nat /\ w.minor \in Nat /\ w.patch \in Nat
      /\ x \in Version /\ x.major \in Nat /\ x.minor \in Nat /\ x.patch \in Nat
  BY <1>1 DEF Version
<1>4. Compare(w, v) = 1 /\ Compare(x, w) = 1
  BY <1>1, <1>2, <1>3, CompareOpposite DEF Allowed, Newer
<1>5. ~Above(v, w) /\ ~Above(w, x)
  BY <1>1, <1>3, <1>4, CompareOpposite
<1>6. Above(w, v)
  BY <1>1, <1>3, <1>5 DEF Allowed, Above
<1>7. Above(x, v)
  BY <1>3, <1>5, <1>6 DEF Above
<1>8. Allowed(x, v, dev)
  <2>1. Newer(x, v)
    BY <1>3, <1>7, CompareOpposite DEF Newer
  <2>2. x.major > v.major \/ x.minor > v.minor \/ (dev /\ x.patch > v.patch)
    BY <1>1, <1>2, <1>3, <1>5, <1>6 DEF Above, Allowed
  <2> QED
    BY <2>1, <2>2 DEF Allowed
<1> QED
  BY <1>1, <1>3, <1>4, <1>8, CompareOpposite

SettleInv ==
    /\ released \subseteq CoreTag /\ core \in released /\ devBuilds \in BOOLEAN
    /\ moves \in 0 .. 2
    /\ moves >= 1 => core \notin Yanked
    /\ moves = 2 => UpdateTarget = {}

LEMMA SettleInit == Init => SettleInv
BY DEF Init, SettleInv

LEMMA SettleNext ==
    ASSUME CoreTag \subseteq Version
    PROVE  SettleInv /\ [Next]_vars => SettleInv'
<1> SUFFICES ASSUME SettleInv, [Next]_vars PROVE SettleInv'
  OBVIOUS
<1>0. core \notin Yanked => Recommended = {}
  BY DEF Recommended, Yanked
<1>1. ASSUME NEW v \in released, NEW force, NEW readable, Event, UpdateCore(v, force, readable)
      PROVE  SettleInv'
  BY <1>1 DEF SettleInv, Event, UpdateCore, repo
<1>2. ASSUME NEW force, NEW readable, Update(force, readable) PROVE SettleInv'
  <2>1. CASE UpdatePlugins(force, readable) /\ UNCHANGED moves
    BY <2>1 DEF SettleInv, UpdatePlugins, repo, UpdateTarget, Recommended, Yanked
  <2>2. ASSUME NEW v \in UpdateTarget, UpdateCore(v, force, readable), moves' = moves + 1
        PROVE  SettleInv'
    <3>1. core' = v /\ UNCHANGED <<released, takebacks, devBuilds>>
      BY <2>2 DEF UpdateCore, repo
    <3>2. v \in released \ Yanked
      <4>1. Recommended \subseteq released \ Yanked
        BY DEF Recommended
      <4>2. LatestAllowed(released \ Yanked, core, devBuilds) \subseteq released \ Yanked
        BY DEF LatestAllowed
      <4> QED
        BY <2>2, <4>1, <4>2 DEF UpdateTarget
    <3>3. moves \in {0, 1}
      BY <2>2 DEF SettleInv
    <3>4. moves = 1 => v \in LatestAllowed(released \ Yanked, core, devBuilds)
      BY <1>0, <2>2 DEF SettleInv, UpdateTarget
    <3>5. moves = 1 => LatestAllowed(released \ Yanked, v, devBuilds) = {}
      BY <3>4, NothingNewer DEF SettleInv
    <3>6. Yanked' = Yanked
      BY <3>1 DEF Yanked
    <3>7. Recommended' = {}
      BY <3>1, <3>2, <3>6 DEF Recommended, Yanked
    <3>8. moves' = 2 => UpdateTarget' = {}
      BY <2>2, <3>1, <3>3, <3>5, <3>6, <3>7 DEF UpdateTarget
    <3> QED
      BY <2>2, <3>1, <3>2, <3>3, <3>6, <3>8 DEF SettleInv
  <2> QED
    BY <1>2, <2>1, <2>2 DEF Update
<1>3. ASSUME NEW force, Downgrade(force) PROVE SettleInv'
  BY <1>1, <1>3 DEF Downgrade, DowngradeTarget
<1>4. ASSUME NEW force, NEW v, Target(v, force) PROVE SettleInv'
  BY <1>1, <1>4 DEF Target
<1>5. ASSUME NEW force, NEW pin, InstallPlugin(pin, force) PROVE SettleInv'
  BY <1>5 DEF SettleInv, InstallPlugin, Event, repo
<1>6. ASSUME NEW what, Edit(what) PROVE SettleInv'
  BY <1>6 DEF SettleInv, Edit, Event, repo
<1>7. ASSUME NEW v, NEW status, NEW recommend, TakeBack(v, status, recommend) PROVE SettleInv'
  BY <1>7 DEF SettleInv, TakeBack, Event
<1>8. ASSUME NEW v \in CoreTag, Release(v) PROVE SettleInv'
  BY <1>8 DEF SettleInv, Release, Event
<1>9. ASSUME NEW listed, NEW pin, Relist(listed, pin) PROVE SettleInv'
  BY <1>9 DEF SettleInv, Relist, Event
<1>10. CASE UNCHANGED vars
  BY <1>10 DEF SettleInv, vars, UpdateTarget, Recommended, Yanked
<1> QED
  BY <1>2, <1>3, <1>4, <1>5, <1>6, <1>7, <1>8, <1>9, <1>10 DEF Next, Runs

(* Between two events the core moves twice at most: back from a tag that   *)
(* was taken back, and on to the newest.                                   *)
THEOREM CoreSettles == ASSUME CoreTag \subseteq Version PROVE Spec => []UpdatesSettle
<1>1. SettleInv => UpdatesSettle
  BY DEF SettleInv, UpdatesSettle
<1> QED
  BY <1>1, SettleInit, SettleNext, PTL DEF Spec

-----------------------------------------------------------------------------
(* The plugin.                                                             *)

(* Whatever was decided of the plugin, one that was searched for goes with *)
(* the core there is when the run is over.                                 *)
LEMMA ApplyFits ==
    ASSUME PluginFits, NEW ctx, NEW coreUpdate \in BOOLEAN,
           ApplyPlugin(PlanPlugin(ctx), ctx, coreUpdate), ~coreUpdate => core' = core
    PROVE  PluginFits'
<1> DEFINE d == PlanPlugin(ctx)
<1>1. SUFFICES ASSUME why' = "fits" PROVE \A t \in plugin' : ManifestCompatible(t, core')
  BY DEF PluginFits
<1>2. CASE d.action \in {"add", "update"}
  <2>1. plugin' = d.tag /\ ctx.pin \cup line.pin = {} /\ ctx.core = core'
    BY <1>1, <1>2 DEF ApplyPlugin
  <2>2. d.tag = Search(ctx.readable, ctx.core)
    BY <1>2, <2>1 DEF PlanPlugin, Planned, Decide
  <2> QED
    BY <2>1, <2>2 DEF Search
<1>3. CASE d.action \notin {"add", "update"}
  <2>1. why = "fits" /\ core' = core /\ (plugin' = plugin \/ plugin' = {})
    BY <1>1, <1>3 DEF ApplyPlugin
  <2> QED
    BY <2>1 DEF PluginFits
<1> QED
  BY <1>2, <1>3

(* In every run, and in nothing else, the plugin is planned for.           *)
LEMMA PluginSteps ==
    ASSUME NEW force \in BOOLEAN, Runs(force)
    PROVE  \E ctx : \E coreUpdate \in BOOLEAN :
              /\ ctx.force = force
              /\ ApplyPlugin(PlanPlugin(ctx), ctx, coreUpdate)
              /\ ~coreUpdate => core' = core
<1>1. ASSUME NEW v, NEW readable, UpdateCore(v, force, readable)
      PROVE  \E ctx : ctx.force = force /\ ApplyPlugin(PlanPlugin(ctx), ctx, TRUE)
  BY <1>1 DEF UpdateCore, Context
<1>2. ASSUME NEW readable, UpdatePlugins(force, readable)
      PROVE  \E ctx : ctx.force = force /\ core' = core /\ ApplyPlugin(PlanPlugin(ctx), ctx, FALSE)
  BY <1>2 DEF UpdatePlugins, Context
<1>3. ASSUME NEW pin, InstallPlugin(pin, force)
      PROVE  \E ctx : ctx.force = force /\ core' = core /\ ApplyPlugin(PlanPlugin(ctx), ctx, FALSE)
  BY <1>3 DEF InstallPlugin, Context
<1>4. CASE \E readable \in SUBSET PluginTag : Update(force, readable)
  BY <1>1, <1>2, <1>4 DEF Update
<1>5. CASE Downgrade(force)
  BY <1>1, <1>5 DEF Downgrade
<1>6. CASE \E v \in CoreTag : Target(v, force)
  BY <1>1, <1>6 DEF Target
<1>7. CASE \E pin \in {{}} \cup {{t} : t \in PluginTag} : InstallPlugin(pin, force)
  BY <1>3, <1>7
<1> QED
  BY <1>4, <1>5, <1>6, <1>7 DEF Runs

(* What else happens leaves the plugin and the core as they are.           *)
LEMMA OtherSteps ==
    ASSUME [Next]_vars, ~ \E force \in BOOLEAN : Runs(force)
    PROVE  /\ UNCHANGED <<core, plugin, known, why, delisted>>
           /\ "plugin" \in edited' => "plugin" \in edited \/ plugin # {}
           /\ edited \subseteq edited'
<1>1. ASSUME NEW what \in {"core", "plugin"}, Edit(what)
      PROVE  /\ UNCHANGED <<core, plugin, known, why, delisted>>
             /\ "plugin" \in edited' => "plugin" \in edited \/ plugin # {}
             /\ edited \subseteq edited'
  BY <1>1 DEF Edit
<1>2. ASSUME \/ \E v \in CoreTag : Release(v)
             \/ \E v, recommend : \/ TakeBack(v, "superseded", recommend)
                                  \/ TakeBack(v, "withdrawn", recommend)
             \/ \E listed, pin : Relist(listed, pin)
             \/ UNCHANGED vars
      PROVE  UNCHANGED <<core, plugin, known, edited, why, delisted>>
  BY <1>2 DEF Release, TakeBack, Relist, vars
<1>3. \/ \E what \in {"core", "plugin"} : Edit(what)
      \/ \E v \in CoreTag : Release(v)
      \/ \E v, recommend : \/ TakeBack(v, "superseded", recommend)
                           \/ TakeBack(v, "withdrawn", recommend)
      \/ \E listed, pin : Relist(listed, pin)
      \/ UNCHANGED vars
  BY Zenon DEF Next
<1> QED
  BY <1>1, <1>2, <1>3

(* A plugin that was searched for goes with the installed core.            *)
THEOREM PluginsFit == Spec => []PluginFits
<1>1. Init => PluginFits
  BY DEF Init, PluginFits
<1>2. PluginFits /\ [Next]_vars => PluginFits'
  <2> SUFFICES ASSUME PluginFits, [Next]_vars PROVE PluginFits'
    OBVIOUS
  <2>1. CASE \E force \in BOOLEAN : Runs(force)
    BY <2>1, PluginSteps, ApplyFits
  <2>2. CASE ~ \E force \in BOOLEAN : Runs(force)
    BY <2>2, OtherSteps DEF PluginFits
  <2> QED
    BY <2>1, <2>2
<1> QED
  BY <1>1, <1>2, PTL DEF Spec

(* The hashes are there for whatever may have been edited, except after an *)
(* update of the core that found the plugin off the list.                  *)
HashesAreKnown ==
    /\ "plugin" \in edited => plugin # {}
    /\ plugin # {} /\ ~delisted => known

(* A plan that is not forced leaves an edited plugin alone if its hashes   *)
(* are known.                                                              *)
LEMMA ApplyKnown ==
    ASSUME HashesAreKnown, NEW ctx, NEW coreUpdate \in BOOLEAN,
           ApplyPlugin(PlanPlugin(ctx), ctx, coreUpdate)
    PROVE  /\ HashesAreKnown'
           /\ "plugin" \in edited /\ ~delisted /\ ~ctx.force => "plugin" \in edited'
<1> DEFINE d == PlanPlugin(ctx)
<1>1. HashesAreKnown'
  <2>1. CASE d.action \in {"add", "update"}
    BY <2>1 DEF HashesAreKnown, ApplyPlugin
  <2>2. CASE d.action \notin {"add", "update"}
    BY <2>2 DEF HashesAreKnown, ApplyPlugin
  <2> QED
    BY <2>1, <2>2
<1>2. ASSUME "plugin" \in edited, ~delisted, ~ctx.force PROVE "plugin" \in edited'
  <2>1. plugin # {} /\ Edited(ctx.force)
    BY <1>2 DEF HashesAreKnown, Edited
  <2>2. d.action \in {"none", "skip", "leave"}
    BY <2>1 DEF PlanPlugin, Planned, Decide
  <2> QED
    BY <1>2, <2>2 DEF ApplyPlugin
<1> QED
  BY <1>1, <1>2

(* No run that is not forced undoes what the user changed in the plugin,   *)
(* unless an update of the core has forgotten the plugin's hashes.         *)
THEOREM EditsKept == Spec => EditsAreKept
<1>1. Init => HashesAreKnown
  BY DEF Init, HashesAreKnown
<1>2. HashesAreKnown /\ [Next]_vars
         => /\ HashesAreKnown'
            /\ [("plugin" \in edited /\ ~delisted) /\ Runs(FALSE) => "plugin" \in edited']_vars
  <2> SUFFICES ASSUME HashesAreKnown, [Next]_vars
               PROVE  /\ HashesAreKnown'
                      /\ ("plugin" \in edited /\ ~delisted) /\ Runs(FALSE) => "plugin" \in edited'
    OBVIOUS
  <2>1. CASE \E force \in BOOLEAN : Runs(force)
    BY <2>1, PluginSteps, ApplyKnown
  <2>2. CASE ~ \E force \in BOOLEAN : Runs(force)
    BY <2>2, OtherSteps DEF HashesAreKnown
  <2>3. Runs(FALSE) => \E force \in BOOLEAN : Runs(force)
    OBVIOUS
  <2> QED
    BY <2>1, <2>2, <2>3, PluginSteps, ApplyKnown
<1> QED
  BY <1>1, <1>2, PTL DEF Spec, EditsAreKept

-------------------------------------------------------------------------------
(* The grants to identify.                                                 *)

LEMMA BucketType == \A s \in Queue!Shard : Queue!Bucket(s) \in Queue!Buckets
<1>1. ASSUME NEW s \in Nat, NEW m \in Nat \ {0} PROVE s % m \in 0..(m - 1)
  OBVIOUS
<1> QED
  BY <1>1, GrantAssumption DEF Queue!Shard, Queue!Bucket, Queue!Buckets

CallerState == [shards : Seq(Queue!Shard), pc : {"idle", "next", "wait"}, wait : 0..GrantInterval]

LEMMA LeftType ==
    ASSUME NEW shards \in Seq(Queue!Shard)
    PROVE  /\ Queue!Left(shards) \in CallerState
           /\ Queue!Left(shards).pc = "idle" <=> Queue!Left(shards).shards = <<>>
           /\ Queue!Left(shards).pc # "wait"
  BY GrantAssumption DEF Queue!Left, CallerState

(* A caller that asks for a shard names a bucket with it.                  *)
LEMMA FirstType ==
    ASSUME Queue!TypeOK, NEW c \in Caller, g_waiting[c].pc # "idle"
    PROVE  /\ Queue!First(c) \in Queue!Buckets
           /\ Tail(g_waiting[c].shards) \in Seq(Queue!Shard)
<1>1. g_waiting[c].shards \in Seq(Queue!Shard) /\ g_waiting[c].shards # <<>>
  BY DEF Queue!TypeOK
<1>2. Head(g_waiting[c].shards) \in Queue!Shard /\ Tail(g_waiting[c].shards) \in Seq(Queue!Shard)
  BY <1>1
<1> QED
  BY <1>2, BucketType DEF Queue!First

(* What a grant, or one that fails, does to the state.                     *)
LEMMA TakingType ==
    ASSUME Queue!TypeOK, NEW c \in Caller, Queue!Turn(c), g_bucketNextIn' = Queue!Taken(Queue!First(c)),
           g_since' \in {g_since, [g_since EXCEPT ![Queue!First(c)][c] = 0]}, Queue!Meets(c)
    PROVE  /\ Queue!First(c) \in Queue!Buckets /\ Tail(g_waiting[c].shards) \in Seq(Queue!Shard)
           /\ g_bucketNextIn' \in [Queue!Buckets -> -GrantInterval..GrantInterval]
           /\ g_bucketNextIn'[Queue!First(c)] = GrantInterval
           /\ \A b \in Queue!Buckets \ {Queue!First(c)} : g_bucketNextIn'[b] = g_bucketNextIn[b]
           /\ g_since' \in [Queue!Buckets -> [Caller -> 0..GrantInterval]]
           /\ \A b \in Queue!Buckets, d \in Caller :
                 b # Queue!First(c) \/ d # c => g_since'[b][d] = g_since[b][d]
           /\ g_overlap' \in BOOLEAN
<1>1. Queue!First(c) \in Queue!Buckets /\ Tail(g_waiting[c].shards) \in Seq(Queue!Shard)
  BY FirstType DEF Queue!Turn
<1>2. g_bucketNextIn \in [Queue!Buckets -> -GrantInterval..GrantInterval] /\ GrantInterval \in -GrantInterval..GrantInterval
  BY GrantAssumption DEF Queue!TypeOK
<1>3. /\ g_bucketNextIn' \in [Queue!Buckets -> -GrantInterval..GrantInterval]
      /\ g_bucketNextIn'[Queue!First(c)] = GrantInterval
      /\ \A b \in Queue!Buckets \ {Queue!First(c)} : g_bucketNextIn'[b] = g_bucketNextIn[b]
  BY <1>1, <1>2 DEF Queue!Taken
<1>4. /\ g_since' \in [Queue!Buckets -> [Caller -> 0..GrantInterval]]
      /\ \A b \in Queue!Buckets, d \in Caller : b # Queue!First(c) \/ d # c => g_since'[b][d] = g_since[b][d]
  <2>1. g_since \in [Queue!Buckets -> [Caller -> 0..GrantInterval]] /\ 0 \in 0..GrantInterval
    BY GrantAssumption DEF Queue!TypeOK
  <2>2. CASE g_since' = g_since
    BY ONLY <2>1, <2>2
  <2>3. CASE g_since' = [g_since EXCEPT ![Queue!First(c)][c] = 0]
    <3> DEFINE f == [g_since[Queue!First(c)] EXCEPT ![c] = 0]
    <3>1. f \in [Caller -> 0..GrantInterval] /\ \A d \in Caller \ {c} : f[d] = g_since[Queue!First(c)][d]
      BY <1>1, <2>1
    <3>2. g_since' = [g_since EXCEPT ![Queue!First(c)] = f]
      BY ONLY <2>3
    <3> HIDE DEF f
    <3> QED
      BY ONLY <1>1, <2>1, <3>1, <3>2
  <2> QED
    BY <2>2, <2>3
<1> QED
  BY <1>1, <1>3, <1>4 DEF Queue!Meets, Queue!TypeOK

(* The state has the shapes TypeOK says.                                   *)
LEMMA QueueTypeCorrect == Queue!Spec => []Queue!TypeOK
<1>1. Queue!Init => Queue!TypeOK
  <2> SUFFICES ASSUME Queue!Init PROVE Queue!TypeOK
    OBVIOUS
  <2>1. -GrantInterval \in -GrantInterval..GrantInterval /\ GrantInterval \in 0..GrantInterval
    BY GrantAssumption
  <2>2. <<>> \in Seq(Queue!Shard)
    OBVIOUS
  <2> QED
    BY <2>1, <2>2, LeftType DEF Queue!Init, Queue!TypeOK, CallerState
<1>2. Queue!TypeOK /\ [Queue!Next]_(Queue!vars) => Queue!TypeOK'
  <2> SUFFICES ASSUME Queue!TypeOK, [Queue!Next]_(Queue!vars) PROVE Queue!TypeOK'
    OBVIOUS
  <2>1. ASSUME NEW c \in Caller, NEW shards \in Lists, Queue!Ask(c, shards) PROVE Queue!TypeOK'
    <3>1. shards \in Seq(Queue!Shard)
      BY GrantAssumption DEF Queue!Shard
    <3> QED
      BY <2>1, <3>1, LeftType DEF Queue!Ask, Queue!TypeOK, CallerState
  <2>2. ASSUME NEW c \in Caller, Queue!Wait(c) PROVE Queue!TypeOK'
    <3>1. Queue!First(c) \in Queue!Buckets
      BY <2>2, FirstType DEF Queue!Wait
    <3>2. g_bucketNextIn[Queue!First(c)] \in 0..GrantInterval
      BY <2>2, <3>1, GrantAssumption DEF Queue!Wait, Queue!TypeOK
    <3> QED
      BY <2>2, <3>2 DEF Queue!Wait, Queue!TypeOK
  <2>3. ASSUME NEW c \in Caller, Queue!Grant(c) PROVE Queue!TypeOK'
    <3>1. /\ Tail(g_waiting[c].shards) \in Seq(Queue!Shard)
          /\ g_bucketNextIn' \in [Queue!Buckets -> -GrantInterval..GrantInterval]
          /\ g_since' \in [Queue!Buckets -> [Caller -> 0..GrantInterval]]
          /\ g_overlap' \in BOOLEAN
      BY <2>3, TakingType DEF Queue!Grant
    <3> QED
      BY <2>3, <3>1, LeftType DEF Queue!Grant, Queue!TypeOK, CallerState
  <2>4. ASSUME NEW c \in Caller, Queue!GrantFails(c) PROVE Queue!TypeOK'
    <3>1. /\ g_bucketNextIn' \in [Queue!Buckets -> -GrantInterval..GrantInterval]
          /\ g_since' \in [Queue!Buckets -> [Caller -> 0..GrantInterval]]
          /\ g_overlap' \in BOOLEAN
      BY <2>4, TakingType DEF Queue!GrantFails
    <3>2. <<>> \in Seq(Queue!Shard)
      OBVIOUS
    <3> QED
      BY <2>4, <3>1, <3>2, LeftType DEF Queue!GrantFails, Queue!TypeOK, CallerState
  <2>5. ASSUME Queue!Tick PROVE Queue!TypeOK'
    <3>1. g_bucketNextIn' \in [Queue!Buckets -> -GrantInterval..GrantInterval]
      BY <2>5, GrantAssumption DEF Queue!Tick, Queue!TypeOK
    <3>2. /\ g_waiting' \in [Caller -> CallerState]
          /\ \A c \in Caller : g_waiting'[c].pc = "idle" <=> g_waiting'[c].shards = <<>>
      <4>1. ASSUME NEW c \in Caller
            PROVE  /\ [g_waiting[c] EXCEPT !.wait = IF @ > 0 THEN @ - 1 ELSE 0] \in CallerState
                   /\ [g_waiting[c] EXCEPT !.wait = IF @ > 0 THEN @ - 1 ELSE 0].pc = g_waiting[c].pc
                   /\ [g_waiting[c] EXCEPT !.wait = IF @ > 0 THEN @ - 1 ELSE 0].shards
                         = g_waiting[c].shards
        <5>1. g_waiting[c] \in CallerState
          BY DEF Queue!TypeOK, CallerState
        <5>2. (IF g_waiting[c].wait > 0 THEN g_waiting[c].wait - 1 ELSE 0) \in 0..GrantInterval
          BY <5>1, GrantAssumption DEF CallerState
        <5> QED
          BY <5>1, <5>2 DEF CallerState
      <4> QED
        BY <2>5, <4>1 DEF Queue!Tick, Queue!TypeOK
    <3>3. g_since' \in [Queue!Buckets -> [Caller -> 0..GrantInterval]] /\ g_overlap' \in BOOLEAN
      BY <2>5, GrantAssumption DEF Queue!Tick, Queue!TypeOK
    <3> QED
      BY <3>1, <3>2, <3>3 DEF Queue!TypeOK, CallerState
  <2>6. ASSUME UNCHANGED Queue!vars PROVE Queue!TypeOK'
    BY <2>6 DEF Queue!vars, Queue!TypeOK
  <2> QED
    BY <2>1, <2>2, <2>3, <2>4, <2>5, <2>6 DEF Queue!Next
<1> QED
  BY <1>1, <1>2, PTL DEF Queue!Spec

-------------------------------------------------------------------------------
(* A grant that lies back ago, and what is left of it when w has passed.   *)
Rested(ago, w) == ago = GrantInterval \/ ago + w >= GrantInterval

(* A bucket is taken for an interval from every grant of it on.            *)
BucketsRest == \A b \in Queue!Buckets, d \in Caller : Rested(g_since[b][d], g_bucketNextIn[b])

(* So a wait, found out once, covers the grants the caller itself was      *)
(* given, and those of the others unless one waited beside it.             *)
WaitsRest ==
    \A c, d \in Caller : g_waiting[c].pc = "wait" /\ (d = c \/ ~g_overlap) =>
        Rested(g_since[Queue!First(c)][d], g_waiting[c].wait)

RestInv == BucketsRest /\ WaitsRest

(* A grant, or one that fails, after which its caller does not wait.       *)
LEMMA TakingRests ==
    ASSUME Queue!TypeOK, RestInv, NEW c \in Caller, Queue!Turn(c), g_bucketNextIn' = Queue!Taken(Queue!First(c)),
           g_since' \in {g_since, [g_since EXCEPT ![Queue!First(c)][c] = 0]}, Queue!Meets(c),
           NEW x \in CallerState, x.pc # "wait", g_waiting' = [g_waiting EXCEPT ![c] = x]
    PROVE  RestInv'
<1>1. /\ Queue!First(c) \in Queue!Buckets
      /\ g_bucketNextIn'[Queue!First(c)] = GrantInterval
      /\ \A b \in Queue!Buckets \ {Queue!First(c)} : g_bucketNextIn'[b] = g_bucketNextIn[b]
      /\ g_since' \in [Queue!Buckets -> [Caller -> 0..GrantInterval]]
      /\ \A b \in Queue!Buckets, d \in Caller : b # Queue!First(c) \/ d # c => g_since'[b][d] = g_since[b][d]
  BY TakingType
<1>2. BucketsRest'
  <2> SUFFICES ASSUME NEW b \in Queue!Buckets, NEW d \in Caller
               PROVE  Rested(g_since[b][d], g_bucketNextIn[b])'
    BY DEF BucketsRest
  <2>1. CASE b = Queue!First(c)
    <3>1. g_since'[b][d] \in 0..GrantInterval /\ g_bucketNextIn'[b] = GrantInterval
      BY <1>1, <2>1
    <3> QED
      BY <3>1, GrantAssumption DEF Rested
  <2>2. CASE b # Queue!First(c)
    <3>1. g_since'[b][d] = g_since[b][d] /\ g_bucketNextIn'[b] = g_bucketNextIn[b]
      BY <1>1, <2>2
    <3> QED
      BY <3>1 DEF RestInv, BucketsRest, Rested
  <2> QED
    BY <2>1, <2>2
<1>3. WaitsRest'
  <2> SUFFICES ASSUME NEW e \in Caller, NEW d \in Caller,
                      (g_waiting[e].pc = "wait")', (d = e \/ ~g_overlap)'
               PROVE  Rested(g_since[Queue!First(e)][d], g_waiting[e].wait)'
    BY DEF WaitsRest
  <2>1. e # c /\ g_waiting'[e] = g_waiting[e] /\ g_waiting[e].pc = "wait"
    BY DEF Queue!TypeOK
  <2>2. Queue!First(e)' = Queue!First(e) /\ Queue!First(e) \in Queue!Buckets
    BY <2>1, FirstType DEF Queue!First
  <2>3. d = e \/ (~g_overlap /\ Queue!First(e) # Queue!First(c))
    BY <2>1 DEF Queue!Meets
  <2>4. g_since'[Queue!First(e)][d] = g_since[Queue!First(e)][d]
    BY <1>1, <2>1, <2>2, <2>3
  <2>5. Rested(g_since[Queue!First(e)][d], g_waiting[e].wait)
    BY <2>1, <2>3 DEF RestInv, WaitsRest
  <2> QED
    BY <2>1, <2>2, <2>4, <2>5 DEF Rested
<1> QED
  BY <1>2, <1>3 DEF RestInv

LEMMA RestInductive == Queue!TypeOK /\ RestInv /\ [Queue!Next]_(Queue!vars) => RestInv'
<1> SUFFICES ASSUME Queue!TypeOK, RestInv, [Queue!Next]_(Queue!vars) PROVE RestInv'
  OBVIOUS
<1>1. ASSUME NEW c \in Caller, NEW shards \in Lists, Queue!Ask(c, shards) PROVE RestInv'
  <2>1. Queue!Left(shards).pc # "wait"
    BY DEF Queue!Left
  <2>2. \A e \in Caller : g_waiting'[e].pc = "wait" => g_waiting'[e] = g_waiting[e]
    BY <1>1, <2>1 DEF Queue!Ask, Queue!TypeOK
  <2> QED
    BY <1>1, <2>2 DEF Queue!Ask, RestInv, BucketsRest, WaitsRest, Rested, Queue!First
<1>2. ASSUME NEW c \in Caller, Queue!Wait(c) PROVE RestInv'
  <2>1. Queue!First(c) \in Queue!Buckets
    BY <1>2, FirstType DEF Queue!Wait
  <2>2. /\ g_waiting'[c].wait = g_bucketNextIn[Queue!First(c)] /\ g_waiting'[c].shards = g_waiting[c].shards
        /\ \A e \in Caller \ {c} : g_waiting'[e] = g_waiting[e]
    BY <1>2 DEF Queue!Wait, Queue!TypeOK
  <2>3. WaitsRest'
    <3> SUFFICES ASSUME NEW e \in Caller, NEW d \in Caller,
                        (g_waiting[e].pc = "wait")', (d = e \/ ~g_overlap)'
                 PROVE  Rested(g_since[Queue!First(e)][d], g_waiting[e].wait)'
      BY DEF WaitsRest
    <3>1. Queue!First(e)' = Queue!First(e) /\ g_since' = g_since /\ g_overlap' = g_overlap
      BY <1>2, <2>2 DEF Queue!Wait, Queue!First
    <3>2. CASE e = c
      BY <2>1, <2>2, <3>1, <3>2 DEF RestInv, BucketsRest, Rested
    <3>3. CASE e # c
      BY <2>2, <3>1, <3>3 DEF RestInv, WaitsRest, Rested
    <3> QED
      BY <3>2, <3>3
  <2> QED
    BY <1>2, <2>3 DEF Queue!Wait, RestInv, BucketsRest, Rested
<1>3. ASSUME NEW c \in Caller, Queue!Grant(c) PROVE RestInv'
  <2>1. Tail(g_waiting[c].shards) \in Seq(Queue!Shard)
    BY <1>3, FirstType DEF Queue!Grant, Queue!Turn
  <2> QED
    BY <1>3, <2>1, LeftType, TakingRests DEF Queue!Grant
<1>4. ASSUME NEW c \in Caller, Queue!GrantFails(c) PROVE RestInv'
  <2>1. <<>> \in Seq(Queue!Shard)
    OBVIOUS
  <2> QED
    BY <1>4, <2>1, LeftType, TakingRests DEF Queue!GrantFails
<1>5. ASSUME Queue!Tick PROVE RestInv'
  <2>1. BucketsRest'
    <3> SUFFICES ASSUME NEW b \in Queue!Buckets, NEW d \in Caller
                 PROVE  Rested(g_since[b][d], g_bucketNextIn[b])'
      BY DEF BucketsRest
    <3>1. /\ g_since[b][d] \in 0..GrantInterval /\ g_bucketNextIn[b] \in -GrantInterval..GrantInterval
          /\ Rested(g_since[b][d], g_bucketNextIn[b])
      BY DEF Queue!TypeOK, RestInv, BucketsRest
    <3>2. /\ g_since'[b][d] = IF g_since[b][d] < GrantInterval THEN g_since[b][d] + 1 ELSE GrantInterval
          /\ g_bucketNextIn'[b] = IF g_bucketNextIn[b] > -GrantInterval THEN g_bucketNextIn[b] - 1
                                ELSE -GrantInterval
      BY <1>5 DEF Queue!Tick
    <3> QED
      BY <3>1, <3>2, GrantAssumption DEF Rested
  <2>2. WaitsRest'
    <3> SUFFICES ASSUME NEW e \in Caller, NEW d \in Caller,
                        (g_waiting[e].pc = "wait")', (d = e \/ ~g_overlap)'
                 PROVE  Rested(g_since[Queue!First(e)][d], g_waiting[e].wait)'
      BY DEF WaitsRest
    <3>1. g_waiting[e] \in CallerState
      BY DEF Queue!TypeOK, CallerState
    <3>2. /\ g_waiting'[e].shards = g_waiting[e].shards /\ g_waiting'[e].pc = g_waiting[e].pc
          /\ g_waiting'[e].wait = IF g_waiting[e].wait > 0 THEN g_waiting[e].wait - 1 ELSE 0
      BY <1>5, <3>1 DEF Queue!Tick, CallerState
    <3>3. g_waiting[e].pc = "wait" /\ (d = e \/ ~g_overlap)
      BY <1>5, <3>2 DEF Queue!Tick
    <3>4. Queue!First(e) \in Queue!Buckets /\ Queue!First(e)' = Queue!First(e)
      BY <3>2, <3>3, FirstType DEF Queue!First
    <3> DEFINE b == Queue!First(e)
    <3>5. g_since'[b][d] = IF g_since[b][d] < GrantInterval THEN g_since[b][d] + 1 ELSE GrantInterval
      BY <1>5, <3>4 DEF Queue!Tick
    <3>6. g_since[b][d] \in 0..GrantInterval /\ Rested(g_since[b][d], g_waiting[e].wait)
      BY <3>3, <3>4 DEF Queue!TypeOK, RestInv, WaitsRest
    <3> HIDE DEF b
    <3>7. Rested(g_since'[b][d], g_waiting'[e].wait)
      BY <3>1, <3>2, <3>5, <3>6, GrantAssumption DEF Rested, CallerState
    <3> QED
      BY <3>4, <3>7 DEF b, Rested
  <2> QED
    BY <2>1, <2>2 DEF RestInv
<1>6. ASSUME UNCHANGED Queue!vars PROVE RestInv'
  BY <1>6 DEF Queue!vars, RestInv, BucketsRest, WaitsRest, Rested, Queue!First
<1> QED
  BY <1>1, <1>2, <1>3, <1>4, <1>5, <1>6 DEF Queue!Next

LEMMA RestAlways == Queue!Spec => [](Queue!TypeOK /\ RestInv)
<1>1. Queue!Init => RestInv
  BY DEF Queue!Init, RestInv, BucketsRest, WaitsRest, Rested, Queue!Left
<1> QED
  BY <1>1, RestInductive, QueueTypeCorrect, PTL DEF Queue!Spec

(* Whose turn it is finds its bucket at rest.                              *)
LEMMA TurnRests ==
    ASSUME Queue!TypeOK, RestInv, NEW c \in Caller, NEW d \in Caller, Queue!Turn(c), d = c \/ ~g_overlap
    PROVE  g_since[Queue!First(c)][d] = GrantInterval
<1>1. Queue!First(c) \in Queue!Buckets
  BY FirstType DEF Queue!Turn
<1>2. g_since[Queue!First(c)][d] \in 0..GrantInterval /\ g_bucketNextIn[Queue!First(c)] \in Int
  BY <1>1, GrantAssumption DEF Queue!TypeOK
<1>3. CASE g_waiting[c].pc = "next" /\ g_bucketNextIn[Queue!First(c)] <= 0
  BY <1>1, <1>2, <1>3, GrantAssumption DEF RestInv, BucketsRest, Rested
<1>4. CASE g_waiting[c].pc = "wait" /\ g_waiting[c].wait = 0
  BY <1>2, <1>4, GrantAssumption DEF RestInv, WaitsRest, Rested
<1> QED
  BY <1>3, <1>4 DEF Queue!Turn

(* A turn is taken only by a caller that has rested, and by one that none  *)
(* meets only when all have.                                               *)
LEMMA QueueSpaced == Queue!Spec => Queue!GrantsAreSpaced
<1>1. Queue!TypeOK /\ RestInv /\ [Queue!Next]_(Queue!vars) =>
         [\A b \in Queue!Buckets, c \in Caller :
             <<Queue!Grant(c) \/ Queue!GrantFails(c)>>_(Queue!vars) /\ b = Queue!First(c) =>
                 /\ g_since[b][c] = GrantInterval
                 /\ ~g_overlap' => \A d \in Caller : g_since[b][d] = GrantInterval]_(Queue!vars)
  <2> SUFFICES ASSUME Queue!TypeOK, RestInv, NEW c \in Caller, Queue!Grant(c) \/ Queue!GrantFails(c)
               PROVE  /\ g_since[Queue!First(c)][c] = GrantInterval
                      /\ ~g_overlap' => \A d \in Caller : g_since[Queue!First(c)][d] = GrantInterval
    OBVIOUS
  <2>1. g_since[Queue!First(c)][c] = GrantInterval
    BY TurnRests DEF Queue!Grant, Queue!GrantFails
  <2>2. ASSUME ~g_overlap', NEW d \in Caller
        PROVE  g_since[Queue!First(c)][d] = GrantInterval
    BY <2>2, TurnRests DEF Queue!Grant, Queue!GrantFails, Queue!Meets
  <2> QED
    BY <2>1, <2>2
<1> QED
  BY <1>1, RestAlways, PTL DEF Queue!Spec, Queue!GrantsAreSpaced

(* Each caller keeps the interval between its grants of a bucket, and all  *)
(* of them do as long as no two wait for a bucket at once.                 *)
THEOREM GrantsSpaced == SvcSpec => GrantsAreSpaced
  BY Each, QueueSpaced, PTL DEF GrantsAreSpaced

(* In every behaviour of the services the ranges mean what their tokens    *)
(* say.                                                                    *)
THEOREM RangesStayRight == SvcSpec => []RangesMean
  BY Each, RangesAreRight, PTL

-------------------------------------------------------------------------------
(* The plans of the updater.                                               *)

(* No plugin, or one.                                                      *)
AtMostOne == {{}} \cup {{t} : t \in PluginTag}

PlanInv ==
    /\ released \subseteq CoreTag /\ core \in released /\ previous \subseteq CoreTag
    /\ \A e \in takebacks : e.tag \in released /\ e.status \in {"superseded", "withdrawn"}
                            /\ e.recommend \subseteq released
    /\ line.listed \in BOOLEAN /\ line.pin \in AtMostOne /\ devBuilds \in BOOLEAN
    /\ plugin \in AtMostOne /\ (known => plugin # {}) /\ edited \subseteq {"core", "plugin"}
    /\ events \in 0..MaxEvents
    /\ why \in {"fits", "pinned", "ahead", "kept"} /\ delisted \in BOOLEAN /\ moves \in Nat

LEMMA PlanTyped == PlanInv => TypeOK
<1>1. \A S \in AtMostOne : S \subseteq PluginTag /\ Cardinality(S) <= 1
  BY FS_EmptySet, FS_Singleton DEF AtMostOne
<1> QED
  BY <1>1 DEF PlanInv, TypeOK

(* A search finds one tag at most: of two newest each is as new as the     *)
(* other.                                                                  *)
LEMMA SearchFindsOne ==
    ASSUME NEW readable, readable \subseteq PluginTag, NEW v
    PROVE  Search(readable, v) \in AtMostOne
<1>1. ASSUME NEW t \in Search(readable, v), NEW u \in Search(readable, v) PROVE t = u
  <2>1. t \in PluginTag /\ u \in PluginTag
    BY DEF Search
  <2>2. t.version \in Version /\ u.version \in Version
    BY <2>1, TagAssumption
  <2>3. Compare(t.version, u.version) >= 0 /\ Compare(u.version, t.version) >= 0
    BY DEF Search
  <2>4. Compare(t.version, u.version) = 0
    BY <2>2, <2>3, CompareOpposite
  <2> QED
    BY <2>1, <2>4, TagAssumption
<1>2. Search(readable, v) \subseteq PluginTag
  BY DEF Search
<1> QED
  BY <1>1, <1>2 DEF AtMostOne

(* What a plan leaves.                                                     *)
PluginTyped ==
    /\ plugin \in AtMostOne /\ (known => plugin # {}) /\ edited \subseteq {"core", "plugin"}
    /\ why \in {"fits", "pinned", "ahead", "kept"} /\ delisted \in BOOLEAN

LEMMA ApplyTyped ==
    ASSUME PlanInv, NEW ctx, NEW coreUpdate \in BOOLEAN,
           ctx.readable \subseteq PluginTag, ctx.pin \in AtMostOne,
           ApplyPlugin(PlanPlugin(ctx), ctx, coreUpdate)
    PROVE  PluginTyped'
<1> DEFINE d == PlanPlugin(ctx)
<1>1. d.action \in {"add", "update"} => d.tag \in AtMostOne /\ d.tag # {}
  <2>1. Search(ctx.readable, ctx.core) \in AtMostOne
    BY SearchFindsOne
  <2> QED
    BY <2>1 DEF PlanPlugin, Planned, Decide, PlanInv
<1>2. {} \in AtMostOne
  BY DEF AtMostOne
<1> HIDE DEF d
<1>3. plugin' \in AtMostOne /\ (known' => plugin' # {})
  <2>1. CASE d.action \in {"add", "update"}
    BY <1>1, <2>1 DEF ApplyPlugin, d
  <2>2. CASE d.action = "remove"
    BY <1>2, <2>2 DEF ApplyPlugin, d
  <2>3. CASE d.action \notin {"add", "update", "remove"}
    BY <2>3 DEF ApplyPlugin, d, PlanInv
  <2> QED
    BY <2>1, <2>2, <2>3
<1>4. edited' \subseteq {"core", "plugin"}
  BY DEF ApplyPlugin, PlanInv
<1>5. why' \in {"fits", "pinned", "ahead", "kept"}
  BY DEF ApplyPlugin, PlanInv
<1>6. delisted' \in BOOLEAN
  BY DEF ApplyPlugin, PlanInv
<1> QED
  BY <1>3, <1>4, <1>5, <1>6 DEF PluginTyped

(* What the core and the plugin keep when a run is over.                   *)
LEMMA RunTyped ==
    ASSUME PlanInv, NEW force \in BOOLEAN, NEW readable \in SUBSET PluginTag
    PROVE  /\ \A v \in released : UpdateCore(v, force, readable) =>
                 PluginTyped' /\ core' = v /\ previous' = {core} /\ UNCHANGED repo
           /\ UpdatePlugins(force, readable) => PluginTyped' /\ UNCHANGED <<repo, core, previous>>
<1>1. {} \in AtMostOne
  BY DEF AtMostOne
<1>2. ASSUME NEW v \in released, UpdateCore(v, force, readable) PROVE PluginTyped'
  <2> DEFINE ctx == Context(v, FALSE, Newer(core, v), force, {}, readable)
  <2>1. ctx.readable = readable /\ ctx.pin = {}
    BY DEF Context
  <2>2. ApplyPlugin(PlanPlugin(ctx), ctx, TRUE)
    BY <1>2 DEF UpdateCore
  <2> HIDE DEF ctx
  <2> QED
    BY <1>1, <2>1, <2>2, ApplyTyped
<1>3. ASSUME UpdatePlugins(force, readable) PROVE PluginTyped'
  <2> DEFINE ctx == Context(core, FALSE, FALSE, force, {}, readable)
  <2>1. ctx.readable = readable /\ ctx.pin = {}
    BY DEF Context
  <2>2. ApplyPlugin(PlanPlugin(ctx), ctx, FALSE)
    BY <1>3 DEF UpdatePlugins
  <2> HIDE DEF ctx
  <2> QED
    BY <1>1, <2>1, <2>2, ApplyTyped
<1> QED
  BY <1>2, <1>3 DEF UpdateCore, UpdatePlugins

(* Where the core may go there is a release.                               *)
LEMMA TargetsReleased == UpdateTarget \subseteq released /\ DowngradeTarget \subseteq released
<1>1. Recommended \subseteq released
  BY DEF Recommended
<1>2. LatestAllowed(released \ Yanked, core, devBuilds) \subseteq released
  BY DEF LatestAllowed
<1> QED
  BY <1>1, <1>2 DEF UpdateTarget, DowngradeTarget

LEMMA PlanInductive == PlanInv /\ [Next]_vars => PlanInv'
<1> SUFFICES ASSUME PlanInv, [Next]_vars PROVE PlanInv'
  OBVIOUS
<1>0. MaxEvents \in Nat /\ released \subseteq CoreTag
  BY TagAssumption DEF PlanInv
<1>1. ASSUME PluginTyped', UNCHANGED repo, core' \in released, previous' \subseteq CoreTag,
             events' \in 0..MaxEvents, moves' \in Nat
      PROVE  PlanInv'
  BY <1>1 DEF PlanInv, PluginTyped, repo
<1>2. ASSUME Event PROVE events' \in 0..MaxEvents /\ moves' \in Nat
  BY <1>0, <1>2 DEF Event, PlanInv
<1>3. ASSUME NEW force \in BOOLEAN, NEW readable \in SUBSET PluginTag, Update(force, readable)
      PROVE  PlanInv'
  <2>1. events' \in 0..MaxEvents
    BY <1>0, <1>3 DEF Update, Fetches, PlanInv
  <2>2. CASE UpdatePlugins(force, readable) /\ UNCHANGED moves
    BY <1>1, <2>1, <2>2, RunTyped DEF PlanInv
  <2>3. ASSUME NEW v \in UpdateTarget, UpdateCore(v, force, readable), moves' = moves + 1
        PROVE  PlanInv'
    <3>1. v \in released
      BY TargetsReleased
    <3>2. PluginTyped' /\ core' = v /\ previous' = {core} /\ UNCHANGED repo
      BY <2>3, <3>1, RunTyped
    <3>3. moves' \in Nat
      BY <2>3 DEF PlanInv
    <3> QED
      BY <1>1, <2>1, <3>1, <3>2, <3>3 DEF PlanInv
  <2> QED
    BY <1>3, <2>2, <2>3 DEF Update
<1>4. ASSUME NEW force \in BOOLEAN, NEW v \in released, Event, UpdateCore(v, force, PluginTag)
      PROVE  PlanInv'
  BY <1>1, <1>2, <1>4, RunTyped DEF PlanInv
<1>5. ASSUME NEW force \in BOOLEAN, Downgrade(force) PROVE PlanInv'
  BY <1>4, <1>5, TargetsReleased DEF Downgrade
<1>6. ASSUME NEW force \in BOOLEAN, NEW v \in CoreTag, Target(v, force) PROVE PlanInv'
  BY <1>4, <1>6 DEF Target
<1>7. ASSUME NEW force \in BOOLEAN, NEW pin \in AtMostOne, InstallPlugin(pin, force)
      PROVE  PlanInv'
  <2>1. PICK v \in (IF UpdateTarget = {} THEN {core} ELSE UpdateTarget) :
             LET ctx == Context(v, TRUE, FALSE, force, pin, PluginTag)
             IN ApplyPlugin(PlanPlugin(ctx), ctx, FALSE)
    BY <1>7 DEF InstallPlugin
  <2> DEFINE ctx == Context(v, TRUE, FALSE, force, pin, PluginTag)
  <2>2. ctx.readable = PluginTag /\ ctx.pin = pin
    BY DEF Context
  <2>3. ApplyPlugin(PlanPlugin(ctx), ctx, FALSE)
    BY <2>1
  <2> HIDE DEF ctx
  <2>4. PluginTyped'
    BY <2>2, <2>3, ApplyTyped
  <2>5. UNCHANGED <<repo, core, previous>> /\ events' \in 0..MaxEvents /\ moves' \in Nat
    BY <1>2, <1>7 DEF InstallPlugin
  <2> QED
    BY <1>1, <2>4, <2>5 DEF PlanInv
<1>8. ASSUME NEW what \in {"core", "plugin"}, Edit(what) PROVE PlanInv'
  <2>1. events' \in 0..MaxEvents /\ moves' \in Nat
    BY <1>2, <1>8 DEF Edit
  <2> QED
    BY <1>8, <2>1 DEF Edit, PlanInv, repo
<1>9. ASSUME NEW v \in CoreTag, NEW recommend, NEW status \in {"superseded", "withdrawn"},
             TakeBack(v, status, recommend)
      PROVE  PlanInv'
  <2>1. events' \in 0..MaxEvents /\ moves' \in Nat
    BY <1>2, <1>9 DEF TakeBack
  <2>2. \A e \in takebacks' : e.tag \in released /\ e.status \in {"superseded", "withdrawn"}
                              /\ e.recommend \subseteq released
    BY <1>9 DEF TakeBack, PlanInv
  <2> QED
    BY <1>9, <2>1, <2>2 DEF TakeBack, PlanInv
<1>10. ASSUME NEW v \in CoreTag, Release(v) PROVE PlanInv'
  <2>1. events' \in 0..MaxEvents /\ moves' \in Nat
    BY <1>2, <1>10 DEF Release
  <2> QED
    BY <1>10, <2>1 DEF Release, PlanInv
<1>11. ASSUME NEW listed \in BOOLEAN, NEW pin \in AtMostOne, Relist(listed, pin) PROVE PlanInv'
  <2>1. events' \in 0..MaxEvents /\ moves' \in Nat
    BY <1>2, <1>11 DEF Relist
  <2>2. line'.listed \in BOOLEAN /\ line'.pin \in AtMostOne
    BY <1>11 DEF Relist
  <2> QED
    BY <1>11, <2>1, <2>2 DEF Relist, PlanInv
<1>12. CASE UNCHANGED vars
  BY <1>12 DEF vars, PlanInv
<1> QED
  BY <1>3, <1>5, <1>6, <1>7, <1>8, <1>9, <1>10, <1>11, <1>12 DEF Next, Runs, AtMostOne

(* The runs of the updater keep the shapes of its state, come to rest,     *)
(* leave a plugin that was searched for with the core it goes with, and    *)
(* replace what the user changed only when they are forced.                *)
THEOREM PlansSettle == SvcSpec => PlanSettles
<1>1. Init => PlanInv
  <2> SUFFICES ASSUME Init PROVE PlanInv
    OBVIOUS
  <2>1. plugin \in AtMostOne /\ known = (plugin # {})
    BY DEF Init, AtMostOne
  <2>2. line.listed = TRUE /\ line.pin = {} /\ {} \in AtMostOne
    BY DEF Init, AtMostOne
  <2> QED
    <3>1. released \subseteq CoreTag /\ core \in released /\ devBuilds \in BOOLEAN
      BY DEF Init
    <3>2. takebacks = {} /\ previous = {} /\ edited = {} /\ events = 0 /\ why = "fits"
          /\ delisted = FALSE /\ moves = 0
      BY DEF Init
    <3>3. events \in 0..MaxEvents /\ moves \in Nat
      BY <3>2, TagAssumption
    <3>4. known => plugin # {}
      BY <2>1
    <3> QED
      BY <2>1, <2>2, <3>1, <3>2, <3>3, <3>4 DEF PlanInv
<1>2. Spec => []UpdatesSettle
  BY CoreSettles, TagAssumption
<1>3. TypeOK /\ UpdatesSettle /\ PluginFits => (which = "plans" => TypeOK /\ UpdatesSettle /\ PluginFits)
  OBVIOUS
<1>4. Spec => []PlanInv
  BY <1>1, PlanInductive, PTL DEF Spec
<1> QED
  BY <1>2, <1>3, <1>4, Each, PlanTyped, PluginsFit, EditsKept, PTL DEF PlanSettles

-------------------------------------------------------------------------------
(* The migrations.                                                         *)

MigPhase == {"down", "lock", "read", "next", "record", "done", "failed"}
MigState == [pc : MigPhase, scope : Mig!Scope, applied : SUBSET Nat, todo : SUBSET Plugin]

(* Where a worker is among the steps of its scope.                         *)
Stepping(w) == m_worker[w].pc \in {"next", "record"}
NextStep(w) == Mig!Min(Mig!Missing(w))
AtRecord(s, v) ==
    \E w \in Worker : m_worker[w].pc = "record" /\ m_worker[w].scope = s /\ v = NextStep(w)

InitialSegment(S) == \E n \in Nat : S = 1..n

MigType ==
    /\ m_engine \in Engine
    /\ m_recorded \in [Mig!Scope -> SUBSET Nat]
    /\ DOMAIN m_effects = Mig!Scope
    /\ \A s \in Mig!Scope : m_effects[s] \in [Steps[s] -> Nat] /\ m_recorded[s] \subseteq Steps[s]
    /\ m_worker \in [Worker -> MigState]
    /\ \A w \in Worker : m_worker[w].pc = "lock" => m_engine = "postgres"
    /\ m_lock \in Worker \cup {Mig!Nobody}
    /\ m_failed \in [Worker -> SUBSET Plugin] /\ m_broken \in [Worker -> SUBSET Mig!Scope]
    /\ m_beside \in BOOLEAN

(* What is recorded starts with the first step and leaves none out, and so *)
(* does what a worker has found recorded.                                  *)
SegmentInv ==
    /\ \A s \in Mig!Scope : InitialSegment(m_recorded[s])
    /\ \A w \in Worker : Stepping(w) =>
          /\ InitialSegment(m_worker[w].applied)
          /\ m_worker[w].applied \subseteq m_recorded[m_worker[w].scope]
    /\ \A w \in Worker : m_worker[w].pc = "record" => Mig!Missing(w) # {} /\ ~Mig!Gap(w)
    /\ Mig!VersionsAreASegment

(* With a transaction a step takes effect when it is recorded; with Mongo  *)
(* before.                                                                 *)
EffectInv ==
    \A s \in Mig!Scope : \A v \in Steps[s] :
        IF m_engine = "mongo" THEN v \in m_recorded[s] \/ AtRecord(s, v) => m_effects[s][v] > 0
        ELSE m_effects[s][v] = IF v \in m_recorded[s] THEN 1 ELSE 0

(* A worker that nothing was beside is alone, and knows what is recorded.  *)
AloneInv ==
    ~m_beside =>
        /\ \A w, x \in Worker : Mig!Running(w) /\ Mig!Running(x) => w = x
        /\ m_engine = "postgres" => \A w \in Worker : Mig!Running(w) => m_lock = w
        /\ \A w \in Worker : Stepping(w) => m_worker[w].applied = m_recorded[m_worker[w].scope]

(* So with Mongo too a step takes effect once, unless its worker ended     *)
(* before it recorded it.                                                  *)
OnceInv ==
    m_engine = "mongo" /\ ~m_beside =>
        \A s \in Mig!Scope : \A v \in Steps[s] : <<s, v>> \notin m_twice =>
            m_effects[s][v] = IF v \in m_recorded[s] \/ AtRecord(s, v) THEN 1 ELSE 0

MigInv == MigType /\ SegmentInv /\ EffectInv /\ AloneInv /\ OnceInv

LEMMA MinIsLeast ==
    ASSUME NEW T, T \subseteq Nat, T # {}
    PROVE  Mig!Min(T) \in T /\ \A y \in T : Mig!Min(T) <= y
  BY LeastNumber DEF Mig!Min

LEMMA MaxOfSegment == ASSUME NEW n \in Nat PROVE Mig!Max((1..n) \cup {0}) = n
<1>1. n \in (1..n) \cup {0} /\ \A y \in (1..n) \cup {0} : n >= y
  OBVIOUS
<1>2. \A x \in (1..n) \cup {0} : (\A y \in (1..n) \cup {0} : x >= y) => x = n
  OBVIOUS
<1> QED
  BY <1>1, <1>2 DEF Mig!Max

(* The step a worker comes to where there is no gap is the one after those *)
(* it found.                                                               *)
LEMMA NextStepIsNext ==
    ASSUME MigType, NEW w \in Worker, InitialSegment(m_worker[w].applied),
           Mig!Missing(w) # {}
    PROVE  /\ NextStep(w) \in Steps[m_worker[w].scope] /\ NextStep(w) \in Nat \ {0}
           /\ NextStep(w) \notin m_worker[w].applied
           /\ \A v \in Mig!Missing(w) : NextStep(w) <= v
           /\ ~Mig!Gap(w) => m_worker[w].applied = 1..(NextStep(w) - 1)
           /\ m_worker[w].applied = 1..(NextStep(w) - 1) => ~Mig!Gap(w)
<1>1. m_worker[w].scope \in Mig!Scope
  BY DEF MigType, MigState
<1>2. Mig!Missing(w) \subseteq Nat \ {0} /\ Mig!Missing(w) \subseteq Steps[m_worker[w].scope]
  BY <1>1, StepAssumption DEF Mig!Missing
<1>3. NextStep(w) \in Mig!Missing(w) /\ \A y \in Mig!Missing(w) : NextStep(w) <= y
  BY <1>2, MinIsLeast DEF NextStep
<1>4. PICK n \in Nat : m_worker[w].applied = 1..n
  BY DEF InitialSegment
<1>5. Mig!Gap(w) <=> NextStep(w) # n + 1
  BY <1>4, MaxOfSegment DEF Mig!Gap, NextStep
<1>6. m_worker[w].applied = 1..(NextStep(w) - 1) => NextStep(w) = n + 1
  <2> SUFFICES ASSUME 1..n = 1..(NextStep(w) - 1) PROVE NextStep(w) = n + 1
    BY <1>4
  <2>1. NextStep(w) \in Nat \ {0}
    BY <1>2, <1>3
  <2>2. \A a, b \in Nat : 1..a = 1..b => a = b
    OBVIOUS
  <2>3. NextStep(w) - 1 \in Nat
    BY <2>1
  <2> QED
    BY <2>1, <2>2, <2>3
<1> QED
  BY <1>2, <1>3, <1>4, <1>5, <1>6 DEF Mig!Missing

(* At most one worker runs that nothing was beside, with the lock.         *)
SoloInv ==
    ~m_beside =>
        /\ \A w, x \in Worker : Mig!Running(w) /\ Mig!Running(x) => w = x
        /\ m_engine = "postgres" => \A w \in Worker : Mig!Running(w) => m_lock = w

LEMMA SoloStep ==
    ASSUME MigType, SoloInv, NEW w \in Worker, NEW r \in MigState,
           m_worker' = [m_worker EXCEPT ![w] = r], UNCHANGED m_engine,
           m_beside => m_beside',
           r.pc \in {"read", "next", "record"} => Mig!Running(w) /\ m_lock' = m_lock,
           m_lock' \in {m_lock, IF m_lock = w THEN Mig!Nobody ELSE m_lock}
    PROVE  SoloInv'
<1> SUFFICES ASSUME ~m_beside'
             PROVE  /\ \A x, y \in Worker : Mig!Running(x)' /\ Mig!Running(y)' => x = y
                    /\ m_engine' = "postgres" => \A x \in Worker : Mig!Running(x)' => m_lock' = x
  BY DEF SoloInv
<1>1. \A x \in Worker : Mig!Running(x)' => Mig!Running(x)
  BY DEF MigType, Mig!Running
<1>2. \A x \in Worker : Mig!Running(x)' /\ m_lock = x => m_lock' = x
  BY DEF MigType, Mig!Running
<1> QED
  BY <1>1, <1>2 DEF SoloInv

LEMMA DownTyped == \A pc \in MigPhase : [Mig!Down EXCEPT !.pc = pc] \in MigState
  BY DEF Mig!Down, MigState, Mig!Scope

(* How a run ends, goes on to the next scope, or fails.                    *)
LEMMA EndsTyped ==
    ASSUME NEW w \in Worker, NEW pc \in {"done", "failed"}, Mig!Ends(w, pc)
    PROVE  /\ \E r \in MigState : r.pc = pc /\ m_worker' = [m_worker EXCEPT ![w] = r]
           /\ m_lock' \in {m_lock, IF m_lock = w THEN Mig!Nobody ELSE m_lock}
<1>1. [Mig!Down EXCEPT !.pc = pc] \in MigState /\ [Mig!Down EXCEPT !.pc = pc].pc = pc
  BY DownTyped DEF MigPhase, Mig!Down
<1> QED
  BY <1>1 DEF Mig!Ends

LEMMA GoesTyped ==
    ASSUME MigType, NEW w \in Worker, Mig!Goes(w)
    PROVE  /\ \E r \in MigState : /\ m_worker' = [m_worker EXCEPT ![w] = r]
                                  /\ r.pc = "done" \/ (r.pc = "read" /\ m_lock' = m_lock)
           /\ m_lock' \in {m_lock, IF m_lock = w THEN Mig!Nobody ELSE m_lock}
<1>1. CASE m_worker[w].todo = {}
  BY <1>1, EndsTyped DEF Mig!Goes
<1>2. CASE m_worker[w].todo # {}
  <2>1. PICK p \in m_worker[w].todo :
              m_worker' = [m_worker EXCEPT ![w] = [pc |-> "read", scope |-> p, applied |-> {},
                                                   todo |-> m_worker[w].todo \ {p}]]
    BY <1>2 DEF Mig!Goes, MigType
  <2>2. [pc |-> "read", scope |-> p, applied |-> {}, todo |-> m_worker[w].todo \ {p}] \in MigState
    BY DEF MigType, MigState, MigPhase, Mig!Scope
  <2> QED
    BY <1>2, <2>1, <2>2 DEF Mig!Goes
<1> QED
  BY <1>1, <1>2

LEMMA ThrowsTyped ==
    ASSUME MigType, NEW w \in Worker, Mig!Throws(w)
    PROVE  /\ \E r \in MigState : /\ m_worker' = [m_worker EXCEPT ![w] = r]
                                  /\ \/ r.pc = "failed" /\ m_worker[w].scope = Mig!Core
                                     \/ r.pc = "done"
                                     \/ r.pc = "read" /\ m_lock' = m_lock
           /\ m_lock' \in {m_lock, IF m_lock = w THEN Mig!Nobody ELSE m_lock}
           /\ \/ UNCHANGED m_failed
              \/ /\ m_worker[w].scope \in Plugin
                 /\ m_failed' = [m_failed EXCEPT ![w] = @ \cup {m_worker[w].scope}]
           /\ m_failed' \in [Worker -> SUBSET Plugin]
<1>1. CASE m_worker[w].scope = Mig!Core
  BY <1>1, EndsTyped DEF Mig!Throws, MigType
<1>2. CASE m_worker[w].scope # Mig!Core
  <2>1. m_worker[w].scope \in Plugin
    BY <1>2 DEF MigType, MigState, Mig!Scope
  <2> QED
    BY <1>2, <2>1, GoesTyped DEF Mig!Throws, MigType
<1> QED
  BY <1>1, <1>2

(* A worker gives up its step, if it had come to one: what is recorded and *)
(* took effect stays.                                                      *)
Leaves(w, r) ==
    /\ r \in MigState /\ r.pc \notin {"next", "record"}
    /\ r.pc = "lock" => m_engine = "postgres"
    /\ m_worker' = [m_worker EXCEPT ![w] = r]
    /\ UNCHANGED <<m_engine, m_recorded, m_effects>>
    /\ m_twice \subseteq m_twice' /\ (m_beside => m_beside') /\ m_beside' \in BOOLEAN
    /\ m_engine = "mongo" /\ m_worker[w].pc = "record" =>
          <<m_worker[w].scope, NextStep(w)>> \in m_twice'
    /\ m_lock' \in Worker \cup {Mig!Nobody}
    /\ m_failed' \in [Worker -> SUBSET Plugin] /\ m_broken' \in [Worker -> SUBSET Mig!Scope]

LEMMA LeavesKeeps ==
    ASSUME MigInv, NEW w \in Worker, NEW r, Leaves(w, r), SoloInv'
    PROVE  MigInv'
<1>1. /\ m_worker' \in [Worker -> MigState]
      /\ \A x \in Worker : Stepping(x)' =>
            /\ x # w /\ m_worker'[x] = m_worker[x] /\ Stepping(x)
            /\ NextStep(x)' = NextStep(x) /\ Mig!Missing(x)' = Mig!Missing(x)
            /\ Mig!Gap(x)' = Mig!Gap(x)
  BY DEF MigInv, MigType, Leaves, Stepping, NextStep, Mig!Missing, Mig!Gap
<1>2. \A s \in Mig!Scope : \A v \in Steps[s] : AtRecord(s, v)' => AtRecord(s, v)
  BY <1>1 DEF AtRecord, Stepping
<1>3. MigType'
  BY <1>1 DEF MigInv, MigType, Leaves
<1>4. SegmentInv'
  <2>1. \A x \in Worker : Stepping(x)' =>
          /\ InitialSegment(m_worker'[x].applied)
          /\ m_worker'[x].applied \subseteq m_recorded'[m_worker'[x].scope]
    BY <1>1 DEF MigInv, SegmentInv, Leaves
  <2>2. \A x \in Worker : m_worker'[x].pc = "record" => Mig!Missing(x)' # {} /\ ~Mig!Gap(x)'
    BY <1>1 DEF MigInv, SegmentInv, Stepping
  <2>3. Mig!VersionsAreASegment'
    BY DEF MigInv, SegmentInv, Leaves, Mig!VersionsAreASegment
  <2> QED
    BY <2>1, <2>2, <2>3 DEF MigInv, SegmentInv, Leaves
<1>5. EffectInv'
  BY <1>2 DEF MigInv, EffectInv, Leaves
<1>6. AloneInv'
  <2>1. ~m_beside' => \A x \in Worker : Stepping(x)' =>
                         m_worker'[x].applied = m_recorded'[m_worker'[x].scope]
    BY <1>1 DEF MigInv, AloneInv, Leaves
  <2> QED
    BY <2>1 DEF SoloInv, AloneInv
<1>7. OnceInv'
  <2> SUFFICES ASSUME m_engine = "mongo", ~m_beside', NEW s \in Mig!Scope, NEW v \in Steps[s],
                      <<s, v>> \notin m_twice'
               PROVE  m_effects'[s][v] = IF v \in m_recorded'[s] \/ AtRecord(s, v)' THEN 1 ELSE 0
    BY DEF OnceInv, Leaves
  <2>1. AtRecord(s, v) => AtRecord(s, v)'
    <3> SUFFICES ASSUME NEW x \in Worker, m_worker[x].pc = "record", m_worker[x].scope = s,
                        v = NextStep(x)
                 PROVE  AtRecord(s, v)'
      BY DEF AtRecord
    <3>1. x # w
      BY DEF Leaves
    <3>2. m_worker'[x] = m_worker[x]
      BY <3>1 DEF MigInv, MigType, Leaves
    <3>3. NextStep(x)' = NextStep(x)
      BY <3>2 DEF NextStep, Mig!Missing
    <3> QED
      BY <3>2, <3>3 DEF AtRecord
  <2>2. m_effects[s][v] = IF v \in m_recorded[s] \/ AtRecord(s, v) THEN 1 ELSE 0
    BY DEF MigInv, OnceInv, Leaves
  <2> QED
    BY <1>2, <2>1, <2>2 DEF Leaves
<1> QED
  BY <1>3, <1>4, <1>5, <1>6, <1>7 DEF MigInv

(* Whatever a worker does that is not a step of its scope.                 *)
LEMMA ComesAndGoes ==
    ASSUME MigInv, NEW w \in Worker,
           \/ Mig!Start(w) \/ Mig!Lock(w) \/ Mig!LockFails(w) \/ Mig!LockLost(w) \/ Mig!Crash(w)
           \/ UNCHANGED Mig!vars
    PROVE  MigInv'
<1>0. MigType /\ SoloInv /\ m_worker[w] \in MigState /\ {"lock", "read"} \subseteq MigPhase
  BY DEF MigInv, AloneInv, SoloInv, MigType, MigPhase
<1>1. CASE Mig!Start(w)
  <2> DEFINE r == [Mig!Down EXCEPT !.pc = IF m_engine = "postgres" THEN "lock" ELSE "read",
                                   !.todo = Plugin]
  <2>1. r \in MigState /\ r.pc = IF m_engine = "postgres" THEN "lock" ELSE "read"
    BY <1>0 DEF MigState, Mig!Down, Mig!Scope
  <2>2. m_worker' = [m_worker EXCEPT ![w] = r]
    BY <1>1 DEF Mig!Start
  <2> HIDE DEF r
  <2>3. Leaves(w, r)
    BY <1>0, <1>1, <2>1, <2>2 DEF Leaves, Mig!Start, MigType
  <2>4. SoloInv'
    <3> SUFFICES ASSUME ~m_beside'
                 PROVE  /\ \A x, y \in Worker : Mig!Running(x)' /\ Mig!Running(y)' => x = y
                        /\ m_engine' = "postgres" =>
                              \A x \in Worker : Mig!Running(x)' => m_lock' = x
      BY DEF SoloInv
    <3>1. /\ \A x \in Worker : Mig!Running(x)' /\ x # w => Mig!Running(x)
          /\ m_engine = "postgres" => ~Mig!Running(w)'
      BY <1>0, <2>1, <2>2 DEF Mig!Running, MigType
    <3>2. /\ UNCHANGED <<m_engine, m_lock>> /\ ~m_beside
          /\ m_engine # "postgres" => \A x \in Worker \ {w} : ~Mig!Running(x)
      BY <1>1 DEF Mig!Start
    <3> QED
      BY <1>0, <3>1, <3>2 DEF SoloInv
  <2> QED
    BY <2>3, <2>4, LeavesKeeps
<1>2. CASE Mig!Lock(w)
  <2> DEFINE r == [m_worker[w] EXCEPT !.pc = "read"]
  <2>1. r \in MigState /\ r.pc = "read"
    BY <1>0 DEF MigState
  <2>2. m_worker' = [m_worker EXCEPT ![w] = r]
    BY <1>0, <1>2 DEF Mig!Lock, Mig!At, MigType
  <2> HIDE DEF r
  <2>3. Leaves(w, r)
    BY <1>0, <1>2, <2>1, <2>2 DEF Leaves, Mig!Lock, MigType
  <2>4. SoloInv'
    <3>1. m_engine = "postgres" /\ m_lock \notin Worker
      BY <1>0, <1>2, StepAssumption DEF Mig!Lock, Mig!Free, MigType
    <3>2. ~m_beside => \A x \in Worker : ~Mig!Running(x)
      BY <1>0, <3>1 DEF SoloInv
    <3>3. \A x \in Worker : Mig!Running(x)' /\ x # w => Mig!Running(x)
      BY <1>0, <2>2 DEF Mig!Running, MigType
    <3> QED
      BY <1>2, <3>2, <3>3 DEF SoloInv, Mig!Lock
  <2> QED
    BY <2>3, <2>4, LeavesKeeps
<1>3. CASE Mig!LockFails(w)
  <2> DEFINE r == [m_worker[w] EXCEPT !.pc = "read"]
  <2>1. r \in MigState /\ r.pc = "read"
    BY <1>0 DEF MigState
  <2>2. m_worker' = [m_worker EXCEPT ![w] = r]
    BY <1>0, <1>3 DEF Mig!LockFails, Mig!At, MigType
  <2> HIDE DEF r
  <2>3. Leaves(w, r)
    BY <1>0, <1>3, <2>1, <2>2 DEF Leaves, Mig!LockFails, MigType
  <2>4. SoloInv'
    BY <1>3 DEF SoloInv, Mig!LockFails
  <2> QED
    BY <2>3, <2>4, LeavesKeeps
<1>4. CASE Mig!Crash(w)
  <2>1. Mig!Down \in MigState /\ Mig!Down.pc = "down"
    BY DEF Mig!Down, MigState, MigPhase, Mig!Scope
  <2>2. Leaves(w, Mig!Down)
    BY <1>0, <1>4, <2>1 DEF Leaves, Mig!Crash, MigType, NextStep
  <2>3. SoloInv'
    BY <1>0, <1>4, <2>1, SoloStep DEF Mig!Crash
  <2> QED
    BY <2>2, <2>3, LeavesKeeps
<1>5. CASE Mig!LockLost(w) \/ UNCHANGED Mig!vars
  <2>1. UNCHANGED <<m_engine, m_recorded, m_effects, m_worker, m_failed, m_broken, m_twice>>
    BY <1>5 DEF Mig!LockLost, Mig!vars
  <2>2. /\ m_lock' \in Worker \cup {Mig!Nobody} /\ m_beside' \in BOOLEAN
        /\ m_beside => m_beside'
        /\ \A x \in Worker : Mig!Running(x) /\ m_lock = x /\ ~m_beside' => m_lock' = x
    BY <1>0, <1>5 DEF Mig!LockLost, Mig!vars, MigType, Mig!Running
  <2>3. /\ \A x \in Worker : Stepping(x)' = Stepping(x) /\ Mig!Running(x)' = Mig!Running(x)
        /\ \A x \in Worker : Mig!Missing(x)' = Mig!Missing(x) /\ Mig!Gap(x)' = Mig!Gap(x)
        /\ \A s \in Mig!Scope : \A v \in Steps[s] : AtRecord(s, v)' = AtRecord(s, v)
    BY <2>1 DEF Stepping, Mig!Running, AtRecord, NextStep, Mig!Missing, Mig!Gap
  <2>4. MigType'
    BY <1>0, <2>1, <2>2 DEF MigType
  <2>5. SegmentInv'
    BY <2>1, <2>3 DEF MigInv, SegmentInv, Mig!VersionsAreASegment
  <2>6. EffectInv'
    BY <2>1, <2>3 DEF MigInv, EffectInv
  <2>7. AloneInv'
    BY <2>1, <2>2, <2>3 DEF MigInv, AloneInv
  <2>8. OnceInv'
    BY <2>1, <2>2, <2>3 DEF MigInv, OnceInv
  <2> QED
    BY <2>4, <2>5, <2>6, <2>7, <2>8 DEF MigInv
<1> QED
  BY <1>1, <1>2, <1>3, <1>4, <1>5

(* A scope that is done, has a gap, or whose step throws or conflicts.     *)
LEMMA ScopeEnds ==
    ASSUME MigInv, NEW w \in Worker,
           \/ Mig!ScopeDone(w) \/ Mig!FindsGap(w) \/ Mig!UpFails(w) \/ Mig!RecordFails(w)
    PROVE  MigInv'
<1>0. MigType /\ SoloInv /\ m_worker[w] \in MigState /\ Mig!Running(w)
  BY DEF MigInv, AloneInv, SoloInv, MigType, Mig!Running, Mig!ScopeDone, Mig!FindsGap, Mig!UpFails,
         Mig!RecordFails
<1>1. \E r \in MigState : /\ m_worker' = [m_worker EXCEPT ![w] = r]
                          /\ r.pc \in {"done", "failed"} \/ (r.pc = "read" /\ m_lock' = m_lock)
  BY <1>0, GoesTyped, ThrowsTyped DEF Mig!ScopeDone, Mig!FindsGap, Mig!UpFails, Mig!RecordFails
<1>2. /\ m_lock' \in {m_lock, IF m_lock = w THEN Mig!Nobody ELSE m_lock}
      /\ m_failed' \in [Worker -> SUBSET Plugin]
  BY <1>0, GoesTyped, ThrowsTyped
     DEF Mig!ScopeDone, Mig!FindsGap, Mig!UpFails, Mig!RecordFails, MigType
<1>3. /\ UNCHANGED <<m_engine, m_recorded, m_effects, m_beside, m_twice>>
      /\ m_broken' \in [Worker -> SUBSET Mig!Scope]
      /\ m_engine = "mongo" => m_worker[w].pc # "record"
  BY <1>0 DEF Mig!ScopeDone, Mig!FindsGap, Mig!UpFails, Mig!RecordFails, Mig!Conflicts, MigType,
              MigState
<1>4. PICK r \in MigState : /\ m_worker' = [m_worker EXCEPT ![w] = r]
                            /\ r.pc \in {"done", "failed"} \/ (r.pc = "read" /\ m_lock' = m_lock)
  BY <1>1
<1>5. Leaves(w, r)
  BY <1>0, <1>2, <1>3, <1>4 DEF Leaves, MigType
<1>6. SoloInv'
  BY <1>0, <1>2, <1>3, <1>4, SoloStep
<1> QED
  BY <1>5, <1>6, LeavesKeeps

(* A worker that goes on with its scope, from pc to pc.                    *)
GoesOn(w, r) ==
    /\ r \in MigState /\ r.scope = m_worker[w].scope /\ r.pc \in {"next", "record"}
    /\ m_worker' = [m_worker EXCEPT ![w] = r] /\ Mig!Running(w)
    /\ UNCHANGED <<m_engine, m_lock, m_failed, m_broken, m_beside, m_twice>>

LEMMA GoesOnKeeps ==
    ASSUME MigInv, NEW w \in Worker, NEW r, GoesOn(w, r)
    PROVE  /\ m_worker[w] \in MigState /\ m_worker[w].scope \in Mig!Scope
           /\ m_worker' \in [Worker -> MigState] /\ m_worker'[w] = r
           /\ \A x \in Worker \ {w} :
                 /\ m_worker'[x] = m_worker[x] /\ Stepping(x)' = Stepping(x)
                 /\ NextStep(x)' = NextStep(x) /\ Mig!Missing(x)' = Mig!Missing(x)
                 /\ Mig!Gap(x)' = Mig!Gap(x)
           /\ Mig!Missing(w)' = Steps[m_worker[w].scope] \ r.applied
           /\ NextStep(w)' = Mig!Min(Steps[m_worker[w].scope] \ r.applied)
           /\ Mig!Gap(w)' = (Mig!Min(Steps[m_worker[w].scope] \ r.applied)
                                # Mig!Max(r.applied \cup {0}) + 1)
           /\ SoloInv'
           /\ ~m_beside => \A x \in Worker \ {w} : ~Stepping(x)
<1>1. /\ m_worker[w] \in MigState /\ m_worker' \in [Worker -> MigState] /\ m_worker'[w] = r
      /\ \A x \in Worker \ {w} : m_worker'[x] = m_worker[x]
      /\ m_worker[w].scope \in Mig!Scope
  BY DEF MigInv, MigType, MigState, GoesOn
<1>2. \A x \in Worker \ {w} :
         /\ Stepping(x)' = Stepping(x) /\ Mig!Missing(x)' = Mig!Missing(x)
  BY <1>1 DEF Stepping, Mig!Missing
<1>3. \A x \in Worker \ {w} : NextStep(x)' = NextStep(x) /\ Mig!Gap(x)' = Mig!Gap(x)
  BY <1>1, <1>2 DEF NextStep, Mig!Gap
<1>4. Mig!Missing(w)' = Steps[m_worker[w].scope] \ r.applied
  BY <1>1 DEF GoesOn, Mig!Missing
<1>5. SoloInv'
  <2>1. MigType /\ SoloInv
    BY DEF MigInv, AloneInv, SoloInv
  <2> QED
    BY <2>1, SoloStep DEF GoesOn, MigType
<1>6. ~m_beside => \A x \in Worker \ {w} : ~Stepping(x)
  BY DEF GoesOn, MigInv, AloneInv, Stepping, Mig!Running
<1>7. NextStep(w)' = Mig!Min(Steps[m_worker[w].scope] \ r.applied)
  BY <1>4 DEF NextStep
<1>8. Mig!Gap(w)' = (Mig!Min(Steps[m_worker[w].scope] \ r.applied) # Mig!Max(r.applied \cup {0}) + 1)
  BY <1>1, <1>4 DEF Mig!Gap
<1> QED
  BY <1>1, <1>2, <1>3, <1>4, <1>5, <1>6, <1>7, <1>8

LEMMA ReadKeeps == ASSUME MigInv, NEW w \in Worker, Mig!Read(w) PROVE MigInv'
<1> DEFINE r == [m_worker[w] EXCEPT !.pc = "next", !.applied = m_recorded[m_worker[w].scope]]
<1>1. m_worker[w] \in MigState /\ m_worker[w].scope \in Mig!Scope /\ m_worker[w].pc = "read"
  BY DEF MigInv, MigType, MigState, Mig!Read
<1>2. r \in MigState /\ r.pc = "next" /\ r.applied = m_recorded[m_worker[w].scope]
      /\ r.scope = m_worker[w].scope
  BY <1>1 DEF MigInv, MigType, MigState, MigPhase
<1>3. m_worker' = [m_worker EXCEPT ![w] = r]
  BY <1>1 DEF Mig!Read, MigInv, MigType
<1> HIDE DEF r
<1>4. UNCHANGED <<m_engine, m_recorded, m_effects, m_lock, m_failed, m_broken, m_beside, m_twice>>
  BY DEF Mig!Read
<1>5. GoesOn(w, r)
  BY <1>1, <1>2, <1>3, <1>4 DEF GoesOn, Mig!Running
<1>6. \A s \in Mig!Scope : \A v \in Steps[s] : AtRecord(s, v)' <=> AtRecord(s, v)
  BY <1>1, <1>2, <1>5, GoesOnKeeps DEF AtRecord
<1>7. MigType'
  <2>1. m_worker' \in [Worker -> MigState]
    BY <1>5, GoesOnKeeps
  <2>2. ASSUME NEW x \in Worker, m_worker'[x].pc = "lock" PROVE m_engine = "postgres"
    <3>1. x # w
      BY <2>2, <1>5, GoesOnKeeps DEF GoesOn
    <3>2. m_worker'[x] = m_worker[x]
      BY <3>1, <1>5, GoesOnKeeps
    <3> QED
      BY <2>2, <3>2 DEF MigInv, MigType
  <2> QED
    BY <2>1, <2>2, <1>4 DEF MigInv, MigType
<1>a. InitialSegment(m_recorded[m_worker[w].scope])
  BY <1>1 DEF MigInv, SegmentInv
<1>8. SegmentInv'
  <2>1. ASSUME NEW x \in Worker, Stepping(x)'
        PROVE  /\ InitialSegment(m_worker'[x].applied)
               /\ m_worker'[x].applied \subseteq m_recorded'[m_worker'[x].scope]
    <3>1. CASE x = w
      <4>1. m_worker'[w] = r
        BY <1>5, GoesOnKeeps
      <4> QED
        BY <1>1, <1>2, <1>4, <1>a, <3>1, <4>1
    <3>2. CASE x # w
      <4>1. m_worker'[x] = m_worker[x] /\ Stepping(x)
        BY <2>1, <3>2, <1>5, GoesOnKeeps
      <4> QED
        BY <1>4, <4>1 DEF MigInv, SegmentInv
    <3> QED
      BY <3>1, <3>2
  <2>2. \A x \in Worker : m_worker'[x].pc = "record" => Mig!Missing(x)' # {} /\ ~Mig!Gap(x)'
    BY <1>2, <1>5, GoesOnKeeps DEF MigInv, SegmentInv
  <2>3. Mig!VersionsAreASegment'
    BY <1>4 DEF MigInv, SegmentInv, Mig!VersionsAreASegment
  <2> QED
    BY <1>4, <2>1, <2>2, <2>3 DEF MigInv, SegmentInv
<1>9. EffectInv'
  BY <1>4, <1>6 DEF MigInv, EffectInv
<1>10. AloneInv'
  <2>1. ASSUME ~m_beside', NEW x \in Worker, Stepping(x)'
        PROVE  m_worker'[x].applied = m_recorded'[m_worker'[x].scope]
    <3>1. x = w
      BY <1>4, <2>1, <1>5, GoesOnKeeps
    <3>2. m_worker'[w] = r
      BY <1>5, GoesOnKeeps
    <3> QED
      BY <1>2, <1>4, <3>1, <3>2
  <2> QED
    BY <1>5, <2>1, GoesOnKeeps DEF SoloInv, AloneInv
<1>11. OnceInv'
  BY <1>4, <1>6 DEF MigInv, OnceInv
<1> QED
  BY <1>7, <1>8, <1>9, <1>10, <1>11 DEF MigInv

LEMMA UpKeeps == ASSUME MigInv, NEW w \in Worker, Mig!Up(w) PROVE MigInv'
<1> DEFINE r == [m_worker[w] EXCEPT !.pc = "record"]
           s == m_worker[w].scope
           v == NextStep(w)
<1>1. m_worker[w] \in MigState /\ s \in Mig!Scope /\ m_worker[w].pc = "next"
      /\ Mig!Missing(w) # {} /\ ~Mig!Gap(w)
  BY DEF MigInv, MigType, MigState, Mig!Up
<1>2. r \in MigState /\ r.pc = "record" /\ r.applied = m_worker[w].applied /\ r.scope = s
  BY <1>1 DEF MigState, MigPhase
<1>3. m_worker' = [m_worker EXCEPT ![w] = r]
  BY <1>1 DEF Mig!Up, Mig!At, MigInv, MigType
<1>4. /\ UNCHANGED <<m_engine, m_recorded, m_lock, m_failed, m_broken, m_beside, m_twice>>
      /\ IF m_engine = "mongo" THEN m_effects' = [m_effects EXCEPT ![s][v] = @ + 1]
         ELSE UNCHANGED m_effects
  BY DEF Mig!Up, Mig!Took, NextStep
<1>5. /\ InitialSegment(m_worker[w].applied) /\ m_worker[w].applied \subseteq m_recorded[s]
      /\ v \in Steps[s] /\ v \in Nat \ {0} /\ v \notin m_worker[w].applied
      /\ m_worker[w].applied = 1..(v - 1)
  BY <1>1, NextStepIsNext DEF MigInv, SegmentInv, Stepping
<1> HIDE DEF r, s, v
<1>6. GoesOn(w, r)
  BY <1>1, <1>2, <1>3, <1>4 DEF GoesOn, Mig!Running, s
<1>7. NextStep(w)' = v /\ Mig!Missing(w)' = Mig!Missing(w) /\ Mig!Gap(w)' = Mig!Gap(w)
  BY <1>2, <1>6, GoesOnKeeps DEF NextStep, Mig!Missing, Mig!Gap, v
<1>8. /\ \A t \in Mig!Scope : m_effects'[t] \in [Steps[t] -> Nat]
      /\ DOMAIN m_effects' = Mig!Scope
      /\ m_engine = "mongo" => m_effects'[s][v] = m_effects[s][v] + 1
      /\ \A t \in Mig!Scope : \A u \in Steps[t] :
            t # s \/ u # v \/ m_engine # "mongo" => m_effects'[t][u] = m_effects[t][u]
  <2>1. /\ \A t \in Mig!Scope : m_effects[t] \in [Steps[t] -> Nat]
        /\ DOMAIN m_effects = Mig!Scope
    BY DEF MigInv, MigType
  <2>2. m_engine = "mongo" =>
           m_effects' = [m_effects EXCEPT ![s] = [m_effects[s] EXCEPT ![v] = m_effects[s][v] + 1]]
    BY <1>4
  <2>3. [m_effects[s] EXCEPT ![v] = m_effects[s][v] + 1] \in [Steps[s] -> Nat]
    BY <1>1, <1>5, <2>1
  <2> QED
    BY <1>1, <1>4, <1>5, <2>1, <2>2, <2>3
<1>9. \A t \in Mig!Scope : \A u \in Steps[t] :
         AtRecord(t, u)' <=> AtRecord(t, u) \/ (t = s /\ u = v)
  <2>1. \A x \in Worker \ {w} : m_worker'[x] = m_worker[x] /\ NextStep(x)' = NextStep(x)
    BY <1>6, GoesOnKeeps
  <2>2. m_worker'[w].pc = "record" /\ m_worker'[w].scope = s /\ NextStep(w)' = v
    BY <1>2, <1>6, <1>7, GoesOnKeeps
  <2> QED
    BY <1>1, <2>1, <2>2 DEF AtRecord
<1>10. MigType'
  <2>1. m_worker' \in [Worker -> MigState]
    BY <1>6, GoesOnKeeps
  <2>2. ASSUME NEW x \in Worker, m_worker'[x].pc = "lock" PROVE m_engine = "postgres"
    <3>1. x # w
      BY <2>2, <1>6, GoesOnKeeps DEF GoesOn
    <3>2. m_worker'[x] = m_worker[x]
      BY <3>1, <1>6, GoesOnKeeps
    <3> QED
      BY <2>2, <3>2 DEF MigInv, MigType
  <2> QED
    BY <2>1, <2>2, <1>4, <1>8 DEF MigInv, MigType
<1>11. SegmentInv'
  <2>1. ASSUME NEW x \in Worker, Stepping(x)'
        PROVE  /\ InitialSegment(m_worker'[x].applied)
               /\ m_worker'[x].applied \subseteq m_recorded'[m_worker'[x].scope]
    <3>1. CASE x = w
      <4>1. m_worker'[w] = r
        BY <1>6, GoesOnKeeps
      <4> QED
        BY <1>2, <1>4, <1>5, <3>1, <4>1
    <3>2. CASE x # w
      <4>1. m_worker'[x] = m_worker[x] /\ Stepping(x)
        BY <2>1, <3>2, <1>6, GoesOnKeeps
      <4> QED
        BY <1>4, <4>1 DEF MigInv, SegmentInv
    <3> QED
      BY <3>1, <3>2
  <2>2. \A x \in Worker : m_worker'[x].pc = "record" => Mig!Missing(x)' # {} /\ ~Mig!Gap(x)'
    BY <1>1, <1>6, <1>7, GoesOnKeeps DEF MigInv, SegmentInv
  <2>3. Mig!VersionsAreASegment'
    <3> SUFFICES ASSUME NEW t \in Mig!Scope, NEW x \in Steps[t], m_effects'[t][x] > 0,
                        NEW u \in 1..(x - 1)
                 PROVE  u \in m_recorded'[t]
      BY DEF Mig!VersionsAreASegment
    <3>1. CASE t = s /\ x = v
      BY <1>4, <1>5, <3>1
    <3>2. CASE t # s \/ x # v
      BY <1>4, <1>8, <3>2 DEF MigInv, SegmentInv, Mig!VersionsAreASegment
    <3> QED
      BY <3>1, <3>2
  <2> QED
    BY <1>4, <2>1, <2>2, <2>3 DEF MigInv, SegmentInv
<1>12. EffectInv'
  <2> SUFFICES ASSUME NEW t \in Mig!Scope, NEW u \in Steps[t]
               PROVE  IF m_engine = "mongo"
                      THEN u \in m_recorded[t] \/ AtRecord(t, u)' => m_effects'[t][u] > 0
                      ELSE m_effects'[t][u] = IF u \in m_recorded[t] THEN 1 ELSE 0
    BY <1>4 DEF EffectInv
  <2>1. m_effects[s][v] \in Nat
    BY <1>1, <1>5 DEF MigInv, MigType
  <2>2. CASE m_engine = "mongo" /\ t = s /\ u = v
    BY <1>8, <2>1, <2>2
  <2>3. CASE m_engine # "mongo" \/ t # s \/ u # v
    BY <1>8, <1>9, <2>3 DEF MigInv, EffectInv
  <2> QED
    BY <2>2, <2>3
<1>a. ~m_beside => m_worker[w].applied = m_recorded[s]
  BY <1>1 DEF MigInv, AloneInv, Stepping, s
<1>13. AloneInv'
  <2>1. ASSUME ~m_beside', NEW x \in Worker, Stepping(x)'
        PROVE  m_worker'[x].applied = m_recorded'[m_worker'[x].scope]
    <3>1. x = w
      BY <1>4, <2>1, <1>6, GoesOnKeeps
    <3>2. m_worker'[w] = r
      BY <1>6, GoesOnKeeps
    <3> QED
      BY <1>2, <1>4, <1>a, <2>1, <3>1, <3>2
  <2> QED
    BY <1>6, <2>1, GoesOnKeeps DEF SoloInv, AloneInv
<1>14. OnceInv'
  <2> SUFFICES ASSUME m_engine = "mongo", ~m_beside, NEW t \in Mig!Scope, NEW u \in Steps[t],
                      <<t, u>> \notin m_twice
               PROVE  m_effects'[t][u] = IF u \in m_recorded[t] \/ AtRecord(t, u)' THEN 1 ELSE 0
    BY <1>4 DEF OnceInv
  <2>1. m_effects[t][u] = IF u \in m_recorded[t] \/ AtRecord(t, u) THEN 1 ELSE 0
    BY DEF MigInv, OnceInv
  <2>2. ~AtRecord(t, u) /\ v \notin m_recorded[s]
    <3>1. \A x \in Worker : m_worker[x].pc # "record"
      BY <1>1, <1>6, GoesOnKeeps DEF Stepping
    <3>2. m_worker[w].applied = m_recorded[s]
      BY <1>1 DEF MigInv, AloneInv, Stepping, s
    <3> QED
      BY <1>5, <3>1, <3>2 DEF AtRecord
  <2> QED
    BY <1>8, <1>9, <2>1, <2>2
<1> QED
  BY <1>10, <1>11, <1>12, <1>13, <1>14 DEF MigInv

LEMMA RecordKeeps == ASSUME MigInv, NEW w \in Worker, Mig!Record(w) PROVE MigInv'
<1> DEFINE s == m_worker[w].scope
           v == NextStep(w)
           r == [m_worker[w] EXCEPT !.pc = "next", !.applied = @ \cup {v}]
<1>1. m_worker[w] \in MigState /\ s \in Mig!Scope /\ m_worker[w].pc = "record"
      /\ Mig!Missing(w) # {} /\ ~Mig!Gap(w)
  BY DEF MigInv, MigType, MigState, SegmentInv, Mig!Record
<1>2. /\ InitialSegment(m_worker[w].applied) /\ m_worker[w].applied \subseteq m_recorded[s]
      /\ v \in Steps[s] /\ v \in Nat \ {0} /\ v \notin m_worker[w].applied
      /\ m_worker[w].applied = 1..(v - 1)
  BY <1>1, NextStepIsNext DEF MigInv, SegmentInv, Stepping
<1>3. r \in MigState /\ r.pc = "next" /\ r.applied = m_worker[w].applied \cup {v} /\ r.scope = s
  BY <1>1, <1>2 DEF MigState, MigPhase
<1>4. m_worker' = [m_worker EXCEPT ![w] = r]
  <2>1. m_worker' = [m_worker EXCEPT ![w].pc = "next", ![w].applied = @ \cup {v}]
    BY DEF Mig!Record, NextStep
  <2> QED
    BY <1>1, <2>1 DEF MigInv, MigType
<1>5. /\ UNCHANGED <<m_engine, m_lock, m_failed, m_broken, m_beside, m_twice>>
      /\ m_recorded' = [m_recorded EXCEPT ![s] = @ \cup {v}]
      /\ m_engine # "mongo" => v \notin m_recorded[s]
      /\ IF m_engine # "mongo" THEN m_effects' = [m_effects EXCEPT ![s][v] = @ + 1]
         ELSE UNCHANGED m_effects
  BY DEF Mig!Record, Mig!Conflicts, NextStep
<1>6. AtRecord(s, v)
  BY <1>1 DEF AtRecord
<1> HIDE DEF r, s, v
<1>7. GoesOn(w, r)
  BY <1>1, <1>3, <1>4, <1>5 DEF GoesOn, Mig!Running, s
<1>8. /\ m_recorded' \in [Mig!Scope -> SUBSET Nat]
      /\ m_recorded'[s] = m_recorded[s] \cup {v}
      /\ \A t \in Mig!Scope \ {s} : m_recorded'[t] = m_recorded[t]
  BY <1>1, <1>2, <1>5 DEF MigInv, MigType
<1>9. /\ \A t \in Mig!Scope : m_effects'[t] \in [Steps[t] -> Nat]
      /\ DOMAIN m_effects' = Mig!Scope
      /\ m_engine # "mongo" => m_effects'[s][v] = m_effects[s][v] + 1
      /\ \A t \in Mig!Scope : \A u \in Steps[t] :
            t # s \/ u # v \/ m_engine = "mongo" => m_effects'[t][u] = m_effects[t][u]
  <2>1. /\ \A t \in Mig!Scope : m_effects[t] \in [Steps[t] -> Nat]
        /\ DOMAIN m_effects = Mig!Scope
    BY DEF MigInv, MigType
  <2>2. m_engine # "mongo" =>
           m_effects' = [m_effects EXCEPT ![s] = [m_effects[s] EXCEPT ![v] = m_effects[s][v] + 1]]
    BY <1>5
  <2>3. [m_effects[s] EXCEPT ![v] = m_effects[s][v] + 1] \in [Steps[s] -> Nat]
    BY <1>1, <1>2, <2>1
  <2> QED
    BY <1>1, <1>2, <1>5, <2>1, <2>2, <2>3
<1>10. \A x \in Worker : m_worker'[x].pc = "record" =>
          /\ x # w /\ m_worker'[x] = m_worker[x] /\ NextStep(x)' = NextStep(x)
          /\ Stepping(x)
  BY <1>3, <1>7, GoesOnKeeps DEF Stepping
<1>11. MigType'
  <2>1. m_worker' \in [Worker -> MigState]
    BY <1>7, GoesOnKeeps
  <2>2. ASSUME NEW x \in Worker, m_worker'[x].pc = "lock" PROVE m_engine = "postgres"
    <3>1. x # w
      BY <2>2, <1>7, GoesOnKeeps DEF GoesOn
    <3>2. m_worker'[x] = m_worker[x]
      BY <3>1, <1>7, GoesOnKeeps
    <3> QED
      BY <2>2, <3>2 DEF MigInv, MigType
  <2>3. \A t \in Mig!Scope : m_recorded'[t] \subseteq Steps[t]
    BY <1>2, <1>8 DEF MigInv, MigType
  <2> QED
    BY <1>5, <1>8, <1>9, <2>1, <2>2, <2>3 DEF MigInv, MigType
<1>12. InitialSegment(m_recorded[s] \cup {v})
  <2>1. PICK n \in Nat : m_recorded[s] = 1..n
    BY <1>1 DEF MigInv, SegmentInv, InitialSegment
  <2>2. 1..(v - 1) \subseteq 1..n
    BY <1>2, <2>1
  <2>3. v <= n + 1
    <3>1. v - 1 = 0 \/ v - 1 \in 1..(v - 1)
      BY <1>2
    <3> QED
      BY <1>2, <2>2, <3>1
  <2>4. m_recorded[s] \cup {v} = IF v <= n THEN 1..n ELSE 1..(n + 1)
    BY <1>2, <2>1, <2>3
  <2> QED
    BY <2>4 DEF InitialSegment
<1>13. SegmentInv'
  <2>1. \A t \in Mig!Scope : InitialSegment(m_recorded'[t])
    BY <1>8, <1>12 DEF MigInv, SegmentInv
  <2>2. ASSUME NEW x \in Worker, Stepping(x)'
        PROVE  /\ InitialSegment(m_worker'[x].applied)
               /\ m_worker'[x].applied \subseteq m_recorded'[m_worker'[x].scope]
    <3>1. CASE x = w
      <4>1. m_worker'[w] = r
        BY <1>7, GoesOnKeeps
      <4>2. m_worker[w].applied \cup {v} = 1..v
        BY <1>2
      <4>3. InitialSegment(m_worker[w].applied \cup {v})
        BY <1>2, <4>2 DEF InitialSegment
      <4> QED
        BY <1>2, <1>3, <1>8, <3>1, <4>1, <4>3
    <3>2. CASE x # w
      <4>1. m_worker'[x] = m_worker[x] /\ Stepping(x)
        BY <2>2, <3>2, <1>7, GoesOnKeeps
      <4>2. m_worker[x].scope \in Mig!Scope
        BY DEF MigInv, MigType, MigState
      <4>3. m_recorded[m_worker[x].scope] \subseteq m_recorded'[m_worker[x].scope]
        BY <1>8, <4>2
      <4> QED
        BY <4>1, <4>3 DEF MigInv, SegmentInv
    <3> QED
      BY <3>1, <3>2
  <2>3. ASSUME NEW x \in Worker, m_worker'[x].pc = "record"
        PROVE  Mig!Missing(x)' # {} /\ ~Mig!Gap(x)'
    <3>1. x # w /\ m_worker[x].pc = "record"
      BY <1>10, <2>3
    <3>2. Mig!Missing(x)' = Mig!Missing(x) /\ Mig!Gap(x)' = Mig!Gap(x)
      BY <1>7, <3>1, GoesOnKeeps
    <3> QED
      BY <3>1, <3>2 DEF MigInv, SegmentInv
  <2>4. Mig!VersionsAreASegment'
    <3> SUFFICES ASSUME NEW t \in Mig!Scope, NEW x \in Steps[t], m_effects'[t][x] > 0,
                        NEW u \in 1..(x - 1)
                 PROVE  u \in m_recorded'[t]
      BY DEF Mig!VersionsAreASegment
    <3>1. CASE t = s /\ x = v
      BY <1>2, <1>8, <3>1
    <3>2. CASE t # s \/ x # v
      <4>1. u \in m_recorded[t]
        BY <1>9, <3>2 DEF MigInv, SegmentInv, Mig!VersionsAreASegment
      <4> QED
        BY <1>8, <4>1
    <3> QED
      BY <3>1, <3>2
  <2> QED
    BY <2>1, <2>2, <2>3, <2>4 DEF SegmentInv
<1>14. EffectInv'
  <2> SUFFICES ASSUME NEW t \in Mig!Scope, NEW u \in Steps[t]
               PROVE  IF m_engine = "mongo"
                      THEN u \in m_recorded'[t] \/ AtRecord(t, u)' => m_effects'[t][u] > 0
                      ELSE m_effects'[t][u] = IF u \in m_recorded'[t] THEN 1 ELSE 0
    BY <1>5 DEF EffectInv
  <2>1. AtRecord(t, u)' => AtRecord(t, u)
    BY <1>10 DEF AtRecord
  <2>2. CASE m_engine # "mongo" /\ t = s /\ u = v
    <3>1. m_effects[s][v] = 0
      BY <1>1, <1>2, <1>5, <2>2 DEF MigInv, EffectInv
    <3> QED
      BY <1>8, <1>9, <2>2, <3>1
  <2>3. CASE m_engine = "mongo" /\ t = s /\ u = v
    BY <1>1, <1>2, <1>6, <1>9, <2>3 DEF MigInv, EffectInv
  <2>4. CASE t # s \/ u # v
    <3>1. u \in m_recorded'[t] <=> u \in m_recorded[t]
      BY <1>8, <2>4
    <3>2. m_effects'[t][u] = m_effects[t][u]
      BY <1>9, <2>4
    <3> QED
      BY <2>1, <3>1, <3>2 DEF MigInv, EffectInv
  <2> QED
    BY <2>2, <2>3, <2>4
<1>15. ~m_beside => m_worker[w].applied = m_recorded[s] /\ \A x \in Worker \ {w} : ~Stepping(x)
  <2>1. ~m_beside => m_worker[w].applied = m_recorded[s]
    BY <1>1 DEF MigInv, AloneInv, Stepping, s
  <2> QED
    BY <1>7, <2>1, GoesOnKeeps
<1>16. AloneInv'
  <2>1. ASSUME ~m_beside', NEW x \in Worker, Stepping(x)'
        PROVE  m_worker'[x].applied = m_recorded'[m_worker'[x].scope]
    <3>1. x = w
      BY <1>5, <2>1, <1>7, GoesOnKeeps
    <3>2. m_worker'[w] = r
      BY <1>7, GoesOnKeeps
    <3> QED
      BY <1>3, <1>5, <1>8, <1>15, <2>1, <3>1, <3>2
  <2> QED
    BY <1>7, <2>1, GoesOnKeeps DEF SoloInv, AloneInv
<1>17. OnceInv'
  <2> SUFFICES ASSUME m_engine = "mongo", ~m_beside, NEW t \in Mig!Scope, NEW u \in Steps[t],
                      <<t, u>> \notin m_twice
               PROVE  m_effects'[t][u] = IF u \in m_recorded'[t] \/ AtRecord(t, u)' THEN 1 ELSE 0
    BY <1>5 DEF OnceInv
  <2>1. m_effects[t][u] = IF u \in m_recorded[t] \/ AtRecord(t, u) THEN 1 ELSE 0
    BY DEF MigInv, OnceInv
  <2>2. ~AtRecord(t, u)'
    BY <1>10, <1>15 DEF AtRecord
  <2>3. AtRecord(t, u) <=> t = s /\ u = v
    <3>1. \A x \in Worker : m_worker[x].pc = "record" => x = w
      BY <1>15 DEF Stepping
    <3> QED
      BY <1>1, <3>1 DEF AtRecord, s, v
  <2> QED
    BY <1>8, <1>9, <2>1, <2>2, <2>3
<1> QED
  BY <1>11, <1>13, <1>14, <1>16, <1>17 DEF MigInv

LEMMA MigInductive == MigInv /\ [Mig!Next]_(Mig!vars) => MigInv'
<1> SUFFICES ASSUME MigInv, [Mig!Next]_(Mig!vars) PROVE MigInv'
  OBVIOUS
<1>1. CASE UNCHANGED Mig!vars
  <2>1. CASE Worker = {}
    <3>1. \A s \in Mig!Scope, v \in Nat : ~AtRecord(s, v) /\ ~AtRecord(s, v)'
      BY <2>1 DEF AtRecord
    <3> QED
      BY <1>1, <2>1, <3>1, StepAssumption
         DEF Mig!vars, MigInv, MigType, SegmentInv, Mig!VersionsAreASegment, EffectInv, AloneInv, OnceInv
  <2>2. CASE Worker # {}
    BY <1>1, <2>2, ComesAndGoes
  <2> QED
    BY <2>1, <2>2
<1>2. ASSUME NEW w \in Worker,
             \/ Mig!Start(w) \/ Mig!Lock(w) \/ Mig!LockFails(w) \/ Mig!LockLost(w) \/ Mig!Crash(w)
      PROVE  MigInv'
  BY <1>2, ComesAndGoes
<1>3. ASSUME NEW w \in Worker,
             \/ Mig!ScopeDone(w) \/ Mig!FindsGap(w) \/ Mig!UpFails(w) \/ Mig!RecordFails(w)
      PROVE  MigInv'
  BY <1>3, ScopeEnds
<1> QED
  BY <1>1, <1>2, <1>3, ReadKeeps, UpKeeps, RecordKeeps DEF Mig!Next

LEMMA MigInit == Mig!Init => MigInv
<1> SUFFICES ASSUME Mig!Init PROVE MigInv
  OBVIOUS
<1>1. Mig!Down \in MigState /\ Mig!Down.pc = "down"
  BY DEF Mig!Down, MigState, MigPhase, Mig!Scope
<1>2. \A w \in Worker : m_worker[w] = Mig!Down
  BY DEF Mig!Init
<1>3. /\ \A w \in Worker : ~Stepping(w) /\ ~Mig!Running(w) /\ m_worker[w].pc # "record"
      /\ \A s \in Mig!Scope : \A v \in Steps[s] : ~AtRecord(s, v)
  BY <1>1, <1>2 DEF Stepping, Mig!Running, AtRecord
<1>4. MigType
  BY <1>1, <1>2 DEF Mig!Init, MigType
<1>5. SegmentInv
  <2>1. InitialSegment({})
    <3>1. {} = 1..0
      OBVIOUS
    <3> QED
      BY <3>1 DEF InitialSegment
  <2> QED
    BY <1>3, <2>1 DEF Mig!Init, SegmentInv, Mig!VersionsAreASegment
<1>6. EffectInv
  BY <1>3 DEF Mig!Init, EffectInv
<1>7. AloneInv
  BY <1>3 DEF AloneInv
<1>8. OnceInv
  BY <1>3 DEF Mig!Init, OnceInv
<1> QED
  BY <1>4, <1>5, <1>6, <1>7, <1>8 DEF MigInv

(* Where there is a gap a number is left out.                              *)
LEMMA GapMeansHole ==
    ASSUME MigInv, NEW w \in Worker, Stepping(w), Mig!Missing(w) # {}, Mig!Gap(w), NEW n \in Nat
    PROVE  Steps[m_worker[w].scope] # 1..n
<1> SUFFICES ASSUME Steps[m_worker[w].scope] = 1..n PROVE FALSE
  OBVIOUS
<1>1. PICK k \in Nat : m_worker[w].applied = 1..k
  BY DEF MigInv, SegmentInv, InitialSegment
<1>2. /\ NextStep(w) \in 1..n /\ NextStep(w) \notin 1..k
      /\ \A v \in Mig!Missing(w) : NextStep(w) <= v
      /\ m_worker[w].applied # 1..(NextStep(w) - 1)
  BY <1>1, NextStepIsNext DEF MigInv, SegmentInv
<1>3. k + 1 \in Mig!Missing(w)
  BY <1>1, <1>2 DEF Mig!Missing
<1>4. NextStep(w) = k + 1
  BY <1>2, <1>3
<1>5. NextStep(w) - 1 = k
  BY <1>4
<1> QED
  BY <1>1, <1>2, <1>5

LEMMA SameMigCardinality == \A S : Mig!Cardinality(S) = Cardinality(S)
  BY DEF Mig!Cardinality, Cardinality

(* A step that throws is the cause, or the number that is left out; alone, *)
(* no worker finds its step recorded by another.                           *)
LEMMA CauseStep ==
    ASSUME MigInv, Mig!FailureHasCause, [Mig!Next]_(Mig!vars)
    PROVE  Mig!FailureHasCause'
<1> SUFFICES ASSUME ~m_beside', NEW x \in Worker
             PROVE  /\ m_worker'[x].pc = "failed" => Mig!Core \in m_broken'[x]
                    /\ \A p \in m_failed'[x] : \/ p \in m_broken'[x]
                                               \/ Steps[p] # 1..Mig!Cardinality(Steps[p])
  BY DEF Mig!FailureHasCause
<1> DEFINE Caused(p) == p \in m_broken[x] \/ Steps[p] # 1..Mig!Cardinality(Steps[p])
           Caused2(p) == p \in m_broken'[x] \/ Steps[p] # 1..Mig!Cardinality(Steps[p])
<1>0. /\ MigType /\ m_worker \in [Worker -> MigState] /\ m_failed \in [Worker -> SUBSET Plugin]
      /\ m_broken \in [Worker -> SUBSET Mig!Scope]
  BY DEF MigInv, MigType
<1>1. ~m_beside => /\ m_worker[x].pc = "failed" => Mig!Core \in m_broken[x]
                   /\ \A p \in m_failed[x] : Caused(p)
  BY DEF Mig!FailureHasCause
<1>2. ASSUME NEW w \in Worker, Mig!Start(w)
      PROVE  /\ m_worker'[x].pc = "failed" => Mig!Core \in m_broken'[x]
             /\ \A p \in m_failed'[x] : Caused2(p)
  <2>1. CASE x = w
    <3>1. m_failed'[x] = {} /\ m_worker'[x].pc # "failed"
      BY <1>0, <1>2, <2>1 DEF Mig!Start, Mig!Down
    <3> QED
      BY <3>1
  <2>2. CASE x # w
    <3>1. m_failed'[x] = m_failed[x] /\ m_broken'[x] = m_broken[x] /\ m_worker'[x] = m_worker[x]
          /\ ~m_beside
      BY <1>0, <1>2, <2>2 DEF Mig!Start
    <3> QED
      BY <1>1, <3>1
  <2> QED
    BY <2>1, <2>2
<1>3. ASSUME NEW w \in Worker,
             \/ Mig!Lock(w) \/ Mig!LockFails(w) \/ Mig!LockLost(w) \/ Mig!Crash(w)
             \/ Mig!Read(w) \/ Mig!ScopeDone(w) \/ Mig!Up(w) \/ Mig!Record(w)
      PROVE  /\ m_worker'[x].pc = "failed" => Mig!Core \in m_broken'[x]
             /\ \A p \in m_failed'[x] : Caused2(p)
  <2>1. UNCHANGED <<m_failed, m_broken>> /\ ~m_beside
    BY <1>0, <1>3 DEF Mig!Lock, Mig!LockFails, Mig!LockLost, Mig!Crash, Mig!Read, Mig!ScopeDone,
                Mig!Up, Mig!Record, MigType
  <2>2. m_worker'[x].pc = "failed" => m_worker[x].pc = "failed"
    <3>1. CASE Mig!ScopeDone(w)
      BY <1>0, <3>1, GoesTyped DEF Mig!ScopeDone
    <3>2. CASE \/ Mig!Lock(w) \/ Mig!LockFails(w) \/ Mig!LockLost(w) \/ Mig!Crash(w)
               \/ Mig!Read(w) \/ Mig!Up(w) \/ Mig!Record(w)
      BY <1>0, <3>2 DEF Mig!Lock, Mig!LockFails, Mig!LockLost, Mig!Crash, Mig!Read, Mig!At,
                  Mig!Up, Mig!Record, Mig!Down, MigState
    <3> QED
      BY <1>3, <3>1, <3>2
  <2> QED
    BY <1>1, <2>1, <2>2
<1>4. ASSUME NEW w \in Worker, Mig!Throws(w), m_broken[x] \subseteq m_broken'[x], ~m_beside,
             m_worker[w].scope \in m_broken'[w]
                \/ \A n \in Nat : Steps[m_worker[w].scope] # 1..n
      PROVE  /\ m_worker'[x].pc = "failed" => Mig!Core \in m_broken'[x]
             /\ \A p \in m_failed'[x] : Caused2(p)
  <2>1. /\ \E r \in MigState : /\ m_worker' = [m_worker EXCEPT ![w] = r]
                               /\ r.pc = "failed" => m_worker[w].scope = Mig!Core
        /\ \/ UNCHANGED m_failed
           \/ /\ m_worker[w].scope \in Plugin
              /\ m_failed' = [m_failed EXCEPT ![w] = @ \cup {m_worker[w].scope}]
    BY <1>0, <1>4, ThrowsTyped
  <2>2. m_worker'[x].pc = "failed" =>
           m_worker[x].pc = "failed" \/ (x = w /\ m_worker[w].scope = Mig!Core)
    BY <1>0, <2>1
  <2>3. \A p \in m_failed'[x] : p \in m_failed[x] \/ (x = w /\ p = m_worker[w].scope)
    BY <1>0, <2>1
  <2>4. (\A n \in Nat : Steps[m_worker[w].scope] # 1..n) =>
           Steps[m_worker[w].scope] # 1..Mig!Cardinality(Steps[m_worker[w].scope])
    <3>1. m_worker[w].scope \in Mig!Scope
      BY <1>0 DEF MigState
    <3>2. Mig!Cardinality(Steps[m_worker[w].scope]) \in Nat
      BY <3>1, StepAssumption, SameMigCardinality, FS_CardinalityType
    <3> QED
      BY <3>2
  <2>5. x = w => Caused2(m_worker[w].scope)
    BY <1>4, <2>4
  <2>c. \E n \in Nat : Steps[Mig!Core] = 1..n
    <3>1. IsFiniteSet(Steps[Mig!Core])
      BY StepAssumption DEF Mig!Scope
    <3> QED
      BY <3>1, StepAssumption, FS_CardinalityType
  <2>6. x = w /\ m_worker[w].scope = Mig!Core => Mig!Core \in m_broken'[x]
    BY <1>4, <2>c
  <2>7. \A p : Caused(p) => Caused2(p)
    BY <1>4
  <2> HIDE DEF Caused, Caused2
  <2> QED
    BY <1>1, <1>4, <2>2, <2>3, <2>5, <2>6, <2>7
<1>5. ASSUME NEW w \in Worker, Mig!FindsGap(w)
      PROVE  /\ m_worker'[x].pc = "failed" => Mig!Core \in m_broken'[x]
             /\ \A p \in m_failed'[x] : Caused2(p)
  <2>1. Stepping(w) /\ Mig!Missing(w) # {} /\ Mig!Gap(w) /\ Mig!Throws(w)
        /\ m_broken' = m_broken /\ ~m_beside
    BY <1>5 DEF Mig!FindsGap, Stepping
  <2>2. \A n \in Nat : Steps[m_worker[w].scope] # 1..n
    BY <2>1, GapMeansHole
  <2> QED
    BY <1>4, <2>1, <2>2
<1>6. ASSUME NEW w \in Worker, Mig!UpFails(w)
      PROVE  /\ m_worker'[x].pc = "failed" => Mig!Core \in m_broken'[x]
             /\ \A p \in m_failed'[x] : Caused2(p)
  <2>1. Mig!Throws(w) /\ m_broken' = [m_broken EXCEPT ![w] = @ \cup {m_worker[w].scope}]
        /\ ~m_beside
    BY <1>6 DEF Mig!UpFails
  <2>2. m_worker[w].scope \in m_broken'[w] /\ m_broken[x] \subseteq m_broken'[x]
    BY <1>0, <2>1
  <2> QED
    BY <1>4, <2>1, <2>2
<1>7. ASSUME NEW w \in Worker, Mig!RecordFails(w) PROVE FALSE
  <2>1. /\ m_worker[w].pc = "record" /\ ~m_beside
        /\ NextStep(w) \in m_recorded[m_worker[w].scope]
    BY <1>7 DEF Mig!RecordFails, Mig!Conflicts, NextStep
  <2>2. m_worker[w].applied = m_recorded[m_worker[w].scope] /\ Mig!Missing(w) # {}
        /\ InitialSegment(m_worker[w].applied)
    BY <2>1 DEF MigInv, AloneInv, SegmentInv, Stepping
  <2> QED
    BY <1>0, <2>1, <2>2, NextStepIsNext
<1>8. ASSUME UNCHANGED Mig!vars
      PROVE  /\ m_worker'[x].pc = "failed" => Mig!Core \in m_broken'[x]
             /\ \A p \in m_failed'[x] : Caused2(p)
  BY <1>1, <1>8 DEF Mig!vars
<1> HIDE DEF Caused2
<1>9. /\ m_worker'[x].pc = "failed" => Mig!Core \in m_broken'[x]
      /\ \A p \in m_failed'[x] : Caused2(p)
  BY <1>2, <1>3, <1>5, <1>6, <1>7, <1>8 DEF Mig!Next
<1> QED
  BY <1>9 DEF Caused2

(* What is recorded took effect, once and after what comes before it, and  *)
(* a worker fails for a cause: for any workers, plugins and steps, and     *)
(* whatever ends, fails or meets.                                          *)
THEOREM StepsRight == SvcSpec => []StepsAreRight
<1>1. Mig!Init => Mig!FailureHasCause
  BY DEF Mig!Init, Mig!FailureHasCause, Mig!Down
<1>2. MigInv /\ Mig!FailureHasCause => StepsAreRight
  <2> SUFFICES ASSUME MigInv, Mig!FailureHasCause PROVE StepsAreRight
    OBVIOUS
  <2>1. Mig!TypeOK
    <3>1. m_recorded \in [Mig!Scope -> SUBSET UNION {Steps[s] : s \in Mig!Scope}]
      BY DEF MigInv, MigType
    <3>2. \A w \in Worker : m_worker[w] \in MigState
      BY DEF MigInv, MigType
    <3> QED
      BY <3>1, <3>2 DEF MigInv, MigType, Mig!TypeOK, MigState, MigPhase
  <2>2. Mig!RecordedIsApplied
    <3> SUFFICES ASSUME NEW s \in Mig!Scope, NEW v \in Steps[s]
                 PROVE  /\ v \in m_recorded[s] => m_effects[s][v] > 0
                        /\ m_effects[s][v] > 1 =>
                              m_engine = "mongo" /\ (m_beside \/ <<s, v>> \in m_twice)
      BY DEF Mig!RecordedIsApplied
    <3>1. m_effects[s][v] \in Nat
      BY DEF MigInv, MigType
    <3>2. CASE m_engine = "mongo"
      BY <3>1, <3>2 DEF MigInv, EffectInv, OnceInv
    <3>3. CASE m_engine # "mongo"
      BY <3>1, <3>3 DEF MigInv, EffectInv
    <3> QED
      BY <3>2, <3>3
  <2> QED
    BY <2>1, <2>2 DEF StepsAreRight, MigInv, SegmentInv
<1>3. Mig!Spec => [](MigInv /\ Mig!FailureHasCause)
  BY <1>1, MigInit, MigInductive, CauseStep, PTL DEF Mig!Spec
<1> QED
  BY <1>2, <1>3, Each, PTL

-------------------------------------------------------------------------------
(* The scheduler.                                                          *)

JobObject == [name : Name, mode : Jobs!Mode, nextRun : Nat, running : BOOLEAN]
KeptJob == {[mode |-> "none", nextRun |-> 0]} \cup [mode : Jobs!Mode, nextRun : Nat]
KeptJobs == [Name -> KeptJob]

JobsType ==
    /\ j_now \in 1..MaxTime /\ j_calls \in 0..MaxCalls /\ j_crashes \in 0..MaxCrashes
    /\ j_objects \in Seq(JobObject) /\ j_jobs \in [Name -> 0..Len(j_objects)]
    /\ \A n \in Name : j_jobs[n] # 0 => j_objects[j_jobs[n]].name = n
    /\ j_registered \subseteq Name
    /\ j_file.whole = TRUE /\ j_file.jobs \in KeptJobs
    /\ j_starts \in [Name -> Seq([at : Nat, by : Nat])]
    /\ \A n \in Name : Len(j_starts[n]) <= 3

(* There is one save at most, what it writes is what there is unless       *)
(* another was asked for, and the file is what there is when none is.      *)
Saver(s) ==
    \/ s = [Jobs!NoSave EXCEPT !.pc = "mkdir"]
    \/ /\ s.pc \in {"write", "rename"} /\ s.payload \in KeptJobs
       /\ s = [pc |-> s.pc, payload |-> s.payload]
       /\ s.pc = "rename" => j_temp = Jobs!Whole(s.payload)
       /\ ~j_pendingSave => s.payload = Jobs!Payload

SaveInv ==
    /\ j_isSaving \in BOOLEAN /\ j_pendingSave \in BOOLEAN
    /\ j_pendingSave => j_isSaving
    /\ IF j_isSaving THEN \E s : j_saver = {s} /\ Saver(s)
       ELSE j_saver = {} /\ j_file.jobs = Jobs!Payload

(* The next run of a cron job lies on a full interval.                     *)
OnCron(t) == \E q \in Nat : t = q * JobInterval

(* An object after the execution x, and after that and another one.        *)
Calm(o, x) ==
    IF o.running THEN o.nextRun <= x.at
    ELSE o.nextRun >= x.at /\ (o.mode = "cron" => OnCron(o.nextRun))
Spaced(o, x) ==
    IF o.running THEN o.nextRun >= x.at /\ (o.mode = "cron" => OnCron(o.nextRun))
    ELSE o.nextRun >= x.at + JobInterval

(* The last executions of a job, by its object of then, which is not older *)
(* than that of now.                                                       *)
Paced(n, l, k, objects, t) ==
    /\ \A i \in 1..Len(l) : l[i].at <= t /\ l[i].by \in 1..k
    /\ \A i, j \in 1..Len(l) : i < j => l[i].by <= l[j].by
    /\ Len(l) >= 1 => /\ objects[l[Len(l)].by].name = n
                      /\ Calm(objects[l[Len(l)].by], l[Len(l)])
    /\ Len(l) >= 2 /\ l[Len(l) - 1].by = l[Len(l)].by =>
          Spaced(objects[l[Len(l)].by], l[Len(l) - 1])
    /\ Len(l) = 3 /\ l[1].by = l[3].by => l[3].at >= l[1].at + JobInterval

RunInv == \A n \in Name : Paced(n, j_starts[n], j_jobs[n], j_objects, j_now)

LEMMA NextCronIsNext ==
    ASSUME NEW t \in Nat
    PROVE  /\ Jobs!NextCron(t) \in Nat /\ Jobs!NextCron(t) > t /\ OnCron(Jobs!NextCron(t))
           /\ \A r \in Nat : OnCron(r) /\ r <= t => Jobs!NextCron(t) >= r + JobInterval
<1>1. \A u \in Nat, i \in Nat \ {0} :
         u % i \in 0..(i - 1) /\ u = i * (u \div i) + (u % i) /\ u \div i \in Nat
  OBVIOUS
<1>2. JobInterval \in Nat \ {0}
  BY JobAssumption
<1>3. PICK q \in Nat, m \in Nat : m < JobInterval /\ t = q * JobInterval + m /\ t % JobInterval = m
  <2>1. t % JobInterval \in 0..(JobInterval - 1)
    BY <1>1, <1>2
  <2>2. t = JobInterval * (t \div JobInterval) + (t % JobInterval) /\ t \div JobInterval \in Nat
    BY <1>1, <1>2
  <2>3. JobInterval * (t \div JobInterval) = (t \div JobInterval) * JobInterval
    BY <1>2, <2>2
  <2> QED
    BY <1>2, <2>1, <2>2, <2>3
<1>4. Jobs!NextCron(t) = q * JobInterval + JobInterval
  BY <1>2, <1>3 DEF Jobs!NextCron
<1>5. q * JobInterval + JobInterval = (q + 1) * JobInterval /\ q * JobInterval \in Nat
  BY <1>2
<1>6. OnCron(Jobs!NextCron(t))
  BY <1>4, <1>5 DEF OnCron
<1>7. ASSUME NEW p \in Nat, p * JobInterval <= t
      PROVE  p * JobInterval + JobInterval <= q * JobInterval + JobInterval
  <2>1. \A a \in Nat, b \in Nat, c \in Nat, i \in Nat \ {0} :
           c < i /\ a * i <= b * i + c => a * i + i <= b * i + i
    <3> SUFFICES ASSUME NEW a \in Nat, NEW b \in Nat, NEW c \in Nat, NEW i \in Nat \ {0},
                        c < i, a * i <= b * i + c
                 PROVE  a * i + i <= b * i + i
      OBVIOUS
    <3> QED
      OBVIOUS
  <2> QED
    BY <1>2, <1>3, <1>7, <2>1
<1>8. ASSUME NEW r \in Nat, OnCron(r), r <= t
      PROVE  Jobs!NextCron(t) >= r + JobInterval
  <2>1. PICK p \in Nat : r = p * JobInterval
    BY <1>8 DEF OnCron
  <2>2. r + JobInterval <= q * JobInterval + JobInterval
    BY <1>7, <1>8, <2>1
  <2> QED
    BY <1>2, <1>4, <1>5, <1>8, <2>2
<1>9. Jobs!NextCron(t) \in Nat /\ Jobs!NextCron(t) > t
  BY <1>2, <1>3, <1>4, <1>5
<1> QED
  BY <1>6, <1>8, <1>9

LEMMA PayloadType == JobsType => Jobs!Payload \in KeptJobs
<1> SUFFICES ASSUME JobsType, NEW n \in Name
             PROVE  (IF j_jobs[n] = 0 THEN Jobs!None[n]
                     ELSE [mode |-> j_objects[j_jobs[n]].mode,
                           nextRun |-> j_objects[j_jobs[n]].nextRun]) \in KeptJob
  BY DEF Jobs!Payload, KeptJobs
<1>1. CASE j_jobs[n] = 0
  BY <1>1 DEF Jobs!None, KeptJob
<1>2. CASE j_jobs[n] # 0
  <2>1. j_jobs[n] \in 1..Len(j_objects)
    BY <1>2 DEF JobsType
  <2>2. j_objects[j_jobs[n]] \in JobObject
    BY <2>1 DEF JobsType
  <2> QED
    BY <1>2, <2>2 DEF JobObject, KeptJob
<1> QED
  BY <1>1, <1>2

(* A change that asks for a save is kept whatever it is.                   *)
LEMMA SaveKeeps ==
    ASSUME SaveInv, Jobs!Save, UNCHANGED <<j_temp, j_file>>
    PROVE  SaveInv'
<1>1. CASE j_isSaving
  BY <1>1 DEF Jobs!Save, SaveInv, Saver
<1>2. CASE ~j_isSaving
  BY <1>2 DEF Jobs!Save, SaveInv, Saver
<1> QED
  BY <1>1, <1>2

LEMMA SaverKeeps ==
    ASSUME SaveInv, UNCHANGED <<j_isSaving, j_pendingSave, j_saver, j_temp, j_file>>,
           Jobs!Payload' = Jobs!Payload
    PROVE  SaveInv'
  BY DEF SaveInv, Saver

LEMMA ScheduleKeeps ==
    ASSUME JobsType, SaveInv, RunInv,
           NEW n \in Name, NEW mode \in Jobs!Mode, Jobs!Schedule(n, mode)
    PROVE  JobsType' /\ SaveInv' /\ RunInv'
<1> DEFINE o == [name |-> n, mode |-> mode, nextRun |-> Jobs!FirstRun(mode), running |-> FALSE]
           L == Len(j_objects)
<1>1. j_now \in Nat /\ JobInterval \in Nat
  BY JobAssumption DEF JobsType
<1>2. Jobs!FirstRun(mode) \in Nat
  BY <1>1, NextCronIsNext DEF Jobs!FirstRun
<1>3. o \in JobObject
  BY <1>2 DEF JobObject
<1>4. j_objects' = Append(j_objects, o) /\ j_jobs' = [j_jobs EXCEPT ![n] = L + 1]
      /\ j_registered' = j_registered \cup {n} /\ j_calls < MaxCalls /\ j_calls' = j_calls + 1
      /\ UNCHANGED <<j_now, j_temp, j_file, j_starts, j_crashes>> /\ Jobs!Save
  BY DEF Jobs!Schedule
<1> HIDE DEF o
<1>5. j_objects \in Seq(JobObject) /\ L \in Nat
  BY DEF JobsType
<1>6. /\ j_objects' \in Seq(JobObject) /\ Len(j_objects') = L + 1
      /\ \A k \in 1..L : j_objects'[k] = j_objects[k]
      /\ j_objects'[L + 1] = o
  BY <1>3, <1>4, <1>5
<1>7. j_jobs \in [Name -> 0..L]
  BY DEF JobsType
<1>8. j_jobs' \in [Name -> 0..Len(j_objects')]
  BY <1>4, <1>5, <1>6, <1>7
<1>9. ASSUME NEW m \in Name, j_jobs'[m] # 0 PROVE j_objects'[j_jobs'[m]].name = m
  <2>1. CASE m = n
    <3>1. j_jobs'[m] = L + 1
      BY <1>4, <1>7, <2>1
    <3> QED
      BY <1>6, <2>1, <3>1 DEF o
  <2>2. CASE m # n
    <3>1. j_jobs'[m] = j_jobs[m] /\ j_jobs[m] \in 1..L
      BY <1>4, <1>5, <1>7, <1>9, <2>2
    <3>2. j_objects[j_jobs[m]].name = m
      BY <3>1 DEF JobsType
    <3> QED
      BY <1>6, <3>1, <3>2
  <2> QED
    BY <2>1, <2>2
<1>10. JobsType'
  <2>1. /\ j_now' \in 1..MaxTime /\ j_calls' \in 0..MaxCalls /\ j_crashes' \in 0..MaxCrashes
        /\ j_registered' \subseteq Name /\ j_file'.whole = TRUE /\ j_file'.jobs \in KeptJobs
        /\ j_starts' \in [Name -> Seq([at : Nat, by : Nat])]
        /\ \A m \in Name : Len(j_starts'[m]) <= 3
    BY <1>4, JobAssumption DEF JobsType
  <2> QED
    BY <1>6, <1>8, <1>9, <2>1 DEF JobsType
<1>11. SaveInv'
  BY <1>4, SaveKeeps
<1>12. ASSUME NEW m \in Name PROVE Paced(m, j_starts'[m], j_jobs'[m], j_objects', j_now')
  <2> DEFINE l == j_starts[m]
  <2>1. Paced(m, l, j_jobs[m], j_objects, j_now)
    BY DEF RunInv
  <2>2. l \in Seq([at : Nat, by : Nat]) /\ Len(l) \in Nat
    BY DEF JobsType
  <2>3. j_jobs[m] \in 0..L /\ j_jobs'[m] \in Nat /\ j_jobs[m] <= j_jobs'[m]
    BY <1>4, <1>5, <1>7
  <2> HIDE DEF l
  <2>7. \A i \in 1..Len(l) : l[i].by \in 1..j_jobs[m]
    BY <2>1 DEF Paced
  <2>4. \A i \in 1..Len(l) : l[i].by \in 1..j_jobs[m] /\ l[i].by \in 1..L /\ l[i].by \in 1..j_jobs'[m]
    BY <1>5, <2>3, <2>7
  <2>5. Len(l) >= 1 => Len(l) \in 1..Len(l) /\ j_objects'[l[Len(l)].by] = j_objects[l[Len(l)].by]
    BY <1>6, <2>2, <2>4
  <2>6. Paced(m, l, j_jobs'[m], j_objects', j_now)
    BY <2>1, <2>2, <2>4, <2>5 DEF Paced
  <2> QED
    BY <1>4, <2>6 DEF l
<1> QED
  BY <1>10, <1>11, <1>12 DEF RunInv

LEMMA TickKeeps ==
    ASSUME JobsType, SaveInv, RunInv, Jobs!Tick
    PROVE  JobsType' /\ SaveInv' /\ RunInv'
<1>1. j_now < MaxTime /\ j_now' = j_now + 1 /\ j_now \in Nat
      /\ UNCHANGED <<j_jobs, j_objects, j_registered, j_saver, j_isSaving, j_pendingSave, j_temp,
                     j_file, j_starts, j_calls, j_crashes>>
  BY DEF Jobs!Tick, JobsType
<1>2. JobsType'
  BY <1>1, JobAssumption DEF JobsType
<1>3. Jobs!Payload' = Jobs!Payload
  BY <1>1 DEF Jobs!Payload, Jobs!None
<1>4. SaveInv'
  BY <1>1, <1>3, SaverKeeps
<1>5. ASSUME NEW m \in Name PROVE Paced(m, j_starts'[m], j_jobs'[m], j_objects', j_now')
  <2>1. Paced(m, j_starts[m], j_jobs[m], j_objects, j_now)
    BY DEF RunInv
  <2>4. j_starts[m] \in Seq([at : Nat, by : Nat])
    BY DEF JobsType
  <2>5. \A i \in 1..Len(j_starts[m]) : j_starts[m][i] \in [at : Nat, by : Nat]
    BY <2>4, Entries
  <2>2. \A i \in 1..Len(j_starts[m]) : j_starts[m][i].at \in Nat
    BY <2>5
  <2>3. Paced(m, j_starts[m], j_jobs[m], j_objects, j_now')
    BY <1>1, <2>1, <2>2 DEF Paced
  <2> QED
    BY <1>1, <2>3
<1> QED
  BY <1>2, <1>4, <1>5 DEF RunInv

LEMMA RegisterKeeps ==
    ASSUME JobsType, SaveInv, RunInv, NEW n \in Name, Jobs!RegisterTask(n)
    PROVE  JobsType' /\ SaveInv' /\ RunInv'
<1>1. j_registered' = j_registered \cup {n}
      /\ UNCHANGED <<j_now, j_jobs, j_objects, j_saver, j_isSaving, j_pendingSave, j_temp,
                     j_file, j_starts, j_calls, j_crashes>>
  BY DEF Jobs!RegisterTask
<1>2. JobsType'
  BY <1>1 DEF JobsType
<1>3. Jobs!Payload' = Jobs!Payload
  BY <1>1 DEF Jobs!Payload, Jobs!None
<1>4. SaveInv'
  BY <1>1, <1>3, SaverKeeps
<1> QED
  BY <1>1, <1>2, <1>4 DEF RunInv

(* The steps of a save leave the jobs.                                     *)
LEMMA SavingKeeps ==
    ASSUME JobsType, SaveInv, RunInv, NEW s \in j_saver,
           Jobs!Write(s) \/ Jobs!Written(s) \/ Jobs!Rename(s)
    PROVE  JobsType' /\ SaveInv' /\ RunInv'
<1>1. UNCHANGED <<j_now, j_jobs, j_objects, j_registered, j_starts, j_calls, j_crashes>>
  BY DEF Jobs!Write, Jobs!Written, Jobs!Rename
<1>2. Jobs!Payload' = Jobs!Payload
  BY <1>1 DEF Jobs!Payload, Jobs!None
<1>3. j_isSaving = TRUE /\ j_saver = {s} /\ Saver(s)
  BY DEF SaveInv
<1>4. j_isSaving \in BOOLEAN /\ j_pendingSave \in BOOLEAN
  BY DEF SaveInv
<1>5. RunInv'
  BY <1>1 DEF RunInv
<1>6. Jobs!Payload \in KeptJobs
  BY PayloadType
<1>7. CASE Jobs!Write(s)
  <2> DEFINE t == [pc |-> "write", payload |-> Jobs!Payload]
  <2>1. j_saver' = {t} /\ UNCHANGED <<j_isSaving, j_pendingSave, j_file>>
    BY <1>3, <1>7 DEF Jobs!Write
  <2>2. ASSUME NEW x, x = t PROVE Saver(x)'
    BY <1>2, <1>6, <2>1, <2>2 DEF Saver
  <2>3. SaveInv'
    BY <1>3, <1>4, <2>1, <2>2 DEF SaveInv
  <2>4. JobsType'
    BY <1>1, <2>1 DEF JobsType
  <2> QED
    BY <1>5, <2>3, <2>4
<1>8. CASE Jobs!Written(s)
  <2> DEFINE t == [s EXCEPT !.pc = "rename"]
  <2>1. /\ s.pc = "write" /\ j_saver' = {t} /\ j_temp' = Jobs!Whole(s.payload)
        /\ UNCHANGED <<j_isSaving, j_pendingSave, j_file>>
    BY <1>3, <1>8 DEF Jobs!Written, Jobs!Step
  <2>2. s = [pc |-> s.pc, payload |-> s.payload] /\ s.payload \in KeptJobs
        /\ (~j_pendingSave => s.payload = Jobs!Payload)
    BY <1>3, <2>1 DEF Saver, Jobs!NoSave
  <2>3. t = [pc |-> "rename", payload |-> s.payload]
    BY <2>2
  <2>4. Saver(t)'
    BY <1>2, <2>1, <2>2, <2>3 DEF Saver
  <2>5. SaveInv'
    BY <1>3, <1>4, <2>1, <2>4 DEF SaveInv
  <2>6. JobsType'
    BY <1>1, <2>1 DEF JobsType
  <2> QED
    BY <1>5, <2>5, <2>6
<1>9. CASE Jobs!Rename(s)
  <2>1. /\ s.pc = "rename" /\ j_file' = j_temp /\ j_isSaving' = j_pendingSave
        /\ j_pendingSave' = FALSE /\ UNCHANGED j_temp
        /\ j_saver' = (j_saver \ {s})
              \cup (IF j_pendingSave THEN {[Jobs!NoSave EXCEPT !.pc = "mkdir"]} ELSE {})
    BY <1>9 DEF Jobs!Rename
  <2>2. s.payload \in KeptJobs /\ (~j_pendingSave => s.payload = Jobs!Payload)
        /\ j_temp = Jobs!Whole(s.payload)
    BY <1>3, <2>1 DEF Saver, Jobs!NoSave
  <2>3. j_file'.whole = TRUE /\ j_file'.jobs = s.payload
    BY <2>1, <2>2 DEF Jobs!Whole
  <2>4. SaveInv'
    <3>1. CASE j_pendingSave
      <4>1. j_saver' = {[Jobs!NoSave EXCEPT !.pc = "mkdir"]} /\ j_isSaving' = TRUE
        BY <1>3, <1>4, <2>1, <3>1
      <4> QED
        BY <2>1, <4>1 DEF SaveInv, Saver
    <3>2. CASE ~j_pendingSave
      <4>1. j_saver' = {} /\ j_isSaving' = FALSE /\ j_file'.jobs = Jobs!Payload'
        BY <1>2, <1>3, <1>4, <2>1, <2>2, <2>3, <3>2
      <4> QED
        BY <2>1, <4>1 DEF SaveInv
    <3> QED
      BY <3>1, <3>2
  <2>5. JobsType'
    BY <1>1, <2>2, <2>3 DEF JobsType
  <2> QED
    BY <1>5, <2>4, <2>5
<1> QED
  BY <1>7, <1>8, <1>9

(* An execution that begins: the object is due, so no earlier than its next*)
(* run, which the last execution of the object moved on.                   *)
LEMMA ExecuteKeeps ==
    ASSUME JobsType, SaveInv, RunInv, NEW n \in Name, Jobs!Execute(n)
    PROVE  JobsType' /\ SaveInv' /\ RunInv'
<1> DEFINE k == j_jobs[n]
           L == Len(j_objects)
           o == j_objects[k]
           p == [j_objects[k] EXCEPT !.running = TRUE]
           x == [at |-> j_now, by |-> k]
           l == j_starts[n]
<1>1. /\ k # 0 /\ ~o.running /\ o.nextRun <= j_now
      /\ j_objects' = [j_objects EXCEPT ![k].running = TRUE]
      /\ j_starts' = [j_starts EXCEPT ![n] =
                      Append(IF Len(l) < 3 THEN l ELSE Tail(l), x)]
      /\ UNCHANGED <<j_now, j_jobs, j_registered, j_saver, j_isSaving, j_pendingSave, j_temp,
                     j_file, j_calls, j_crashes>>
  BY DEF Jobs!Execute, Jobs!Due
<1>2. j_objects \in Seq(JobObject) /\ L \in Nat /\ j_jobs \in [Name -> 0..L] /\ o.name = n
      /\ j_now \in Nat /\ j_starts \in [Name -> Seq([at : Nat, by : Nat])] /\ Len(l) <= 3
  BY <1>1 DEF JobsType
<1>3. k \in 1..L /\ o \in JobObject
  BY <1>1, <1>2
<1>4. p \in JobObject /\ p = [o EXCEPT !.running = TRUE] /\ p.running = TRUE
      /\ p.name = n /\ p.mode = o.mode /\ p.nextRun = o.nextRun /\ o.nextRun \in Nat
  BY <1>2, <1>3 DEF JobObject
<1>5. /\ j_objects' \in Seq(JobObject) /\ Len(j_objects') = L
      /\ j_objects'[k] = p /\ \A i \in 1..L : i # k => j_objects'[i] = j_objects[i]
  <2>1. j_objects' = [j_objects EXCEPT ![k] = p]
    BY <1>1
  <2>2. j_objects \in Seq(JobObject) /\ k \in 1..Len(j_objects) /\ p \in JobObject
    BY <1>2, <1>3, <1>4
  <2> HIDE DEF p, k, o
  <2>3. /\ [j_objects EXCEPT ![k] = p] \in Seq(JobObject)
        /\ Len([j_objects EXCEPT ![k] = p]) = Len(j_objects)
        /\ [j_objects EXCEPT ![k] = p][k] = p
        /\ \A i \in 1..Len(j_objects) : i # k => [j_objects EXCEPT ![k] = p][i] = j_objects[i]
    BY <2>2, Replaced
  <2> QED
    BY <2>1, <2>3
<1>6. l \in Seq([at : Nat, by : Nat]) /\ x \in [at : Nat, by : Nat]
  BY <1>2, <1>3
<1>7. PICK e \in Nat : e = Len(l)
  BY <1>6, Entries
<1>8. PICK r \in Seq([at : Nat, by : Nat]), c \in 1..3, d \in Nat :
         /\ r = Append(IF Len(l) < 3 THEN l ELSE Tail(l), x)
         /\ Len(r) = c /\ r[c] = x /\ c + d = e + 1
         /\ \A i \in 1..(c - 1) : i + d \in 1..e /\ r[i] = l[i + d]
  <2>1. Len(l) <= 3
    BY <1>2
  <2> DEFINE T == [at : Nat, by : Nat]
  <2>3. l \in Seq(T) /\ x \in T
    BY <1>6
  <2> HIDE DEF l, x, T
  <2>2. \E q \in Seq(T), c \in 1..3, d \in Nat :
           /\ q = Append(IF Len(l) < 3 THEN l ELSE Tail(l), x)
           /\ Len(q) = c /\ q[c] = x /\ c + d = Len(l) + 1
           /\ \A i \in 1..(c - 1) : i + d \in 1..Len(l) /\ q[i] = l[i + d]
    BY <2>1, <2>3, LastThree
  <2> QED
    BY <1>7, <2>2 DEF T
<1>9. j_starts' \in [Name -> Seq([at : Nat, by : Nat])] /\ j_starts'[n] = r
      /\ \A m \in Name : m # n => j_starts'[m] = j_starts[m]
  <2>1. j_starts' = [j_starts EXCEPT ![n] = r]
    BY <1>1, <1>8
  <2> QED
    BY <1>2, <2>1
<1> HIDE DEF p, l, x
<1>10. ASSUME NEW i \in 1..L
       PROVE  /\ j_objects'[i].name = j_objects[i].name /\ j_objects'[i].mode = j_objects[i].mode
              /\ j_objects'[i].nextRun = j_objects[i].nextRun
  <2>1. CASE i = k
    BY <1>2, <1>4, <1>5, <2>1
  <2>2. CASE i # k
    BY <1>5, <2>2
  <2> QED
    BY <2>1, <2>2
<1>11. JobsType'
  <2>1. \A m \in Name : j_jobs'[m] # 0 => j_objects'[j_jobs'[m]].name = m
    <3> SUFFICES ASSUME NEW m \in Name, j_jobs'[m] # 0 PROVE j_objects'[j_jobs'[m]].name = m
      OBVIOUS
    <3>1. j_jobs'[m] = j_jobs[m] /\ j_jobs[m] \in 1..L
      BY <1>1, <1>2
    <3>2. j_objects[j_jobs[m]].name = m
      BY <3>1 DEF JobsType
    <3> QED
      BY <1>10, <3>1, <3>2
  <2>2. \A m \in Name : Len(j_starts'[m]) <= 3
    <3> SUFFICES ASSUME NEW m \in Name PROVE Len(j_starts'[m]) <= 3
      OBVIOUS
    <3>1. CASE m = n
      <4>1. j_starts'[m] = r /\ Len(r) = c
        BY <1>8, <1>9, <3>1
      <4> QED
        BY <4>1
    <3>2. CASE m # n
      <4>1. Len(j_starts[m]) <= 3
        BY DEF JobsType
      <4> QED
        BY <1>9, <3>2, <4>1
    <3> QED
      BY <3>1, <3>2
  <2>3. /\ j_now' \in 1..MaxTime /\ j_calls' \in 0..MaxCalls /\ j_crashes' \in 0..MaxCrashes
        /\ j_registered' \subseteq Name /\ j_file'.whole = TRUE /\ j_file'.jobs \in KeptJobs
    BY <1>1 DEF JobsType
  <2>4. j_jobs' \in [Name -> 0..Len(j_objects')]
    BY <1>1, <1>2, <1>5
  <2> QED
    BY <1>5, <1>9, <2>1, <2>2, <2>3, <2>4 DEF JobsType
<1>12. Jobs!Payload' = Jobs!Payload
  <2>1. ASSUME NEW m \in Name, j_jobs[m] # 0
        PROVE  j_objects'[j_jobs[m]].mode = j_objects[j_jobs[m]].mode
               /\ j_objects'[j_jobs[m]].nextRun = j_objects[j_jobs[m]].nextRun
    <3>1. j_jobs[m] \in 1..L
      BY <1>2, <2>1
    <3> QED
      BY <1>10, <3>1
  <2> QED
    BY <1>1, <2>1 DEF Jobs!Payload, Jobs!None
<1>13. SaveInv'
  BY <1>1, <1>12, SaverKeeps
<1>14. ASSUME NEW m \in Name, m # n PROVE Paced(m, j_starts'[m], j_jobs'[m], j_objects', j_now')
  <2> DEFINE f == j_starts[m]
  <2>1. Paced(m, f, j_jobs[m], j_objects, j_now)
    BY DEF RunInv
  <2>2. f \in Seq([at : Nat, by : Nat]) /\ Len(f) \in Nat /\ j_jobs[m] \in 0..L
    BY <1>2
  <2> HIDE DEF f
  <2>3. ASSUME Len(f) >= 1 PROVE j_objects'[f[Len(f)].by] = j_objects[f[Len(f)].by]
    <3>1. f[Len(f)].by \in 1..j_jobs[m] /\ j_objects[f[Len(f)].by].name = m
      BY <2>1, <2>2, <2>3 DEF Paced
    <3>2. f[Len(f)].by # k
      BY <1>2, <1>14, <3>1
    <3> QED
      BY <1>5, <2>2, <3>1, <3>2
  <2>4. Paced(m, f, j_jobs[m], j_objects', j_now)
    BY <2>1, <2>2, <2>3 DEF Paced
  <2> QED
    BY <1>1, <1>9, <1>14, <2>4 DEF f
<1>15. Paced(n, r, k, j_objects', j_now)
  <2>1. Paced(n, l, k, j_objects, j_now)
    BY DEF RunInv, l
  <2>2. x.at = j_now /\ x.by = k /\ k \in Nat
    BY <1>2 DEF x
  <2>3. ASSUME NEW i \in 1..e
        PROVE  l[i].at \in Nat /\ l[i].at <= j_now /\ l[i].by \in 1..k /\ l[i].by \in Nat
    <3>1. l[i].at <= j_now /\ l[i].by \in 1..k
      BY <1>7, <2>1 DEF Paced
    <3>2. l[i] \in [at : Nat, by : Nat]
      BY <1>6, <1>7, Entries
    <3> QED
      BY <3>1, <3>2
  <2>4. ASSUME NEW i \in 1..e, NEW j \in 1..e, i < j PROVE l[i].by <= l[j].by
    BY <1>7, <2>1, <2>4 DEF Paced
  <2>5. ASSUME NEW i \in 1..c
        PROVE  r[i].at <= j_now /\ r[i].by \in 1..k /\ r[i].by \in Nat
    <3>1. CASE i \in 1..(c - 1)
      BY <1>8, <2>3, <3>1
    <3>2. CASE i = c
      BY <1>2, <1>3, <1>8, <2>2, <3>2
    <3> QED
      BY <3>1, <3>2
  <2>6. ASSUME NEW i \in 1..c, NEW j \in 1..c, i < j PROVE r[i].by <= r[j].by
    <3>1. CASE j \in 1..(c - 1)
      <4>1. i \in 1..(c - 1) /\ i + d < j + d
        BY <2>6, <3>1
      <4> QED
        BY <1>8, <2>4, <3>1, <4>1
    <3>2. CASE j = c
      <4>1. r[j].by = k /\ r[i].by \in 1..k
        BY <1>8, <2>2, <2>5, <3>2
      <4> QED
        BY <2>2, <4>1
    <3> QED
      BY <3>1, <3>2
  <2>7. /\ r[c] = x /\ j_objects'[r[c].by] = p /\ p.name = n /\ Calm(p, r[c])
    BY <1>1, <1>2, <1>4, <1>5, <1>8, <2>2 DEF Calm
  \* The entry before the new one is the last of before.
  <2>8. ASSUME c >= 2 PROVE e \in 1..e /\ r[c - 1] = l[e] /\ e >= 1
    <3>1. c - 1 \in 1..(c - 1) /\ c - 1 + d = e
      BY <1>8, <2>8
    <3>2. r[c - 1] = l[c - 1 + d] /\ c - 1 + d \in 1..e
      BY <1>8, <3>1
    <3> QED
      BY <3>1, <3>2
  <2>9. ASSUME c >= 2, r[c - 1].by = r[c].by PROVE Spaced(p, r[c - 1])
    <3>1. r[c - 1] = l[e] /\ l[e].by = k /\ e >= 1
      BY <2>2, <2>7, <2>8, <2>9
    <3>2. Calm(o, l[e])
      BY <1>7, <2>1, <3>1 DEF Paced
    <3>3. o.nextRun >= l[e].at /\ (o.mode = "cron" => OnCron(o.nextRun))
      BY <1>1, <3>2 DEF Calm
    <3> QED
      BY <1>4, <3>1, <3>3 DEF Spaced
  <2>10. ASSUME c = 3, r[1].by = r[3].by PROVE r[3].at >= r[1].at + JobInterval
    <3>1. 2 + d = e /\ 1 \in 1..(c - 1) /\ 2 \in 1..(c - 1)
      BY <1>8, <2>10
    <3>2. r[1] = l[1 + d] /\ r[2] = l[2 + d] /\ 1 + d \in 1..e /\ 2 + d \in 1..e
      BY <1>8, <3>1
    <3>3. e >= 2 /\ r[1] = l[e - 1] /\ r[2] = l[e] /\ e - 1 \in 1..e /\ e \in 1..e /\ e - 1 < e
      BY <3>1, <3>2
    <3>4. l[e - 1].by = k
      BY <2>2, <2>7, <2>10, <3>3
    <3>5. l[e].by = k
      <4>1. l[e - 1].by <= l[e].by
        BY <2>4, <3>3
      <4>2. l[e].by \in 1..k
        BY <2>3, <3>3
      <4> QED
        BY <2>2, <3>4, <4>1, <4>2
    <3>6. Spaced(o, l[e - 1])
      BY <1>7, <2>1, <3>3, <3>4, <3>5 DEF Paced
    <3>7. o.nextRun >= l[e - 1].at + JobInterval /\ l[e - 1].at \in Nat
      BY <1>1, <2>3, <3>3, <3>6 DEF Spaced
    <3>8. r[3].at = j_now /\ r[1].at = l[e - 1].at
      BY <2>2, <2>7, <2>10, <3>3
    <3>9. o.nextRun <= j_now /\ o.nextRun \in Nat /\ j_now \in Nat /\ JobInterval \in Nat
      BY <1>1, <1>2, <1>4, JobAssumption
    <3> QED
      BY <3>7, <3>8, <3>9
  <2>11. Len(r) = c
    BY <1>8
  <2> QED
    BY <2>5, <2>6, <2>7, <2>9, <2>10, <2>11 DEF Paced
<1>16. RunInv'
  <2> SUFFICES ASSUME NEW m \in Name PROVE Paced(m, j_starts'[m], j_jobs'[m], j_objects', j_now')
    BY DEF RunInv
  <2>1. CASE m = n
    BY <1>1, <1>9, <1>15, <2>1
  <2>2. CASE m # n
    BY <1>14, <2>2
  <2> QED
    BY <2>1, <2>2
<1> QED
  BY <1>11, <1>13, <1>16

(* What an execution that ends sets: the next run is not past, and an      *)
(* interval from that of before.                                           *)
LEMMA FinishKeeps ==
    ASSUME JobsType, SaveInv, RunInv, NEW k \in DOMAIN j_objects, Jobs!Finish(k)
    PROVE  JobsType' /\ SaveInv' /\ RunInv'
<1> DEFINE o == j_objects[k]
           v == Jobs!NextRun(k)
           p == [[o EXCEPT !.nextRun = v] EXCEPT !.running = FALSE]
           L == Len(j_objects)
<1>1. j_objects \in Seq(JobObject) /\ L \in Nat /\ j_jobs \in [Name -> 0..L] /\ j_now \in Nat
      /\ JobInterval \in Nat \ {0} /\ k \in 1..L
  BY JobAssumption DEF JobsType
<1>2. o \in JobObject
  BY <1>1, Entries
<1>3. o.name \in Name /\ o.mode \in Jobs!Mode /\ o.nextRun \in Nat
  BY <1>2 DEF JobObject
<1>4. o.running /\ Jobs!Save
      /\ UNCHANGED <<j_now, j_jobs, j_registered, j_temp, j_file, j_starts, j_calls, j_crashes>>
  BY DEF Jobs!Finish
<1>5. j_objects' = [j_objects EXCEPT ![k] = p]
  <2>1. j_objects' = [j_objects EXCEPT ![k].nextRun = v, ![k].running = FALSE]
    BY DEF Jobs!Finish
  <2>2. j_objects' = [j_objects EXCEPT ![k] = [[o EXCEPT !.nextRun = v] EXCEPT !.running = FALSE]]
    BY <1>1, <2>1
  <2> QED
    BY <2>2
<1>6. v \in Nat /\ v >= j_now /\ (o.mode = "cron" => OnCron(v))
  <2>1. CASE o.mode = "cron"
    <3>1. v = Jobs!NextCron(j_now)
      BY <2>1 DEF Jobs!NextRun
    <3> HIDE DEF v
    <3> QED
      BY <1>1, <3>1, NextCronIsNext
  <2>2. CASE o.mode # "cron"
    <3>1. v = IF o.nextRun + JobInterval < j_now THEN j_now + JobInterval
              ELSE o.nextRun + JobInterval
      BY <2>2 DEF Jobs!NextRun
    <3> HIDE DEF v
    <3> QED
      BY <1>1, <1>3, <2>2, <3>1
  <2> QED
    BY <2>1, <2>2
<1>7. ASSUME o.nextRun <= j_now, o.mode = "cron" => OnCron(o.nextRun)
      PROVE  v >= o.nextRun + JobInterval
  <2>1. CASE o.mode = "cron"
    <3>1. v = Jobs!NextCron(j_now)
      BY <2>1 DEF Jobs!NextRun
    <3> HIDE DEF v
    <3> QED
      BY <1>1, <1>3, <1>7, <2>1, <3>1, NextCronIsNext
  <2>2. CASE o.mode # "cron"
    <3>1. v = IF o.nextRun + JobInterval < j_now THEN j_now + JobInterval
              ELSE o.nextRun + JobInterval
      BY <2>2 DEF Jobs!NextRun
    <3> HIDE DEF v
    <3> QED
      BY <1>1, <1>3, <1>7, <3>1
  <2> QED
    BY <2>1, <2>2
<1> HIDE DEF v
<1>8. p \in JobObject /\ p.name = o.name /\ p.mode = o.mode /\ p.nextRun = v /\ p.running = FALSE
  <2> DEFINE q == [o EXCEPT !.nextRun = v]
  <2>1. q \in JobObject /\ q.name = o.name /\ q.mode = o.mode /\ q.nextRun = v
    <3> HIDE DEF o
    <3> QED
      BY <1>2, <1>6 DEF JobObject
  <2> HIDE DEF q, o
  <2>2. \A r \in JobObject : /\ [r EXCEPT !.running = FALSE] \in JobObject
                            /\ [r EXCEPT !.running = FALSE].name = r.name
                            /\ [r EXCEPT !.running = FALSE].mode = r.mode
                            /\ [r EXCEPT !.running = FALSE].nextRun = r.nextRun
                            /\ [r EXCEPT !.running = FALSE].running = FALSE
    BY DEF JobObject
  <2>3. p = [q EXCEPT !.running = FALSE]
    BY DEF q
  <2> HIDE DEF p
  <2> QED
    BY <2>1, <2>2, <2>3
<1> HIDE DEF p
<1>9. /\ j_objects' \in Seq(JobObject) /\ Len(j_objects') = L
      /\ j_objects'[k] = p /\ \A i \in 1..L : i # k => j_objects'[i] = j_objects[i]
  <2>1. /\ [j_objects EXCEPT ![k] = p] \in Seq(JobObject)
        /\ Len([j_objects EXCEPT ![k] = p]) = Len(j_objects)
        /\ [j_objects EXCEPT ![k] = p][k] = p
        /\ \A i \in 1..Len(j_objects) : i # k => [j_objects EXCEPT ![k] = p][i] = j_objects[i]
    BY <1>1, <1>8, Replaced
  <2> QED
    BY <1>5, <2>1
<1>10. JobsType'
  <2>1. ASSUME NEW m \in Name, j_jobs'[m] # 0 PROVE j_objects'[j_jobs'[m]].name = m
    <3>1. j_jobs'[m] = j_jobs[m] /\ j_jobs[m] \in 1..L
      BY <1>1, <1>4, <2>1
    <3>2. j_objects[j_jobs[m]].name = m
      BY <3>1 DEF JobsType
    <3>3. CASE j_jobs[m] = k
      BY <1>8, <1>9, <3>1, <3>2, <3>3
    <3>4. CASE j_jobs[m] # k
      BY <1>9, <3>1, <3>2, <3>4
    <3> QED
      BY <3>3, <3>4
  <2>2. /\ j_now' \in 1..MaxTime /\ j_calls' \in 0..MaxCalls /\ j_crashes' \in 0..MaxCrashes
        /\ j_registered' \subseteq Name /\ j_file'.whole = TRUE /\ j_file'.jobs \in KeptJobs
        /\ j_starts' \in [Name -> Seq([at : Nat, by : Nat])]
        /\ \A m \in Name : Len(j_starts'[m]) <= 3
    BY <1>4 DEF JobsType
  <2>3. j_jobs' \in [Name -> 0..Len(j_objects')]
    BY <1>1, <1>4, <1>9
  <2> QED
    BY <1>9, <2>1, <2>2, <2>3 DEF JobsType
<1>11. SaveInv'
  BY <1>4, SaveKeeps
<1>12. ASSUME NEW m \in Name PROVE Paced(m, j_starts'[m], j_jobs'[m], j_objects', j_now')
  <2> DEFINE l == j_starts[m]
  <2>1. Paced(m, l, j_jobs[m], j_objects, j_now)
    BY DEF RunInv
  <2>2. l \in Seq([at : Nat, by : Nat]) /\ j_jobs[m] \in 0..L
    BY <1>1 DEF JobsType
  <2> HIDE DEF l
  <2>3. PICK e \in Nat : e = Len(l)
    BY <2>2, Entries
  <2>4. \A i \in 1..e : l[i].at \in Nat /\ l[i].at <= j_now /\ l[i].by \in 1..j_jobs[m]
    <3>1. \A i \in 1..e : l[i] \in [at : Nat, by : Nat]
      BY <2>2, <2>3, Entries
    <3>2. \A i \in 1..e : l[i].at <= j_now /\ l[i].by \in 1..j_jobs[m]
      BY <2>1, <2>3 DEF Paced
    <3> QED
      BY <3>1, <3>2
  <2>5. ASSUME e >= 1
        PROVE  j_objects'[l[e].by].name = m /\ Calm(j_objects'[l[e].by], l[e])
               /\ (e >= 2 /\ l[e - 1].by = l[e].by => Spaced(j_objects'[l[e].by], l[e - 1]))
    <3>1. j_objects[l[e].by].name = m /\ Calm(j_objects[l[e].by], l[e])
          /\ (e >= 2 /\ l[e - 1].by = l[e].by => Spaced(j_objects[l[e].by], l[e - 1]))
      BY <2>1, <2>3, <2>5 DEF Paced
    <3>2. e \in 1..e /\ l[e].by \in 1..j_jobs[m] /\ l[e].by \in 1..L /\ l[e].at \in Nat
          /\ l[e].at <= j_now
      BY <1>1, <2>2, <2>4, <2>5
    <3>3. CASE l[e].by # k
      BY <1>9, <3>1, <3>2, <3>3
    <3>4. CASE l[e].by = k
      <4>1. o.name = m /\ o.nextRun <= l[e].at /\ j_objects'[l[e].by] = p
        BY <1>4, <1>9, <3>1, <3>4 DEF Calm
      <4>2. Calm(p, l[e])
        BY <1>1, <1>6, <1>8, <3>2 DEF Calm
      <4>3. ASSUME e >= 2, l[e - 1].by = l[e].by PROVE Spaced(p, l[e - 1])
        <5>1. Spaced(o, l[e - 1])
          BY <3>1, <3>4, <4>3
        <5>2. o.nextRun >= l[e - 1].at /\ (o.mode = "cron" => OnCron(o.nextRun))
          BY <1>4, <5>1 DEF Spaced
        <5>3. v >= o.nextRun + JobInterval
          BY <1>1, <1>3, <1>7, <3>2, <4>1, <5>2
        <5>4. e - 1 \in 1..e /\ l[e - 1].at \in Nat
          BY <2>4, <4>3
        <5>5. v >= l[e - 1].at + JobInterval
          BY <1>1, <1>3, <1>6, <5>2, <5>3, <5>4
        <5> QED
          BY <1>8, <5>5 DEF Spaced
      <4> QED
        BY <1>8, <4>1, <4>2, <4>3
    <3> QED
      BY <3>3, <3>4
  <2>6. /\ \A i, j \in 1..Len(l) : i < j => l[i].by <= l[j].by
        /\ Len(l) = 3 /\ l[1].by = l[3].by => l[3].at >= l[1].at + JobInterval
    BY <2>1 DEF Paced
  <2>7. Paced(m, l, j_jobs[m], j_objects', j_now)
    BY <2>3, <2>4, <2>5, <2>6 DEF Paced
  <2> QED
    BY <1>4, <2>7 DEF l
<1> QED
  BY <1>10, <1>11, <1>12 DEF RunInv

(* The ranks of numbers are all of 1 to how many there are.                *)
LEMMA RanksAreAll ==
    ASSUME NEW S \in SUBSET Nat, IsFiniteSet(S), NEW rank,
           rank = [n \in S |-> Cardinality({m \in S : m <= n})]
    PROVE  /\ Cardinality(S) \in Nat /\ rank \in [S -> 1..Cardinality(S)]
           /\ \A n, m \in S : rank[n] = rank[m] => n = m
           /\ \A k \in 1..Cardinality(S) : \E n \in S : rank[n] = k
<1> DEFINE Upto(n) == {m \in S : m <= n}
<1>1. Cardinality(S) \in Nat
  BY FS_CardinalityType
<1>2. ASSUME NEW n \in S
      PROVE  IsFiniteSet(Upto(n)) /\ Cardinality(Upto(n)) \in 1..Cardinality(S)
             /\ rank[n] = Cardinality(Upto(n))
  <2>1. IsFiniteSet(Upto(n)) /\ Cardinality(Upto(n)) <= Cardinality(S)
    <3>1. Upto(n) \in SUBSET S
      OBVIOUS
    <3> HIDE DEF Upto
    <3> QED
      BY <3>1, FS_Subset
  <2>2. n \in Upto(n)
    OBVIOUS
  <2>3. rank[n] = Cardinality(Upto(n))
    OBVIOUS
  <2> HIDE DEF Upto
  <2>4. Cardinality(Upto(n)) \in Nat
    BY <2>1, FS_CardinalityType
  <2>5. Cardinality(Upto(n)) # 0
    BY <2>1, <2>2, FS_EmptySet
  <2> QED
    BY <1>1, <2>1, <2>3, <2>4, <2>5
<1>3. ASSUME NEW n \in S, NEW m \in S, n < m PROVE rank[n] # rank[m]
  <2>a. n \in Nat /\ m \in Nat /\ \A x \in S : x \in Nat
    OBVIOUS
  <2>b. m <= m /\ ~(m <= n) /\ \A x \in S : x <= n => x <= m
    BY <1>3, <2>a
  <2>1. Upto(n) \in SUBSET Upto(m) /\ m \in Upto(m) /\ m \notin Upto(n)
    BY <2>b
  <2>2. IsFiniteSet(Upto(m)) /\ rank[n] = Cardinality(Upto(n)) /\ rank[m] = Cardinality(Upto(m))
    BY <1>2
  <2> HIDE DEF Upto
  <2>3. Cardinality(Upto(m)) = Cardinality(Upto(n)) => Upto(m) = Upto(n)
    BY <2>1, <2>2, FS_Subset
  <2> QED
    BY <2>1, <2>2, <2>3
<1>4. \A n, m \in S : rank[n] = rank[m] => n = m
  <2> SUFFICES ASSUME NEW n \in S, NEW m \in S, n # m PROVE rank[n] # rank[m]
    OBVIOUS
  <2>1. n < m \/ m < n
    OBVIOUS
  <2> QED
    BY <1>3, <2>1
<1>5. rank \in [S -> 1..Cardinality(S)]
  <2>1. \A n \in S : rank[n] \in 1..Cardinality(S)
    BY <1>2
  <2>2. rank = [n \in S |-> rank[n]]
    OBVIOUS
  <2> QED
    BY <2>1, <2>2
<1>6. rank \in Injection(S, 1..Cardinality(S))
  BY <1>4, <1>5 DEF Injection, IsInjective
<1>7. IsFiniteSet(1..Cardinality(S)) /\ Cardinality(1..Cardinality(S)) = Cardinality(S)
  <2>1. PICK c \in Int : c = Cardinality(S) /\ c >= 0
    BY <1>1
  <2>2. 1 \in Int
    OBVIOUS
  <2>3. IsFiniteSet(1..c) /\ Cardinality(1..c) = IF 1 > c THEN 0 ELSE c - 1 + 1
    BY <2>2, FS_Interval
  <2>4. Cardinality(1..c) = c
    BY <2>1, <2>3
  <2> QED
    BY <2>1, <2>3, <2>4
<1>8. rank \in Surjection(S, 1..Cardinality(S))
  BY <1>6, <1>7, FS_Injection
<1> QED
  BY <1>1, <1>4, <1>5, <1>8 DEF Surjection

(* The new process numbers the jobs that it loads, each by a number of its *)
(* own, so the jobs are those of the file.                                 *)
LEMMA RestartKeeps ==
    ASSUME JobsType, SaveInv, RunInv, Jobs!Restart
    PROVE  JobsType' /\ SaveInv' /\ RunInv'
<1> DEFINE loaded == {n \in Name : j_file.jobs[n] # Jobs!None[n]}
           number == [n \in loaded |-> Cardinality({m \in loaded : m <= n})]
           of(k) == CHOOSE m \in loaded : number[m] = k
           object(n) == [name |-> n, mode |-> j_file.jobs[n].mode,
                         nextRun |-> j_file.jobs[n].nextRun, running |-> FALSE]
           C == Cardinality(loaded)
<1>1. \A S : Jobs!Cardinality(S) = Cardinality(S)
  BY DEF Jobs!Cardinality, Cardinality
<1>2. /\ j_jobs' = [n \in Name |-> IF n \in loaded THEN number[n] ELSE 0]
      /\ j_objects' = [k \in 1..C |-> object(of(k))]
      /\ j_registered' = {} /\ j_saver' = {} /\ j_isSaving' = FALSE /\ j_pendingSave' = FALSE
      /\ j_starts' = [n \in Name |-> <<>>]
      /\ j_crashes < MaxCrashes /\ j_crashes' = j_crashes + 1
      /\ UNCHANGED <<j_now, j_temp, j_file, j_calls>>
  BY <1>1 DEF Jobs!Restart
<1>3. loaded \in SUBSET Nat /\ IsFiniteSet(loaded)
  <2>1. loaded \in SUBSET Name
    OBVIOUS
  <2> HIDE DEF loaded
  <2> QED
    BY <2>1, FS_Subset, JobAssumption
<1>4. /\ C \in Nat /\ number \in [loaded -> 1..C]
      /\ \A n, m \in loaded : number[n] = number[m] => n = m
      /\ \A k \in 1..C : \E n \in loaded : number[n] = k
  <2>1. number = [n \in loaded |-> Cardinality({m \in loaded : m <= n})]
    OBVIOUS
  <2> HIDE DEF loaded, number
  <2> QED
    BY <1>3, <2>1, RanksAreAll
<1>5. ASSUME NEW n \in loaded
      PROVE  n \in Name /\ j_file.jobs[n] \in [mode : Jobs!Mode, nextRun : Nat]
  <2>1. n \in Name /\ j_file.jobs[n] # Jobs!None[n] /\ j_file.jobs[n] \in KeptJob
    BY DEF JobsType, KeptJobs
  <2> QED
    BY <2>1 DEF Jobs!None, KeptJob
<1>6. ASSUME NEW n \in loaded
      PROVE  /\ object(n) \in JobObject /\ object(n).name = n
             /\ j_file.jobs[n] = [mode |-> object(n).mode, nextRun |-> object(n).nextRun]
  <2>1. n \in Name /\ j_file.jobs[n] \in [mode : Jobs!Mode, nextRun : Nat]
    BY <1>5
  <2> HIDE DEF loaded
  <2>2. PICK q \in [mode : Jobs!Mode, nextRun : Nat] : q = j_file.jobs[n]
    BY <2>1
  <2>3. q = [mode |-> q.mode, nextRun |-> q.nextRun] /\ q.mode \in Jobs!Mode /\ q.nextRun \in Nat
    OBVIOUS
  <2> QED
    BY <2>1, <2>2, <2>3 DEF JobObject
<1>x. ~(\E n \in Name \ loaded : j_file.jobs[n] # Jobs!None[n])
  OBVIOUS
<1>l. loaded \subseteq Name
  OBVIOUS
<1> HIDE DEF loaded, number, object
<1>7. ASSUME NEW k \in 1..C PROVE of(k) \in loaded /\ number[of(k)] = k
  BY <1>4
<1>8. ASSUME NEW n \in loaded PROVE number[n] \in 1..C /\ of(number[n]) = n
  <2>1. number[n] \in 1..C
    BY <1>4
  <2>2. of(number[n]) \in loaded /\ number[of(number[n])] = number[n]
    BY <1>7, <2>1
  <2> HIDE DEF of
  <2> QED
    BY <1>4, <2>1, <2>2
<1> HIDE DEF of, C
<1>9. /\ j_objects' \in Seq(JobObject) /\ Len(j_objects') = C
      /\ \A n \in loaded : j_objects'[number[n]] = object(n)
  <2>1. \A k \in 1..C : object(of(k)) \in JobObject
    BY <1>6, <1>7
  <2>2. j_objects' \in [1..C -> JobObject]
    BY <1>2, <2>1
  <2>3. j_objects' \in Seq(JobObject) /\ Len(j_objects') = C
    BY <1>4, <2>2
  <2>4. ASSUME NEW n \in loaded PROVE j_objects'[number[n]] = object(n)
    <3>1. j_objects'[number[n]] = object(of(number[n]))
      BY <1>2, <1>8
    <3> QED
      BY <1>8, <3>1
  <2> QED
    BY <2>3, <2>4
<1>10. ASSUME NEW n \in Name
       PROVE  /\ n \in loaded => j_jobs'[n] = number[n] /\ j_jobs'[n] \in 1..C
              /\ n \notin loaded => j_jobs'[n] = 0
  BY <1>2, <1>8
<1>11. j_jobs' \in [Name -> 0..Len(j_objects')]
  <2>1. \A n \in Name : j_jobs'[n] \in 0..C
    BY <1>4, <1>10
  <2> QED
    BY <1>2, <1>9, <2>1
<1>12. JobsType'
  <2>1. ASSUME NEW n \in Name, j_jobs'[n] # 0 PROVE j_objects'[j_jobs'[n]].name = n
    BY <1>6, <1>9, <1>10, <2>1
  <2>2. <<>> \in Seq([at : Nat, by : Nat]) /\ Len(<<>>) = 0
    OBVIOUS
  <2>3. j_starts' \in [Name -> Seq([at : Nat, by : Nat])] /\ \A n \in Name : Len(j_starts'[n]) <= 3
    BY <1>2, <2>2
  <2>4. /\ j_now' \in 1..MaxTime /\ j_calls' \in 0..MaxCalls /\ j_crashes' \in 0..MaxCrashes
        /\ j_registered' \subseteq Name /\ j_file'.whole = TRUE /\ j_file'.jobs \in KeptJobs
    BY <1>2, JobAssumption DEF JobsType
  <2> QED
    BY <1>9, <1>11, <2>1, <2>3, <2>4 DEF JobsType
<1>13. j_file'.jobs = Jobs!Payload'
  <2> DEFINE P(n) == IF j_jobs'[n] = 0 THEN Jobs!None[n]
                     ELSE [mode |-> j_objects'[j_jobs'[n]].mode,
                           nextRun |-> j_objects'[j_jobs'[n]].nextRun]
  <2>1. Jobs!Payload' = [n \in Name |-> P(n)]
    BY DEF Jobs!Payload, Jobs!None
  <2>2. ASSUME NEW n \in Name PROVE j_file.jobs[n] = P(n)
    <3>1. CASE n \in loaded
      <4>1. j_jobs'[n] # 0 /\ j_objects'[j_jobs'[n]] = object(n)
        BY <1>9, <1>10, <3>1
      <4> QED
        BY <1>6, <3>1, <4>1
    <3>2. CASE n \notin loaded
      <4>1. j_jobs'[n] = 0 /\ j_file.jobs[n] = Jobs!None[n]
        BY <1>x, <1>10, <3>2
      <4> QED
        BY <4>1
    <3> QED
      BY <3>1, <3>2
  <2>3. j_file.jobs = [n \in Name |-> j_file.jobs[n]]
    BY DEF JobsType, KeptJobs
  <2> HIDE DEF P
  <2> QED
    BY <1>2, <2>1, <2>2, <2>3
<1>14. SaveInv'
  BY <1>2, <1>13 DEF SaveInv
<1>15. RunInv'
  <2> SUFFICES ASSUME NEW m \in Name PROVE Paced(m, j_starts'[m], j_jobs'[m], j_objects', j_now')
    BY DEF RunInv
  <2>1. j_starts'[m] = <<>>
    BY <1>2
  <2>2. Len(<<>>) = 0 /\ 1..0 = {}
    OBVIOUS
  <2> QED
    BY <2>1, <2>2 DEF Paced
<1> QED
  BY <1>12, <1>14, <1>15

LEMMA JobsStart == Jobs!Init => JobsType /\ SaveInv /\ RunInv
<1> SUFFICES ASSUME Jobs!Init PROVE JobsType /\ SaveInv /\ RunInv
  OBVIOUS
<1> USE DEF Jobs!Init
<1>1. JobsType
  <2>1. <<>> \in Seq(JobObject) /\ <<>> \in Seq([at : Nat, by : Nat]) /\ Len(<<>>) = 0
    OBVIOUS
  <2>2. j_jobs \in [Name -> 0..Len(j_objects)] /\ \A n \in Name : j_jobs[n] = 0
    BY <2>1
  <2>3. j_file.whole = TRUE /\ j_file.jobs \in KeptJobs
    BY DEF Jobs!Whole, Jobs!None, KeptJobs, KeptJob
  <2>4. j_starts \in [Name -> Seq([at : Nat, by : Nat])] /\ \A n \in Name : Len(j_starts[n]) <= 3
    BY <2>1
  <2>5. j_now \in 1..MaxTime /\ j_calls \in 0..MaxCalls /\ j_crashes \in 0..MaxCrashes
        /\ j_registered \subseteq Name /\ j_objects \in Seq(JobObject)
    BY <2>1, JobAssumption
  <2> QED
    BY <2>2, <2>3, <2>4, <2>5 DEF JobsType
<1>2. SaveInv
  <2>1. j_file.jobs = Jobs!Payload
    BY DEF Jobs!Payload, Jobs!Whole, Jobs!None
  <2> QED
    BY <2>1 DEF SaveInv
<1>3. RunInv
  <2> SUFFICES ASSUME NEW m \in Name PROVE Paced(m, j_starts[m], j_jobs[m], j_objects, j_now)
    BY DEF RunInv
  <2>1. j_starts[m] = <<>>
    OBVIOUS
  <2>2. Len(<<>>) = 0 /\ 1..0 = {}
    OBVIOUS
  <2> QED
    BY <2>1, <2>2 DEF Paced
<1> QED
  BY <1>1, <1>2, <1>3

LEMMA JobsStay == JobsType /\ SaveInv /\ RunInv /\ [Jobs!Next]_(Jobs!vars)
                     => JobsType' /\ SaveInv' /\ RunInv'
<1> SUFFICES ASSUME JobsType, SaveInv, RunInv, [Jobs!Next]_(Jobs!vars)
             PROVE  JobsType' /\ SaveInv' /\ RunInv'
  OBVIOUS
<1>1. CASE Jobs!Tick
  BY <1>1, TickKeeps
<1>2. CASE Jobs!Restart
  BY <1>2, RestartKeeps
<1>3. ASSUME NEW s \in j_saver, Jobs!Write(s) \/ Jobs!Written(s) \/ Jobs!Rename(s)
      PROVE  JobsType' /\ SaveInv' /\ RunInv'
  BY <1>3, SavingKeeps
<1>4. ASSUME NEW n \in Name, Jobs!RegisterTask(n) PROVE JobsType' /\ SaveInv' /\ RunInv'
  BY <1>4, RegisterKeeps
<1>5. ASSUME NEW n \in Name, Jobs!Execute(n) PROVE JobsType' /\ SaveInv' /\ RunInv'
  BY <1>5, ExecuteKeeps
<1>6. ASSUME NEW n \in Name, NEW mode \in Jobs!Mode, Jobs!Schedule(n, mode)
      PROVE  JobsType' /\ SaveInv' /\ RunInv'
  BY <1>6, ScheduleKeeps
<1>7. ASSUME NEW k \in DOMAIN j_objects, Jobs!Finish(k) PROVE JobsType' /\ SaveInv' /\ RunInv'
  BY <1>7, FinishKeeps
<1>8. CASE UNCHANGED Jobs!vars
  <2>1. UNCHANGED <<j_now, j_jobs, j_objects, j_registered, j_saver, j_isSaving, j_pendingSave,
                    j_temp, j_file, j_starts, j_calls, j_crashes>>
    BY <1>8 DEF Jobs!vars
  <2>2. Jobs!Payload' = Jobs!Payload
    BY <2>1 DEF Jobs!Payload, Jobs!None
  <2>3. SaveInv'
    BY <2>1, <2>2, SaverKeeps
  <2> QED
    BY <2>1, <2>3 DEF JobsType, RunInv
<1> QED
  BY <1>1, <1>2, <1>3, <1>4, <1>5, <1>6, <1>7, <1>8 DEF Jobs!Next

LEMMA JobsMean == JobsType /\ SaveInv /\ RunInv => Jobs!TypeOK /\ Jobs!FileIsWhole
                                                   /\ Jobs!FileIsCurrent /\ Jobs!NoBurst
<1> SUFFICES ASSUME JobsType, SaveInv, RunInv
             PROVE  Jobs!TypeOK /\ Jobs!FileIsWhole /\ Jobs!FileIsCurrent /\ Jobs!NoBurst
  OBVIOUS
<1>1. \A k \in DOMAIN j_objects : j_objects[k].name \in Name /\ j_objects[k].mode \in Jobs!Mode
  <2>1. j_objects \in Seq(JobObject)
    BY DEF JobsType
  <2>2. \A k \in DOMAIN j_objects : j_objects[k] \in JobObject
    BY <2>1
  <2> QED
    BY <2>2 DEF JobObject
<1>2. j_isSaving \in BOOLEAN /\ j_pendingSave \in BOOLEAN
  BY DEF SaveInv
<1>3. Jobs!TypeOK
  BY <1>1, <1>2 DEF JobsType, Jobs!TypeOK
<1>4. Jobs!FileIsWhole
  BY DEF JobsType, Jobs!FileIsWhole
<1>5. Jobs!FileIsCurrent
  BY DEF SaveInv, Jobs!FileIsCurrent
<1>6. Jobs!NoBurst
  BY DEF RunInv, Paced, Jobs!NoBurst
<1> QED
  BY <1>3, <1>4, <1>5, <1>6

(* The file of the schedule is whole at every crash and, saved, holds the  *)
(* jobs as they are; what was missed is not made up for, for every number  *)
(* of jobs, calls and crashes and every interval (scheduler/index.ts).     *)
THEOREM ScheduleKept == SvcSpec => []ScheduleIsKept
<1>1. SvcSpec => Jobs!Spec
  BY Each
<1>2. Jobs!Spec => [](JobsType /\ SaveInv /\ RunInv)
  BY JobsStart, JobsStay, PTL DEF Jobs!Spec
<1>3. JobsType /\ SaveInv /\ RunInv => ScheduleIsKept
  BY JobsMean DEF ScheduleIsKept
<1> QED
  BY <1>1, <1>2, <1>3, PTL

-------------------------------------------------------------------------------
(* The reloads of a configuration file.                                    *)

Contents == [edit : 0..MaxEdits, state : {"absent", "good", "bad", "broken"}, rand : BOOLEAN]
Change == {"modified", "moved", "deleted", "created"}
ReloadJob ==
    [kind : {"none", "watch", "file", "all", "gate"},
     at : {"idle", "next", "read", "persist", "validate", "swap", "gate"},
     todo : Seq(Change), got : Contents, was : Contents]

Sound(c) == (c.state = "absent" => c = Reload!Absent) /\ (c.rand => c.state = "good")

ReloadType ==
    /\ r_file \in Contents /\ r_cache \in Contents /\ r_live \in Contents
    /\ r_edits \in 0..MaxEdits /\ r_events \in 0..MaxCommands
    /\ r_debounceMap \subseteq {"created", "modified", "deleted"} /\ r_batch \in Seq(Change)
    /\ r_lock \in {"free", "loading", "timer"} /\ r_isReloading \in BOOLEAN
    /\ r_job \in [Job -> ReloadJob]

(* A content is from an edit; what a reload goes on with is one to go on   *)
(* with, and nothing that is not valid was applied.                        *)
SourceInv ==
    /\ Sound(r_file) /\ r_file.edit <= r_edits
    /\ r_cache.state \in {"good", "absent"} /\ r_live.state \in {"good", "absent"}
    /\ \A j \in Job :
          /\ r_job[j].was.edit <= r_edits /\ r_job[j].got.edit <= r_edits
          /\ r_job[j].at \in {"persist", "validate"} =>
                r_job[j].got.state # "absent" /\ Sound(r_job[j].got)
          /\ r_job[j].at = "persist" => r_job[j].got.rand
          /\ r_job[j].at = "swap" => r_job[j].got.state \in {"good", "absent"}

(* The file is still to be looked at.                                      *)
Pending == r_dirty \/ r_batch # <<>> \/ \E j \in Job : r_job[j].at \in {"next", "read"}

(* The two forms in memory agree, or will when the one reload ends.        *)
Coherent == ~r_overlap =>
    /\ Reload!Reading = {} => (r_cache # Reload!Absent => r_live = r_cache)
    /\ \A j \in Reload!Reading :
          /\ Reload!Reading = {j}
          /\ r_job[j].at \in {"persist", "validate"} =>
                r_job[j].got.state = "good" \/ (r_cache # Reload!Absent => r_live = r_cache)
          /\ r_job[j].at = "swap" => r_job[j].got = Reload!Absent \/ r_job[j].got = r_live

(* What is no longer looked at is in memory, or in the one reload.         *)
Fresh == ~r_missed /\ ~r_overlap /\ ~Pending =>
    /\ Reload!Reading = {} => /\ r_file.state = "good" => r_cache = r_file
                              /\ r_file.state = "absent" => r_cache = Reload!Absent
    /\ \A j \in Reload!Reading :
          /\ r_job[j].at \in {"persist", "validate"} => r_job[j].got = r_file
          /\ r_job[j].at = "swap" => /\ r_file.state = "good" => r_job[j].got = r_file
                                     /\ r_file.state = "absent" => r_job[j].got = Reload!Absent

(* A bad file that stays is read as it is, and then a failure.             *)
BadIsFailure ==
    /\ r_gate # "wrong"
    /\ \A j \in Job : r_job[j].was.state = "bad" /\ r_job[j].was = r_file =>
          /\ r_job[j].at # "persist"
          /\ r_job[j].at = "validate" => r_job[j].got.state = "bad"
          /\ r_job[j].at \in {"swap", "gate"} => r_failures

ReloadInv == ReloadType /\ SourceInv /\ Coherent /\ Fresh /\ BadIsFailure

LEMMA IdleJob == /\ Reload!Absent \in Contents /\ Reload!Default \in Contents
                 /\ Sound(Reload!Absent) /\ Sound(Reload!Default)
                 /\ Reload!Absent.edit = 0 /\ Reload!Default.edit = 0
                 /\ Reload!Absent.state = "absent" /\ Reload!Default.state = "good"
                 /\ Reload!Idle \in ReloadJob /\ Reload!Idle.at = "idle"
                 /\ Reload!Idle.was = Reload!Absent /\ Reload!Idle.got = Reload!Absent
<1>1. /\ Reload!Absent \in Contents /\ Reload!Default \in Contents
      /\ Sound(Reload!Absent) /\ Sound(Reload!Default)
      /\ Reload!Absent.edit = 0 /\ Reload!Default.edit = 0
      /\ Reload!Absent.state = "absent" /\ Reload!Default.state = "good"
  BY ReloadAssumption DEF Contents, Sound, Reload!Absent, Reload!Default, Reload!Content
<1>2. <<>> \in Seq(Change)
  OBVIOUS
<1> QED
  BY <1>1, <1>2 DEF ReloadJob, Reload!Idle

(* One reload goes on.                                                     *)
LEMMA OneJob ==
    ASSUME ReloadType, NEW j \in Job, NEW y \in ReloadJob, r_job' = [r_job EXCEPT ![j] = y]
    PROVE  /\ r_job' \in [Job -> ReloadJob] /\ r_job'[j] = y
           /\ \A k \in Job : k # j => r_job'[k] = r_job[k]
           /\ y.at \in {"persist", "validate", "swap"} =>
                 Reload!Reading' = Reload!Reading \cup {j}
           /\ y.at \notin {"persist", "validate", "swap"} =>
                 Reload!Reading' = Reload!Reading \ {j}
<1>1. /\ r_job' \in [Job -> ReloadJob] /\ r_job'[j] = y
      /\ \A k \in Job : k # j => r_job'[k] = r_job[k]
  BY DEF ReloadType
<1> QED
  BY <1>1 DEF Reload!Reading

LEMMA OneOther ==
    ASSUME ReloadType, NEW j \in Job, NEW y \in ReloadJob, r_job' = [r_job EXCEPT ![j] = y],
           y.at \in {"idle", "next", "read", "gate"}, j \notin Reload!Reading
    PROVE  /\ r_job' \in [Job -> ReloadJob] /\ r_job'[j] = y
           /\ \A k \in Job : k # j => r_job'[k] = r_job[k]
           /\ Reload!Reading' = Reload!Reading
<1>1. /\ r_job' \in [Job -> ReloadJob] /\ r_job'[j] = y
      /\ \A k \in Job : k # j => r_job'[k] = r_job[k]
  BY DEF ReloadType
<1>2. Reload!Reading' \subseteq Reload!Reading
  BY <1>1 DEF Reload!Reading
<1>3. Reload!Reading \subseteq Reload!Reading'
  BY <1>1 DEF Reload!Reading
<1> QED
  BY <1>1, <1>2, <1>3

(* Steps of the disk and the watcher leave the reloads.                    *)
LEMMA SameJobs ==
    ASSUME UNCHANGED <<r_job, r_cache, r_live, r_overlap>>, Coherent
    PROVE  Coherent' /\ Reload!Reading' = Reload!Reading
<1>1. Reload!Reading' = Reload!Reading
  BY DEF Reload!Reading
<1> QED
  BY <1>1 DEF Coherent, Reload!Absent, Reload!Content

LEMMA WriteKeeps ==
    ASSUME ReloadInv, NEW state \in {"good", "bad", "broken"}, NEW rand \in BOOLEAN,
           rand => state = "good", Reload!Write(state, rand)
    PROVE  ReloadInv'
<1> USE DEF ReloadInv
<1>1. /\ r_edits < MaxEdits /\ r_edits' = r_edits + 1 /\ r_dirty' = TRUE
      /\ r_file' = [edit |-> r_edits + 1, state |-> state, rand |-> rand]
      /\ UNCHANGED <<r_debounceMap, r_batch, r_job, r_isReloading, r_lock, r_cache, r_live,
                     r_failures, r_events, r_missed, r_overlap, r_gate>>
  BY DEF Reload!Write, Reload!Content
<1>2. r_edits + 1 \in 0..MaxEdits /\ r_edits \in Nat
  BY <1>1, ReloadAssumption DEF ReloadType
<1>3. r_file' \in Contents /\ Sound(r_file') /\ r_file'.edit = r_edits + 1
  BY <1>1, <1>2 DEF Contents, Sound
<1>4. \A j \in Job : r_job[j].was.edit \in Nat /\ r_job[j].got.edit \in Nat
  BY DEF ReloadType, ReloadJob, Contents
<1>5. ReloadType'
  BY <1>1, <1>2, <1>3 DEF ReloadType
<1>6. SourceInv'
  BY <1>1, <1>2, <1>3, <1>4 DEF SourceInv, Sound, Reload!Absent, Reload!Content
<1>7. Coherent'
  BY <1>1, SameJobs
<1>8. Fresh'
  BY <1>1 DEF Fresh, Pending
<1>9. BadIsFailure'
  <2>1. \A j \in Job : r_job[j].was # r_file'
    BY <1>2, <1>3, <1>4 DEF SourceInv
  <2> QED
    BY <1>1, <2>1 DEF BadIsFailure
<1> QED
  BY <1>5, <1>6, <1>7, <1>8, <1>9

LEMMA RemoveKeeps ==
    ASSUME ReloadInv, Reload!Remove
    PROVE  ReloadInv'
<1> USE DEF ReloadInv
<1>1. /\ r_edits < MaxEdits /\ r_edits' = r_edits + 1 /\ r_dirty' = TRUE
      /\ r_file' = Reload!Absent
      /\ UNCHANGED <<r_debounceMap, r_batch, r_job, r_isReloading, r_lock, r_cache, r_live,
                     r_failures, r_events, r_missed, r_overlap, r_gate>>
  BY DEF Reload!Remove
<1>2. r_edits + 1 \in 0..MaxEdits /\ r_edits \in Nat
  BY <1>1, ReloadAssumption DEF ReloadType
<1>4. \A j \in Job : r_job[j].was.edit \in Nat /\ r_job[j].got.edit \in Nat
  BY DEF ReloadType, ReloadJob, Contents
<1>5. ReloadType'
  BY <1>1, <1>2, IdleJob DEF ReloadType
<1>6. SourceInv'
  BY <1>1, <1>2, <1>4, IdleJob DEF SourceInv, Sound, Reload!Absent, Reload!Content
<1>7. Coherent'
  BY <1>1, SameJobs
<1>8. Fresh'
  BY <1>1 DEF Fresh, Pending
<1>9. BadIsFailure'
  <2>1. \A j \in Job : r_job[j].was = r_file' => r_job[j].was.state # "bad"
    BY <1>1, IdleJob
  <2> QED
    BY <1>1, <2>1 DEF BadIsFailure
<1> QED
  BY <1>5, <1>6, <1>7, <1>8, <1>9

LEMMA EventKeeps ==
    ASSUME ReloadInv, Reload!HandleEvent
    PROVE  ReloadInv'
<1> USE DEF ReloadInv
<1>1. UNCHANGED <<r_file, r_job, r_isReloading, r_lock, r_cache, r_live, r_failures, r_edits,
                  r_events, r_overlap, r_gate>>
  BY DEF Reload!HandleEvent
<1>2. \/ r_missed' = TRUE /\ UNCHANGED <<r_debounceMap, r_batch>>
      \/ \E type \in {"created", "modified", "deleted"} :
            r_debounceMap' = r_debounceMap \cup {type} /\ r_batch' = Append(r_batch, type)
  BY DEF Reload!HandleEvent
<1>3. ASSUME NEW type \in {"created", "modified", "deleted"}
      PROVE  Append(r_batch, type) \in Seq(Change) /\ Append(r_batch, type) # <<>>
  <2>1. r_batch \in Seq(Change) /\ type \in Change
    BY DEF ReloadType, Change
  <2> QED
    BY <2>1
<1>5. ReloadType'
  BY <1>1, <1>2, <1>3 DEF ReloadType
<1>6. SourceInv'
  BY <1>1 DEF SourceInv, Sound, Reload!Absent, Reload!Content
<1>7. Coherent'
  BY <1>1, SameJobs
<1>8. Fresh'
  BY <1>2, <1>3 DEF Fresh, Pending
<1>9. BadIsFailure'
  BY <1>1 DEF BadIsFailure
<1> QED
  BY <1>5, <1>6, <1>7, <1>8, <1>9

LEMMA QuietKeeps ==
    ASSUME ReloadInv,
           (\E type \in {"created", "modified", "deleted"} : Reload!Expire(type)) \/ Reload!Unlock
    PROVE  ReloadInv'
<1> USE DEF ReloadInv
<1>1. UNCHANGED <<r_file, r_dirty, r_batch, r_job, r_isReloading, r_cache, r_live, r_failures,
                  r_edits, r_events, r_missed, r_overlap, r_gate>>
      /\ r_debounceMap' \subseteq r_debounceMap /\ r_lock' \in {r_lock, "free"}
  <2>1. ASSUME NEW type \in {"created", "modified", "deleted"}, Reload!Expire(type)
        PROVE  r_debounceMap' = r_debounceMap \ {type} /\ UNCHANGED r_lock
    BY <2>1 DEF Reload!Expire
  <2>2. ASSUME Reload!Unlock PROVE UNCHANGED r_debounceMap /\ r_lock' = "free"
    BY <2>2 DEF Reload!Unlock, Reload!watcher
  <2>3. UNCHANGED <<r_file, r_dirty, r_batch, r_job, r_isReloading, r_cache, r_live, r_failures,
                    r_edits, r_events, r_missed, r_overlap, r_gate>>
    BY DEF Reload!Expire, Reload!Unlock, Reload!watcher
  <2> QED
    BY <2>1, <2>2, <2>3
<1>5. ReloadType'
  BY <1>1 DEF ReloadType
<1>6. SourceInv'
  BY <1>1 DEF SourceInv, Sound, Reload!Absent, Reload!Content
<1>7. Coherent' /\ Reload!Reading' = Reload!Reading
  BY <1>1, SameJobs
<1>8. Fresh'
  BY <1>1, <1>7 DEF Fresh, Pending, Reload!Absent, Reload!Content
<1>9. BadIsFailure'
  BY <1>1 DEF BadIsFailure
<1> QED
  BY <1>5, <1>6, <1>7, <1>8, <1>9

(* Moves are detected among changes.                                       *)
LEMMA MovesAreChanges ==
    ASSUME NEW types PROVE Reload!DetectMoves(types) \in Seq(Change)
<1> DEFINE if(t, b) == IF b THEN <<t>> ELSE <<>>
<1>1. ASSUME NEW t \in Change, NEW b PROVE if(t, b) \in Seq(Change)
  <2>1. <<t>> \in Seq(Change) /\ <<>> \in Seq(Change)
    OBVIOUS
  <2> QED
    BY <2>1
<1>2. \A l, m \in Seq(Change) : l \o m \in Seq(Change)
  OBVIOUS
<1>3. \E a, b, c, d : Reload!DetectMoves(types) =
         if("modified", a) \o if("moved", b) \o if("deleted", c) \o if("created", d)
  <2> DEFINE has(t) == \E i \in DOMAIN types : types[i] = t
  <2>1. Reload!DetectMoves(types) =
           if("modified", has("modified")) \o if("moved", has("deleted") /\ has("created"))
              \o if("deleted", has("deleted") /\ ~has("created"))
              \o if("created", has("created") /\ ~has("deleted"))
    BY DEF Reload!DetectMoves
  <2> HIDE DEF if, has
  <2> QED
    BY <2>1
<1>4. {"modified", "moved", "deleted", "created"} \subseteq Change
  BY DEF Change
<1> HIDE DEF if
<1> QED
  BY <1>1, <1>2, <1>3, <1>4

(* What a reload that ends is followed by.                                 *)
LEMMA RestIs ==
    ASSUME ReloadType, NEW j \in Job
    PROVE  /\ Reload!Rest(j) \in ReloadJob /\ Reload!Rest(j).at \in {"idle", "next"}
           /\ Reload!Rest(j).was = Reload!Absent /\ Reload!Rest(j).got = Reload!Absent
<1>1. r_job[j] \in ReloadJob
  BY DEF ReloadType
<1>2. r_job[j].todo \in Seq(Change)
  BY <1>1 DEF ReloadJob
<1>3. CASE r_job[j].kind = "watch" /\ Len(r_job[j].todo) > 1
  <2>1. r_job[j].todo # <<>>
    <3>1. ASSUME r_job[j].todo = <<>> PROVE Len(r_job[j].todo) = 0
      BY <3>1
    <3> QED
      BY <1>3, <3>1
  <2>2. Tail(r_job[j].todo) \in Seq(Change)
    BY <1>2, <2>1, WithoutFirst
  <2> DEFINE t == Tail(r_job[j].todo)
  <2>3. Reload!Rest(j) = [kind |-> "watch", at |-> "next", todo |-> t, got |-> Reload!Absent,
                          was |-> Reload!Absent]
    BY <1>3 DEF Reload!Rest, Reload!Idle
  <2> HIDE DEF t
  <2> QED
    BY <2>2, <2>3, IdleJob DEF ReloadJob, t
<1>4. CASE ~(r_job[j].kind = "watch" /\ Len(r_job[j].todo) > 1)
  <2>1. Reload!Rest(j) = Reload!Idle
    BY <1>4 DEF Reload!Rest
  <2> QED
    BY <2>1, IdleJob
<1> QED
  BY <1>3, <1>4

LEMMA EndedIs ==
    ASSUME ReloadType, SourceInv, NEW j \in Job, Reload!Ended(j)
    PROVE  \E y \in ReloadJob :
              /\ r_job' = [r_job EXCEPT ![j] = y] /\ y.at \in {"idle", "next", "gate"}
              /\ y.was \in {Reload!Absent, r_job[j].was} /\ y.was.edit <= r_edits
              /\ y.got.edit <= r_edits
              /\ r_lock' \in {r_lock, "timer"}
<1>1. r_job[j] \in ReloadJob /\ r_job[j].was.edit <= r_edits /\ r_job[j].got.edit <= r_edits
      /\ 0 <= r_edits
  BY DEF ReloadType, SourceInv
<1>2. r_lock' \in {r_lock, "timer"}
  BY DEF Reload!Ended
<1>3. CASE r_job[j].kind = "gate"
  <2>1. r_job' = [r_job EXCEPT ![j] = [r_job[j] EXCEPT !.at = "gate"]]
    BY <1>3 DEF Reload!Ended
  <2>2. /\ [r_job[j] EXCEPT !.at = "gate"] \in ReloadJob
        /\ [r_job[j] EXCEPT !.at = "gate"].at = "gate"
        /\ [r_job[j] EXCEPT !.at = "gate"].was = r_job[j].was
        /\ [r_job[j] EXCEPT !.at = "gate"].got = r_job[j].got
    BY <1>1 DEF ReloadJob
  <2> QED
    BY <1>1, <1>2, <2>1, <2>2
<1>4. CASE r_job[j].kind # "gate"
  <2>1. r_job' = [r_job EXCEPT ![j] = Reload!Rest(j)]
    BY <1>4 DEF Reload!Ended
  <2> QED
    BY <1>1, <1>2, <2>1, RestIs, IdleJob
<1> QED
  BY <1>3, <1>4

LEMMA FlushKeeps ==
    ASSUME ReloadInv, NEW j \in Job, Reload!FlushBatch(j)
    PROVE  ReloadInv'
<1> USE DEF ReloadInv
<1> DEFINE d == Reload!DetectMoves(r_batch)
           y == [Reload!Idle EXCEPT !.kind = "watch", !.at = "next", !.todo = d]
<1>1. /\ r_batch' = <<>> /\ r_job[j] = Reload!Idle
      /\ UNCHANGED <<r_file, r_dirty, r_debounceMap, r_isReloading, r_lock, r_cache, r_live,
                     r_failures, r_edits, r_events, r_missed, r_overlap, r_gate>>
  BY DEF Reload!FlushBatch
<1>2. r_job' = [r_job EXCEPT ![j] = y]
  BY DEF Reload!FlushBatch
<1>3. d \in Seq(Change)
  BY MovesAreChanges
<1> HIDE DEF d
<1>4. y \in ReloadJob /\ y.at = "next" /\ y.was = Reload!Absent /\ y.got = Reload!Absent
  <2>1. \A x \in ReloadJob, t \in Seq(Change) :
           LET z == [x EXCEPT !.kind = "watch", !.at = "next", !.todo = t]
           IN  z \in ReloadJob /\ z.at = "next" /\ z.was = x.was /\ z.got = x.got
    BY DEF ReloadJob
  <2> QED
    BY <1>3, <2>1, IdleJob
<1> HIDE DEF y
<1>5. /\ r_job' \in [Job -> ReloadJob] /\ r_job'[j] = y
      /\ \A k \in Job : k # j => r_job'[k] = r_job[k]
      /\ Reload!Reading' = Reload!Reading
  <2>1. j \notin Reload!Reading
    BY <1>1, IdleJob DEF Reload!Reading
  <2> QED
    BY <1>2, <1>4, <2>1, OneOther
<1>6. <<>> \in Seq(Change)
  OBVIOUS
<1>7. ReloadType'
  BY <1>1, <1>5, <1>6 DEF ReloadType
<1>8. SourceInv'
  <2>1. 0 <= r_edits
    BY DEF ReloadType
  <2> QED
    BY <1>1, <1>4, <1>5, <2>1, IdleJob DEF SourceInv, Sound, Reload!Absent, Reload!Content
<1>9. Coherent'
  <2>1. \A k \in Reload!Reading : k \in Job /\ k # j
    BY <1>1, IdleJob DEF Reload!Reading
  <2> QED
    BY <1>1, <1>5, <2>1 DEF Coherent, Reload!Absent, Reload!Content
<1>10. Fresh'
  BY <1>4, <1>5 DEF Fresh, Pending
<1>11. BadIsFailure'
  BY <1>1, <1>4, <1>5, IdleJob DEF BadIsFailure
<1> QED
  BY <1>7, <1>8, <1>9, <1>10, <1>11

LEMMA WatchKeeps ==
    ASSUME ReloadInv, NEW j \in Job, Reload!HandleWatchEvent(j)
    PROVE  ReloadInv'
<1> USE DEF ReloadInv
<1>1. /\ r_job[j].at = "next"
      /\ UNCHANGED <<r_file, r_dirty, r_debounceMap, r_batch, r_isReloading, r_failures, r_edits,
                     r_events, r_gate>>
  BY DEF Reload!HandleWatchEvent, Reload!watcher
<1>2. j \notin Reload!Reading /\ \A k \in Reload!Reading : k \in Job /\ k # j
  BY <1>1 DEF Reload!Reading
<1>3. r_job[j] \in ReloadJob /\ r_job[j].was.edit <= r_edits /\ r_job[j].got.edit <= r_edits
      /\ 0 <= r_edits
  BY DEF ReloadType, SourceInv
<1>4. ASSUME r_cache' = Reload!Absent, r_live' = Reload!Absent,
             r_overlap' = (r_overlap \/ Reload!Reading # {}),
             r_missed' = (r_missed \/ r_file # Reload!Absent),
             r_job' = [r_job EXCEPT ![j] = Reload!Rest(j)], UNCHANGED r_lock
      PROVE  ReloadInv'
  <2> DEFINE y == Reload!Rest(j)
  <2>1. y \in ReloadJob /\ y.at \in {"idle", "next"} /\ y.was = Reload!Absent
        /\ y.got = Reload!Absent
    BY RestIs
  <2>2. r_job' = [r_job EXCEPT ![j] = y]
    BY <1>4
  <2> HIDE DEF y
  <2>3. /\ r_job' \in [Job -> ReloadJob] /\ r_job'[j] = y
        /\ \A k \in Job : k # j => r_job'[k] = r_job[k]
        /\ Reload!Reading' = Reload!Reading
    BY <1>2, <2>1, <2>2, OneOther
  <2>4. ReloadType'
    BY <1>1, <1>4, <2>3, IdleJob DEF ReloadType
  <2>5. SourceInv'
    BY <1>1, <1>3, <1>4, <2>1, <2>3, IdleJob DEF SourceInv, Sound, Reload!Absent, Reload!Content
  <2>6. ~r_overlap' => Reload!Reading' = {}
    BY <1>4, <2>3
  <2>7. Coherent'
    BY <1>4, <2>6 DEF Coherent, Reload!Absent, Reload!Content
  <2>8. Fresh'
    <3>1. ~r_missed' => r_file' = Reload!Absent
      BY <1>1, <1>4
    <3> QED
      BY <1>4, <2>6, <3>1, IdleJob DEF Fresh, Reload!Absent, Reload!Content
  <2>9. BadIsFailure'
    BY <1>1, <2>1, <2>3, IdleJob DEF BadIsFailure
  <2> QED
    BY <2>4, <2>5, <2>7, <2>8, <2>9
<1>5. ASSUME r_missed' = TRUE, r_job' = [r_job EXCEPT ![j] = Reload!Rest(j)],
             UNCHANGED <<r_lock, r_cache, r_live, r_overlap>>
      PROVE  ReloadInv'
  <2> DEFINE y == Reload!Rest(j)
  <2>1. y \in ReloadJob /\ y.at \in {"idle", "next"} /\ y.was = Reload!Absent
        /\ y.got = Reload!Absent
    BY RestIs
  <2>2. r_job' = [r_job EXCEPT ![j] = y]
    BY <1>5
  <2> HIDE DEF y
  <2>3. /\ r_job' \in [Job -> ReloadJob] /\ r_job'[j] = y
        /\ \A k \in Job : k # j => r_job'[k] = r_job[k]
        /\ Reload!Reading' = Reload!Reading
    BY <1>2, <2>1, <2>2, OneOther
  <2>4. ReloadType'
    BY <1>1, <1>5, <2>3 DEF ReloadType
  <2>5. SourceInv'
    BY <1>1, <1>3, <1>5, <2>1, <2>3, IdleJob DEF SourceInv, Sound, Reload!Absent, Reload!Content
  <2>7. Coherent'
    BY <1>2, <1>5, <2>3 DEF Coherent, Reload!Absent, Reload!Content
  <2>8. Fresh'
    BY <1>5 DEF Fresh
  <2>9. BadIsFailure'
    BY <1>1, <2>1, <2>3, IdleJob DEF BadIsFailure
  <2> QED
    BY <2>4, <2>5, <2>7, <2>8, <2>9
<1>6. ASSUME r_lock' \in {r_lock, "loading"}, r_job' = [r_job EXCEPT ![j].at = "read"],
             UNCHANGED <<r_cache, r_live, r_missed, r_overlap>>
      PROVE  ReloadInv'
  <2> DEFINE y == [r_job[j] EXCEPT !.at = "read"]
  <2>1. y \in ReloadJob /\ y.at = "read" /\ y.was = r_job[j].was /\ y.got = r_job[j].got
    BY <1>3 DEF ReloadJob
  <2>2. r_job' = [r_job EXCEPT ![j] = y]
    BY <1>6
  <2> HIDE DEF y
  <2>3. /\ r_job' \in [Job -> ReloadJob] /\ r_job'[j] = y
        /\ \A k \in Job : k # j => r_job'[k] = r_job[k]
        /\ Reload!Reading' = Reload!Reading
    BY <1>2, <2>1, <2>2, OneOther
  <2>4. ReloadType'
    BY <1>1, <1>6, <2>3 DEF ReloadType
  <2>5. SourceInv'
    BY <1>1, <1>3, <1>6, <2>1, <2>3 DEF SourceInv, Sound, Reload!Absent, Reload!Content
  <2>7. Coherent'
    BY <1>2, <1>6, <2>3 DEF Coherent, Reload!Absent, Reload!Content
  <2>8. Fresh'
    BY <2>1, <2>3 DEF Fresh, Pending
  <2>9. BadIsFailure'
    BY <1>1, <2>1, <2>3 DEF BadIsFailure
  <2> QED
    BY <2>4, <2>5, <2>7, <2>8, <2>9
<1> QED
  <2>1. CASE Head(r_job[j].todo) = "deleted"
    BY <1>4, <2>1 DEF Reload!HandleWatchEvent
  <2>2. CASE Head(r_job[j].todo) # "deleted" /\ r_manager = "lang" /\ r_lock # "free"
    BY <1>5, <2>2 DEF Reload!HandleWatchEvent
  <2>3. CASE Head(r_job[j].todo) # "deleted" /\ ~(r_manager = "lang" /\ r_lock # "free")
    <3>1. /\ r_lock' = (IF r_manager = "lang" THEN "loading" ELSE r_lock)
          /\ r_job' = [r_job EXCEPT ![j].at = "read"]
          /\ UNCHANGED <<r_cache, r_live, r_missed, r_overlap>>
      BY <2>3 DEF Reload!HandleWatchEvent
    <3> QED
      BY <1>6, <3>1
  <2> QED
    BY <2>1, <2>2, <2>3

LEMMA CommandKeeps ==
    ASSUME ReloadInv, NEW j \in Job, NEW kind \in {"file", "all", "gate"},
           Reload!Command(j, kind)
    PROVE  ReloadInv'
<1> USE DEF ReloadInv
<1> DEFINE skips == kind # "file" /\ r_manager = "config" /\ r_isReloading
           at == IF skips THEN "gate" ELSE "read"
           was == IF skips THEN Reload!Absent ELSE r_file'
           z == [Reload!Idle EXCEPT !.kind = kind, !.at = at, !.was = was]
           y == IF skips /\ kind = "all" THEN Reload!Idle ELSE z
<1>1. /\ r_events < MaxCommands /\ r_events' = r_events + 1 /\ r_job[j] = Reload!Idle
      /\ r_isReloading' = (r_isReloading \/ (kind # "file" /\ r_manager = "config"))
      /\ r_job' = [r_job EXCEPT ![j] = y]
      /\ UNCHANGED <<r_debounceMap, r_batch, r_lock, r_cache, r_live, r_failures, r_edits,
                     r_missed, r_overlap, r_gate>>
  BY DEF Reload!Command
<1>2. (r_file' = Reload!Default /\ r_dirty' = TRUE) \/ UNCHANGED <<r_file, r_dirty>>
  BY DEF Reload!Command
<1>3. r_file' \in Contents /\ Sound(r_file') /\ r_file'.edit <= r_edits /\ 0 <= r_edits
  BY <1>2, IdleJob DEF ReloadType, SourceInv
<1>4. /\ y \in ReloadJob /\ y.at \in {"idle", "read", "gate"} /\ y.got = Reload!Absent
      /\ y.was \in Contents /\ y.was.edit <= r_edits
      /\ y.at # "read" => y.was = Reload!Absent
  <2>1. at \in {"gate", "read"} /\ was \in Contents /\ was.edit <= r_edits
        /\ (at # "read" => was = Reload!Absent)
    BY <1>3, IdleJob
  <2> HIDE DEF at, was, skips
  <2>3. z \in ReloadJob /\ z.at = at /\ z.was = was /\ z.got = Reload!Absent
    BY <2>1, IdleJob DEF ReloadJob
  <2> HIDE DEF z
  <2>4. CASE y = z
    BY <2>1, <2>3, <2>4
  <2>5. CASE y = Reload!Idle
    BY <1>3, <2>5, IdleJob
  <2> QED
    BY <2>4, <2>5
<1> HIDE DEF y, z, at, was, skips
<1>5. j \notin Reload!Reading /\ \A k \in Reload!Reading : k \in Job /\ k # j
  BY <1>1, IdleJob DEF Reload!Reading
<1>6. /\ r_job' \in [Job -> ReloadJob] /\ r_job'[j] = y
      /\ \A k \in Job : k # j => r_job'[k] = r_job[k]
      /\ Reload!Reading' = Reload!Reading
  BY <1>1, <1>4, <1>5, OneOther
<1>7. ReloadType'
  <2>1. r_events' \in 0..MaxCommands
    BY <1>1, ReloadAssumption DEF ReloadType
  <2>2. r_isReloading' \in BOOLEAN
    BY <1>1 DEF ReloadType
  <2> QED
    BY <1>1, <1>3, <1>6, <2>1, <2>2 DEF ReloadType
<1>8. SourceInv'
  BY <1>1, <1>3, <1>4, <1>6, IdleJob DEF SourceInv, Sound, Reload!Absent, Reload!Content
<1>9. Coherent'
  BY <1>1, <1>5, <1>6 DEF Coherent, Reload!Absent, Reload!Content
<1>10. Fresh'
  <2>1. CASE y.at = "read" \/ r_dirty' = TRUE
    BY <1>6, <2>1 DEF Fresh, Pending
  <2>2. CASE y.at # "read" /\ UNCHANGED <<r_file, r_dirty>>
    <3>1. Pending => Pending'
      <4>1. r_job[j].at \notin {"next", "read"}
        BY <1>1, IdleJob
      <4> QED
        BY <1>1, <1>6, <2>2, <4>1 DEF Pending
    <3> QED
      BY <1>1, <1>5, <1>6, <2>2, <3>1 DEF Fresh, Reload!Absent, Reload!Content
  <2> QED
    BY <1>2, <2>1, <2>2
<1>11. BadIsFailure'
  <2>1. ASSUME NEW k \in Job, k # j, r_job[k].was = r_file', r_job[k].was.state = "bad"
        PROVE  r_file' = r_file
    BY <1>2, <2>1, IdleJob
  <2> SUFFICES ASSUME NEW k \in Job, r_job'[k].was.state = "bad", r_job'[k].was = r_file'
               PROVE  /\ r_job'[k].at # "persist"
                      /\ r_job'[k].at = "validate" => r_job'[k].got.state = "bad"
                      /\ r_job'[k].at \in {"swap", "gate"} => r_failures'
    BY <1>1 DEF BadIsFailure
  <2>2. CASE k = j
    BY <1>4, <1>6, <2>2, IdleJob
  <2>3. CASE k # j
    BY <1>1, <1>6, <2>1, <2>3 DEF BadIsFailure
  <2> QED
    BY <2>2, <2>3
<1> QED
  BY <1>7, <1>8, <1>9, <1>10, <1>11

LEMMA PersistKeeps ==
    ASSUME ReloadInv, NEW j \in Job, Reload!Persist(j)
    PROVE  ReloadInv'
<1> USE DEF ReloadInv
<1> DEFINE g == [r_job[j].got EXCEPT !.rand = FALSE]
           x == [r_job[j] EXCEPT !.got = g]
           y == [x EXCEPT !.at = "validate"]
<1>1. /\ r_job[j].at = "persist" /\ r_file' = g /\ r_dirty' = TRUE
      /\ UNCHANGED <<r_debounceMap, r_batch, r_isReloading, r_lock, r_cache, r_live, r_failures,
                     r_edits, r_events, r_missed, r_overlap, r_gate>>
  BY DEF Reload!Persist
<1>2. r_job[j] \in ReloadJob
  BY DEF ReloadType
<1>3. r_job' = [r_job EXCEPT ![j] = y]
  <2>1. r_job' = [r_job EXCEPT ![j].got.rand = FALSE, ![j].at = "validate"]
    BY DEF Reload!Persist
  <2>2. r_job' = [[r_job EXCEPT ![j].got.rand = FALSE] EXCEPT ![j].at = "validate"]
    BY <2>1
  <2>3. [r_job EXCEPT ![j].got.rand = FALSE] = [r_job EXCEPT ![j] = x]
    OBVIOUS
  <2> HIDE DEF x
  <2> QED
    BY <2>2, <2>3 DEF ReloadType
<1>4. /\ r_job[j].got \in Contents /\ r_job[j].got.state = "good"
      /\ r_job[j].got.edit <= r_edits /\ r_job[j].was.edit <= r_edits
  BY <1>1, <1>2 DEF SourceInv, Sound, ReloadJob
<1>5. g \in Contents /\ g.state = "good" /\ g.edit <= r_edits /\ g.rand = FALSE
  BY <1>4 DEF Contents
<1> HIDE DEF g
<1>6. x \in ReloadJob /\ x.got = g /\ x.was = r_job[j].was
  BY <1>2, <1>5 DEF ReloadJob
<1> HIDE DEF x
<1>7. y \in ReloadJob /\ y.at = "validate" /\ y.got = g /\ y.was = r_job[j].was
  BY <1>6 DEF ReloadJob
<1> HIDE DEF y
<1>8. /\ r_job' \in [Job -> ReloadJob] /\ r_job'[j] = y
      /\ \A k \in Job : k # j => r_job'[k] = r_job[k]
      /\ Reload!Reading' = Reload!Reading \cup {j}
  BY <1>3, <1>7, OneJob
<1>9. j \in Reload!Reading /\ Reload!Reading' = Reload!Reading
  BY <1>1, <1>8 DEF Reload!Reading
<1>10. ReloadType'
  BY <1>1, <1>5, <1>8 DEF ReloadType
<1>11. SourceInv'
  BY <1>1, <1>4, <1>5, <1>7, <1>8 DEF SourceInv, Sound, Reload!Absent, Reload!Content
<1>12. Coherent'
  <2>1. ~r_overlap => Reload!Reading = {j}
    BY <1>9 DEF Coherent
  <2> QED
    BY <1>1, <1>5, <1>7, <1>8, <1>9, <2>1 DEF Coherent, Reload!Absent, Reload!Content
<1>13. Fresh'
  BY <1>1 DEF Fresh, Pending
<1>14. BadIsFailure'
  <2>1. \A k \in Job : r_job'[k].was.state = "bad" => r_job'[k].was # r_file'
    BY <1>1, <1>5
  <2> QED
    BY <1>1, <2>1 DEF BadIsFailure
<1> QED
  BY <1>10, <1>11, <1>12, <1>13, <1>14

LEMMA GateKeeps ==
    ASSUME ReloadInv, NEW j \in Job, Reload!Gate(j)
    PROVE  ReloadInv'
<1> USE DEF ReloadInv
<1>1. /\ r_job[j].at = "gate" /\ r_job' = [r_job EXCEPT ![j] = Reload!Idle]
      /\ r_gate' = (IF r_failures THEN "blocked"
                    ELSE IF r_job[j].was.state = "bad" /\ r_job[j].was = r_file THEN "wrong"
                    ELSE "passed")
      /\ UNCHANGED <<r_file, r_dirty, r_debounceMap, r_batch, r_isReloading, r_lock, r_cache,
                     r_live, r_failures, r_edits, r_events, r_missed, r_overlap>>
  BY DEF Reload!Gate, Reload!watcher
<1>2. r_gate' # "wrong"
  BY <1>1 DEF BadIsFailure
<1>3. j \notin Reload!Reading /\ \A k \in Reload!Reading : k \in Job /\ k # j
  BY <1>1 DEF Reload!Reading
<1>4. /\ r_job' \in [Job -> ReloadJob] /\ r_job'[j] = Reload!Idle
      /\ \A k \in Job : k # j => r_job'[k] = r_job[k]
      /\ Reload!Reading' = Reload!Reading
  BY <1>1, <1>3, IdleJob, OneOther
<1>5. ReloadType'
  BY <1>1, <1>4 DEF ReloadType
<1>6. SourceInv'
  <2>1. 0 <= r_edits
    BY DEF ReloadType
  <2> QED
    BY <1>1, <1>4, <2>1, IdleJob DEF SourceInv, Sound, Reload!Absent, Reload!Content
<1>7. Coherent'
  BY <1>1, <1>3, <1>4 DEF Coherent, Reload!Absent, Reload!Content
<1>8. Fresh'
  <2>1. Pending => Pending'
    <3>1. r_job[j].at \notin {"next", "read"}
      BY <1>1
    <3> QED
      BY <1>1, <1>4, <3>1 DEF Pending
  <2> QED
    BY <1>1, <1>3, <1>4, <2>1 DEF Fresh, Reload!Absent, Reload!Content
<1>9. BadIsFailure'
  BY <1>1, <1>2, <1>4, IdleJob DEF BadIsFailure
<1> QED
  BY <1>5, <1>6, <1>7, <1>8, <1>9

LEMMA SwapKeeps ==
    ASSUME ReloadInv, NEW j \in Job, Reload!Swap(j)
    PROVE  ReloadInv'
<1> USE DEF ReloadInv
<1>1. /\ r_job[j].at = "swap" /\ r_cache' = r_job[j].got /\ r_isReloading' = FALSE
      /\ Reload!Ended(j)
      /\ UNCHANGED <<r_file, r_dirty, r_debounceMap, r_batch, r_live, r_failures, r_edits,
                     r_events, r_missed, r_overlap, r_gate>>
  BY DEF Reload!Swap, Reload!watcher
<1>2. PICK y \in ReloadJob :
         /\ r_job' = [r_job EXCEPT ![j] = y] /\ y.at \in {"idle", "next", "gate"}
         /\ y.was \in {Reload!Absent, r_job[j].was} /\ y.was.edit <= r_edits
         /\ y.got.edit <= r_edits
         /\ r_lock' \in {r_lock, "timer"}
  BY <1>1, EndedIs
<1>3. /\ r_job' \in [Job -> ReloadJob] /\ r_job'[j] = y
      /\ \A k \in Job : k # j => r_job'[k] = r_job[k]
      /\ Reload!Reading' = Reload!Reading \ {j}
  BY <1>2, OneJob
<1>4. j \in Reload!Reading /\ \A k \in Reload!Reading : k \in Job
  BY <1>1 DEF Reload!Reading
<1>5. r_job[j].got \in Contents /\ r_job[j].got.state \in {"good", "absent"}
  BY <1>1 DEF ReloadType, ReloadJob, SourceInv
<1>6. ReloadType'
  BY <1>1, <1>2, <1>3, <1>5 DEF ReloadType
<1>7. SourceInv'
  BY <1>1, <1>2, <1>3, <1>5 DEF SourceInv, Sound, Reload!Absent, Reload!Content
<1>8. ~r_overlap => Reload!Reading = {j} /\ (r_job[j].got = Reload!Absent \/ r_job[j].got = r_live)
  BY <1>1, <1>4 DEF Coherent
<1>9. ~r_overlap' => Reload!Reading' = {} /\ (r_cache' = Reload!Absent \/ r_cache' = r_live')
  BY <1>1, <1>3, <1>8
<1>10. Coherent'
  BY <1>9 DEF Coherent, Reload!Absent, Reload!Content
<1>11. Fresh'
  <2>1. Pending => Pending'
    <3>1. r_job[j].at \notin {"next", "read"}
      BY <1>1
    <3> QED
      BY <1>1, <1>3, <3>1 DEF Pending
  <2>2. ~r_missed' /\ ~r_overlap' /\ ~Pending' =>
           /\ r_file.state = "good" => r_job[j].got = r_file
           /\ r_file.state = "absent" => r_job[j].got = Reload!Absent
    BY <1>1, <1>4, <2>1 DEF Fresh
  <2> QED
    BY <1>1, <1>9, <2>2 DEF Fresh, Reload!Absent, Reload!Content
<1>12. BadIsFailure'
  BY <1>1, <1>2, <1>3, IdleJob DEF BadIsFailure
<1> QED
  BY <1>6, <1>7, <1>10, <1>11, <1>12

LEMMA FileReadKeeps ==
    ASSUME ReloadInv, NEW j \in Job, Reload!Read(j)
    PROVE  ReloadInv'
<1> USE DEF ReloadInv
<1> DEFINE gone == r_file = Reload!Absent
           full == r_file.state = "good" \/ (gone /\ Reload!Whole(j))
           at == IF gone THEN "swap"
                 ELSE IF r_manager = "config" /\ r_file.rand /\ r_file.state # "broken"
                 THEN "persist" ELSE "validate"
           y == [[r_job[j] EXCEPT !.got = r_file] EXCEPT !.at = at]
<1>1. /\ r_job[j].at = "read"
      /\ r_overlap' = (Reload!Reading # {} \/ (r_overlap /\ ~full))
      /\ r_missed' = (~full /\ (r_missed \/ (gone /\ r_cache # Reload!Absent)))
      /\ UNCHANGED <<r_file, r_dirty, r_debounceMap, r_batch, r_isReloading, r_cache, r_live,
                     r_failures, r_edits, r_events, r_gate>>
  BY DEF Reload!Read, Reload!watcher
<1>2. r_job[j] \in ReloadJob /\ r_job[j].was.edit <= r_edits /\ r_job[j].got.edit <= r_edits
  BY DEF ReloadType, SourceInv
<1>3. j \notin Reload!Reading /\ \A k \in Reload!Reading : k \in Job /\ k # j
  BY <1>1 DEF Reload!Reading
<1>4. ~r_overlap' => Reload!Reading = {} /\ (r_overlap => full)
  BY <1>1
<1>5. ~r_missed' => full \/ (~r_missed /\ (gone => r_cache = Reload!Absent))
  BY <1>1
<1>6. r_file.state = "absent" => gone
  BY DEF SourceInv, Sound
<1>7. CASE gone /\ ~Reload!Whole(j)
  <2>1. Reload!Ended(j)
    BY <1>7 DEF Reload!Read
  <2>2. PICK q \in ReloadJob :
           /\ r_job' = [r_job EXCEPT ![j] = q] /\ q.at \in {"idle", "next", "gate"}
           /\ q.was \in {Reload!Absent, r_job[j].was} /\ q.was.edit <= r_edits
           /\ q.got.edit <= r_edits
           /\ r_lock' \in {r_lock, "timer"}
    BY <2>1, EndedIs
  <2>3. /\ r_job' \in [Job -> ReloadJob] /\ r_job'[j] = q
        /\ \A k \in Job : k # j => r_job'[k] = r_job[k]
        /\ Reload!Reading' = Reload!Reading
    BY <1>3, <2>2, OneOther
  <2>4. ~full
    BY <1>7, IdleJob
  <2>5. ReloadType'
    BY <1>1, <2>2, <2>3 DEF ReloadType
  <2>6. SourceInv'
    BY <1>1, <2>2, <2>3 DEF SourceInv, Sound, Reload!Absent, Reload!Content
  <2>7. Coherent'
    BY <1>1, <1>4, <2>3, <2>4 DEF Coherent, Reload!Absent, Reload!Content
  <2>8. Fresh'
    <3>1. ~r_missed' => r_cache = Reload!Absent /\ r_file = Reload!Absent
      BY <1>5, <1>7, <2>4
    <3> QED
      BY <1>1, <1>4, <2>3, <3>1, IdleJob DEF Fresh, Reload!Absent, Reload!Content
  <2>9. BadIsFailure'
    <3>1. r_file.state = "absent"
      BY <1>7, IdleJob
    <3>2. \A k \in Job : r_job'[k].was.state = "bad" => r_job'[k].was # r_file'
      BY <1>1, <3>1
    <3> QED
      BY <1>1, <3>2 DEF BadIsFailure
  <2> QED
    BY <2>5, <2>6, <2>7, <2>8, <2>9
<1>8. CASE ~(gone /\ ~Reload!Whole(j))
  <2>1. r_job' = [r_job EXCEPT ![j] = y] /\ UNCHANGED r_lock
    <3>1. r_job' = [r_job EXCEPT ![j].got = r_file, ![j].at = at] /\ UNCHANGED r_lock
      BY <1>8 DEF Reload!Read
    <3> HIDE DEF at, gone
    <3>2. r_job' = [[r_job EXCEPT ![j].got = r_file] EXCEPT ![j].at = at]
      BY <3>1
    <3>3. [r_job EXCEPT ![j].got = r_file] = [r_job EXCEPT ![j] = [r_job[j] EXCEPT !.got = r_file]]
      OBVIOUS
    <3> QED
      BY <3>1, <3>2, <3>3 DEF ReloadType
  <2>2. at \in {"persist", "validate", "swap"}
        /\ (at = "swap" <=> gone) /\ (at = "persist" => r_file.rand)
    OBVIOUS
  <2> HIDE DEF at
  <2>3. y \in ReloadJob /\ y.at = at /\ y.got = r_file /\ y.was = r_job[j].was
    <3> DEFINE x == [r_job[j] EXCEPT !.got = r_file]
    <3>1. x \in ReloadJob /\ x.got = r_file /\ x.was = r_job[j].was
      BY <1>2 DEF ReloadType, ReloadJob
    <3> HIDE DEF x
    <3>2. LET w == [x EXCEPT !.at = at]
          IN  w \in ReloadJob /\ w.at = at /\ w.got = r_file /\ w.was = r_job[j].was
      BY <2>2, <3>1 DEF ReloadJob
    <3> QED
      BY <3>2 DEF x
  <2> HIDE DEF y
  <2>4. /\ r_job' \in [Job -> ReloadJob] /\ r_job'[j] = y
        /\ \A k \in Job : k # j => r_job'[k] = r_job[k]
        /\ Reload!Reading' = Reload!Reading \cup {j}
    BY <2>1, <2>2, <2>3, OneJob
  <2>5. ReloadType'
    BY <1>1, <2>1, <2>4 DEF ReloadType
  <2>6. SourceInv'
    <3>1. /\ y.got.edit <= r_edits /\ y.was.edit <= r_edits
          /\ y.at \in {"persist", "validate"} => y.got.state # "absent" /\ Sound(y.got)
          /\ y.at = "persist" => y.got.rand
          /\ y.at = "swap" => y.got.state \in {"good", "absent"}
      BY <1>2, <1>6, <2>2, <2>3, IdleJob DEF SourceInv
    <3>2. \A k \in Job : r_job'[k] = r_job[k] \/ r_job'[k] = y
      BY <2>4
    <3> QED
      BY <1>1, <3>1, <3>2 DEF SourceInv, Sound, Reload!Absent, Reload!Content
  <2>7. ~r_overlap' => Reload!Reading' = {j}
    BY <1>4, <2>4
  <2>8. Coherent'
    <3>1. ~r_overlap' /\ y.at = "swap" => y.got = Reload!Absent
      BY <2>2, <2>3
    <3>2. ~r_overlap' /\ y.at \in {"persist", "validate"} =>
             y.got.state = "good" \/ (r_cache # Reload!Absent => r_live = r_cache)
      <4> SUFFICES ASSUME ~r_overlap', r_file.state # "good", ~gone
                   PROVE  r_cache # Reload!Absent => r_live = r_cache
        BY <2>2, <2>3
      <4>1. ~full /\ ~r_overlap /\ Reload!Reading = {}
        BY <1>4
      <4> QED
        BY <4>1 DEF Coherent
    <3> QED
      BY <1>1, <2>4, <2>7, <3>1, <3>2 DEF Coherent, Reload!Absent, Reload!Content
  <2>9. Fresh'
    <3>1. y.at = "swap" => r_file.state = "absent"
      BY <2>2, <2>3, IdleJob
    <3>2. y.at = "swap" => y.got = Reload!Absent
      BY <2>2, <2>3
    <3> QED
      BY <1>1, <2>3, <2>4, <2>7, <3>1, <3>2 DEF Fresh, Reload!Absent, Reload!Content
  <2>10. BadIsFailure'
    <3>1. ASSUME y.was.state = "bad", y.was = r_file
          PROVE  y.at = "validate" /\ y.got.state = "bad"
      <4>1. y.at # "swap"
        BY <2>2, <2>3, <3>1, IdleJob
      <4>2. y.at # "persist"
        BY <2>2, <2>3, <3>1 DEF SourceInv, Sound
      <4> QED
        BY <2>2, <2>3, <3>1, <4>1, <4>2
    <3>2. \A k \in Job : r_job'[k] = r_job[k] \/ (k = j /\ r_job'[k] = y)
      BY <2>4
    <3> SUFFICES ASSUME NEW k \in Job, r_job'[k].was.state = "bad", r_job'[k].was = r_file'
                 PROVE  /\ r_job'[k].at # "persist"
                        /\ r_job'[k].at = "validate" => r_job'[k].got.state = "bad"
                        /\ r_job'[k].at \in {"swap", "gate"} => r_failures'
      BY <1>1 DEF BadIsFailure
    <3>3. CASE r_job'[k] = y
      BY <1>1, <3>1, <3>3
    <3>4. CASE r_job'[k] = r_job[k]
      BY <1>1, <3>4 DEF BadIsFailure
    <3> QED
      BY <3>2, <3>3, <3>4
  <2> QED
    BY <2>5, <2>6, <2>8, <2>9, <2>10
<1> QED
  BY <1>7, <1>8

LEMMA ValidateKeeps ==
    ASSUME ReloadInv, NEW j \in Job, Reload!Validate(j)
    PROVE  ReloadInv'
<1> USE DEF ReloadInv
<1> DEFINE got == r_job[j].got
           kept == IF got.state = "good" THEN got ELSE Reload!Absent
           y == [[r_job[j] EXCEPT !.at = "swap"] EXCEPT !.got = kept]
<1>1. /\ r_job[j].at = "validate"
      /\ r_failures' = (r_failures \/ got.state = "bad")
      /\ r_live' = (IF got.state = "good" THEN got ELSE r_live)
      /\ UNCHANGED <<r_file, r_dirty, r_debounceMap, r_batch, r_isReloading, r_edits, r_events,
                     r_missed, r_overlap, r_gate>>
  BY DEF Reload!Validate, Reload!watcher, Reload!Applies
<1>2. /\ r_job[j] \in ReloadJob /\ r_job[j].was.edit <= r_edits /\ got.edit <= r_edits
      /\ got \in Contents /\ got.state # "absent" /\ 0 <= r_edits
  BY <1>1 DEF ReloadType, SourceInv, ReloadJob
<1>3. j \in Reload!Reading /\ \A k \in Reload!Reading : k \in Job
  BY <1>1 DEF Reload!Reading
<1>4. ~r_overlap => /\ Reload!Reading = {j}
                    /\ got.state = "good" \/ (r_cache # Reload!Absent => r_live = r_cache)
  BY <1>1, <1>3 DEF Coherent
<1>5. ASSUME ~r_missed, ~r_overlap, ~Pending PROVE got = r_file
  BY <1>1, <1>3, <1>5 DEF Fresh
<1>6. r_live' \in Contents /\ r_live'.state \in {"good", "absent"}
  BY <1>1, <1>2 DEF ReloadType, SourceInv
<1>7. r_file' = r_file /\ r_overlap' = r_overlap /\ r_missed' = r_missed /\ r_edits' = r_edits
      /\ r_gate' = r_gate /\ (r_failures => r_failures') /\ (got.state = "bad" => r_failures')
  BY <1>1
<1>8. \A q \in ReloadJob : r_job' = [r_job EXCEPT ![j] = q] => (Pending => Pending')
  <2> SUFFICES ASSUME NEW q \in ReloadJob, r_job' = [r_job EXCEPT ![j] = q], Pending
               PROVE  Pending'
    OBVIOUS
  <2>1. r_job[j].at \notin {"next", "read"} /\ \A k \in Job : k # j => r_job'[k] = r_job[k]
    BY <1>1, OneJob
  <2> QED
    BY <1>1, <2>1 DEF Pending
<1>9. r_job[j].was.state = "bad" /\ r_job[j].was = r_file => r_failures'
  BY <1>1, <1>7 DEF BadIsFailure
<1>10. CASE Reload!Whole(j)
  <2>1. r_job' = [r_job EXCEPT ![j] = y] /\ UNCHANGED <<r_lock, r_cache>>
    <3>1. r_job' = [r_job EXCEPT ![j].at = "swap", ![j].got = kept]
          /\ UNCHANGED <<r_lock, r_cache>>
      BY <1>10 DEF Reload!Validate, Reload!Applies
    <3> HIDE DEF kept, got
    <3>2. r_job' = [[r_job EXCEPT ![j].at = "swap"] EXCEPT ![j].got = kept]
      BY <3>1
    <3>3. [r_job EXCEPT ![j].at = "swap"] = [r_job EXCEPT ![j] = [r_job[j] EXCEPT !.at = "swap"]]
      OBVIOUS
    <3> QED
      BY <3>1, <3>2, <3>3 DEF ReloadType
  <2>2. kept \in Contents /\ kept.state \in {"good", "absent"} /\ kept.edit <= r_edits
        /\ (kept = Reload!Absent \/ (kept = got /\ got.state = "good"))
    BY <1>2, IdleJob
  <2> HIDE DEF kept
  <2>3. y \in ReloadJob /\ y.at = "swap" /\ y.got = kept /\ y.was = r_job[j].was
    <3> DEFINE x == [r_job[j] EXCEPT !.at = "swap"]
    <3>1. x \in ReloadJob /\ x.at = "swap" /\ x.was = r_job[j].was
      BY <1>2 DEF ReloadJob
    <3> HIDE DEF x
    <3>2. LET w == [x EXCEPT !.got = kept]
          IN  w \in ReloadJob /\ w.at = "swap" /\ w.got = kept /\ w.was = r_job[j].was
      BY <2>2, <3>1 DEF ReloadJob
    <3> QED
      BY <3>2 DEF x
  <2> HIDE DEF y
  <2>4. /\ r_job' \in [Job -> ReloadJob] /\ r_job'[j] = y
        /\ \A k \in Job : k # j => r_job'[k] = r_job[k]
        /\ Reload!Reading' = Reload!Reading \cup {j}
    BY <2>1, <2>3, OneJob
  <2>5. ReloadType'
    BY <1>1, <1>6, <2>1, <2>4 DEF ReloadType
  <2>6. SourceInv'
    <3>1. \A k \in Job : r_job'[k] = r_job[k] \/ r_job'[k] = y
      BY <2>4
    <3> QED
      BY <1>2, <1>6, <1>7, <2>1, <2>2, <2>3, <3>1 DEF SourceInv, Sound, Reload!Absent, Reload!Content
  <2>7. ~r_overlap' => Reload!Reading' = {j}
    BY <1>4, <1>7, <2>4
  <2>8. Coherent'
    <3>1. kept = Reload!Absent \/ kept = r_live'
      BY <1>1, <2>2
    <3> QED
      BY <2>3, <2>4, <2>7, <3>1 DEF Coherent, Reload!Absent, Reload!Content
  <2>9. Fresh'
    <3>1. ~Pending' => ~Pending
      BY <1>8, <2>1, <2>3
    <3>2. ASSUME ~r_missed', ~r_overlap', ~Pending'
          PROVE  /\ r_file.state = "good" => kept = r_file
                 /\ r_file.state # "absent"
      <4>1. got = r_file
        BY <1>5, <1>7, <3>1, <3>2
      <4> QED
        BY <1>2, <4>1 DEF kept
    <3> QED
      BY <1>7, <2>3, <2>4, <2>7, <3>2 DEF Fresh, Reload!Absent, Reload!Content
  <2>10. BadIsFailure'
    <3>1. \A k \in Job : r_job'[k] = r_job[k] \/ r_job'[k] = y
      BY <2>4
    <3> QED
      BY <1>7, <1>9, <2>3, <3>1 DEF BadIsFailure
  <2> QED
    BY <2>5, <2>6, <2>8, <2>9, <2>10
<1>11. CASE ~Reload!Whole(j)
  <2>1. Reload!Ended(j) /\ r_cache' = (IF got.state = "good" THEN got ELSE r_cache)
    BY <1>11 DEF Reload!Validate, Reload!Applies
  <2>2. PICK q \in ReloadJob :
           /\ r_job' = [r_job EXCEPT ![j] = q] /\ q.at \in {"idle", "next", "gate"}
           /\ q.was \in {Reload!Absent, r_job[j].was} /\ q.was.edit <= r_edits
           /\ q.got.edit <= r_edits
           /\ r_lock' \in {r_lock, "timer"}
    BY <2>1, EndedIs
  <2>3. /\ r_job' \in [Job -> ReloadJob] /\ r_job'[j] = q
        /\ \A k \in Job : k # j => r_job'[k] = r_job[k]
        /\ Reload!Reading' = Reload!Reading \ {j}
    BY <2>2, OneJob
  <2>4. r_cache' \in Contents /\ r_cache'.state \in {"good", "absent"}
    BY <1>2, <2>1 DEF ReloadType, SourceInv
  <2>5. ReloadType'
    BY <1>1, <1>6, <2>2, <2>3, <2>4 DEF ReloadType
  <2>6. SourceInv'
    BY <1>6, <1>7, <2>2, <2>3, <2>4 DEF SourceInv, Sound, Reload!Absent, Reload!Content
  <2>7. ~r_overlap' => Reload!Reading' = {} /\ (r_cache' # Reload!Absent => r_live' = r_cache')
    BY <1>1, <1>4, <2>1, <2>3
  <2>8. Coherent'
    BY <2>7 DEF Coherent, Reload!Absent, Reload!Content
  <2>9. Fresh'
    <3>1. ~Pending' => ~Pending
      BY <1>8, <2>2
    <3>2. ASSUME ~r_missed', ~r_overlap', ~Pending'
          PROVE  /\ r_file.state = "good" => r_cache' = r_file
                 /\ r_file.state # "absent"
      <4>1. got = r_file
        BY <1>5, <1>7, <3>1, <3>2
      <4> QED
        BY <1>2, <2>1, <4>1
    <3> QED
      BY <1>7, <2>7, <3>2 DEF Fresh, Reload!Absent, Reload!Content
  <2>10. BadIsFailure'
    <3>1. \A k \in Job : r_job'[k] = r_job[k] \/ r_job'[k] = q
      BY <2>3
    <3>2. q.was.state = "bad" /\ q.was = r_file => r_failures'
      BY <1>9, <2>2, IdleJob
    <3> QED
      BY <1>7, <2>2, <3>1, <3>2 DEF BadIsFailure
  <2> QED
    BY <2>5, <2>6, <2>8, <2>9, <2>10
<1> QED
  BY <1>10, <1>11

LEMMA ReloadStart == Reload!Init => ReloadInv
<1> SUFFICES ASSUME Reload!Init PROVE ReloadInv
  OBVIOUS
<1>1. /\ r_file = Reload!Default /\ r_cache = Reload!Default /\ r_live = Reload!Default
      /\ r_debounceMap = {} /\ r_batch = <<>> /\ r_job = [j \in Job |-> Reload!Idle]
      /\ r_isReloading = FALSE /\ r_lock = "free" /\ r_edits = 0 /\ r_events = 0 /\ r_gate = "none"
  BY DEF Reload!Init
<1>2. <<>> \in Seq(Change)
  OBVIOUS
<1>3. ReloadType
  <2>1. r_file \in Contents /\ r_cache \in Contents /\ r_live \in Contents
    BY <1>1, IdleJob
  <2>2. r_job \in [Job -> ReloadJob]
    BY <1>1, IdleJob
  <2>3. r_edits \in 0..MaxEdits /\ r_events \in 0..MaxCommands
    BY <1>1, ReloadAssumption
  <2> QED
    BY <1>1, <1>2, <2>1, <2>2, <2>3 DEF ReloadType
<1>4. SourceInv
  BY <1>1, IdleJob DEF SourceInv
<1>5. Reload!Reading = {}
  BY <1>1, IdleJob DEF Reload!Reading
<1>6. Coherent /\ Fresh
  BY <1>1, <1>5, IdleJob DEF Coherent, Fresh
<1>7. BadIsFailure
  BY <1>1, IdleJob DEF BadIsFailure
<1> QED
  BY <1>3, <1>4, <1>6, <1>7 DEF ReloadInv

LEMMA ReloadStays == ReloadInv /\ [Reload!Next]_(Reload!vars) => ReloadInv'
<1> SUFFICES ASSUME ReloadInv, [Reload!Next]_(Reload!vars) PROVE ReloadInv'
  OBVIOUS
<1>1. CASE Reload!Next
  <2>1. ASSUME NEW j \in Job,
               \/ Reload!HandleWatchEvent(j) \/ Reload!FlushBatch(j) \/ Reload!Read(j)
               \/ Reload!Persist(j) \/ Reload!Validate(j) \/ Reload!Swap(j) \/ Reload!Gate(j)
        PROVE  ReloadInv'
    <3>1. CASE Reload!HandleWatchEvent(j)
      BY <3>1, WatchKeeps
    <3>2. CASE Reload!FlushBatch(j)
      BY <3>2, FlushKeeps
    <3>3. CASE Reload!Read(j)
      BY <3>3, FileReadKeeps
    <3>4. CASE Reload!Persist(j)
      BY <3>4, PersistKeeps
    <3>5. CASE Reload!Validate(j)
      BY <3>5, ValidateKeeps
    <3>6. CASE Reload!Swap(j)
      BY <3>6, SwapKeeps
    <3>7. CASE Reload!Gate(j)
      BY <3>7, GateKeeps
    <3> QED
      BY <2>1, <3>1, <3>2, <3>3, <3>4, <3>5, <3>6, <3>7
  <2>2. ASSUME NEW j \in Job, NEW kind \in {"file", "all", "gate"}, Reload!Command(j, kind)
        PROVE  ReloadInv'
    BY <2>2, CommandKeeps
  <2>3. ASSUME NEW state \in {"good", "bad", "broken"}, NEW rand \in BOOLEAN,
               rand => state = "good", Reload!Write(state, rand)
        PROVE  ReloadInv'
    BY <2>3, WriteKeeps
  <2>4. ASSUME Reload!Write("good", TRUE) PROVE ReloadInv'
    BY <2>3, <2>4
  <2>5. ASSUME NEW state \in {"good", "bad", "broken"}, Reload!Write(state, FALSE)
        PROVE  ReloadInv'
    BY <2>3, <2>5
  <2>6. ASSUME Reload!Remove \/ Reload!HandleEvent PROVE ReloadInv'
    BY <2>6, RemoveKeeps, EventKeeps
  <2>7. ASSUME (\E type \in {"created", "modified", "deleted"} : Reload!Expire(type))
               \/ Reload!Unlock
        PROVE  ReloadInv'
    BY <2>7, QuietKeeps
  <2> QED
    BY <1>1, <2>1, <2>2, <2>4, <2>5, <2>6, <2>7 DEF Reload!Next
<1>2. CASE UNCHANGED Reload!vars
  <2>1. UNCHANGED <<r_file, r_dirty, r_debounceMap, r_batch, r_job, r_isReloading, r_lock, r_cache,
                    r_live, r_failures, r_edits, r_events, r_missed, r_overlap, r_gate>>
    BY <1>2 DEF Reload!vars
  <2>2. ReloadType' /\ SourceInv' /\ BadIsFailure'
    BY <2>1 DEF ReloadInv, ReloadType, SourceInv, BadIsFailure, Sound, Reload!Absent, Reload!Content
  <2>3. Coherent' /\ Reload!Reading' = Reload!Reading
    BY <2>1, SameJobs DEF ReloadInv
  <2>4. Fresh'
    BY <2>1, <2>3 DEF ReloadInv, Fresh, Pending, Reload!Absent, Reload!Content
  <2> QED
    BY <2>2, <2>3, <2>4 DEF ReloadInv
<1> QED
  BY <1>1, <1>2

(* At rest the memory holds the file, nothing that is not valid is applied,*)
(* and a bad file blocks its plugin, for all handlers, edits and commands  *)
(* (config.ts, lang.ts, pluginGate.ts).                                    *)
THEOREM MemoryIsTheFile == SvcSpec => []MemoryIsFile
<1>1. ReloadInv => MemoryIsFile
  <2> SUFFICES ASSUME ReloadInv PROVE MemoryIsFile
    OBVIOUS
  <2> USE DEF ReloadInv
  <2>1. Reload!TypeOK
    <3>1. \A c \in {r_file, r_cache, r_live} : c \in Contents
      BY DEF ReloadType
    <3>2. \A j \in Job : r_job[j] \in ReloadJob
      BY DEF ReloadType
    <3> QED
      BY <3>1, <3>2 DEF ReloadType, Reload!TypeOK, Contents, ReloadJob
  <2>2. ASSUME Reload!AtRest, ~r_missed, ~r_overlap
        PROVE  /\ r_file.state = "good" => r_cache = r_file
               /\ r_file.state = "absent" => r_cache = Reload!Absent
               /\ r_cache # Reload!Absent => r_live = r_cache
    <3>1. ~Pending /\ Reload!Reading = {}
      BY <2>2 DEF Reload!AtRest, Reload!Busy, Pending, Reload!Reading
    <3> QED
      BY <2>2, <3>1 DEF Fresh, Coherent
  <2>3. Reload!MemoryIsFile
    BY <2>2 DEF Reload!MemoryIsFile
  <2>4. Reload!OnlyValidIsApplied
    BY DEF SourceInv, Reload!OnlyValidIsApplied
  <2>5. Reload!BadFileBlocks
    BY DEF BadIsFailure, Reload!BadFileBlocks
  <2> QED
    BY <2>1, <2>3, <2>4, <2>5 DEF MemoryIsFile
<1>2. Reload!Spec => []ReloadInv
  BY ReloadStart, ReloadStays, PTL DEF Reload!Spec
<1> QED
  BY <1>1, <1>2, Each, PTL
===============================================================================
