---------------------------- MODULE VersionCheck -----------------------------
(***************************************************************************)
(* The command "satisfies" of utils/semver.ts: is a version in a range?    *)
(* And what the ranges mean, without comparators.                          *)
(***************************************************************************)
EXTENDS SemVer

CONSTANTS
    Asked,       \* versions that are asked about
    Requirement  \* ranges: sets of groups

ASSUME CheckAssumption ==
    /\ Asked \subseteq Version
    /\ \A r \in Requirement : \A g \in r :
          IF g.hyphen THEN g.lo \in Token /\ g.hi \in Token ELSE g.tokens \subseteq Token

VARIABLE answer  \* the last question and its exit code, 3 before the first

NotAsked == [version |-> Ver(0, 0, 0, <<>>), requirement |-> {}, includePrerelease |-> FALSE, exit |-> 3]

\* process.exit
Exit(v, requirement, includePrerelease) ==
    IF Throws(requirement) THEN 2
    ELSE IF Satisfies(v, requirement, includePrerelease) THEN 0 ELSE 1

Check(v, requirement, includePrerelease) ==
    answer' = [version |-> v, requirement |-> requirement,
               includePrerelease |-> includePrerelease,
               exit |-> Exit(v, requirement, includePrerelease)]

CheckInit == answer = NotAsked

CheckNext ==
    /\ answer = NotAsked
    /\ \E v \in Asked, r \in Requirement, i \in BOOLEAN : Check(v, r, i)

CheckSpec == CheckInit /\ [][CheckNext]_answer

----------------------------------------------------------------------------
(* Properties. *)

Parts(v) == <<v.major, v.minor, v.patch>>
Base(t) == <<t.major, Number(t.minor), Number(t.patch)>>
Agree(p, q, n) == \A i \in 1..n : p[i] = q[i]
Precedes(p, q) == \E i \in 1..3 : p[i] < q[i] /\ \A j \in 1..(i - 1) : p[j] = q[j]

\* How many numbers lead up to the first wildcard or the end.
Numbers(t) == IF t.major = Wild THEN 0
              ELSE IF ~Given(t.minor) THEN 1 ELSE IF ~Given(t.patch) THEN 2 ELSE 3

\* A caret keeps everything up to the first number that is not zero.
Kept(q) == IF q[1] # 0 THEN 1 ELSE IF q[2] # 0 THEN 2 ELSE 3

Means(p, t) ==
    CASE t.op \in {"", "="} -> IF Wild \in {t.major, t.minor, t.patch} THEN Agree(p, Base(t), Numbers(t))
                               ELSE p = Base(t)
      [] t.op = "^"  -> Agree(p, Base(t), Kept(Base(t))) /\ ~Precedes(p, Base(t))
      [] t.op = "~"  -> /\ Agree(p, Base(t), IF Given(t.minor) THEN 2 ELSE 1)
                        /\ Given(t.minor) => ~Precedes(p, Base(t))
      [] t.op = ">"  -> Precedes(Base(t), p)
      [] t.op = ">=" -> ~Precedes(p, Base(t))
      [] t.op = "<"  -> Precedes(p, Base(t))
      [] t.op = "<=" -> ~Precedes(Base(t), p)

MeansGroup(p, g) ==
    IF g.hyphen THEN ~Precedes(p, Base(g.lo)) /\ ~Precedes(Base(g.hi), p)
    ELSE \A t \in g.tokens : Means(p, t)

Final(g) == \A t \in (IF g.hyphen THEN {g.lo, g.hi} ELSE g.tokens) : t.prerelease = <<>>

\* Of releases a range without prereleases takes those its tokens mean:
\* carets keep everything up to the first number that is not zero, tildes the
\* minor, a wildcard lets the rest open (expandToken, compareWithOp).
RangesMean ==
    LET v == answer.version IN
    /\ answer.exit \in {0, 1} /\ v.prerelease = <<>> /\ (\A g \in answer.requirement : Final(g))
    => (answer.exit = 0 <=> answer.requirement = {}
                            \/ \E g \in answer.requirement : MeansGroup(Parts(v), g))
=============================================================================
