------------------------------- MODULE SemVer --------------------------------
(***************************************************************************)
(* Versions and ranges of versions (utils/semver.ts), by which the updater *)
(* tells which tag is newer and which plugin goes with which core.         *)
(*                                                                         *)
(* A string is what its parts are: a version three numbers and identifiers *)
(* of a prerelease, a token of a range an operator and up to three parts,  *)
(* each a number, a wildcard or absent.  An identifier is a number or      *)
(* letters; of letters only their order counts, and whether there is an x  *)
(* among them.                                                             *)
(***************************************************************************)
EXTENDS Integers, Sequences, FiniteSetsExt

Ident == [numeric : BOOLEAN, rank : Nat, x : BOOLEAN]
Version == [major : Nat, minor : Nat, patch : Nat, prerelease : Seq(Ident)]
Ver(a, b, c, pre) == [major |-> a, minor |-> b, patch |-> c, prerelease |-> pre]

Wild == -1
Absent == -2
Part == Nat \cup {Wild, Absent}
\* "=>" and "=<" are mapped by the code but never matched.
Operator == {"", "=", "==", "=>", "=<", ">", ">=", "<", "<=", "^", "~"}
Token == {t \in [op : Operator, major : Nat \cup {Wild}, minor : Part, patch : Part,
                 prerelease : Seq(Ident)] :
            t.minor = Absent => t.patch = Absent}

----------------------------------------------------------------------------
(* The order of versions: -1, 0, 1. *)

CompareNumbers(m, n) == IF m < n THEN -1 ELSE IF m > n THEN 1 ELSE 0

\* A missing identifier comes first, then numbers, then letters.
CompareIdents(a, b, i) ==
    IF i > Len(a) THEN -1 ELSE IF i > Len(b) THEN 1
    ELSE IF a[i].numeric = b[i].numeric THEN CompareNumbers(a[i].rank, b[i].rank)
    ELSE IF a[i].numeric THEN -1 ELSE 1

Differs(a, b, i) == i > Len(a) \/ i > Len(b) \/ CompareIdents(a, b, i) # 0

ComparePrerelease(a, b) ==
    IF a = <<>> \/ b = <<>> THEN
        IF a = b THEN 0 ELSE IF a = <<>> THEN 1 ELSE -1
    ELSE LET longer == IF Len(a) > Len(b) THEN Len(a) ELSE Len(b)
             differing == {i \in 1..longer : Differs(a, b, i)}
         IN IF differing = {} THEN 0
            ELSE CompareIdents(a, b, Min(differing))

Compare(v, w) ==
    IF v.major # w.major THEN CompareNumbers(v.major, w.major)
    ELSE IF v.minor # w.minor THEN CompareNumbers(v.minor, w.minor)
    ELSE IF v.patch # w.patch THEN CompareNumbers(v.patch, w.patch)
    ELSE ComparePrerelease(v.prerelease, w.prerelease)

----------------------------------------------------------------------------
(* Ranges.  A group is a set of comparators, all of which must hold. *)

CompareWithOp(v, c) ==
    LET cmp == Compare(v, c.version) IN
    CASE c.op = ">"  -> cmp > 0
      [] c.op = ">=" -> cmp >= 0
      [] c.op = "<"  -> cmp < 0
      [] c.op = "<=" -> cmp <= 0
      [] c.op = "==" -> cmp = 0

Comparator(op, v) == [op |-> op, version |-> v]
Between(lower, upper) == {Comparator(">=", lower), Comparator("<", upper)}

Given(part) == part \notin {Wild, Absent}
Number(part) == IF Given(part) THEN part ELSE 0
Lower(t) == Ver(t.major, Number(t.minor), Number(t.patch), t.prerelease)

\* Mutant: a caret keeps the major only.
CaretFromMajor(t) == Between(Lower(t), Ver(t.major + 1, 0, 0, <<>>))

\* A caret keeps everything up to the first number that is not zero.
CaretComparators(t) ==
    LET v == Lower(t) IN
    Between(v, IF v.major > 0 THEN Ver(v.major + 1, 0, 0, <<>>)
               ELSE IF v.minor > 0 THEN Ver(0, v.minor + 1, 0, <<>>)
               ELSE Ver(0, 0, v.patch + 1, <<>>))

\* Without a minor the patch is not looked at.
TildeComparators(t) ==
    IF Given(t.minor) THEN Between(Lower(t), Ver(t.major, t.minor + 1, 0, <<>>))
    ELSE Between(Ver(t.major, 0, 0, t.prerelease), Ver(t.major + 1, 0, 0, <<>>))

\* A wildcard, or an x in the letters of a prerelease, makes an equality an
\* x-range.
IsXRange(t) ==
    /\ t.op \in {"", "="}
    /\ \/ Wild \in {t.major, t.minor, t.patch}
       \/ \E i \in DOMAIN t.prerelease : t.prerelease[i].x

ExpandXRange(t) ==
    IF t.major = Wild THEN {}
    ELSE IF ~Given(t.minor) THEN Between(Ver(t.major, 0, 0, <<>>), Ver(t.major + 1, 0, 0, <<>>))
    ELSE Between(Ver(t.major, t.minor, 0, <<>>), Ver(t.major, t.minor + 1, 0, <<>>))

\* The prerelease stays glued to the last part: a part that is looked at is
\* then no number.
XRangeThrows(t) ==
    /\ t.prerelease # <<>>
    /\ \/ t.minor = Absent
       \/ t.patch = Absent /\ t.major # Wild
       \/ t.patch # Absent /\ t.major # Wild /\ t.minor # Wild

\* The pattern takes the first = of ==, => and =< for the operator, and the
\* rest is no version.  A comparison takes no wildcard.
TokenThrows(t) ==
    \/ t.op \in {"==", "=>", "=<"}
    \/ t.op \in {"^", "~"} /\ t.major = Wild
    \/ t.op \in {">", ">=", "<", "<="} /\ Wild \in {t.major, t.minor, t.patch}
    \/ IsXRange(t) /\ XRangeThrows(t)

ExpandToken(t) ==
    CASE IsXRange(t) -> ExpandXRange(t)
      [] t.op = "^" -> CaretComparators(t)
      [] t.op = "~" -> TildeComparators(t)
      [] OTHER -> {Comparator(IF t.op \in {"", "="} THEN "==" ELSE t.op, Lower(t))}

\* "a - b", with what is absent taken for 0.
Hyphen(lo, hi) == {Comparator(">=", Lower(lo)), Comparator("<=", Lower(hi))}

\* A group of tokens, or two tokens with a hyphen between them.
Tokens(S) == [hyphen |-> FALSE, tokens |-> S]

\* Anything but numbers beside a hyphen makes tokens of it, and it is none.
GroupThrows(g) ==
    IF g.hyphen THEN \E t \in {g.lo, g.hi} : t.op # "" \/ Wild \in {t.major, t.minor, t.patch}
    ELSE \E t \in g.tokens : TokenThrows(t)
ExpandGroupToComparators(g) ==
    IF g.hyphen THEN Hyphen(g.lo, g.hi) ELSE UNION {ExpandToken(t) : t \in g.tokens}

\* Without includePrerelease, a prerelease needs a group that mentions one.
SatisfiesGroup(v, group, includePrerelease) ==
    \/ group = {}
    \/ /\ \/ includePrerelease \/ v.prerelease = <<>>
          \/ \E c \in group : c.version.prerelease # <<>>
       /\ \A c \in group : CompareWithOp(v, c)

\* requirement: the groups between the ||, none for "*" and an empty one.
Throws(requirement) == \E g \in requirement : GroupThrows(g)
Satisfies(v, requirement, includePrerelease) ==
    \/ requirement = {}
    \/ \E g \in requirement :
          SatisfiesGroup(v, ExpandGroupToComparators(g), includePrerelease)
=============================================================================
