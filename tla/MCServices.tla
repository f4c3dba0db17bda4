----------------------------- MODULE MCServices ------------------------------
(* Values for the model checker: the services on small instances. *)
EXTENDS Services, SequencesExt

\* Every list of different shards, in order.
MCLists == {SetToSortSeq(S, <) : S \in (SUBSET (0..(Shards - 1))) \ {{}}}

\* Versions to ask about, and tokens of every operator, with every absence,
\* wildcard and kind of prerelease.
MCNumber == [numeric |-> TRUE, rank |-> 1, x |-> FALSE]
MCLetters == [numeric |-> FALSE, rank |-> 1, x |-> TRUE]
MCPlain(op, a, b, c) ==
    [op |-> op, major |-> a, minor |-> b, patch |-> c, prerelease |-> <<>>]
MCAsked == {Ver(a, b, c, <<>>) : a, b \in 0..2, c \in 0..1} \cup {Ver(1, 1, 0, <<MCNumber>>)}
MCToken == {t \in [op : Operator, major : {Wild, 0, 1}, minor : {Wild, Absent, 0, 1},
                   patch : {Wild, Absent, 1}, prerelease : {<<>>, <<MCNumber>>, <<MCLetters>>}] :
              t.minor = Absent => t.patch = Absent}
MCFew == {MCPlain("^", 0, 1, 0), MCPlain(">=", 1, 0, 1), MCPlain("<", 2, 1, Absent),
          MCPlain("~", 1, Absent, Absent), MCPlain("", 1, Wild, Absent)}
MCEnd == {MCPlain("", a, b, Absent) : a \in 0..1, b \in {Absent, 1}}
MCRequirement ==
    {{}} \cup {{Tokens({t})} : t \in MCToken} \cup {{Tokens({t, u})} : t, u \in MCFew}
    \cup {{Tokens({t}), Tokens({u})} : t, u \in MCFew}
    \cup {{[hyphen |-> TRUE, lo |-> t, hi |-> u]} : t, u \in MCEnd}

\* A plugin with a tag for the first core and one for the cores from 1.1 on.
MCCoreTag == {Ver(1, 0, 0, <<>>), Ver(1, 0, 1, <<>>), Ver(1, 1, 0, <<>>),
              Ver(2, 0, 0, <<MCNumber>>)}
MCPluginTag ==
    {[version |-> Ver(1, 0, 0, <<>>), id |-> "p",
      zene_version |-> {Tokens({MCPlain("^", 1, 0, 0)})}],
     [version |-> Ver(2, 0, 0, <<>>), id |-> "p",
      zene_version |-> {Tokens({MCPlain(">=", 1, 1, Absent)})}]}

\* The plugin has left the version 2 out.
MCSteps == [core |-> {1, 2}, gap |-> {1, 3}]

\* A machine without handlers, and one with one.
MCRegistered == {[a |-> <<>>, b |-> <<"h">>]}
=============================================================================
