---------------------------- MODULE MCPluginLoader ----------------------------
(* Every dependency graph of three plugins is sorted, two are booted.       *)
EXTENDS PluginLoader
CONSTANTS a, b, c

MCPlugin == {a, b, c}
MCCommanded == {b}

\* c needs b, which needs a.
Chain == [p \in MCPlugin |-> CASE p = a -> {} [] p = b -> {a} [] p = c -> {b}]

\* a and c need b.
Shared == [p \in MCPlugin |-> IF p = b THEN {} ELSE {b}]

MCBooted == {Chain, Shared}
==============================================================================
