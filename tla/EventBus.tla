------------------------------- MODULE EventBus -------------------------------
(***************************************************************************)
(* The event bus (manager/events/EventBus.ts): listeners of a pattern, by  *)
(* priority, called one after another (emit) or side by side               *)
(* (emitConcurrent).  The listeners of an emit are those of its beginning; *)
(* its callbacks are awaited, and meanwhile listeners come and go and      *)
(* other emits run.  Once listeners are removed after the callbacks, by    *)
(* their callback.                                                         *)
(*                                                                         *)
(* One event is emitted; the patterns are the event itself and a wildcard  *)
(* that matches it.                                                        *)
(***************************************************************************)
EXTENDS Integers, Sequences, FiniteSets

CONSTANTS
    Pattern,      \* the event and a wildcard
    Callback,     \* callbacks
    Owner,        \* owners of listeners (plugins)
    Priority,     \* priorities
    Emit,         \* emits that may be under way at once
    MaxListeners, \* bound: listeners registered
    MaxEmits      \* bound: emits

VARIABLES
    listeners,  \* the registered listeners, of all patterns
    counter,    \* the number of the next listener
    emits,      \* the emits under way
    count,      \* emits so far
    calls,      \* the calls of each once listener
    ended,      \* the once listeners an emit that is over has called
    shared,     \* once listeners whose event was emitted while an emit held them
    doubled     \* a callback was registered for a pattern where a listener or an emit
                \* under way had it

vars == <<listeners, counter, emits, count, calls, ended, shared, doubled>>

Idle == [mode |-> "idle", todo |-> {}, running |-> {}, remove |-> {}, seen |-> <<>>]

\* The order of the calls.
Before(l, m) == l.priority > m.priority \/ (l.priority = m.priority /\ l.id < m.id)
First(S) == CHOOSE l \in S : \A m \in S \ {l} : Before(l, m)
Ordered(S) == CHOOSE s \in [1..Cardinality(S) -> S] :
                  \A i, j \in 1..Cardinality(S) : i < j => Before(s[i], s[j])

\* What an emit has still to call, awaits or will remove.
Held(e) == emits[e].todo \cup emits[e].running \cup emits[e].remove

----------------------------------------------------------------------------

On(p, c, o, pri, once) ==
    /\ counter < MaxListeners
    /\ listeners' = listeners \cup {[id |-> counter, pattern |-> p, callback |-> c, owner |-> o,
                                     priority |-> pri, once |-> once]}
    /\ counter' = counter + 1
    /\ doubled' = (doubled \/ \E l \in listeners \cup UNION {Held(e) : e \in Emit} :
                                l.pattern = p /\ l.callback = c)
    /\ UNCHANGED <<emits, count, calls, ended, shared>>

\* removeListener: every listener of the pattern with this callback.
Without(p, c) == {l \in listeners : ~(l.pattern = p /\ l.callback = c)}

\* The function on() returned.
Off(p, c) ==
    /\ \E l \in listeners : l.pattern = p /\ l.callback = c
    /\ listeners' = Without(p, c)
    /\ UNCHANGED <<counter, emits, count, calls, ended, shared, doubled>>

UnregisterByOwner(o) ==
    /\ \E l \in listeners : l.owner = o
    /\ listeners' = {l \in listeners : l.owner # o}
    /\ UNCHANGED <<counter, emits, count, calls, ended, shared, doubled>>

----------------------------------------------------------------------------
(* emit and emitConcurrent *)

\* Concurrent callbacks are all called at once, serial ones the first.
Begin(e, mode) ==
    LET called == IF listeners = {} THEN {}
                  ELSE IF mode = "concurrent" THEN listeners ELSE {First(listeners)}
    IN /\ emits[e].mode = "idle" /\ count < MaxEmits /\ count' = count + 1
       /\ listeners # {}
       /\ emits' = [emits EXCEPT ![e] =
                       [mode |-> mode, todo |-> listeners \ called, running |-> called,
                        remove |-> IF mode = "concurrent" THEN {l \in called : l.once} ELSE {},
                        seen |-> Ordered(called)]]
       /\ calls' = [n \in DOMAIN calls |->
                       IF \E l \in called : l.id = n /\ l.once THEN calls[n] + 1 ELSE calls[n]]
       /\ shared' = shared \cup {l.id : l \in {m \in listeners :
                                    \E f \in Emit \ {e} : m \in Held(f)}}
       /\ UNCHANGED <<listeners, counter, ended, doubled>>

Left(e) == emits[e].todo

Over(e, x) == x.running = {} /\ x.todo = {}

\* Mutant: the callback is removed from every pattern.
RemovedEverywhere(e, x) ==
    {l \in listeners : ~\E m \in x.remove : l.callback = m.callback}

\* Mutant: once listeners stay until they are removed by hand.
RemovedNone(e, x) == listeners

Removed(e, x) ==
    {l \in listeners : ~\E m \in x.remove : l.pattern = m.pattern /\ l.callback = m.callback}

\* A callback ends, well or with an error; a serial emit calls the next one.
\* After the last the once listeners are removed.
Return(e, l) ==
    LET left == Left(e)
        next == IF emits[e].mode = "concurrent" \/ left = {} THEN {} ELSE {First(left)}
        x == [emits[e] EXCEPT !.running = (@ \ {l}) \cup next, !.todo = left \ next,
                 !.remove = IF l.once THEN @ \cup {l} ELSE @,
                 !.seen = @ \o Ordered(next)]
    IN /\ l \in emits[e].running
       /\ calls' = [n \in DOMAIN calls |->
                       IF \E m \in next : m.id = n /\ m.once THEN calls[n] + 1 ELSE calls[n]]
       /\ IF Over(e, x)
          THEN /\ emits' = [emits EXCEPT ![e] = Idle]
               /\ listeners' = Removed(e, x)
               /\ ended' = ended \cup {m.id : m \in x.remove}
          ELSE emits' = [emits EXCEPT ![e] = x] /\ UNCHANGED <<listeners, ended>>
       /\ UNCHANGED <<counter, count, shared, doubled>>

Init ==
    /\ listeners = {} /\ counter = 0
    /\ emits = [e \in Emit |-> Idle] /\ count = 0
    /\ calls = [n \in 0..(MaxListeners - 1) |-> 0]
    /\ ended = {} /\ shared = {} /\ doubled = FALSE

Next ==
    \/ \E p \in Pattern, c \in Callback, o \in Owner, pri \in Priority, once \in BOOLEAN :
          On(p, c, o, pri, once)
    \/ \E p \in Pattern, c \in Callback : Off(p, c)
    \/ \E o \in Owner : UnregisterByOwner(o)
    \/ \E e \in Emit : \/ \E mode \in {"serial", "concurrent"} : Begin(e, mode)
                       \/ \E l \in emits[e].running : Return(e, l)

Spec == Init /\ [][Next]_vars

----------------------------------------------------------------------------
(* Properties. *)

TypeOK ==
    /\ \A l \in listeners : /\ l.id \in 0..(MaxListeners - 1) /\ l.pattern \in Pattern
                            /\ l.callback \in Callback /\ l.owner \in Owner
                            /\ l.priority \in Priority /\ l.once \in BOOLEAN
    /\ counter \in 0..MaxListeners /\ count \in 0..MaxEmits
    /\ \A e \in Emit : emits[e].mode \in {"idle", "serial", "concurrent"}

\* A once listener is called once, unless its event was emitted again before
\* the callbacks of the first emit had ended: until then it is registered
\* (emit).
OnceIsOnce == \A n \in DOMAIN calls : calls[n] > 1 => n \in shared

\* The end of an emit removes the once listeners it called and no other, as
\* long as no callback is registered for a pattern while an older listener or
\* an emit under way has it there: listeners are removed by their callback.
NoneIsLost ==
    [][emits' # emits /\ ~doubled => \A l \in listeners \ listeners' : l.id \in ended']_vars

\* The calls of an emit come by priority, then by age, and no listener is
\* called twice, although listeners come and go between the calls.
CallsAreOrdered ==
    \A e \in Emit : \A m, n \in DOMAIN emits[e].seen :
        m < n => Before(emits[e].seen[m], emits[e].seen[n])
==============================================================================
