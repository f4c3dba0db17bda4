----------------------------- MODULE PluginLoader -----------------------------
(***************************************************************************)
(* The life of plugins (core/loader/index.ts and the registries it fills): *)
(* the order in which they are loaded, the boot, disable and hot reload,   *)
(* and the shutdown, which a signal may bring at any time.                 *)
(*                                                                         *)
(* A process is the boot, a call of disable or reload, or the shutdown; it *)
(* is left where the code awaits a hook of a plugin or the disk.  A hook   *)
(* ends well, throws, or times out; the last two are the same to the       *)
(* loader.  A plugin has one middleware, event listener, handler and route,*)
(* and one command if it is in Commanded.                                  *)
(***************************************************************************)
EXTENDS Naturals, Sequences, SequencesExt, FiniteSets, Relation

CONSTANTS
    Plugin,      \* the plugins; those not present are missing dependencies
    Commanded,   \* those that have a command
    Booted,      \* bound: the dependency maps that are booted, not only sorted
    MaxCalls,    \* bound: calls of disable and reload
    MaxEvents    \* bound: calls, and things that go wrong

ASSUME LoaderAssumption ==
    /\ IsFiniteSet(Plugin) /\ Commanded \subseteq Plugin
    /\ Booted \subseteq [Plugin -> SUBSET Plugin]
    /\ MaxCalls \in Nat /\ MaxEvents \in Nat

VARIABLES
    deps,      \* the manifests: on which plugins each depends
    present,   \* the plugins discovered on disk
    order,     \* preloadedPlugins: those still to be booted, in order
    status,    \* bootStatuses
    inst,      \* plugin instances, in the order they were made
    registry,  \* the registry, a Map: instances in the order of insertion
    owned,     \* per plugin what the other registries hold of it: an instance
    bus,       \* the instances whose event listeners are on the event bus
    frozen,    \* the command structure is frozen
    proc,      \* the processes
    leaving,   \* the instances the shutdown has still to disable
    count,     \* events so far
    caused,    \* plugins that something has gone wrong with
    mishaps    \* what has happened: "overlap", a call began while the boot or
               \* another call was under way; "cut", so did the shutdown;
               \* "reloaded", a plugin was loaded again

vars == <<deps, present, order, status, inst, registry, owned, bus, frozen, proc,
          leaving, count, caused, mishaps>>

Calls == 1..MaxCalls
Boot  == 0
Stop  == MaxCalls + 1
Proc  == 0..(MaxCalls + 1)

Registries == {"chat", "roots", "middlewares", "handlers", "mounts"}

\* A process that has not begun.
Idle == [pc |-> "idle", plugin |-> CHOOSE p \in Plugin : TRUE, inst |-> 0,
         reload |-> FALSE]

----------------------------------------------------------------------------
(* The order of loading: sortDependencies visits the plugins by priority,  *)
(* depth first.  A visit that throws leaves its path in visiting.          *)

Keys == SetToSeq(Plugin)

RECURSIVE Visit(_, _, _)
Visit(st, d, p) ==
    LET fail  == [st EXCEPT !.ok = FALSE]
        below == FoldLeft(LAMBDA s, q : IF s.ok THEN Visit(s, d, q) ELSE s,
                          [st EXCEPT !.visiting = @ \cup {p}],
                          SetToSeq(d[p]))
    IN CASE p \in st.visiting -> fail
         [] p \in st.visited -> st
         [] p \notin st.plugins -> [fail EXCEPT !.visiting = @ \cup {p}]
         [] OTHER -> IF ~below.ok THEN below
                     ELSE [below EXCEPT !.visiting = @ \ {p},
                              !.visited = @ \cup {p}, !.sorted = Append(@, p)]

\* Mutant: looks at the direct dependencies only, and keeps the priorities.
SortDirect(d, plugins) == SelectSeq(Keys, LAMBDA p : p \in plugins /\ d[p] \subseteq plugins)

SortDependencies(d, plugins) ==
    LET start == [plugins |-> plugins, visiting |-> {}, visited |-> {},
                  sorted |-> <<>>, ok |-> TRUE]
        next(s, p) == LET v == Visit([s EXCEPT !.ok = TRUE], d, p)
                      IN IF v.ok THEN v ELSE [v EXCEPT !.plugins = @ \ {p}]
    IN FoldLeft(next, start, SelectSeq(Keys, LAMBDA p : p \in plugins)).sorted

----------------------------------------------------------------------------
(* Helpers. *)

\* The plugin's instance in the registry, 0 for none.
Active(p) ==
    LET held == {i \in ToSet(registry) : inst[i].plugin = p}
    IN IF held = {} THEN 0 ELSE CHOOSE i \in held : TRUE

\* Map.set: a key that is there keeps its place.
Registered(i) ==
    IF Active(inst[i].plugin) = 0 THEN Append(registry, i)
    ELSE [n \in DOMAIN registry |->
             IF registry[n] = Active(inst[i].plugin) THEN i ELSE registry[n]]

Unregistered(p) == SelectSeq(registry, LAMBDA i : inst[i].plugin # p)

Busy(pr) == proc[pr].pc \notin {"idle", "ready", "done", "failed"}

Down == proc[Stop].pc = "done"

Event == count < MaxEvents /\ count' = count + 1

\* A fault that is put down to plugin p.
Fault(p) ==
    /\ Event
    /\ caused' = caused \cup {p}

Move(pr, pc) == proc' = [proc EXCEPT ![pr].pc = pc]

\* The end of the loading of one plugin, by the boot or by a reload.
Ends(pr, ok) == Move(pr, IF pr = Boot THEN "next" ELSE IF ok THEN "done" ELSE "failed")

Failed(pr) ==
    /\ status' = [status EXCEPT ![proc[pr].plugin] = "failed"]
    /\ Ends(pr, FALSE)

\* A new instance of p, in whose onSetup the process waits.
Starts(pr, p) ==
    /\ inst' = Append(inst, [plugin |-> p, state |-> "setup", enabled |-> FALSE])
    /\ proc' = [proc EXCEPT ![pr].pc = "setup", ![pr].plugin = p, ![pr].inst = Len(inst) + 1]

----------------------------------------------------------------------------
(* Preload: discover, sort, and import. *)

Preload ==
    /\ proc[Boot].pc = "idle"
    /\ order' = SortDependencies(deps, present)
    /\ status' = [p \in Plugin |-> CASE p \in ToSet(order') -> "preloaded"
                                     [] p \in present \ ToSet(order') -> "pending"
                                     [] OTHER -> "none"]
    /\ Move(Boot, "ready")
    /\ UNCHANGED <<deps, present, inst, registry, owned, bus, frozen, leaving, count,
                   caused, mishaps>>

\* A plugin whose import fails, or whose migration does, is taken out.
Exclude(p) ==
    /\ proc[Boot].pc = "ready" /\ ~Busy(Stop)
    /\ deps \in Booted
    /\ p \in ToSet(order)
    /\ Fault(p)
    /\ order' = SelectSeq(order, LAMBDA q : q # p)
    /\ status' = [status EXCEPT ![p] = "failed"]
    /\ UNCHANGED <<deps, present, inst, registry, owned, bus, frozen, proc, leaving, mishaps>>

----------------------------------------------------------------------------
(* The boot. *)

BootAll ==
    /\ proc[Boot].pc = "ready" /\ ~Down
    /\ deps \in Booted
    /\ Move(Boot, "next")
    /\ UNCHANGED <<deps, present, order, status, inst, registry, owned, bus, frozen,
                   leaving, count, caused, mishaps>>

BootTakes == proc[Boot].pc = "next" /\ ~Down /\ order # <<>> /\ order' = Tail(order)

\* Its configuration does not validate.
BootInvalid ==
    /\ BootTakes
    /\ Fault(Head(order))
    /\ status' = [status EXCEPT ![Head(order)] = "skipped"]
    /\ UNCHANGED <<deps, present, inst, registry, owned, bus, frozen, proc, leaving, mishaps>>

DepsIgnored(p) == TRUE

DepsUp(p) == \A d \in deps[p] : status[d] \in {"success", "preloaded"}

BootSkips ==
    /\ BootTakes
    /\ ~DepsUp(Head(order))
    /\ status' = [status EXCEPT ![Head(order)] = "skipped"]
    /\ UNCHANGED <<deps, present, inst, registry, owned, bus, frozen, proc, leaving,
                   count, caused, mishaps>>

BootStarts ==
    /\ BootTakes
    /\ DepsUp(Head(order))
    /\ Starts(Boot, Head(order))
    /\ UNCHANGED <<deps, present, status, registry, owned, bus, frozen, leaving, count,
                   caused, mishaps>>

BootEnd ==
    /\ proc[Boot].pc = "next" /\ ~Down /\ order = <<>>
    /\ frozen' = TRUE
    /\ Move(Boot, "done")
    /\ UNCHANGED <<deps, present, order, status, inst, registry, owned, bus, leaving,
                   count, caused, mishaps>>

----------------------------------------------------------------------------
(* The loading of one instance, the same in bootAll and reload. *)

\* A hook of the plugin throws or times out; what was registered stays.
HookFails(pr) ==
    /\ proc[pr].pc \in {"setup", "enable"} /\ ~Down
    /\ Fault(proc[pr].plugin)
    /\ Failed(pr)
    /\ UNCHANGED <<deps, present, order, inst, registry, owned, bus, frozen, leaving, mishaps>>

\* CommandLoader throws where the structure is frozen or the name has a root.
Refused(p) == p \in Commanded /\ (frozen \/ owned["roots"][p] # 0)

\* A middleware of the plugin that is there already stays: MiddlewareLoader
\* swallows the error of the second.
Piped(p, i) == [owned["middlewares"] EXCEPT ![p] = IF @ = 0 THEN i ELSE @]

\* A command has a root and, owned by the plugin, a route of interactions.
Commands(r, p, i) == [owned[r] EXCEPT ![p] = i]

\* Event listeners go to the bus without the name of their owner.
Heard(i) == bus \cup {i}

\* onSetup has ended: middlewares, events, commands.
Load(pr) ==
    LET p == proc[pr].plugin
        i == proc[pr].inst
    IN /\ proc[pr].pc = "setup" /\ ~Down
       /\ bus' = Heard(i)
       /\ owned' = [r \in Registries |->
             CASE r = "middlewares" -> Piped(p, i)
               [] r \in {"roots", "chat"} /\ p \in Commanded /\ ~Refused(p) -> Commands(r, p, i)
               [] OTHER -> owned[r]]
       /\ IF Refused(p) THEN Failed(pr) ELSE Move(pr, "register") /\ UNCHANGED status
       /\ UNCHANGED <<deps, present, order, inst, registry, frozen, leaving, count,
                      caused, mishaps>>

\* The handler of p is of one instance, its route of another.
Taken(p, handler, mount) ==
    [owned EXCEPT !["handlers"][p] = handler, !["mounts"][p] = mount]

\* HandlerLoader and RouteLoader overwrite; then onEnable begins.  A handler
\* whose onInitialize fails is taken out again.
Register(pr) ==
    LET p == proc[pr].plugin
        i == proc[pr].inst
    IN /\ proc[pr].pc = "register" /\ ~Down
       /\ \/ owned' = Taken(p, i, i) /\ UNCHANGED count
          \/ owned' = Taken(p, 0, i) /\ Event
       /\ inst' = [inst EXCEPT ![i].state = "enabled"]
       /\ Move(pr, "enable")
       /\ UNCHANGED <<deps, present, order, status, registry, bus, frozen, leaving, caused,
                      mishaps>>

EnableEnds(pr) ==
    LET i == proc[pr].inst
    IN /\ proc[pr].pc = "enable" /\ ~Down
       /\ inst' = [inst EXCEPT ![i].enabled = TRUE]
       /\ registry' = Registered(i)
       /\ status' = [status EXCEPT ![proc[pr].plugin] = "success"]
       /\ Ends(pr, TRUE)
       /\ mishaps' = IF pr = Boot THEN mishaps ELSE mishaps \cup {"reloaded"}
       /\ UNCHANGED <<deps, present, order, owned, bus, frozen, leaving, count, caused>>

----------------------------------------------------------------------------
(* disable and reload. *)

\* Mutant: a reload replaces the plugin without onDisable.
DisablingFirst(pr, p, reload, i) ==
    /\ proc' = [proc EXCEPT ![pr] = [pc |-> "purge", plugin |-> p, inst |-> i,
                                     reload |-> reload]]
    /\ UNCHANGED inst

\* onDisable is called if the instance says that it is enabled.
Disabling(pr, p, reload, i) ==
    /\ proc' = [proc EXCEPT ![pr] = [pc |-> IF inst[i].state = "enabled" THEN "disable"
                                            ELSE "purge",
                                     plugin |-> p, inst |-> i, reload |-> reload]]
    /\ inst' = [inst EXCEPT ![i].enabled = @ /\ inst[i].state # "enabled"]

Call(pr, p, reload) ==
    /\ proc[pr].pc = "idle" /\ pr \in Calls /\ ~Down
    /\ \A c \in Calls : c < pr => proc[c].pc # "idle"
    /\ proc[Boot].pc \notin {"idle", "ready"}
    /\ IF Active(p) # 0 THEN Disabling(pr, p, reload, Active(p))
       ELSE /\ proc' = [proc EXCEPT ![pr] = [pc |-> IF reload THEN "fetch" ELSE "failed",
                                             plugin |-> p, inst |-> 0, reload |-> reload]]
            /\ UNCHANGED inst
    /\ Event
    /\ mishaps' = mishaps
          \cup {m \in {"overlap"} : \E q \in {Boot} \cup Calls : Busy(q)}
          \cup {m \in {"cut"} : Busy(Stop)}
    /\ UNCHANGED <<deps, present, order, status, registry, owned, bus, frozen, leaving, caused>>

DisableFails(pr) ==
    /\ proc[pr].pc = "disable" /\ ~Down
    /\ Fault(proc[pr].plugin)
    /\ inst' = [inst EXCEPT ![proc[pr].inst].state = "error"]
    /\ status' = IF proc[pr].reload THEN [status EXCEPT ![proc[pr].plugin] = "failed"]
                 ELSE status
    /\ Move(pr, "failed")
    /\ UNCHANGED <<deps, present, order, registry, owned, bus, frozen, leaving, mishaps>>

\* onDisable has ended, or was not called.  The interactions go.  Listeners
\* have no owner, routes another name than the one that is unmounted, and
\* middlewares and roots are not asked for.
Purge(pr) ==
    /\ proc[pr].pc \in {"disable", "purge"} /\ ~Down
    /\ inst' = IF proc[pr].pc = "purge" THEN inst
               ELSE [inst EXCEPT ![proc[pr].inst].state = "disabled"]
    /\ owned' = [owned EXCEPT !["chat"][proc[pr].plugin] = 0]
    /\ Move(pr, "teardown")
    /\ UNCHANGED <<deps, present, order, status, registry, bus, frozen, leaving, count,
                   caused, mishaps>>

\* The handlers were torn down.
Disabled(pr) ==
    LET p == proc[pr].plugin
    IN /\ proc[pr].pc = "teardown" /\ ~Down
       /\ owned' = [owned EXCEPT !["handlers"][p] = 0]
       /\ registry' = Unregistered(p)
       /\ status' = [status EXCEPT ![p] = "pending"]
       /\ Move(pr, IF proc[pr].reload THEN "fetch" ELSE "done")
       /\ UNCHANGED <<deps, present, order, inst, bus, frozen, leaving, count, caused, mishaps>>

\* reload discovers all plugins again and imports the one.
Fetch(pr) ==
    /\ proc[pr].pc = "fetch" /\ ~Down
    /\ proc[pr].plugin \in present
    /\ status' = [p \in Plugin |-> IF p \in present THEN "pending" ELSE status[p]]
    /\ Starts(pr, proc[pr].plugin)
    /\ UNCHANGED <<deps, present, order, registry, owned, bus, frozen, leaving, count,
                   caused, mishaps>>

FetchFails(pr) ==
    LET p == proc[pr].plugin
    IN /\ proc[pr].pc = "fetch" /\ ~Down
       /\ Fault(p) \/ (p \notin present /\ UNCHANGED <<count, caused>>)
       /\ status' = [q \in Plugin |-> CASE q = p -> "failed"
                                        [] q \in present \ {p} -> "pending"
                                        [] OTHER -> status[q]]
       /\ Move(pr, "failed")
       /\ UNCHANGED <<deps, present, order, inst, registry, owned, bus, frozen, leaving, mishaps>>

----------------------------------------------------------------------------
(* shutdownAll: a signal stops the plugins, last loaded first. *)

\* The next instance that is enabled, whose onDisable is then awaited.
Next1(left) == SelectInSeq(left, LAMBDA i : inst[i].state = "enabled")

StopNext(left) ==
    LET n == Next1(left)
    IN IF n = 0
       THEN leaving' = <<>> /\ Move(Stop, "handlers") /\ UNCHANGED inst
       ELSE /\ leaving' = SubSeq(left, n, Len(left))
            /\ inst' = [inst EXCEPT ![left[n]].enabled = FALSE]
            /\ Move(Stop, "disable")

StopOrder == Reverse(registry)

Signal ==
    /\ proc[Stop].pc = "idle" /\ proc[Boot].pc \notin {"idle", "ready"}
    /\ StopNext(StopOrder)
    /\ mishaps' = IF \E q \in {Boot} \cup Calls : Busy(q)
                  THEN mishaps \cup {"cut"} ELSE mishaps
    /\ UNCHANGED <<deps, present, order, status, registry, owned, bus, frozen, count, caused>>

StopDisabled ==
    LET i == Head(leaving)
        n == Next1(Tail(leaving))
        rest == SubSeq(Tail(leaving), n, Len(leaving) - 1)
    IN /\ proc[Stop].pc = "disable"
       /\ IF n = 0
          THEN /\ leaving' = <<>> /\ Move(Stop, "handlers")
               /\ inst' = [inst EXCEPT ![i].state = "disabled"]
          ELSE /\ leaving' = rest /\ UNCHANGED proc
               /\ inst' = [inst EXCEPT ![i].state = "disabled", ![Head(rest)].enabled = FALSE]
       /\ UNCHANGED <<deps, present, order, status, registry, owned, bus, frozen, count,
                      caused, mishaps>>

\* onDisable throws or times out: the next one.
StopFails ==
    /\ proc[Stop].pc = "disable"
    /\ Fault(inst[Head(leaving)].plugin)
    /\ StopNext(Tail(leaving))
    /\ UNCHANGED <<deps, present, order, status, registry, owned, bus, frozen, mishaps>>

\* The handlers are torn down, everything is cleared, the process exits.
StopEnds ==
    /\ proc[Stop].pc = "handlers"
    /\ owned' = [owned EXCEPT !["handlers"] = [p \in Plugin |->
                    IF Active(p) # 0 THEN 0 ELSE owned["handlers"][p]]]
    /\ registry' = <<>>
    /\ status' = [p \in Plugin |-> "none"]
    /\ Move(Stop, "done")
    /\ UNCHANGED <<deps, present, order, inst, bus, frozen, leaving, count, caused, mishaps>>

----------------------------------------------------------------------------

Init ==
    /\ deps \in [Plugin -> SUBSET Plugin]
    /\ present \in SUBSET Plugin
    /\ order = <<>> /\ status = [p \in Plugin |-> "none"]
    /\ inst = <<>> /\ registry = <<>>
    /\ owned = [r \in Registries |-> [p \in Plugin |-> 0]]
    /\ bus = {} /\ frozen = FALSE
    /\ proc = [pr \in Proc |-> Idle]
    /\ leaving = <<>>
    /\ count = 0
    /\ caused = {} /\ mishaps = {}

Steps(pr) ==
    \/ Load(pr) \/ Register(pr) \/ EnableEnds(pr)
    \/ Purge(pr) \/ Disabled(pr) \/ Fetch(pr)

Faults(pr) == HookFails(pr) \/ DisableFails(pr) \/ FetchFails(pr)

Next ==
    \/ Preload \/ BootAll \/ BootInvalid \/ BootSkips \/ BootStarts \/ BootEnd
    \/ \E p \in Plugin : Exclude(p)
    \/ \E pr \in {Boot} \cup Calls : Steps(pr) \/ Faults(pr)
    \/ \E pr \in Calls, p \in Plugin, reload \in BOOLEAN : Call(pr, p, reload)
    \/ Signal \/ StopDisabled \/ StopFails \/ StopEnds

Spec == Init /\ [][Next]_vars

----------------------------------------------------------------------------
(* Properties. *)

TypeOK ==
    /\ order \in Seq(Plugin)
    /\ status \in [Plugin -> {"none", "pending", "preloaded", "success", "failed", "skipped"}]
    /\ \A i \in DOMAIN inst : inst[i].state \in {"setup", "enabled", "disabled", "error"}
    /\ registry \in Seq(DOMAIN inst) /\ IsInjective([n \in DOMAIN registry |-> inst[registry[n]].plugin])
    /\ \A r \in Registries, p \in Plugin : owned[r][p] \in {0} \cup DOMAIN inst
    /\ bus \subseteq DOMAIN inst
    /\ leaving \in Seq(DOMAIN inst)
    /\ \A pr \in Proc : proc[pr].plugin \in Plugin

\* What p depends on, directly or not.
Needs(p) ==
    LET needs == TransitiveClosure([x, y \in Plugin |-> y \in deps[x]], Plugin)
    IN {q \in Plugin : needs[p, q]}

\* A plugin can be loaded if all it needs is there and it is in no circle,
\* nor is anything it needs.
Loadable(p) ==
    /\ {p} \cup Needs(p) \subseteq present
    /\ \A q \in {p} \cup Needs(p) : q \notin Needs(q)

\* For every dependency graph: the sort of the manifests yields just the
\* plugins that can be loaded, each once, after all that it needs.  A visit
\* that failed leaves its marks in the set of the plugins being visited,
\* which must turn away those plugins and no others (sortDependencies).
SortIsSound ==
    proc[Boot].pc = "ready" /\ caused = {} =>
        /\ ToSet(order) = {p \in Plugin : Loadable(p)}
        /\ IsInjective(order)
        /\ \A m, n \in DOMAIN order : order[n] \in Needs(order[m]) => n < m

\* A plugin is skipped only where something has gone wrong with it or with
\* a plugin that it needs: never for the order of the boot or a fault of a
\* plugin that it has nothing to do with (bootAll).  A call while the boot
\* is under way resets the statuses that the boot reads (discoverPlugins).
SkipHasCause ==
    \A p \in Plugin : status[p] = "skipped" /\ "overlap" \notin mishaps =>
        ({p} \cup Needs(p)) \cap caused # {}

\* Calls that do not overlap leave at most one instance of a plugin that
\* was enabled and not disabled, and it is the one that the registry has:
\* no hook that fails leaves one behind (reload, disable).
OneInstance ==
    "overlap" \notin mishaps =>
        \A i \in DOMAIN inst : inst[i].enabled =>
            \/ Active(inst[i].plugin) = i
            \/ Down

\* What the handlers, routes and chat commands of a plugin that is up run is
\* the instance that is up, and no earlier one, whatever failed in between,
\* unless calls overlapped (the loaders under loader/).  Middlewares and event
\* listeners of an earlier instance do stay.
NoStaleCode ==
    "overlap" \notin mishaps =>
        \A i \in ToSet(registry) :
            LET p == inst[i].plugin
            IN inst[i].enabled => /\ owned["handlers"][p] \in {0, i}
                                  /\ owned["mounts"][p] = i
                                  /\ owned["chat"][p] \in {0, i}

\* No plugin is up without what it depends on.  It is set up only after all
\* of that is in the registry, whatever is disabled and reloaded meanwhile,
\* and enabled, unless something went wrong, although the boot accepts a
\* dependency that is only preloaded (bootAll); and the shutdown disables it
\* before any of that, unless plugins were loaded again or it came in the
\* middle of something (shutdownAll reverses the registry).
DepsOutlive ==
    [][/\ BootStarts =>
              \A d \in deps[Head(order)] :
                 Active(d) # 0 /\ (mishaps = {} => inst[Active(d)].enabled)
       /\ \A i, j \in DOMAIN inst :
              /\ mishaps' = {}
              /\ inst[i].enabled /\ ~inst'[i].enabled
              /\ leaving' # <<>> /\ Head(leaving') = i
              => ~(inst[j].enabled /\ inst[i].plugin \in deps[inst[j].plugin])]_vars

\* After a shutdown no plugin is still enabled, whatever failed and whatever
\* was reloaded before, unless the signal cut something off (shutdownAll).
ShutdownIsWhole ==
    Down /\ mishaps \subseteq {"reloaded"} => \A i \in DOMAIN inst : ~inst[i].enabled
\* The boot order is right: the sort is, and nothing is left out of the boot
\* without a cause.
BootIsSound == SortIsSound /\ SkipHasCause

\* Nothing of an earlier instance is left: the state has its shape, one
\* instance of a plugin is enabled, the registries run that one, and none is
\* after a shutdown.
NothingIsLeftBehind == TypeOK /\ OneInstance /\ NoStaleCode /\ ShutdownIsWhole
==============================================================================
