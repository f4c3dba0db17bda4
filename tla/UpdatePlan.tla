----------------------------- MODULE UpdatePlan ------------------------------
(***************************************************************************)
(* What a run of the updater decides (manager/updater/index.ts, run and    *)
(* planPluginUpdates; github.ts): to which tag of the repository the core  *)
(* goes, and to which of its tags a plugin.  How it is then applied, and   *)
(* what a crash does to that, is Updater.                                  *)
(*                                                                         *)
(* A tag is its version.  One plugin, on the list plugins.txt or not.      *)
(* SafeUpdate is on, dry runs and the first baseline are left out.         *)
(* Optional values are sets of at most one element.                        *)
(***************************************************************************)
EXTENDS SemVer, FiniteSets

CONSTANTS
    CoreTag,    \* versions of the core that may be on the repository
    PluginTag,  \* of the plugin: records of version, zene_version, id
    MaxEvents   \* bound on what happens between the runs, and of network errors

VARIABLES
    released,   \* tags of the core
    takebacks,  \* takebacks.json: records of tag, status and recommend
    line,       \* of the plugin in plugins.txt: is it listed, to what pinned
    devBuilds,  \* DevBuilds
    core,       \* the tag of the baseline
    previous,   \* previousTag of the baseline
    plugin,     \* the installed plugin's tag
    known,      \* the baseline has the hashes of the plugin's files
    edited,     \* what the user has changed since: "core", "plugin"
    events,
    \* For the properties: why the plugin is the one it is, and whether it
    \* was off the list in an update; core moves since the last event.
    why, delisted, moves

vars == <<released, takebacks, line, devBuilds, core, previous, plugin, known, edited, events,
          why, delisted, moves>>
repo == <<released, takebacks, line, devBuilds>>

----------------------------------------------------------------------------
(* The core. *)

Yanked == {e.tag : e \in takebacks}
Newer(v, w) == Compare(v, w) > 0

\* A patch counts only with DevBuilds.
Allowed(v, current, dev) ==
    /\ Newer(v, current)
    /\ v.major > current.major \/ v.minor > current.minor \/ (dev /\ v.patch > current.patch)

\* The newest that is allowed.
LatestAllowed(tags, current, dev) ==
    LET allowed == {v \in tags : Allowed(v, current, dev)}
    IN {v \in allowed : \A w \in allowed : Compare(v, w) >= 0}

\* Where a tag that was superseded sends who has it.
Recommended ==
    (UNION {e.recommend : e \in {f \in takebacks : f.tag = core /\ f.status = "superseded"}})
        \cap (released \ Yanked)

\* Mutant: a tag that was taken back is offered to those who are not on it.
UpdateTargetAny ==
    IF Recommended # {} THEN Recommended ELSE LatestAllowed(released, core, devBuilds)

UpdateTarget ==
    IF Recommended # {} THEN Recommended
    ELSE LatestAllowed(released \ Yanked, core, devBuilds)

\* Without a recommendation, back to where the core came from.
DowngradeTarget ==
    LET recommend == UNION {e.recommend : e \in {f \in takebacks : f.tag = core}}
    IN (IF recommend # {} THEN recommend ELSE previous) \cap released

----------------------------------------------------------------------------
(* The plugin. *)

\* A manifest whose range throws is of no core.
ManifestCompatible(t, v) == ~Throws(t.zene_version) /\ Satisfies(v, t.zene_version, FALSE)

\* The newest tag whose manifest could be read and goes with that core.
Search(readable, v) ==
    LET fitting == {t \in readable : ManifestCompatible(t, v)}
    IN {t \in fitting : \A u \in fitting : Compare(t.version, u.version) >= 0}

Edited(force) == "plugin" \in edited /\ known /\ ~force

Decide(action, tag) == [action |-> action, tag |-> tag]

\* ctx: the core to go with, may it be added or removed, is it forced, a pin
\* from the command line, the tags whose manifests can be read.
Planned(ctx, pin, selected) ==
    IF selected = {} THEN
        IF plugin # {} /\ ctx.remove THEN Decide(IF Edited(ctx.force) THEN "leave" ELSE "remove", {})
        ELSE Decide("skip", {})
    ELSE IF pin # {} /\ line.pin = {} /\ \E t \in selected : ~ManifestCompatible(t, ctx.core)
        THEN Decide("skip", {})
    ELSE IF plugin = {} THEN Decide("add", selected)
    ELSE IF (\E t \in selected, u \in plugin : t.id # u.id) \/ Edited(ctx.force)
        THEN Decide("leave", selected)
    ELSE Decide("update", selected)

PlanPlugin(ctx) ==
    LET pin == IF ctx.pin # {} THEN ctx.pin ELSE line.pin IN
    IF ~line.listed THEN Decide("none", {})
    ELSE IF plugin = {} /\ ~ctx.add THEN Decide("skip", {})
    ELSE Planned(ctx, pin, IF pin # {} THEN pin ELSE Search(ctx.readable, ctx.core))

\* With a core update, the hashes of a plugin that nothing was decided of go.
ApplyPlugin(d, ctx, coreUpdate) ==
    /\ plugin' = CASE d.action \in {"add", "update"} -> d.tag
                   [] d.action = "remove" -> {}
                   [] OTHER -> plugin
    /\ known' = CASE d.action \in {"add", "update"} -> TRUE
                  [] d.action = "remove" \/ (d.action = "none" /\ coreUpdate) -> FALSE
                  [] OTHER -> known
    /\ edited' = edited \ ((IF d.action \in {"add", "update", "remove"} THEN {"plugin"} ELSE {})
                           \cup (IF coreUpdate THEN {"core"} ELSE {}))
    /\ why' = IF d.action \in {"add", "update"} THEN
                  IF ctx.pin \cup line.pin # {} THEN "pinned"
                  ELSE IF ctx.core = core' THEN "fits" ELSE "ahead"
              ELSE IF coreUpdate THEN "kept" ELSE why
    /\ delisted' = IF d.action \in {"add", "update", "remove"} THEN FALSE
                   ELSE delisted \/ (coreUpdate /\ d.action = "none" /\ plugin # {})

----------------------------------------------------------------------------
(* The runs. *)

Context(v, add, remove, force, pin, readable) ==
    [core |-> v, add |-> add, remove |-> remove, force |-> force, pin |-> pin,
     readable |-> readable]

\* Manifests that could not be fetched are passed over.
Fetches(readable) ==
    /\ readable \subseteq PluginTag
    /\ IF readable = PluginTag THEN UNCHANGED events
       ELSE events < MaxEvents /\ events' = events + 1

\* The core goes to v, unless the user has changed it.
UpdateCore(v, force, readable) ==
    /\ "core" \notin edited \/ force
    /\ core' = v /\ previous' = {core}
    /\ LET ctx == Context(v, FALSE, Newer(core, v), force, {}, readable)
       IN ApplyPlugin(PlanPlugin(ctx), ctx, TRUE)
    /\ UNCHANGED repo

UpdatePlugins(force, readable) ==
    /\ UNCHANGED <<repo, core, previous>>
    /\ LET ctx == Context(core, FALSE, FALSE, force, {}, readable)
       IN ApplyPlugin(PlanPlugin(ctx), ctx, FALSE)

\* The run on its own.
Update(force, readable) ==
    /\ Fetches(readable)
    /\ \/ UpdateTarget = {} /\ UpdatePlugins(force, readable) /\ UNCHANGED moves
       \/ \E v \in UpdateTarget : UpdateCore(v, force, readable) /\ moves' = moves + 1

\* What an operator, the user and the makers of releases do.
Event ==
    /\ events < MaxEvents /\ events' = events + 1
    /\ moves' = 0

Downgrade(force) ==
    /\ Event
    /\ \E v \in DowngradeTarget : UpdateCore(v, force, PluginTag)

Target(v, force) ==
    /\ Event
    /\ v \in released
    /\ UpdateCore(v, force, PluginTag)

\* The plugin is to go with the core that an update would bring.
InstallPlugin(pin, force) ==
    /\ Event
    /\ UNCHANGED <<repo, core, previous>>
    /\ \E v \in (IF UpdateTarget = {} THEN {core} ELSE UpdateTarget) :
          LET ctx == Context(v, TRUE, FALSE, force, pin, PluginTag)
          IN ApplyPlugin(PlanPlugin(ctx), ctx, FALSE)

Edit(what) ==
    /\ Event
    /\ what = "plugin" => plugin # {}
    /\ edited' = edited \cup {what}
    /\ UNCHANGED <<repo, core, previous, plugin, known, why, delisted>>

TakeBack(v, status, recommend) ==
    /\ Event
    /\ v \in released \ Yanked /\ recommend \subseteq released \ {v}
    /\ takebacks' = takebacks \cup {[tag |-> v, status |-> status, recommend |-> recommend]}
    /\ UNCHANGED <<released, line, devBuilds, core, previous, plugin, known, edited, why, delisted>>

Release(v) ==
    /\ Event
    /\ v \notin released
    /\ released' = released \cup {v}
    /\ UNCHANGED <<takebacks, line, devBuilds, core, previous, plugin, known, edited, why, delisted>>

Relist(listed, pin) ==
    /\ Event
    /\ line' = [listed |-> listed, pin |-> pin]
    /\ UNCHANGED <<released, takebacks, devBuilds, core, previous, plugin, known, edited, why, delisted>>

Init ==
    /\ released \in SUBSET CoreTag /\ core \in released
    /\ takebacks = {} /\ previous = {} /\ devBuilds \in BOOLEAN
    /\ line = [listed |-> TRUE, pin |-> {}]
    /\ plugin \in {{}} \cup {{t} : t \in {u \in PluginTag : ManifestCompatible(u, core)}}
    /\ known = (plugin # {}) /\ edited = {} /\ events = 0
    /\ why = "fits" /\ delisted = FALSE /\ moves = 0

Runs(force) ==
    \/ \E readable \in SUBSET PluginTag : Update(force, readable)
    \/ Downgrade(force)
    \/ \E v \in CoreTag : Target(v, force)
    \/ \E pin \in {{}} \cup {{t} : t \in PluginTag} : InstallPlugin(pin, force)

Next ==
    \/ \E force \in BOOLEAN : Runs(force)
    \/ \E what \in {"core", "plugin"} : Edit(what)
    \/ \E v \in CoreTag : Release(v)
    \/ \E v \in CoreTag, recommend \in {{}} \cup {{w} : w \in CoreTag} :
          TakeBack(v, "superseded", recommend) \/ TakeBack(v, "withdrawn", recommend)
    \/ \E listed \in BOOLEAN, pin \in {{}} \cup {{t} : t \in PluginTag} : Relist(listed, pin)

Spec == Init /\ [][Next]_vars

----------------------------------------------------------------------------
(* Properties. *)

TypeOK ==
    /\ released \subseteq CoreTag /\ core \in released /\ previous \subseteq CoreTag
    /\ \A e \in takebacks : e.tag \in released /\ e.status \in {"superseded", "withdrawn"}
                            /\ e.recommend \subseteq released
    /\ line.listed \in BOOLEAN /\ line.pin \subseteq PluginTag /\ devBuilds \in BOOLEAN
    /\ plugin \subseteq PluginTag /\ Cardinality(plugin) <= 1 /\ (known => plugin # {})
    /\ edited \subseteq {"core", "plugin"} /\ events \in 0..MaxEvents
    /\ why \in {"fits", "pinned", "ahead", "kept"} /\ delisted \in BOOLEAN /\ moves \in Nat

\* As long as nothing else happens the runs come to rest: a tag that sends
\* back whoever has it is not offered again, so that the core moves at most
\* twice (run, getLatestAllowedTag).
UpdatesSettle == moves <= 2

\* A plugin that was searched for goes with the core that is installed, also
\* after that went elsewhere, unless it was pinned, installed for a core still
\* to come, or kept for want of one that fits (planPluginUpdates).
PluginFits == why = "fits" => \A t \in plugin : ManifestCompatible(t, core)

\* A plugin is "never blindly overwritten" (ENV Reference.md): what the user
\* has changed in it is replaced or removed by a forced run only, unless an
\* update of the core came while the plugin was off the list, which forgets
\* its hashes (run, isPluginDirty).
EditsAreKept ==
    [][("plugin" \in edited /\ ~delisted) /\ Runs(FALSE) => "plugin" \in edited']_vars
=============================================================================
