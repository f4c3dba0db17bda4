----------------------------- MODULE ConfigReload -----------------------------
(***************************************************************************)
(* One configuration or language file of a plugin, from the disk to the    *)
(* memory (watcher/index.ts, manager/config.ts, manager/lang.ts), and the  *)
(* gate that a plugin passes when it is reloaded (validation/pluginGate.ts,*)
(* loader/index.ts).  With hot reload the directory is watched; an admin   *)
(* may reload a file or all of them.                                       *)
(*                                                                         *)
(* A content is the edit that made it and its state: good, bad (it parses  *)
(* and is not valid) or broken; rand: it holds a random value not yet      *)
(* drawn, which a reload of a configuration writes back.                   *)
(***************************************************************************)
EXTENDS Naturals, Sequences

CONSTANTS
    Job,       \* handlers of batches and commands that may be under way at once
    MaxEdits,  \* bound: writes and removals of the file
    MaxEvents  \* bound: commands of an administrator

VARIABLES
    manager,     \* "config" or "lang"
    file,        \* what is on the disk
    dirty, known,         \* chokidar: the file changed, was there when last looked at
    debounceMap, batch,   \* the watcher
    job,         \* the reloads
    isReloading, \* of the configuration
    lock,        \* loadLocks of the languages
    cache, live, \* runtimeCache and liveConfigs, or dictionary and liveNamespaces
    failures,    \* the plugin is among the validation failures
    edits, events,
    \* For the properties: a change was not looked at, two reloads overlapped;
    \* what the last plugin reload came to.
    missed, overlap, gate

vars == <<manager, file, dirty, known, debounceMap, batch, job, isReloading, lock, cache, live,
          failures, edits, events, missed, overlap, gate>>
watcher == <<dirty, known, debounceMap, batch>>

Content(n, state, rand) == [edit |-> n, state |-> state, rand |-> rand]
Absent == Content(0, "absent", FALSE)
Default == Content(0, "good", FALSE)
Idle == [kind |-> "none", at |-> "idle", todo |-> <<>>, got |-> Absent, was |-> Absent]

Busy == {j \in Job : job[j].at # "idle"}
Reading == {j \in Job : job[j].at \in {"persist", "validate", "swap"}}

----------------------------------------------------------------------------
(* The disk and the watcher. *)

Write(state, rand) ==
    /\ edits < MaxEdits /\ edits' = edits + 1
    /\ file' = Content(edits + 1, state, rand) /\ dirty' = TRUE
    /\ UNCHANGED <<manager, known, debounceMap, batch, job, isReloading, lock, cache, live, failures,
                   events, missed, overlap, gate>>

Remove ==
    /\ file # Absent
    /\ edits < MaxEdits /\ edits' = edits + 1
    /\ file' = Absent /\ dirty' = TRUE
    /\ UNCHANGED <<manager, known, debounceMap, batch, job, isReloading, lock, cache, live, failures,
                   events, missed, overlap, gate>>

\* handleEvent, once the file is stable: the same of the last 250 ms is dropped.
HandleEvent ==
    LET is == file # Absent
        type == IF is THEN IF known THEN "modified" ELSE "created" ELSE "deleted"
    IN /\ dirty /\ dirty' = FALSE /\ known' = is
       /\ IF ~is /\ ~known THEN missed' = TRUE /\ UNCHANGED <<debounceMap, batch>>
          ELSE IF type \in debounceMap THEN missed' = TRUE /\ UNCHANGED <<debounceMap, batch>>
          ELSE /\ debounceMap' = debounceMap \cup {type}
               /\ batch' = Append(batch, type) /\ UNCHANGED missed
       /\ UNCHANGED <<manager, file, job, isReloading, lock, cache, live, failures, edits, events,
                      overlap, gate>>

Expire(type) ==
    /\ type \in debounceMap /\ debounceMap' = debounceMap \ {type}
    /\ UNCHANGED <<manager, file, dirty, known, batch, job, isReloading, lock, cache, live, failures,
                   edits, events, missed, overlap, gate>>

\* detectMoves: a removal and a creation are one move, in whatever order.
DetectMoves(types) ==
    LET has(t) == \E i \in DOMAIN types : types[i] = t
        if(t, b) == IF b THEN <<t>> ELSE <<>>
    IN if("modified", has("modified")) \o if("moved", has("deleted") /\ has("created"))
       \o if("deleted", has("deleted") /\ ~has("created"))
       \o if("created", has("created") /\ ~has("deleted"))

\* flushBatch: its handler starts, beside those of earlier batches.
FlushBatch(j) ==
    /\ batch # <<>> /\ batch' = <<>>
    /\ job[j] = Idle
    /\ job' = [job EXCEPT ![j] = [Idle EXCEPT !.kind = "watch", !.at = "next",
                                  !.todo = DetectMoves(batch)]]
    /\ UNCHANGED <<manager, file, dirty, known, debounceMap, isReloading, lock, cache, live, failures,
                   edits, events, missed, overlap, gate>>

----------------------------------------------------------------------------
(* The reloads. *)

Rest(j) == IF job[j].kind = "watch" /\ Len(job[j].todo) > 1
           THEN [Idle EXCEPT !.kind = "watch", !.at = "next", !.todo = Tail(job[j].todo)]
           ELSE Idle

\* handleWatchEvents: a removal at once, anything else by a load; one of a
\* language file that is locked not at all.
HandleWatchEvent(j) ==
    LET x == job[j] IN
    /\ x.at = "next"
    /\ IF Head(x.todo) = "deleted" THEN
           /\ cache' = Absent /\ live' = Absent
           /\ overlap' = (overlap \/ Reading # {})
           /\ missed' = (missed \/ file # Absent)
           /\ job' = [job EXCEPT ![j] = Rest(j)]
           /\ UNCHANGED lock
       ELSE IF manager = "lang" /\ lock # "free" THEN
           /\ missed' = TRUE
           /\ job' = [job EXCEPT ![j] = Rest(j)]
           /\ UNCHANGED <<lock, cache, live, overlap>>
       ELSE /\ lock' = IF manager = "lang" THEN "loading" ELSE lock
            /\ job' = [job EXCEPT ![j].at = "read"]
            /\ UNCHANGED <<cache, live, missed, overlap>>
    /\ UNCHANGED <<manager, file, watcher, isReloading, failures, edits, events, gate>>

\* reloadFile and reloadAll of an administrator, and the refresh of a plugin's
\* reload; of the configuration one reloadAll at a time, a second ends at once.
Command(j, kind) ==
    LET skips == kind # "file" /\ manager = "config" /\ isReloading IN
    /\ events < MaxEvents /\ events' = events + 1
    /\ job[j] = Idle
    /\ kind = "gate" => ~\E k \in Job : job[k].kind = "gate"
    /\ IF kind = "gate" /\ file.state \in {"absent", "broken"}  \* syncPlugin
       THEN file' = Default /\ dirty' = TRUE ELSE UNCHANGED <<file, dirty>>
    /\ isReloading' = (isReloading \/ (kind # "file" /\ manager = "config"))
    /\ job' = [job EXCEPT ![j] =
                  IF skips /\ kind = "all" THEN Idle
                  ELSE [Idle EXCEPT !.kind = kind, !.at = IF skips THEN "gate" ELSE "read",
                                    !.was = IF skips THEN Absent ELSE file']]
    /\ UNCHANGED <<manager, known, debounceMap, batch, lock, cache, live, failures, edits, missed,
                   overlap, gate>>

\* A load ends; the lock of a language file stays for 100 ms.
Ended(j) ==
    /\ job' = [job EXCEPT ![j] = IF @.kind = "gate" THEN [@ EXCEPT !.at = "gate"] ELSE Rest(j)]
    /\ lock' = IF manager = "lang" /\ job[j].kind = "watch" THEN "timer" ELSE lock

Whole(j) == manager = "config" /\ job[j].kind \in {"all", "gate"}

\* A reload of all leaves out a file that is not there.  (What is read alone and
\* is good makes up for what went before.)
Read(j) ==
    LET gone == file = Absent
        full == file.state = "good" \/ (gone /\ Whole(j))
    IN /\ job[j].at = "read"
       /\ overlap' = (Reading # {} \/ (overlap /\ ~full))
       /\ missed' = (~full /\ (missed \/ (gone /\ cache # Absent)))
       /\ IF gone /\ ~Whole(j) THEN Ended(j)
          ELSE /\ job' = [job EXCEPT ![j].got = file,
                                     ![j].at = IF gone THEN "swap"
                                               ELSE IF manager = "config" /\ file.rand
                                                       /\ file.state # "broken"
                                               THEN "persist" ELSE "validate"]
               /\ UNCHANGED lock
       /\ UNCHANGED <<manager, file, watcher, isReloading, cache, live, failures, edits, events, gate>>

\* persistPlaceholdersInJson5File: what was read, with its values drawn, goes
\* to the file, whatever that has become.
Persist(j) ==
    /\ job[j].at = "persist"
    /\ file' = [job[j].got EXCEPT !.rand = FALSE] /\ dirty' = TRUE
    /\ job' = [job EXCEPT ![j].got.rand = FALSE, ![j].at = "validate"]
    /\ UNCHANGED <<manager, known, debounceMap, batch, isReloading, lock, cache, live, failures,
                   edits, events, missed, overlap, gate>>

\* Mutant: what is not valid is applied as well.
AppliesAll(got) == TRUE

\* parseExpandValidate, loadFile: only what is valid is applied.
Applies(got) == got.state = "good"

\* In a reload of all the live reference follows at once, the cache at the end.
Validate(j) ==
    LET got == job[j].got IN
    /\ job[j].at = "validate"
    /\ failures' = (failures \/ got.state = "bad")
    /\ live' = IF Applies(got) THEN got ELSE live
    /\ IF Whole(j)
       THEN /\ job' = [job EXCEPT ![j].at = "swap", ![j].got = IF Applies(got) THEN got ELSE Absent]
            /\ UNCHANGED <<lock, cache>>
       ELSE Ended(j) /\ cache' = IF Applies(got) THEN got ELSE cache
    /\ UNCHANGED <<manager, file, watcher, isReloading, edits, events, missed, overlap, gate>>

Swap(j) ==
    /\ job[j].at = "swap"
    /\ cache' = job[j].got /\ isReloading' = FALSE
    /\ Ended(j)
    /\ UNCHANGED <<manager, file, watcher, live, failures, edits, events, missed, overlap, gate>>

\* shouldDisablePluginForConfig: a failure is never forgotten.
Gate(j) ==
    /\ job[j].at = "gate"
    /\ gate' = IF failures THEN "blocked"
               ELSE IF job[j].was.state = "bad" /\ job[j].was = file THEN "wrong" ELSE "passed"
    /\ job' = [job EXCEPT ![j] = Idle]
    /\ UNCHANGED <<manager, file, watcher, isReloading, lock, cache, live, failures, edits, events,
                   missed, overlap>>

Unlock ==
    /\ lock = "timer" /\ lock' = "free"
    /\ UNCHANGED <<manager, file, watcher, job, isReloading, cache, live, failures, edits, events,
                   missed, overlap, gate>>

\* After the first load of a good file.
Init ==
    /\ manager \in {"config", "lang"}
    /\ file = Default /\ cache = Default /\ live = Default
    /\ dirty = FALSE /\ known = TRUE /\ debounceMap = {} /\ batch = <<>>
    /\ job = [j \in Job |-> Idle] /\ isReloading = FALSE /\ lock = "free"
    /\ failures = FALSE /\ edits = 0 /\ events = 0
    /\ missed = FALSE /\ overlap = FALSE /\ gate = "none"

\* A handler goes on with its next event before anything else happens.
Next ==
    IF \E j \in Job : job[j].at = "next" THEN \E j \in Job : HandleWatchEvent(j)
    ELSE \/ Write("good", TRUE) \/ \E state \in {"good", "bad", "broken"} : Write(state, FALSE)
         \/ Remove \/ HandleEvent \/ Unlock
         \/ \E type \in {"created", "modified", "deleted"} : Expire(type)
         \/ \E j \in Job :
               \/ FlushBatch(j) \/ Read(j) \/ Persist(j) \/ Validate(j) \/ Swap(j) \/ Gate(j)
               \/ \E kind \in {"file", "all", "gate"} : Command(j, kind)

Spec == Init /\ [][Next]_vars

----------------------------------------------------------------------------
(* Properties. *)

TypeOK ==
    /\ debounceMap \subseteq {"created", "modified", "deleted"}
    /\ lock \in {"free", "loading", "timer"} /\ isReloading \in BOOLEAN
    /\ \A c \in {file, cache, live} : c.edit \in 0..MaxEdits
                                      /\ c.state \in {"absent", "good", "bad", "broken"}
    /\ \A j \in Job : job[j].at \in {"idle", "next", "read", "persist", "validate", "swap", "gate"}
    /\ edits \in 0..MaxEdits /\ events \in 0..MaxEvents

AtRest == ~dirty /\ batch = <<>> /\ Busy = {}

\* At rest the memory holds the file, if that is valid, in both of its forms,
\* unless a change was not looked at (it was debounced after the read, or met
\* the lock of a language file) or two reloads overlapped.
MemoryIsFile ==
    AtRest /\ ~missed /\ ~overlap =>
        /\ file.state = "good" => cache = file
        /\ file.state = "absent" => cache = Absent
        /\ cache # Absent => live = cache

\* Nothing that is not valid is ever applied, and what is applied was a
\* content of the file.
OnlyValidIsApplied == cache.state \in {"good", "absent"} /\ live.state \in {"good", "absent"}

\* A plugin whose file is bad all along its reload is blocked (System Prompt -
\* AI - Plugin.md), unless the refresh was skipped for another one.
BadFileBlocks == gate # "wrong"
===============================================================================
