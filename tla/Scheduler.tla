------------------------------ MODULE Scheduler -------------------------------
(***************************************************************************)
(* The task scheduler (scheduler/index.ts): jobs by name, executed beside  *)
(* one another when they are due, and kept in a file that is written after *)
(* every change and read at the next start.                                *)
(*                                                                         *)
(* A save is left at its awaits: the directory, the temporary file (which  *)
(* is half written meanwhile), the rename.                                 *)
(***************************************************************************)
EXTENDS Naturals, Sequences, FiniteSets

CONSTANTS
    Name,       \* names of jobs
    Interval,   \* of a job, in the unit of the clock
    MaxTime,    \* bound: the clock
    MaxCalls,   \* bound: calls of every and cron
    MaxCrashes  \* bound: crashes

VARIABLES
    now,
    jobs,        \* per name the number of its job object, 0 for none
    objects,     \* the job objects made so far
    registered,  \* names with a handler
    saver,       \* the save under way and what it writes
    isSaving, pendingSave,
    temp, file,  \* what the two files hold
    starts,      \* per name when its last executions began, latest last
    calls, crashes

vars == <<now, jobs, objects, registered, saver, isSaving, pendingSave, temp, file,
          starts, calls, crashes>>

Mode == {"interval", "cron"}
None == [n \in Name |-> [mode |-> "none", nextRun |-> 0]]
Torn == [whole |-> FALSE, jobs |-> None]
Whole(payload) == [whole |-> TRUE, jobs |-> payload]
NoSave == [pc |-> "idle", payload |-> None]

\* What a save writes: the jobs without what is running.
Payload ==
    [n \in Name |-> IF jobs[n] = 0 THEN None[n]
                    ELSE [mode |-> objects[jobs[n]].mode, nextRun |-> objects[jobs[n]].nextRun]]

NextCron(t) == t + Interval - (t % Interval)
FirstRun(mode) == IF mode = "cron" THEN NextCron(now) ELSE now + Interval

----------------------------------------------------------------------------
(* save *)

\* Mutant: a save asked for during another is forgotten.
SaveOnce ==
    /\ isSaving' = TRUE /\ UNCHANGED pendingSave
    /\ saver' = IF isSaving THEN saver ELSE {[NoSave EXCEPT !.pc = "mkdir"]}

Save ==
    IF isSaving THEN pendingSave' = TRUE /\ UNCHANGED <<isSaving, saver>>
    ELSE /\ isSaving' = TRUE /\ UNCHANGED pendingSave
         /\ saver' = {[NoSave EXCEPT !.pc = "mkdir"]}

Step(s, pc) == saver' = (saver \ {s}) \cup {[s EXCEPT !.pc = pc]}

\* The payload is taken when the directory is there.
Write(s) ==
    /\ s.pc = "mkdir"
    /\ saver' = (saver \ {s}) \cup {[pc |-> "write", payload |-> Payload]}
    /\ temp' = Torn
    /\ UNCHANGED <<now, jobs, objects, registered, isSaving, pendingSave, file, starts, calls,
                   crashes>>

Written(s) ==
    /\ s.pc = "write"
    /\ temp' = Whole(s.payload)
    /\ Step(s, "rename")
    /\ UNCHANGED <<now, jobs, objects, registered, isSaving, pendingSave, file, starts, calls,
                   crashes>>

\* The rename, then at once the save that was asked for meanwhile.
Rename(s) ==
    /\ s.pc = "rename"
    /\ file' = temp
    /\ saver' = (saver \ {s}) \cup (IF pendingSave THEN {[NoSave EXCEPT !.pc = "mkdir"]} ELSE {})
    /\ isSaving' = pendingSave /\ pendingSave' = FALSE
    /\ UNCHANGED <<now, jobs, objects, registered, temp, starts, calls, crashes>>

----------------------------------------------------------------------------
(* Jobs. *)

\* every and cron: a job of the same name is replaced by a new object.
Schedule(n, mode) ==
    /\ calls < MaxCalls /\ calls' = calls + 1
    /\ registered' = registered \cup {n}
    /\ objects' = Append(objects, [name |-> n, mode |-> mode, nextRun |-> FirstRun(mode),
                                   running |-> FALSE])
    /\ jobs' = [jobs EXCEPT ![n] = Len(objects) + 1]
    /\ Save
    /\ UNCHANGED <<now, temp, file, starts, crashes>>

RegisterTask(n) ==
    /\ n \notin registered
    /\ registered' = registered \cup {n}
    /\ UNCHANGED <<now, jobs, objects, saver, isSaving, pendingSave, temp, file, starts, calls,
                   crashes>>

Due(k) == ~objects[k].running /\ objects[k].nextRun <= now

\* runPending finds a job due: executeJob up to the handler.
Execute(n) ==
    LET k == jobs[n]
    IN /\ k # 0 /\ Due(k) /\ n \in registered
       /\ objects' = [objects EXCEPT ![k].running = TRUE]
       /\ starts' = [starts EXCEPT ![n] =
                        Append(IF Len(@) < 3 THEN @ ELSE Tail(@), [at |-> now, by |-> k])]
       /\ UNCHANGED <<now, jobs, registered, saver, isSaving, pendingSave, temp, file, calls,
                      crashes>>

\* calculateNextRun.
NextRun(k) ==
    IF objects[k].mode = "cron" THEN NextCron(now)
    ELSE IF objects[k].nextRun + Interval < now THEN now + Interval
    ELSE objects[k].nextRun + Interval

\* The handler ends, with or without an error.
Finish(k) ==
    /\ objects[k].running
    /\ objects' = [objects EXCEPT ![k].nextRun = NextRun(k), ![k].running = FALSE]
    /\ Save
    /\ UNCHANGED <<now, jobs, registered, temp, file, starts, calls, crashes>>

Tick ==
    /\ now < MaxTime /\ now' = now + 1
    /\ UNCHANGED <<jobs, objects, registered, saver, isSaving, pendingSave, temp, file, starts,
                   calls, crashes>>

\* The process ends and a new one loads the file; a torn file cannot be
\* parsed, its jobs are given up.
Restart ==
    LET loaded == {n \in Name : file.jobs[n] # None[n]}
        number == [n \in loaded |-> Cardinality({m \in loaded : m <= n})]
    IN /\ crashes < MaxCrashes /\ crashes' = crashes + 1
       /\ jobs' = [n \in Name |-> IF n \in loaded THEN number[n] ELSE 0]
       /\ objects' = [k \in 1..Cardinality(loaded) |->
                        LET n == CHOOSE m \in loaded : number[m] = k
                        IN [name |-> n, mode |-> file.jobs[n].mode, nextRun |-> file.jobs[n].nextRun,
                            running |-> FALSE]]
       /\ registered' = {} /\ saver' = {} /\ isSaving' = FALSE /\ pendingSave' = FALSE
       /\ starts' = [n \in Name |-> <<>>]
       /\ UNCHANGED <<now, temp, file, calls>>

Init ==
    /\ now = 1
    /\ jobs = [n \in Name |-> 0] /\ objects = <<>> /\ registered = {}
    /\ saver = {} /\ isSaving = FALSE /\ pendingSave = FALSE
    /\ temp = Whole(None) /\ file = Whole(None)
    /\ starts = [n \in Name |-> <<>>] /\ calls = 0 /\ crashes = 0

Next ==
    \/ Tick \/ Restart
    \/ \E s \in saver : Write(s) \/ Written(s) \/ Rename(s)
    \/ \E n \in Name : RegisterTask(n) \/ Execute(n) \/ \E mode \in Mode : Schedule(n, mode)
    \/ \E k \in DOMAIN objects : Finish(k)

Spec == Init /\ [][Next]_vars

----------------------------------------------------------------------------
(* Properties. *)

TypeOK ==
    /\ now \in 1..MaxTime /\ calls \in 0..MaxCalls /\ crashes \in 0..MaxCrashes
    /\ jobs \in [Name -> 0..Len(objects)] /\ registered \subseteq Name
    /\ \A k \in DOMAIN objects : objects[k].name \in Name /\ objects[k].mode \in Mode
    /\ isSaving \in BOOLEAN /\ pendingSave \in BOOLEAN

\* The file of the schedule is never half written, whenever the process ends
\* and however many saves are asked for at once: there is one temporary file
\* (save).
FileIsWhole == file.whole

\* Where nothing is being saved the file holds the jobs as they are, although
\* the payload of a save is taken after an await and changes go on meanwhile.
FileIsCurrent == ~isSaving => file.jobs = Payload

\* Executions that were missed are not made up for: of any three executions
\* of a job the first and the last are an interval apart, however late the
\* polls come and however long the handler takes (calculateNextRun).
NoBurst ==
    \A n \in Name : Len(starts[n]) = 3 /\ starts[n][1].by = starts[n][3].by =>
        starts[n][3].at >= starts[n][1].at + Interval
==============================================================================
