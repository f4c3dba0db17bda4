-------------------------------- MODULE Tokens --------------------------------
(***************************************************************************)
(* The tokens of one user and one of his devices (manager/token.ts): a     *)
(* version for all his tokens, a row for the device with its own version   *)
(* and the last token issued for it.  A token carries both versions.  The  *)
(* calls read and write the store over awaits.  Encoding, signature and    *)
(* expiry are left out, and so are the bits a token grants.                *)
(***************************************************************************)
EXTENDS Naturals, Sequences

CONSTANTS
    Caller,      \* calls that may be under way at once
    MaxTokens,   \* bound: tokens
    MaxRevokes,  \* bound: revocations that are asked for
    MaxCalls,    \* bound: verifications and refreshes
    MaxEvents    \* bound: statements that fail

VARIABLES
    engine,   \* of the store, "sql" or "mongo"
    global,   \* the version of the user
    device,   \* the row of the device: its version and its last token, 0 for none
    tokens,   \* the tokens as they were issued, and what has been revoked since
    call,     \* the call of each caller
    torn,     \* something was written over a value that had changed since it was read
    again,    \* a token was issued anew for a device that had a version
    left      \* what the bounds leave

vars == <<engine, global, device, tokens, call, torn, again, left>>

Idle == [op |-> "none", pc |-> "idle", token |-> 0, gv |-> 0, dv |-> 0,
         row |-> [ver |-> 0, last |-> 0], unsure |-> FALSE]

----------------------------------------------------------------------------

Matches(t, gv, dv) == tokens[t].gv = gv /\ tokens[t].dv = dv

Spend(what) == left[what] > 0 /\ left' = [left EXCEPT ![what] = @ - 1]

At(c, pc) == call[c].pc = pc

GoesOn(c, rec) == call' = [call EXCEPT ![c] = rec]

To(c, pc) == [call[c] EXCEPT !.pc = pc]

\* A revocation took effect: of all tokens there are; of those being issued
\* it is not known which versions they will carry.
Revoked(by, rec, c) ==
    /\ tokens' = [t \in DOMAIN tokens |->
                    [tokens[t] EXCEPT !.state = IF by = "all" THEN "all"
                                                ELSE IF @ = "all" THEN @ ELSE "device"]]
    /\ call' = [[d \in Caller |-> [call[d] EXCEPT !.unsure = call[d].op \in {"sign", "issue"}]]
                  EXCEPT ![c] = rec]

\* issue without the version of the device, as for somebody who signs in.
Begin(c) ==
    /\ call[c] = Idle
    /\ \/ /\ Len(tokens) < MaxTokens
          /\ GoesOn(c, [Idle EXCEPT !.op = "sign", !.pc = "global"])
          /\ UNCHANGED left
       \/ \E op \in {"verify", "refresh"}, t \in DOMAIN tokens :
             /\ Spend("calls")
             /\ GoesOn(c, [Idle EXCEPT !.op = op, !.pc = "global", !.token = t])
       \/ \E op \in {"revokeDevice", "revokeAll"} :
             /\ Spend("revokes")
             /\ GoesOn(c, [Idle EXCEPT !.op = op,
                               !.pc = IF op = "revokeAll" THEN "count" ELSE "increment"])
    /\ UNCHANGED <<engine, global, device, tokens, torn, again>>

\* getGlobalVersion.
ReadGlobal(c) ==
    /\ At(c, "global")
    /\ GoesOn(c, [To(c, IF call[c].op = "sign" THEN "write" ELSE "device") EXCEPT !.gv = global])
    /\ UNCHANGED <<engine, global, device, tokens, torn, again, left>>

\* getDeviceVersion, and in verify the comparison of the versions.
ReadDevice(c) ==
    LET rec == [call[c] EXCEPT !.dv = device.ver]
    IN /\ At(c, "device")
       /\ \/ rec.op = "issue" /\ GoesOn(c, [rec EXCEPT !.pc = "write"])
          \/ /\ rec.op # "issue" /\ ~Matches(rec.token, rec.gv, rec.dv)
             /\ GoesOn(c, Idle)
          \/ /\ rec.op # "issue" /\ Matches(rec.token, rec.gv, rec.dv)
             /\ GoesOn(c, [call[c] EXCEPT !.gv = 0, !.pc = IF rec.op = "verify" THEN "last" ELSE "read"])
       /\ UNCHANGED <<engine, global, device, tokens, torn, again, left>>

\* getLastJti: only refresh does not look.
ReadLast(c) ==
    /\ At(c, "last")
    /\ GoesOn(c, [To(c, IF device.last \in {0, call[c].token} THEN "read" ELSE "increment")
                     EXCEPT !.token = 0])
    /\ UNCHANGED <<engine, global, device, tokens, torn, again, left>>

Counted(c) == IF call[c].op = "verify" THEN Idle ELSE To(c, "read")

Incremented(row) == [device EXCEPT !.ver = row.ver + 1]

\* incrementDeviceVersion: one statement, or a find and an update.
Increment(c) ==
    /\ At(c, "increment")
    /\ IF engine = "sql"
       THEN /\ device' = Incremented(device)
            /\ Revoked("device", Counted(c), c)
       ELSE /\ GoesOn(c, [To(c, "found") EXCEPT !.row = device])
            /\ UNCHANGED <<device, tokens>>
    /\ UNCHANGED <<engine, global, torn, again, left>>

Update(c) ==
    /\ At(c, "found")
    /\ device' = Incremented(call[c].row)
    /\ torn' = (torn \/ device.ver # call[c].row.ver)
    /\ Revoked("device", Counted(c), c)
    /\ UNCHANGED <<engine, global, again, left>>

\* incrementGlobalVersion, the same.
Count(c) ==
    /\ At(c, "count")
    /\ IF engine = "sql"
       THEN /\ global' = global + 1
            /\ Revoked("all", Idle, c)
       ELSE /\ GoesOn(c, [To(c, "counted") EXCEPT !.gv = global])
            /\ UNCHANGED <<global, tokens>>
    /\ UNCHANGED <<engine, device, torn, again, left>>

CountUpdate(c) ==
    /\ At(c, "counted")
    /\ global' = call[c].gv + 1
    /\ torn' = (torn \/ global # call[c].gv)
    /\ Revoked("all", Idle, c)
    /\ UNCHANGED <<engine, device, again, left>>

\* upsertDevice of verify and revokeDevice, with lastSeenAt: the row is read
\* and written back with what it was.
ReadRow(c) ==
    /\ At(c, "read")
    /\ GoesOn(c, [To(c, "touch") EXCEPT !.row = device])
    /\ UNCHANGED <<engine, global, device, tokens, torn, again, left>>

\* Mutant: the last token is left out.
TouchedBare(row) == [row EXCEPT !.last = 0]

Touched(row) == row

Touch(c) ==
    /\ At(c, "touch")
    /\ device' = Touched(call[c].row)
    /\ torn' = (torn \/ device # call[c].row)
    /\ IF call[c].op = "refresh" /\ Len(tokens) < MaxTokens
       THEN GoesOn(c, [Idle EXCEPT !.op = "issue", !.pc = "global"])
       ELSE GoesOn(c, Idle)
    /\ UNCHANGED <<engine, global, tokens, again, left>>

\* upsertDevice of issue, with the version and the last token: what else is in
\* the row does not matter, it is written over.
Write(c) ==
    LET rec == call[c]
    IN /\ At(c, "write")
       /\ device' = [ver |-> rec.dv, last |-> Len(tokens) + 1]
       /\ tokens' = Append(tokens, [gv |-> rec.gv, dv |-> rec.dv,
                                    state |-> IF rec.unsure THEN "unsure" ELSE "good"])
       /\ torn' = (torn \/ (rec.op = "issue" /\ device.ver # rec.dv))
       /\ again' = (again \/ (rec.op = "sign" /\ device.ver # 0))
       /\ GoesOn(c, Idle)
       /\ UNCHANGED <<engine, global, left>>

\* A statement is rejected, and the call with it.
Fails(c) ==
    /\ call[c] # Idle
    /\ Spend("events")
    /\ GoesOn(c, Idle)
    /\ UNCHANGED <<engine, global, device, tokens, torn, again>>

Init ==
    /\ engine \in {"sql", "mongo"}
    /\ global = 0 /\ device = [ver |-> 0, last |-> 0]
    /\ tokens = <<>>
    /\ call = [c \in Caller |-> Idle]
    /\ torn = FALSE /\ again = FALSE
    /\ left = [calls |-> MaxCalls, revokes |-> MaxRevokes, events |-> MaxEvents]

Next == \E c \in Caller :
    \/ Begin(c) \/ ReadGlobal(c) \/ ReadDevice(c) \/ ReadLast(c)
    \/ Increment(c) \/ Update(c) \/ Count(c) \/ CountUpdate(c)
    \/ ReadRow(c) \/ Touch(c) \/ Write(c) \/ Fails(c)

Spec == Init /\ [][Next]_vars

----------------------------------------------------------------------------

TypeOK ==
    /\ engine \in {"sql", "mongo"} /\ global \in Nat
    /\ device.ver \in Nat /\ device.last \in 0..Len(tokens)
    /\ \A t \in DOMAIN tokens : /\ tokens[t].gv \in Nat /\ tokens[t].dv \in Nat
                                /\ tokens[t].state \in {"good", "unsure", "device", "all"}
    /\ \A c \in Caller : call[c].token \in 0..Len(tokens)

Current(t) == Matches(t, global, device.ver)

Accepted(t) == Current(t) /\ device.last \in {0, t}

\* A token that was revoked is refused from then on, for good: by refresh and
\* by verify, which also looks at the last token of the device and so refuses
\* it where the count of the device was started anew; unless a row was written
\* back as it had been before another write.  What was revoked with all tokens
\* of the user stays so even then, where the store counts in one statement.
RevokedStaysRevoked ==
    \A t \in DOMAIN tokens :
        /\ tokens[t].state \in {"device", "all"} /\ ~torn => ~Accepted(t)
        /\ tokens[t].state \in {"device", "all"} /\ ~torn /\ ~again => ~Current(t)
        /\ tokens[t].state = "all" /\ engine = "sql" => ~Current(t)

\* Nothing else is refused: the last token issued is accepted until something
\* is revoked, whatever is verified, refreshed or fails beside it, unless a row
\* was written back as it had been.
LatestIsAccepted ==
    tokens # <<>> /\ tokens[Len(tokens)].state = "good" /\ ~torn => Accepted(Len(tokens))

\* What a revocation refuses is what it should, no less and no more.
RevocationIsExact == RevokedStaysRevoked /\ LatestIsAccepted
==============================================================================
