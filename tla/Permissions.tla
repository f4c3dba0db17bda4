---------------------------- MODULE Permissions ----------------------------
(***************************************************************************)
(* The permission tables and the cache before them                         *)
(* (src/core/manager/permissions.ts, permissionRoleLinks.ts,               *)
(* permissionCache.ts, plugins/permissions/.../guildMemberUpdate.ts).      *)
(*                                                                         *)
(* A permission role keeps the list of its users in its own row; why each  *)
(* of them has it is kept in other rows, the grants.  A call reads the     *)
(* row, changes grants, writes the list back and then removes the users'   *)
(* cached permissions, with an await at every database call: the steps of  *)
(* different calls interleave (Postgres and MongoDB; a SQLite call does    *)
(* not leave the event loop).  One Discord role, one guild.                *)
(***************************************************************************)
EXTENDS Naturals, FiniteSets

CONSTANTS
    User,         \* Discord users, none of them listed in BotOwnerIds
    BotRole,      \* bot-wide permission roles
    ServerRole,   \* permission roles of the guild
    Bit,          \* permission bits roles hold
    OwnerBit,     \* the bit bot.owner, which gives all
    ServerOwner,  \* the bit server.owner, which no role holds
    GuildOwner,   \* the Discord user who owns the guild
    None,         \* no value: an entry that is not cached, a field not used
    Linked,       \* roles linked to the Discord role at the start
    Redis,        \* is the cache in Redis and survives the process?
    Caller,       \* calls under way at a time
    MaxCalls,     \* bound: calls
    MaxEvents     \* bound: failed database calls and restarts

ASSUME PermissionsAssumption ==
    /\ OwnerBit \in Bit /\ ServerOwner \notin Bit /\ GuildOwner \in User
    /\ BotRole \cap ServerRole = {} /\ None \notin BotRole \cup ServerRole
    /\ Linked \subseteq BotRole \cup ServerRole /\ Redis \in BOOLEAN
    /\ MaxCalls \in Nat /\ MaxEvents \in Nat

VARIABLES
    db,      \* the tables: live roles, their bits and users, grants, links
    member,  \* users that have the Discord role
    cache,   \* per user and place: the cached bits, or None
    call,    \* the calls under way
    count,   \* calls and events so far
    torn,    \* roles two calls changed at a time, or a call left half way
    aged     \* cache entries old when stored, or whose role was edited since

vars == <<db, member, cache, call, count, torn, aged>>

Role    == BotRole \cup ServerRole
Source  == {"direct", "discord_role"}
Key     == User \X {"bot", "guild"}

----------------------------------------------------------------------------
(* Reading the tables. *)

Grants(d, u, r) == d.grants[<<u, r>>]

HasAnyGrant(d, u, r) == Grants(d, u, r) # {}

BitsIn(d, u, roles) ==
    UNION {d.bits[r] : r \in {x \in roles \cap d.live : u \in d.assigned[x]}}

\* bot.owner in a role gives every bit.
Effective(bits) == IF OwnerBit \in bits THEN Bit ELSE bits

\* What resolve answers for a key, the synthetic bit of the owner aside.
Resolved(d, k) ==
    Effective(BitsIn(d, k[1], IF k[2] = "bot" THEN BotRole ELSE Role))

----------------------------------------------------------------------------
(* Calls.  A call that is not under way is Idle. *)

Idle == [op |-> "none", pc |-> "none", role |-> None, users |-> {},
         left |-> {}, row |-> {}, inv |-> {}, key |-> None]

Roleless == {"none", "resolve", "update", "link"}

\* The roles a call is changing the users or grants of, or still will.
Busy(c) ==
    CASE c.op \in Roleless -> {}
      [] c.op = "sync"     -> c.left \cup ({c.role} \cap Role)
                              \cup (IF c.pc = "bots" THEN BotRole ELSE {})
      [] OTHER             -> {c.role}

Overlapped(cs) ==
    {r \in Role : \E c, e \in Caller : c # e /\ r \in Busy(cs[c]) \cap Busy(cs[e])}

\* The call c goes on as rec.
GoesOn(c, rec) ==
    /\ call' = [call EXCEPT ![c] = rec]
    /\ torn' = torn \cup Overlapped(call')

Begins(c, rec) ==
    /\ call[c].op = "none"
    /\ count.calls < MaxCalls
    /\ count' = [count EXCEPT !.calls = @ + 1]
    /\ GoesOn(c, rec)

At(c, ops, pc) == call[c].op \in ops /\ call[c].pc = pc

Ends(c) == GoesOn(c, Idle)

\* A call is done with its role: a sync goes on with the next link.
Done(rec) == IF rec.op = "sync" /\ rec.left # {}
             THEN [rec EXCEPT !.pc = "next", !.role = None, !.inv = {}]
             ELSE Idle

\* Next, the call removes what is cached for the users.
Invalidating(rec, users) ==
    IF users = {} THEN Done(rec) ELSE [rec EXCEPT !.pc = "inv", !.inv = users]

SetGrants(u, r, sources) == db' = [db EXCEPT !.grants[<<u, r>>] = sources]

----------------------------------------------------------------------------
(* assignBotRole, assignServerRole, revokeBotRole, revokeServerRole.  The  *)
(* row is read first; a role that is not found throws and changes nothing. *)

BeginAssign(c) == \E r \in db.live, us \in (SUBSET User) \ {{}}, op \in {"assign", "revoke"} :
    /\ Begins(c, [Idle EXCEPT !.op = op, !.pc = "grant", !.role = r, !.users = us,
                              !.left = us, !.row = db.assigned[r]])
    /\ UNCHANGED <<db, member, cache, aged>>

AssignGrant(c) == \E u \in call[c].left :
    /\ At(c, {"assign"}, "grant")
    /\ SetGrants(u, call[c].role, Grants(db, u, call[c].role) \cup {"direct"})
    /\ GoesOn(c, [call[c] EXCEPT !.left = @ \ {u}, !.row = @ \cup {u}])
    /\ UNCHANGED <<member, cache, count, aged>>

RevokeGrant(c) == \E u \in call[c].left :
    /\ At(c, {"revoke"}, "grant")
    /\ SetGrants(u, call[c].role, Grants(db, u, call[c].role) \ {"direct"})
    /\ GoesOn(c, [call[c] EXCEPT !.pc = "still", !.key = u])
    /\ UNCHANGED <<member, cache, count, aged>>

\* Mutant of RevokeStill: other grants are not asked for.
RevokeStillAlways(c) ==
    /\ At(c, {"revoke"}, "still")
    /\ LET u == call[c].key
       IN GoesOn(c, [call[c] EXCEPT !.pc = "grant", !.key = None, !.left = @ \ {u},
                                    !.row = @ \ {u}])
    /\ UNCHANGED <<db, member, cache, count, aged>>

\* A user who has the role for another reason keeps it.
RevokeStill(c) ==
    /\ At(c, {"revoke"}, "still")
    /\ LET u == call[c].key
       IN GoesOn(c, [call[c] EXCEPT !.pc = "grant", !.key = None, !.left = @ \ {u},
                       !.row = IF HasAnyGrant(db, u, call[c].role) THEN @ ELSE @ \ {u}])
    /\ UNCHANGED <<db, member, cache, count, aged>>

\* The list goes back as it was read, changed by this call; the row of a
\* role deleted meanwhile does not come back.
WriteAssigned(c) ==
    /\ \/ At(c, {"assign", "revoke"}, "grant") /\ call[c].left = {}
       \/ At(c, {"unlink", "sync"}, "write")
    /\ db' = IF call[c].role \in db.live
             THEN [db EXCEPT !.assigned[call[c].role] = call[c].row] ELSE db
    /\ GoesOn(c, Invalidating(call[c], call[c].users))
    /\ UNCHANGED <<member, cache, count, aged>>

\* invalidateUserCache, for one user after another in any order: the key
\* without guild, and all that end in the user's id.
Invalidate(c) == \E u \in call[c].inv :
    /\ call[c].pc = "inv"
    /\ cache' = [k \in Key |-> IF k[1] = u THEN None ELSE cache[k]]
    /\ aged' = {k \in aged : k[1] # u}
    /\ LET left == call[c].inv \ {u}
       IN GoesOn(c, Invalidating(call[c], left))
    /\ UNCHANGED <<db, member, count>>

----------------------------------------------------------------------------
(* Editing, deleting and creating roles. *)

\* A server role holds no bot.owner; an edit without bits writes back the
\* bits it has read.
BeginUpdate(c) == \E r \in db.live, bs \in SUBSET Bit :
    /\ r \in ServerRole => OwnerBit \notin bs
    /\ Begins(c, [Idle EXCEPT !.op = "update", !.pc = "bits", !.role = r, !.row = bs])
    /\ UNCHANGED <<db, member, cache, aged>>

\* The cached permissions of the role's users are left as they are.
UpdateBits(c) ==
    /\ At(c, {"update"}, "bits")
    /\ LET d == [db EXCEPT !.bits[call[c].role] = call[c].row]
       IN /\ db' = IF call[c].role \in db.live THEN d ELSE db
          /\ aged' = aged \cup
                 {k \in Key : call[c].role \in db.live /\ cache[k] # None
                                /\ Resolved(d, k) # Resolved(db, k)}
    /\ Ends(c)
    /\ UNCHANGED <<member, cache, count>>

BeginDelete(c) == \E r \in db.live :
    /\ Begins(c, [Idle EXCEPT !.op = "delete", !.pc = "delete", !.role = r,
                              !.users = db.assigned[r]])
    /\ UNCHANGED <<db, member, cache, aged>>

\* Mutant of DeleteRow: what is cached stays.
DeleteRowOnly(c) ==
    /\ At(c, {"delete"}, "delete")
    /\ db' = [db EXCEPT !.live = @ \ {call[c].role}]
    /\ Ends(c)
    /\ UNCHANGED <<member, cache, count, aged>>

\* Grants and links of the role stay; its id is random and never used again.
DeleteRow(c) ==
    /\ At(c, {"delete"}, "delete")
    /\ db' = [db EXCEPT !.live = @ \ {call[c].role}]
    /\ GoesOn(c, Invalidating(call[c], call[c].users))
    /\ UNCHANGED <<member, cache, count, aged>>

----------------------------------------------------------------------------
(* Links to the Discord role. *)

BeginLink(c) == \E r \in db.live \ db.links :
    /\ Begins(c, [Idle EXCEPT !.op = "link", !.pc = "link", !.role = r])
    /\ UNCHANGED <<db, member, cache, aged>>

InsertLink(c) ==
    /\ At(c, {"link"}, "link")
    /\ db' = [db EXCEPT !.links = @ \cup {call[c].role}]
    /\ Ends(c)
    /\ UNCHANGED <<member, cache, count, aged>>

\* unlinkDiscordRole: the link, the grants that came of it, who still has
\* one, the row, the list.
BeginUnlink(c) == \E r \in db.links :
    /\ Begins(c, [Idle EXCEPT !.op = "unlink", !.pc = "grants", !.role = r])
    /\ db' = [db EXCEPT !.links = @ \ {r}]
    /\ UNCHANGED <<member, cache, aged>>

UnlinkGrants(c) ==
    /\ At(c, {"unlink"}, "grants")
    /\ db' = [db EXCEPT !.grants = [ur \in DOMAIN @ |->
                 IF ur[2] = call[c].role THEN @[ur] \ {"discord_role"} ELSE @[ur]]]
    /\ GoesOn(c, [call[c] EXCEPT !.pc = "list"])
    /\ UNCHANGED <<member, cache, count, aged>>

UnlinkList(c) ==
    /\ At(c, {"unlink"}, "list")
    /\ GoesOn(c, [call[c] EXCEPT !.pc = "read",
                     !.left = {u \in User : HasAnyGrant(db, u, call[c].role)}])
    /\ UNCHANGED <<db, member, cache, count, aged>>

UnlinkRead(c) ==
    /\ At(c, {"unlink"}, "read")
    /\ LET row == db.assigned[call[c].role]
       IN IF call[c].role \in db.live
          THEN GoesOn(c, [call[c] EXCEPT !.pc = "write", !.users = row,
                             !.row = row \cap call[c].left, !.left = {}])
          ELSE Ends(c)
    /\ UNCHANGED <<db, member, cache, count, aged>>

----------------------------------------------------------------------------
(* guildMemberUpdate: a member got or lost the Discord role.  The handler  *)
(* reads the links of the guild and then those of the bot, and applies or  *)
(* revokes a grant for each.                                               *)

MemberUpdate(c) == \E u \in User :
    /\ member' = IF u \in member THEN member \ {u} ELSE member \cup {u}
    /\ Begins(c, [Idle EXCEPT !.op = "sync", !.pc = "bots", !.users = {u},
                              !.key = IF u \in member THEN "lost" ELSE "has",
                              !.left = db.links \cap ServerRole])
    /\ UNCHANGED <<db, cache, aged>>

SyncBots(c) ==
    /\ At(c, {"sync"}, "bots")
    /\ GoesOn(c, Done([call[c] EXCEPT !.left = @ \cup (db.links \cap BotRole)]))
    /\ UNCHANGED <<db, member, cache, count, aged>>

\* applyDiscordGrant begins with the grant; revokeDiscordGrantIfOrphan with
\* its removal, and ends there for a user who has another.
SyncGrant(c) == \E r \in call[c].left, u \in call[c].users :
    /\ At(c, {"sync"}, "next")
    /\ r \in BotRole => call[c].left \subseteq BotRole
    /\ IF call[c].key = "has"
       THEN /\ SetGrants(u, r, Grants(db, u, r) \cup {"discord_role"})
            /\ GoesOn(c, [call[c] EXCEPT !.pc = "read", !.role = r, !.left = @ \ {r}])
       ELSE /\ SetGrants(u, r, Grants(db, u, r) \ {"discord_role"})
            /\ GoesOn(c, [call[c] EXCEPT !.pc = "still", !.role = r, !.left = @ \ {r}])
    /\ UNCHANGED <<member, cache, count, aged>>

SyncStill(c) == \E u \in call[c].users :
    /\ At(c, {"sync"}, "still")
    /\ IF HasAnyGrant(db, u, call[c].role)
       THEN GoesOn(c, Done(call[c]))
       ELSE GoesOn(c, [call[c] EXCEPT !.pc = "read"])
    /\ UNCHANGED <<db, member, cache, count, aged>>

\* The row is read only now.  A list that names the user is not written again.
SyncRead(c) ==
    /\ At(c, {"sync"}, "read")
    /\ LET row == db.assigned[call[c].role]
           us  == call[c].users
       IN CASE call[c].role \notin db.live ->
                 GoesOn(c, Done(call[c]))
            [] call[c].role \in db.live /\ call[c].key = "has" /\ us \subseteq row ->
                 GoesOn(c, Invalidating(call[c], us))
            [] OTHER ->
                 GoesOn(c, [call[c] EXCEPT !.pc = "write",
                     !.row = IF call[c].key = "has" THEN row \cup us ELSE row \ us])
    /\ UNCHANGED <<db, member, cache, count, aged>>

----------------------------------------------------------------------------
(* cachedResolve of a key that is not cached; a key that is changes        *)
(* nothing.  The caller may or may not say who owns the guild.             *)

BeginResolve(c) == \E k \in Key, known \in BOOLEAN :
    /\ cache[k] = None
    /\ known => k = <<GuildOwner, "guild">>
    /\ Begins(c, [Idle EXCEPT !.op = "resolve", !.pc = "bot", !.key = k,
                              !.row = IF known THEN {ServerOwner} ELSE {}])
    /\ UNCHANGED <<db, member, cache, aged>>

ResolveBot(c) ==
    /\ At(c, {"resolve"}, "bot")
    /\ GoesOn(c, [call[c] EXCEPT !.row = @ \cup BitsIn(db, call[c].key[1], BotRole),
                    !.pc = IF call[c].key[2] = "bot" THEN "set" ELSE "guild"])
    /\ UNCHANGED <<db, member, cache, count, aged>>

ResolveGuild(c) ==
    /\ At(c, {"resolve"}, "guild")
    /\ GoesOn(c, [call[c] EXCEPT !.row = @ \cup BitsIn(db, call[c].key[1], ServerRole),
                                 !.pc = "set"])
    /\ UNCHANGED <<db, member, cache, count, aged>>

\* Stored whatever was invalidated since the tables were read.
ResolveSet(c) ==
    /\ At(c, {"resolve"}, "set")
    /\ LET k == call[c].key
           v == Effective(call[c].row)
       IN /\ cache' = [cache EXCEPT ![k] = v]
          /\ aged' = IF v \ {ServerOwner} = Resolved(db, k) THEN aged \ {k}
                                                           ELSE aged \cup {k}
    /\ Ends(c)
    /\ UNCHANGED <<db, member, count>>

\* The entry is older than the TTL.
Expire == \E k \in Key :
    /\ cache[k] # None
    /\ cache' = [cache EXCEPT ![k] = None]
    /\ aged' = aged \ {k}
    /\ UNCHANGED <<db, member, call, count, torn>>

----------------------------------------------------------------------------
(* Failures. *)

Event ==
    /\ count.events < MaxEvents
    /\ count' = [count EXCEPT !.events = @ + 1]

\* A database call throws and the call ends there.  Failures of the cache
\* are caught where they happen.
DatabaseFails(c) ==
    /\ call[c].op # "none" /\ call[c].pc \notin {"inv", "set"}
    /\ Event
    /\ call' = [call EXCEPT ![c] = Idle]
    /\ torn' = torn \cup Busy(call[c])
    /\ UNCHANGED <<db, member, cache, aged>>

\* migrateLegacyAssignedAsDirect: who is on a list without a grant gets one.
Migrated(d) ==
    [d EXCEPT !.grants = [ur \in DOMAIN @ |->
        IF @[ur] = {} /\ ur[2] \in d.live /\ ur[1] \in d.assigned[ur[2]]
        THEN {"direct"} ELSE @[ur]]]

\* The process ends and starts: calls are lost, init mends the grants.
Restart ==
    /\ Event
    /\ call' = [c \in Caller |-> Idle]
    /\ torn' = torn \cup UNION {Busy(call[c]) : c \in Caller}
    /\ db' = Migrated(db)
    /\ cache' = IF Redis THEN cache ELSE [k \in Key |-> None]
    /\ aged' = IF Redis
               THEN aged \cup {k \in Key : cache[k] # None /\ \E c \in Caller : k[1] \in call[c].inv}
               ELSE {}
    /\ UNCHANGED member

----------------------------------------------------------------------------

\* Roles assigned and linked; who has the Discord role has been synced.
Init ==
    /\ member \in SUBSET User
    /\ \E direct \in [Role -> SUBSET User] :
         LET linked(r) == IF r \in Linked THEN member ELSE {}
         IN db = [live |-> Role, bits |-> [r \in Role |-> Bit \ {OwnerBit}],
                  assigned |-> [r \in Role |-> direct[r] \cup linked(r)],
                  grants |-> [ur \in User \X Role |->
                      (IF ur[1] \in direct[ur[2]] THEN {"direct"} ELSE {}) \cup
                      (IF ur[1] \in linked(ur[2]) THEN {"discord_role"} ELSE {})],
                  links |-> Linked]
    /\ cache = [k \in Key |-> None]
    /\ call = [c \in Caller |-> Idle]
    /\ count = [calls |-> 0, events |-> 0]
    /\ torn = {} /\ aged = {}

\* A step of a call that has begun.
Step(c) ==
    \/ AssignGrant(c) \/ RevokeGrant(c) \/ RevokeStill(c) \/ WriteAssigned(c)
    \/ Invalidate(c)
    \/ UpdateBits(c) \/ DeleteRow(c) \/ InsertLink(c)
    \/ UnlinkGrants(c) \/ UnlinkList(c) \/ UnlinkRead(c)
    \/ SyncBots(c) \/ SyncGrant(c) \/ SyncStill(c) \/ SyncRead(c)
    \/ ResolveBot(c) \/ ResolveGuild(c) \/ ResolveSet(c)

Begin(c) ==
    \/ BeginAssign(c) \/ BeginUpdate(c) \/ BeginDelete(c) \/ BeginLink(c)
    \/ BeginUnlink(c) \/ MemberUpdate(c) \/ BeginResolve(c)

Next ==
    \/ \E c \in Caller : Begin(c) \/ Step(c) \/ DatabaseFails(c)
    \/ Expire \/ Restart

Spec == Init /\ [][Next]_vars

----------------------------------------------------------------------------
(* Properties. *)

\* Tables and cache have their types; a server role never holds bot.owner.
TypeOK ==
    /\ db \in [live: SUBSET Role, bits: [Role -> SUBSET Bit],
               assigned: [Role -> SUBSET User],
               grants: [User \X Role -> SUBSET Source], links: SUBSET Role]
    /\ \A r \in ServerRole : OwnerBit \notin db.bits[r]
    /\ member \subseteq User
    /\ \A k \in Key : cache[k] = None \/ cache[k] \subseteq Bit \cup {ServerOwner}
    /\ torn \subseteq Role /\ aged \subseteq Key

Quiet(r) == r \in db.live \ torn /\ \A c \in Caller : r \notin Busy(call[c])

\* The list in a role's row and its grants name the same users, whatever was
\* edited, deleted, linked, failed or restarted beside it, as long as no two
\* calls changed the users of that role at a time and none was cut short:
\* who is revoked and has no other reason loses the role, who has one keeps
\* it (permissions.ts:680, :717, :1451, :1527).
AssignedIsGranted == \A r \in Role : Quiet(r) =>
    db.assigned[r] = {u \in User : HasAnyGrant(db, u, r)}

\* Who holds a role by the Discord role has that one, and it is linked:
\* no grant outlives its link or its reason (permissions.ts:1451,
\* guildMemberUpdate.ts:38).
DiscordGrantsAreEarned == \A r \in Role, u \in User :
    Quiet(r) /\ "discord_role" \in Grants(db, u, r) => r \in db.links /\ u \in member

\* The tables agree on who holds what, and why: the state has its shape, the
\* users of a role are those with a grant, and Discord grants are earned.
HoldersHaveReasons == TypeOK /\ AssignedIsGranted /\ DiscordGrantsAreEarned

Stale(k) == cache[k] # None /\ cache[k] \ {ServerOwner} # Resolved(db, k)

\* A cached answer that differs from the tables has a reason: a call that
\* changed them has yet to invalidate it, or the answer was already old when
\* it was stored, or a role was edited, which invalidates nothing, or two
\* calls changed the users of a role at a time (permissionCache.ts:50,
\* permissions.ts:536).
StaleHasReason == \A k \in Key : Stale(k) =>
    \/ k \in aged
    \/ \E c \in Caller : k[1] \in call[c].inv
    \/ torn \cap (IF k[2] = "bot" THEN BotRole ELSE Role) # {}

\* What is cached for the owner of the guild has the owner's bit: it is
\* "auto-granted to Discord guild owner" (types/permissions.ts:178).
OwnerIsGranted == LET k == <<GuildOwner, "guild">> IN
    cache[k] # None /\ OwnerBit \notin cache[k] => ServerOwner \in cache[k]
=============================================================================
