----------------------------- MODULE Access_proof -----------------------------
(***************************************************************************)
(* Proofs about who may do what: the permissions, the gates of a guild,    *)
(* the guilds the bot stays in, the cooldowns and the tokens, whatever     *)
(* calls overlap, fail or are cut off by a restart, and however many.      *)
(***************************************************************************)
EXTENDS AccessControl, Sequences, FiniteSetTheorems, TLAPS

-----------------------------------------------------------------------------
(* The inductive invariant: the tables.                                    *)

Granted(d, r) == {u \in User : Grants(d, u, r) # {}}

Earned(d, m, r) ==
    \A u \in User : "discord_role" \in Grants(d, u, r) => r \in d.links /\ u \in m

(* What the tables say of a role that no call is changing.                 *)
Agreed(d, m, r) == d.assigned[r] = Granted(d, r) /\ Earned(d, m, r)

(* What call x will write to the row of r is changed in its users only.    *)
OnlyChanges(d, x, r) == x.row \ x.users = d.assigned[r] \ x.users

(* A call that assigns or revokes by hand keeps in row who has a grant.    *)
Assigning(d, m, x, r) ==
    /\ OnlyChanges(d, x, r) /\ Earned(d, m, r)
    /\ Granted(d, r) \subseteq x.row
    /\ x.row \subseteq Granted(d, r) \cup (IF x.pc = "still" THEN {x.key} ELSE {})

(* From the grants of the link on, the grants are ahead of the list.       *)
Unlinking(d, x, r) ==
    /\ x.pc = "grants" => d.assigned[r] = Granted(d, r)
    /\ x.pc \in {"list", "read", "write"} =>
         /\ Granted(d, r) \subseteq d.assigned[r]
         /\ \A u \in User : "discord_role" \notin Grants(d, u, r)
    /\ x.pc = "read" => x.left = Granted(d, r)
    /\ x.pc = "write" => x.row = Granted(d, r) /\ x.users = d.assigned[r]

(* A role that a sync has yet to look at.                                  *)
Awaited(d, m, x, r) ==
    /\ d.assigned[r] = Granted(d, r)
    /\ \A u \in User : "discord_role" \in Grants(d, u, r) =>
         r \in d.links /\ (u \in m \/ (u \in x.users /\ x.key = "lost"))
    /\ r \in x.left => r \in d.links
    /\ x.key = "has" => x.users \subseteq m

(* The role that a sync has changed the grant of.                          *)
Syncing(d, m, x, r) ==
    /\ Earned(d, m, r)
    /\ x.key = "has" => Granted(d, r) = d.assigned[r] \cup x.users
    /\ x.key = "lost" => /\ Granted(d, r) \subseteq d.assigned[r]
                         /\ d.assigned[r] \subseteq Granted(d, r) \cup x.users
    /\ x.key = "lost" /\ x.pc = "read" => x.users \cap Granted(d, r) = {}
    /\ x.pc = "write" => x.row = Granted(d, r)

(* What the tables say of a role that only call x is changing.             *)
Under(d, m, x, r) ==
    /\ x.role = r /\ x.pc \in {"inv", "delete"} => Agreed(d, m, r)
    /\ x.op = "delete" /\ x.pc = "delete" => x.users = d.assigned[r]
    /\ x.op \in {"assign", "revoke"} /\ x.pc # "inv" => Assigning(d, m, x, r)
    /\ x.op = "unlink" => Unlinking(d, x, r)
    /\ x.op = "sync" /\ (r \in x.left \/ x.pc = "bots") => Awaited(d, m, x, r)
    /\ x.op = "sync" /\ x.role = r /\ x.pc # "inv" => Syncing(d, m, x, r)

(* Where two calls meet, the role is torn.                                 *)
Alone == \A r \in Role \ torn : \A c, e \in Caller :
            r \in Busy(call[c]) /\ r \in Busy(call[e]) => c = e

Tables == \A r \in db.live \ torn :
    /\ (\A c \in Caller : r \notin Busy(call[c])) => Agreed(db, member, r)
    /\ \A c \in Caller : r \in Busy(call[c]) => Under(db, member, call[c], r)

-----------------------------------------------------------------------------
(* The inductive invariant: the calls.                                     *)

Op == {"none", "assign", "revoke", "update", "delete", "link", "unlink", "sync", "resolve"}

Pc == {"none", "grant", "still", "bits", "delete", "link", "grants", "list", "read",
       "write", "bots", "next", "bot", "guild", "set", "inv"}

CallType == [op : Op, pc : Pc, role : Role \cup {None}, users : SUBSET User,
             left : SUBSET (User \cup Role), row : SUBSET (User \cup Bit \cup {ServerOwner}),
             inv : SUBSET User, key : User \cup Key \cup {"has", "lost", None}]

(* What the parts of a call are, by what it does.                          *)
Well(x) ==
    /\ x.op = "none" => x = Idle
    /\ x.op = "assign" => x.pc \in {"grant", "inv"}
    /\ x.op = "revoke" => x.pc \in {"grant", "still", "inv"} /\ (x.pc = "still" => x.key \in x.left)
    /\ x.op \in {"assign", "revoke"} =>
         x.role \in Role /\ x.left \subseteq x.users /\ x.row \subseteq User /\ x.users # {}
    /\ x.op = "update" => /\ x.pc = "bits" /\ x.role \in Role /\ x.row \subseteq Bit
                          /\ x.role \in ServerRole => OwnerBit \notin x.row
    /\ x.op = "delete" => x.pc \in {"delete", "inv"} /\ x.role \in Role
    /\ x.op = "link" => x.pc = "link" /\ x.role \in Role
    /\ x.op = "unlink" => /\ x.pc \in {"grants", "list", "read", "write", "inv"}
                          /\ x.role \in Role /\ x.left \subseteq User /\ x.row \subseteq User
    /\ x.op = "sync" =>
         /\ x.pc \in {"bots", "next", "read", "still", "write", "inv"}
         /\ x.role = None <=> x.pc \in {"bots", "next"}
         /\ x.left \subseteq Role \ {x.role} /\ x.row \subseteq User
         /\ x.pc = "bots" => x.left \subseteq ServerRole
         /\ x.key \in {"has", "lost"} /\ (x.pc = "still" => x.key = "lost")
         /\ \E u \in User : x.users = {u}
    /\ x.op = "resolve" => /\ x.pc \in {"bot", "guild", "set"} /\ x.key \in Key
                           /\ x.row \subseteq Bit \cup {ServerOwner}
    /\ x.inv # {} => x.pc = "inv"
    /\ x.pc = "inv" => x.inv \subseteq x.users

Calls == call \in [Caller -> CallType] /\ \A c \in Caller : Well(call[c])

Inv == TypeOK /\ Calls /\ Alone /\ Tables /\ StaleHasReason

-----------------------------------------------------------------------------
(* Reading the tables.                                                     *)

(* What is said of a role depends on its row, its grants and its link.     *)
Framed(d, d2, r) ==
    /\ d2.assigned[r] = d.assigned[r]
    /\ \A u \in User : Grants(d2, u, r) = Grants(d, u, r)
    /\ r \in d.links => r \in d2.links

LEMMA FrameGranted ==
    ASSUME NEW d, NEW d2, NEW r, Framed(d, d2, r)
    PROVE  Granted(d2, r) = Granted(d, r)
BY DEF Framed, Granted

LEMMA FrameEarned ==
    ASSUME NEW d, NEW d2, NEW m, NEW r, Framed(d, d2, r), Earned(d, m, r)
    PROVE  Earned(d2, m, r)
BY DEF Framed, Earned

LEMMA FrameAgreed ==
    ASSUME NEW d, NEW d2, NEW m, NEW r, Framed(d, d2, r), Agreed(d, m, r)
    PROVE  Agreed(d2, m, r)
BY FrameGranted, FrameEarned DEF Agreed, Framed

LEMMA FrameUnder ==
    ASSUME NEW d, NEW d2, NEW m, NEW x, NEW r, Framed(d, d2, r), Under(d, m, x, r)
    PROVE  Under(d2, m, x, r)
<1>1. Granted(d2, r) = Granted(d, r) /\ d2.assigned[r] = d.assigned[r]
  BY FrameGranted DEF Framed
<1>2. Earned(d, m, r) => Earned(d2, m, r)
  BY FrameEarned
<1>3. Agreed(d, m, r) => Agreed(d2, m, r)
  BY FrameAgreed
<1>4. Assigning(d, m, x, r) => Assigning(d2, m, x, r)
  BY <1>1, <1>2 DEF Assigning, OnlyChanges
<1>5. Unlinking(d, x, r) => Unlinking(d2, x, r)
  BY <1>1 DEF Unlinking, Framed
<1>6. Awaited(d, m, x, r) => Awaited(d2, m, x, r)
  BY <1>1 DEF Awaited, Framed
<1>7. Syncing(d, m, x, r) => Syncing(d2, m, x, r)
  BY <1>1, <1>2 DEF Syncing
<1> QED
  BY <1>1, <1>3, <1>4, <1>5, <1>6, <1>7 DEF Under

(* A role without Discord grants is Earned, whoever is a member.           *)
LEMMA UnearnedRoles ==
    ASSUME NEW d, NEW m, NEW m2, NEW r, r \notin d.links, Earned(d, m, r)
    PROVE  Earned(d, m2, r)
BY DEF Earned

-----------------------------------------------------------------------------
(* One call goes on.                                                       *)

(* What holds of a role after a step of a call holds of all of them.       *)
LEMMA OneStep ==
    ASSUME Alone, Tables, NEW c \in Caller, NEW rec,
           DOMAIN call = Caller, call' = [call EXCEPT ![c] = rec],
           torn \subseteq torn', Overlapped(call') \subseteq torn',
           Busy(rec) \subseteq Role, Busy(call[c]) \subseteq Role,
           db.live \subseteq Role, db'.live \subseteq db.live,
           \A r \in Role \ (Busy(call[c]) \cup Busy(rec)) :
             /\ Agreed(db, member, r) => Agreed(db', member', r)
             /\ \A e \in Caller : r \in Busy(call[e]) /\ Under(db, member, call[e], r)
                                     => Under(db', member', call[e], r),
           \A r \in (db'.live \ torn') \cap (Busy(call[c]) \cup Busy(rec)) :
             (IF r \in Busy(call[c]) THEN Under(db, member, call[c], r)
                                     ELSE Agreed(db, member, r))
             => (IF r \in Busy(rec) THEN Under(db', member', rec, r)
                                    ELSE Agreed(db', member', r))
    PROVE  Alone' /\ Tables'
<1>1. \A e \in Caller : call'[e] = IF e = c THEN rec ELSE call[e]
  OBVIOUS
<1>2. Alone'
  <2> SUFFICES ASSUME NEW r \in Role, r \notin torn', NEW a \in Caller, NEW b \in Caller,
                      r \in Busy(call'[a]), r \in Busy(call'[b])
               PROVE  a = b
    BY DEF Alone
  <2> QED
    BY DEF Overlapped
<1>3. ASSUME NEW r \in db'.live, r \notin torn'
      PROVE  /\ (\A e \in Caller : r \notin Busy(call'[e])) => Agreed(db', member', r)
             /\ \A e \in Caller : r \in Busy(call'[e]) => Under(db', member', call'[e], r)
  <2>1. r \in db.live \ torn /\ r \in Role
    BY <1>3
  <2>2. CASE r \in Busy(call[c]) \cup Busy(rec)
    <3>1. \A e \in Caller \ {c} : r \notin Busy(call[e])
      <4> SUFFICES ASSUME NEW e \in Caller \ {c}, r \in Busy(call[e]) PROVE FALSE
        OBVIOUS
      <4>1. r \notin Busy(call[c])
        BY <2>1 DEF Alone
      <4>2. r \in Busy(call'[c]) /\ r \in Busy(call'[e])
        BY <1>1, <2>2, <4>1
      <4>3. r \in Overlapped(call')
        BY <2>1, <4>2 DEF Overlapped
      <4> QED
        BY <1>3, <4>3
    <3>2. IF r \in Busy(call[c]) THEN Under(db, member, call[c], r) ELSE Agreed(db, member, r)
      BY <2>1, <3>1 DEF Tables
    <3>3. IF r \in Busy(rec) THEN Under(db', member', rec, r) ELSE Agreed(db', member', r)
      BY <1>3, <2>2, <3>2
    <3> QED
      BY <1>1, <3>1, <3>3
  <2>3. CASE r \notin Busy(call[c]) \cup Busy(rec)
    <3>1. /\ (\A e \in Caller : r \notin Busy(call[e])) => Agreed(db, member, r)
          /\ \A e \in Caller : r \in Busy(call[e]) => Under(db, member, call[e], r)
      BY <2>1 DEF Tables
    <3>2. \A e \in Caller : r \in Busy(call'[e]) => call'[e] = call[e]
      BY <1>1, <2>3
    <3>3. \A e \in Caller : r \in Busy(call[e]) => call'[e] = call[e]
      BY <1>1, <2>3
    <3> QED
      BY <2>1, <2>3, <3>1, <3>2, <3>3
  <2> QED
    BY <2>2, <2>3
<1>4. Tables'
  BY <1>3 DEF Tables
<1> QED
  BY <1>2, <1>4

-----------------------------------------------------------------------------
(* The shape of calls.                                                     *)

LEMMA NoneIsNoRole == None \notin Role /\ Role = BotRole \cup ServerRole /\ BotRole \cap ServerRole = {}
BY PermissionsAssumption DEF Role

LEMMA IdleIsWell ==
    /\ Idle \in CallType /\ Well(Idle) /\ Busy(Idle) = {} /\ Idle.inv = {}
    /\ Idle.op = "none"
BY DEF Idle, CallType, Well, Busy, Op, Pc, Roleless

LEMMA BusyShape ==
    ASSUME NEW x \in CallType, Well(x)
    PROVE  /\ x.op \in Roleless => Busy(x) = {}
           /\ x.op \in {"assign", "revoke", "delete", "unlink"} => Busy(x) = {x.role} /\ x.role \in Role
           /\ x.op = "sync" /\ x.pc = "bots" => Busy(x) = x.left \cup BotRole /\ x.role = None
           /\ x.op = "sync" /\ x.pc = "next" => Busy(x) = x.left /\ x.role = None
           /\ x.op = "sync" /\ x.pc \notin {"bots", "next"} =>
                Busy(x) = x.left \cup {x.role} /\ x.role \in Role /\ x.role \notin x.left
           /\ Busy(x) \subseteq Role
<1>1. x.op \in Op /\ x.role \in Role \cup {None}
  BY DEF CallType, Pc
<1>2. CASE x.op \in Roleless
  BY <1>2 DEF Busy, Roleless
<1>3. CASE x.op \in {"assign", "revoke", "delete", "unlink"}
  BY <1>3 DEF Busy, Roleless, Well
<1>4. CASE x.op = "sync"
  <2>1. x.role = None <=> x.pc \in {"bots", "next"}
    BY <1>4 DEF Well
  <2>2. x.left \subseteq Role \ {x.role}
    BY <1>4 DEF Well
  <2>3. Busy(x) = x.left \cup ({x.role} \cap Role) \cup (IF x.pc = "bots" THEN BotRole ELSE {})
    BY <1>4 DEF Busy, Roleless
  <2> QED
    BY <1>1, <1>4, <2>1, <2>2, <2>3, NoneIsNoRole DEF Roleless
<1> QED
  BY <1>1, <1>2, <1>3, <1>4 DEF Op, Roleless

(* A call that may be done with its role, or next invalidates.             *)
Ending(x) ==
    /\ x \in CallType /\ x.op \in {"assign", "revoke", "delete", "unlink", "sync"}
    /\ x.op \in {"assign", "revoke"} => x.left \subseteq x.users /\ x.users # {}
    /\ x.op \in {"assign", "revoke", "unlink"} => x.row \subseteq User
    /\ x.op = "unlink" => x.left \subseteq User
    /\ x.op # "sync" => x.role \in Role
    /\ x.op = "sync" => /\ x.left \subseteq Role \ {x.role} /\ x.row \subseteq User
                        /\ x.key \in {"has", "lost"} /\ \E u \in User : x.users = {u}

LEMMA DoneIsWell ==
    ASSUME NEW x, Ending(x)
    PROVE  /\ Done(x) \in CallType /\ Well(Done(x)) /\ Done(x).inv = {}
           /\ Busy(Done(x)) = IF x.op = "sync" THEN x.left ELSE {}
           /\ x.op = "sync" /\ x.left # {} =>
                /\ Done(x).op = "sync" /\ Done(x).pc = "next" /\ Done(x).role = None
                /\ Done(x).left = x.left /\ Done(x).users = x.users /\ Done(x).key = x.key
<1>1. CASE x.op = "sync" /\ x.left # {}
  <2> DEFINE y == [x EXCEPT !.pc = "next", !.role = None, !.inv = {}]
  <2>1. Done(x) = y
    BY <1>1 DEF Done
  <2>2. /\ y \in CallType /\ y.op = "sync" /\ y.pc = "next" /\ y.role = None /\ y.inv = {}
        /\ y.left = x.left /\ y.users = x.users /\ y.key = x.key /\ y.row = x.row
    <3>1. x \in CallType /\ x.op = "sync"
      BY <1>1 DEF Ending
    <3>2. x.left # {}
      BY <1>1
    <3> QED
      BY <3>1 DEF CallType, Pc
  <2> HIDE DEF y
  <2>3. y.left \subseteq Role /\ y.row \subseteq User /\ y.key \in {"has", "lost"}
    BY <1>1, <2>2 DEF Ending
  <2>4. \E u \in User : y.users = {u}
    BY <1>1, <2>2 DEF Ending
  <2>5. Well(y)
    BY <2>2, <2>3, <2>4, NoneIsNoRole DEF Well
  <2>6. Busy(y) = y.left
    BY <2>2, <2>5, BusyShape
  <2> QED
    BY <1>1, <2>1, <2>2, <2>5, <2>6
<1>2. CASE ~(x.op = "sync" /\ x.left # {})
  <2>1. Done(x) = Idle
    BY <1>2 DEF Done
  <2> QED
    BY <1>2, <2>1, IdleIsWell
<1> QED
  BY <1>1, <1>2

LEMMA InvalidatingIsWell ==
    ASSUME NEW x, Ending(x), NEW us \in SUBSET User, us # {}, us \subseteq x.users,
           x.op = "sync" => x.role \in Role /\ x.pc # "bots"
    PROVE  LET y == Invalidating(x, us)
           IN  /\ y \in CallType /\ Well(y) /\ y.inv = us /\ y.pc = "inv" /\ Busy(y) = Busy(x)
               /\ y.op = x.op /\ y.role = x.role /\ y.left = x.left /\ y.users = x.users
               /\ y.key = x.key
<1> DEFINE y == [x EXCEPT !.pc = "inv", !.inv = us]
<1>1. Invalidating(x, us) = y
  BY DEF Invalidating
<1>2. /\ y \in CallType /\ y.op = x.op /\ y.role = x.role /\ y.left = x.left /\ y.users = x.users
      /\ y.key = x.key /\ y.row = x.row /\ y.pc = "inv" /\ y.inv = us
  <2>1. x \in CallType
    BY DEF Ending
  <2> QED
    BY <2>1 DEF CallType, Pc
<1> HIDE DEF y
<1>3. Well(y)
  <2>1. CASE x.op \in {"assign", "revoke"}
    BY <1>2, <2>1 DEF Ending, Well
  <2>2. CASE x.op \in {"delete", "unlink"}
    BY <1>2, <2>2 DEF Ending, Well
  <2>3. CASE x.op = "sync"
    <3>1. y.role # None
      BY <1>2, <2>3, NoneIsNoRole
    <3>2. \E u \in User : y.users = {u}
      BY <1>2, <2>3 DEF Ending
    <3> QED
      BY <1>2, <2>3, <3>1, <3>2 DEF Ending, Well
  <2> QED
    BY <2>1, <2>2, <2>3 DEF Ending
<1>4. Busy(y) = IF x.op = "sync" THEN x.left \cup {x.role} ELSE {x.role}
  BY <1>2, <1>3, BusyShape, NoneIsNoRole DEF Ending
<1>5. Busy(x) = IF x.op = "sync" THEN x.left \cup {x.role} ELSE {x.role}
  BY DEF Ending, Busy, Roleless
<1> QED
  BY <1>1, <1>2, <1>3, <1>4, <1>5

-----------------------------------------------------------------------------
(* How calls end, and what they leave.                                     *)

LEMMA StillAwaited ==
    ASSUME NEW d, NEW m, NEW x, NEW y, NEW r, Awaited(d, m, x, r),
           y.users = x.users, y.key = x.key, r \in y.left => r \in d.links
    PROVE  Awaited(d, m, y, r)
BY DEF Awaited

(* A role that a call is done with is Agreed on, one that waits still does. *)
LEMMA Finishing ==
    ASSUME NEW d, NEW m, NEW x, Ending(x), NEW us \in SUBSET User, us \subseteq x.users,
           x.op = "sync" => x.role \in Role /\ x.pc # "bots"
    PROVE  LET y == Invalidating(x, us)
           IN  /\ y \in CallType /\ Well(y) /\ y.inv = us /\ Busy(y) \subseteq Busy(x)
               /\ \A r \in Busy(x) :
                    (IF r = x.role THEN Agreed(d, m, r) ELSE Awaited(d, m, x, r))
                    => (IF r \in Busy(y) THEN Under(d, m, y, r) ELSE Agreed(d, m, r))
<1>1. Busy(x) = IF x.op = "sync" THEN x.left \cup {x.role} ELSE {x.role}
  BY DEF Ending, Busy, Roleless
<1>2. x.op = "sync" => x.left \subseteq Role \ {x.role}
  BY DEF Ending
<1>3. CASE us = {}
  <2> DEFINE y == Done(x)
  <2>1. Invalidating(x, us) = y
    BY <1>3 DEF Invalidating
  <2>2. /\ y \in CallType /\ Well(y) /\ y.inv = us
        /\ Busy(y) = IF x.op = "sync" THEN x.left ELSE {}
        /\ x.op = "sync" /\ x.left # {} =>
             /\ y.op = "sync" /\ y.pc = "next" /\ y.role = None
             /\ y.left = x.left /\ y.users = x.users /\ y.key = x.key
    BY <1>3, DoneIsWell
  <2> HIDE DEF y
  <2>3. ASSUME NEW r \in Busy(x), IF r = x.role THEN Agreed(d, m, r) ELSE Awaited(d, m, x, r)
        PROVE  IF r \in Busy(y) THEN Under(d, m, y, r) ELSE Agreed(d, m, r)
    <3>1. CASE r \in Busy(y)
      <4>1. x.op = "sync" /\ r \in x.left /\ r # x.role /\ r \in Role
        BY <1>2, <2>2, <3>1
      <4>2. Awaited(d, m, x, r) /\ r \in d.links
        BY <2>3, <4>1 DEF Awaited
      <4>3. Awaited(d, m, y, r)
        BY <2>2, <4>1, <4>2, StillAwaited
      <4>4. y.op = "sync" /\ y.role # r
        BY <2>2, <4>1, NoneIsNoRole
      <4> QED
        BY <3>1, <4>3, <4>4 DEF Under
    <3>2. CASE r \notin Busy(y)
      <4>1. r = x.role
        BY <1>1, <2>2, <2>3, <3>2
      <4> QED
        BY <2>3, <3>2, <4>1
    <3> QED
      BY <3>1, <3>2
  <2> QED
    BY <1>1, <2>1, <2>2, <2>3
<1>4. CASE us # {}
  <2> DEFINE y == Invalidating(x, us)
  <2>1. /\ y \in CallType /\ Well(y) /\ y.inv = us /\ y.pc = "inv" /\ Busy(y) = Busy(x)
        /\ y.op = x.op /\ y.role = x.role /\ y.left = x.left /\ y.users = x.users
        /\ y.key = x.key
    BY <1>4, InvalidatingIsWell
  <2>3. Invalidating(x, us) = y
    OBVIOUS
  <2> HIDE DEF y
  <2>2. ASSUME NEW r \in Busy(x), IF r = x.role THEN Agreed(d, m, r) ELSE Awaited(d, m, x, r)
        PROVE  Under(d, m, y, r)
    <3>1. CASE r = x.role
      <4>1. Agreed(d, m, r)
        BY <2>2, <3>1
      <4>2. Unlinking(d, y, r)
        BY <2>1 DEF Unlinking
      <4>3. y.op = "sync" => r \notin y.left
        BY <1>2, <2>1, <3>1
      <4> QED
        BY <2>1, <4>1, <4>2, <4>3 DEF Under
    <3>2. CASE r # x.role
      <4>1. x.op = "sync" /\ r \in x.left
        BY <1>1, <3>2
      <4>2. Awaited(d, m, x, r) /\ r \in d.links
        BY <2>2, <3>2, <4>1 DEF Awaited
      <4>3. Awaited(d, m, y, r)
        BY <2>1, <4>2, StillAwaited
      <4> QED
        BY <2>1, <3>2, <4>1, <4>3 DEF Under
    <3> QED
      BY <3>1, <3>2
  <2> QED
    BY <2>1, <2>2, <2>3
<1> QED
  BY <1>3, <1>4

(* A step of a call that leaves the roles it is not about as they are.     *)
LEMMA LocalStep ==
    ASSUME Alone, Tables, Calls, TypeOK, NEW c \in Caller, NEW rec \in CallType, Well(rec),
           GoesOn(c, rec), member' = member, db'.live \subseteq db.live,
           \A r \in Role \ (Busy(call[c]) \cup Busy(rec)) : Framed(db, db', r),
           \A r \in (db'.live \ torn') \cap (Busy(call[c]) \cup Busy(rec)) :
             (IF r \in Busy(call[c]) THEN Under(db, member, call[c], r)
                                     ELSE Agreed(db, member, r))
             => (IF r \in Busy(rec) THEN Under(db', member, rec, r)
                                    ELSE Agreed(db', member, r))
    PROVE  Calls' /\ Alone' /\ Tables' /\ torn' \subseteq Role
<1>1. DOMAIN call = Caller /\ call \in [Caller -> CallType]
  BY DEF Calls
<1>2. call' = [call EXCEPT ![c] = rec] /\ torn' = torn \cup Overlapped(call')
  BY DEF GoesOn
<1>3. Busy(rec) \subseteq Role /\ Busy(call[c]) \subseteq Role
  BY <1>1, BusyShape DEF Calls
<1>4. db.live \subseteq Role /\ torn \subseteq Role
  BY DEF TypeOK
<1>5. Overlapped(call') \subseteq Role
  BY DEF Overlapped
<1>6. \A r \in Role \ (Busy(call[c]) \cup Busy(rec)) :
        /\ Agreed(db, member, r) => Agreed(db', member', r)
        /\ \A e \in Caller : r \in Busy(call[e]) /\ Under(db, member, call[e], r)
                               => Under(db', member', call[e], r)
  BY FrameAgreed, FrameUnder
<1>7. Alone' /\ Tables'
  BY <1>1, <1>2, <1>3, <1>4, <1>6, OneStep
<1>8. Calls'
  BY <1>1, <1>2 DEF Calls
<1> QED
  BY <1>2, <1>4, <1>5, <1>7, <1>8

(* The same, of a step that leaves the tables alone.                       *)
LEMMA QuietStep ==
    ASSUME Alone, Tables, Calls, TypeOK, NEW c \in Caller, NEW rec \in CallType, Well(rec),
           GoesOn(c, rec), UNCHANGED <<db, member>>,
           \A r \in (db.live \ torn') \cap (Busy(call[c]) \cup Busy(rec)) :
             (IF r \in Busy(call[c]) THEN Under(db, member, call[c], r)
                                     ELSE Agreed(db, member, r))
             => (IF r \in Busy(rec) THEN Under(db, member, rec, r)
                                    ELSE Agreed(db, member, r))
    PROVE  Calls' /\ Alone' /\ Tables' /\ torn' \subseteq Role
<1>1. \A r \in Role \ (Busy(call[c]) \cup Busy(rec)) : Framed(db, db', r)
  BY DEF Framed
<1>2. db' = db /\ member' = member
  OBVIOUS
<1>3. \A r \in (db'.live \ torn') \cap (Busy(call[c]) \cup Busy(rec)) :
        (IF r \in Busy(call[c]) THEN Under(db, member, call[c], r)
                                ELSE Agreed(db, member, r))
        => (IF r \in Busy(rec) THEN Under(db', member, rec, r)
                               ELSE Agreed(db', member, r))
  BY <1>2
<1>4. db'.live \subseteq db.live
  BY <1>2
<1> QED
  BY <1>1, <1>2, <1>3, <1>4, LocalStep

-----------------------------------------------------------------------------
(* What is cached.                                                         *)

Scope(k) == IF k[2] = "bot" THEN BotRole ELSE Role

LEMMA Relevant ==
    ASSUME NEW d, NEW d2, NEW k \in Key, d2.bits = d.bits,
           \A r \in Scope(k) :
             (r \in d2.live /\ k[1] \in d2.assigned[r]) <=> (r \in d.live /\ k[1] \in d.assigned[r])
    PROVE  Resolved(d2, k) = Resolved(d, k)
<1>1. {r \in Scope(k) \cap d2.live : k[1] \in d2.assigned[r]}
        = {r \in Scope(k) \cap d.live : k[1] \in d.assigned[r]}
  OBVIOUS
<1>2. {d2.bits[r] : r \in {x \in Scope(k) \cap d2.live : k[1] \in d2.assigned[x]}}
        = {d.bits[r] : r \in {x \in Scope(k) \cap d.live : k[1] \in d.assigned[x]}}
  BY <1>1
<1>3. BitsIn(d2, k[1], Scope(k)) = BitsIn(d, k[1], Scope(k))
  BY <1>2 DEF BitsIn
<1> QED
  BY <1>3 DEF Resolved, Scope

LEMMA SameResolved ==
    ASSUME NEW d, NEW d2, d2.live = d.live, d2.bits = d.bits, d2.assigned = d.assigned
    PROVE  \A k \in Key : Resolved(d2, k) = Resolved(d, k)
BY Relevant

(* The reasons a cached answer may have to differ from the tables.         *)
Excused(k, a, cs, t) ==
    k \in a \/ (\E c \in Caller : k[1] \in cs[c].inv) \/ t \cap Scope(k) # {}

LEMMA StaleIs ==
    /\ StaleHasReason <=> \A k \in Key : Stale(k) => Excused(k, aged, call, torn)
    /\ StaleHasReason' <=>
         \A k \in Key : cache'[k] # None /\ cache'[k] \ {ServerOwner} # Resolved(db', k)
                          => Excused(k, aged', call', torn')
BY DEF StaleHasReason, Stale, Excused, Scope

(* After a step of a call, what was excused or true is so still.           *)
LEMMA StaleStep ==
    ASSUME StaleHasReason, Calls, NEW c \in Caller, NEW rec, GoesOn(c, rec),
           \A k \in Key :
             \/ cache'[k] = None
             \/ cache'[k] \ {ServerOwner} = Resolved(db', k)
             \/ k \in aged' \/ k[1] \in rec.inv \/ torn' \cap Scope(k) # {}
             \/ /\ cache'[k] = cache[k] /\ Resolved(db', k) = Resolved(db, k)
                /\ k \in aged => k \in aged'
                /\ k[1] \in call[c].inv => k[1] \in rec.inv
    PROVE  StaleHasReason'
<1>1. call' = [call EXCEPT ![c] = rec] /\ torn \subseteq torn' /\ DOMAIN call = Caller
  BY DEF GoesOn, Calls
<1>2. \A e \in Caller : call'[e] = IF e = c THEN rec ELSE call[e]
  BY <1>1
<1>3. SUFFICES ASSUME NEW k \in Key, cache'[k] # None,
                      cache'[k] \ {ServerOwner} # Resolved(db', k)
               PROVE  Excused(k, aged', call', torn')
  BY StaleIs
<1>4. CASE k \in aged' \/ k[1] \in rec.inv \/ torn' \cap Scope(k) # {}
  BY <1>2, <1>4 DEF Excused
<1>5. CASE /\ cache'[k] = cache[k] /\ Resolved(db', k) = Resolved(db, k)
           /\ k \in aged => k \in aged'
           /\ k[1] \in call[c].inv => k[1] \in rec.inv
  <2>1. Excused(k, aged, call, torn)
    BY <1>3, <1>5, StaleIs DEF Stale
  <2>2. CASE k \in aged \/ torn \cap Scope(k) # {}
    BY <1>1, <1>5, <2>2 DEF Excused
  <2>3. CASE \E e \in Caller : k[1] \in call[e].inv
    <3>1. PICK e \in Caller : k[1] \in call[e].inv
      BY <2>3
    <3>2. k[1] \in call'[e].inv
      BY <1>2, <1>5, <3>1
    <3> QED
      BY <3>2 DEF Excused
  <2> QED
    BY <2>1, <2>2, <2>3 DEF Excused
<1> QED
  BY <1>3, <1>4, <1>5

(* A step that keeps the cache and what it answers from.                   *)
LEMMA StaleQuiet ==
    ASSUME StaleHasReason, Calls, NEW c \in Caller, NEW rec, GoesOn(c, rec),
           UNCHANGED <<cache, aged>>, call[c].pc # "inv",
           db'.live = db.live, db'.bits = db.bits, db'.assigned = db.assigned
    PROVE  StaleHasReason'
<1>1. call[c].inv = {}
  BY DEF Calls, Well
<1>2. \A k \in Key : Resolved(db', k) = Resolved(db, k)
  BY SameResolved
<1> QED
  BY <1>1, <1>2, StaleStep

-----------------------------------------------------------------------------
(* What the steps of a call keep.                                          *)

Caches == cache \in [Key -> {None} \cup SUBSET (Bit \cup {ServerOwner})]

(* All of it; Inv with the domain of the cache.                            *)
IInv == Inv /\ Caches

DbType == [live: SUBSET Role, bits: [Role -> SUBSET Bit], assigned: [Role -> SUBSET User],
           grants: [User \X Role -> SUBSET Source], links: SUBSET Role]

LEMMA DbIs == TypeOK => db \in DbType /\ \A r \in ServerRole : OwnerBit \notin db.bits[r]
BY DEF TypeOK, DbType

LEMMA DbShape ==
    ASSUME TypeOK
    PROVE  /\ db.live \subseteq Role /\ db.links \subseteq Role
           /\ db.bits \in [Role -> SUBSET Bit] /\ db.assigned \in [Role -> SUBSET User]
           /\ db.grants \in [User \X Role -> SUBSET Source]
BY DEF TypeOK

LEMMA TypeKept ==
    ASSUME TypeOK, Caches', torn' \subseteq Role, aged' \subseteq Key, member' \subseteq User,
           db' \in DbType,
           \A r \in ServerRole : OwnerBit \notin db'.bits[r]
    PROVE  TypeOK'
BY DEF TypeOK, Caches, DbType

(* A step that leaves tables and cache alone, and every role it has to do
   with as it should be.                                                   *)
LEMMA CallOnly ==
    ASSUME IInv, NEW c \in Caller, NEW rec \in CallType, Well(rec), GoesOn(c, rec),
           UNCHANGED <<db, member, cache, aged>>, call[c].pc # "inv",
           \A r \in (db.live \ torn') \cap (Busy(call[c]) \cup Busy(rec)) :
             (IF r \in Busy(call[c]) THEN Under(db, member, call[c], r)
                                     ELSE Agreed(db, member, r))
             => (IF r \in Busy(rec) THEN Under(db, member, rec, r)
                                    ELSE Agreed(db, member, r))
    PROVE  IInv'
<1>1. Calls' /\ Alone' /\ Tables' /\ torn' \subseteq Role
  BY QuietStep DEF IInv, Inv
<1>2. StaleHasReason'
  BY StaleQuiet DEF IInv, Inv
<1>3. Caches'
  BY DEF IInv, Caches
<1>4. TypeOK'
  BY <1>1, <1>3, TypeKept DEF IInv, Inv, TypeOK
<1> QED
  BY <1>1, <1>2, <1>3, <1>4 DEF IInv, Inv

(* The grants of one user in one role change.                              *)
LEMMA Setting ==
    ASSUME TypeOK, NEW u \in User, NEW r \in Role, NEW s \in SUBSET Source, SetGrants(u, r, s)
    PROVE  /\ db'.live = db.live /\ db'.bits = db.bits /\ db'.assigned = db.assigned
           /\ db'.links = db.links
           /\ \A v \in User, q \in Role :
                Grants(db', v, q) = IF v = u /\ q = r THEN s ELSE Grants(db, v, q)
           /\ db' \in DbType
<1> DEFINE g == [db.grants EXCEPT ![<<u, r>>] = s]
<1>1. db' = [db EXCEPT !.grants = g]
  BY DEF SetGrants
<1>2. /\ g \in [User \X Role -> SUBSET Source]
      /\ \A v \in User, q \in Role : g[<<v, q>>] = IF v = u /\ q = r THEN s ELSE Grants(db, v, q)
  BY DbShape DEF Grants
<1> HIDE DEF g
<1>3. /\ db'.live = db.live /\ db'.bits = db.bits /\ db'.assigned = db.assigned
      /\ db'.links = db.links /\ db'.grants = g
  BY <1>1, DbShape
<1>4. db' \in DbType
  BY <1>1, <1>2, DbIs DEF DbType
<1>5. \A v \in User, q \in Role : Grants(db', v, q) = g[<<v, q>>]
  BY <1>3 DEF Grants
<1> QED
  BY <1>2, <1>3, <1>4, <1>5

(* A step that changes a grant of the role it is about.                    *)
LEMMA GrantStep ==
    ASSUME IInv, NEW c \in Caller, NEW rec \in CallType, Well(rec), GoesOn(c, rec),
           UNCHANGED <<member, cache, aged>>, call[c].pc # "inv",
           NEW u \in User, NEW q \in Busy(call[c]), NEW s \in SUBSET Source, SetGrants(u, q, s),
           \A r \in (db.live \ torn') \cap (Busy(call[c]) \cup Busy(rec)) :
             (IF r \in Busy(call[c]) THEN Under(db, member, call[c], r)
                                     ELSE Agreed(db, member, r))
             => (IF r \in Busy(rec) THEN Under(db', member, rec, r)
                                    ELSE Agreed(db', member, r))
    PROVE  IInv'
<1>1. q \in Role
  BY BusyShape DEF IInv, Inv, Calls
<1>2. /\ db'.live = db.live /\ db'.bits = db.bits /\ db'.assigned = db.assigned
      /\ db'.links = db.links
      /\ \A v \in User, r \in Role :
           Grants(db', v, r) = IF v = u /\ r = q THEN s ELSE Grants(db, v, r)
      /\ db' \in DbType
  BY <1>1, Setting DEF IInv, Inv
<1>3. \A r \in Role \ (Busy(call[c]) \cup Busy(rec)) : Framed(db, db', r)
  BY <1>2 DEF Framed
<1>4. Calls' /\ Alone' /\ Tables' /\ torn' \subseteq Role
  BY <1>2, <1>3, LocalStep DEF IInv, Inv
<1>5. StaleHasReason'
  BY <1>2, StaleQuiet DEF IInv, Inv
<1>6. Caches'
  BY DEF IInv, Caches
<1>7. TypeOK'
  BY <1>2, <1>4, <1>6, TypeKept DEF IInv, Inv, TypeOK
<1> QED
  BY <1>4, <1>5, <1>6, <1>7 DEF IInv, Inv

-----------------------------------------------------------------------------
(* Assigning and revoking.                                                 *)

LEMMA IdleCall ==
    ASSUME Calls, NEW c \in Caller, call[c].op = "none"
    PROVE  call[c] = Idle /\ Busy(call[c]) = {} /\ call[c].pc = "none"
<1>1. call[c] = Idle
  BY DEF Calls, Well
<1> QED
  BY <1>1, IdleIsWell DEF Idle

(* A call begins with roles that are Agreed on.                            *)
LEMMA Beginning ==
    ASSUME IInv, NEW c \in Caller, NEW rec \in CallType, Well(rec), Begins(c, rec),
           UNCHANGED <<db, member, cache, aged>>,
           \A r \in db.live \cap Busy(rec) : Agreed(db, member, r) => Under(db, member, rec, r)
    PROVE  IInv'
<1>1. GoesOn(c, rec) /\ Busy(call[c]) = {} /\ call[c].pc = "none"
  BY IdleCall DEF Begins, IInv, Inv
<1> QED
  BY <1>1, CallOnly

LEMMA BeginAssignKeeps ==
    ASSUME IInv, NEW c \in Caller, BeginAssign(c)
    PROVE  IInv'
<1>1. PICK r \in db.live, us \in (SUBSET User) \ {{}}, op \in {"assign", "revoke"} :
        Begins(c, [Idle EXCEPT !.op = op, !.pc = "grant", !.role = r, !.users = us,
                               !.left = us, !.row = db.assigned[r]])
  BY DEF BeginAssign
<1> DEFINE y == [Idle EXCEPT !.op = op, !.pc = "grant", !.role = r, !.users = us,
                             !.left = us, !.row = db.assigned[r]]
<1>2. r \in Role /\ db.assigned[r] \in SUBSET User
  BY DbShape DEF IInv, Inv
<1>3. /\ y.op = op /\ y.pc = "grant" /\ y.role = r /\ y.users = us /\ y.left = us
      /\ y.row = db.assigned[r] /\ y.inv = {} /\ y.key = None
  BY DEF Idle
<1>4. y \in CallType
  BY <1>2 DEF Idle, CallType, Op, Pc
<1>5. UNCHANGED <<db, member, cache, aged>>
  BY DEF BeginAssign
<1>6. Begins(c, y)
  BY <1>1
<1> HIDE DEF y
<1>7. Well(y)
  BY <1>2, <1>3 DEF Well
<1>8. Busy(y) = {r}
  BY <1>3, <1>4, <1>7, BusyShape
<1>9. ASSUME Agreed(db, member, r) PROVE Under(db, member, y, r)
  <2>1. Assigning(db, member, y, r)
    BY <1>3, <1>9 DEF Agreed, Assigning, OnlyChanges
  <2> QED
    BY <1>3, <2>1 DEF Under
<1> QED
  BY <1>4, <1>5, <1>6, <1>7, <1>8, <1>9, Beginning

LEMMA AssignGrantKeeps ==
    ASSUME IInv, NEW c \in Caller, AssignGrant(c)
    PROVE  IInv'
<1> DEFINE x == call[c]
           r == x.role
<1> DEFINE s(u) == Grants(db, u, r) \cup {"direct"}
<1>1. PICK u \in x.left : /\ SetGrants(u, r, s(u))
                          /\ GoesOn(c, [x EXCEPT !.left = @ \ {u}, !.row = @ \cup {u}])
  BY DEF AssignGrant
<1>2. /\ x \in CallType /\ Well(x) /\ x.op = "assign" /\ x.pc = "grant"
      /\ UNCHANGED <<member, cache, aged>>
  BY DEF AssignGrant, At, IInv, Inv, Calls
<1>3. r \in Role /\ x.left \subseteq x.users /\ x.row \subseteq User /\ x.users \subseteq User
      /\ x.users # {} /\ x.inv = {}
  BY <1>2 DEF Well, CallType
<1> DEFINE y == [x EXCEPT !.left = x.left \ {u}, !.row = x.row \cup {u}]
<1>4. /\ y.op = "assign" /\ y.pc = "grant" /\ y.role = r /\ y.users = x.users
      /\ y.left = x.left \ {u} /\ y.row = x.row \cup {u} /\ y.inv = {} /\ y.key = x.key
  BY <1>2, <1>3 DEF CallType
<1>5. y \in CallType
  BY <1>2, <1>3 DEF CallType
<1>6. GoesOn(c, y)
  BY <1>1
<1>7. u \in User /\ s(u) \in SUBSET Source
  BY <1>3, DbShape DEF IInv, Inv, Source, Grants
<1> HIDE DEF y, s
<1>8. Well(y)
  BY <1>3, <1>4 DEF Well
<1>9. Busy(x) = {r} /\ Busy(y) = {r}
  BY <1>2, <1>4, <1>5, <1>8, BusyShape
<1>10. /\ db'.assigned = db.assigned /\ db'.links = db.links
       /\ \A v \in User, q \in Role : Grants(db', v, q) =
            IF v = u /\ q = r THEN s(u) ELSE Grants(db, v, q)
  <2> HIDE DEF x, r
  <2>1. TypeOK /\ SetGrants(u, r, s(u)) /\ r \in Role /\ u \in User /\ s(u) \in SUBSET Source
    BY <1>1, <1>3, <1>7 DEF IInv, Inv
  <2> QED
    BY ONLY <2>1, Setting
<1>12. "direct" \in s(u) /\ \A src \in Source : src # "direct" => (src \in s(u) <=> src \in Grants(db, u, r))
  BY DEF s
<1>11. ASSUME Under(db, member, x, r) PROVE Under(db', member, y, r)
  <2>1. Assigning(db, member, x, r)
    BY <1>2, <1>11 DEF Under
  <2>2. Granted(db', r) = Granted(db, r) \cup {u}
    BY <1>3, <1>7, <1>10, <1>12 DEF Granted
  <2>3. Earned(db', member, r)
    BY <1>3, <1>10, <1>12, <2>1 DEF Assigning, Earned, Source
  <2>4. Assigning(db', member, y, r)
    BY <1>2, <1>3, <1>4, <1>10, <2>1, <2>2, <2>3 DEF Assigning, OnlyChanges
  <2> QED
    BY <1>4, <2>4 DEF Under
<1> QED
  BY <1>1, <1>2, <1>5, <1>6, <1>7, <1>8, <1>9, <1>11, GrantStep

LEMMA RevokeGrantKeeps ==
    ASSUME IInv, NEW c \in Caller, RevokeGrant(c)
    PROVE  IInv'
<1> DEFINE x == call[c]
           r == x.role
<1> DEFINE s(u) == Grants(db, u, r) \ {"direct"}
<1>1. PICK u \in x.left : /\ SetGrants(u, r, s(u))
                          /\ GoesOn(c, [x EXCEPT !.pc = "still", !.key = u])
  BY DEF RevokeGrant
<1>2. /\ x \in CallType /\ Well(x) /\ x.op = "revoke" /\ x.pc = "grant"
      /\ UNCHANGED <<member, cache, aged>>
  BY DEF RevokeGrant, At, IInv, Inv, Calls
<1>3. r \in Role /\ x.left \subseteq x.users /\ x.row \subseteq User /\ x.users \subseteq User
      /\ x.users # {} /\ x.inv = {}
  BY <1>2 DEF Well, CallType
<1> DEFINE y == [x EXCEPT !.pc = "still", !.key = u]
<1>4. /\ y.op = "revoke" /\ y.pc = "still" /\ y.role = r /\ y.users = x.users
      /\ y.left = x.left /\ y.row = x.row /\ y.inv = {} /\ y.key = u
  BY <1>2, <1>3 DEF CallType
<1>5. y \in CallType
  BY <1>2, <1>3 DEF CallType, Pc
<1>6. GoesOn(c, y)
  BY <1>1
<1>7. u \in User /\ s(u) \in SUBSET Source
  BY <1>3, DbShape DEF IInv, Inv, Source, Grants
<1> HIDE DEF y, s
<1>8. Well(y)
  BY <1>3, <1>4 DEF Well
<1>9. Busy(x) = {r} /\ Busy(y) = {r}
  BY <1>2, <1>4, <1>5, <1>8, BusyShape
<1>10. /\ db'.assigned = db.assigned /\ db'.links = db.links
       /\ \A v \in User, q \in Role : Grants(db', v, q) =
            IF v = u /\ q = r THEN s(u) ELSE Grants(db, v, q)
  <2> HIDE DEF x, r
  <2>1. TypeOK /\ SetGrants(u, r, s(u)) /\ r \in Role /\ u \in User /\ s(u) \in SUBSET Source
    BY <1>1, <1>3, <1>7 DEF IInv, Inv
  <2> QED
    BY ONLY <2>1, Setting
<1>12. s(u) \subseteq Grants(db, u, r)
  BY DEF s
<1>11. ASSUME Under(db, member, x, r) PROVE Under(db', member, y, r)
  <2>1. Assigning(db, member, x, r)
    BY <1>2, <1>11 DEF Under
  <2>2. Granted(db', r) \subseteq Granted(db, r) /\ Granted(db, r) \subseteq Granted(db', r) \cup {u}
    BY <1>3, <1>7, <1>10, <1>12 DEF Granted
  <2>3. Earned(db', member, r)
    BY <1>3, <1>10, <1>12, <2>1 DEF Assigning, Earned
  <2>4. Assigning(db', member, y, r)
    BY <1>2, <1>3, <1>4, <1>10, <2>1, <2>2, <2>3 DEF Assigning, OnlyChanges
  <2> QED
    BY <1>4, <2>4 DEF Under
<1> QED
  BY <1>1, <1>2, <1>5, <1>6, <1>7, <1>8, <1>9, <1>11, GrantStep

LEMMA RevokeStillKeeps ==
    ASSUME IInv, NEW c \in Caller, RevokeStill(c)
    PROVE  IInv'
<1> DEFINE x == call[c]
           r == x.role
           u == x.key
           row == IF HasAnyGrant(db, u, r) THEN x.row ELSE x.row \ {u}
           y == [x EXCEPT !.pc = "grant", !.key = None, !.left = x.left \ {u}, !.row = row]
<1>1. GoesOn(c, y)
  BY DEF RevokeStill
<1>2. /\ x \in CallType /\ Well(x) /\ x.op = "revoke" /\ x.pc = "still"
      /\ UNCHANGED <<db, member, cache, aged>>
  BY DEF RevokeStill, At, IInv, Inv, Calls
<1>3. r \in Role /\ x.left \subseteq x.users /\ x.row \subseteq User /\ x.users \subseteq User
      /\ x.users # {} /\ x.inv = {} /\ u \in x.left
  BY <1>2 DEF Well, CallType
<1>4. row \subseteq User /\ x.row \subseteq row \cup {u} /\ row \subseteq x.row
  BY <1>3
<1>5. HasAnyGrant(db, u, r) => row = x.row
  OBVIOUS
<1>6. ~HasAnyGrant(db, u, r) => row = x.row \ {u}
  OBVIOUS
<1> HIDE DEF row
<1>7. /\ y.op = "revoke" /\ y.pc = "grant" /\ y.role = r /\ y.users = x.users
      /\ y.left = x.left \ {u} /\ y.row = row /\ y.inv = {} /\ y.key = None
  BY <1>2, <1>3 DEF CallType
<1>8. y \in CallType
  BY <1>2, <1>3, <1>4 DEF CallType, Pc
<1> HIDE DEF y
<1>9. Well(y)
  BY <1>3, <1>4, <1>7 DEF Well
<1>10. Busy(x) = {r} /\ Busy(y) = {r}
  BY <1>2, <1>7, <1>8, <1>9, BusyShape
<1>11. ASSUME Under(db, member, x, r) PROVE Under(db, member, y, r)
  <2>1. Assigning(db, member, x, r)
    BY <1>2, <1>11 DEF Under
  <2>2. HasAnyGrant(db, u, r) <=> u \in Granted(db, r)
    BY <1>3 DEF HasAnyGrant, Granted
  <2>3. Granted(db, r) \subseteq x.row /\ x.row \subseteq Granted(db, r) \cup {u}
    BY <1>2, <2>1 DEF Assigning
  <2>4. Granted(db, r) = row
    BY <1>5, <1>6, <2>2, <2>3
  <2>5. OnlyChanges(db, y, r)
    BY <1>3, <1>4, <1>7, <2>1 DEF Assigning, OnlyChanges
  <2>6. Assigning(db, member, y, r)
    BY <1>7, <2>1, <2>4, <2>5 DEF Assigning
  <2> QED
    BY <1>7, <2>6 DEF Under
<1> QED
  BY <1>1, <1>2, <1>8, <1>9, <1>10, <1>11, CallOnly

-----------------------------------------------------------------------------
(* The list is written back.                                               *)

LEMMA MayEnd ==
    ASSUME NEW x \in CallType, Well(x), x.op \in {"assign", "revoke", "delete", "unlink", "sync"}
    PROVE  /\ Ending(x)
           /\ x.op = "sync" /\ x.pc \notin {"bots", "next"} => x.role \in Role
<1>1. x.role \in Role \cup {None}
  BY DEF CallType
<1>2. CASE x.op = "sync"
  BY <1>1, <1>2 DEF Ending, Well
<1>3. CASE x.op # "sync"
  BY <1>3 DEF Ending, Well
<1> QED
  BY <1>2, <1>3

(* What is about to be written back is who has a grant.                    *)
LEMMA WritesGranted ==
    ASSUME NEW d, NEW m, NEW x \in CallType, Well(x), NEW r, r = x.role, Under(d, m, x, r),
           \/ x.op \in {"assign", "revoke"} /\ x.pc = "grant"
           \/ x.op \in {"unlink", "sync"} /\ x.pc = "write"
    PROVE  x.row = Granted(d, r) /\ Earned(d, m, r) /\ OnlyChanges(d, x, r)
<1>1. CASE x.op \in {"assign", "revoke"} /\ x.pc = "grant"
  BY <1>1 DEF Under, Assigning
<1>2. CASE x.op = "unlink" /\ x.pc = "write"
  BY <1>2 DEF Under, Unlinking, Earned, OnlyChanges
<1>3. CASE x.op = "sync" /\ x.pc = "write"
  <2>1. Syncing(d, m, x, r)
    BY <1>3 DEF Under
  <2>2. x.row = Granted(d, r) /\ Earned(d, m, r)
    BY <1>3, <2>1 DEF Syncing
  <2>3. x.key = "has" \/ x.key = "lost" => OnlyChanges(d, x, r)
    BY <2>1, <2>2 DEF Syncing, OnlyChanges
  <2>4. x.key \in {"has", "lost"}
    BY <1>3 DEF Well
  <2> QED
    BY <2>2, <2>3, <2>4
<1> QED
  BY <1>1, <1>2, <1>3

LEMMA WriteAssignedKeeps ==
    ASSUME IInv, NEW c \in Caller, WriteAssigned(c)
    PROVE  IInv'
<1> DEFINE x == call[c]
           r == x.role
           y == Invalidating(x, x.users)
<1>1. /\ x \in CallType /\ Well(x) /\ UNCHANGED <<member, cache, aged>>
      /\ \/ x.op \in {"assign", "revoke"} /\ x.pc = "grant"
         \/ x.op \in {"unlink", "sync"} /\ x.pc = "write"
  BY DEF WriteAssigned, At, IInv, Inv, Calls
<1>2. GoesOn(c, y)
  BY DEF WriteAssigned
<1>3. db' = IF r \in db.live THEN [db EXCEPT !.assigned[r] = x.row] ELSE db
  BY DEF WriteAssigned
<1>4. Ending(x) /\ r \in Role /\ x.users \in SUBSET User /\ x.inv = {} /\ x.row \subseteq User
      /\ r \in Busy(x) /\ x.pc # "bots"
  BY <1>1, MayEnd, BusyShape DEF CallType, Well
<1>5. /\ y \in CallType /\ Well(y) /\ y.inv = x.users /\ Busy(y) \subseteq Busy(x)
      /\ \A q \in Busy(x) :
           (IF q = r THEN Agreed(db', member, q) ELSE Awaited(db', member, x, q))
           => (IF q \in Busy(y) THEN Under(db', member, y, q) ELSE Agreed(db', member, q))
  BY <1>4, Finishing
<1> HIDE DEF y
<1>6. /\ db'.live = db.live /\ db'.links = db.links /\ db'.bits = db.bits
      /\ db'.grants = db.grants
      /\ db'.assigned = IF r \in db.live THEN [db.assigned EXCEPT ![r] = x.row] ELSE db.assigned
      /\ db' \in DbType
  <2> HIDE DEF x, r
  <2>1. db \in DbType
    BY DbIs DEF IInv, Inv
  <2>2. CASE r \in db.live
    <3> DEFINE a == [db.assigned EXCEPT ![r] = x.row]
    <3>1. a \in [Role -> SUBSET User]
      BY <1>4, <2>1 DEF DbType
    <3>2. db' = [db EXCEPT !.assigned = a]
      BY <1>3, <2>2
    <3> HIDE DEF a
    <3>3. /\ db'.live = db.live /\ db'.links = db.links /\ db'.bits = db.bits
          /\ db'.grants = db.grants /\ db'.assigned = a
      BY <2>1, <3>2 DEF DbType
    <3>4. db' \in DbType
      BY <2>1, <3>1, <3>2 DEF DbType
    <3> QED
      BY <2>2, <3>3, <3>4 DEF a
  <2>3. CASE r \notin db.live
    BY <1>3, <2>1, <2>3
  <2> QED
    BY <2>2, <2>3
<1>7. /\ \A q \in Role : q # r => db'.assigned[q] = db.assigned[q]
      /\ r \in db.live => db'.assigned[r] = x.row
      /\ r \notin db.live => db'.assigned[r] = db.assigned[r]
      /\ \A u, q : Grants(db', u, q) = Grants(db, u, q)
  BY <1>4, <1>6, DbShape DEF IInv, Inv, Grants
<1>8. \A q \in Role : q # r => Framed(db, db', q)
  BY <1>6, <1>7 DEF Framed
<1>9. torn \subseteq torn' /\ db.live \subseteq Role
  BY <1>2, DbShape DEF GoesOn, IInv, Inv
<1>10. ASSUME r \in db.live, r \notin torn'
       PROVE  x.row = Granted(db, r) /\ Earned(db, member, r) /\ OnlyChanges(db, x, r)
  <2>1. Under(db, member, x, r)
    BY <1>4, <1>9, <1>10 DEF IInv, Inv, Tables
  <2> QED
    BY <1>1, <2>1, WritesGranted
<1>11. ASSUME NEW q \in (db'.live \ torn') \cap Busy(x), Under(db, member, x, q)
       PROVE  IF q \in Busy(y) THEN Under(db', member, y, q) ELSE Agreed(db', member, q)
  <2>1. CASE q = r
    <3>1. Granted(db', r) = Granted(db, r) /\ (Earned(db, member, r) => Earned(db', member, r))
      BY <1>6, <1>7 DEF Granted, Earned
    <3>2. Agreed(db', member, r)
      BY <1>6, <1>7, <1>10, <1>11, <2>1, <3>1 DEF Agreed
    <3> QED
      BY <1>5, <1>11, <2>1, <3>2
  <2>2. CASE q # r
    <3>1. x.op = "sync" /\ q \in x.left /\ q \in Role
      BY <1>1, <1>6, <1>9, <1>11, <2>2, BusyShape
    <3>2. Under(db', member, x, q)
      BY <1>8, <1>11, <2>2, <3>1, FrameUnder
    <3>3. Awaited(db', member, x, q)
      BY <3>1, <3>2 DEF Under
    <3> QED
      BY <1>5, <1>11, <2>2, <3>3
  <2> QED
    BY <2>1, <2>2
<1>12. Calls' /\ Alone' /\ Tables' /\ torn' \subseteq Role
  <2>1. \A q \in Role \ (Busy(x) \cup Busy(y)) : Framed(db, db', q)
    BY <1>4, <1>8
  <2>2. db'.live \subseteq db.live /\ member' = member
    BY <1>1, <1>6
  <2>3. \A q \in (db'.live \ torn') \cap (Busy(x) \cup Busy(y)) :
          (IF q \in Busy(x) THEN Under(db, member, x, q) ELSE Agreed(db, member, q))
          => (IF q \in Busy(y) THEN Under(db', member, y, q) ELSE Agreed(db', member, q))
    BY <1>5, <1>11
  <2> QED
    BY <1>2, <1>5, <2>1, <2>2, <2>3, LocalStep DEF IInv, Inv
<1>13. ASSUME NEW k \in Key, k[1] \notin x.users, torn' \cap Scope(k) = {}
       PROVE  Resolved(db', k) = Resolved(db, k)
  <2>1. k[1] \in User
    BY DEF Key
  <2>2. ASSUME NEW q \in Scope(k)
        PROVE  (q \in db'.live /\ k[1] \in db'.assigned[q])
                 <=> (q \in db.live /\ k[1] \in db.assigned[q])
    <3>1. q \in Role /\ q \notin torn'
      BY <1>13, NoneIsNoRole DEF Scope
    <3>2. CASE q = r /\ r \in db.live
      <4>1. OnlyChanges(db, x, r)
        BY <1>10, <3>1, <3>2
      <4> QED
        BY <1>6, <1>7, <1>13, <3>2, <4>1 DEF OnlyChanges
    <3>3. CASE ~(q = r /\ r \in db.live)
      BY <1>6, <1>7, <3>1, <3>3
    <3> QED
      BY <3>2, <3>3
  <2> QED
    BY <1>6, <2>2, Relevant
<1>14. StaleHasReason'
  <2>1. ASSUME NEW k \in Key
        PROVE  \/ k[1] \in y.inv \/ torn' \cap Scope(k) # {}
               \/ /\ cache'[k] = cache[k] /\ Resolved(db', k) = Resolved(db, k)
                  /\ k \in aged => k \in aged'
                  /\ k[1] \in x.inv => k[1] \in y.inv
    BY <1>1, <1>4, <1>5, <1>13
  <2> QED
    BY <1>2, <2>1, StaleStep DEF IInv, Inv
<1>15. Caches'
  BY <1>1 DEF IInv, Caches
<1>16. TypeOK'
  BY <1>1, <1>6, <1>12, <1>15, TypeKept DEF IInv, Inv, TypeOK
<1> QED
  BY <1>12, <1>14, <1>15, <1>16 DEF IInv, Inv

-----------------------------------------------------------------------------
(* The cached answers of a user are removed.                               *)

LEMMA InvalidateKeeps ==
    ASSUME IInv, NEW c \in Caller, Invalidate(c)
    PROVE  IInv'
<1> DEFINE x == call[c]
           r == x.role
<1>1. PICK u \in x.inv :
        /\ x.pc = "inv"
        /\ cache' = [k \in Key |-> IF k[1] = u THEN None ELSE cache[k]]
        /\ aged' = {k \in aged : k[1] # u}
        /\ GoesOn(c, Invalidating(x, x.inv \ {u}))
        /\ UNCHANGED <<db, member>>
  BY DEF Invalidate
<1> DEFINE us == x.inv \ {u}
           y == Invalidating(x, us)
<1>2. x \in CallType /\ Well(x) /\ x.pc = "inv" /\ x.inv # {}
  BY <1>1 DEF IInv, Inv, Calls
<1>3. x.op \in {"assign", "revoke", "delete", "unlink", "sync"}
  <2>1. x.op \in Op
    BY <1>2 DEF CallType
  <2>2. x.op # "none"
    BY <1>2 DEF Well, Idle
  <2>3. x.op \notin {"update", "link", "resolve"}
    BY <1>2 DEF Well
  <2> QED
    BY <2>1, <2>2, <2>3 DEF Op
<1>4. Ending(x) /\ r \in Role /\ us \in SUBSET User /\ us \subseteq x.users /\ x.pc # "bots"
  BY <1>2, <1>3, MayEnd DEF CallType, Well
<1>5. /\ y \in CallType /\ Well(y) /\ y.inv = us /\ Busy(y) \subseteq Busy(x)
      /\ \A q \in Busy(x) :
           (IF q = r THEN Agreed(db, member, q) ELSE Awaited(db, member, x, q))
           => (IF q \in Busy(y) THEN Under(db, member, y, q) ELSE Agreed(db, member, q))
  <2> HIDE DEF x, us
  <2> QED
    BY <1>4, Finishing
<1> HIDE DEF y
<1>6. GoesOn(c, y)
  BY <1>1 DEF y
<1>7. ASSUME NEW q \in Busy(x), Under(db, member, x, q)
      PROVE  IF q \in Busy(y) THEN Under(db, member, y, q) ELSE Agreed(db, member, q)
  <2>1. CASE q = r
    <3>1. Agreed(db, member, q)
      BY <1>2, <1>7, <2>1 DEF Under
    <3> QED
      BY <1>5, <2>1, <3>1
  <2>2. CASE q # r
    <3>1. x.op = "sync" /\ q \in x.left
      BY <1>2, <1>3, <1>7, <2>2, BusyShape
    <3>2. Awaited(db, member, x, q)
      BY <1>7, <3>1 DEF Under
    <3> QED
      BY <1>5, <2>2, <3>2
  <2> QED
    BY <2>1, <2>2
<1>8. Calls' /\ Alone' /\ Tables' /\ torn' \subseteq Role
  <2>1. \A q \in (db.live \ torn') \cap (Busy(x) \cup Busy(y)) :
          (IF q \in Busy(x) THEN Under(db, member, x, q) ELSE Agreed(db, member, q))
          => (IF q \in Busy(y) THEN Under(db, member, y, q) ELSE Agreed(db, member, q))
    BY <1>5, <1>7
  <2> QED
    BY <1>1, <1>5, <1>6, <2>1, QuietStep DEF IInv, Inv
<1>9. StaleHasReason'
  <2>1. ASSUME NEW k \in Key
        PROVE  \/ cache'[k] = None
               \/ /\ cache'[k] = cache[k] /\ Resolved(db', k) = Resolved(db, k)
                  /\ k \in aged => k \in aged'
                  /\ k[1] \in x.inv => k[1] \in y.inv
    BY <1>1, <1>5
  <2> QED
    BY <1>6, <2>1, StaleStep DEF IInv, Inv
<1>10. Caches' /\ aged' \subseteq Key
  BY <1>1 DEF IInv, Inv, TypeOK, Caches
<1>11. TypeOK'
  BY <1>1, <1>8, <1>10, TypeKept DEF IInv, Inv, TypeOK
<1> QED
  BY <1>8, <1>9, <1>10, <1>11 DEF IInv, Inv

-----------------------------------------------------------------------------
(* Editing, deleting and linking roles.                                    *)

LEMMA BeginUpdateKeeps ==
    ASSUME IInv, NEW c \in Caller, BeginUpdate(c)
    PROVE  IInv'
<1>1. PICK r \in db.live, bs \in SUBSET Bit :
        /\ r \in ServerRole => OwnerBit \notin bs
        /\ Begins(c, [Idle EXCEPT !.op = "update", !.pc = "bits", !.role = r, !.row = bs])
  BY DEF BeginUpdate
<1> DEFINE y == [Idle EXCEPT !.op = "update", !.pc = "bits", !.role = r, !.row = bs]
<1>2. r \in Role
  BY DbShape DEF IInv, Inv
<1>3. y \in CallType /\ y.op = "update" /\ y.pc = "bits" /\ y.role = r /\ y.row = bs /\ y.inv = {}
  BY <1>2 DEF Idle, CallType, Op, Pc
<1>4. Begins(c, y) /\ UNCHANGED <<db, member, cache, aged>>
  BY <1>1 DEF BeginUpdate
<1> HIDE DEF y
<1>5. Well(y)
  BY <1>1, <1>2, <1>3 DEF Well
<1>6. Busy(y) = {}
  BY <1>3, <1>5, BusyShape DEF Roleless
<1> QED
  BY <1>3, <1>4, <1>5, <1>6, Beginning

(* A step that ends a call without roles.                                  *)
LEMMA RolelessEnds ==
    ASSUME IInv, NEW c \in Caller, GoesOn(c, Idle), Busy(call[c]) = {}, call[c].pc # "inv",
           UNCHANGED member, db' \in DbType, db'.live = db.live,
           \A r \in ServerRole : OwnerBit \notin db'.bits[r],
           \A r \in Role : Framed(db, db', r), Caches', aged' \subseteq Key, StaleHasReason'
    PROVE  IInv'
<1>1. Calls' /\ Alone' /\ Tables' /\ torn' \subseteq Role
  BY IdleIsWell, LocalStep DEF IInv, Inv
<1>2. TypeOK'
  BY <1>1, TypeKept DEF IInv, Inv, TypeOK, DbType
<1> QED
  BY <1>1, <1>2 DEF IInv, Inv

LEMMA UpdateBitsKeeps ==
    ASSUME IInv, NEW c \in Caller, UpdateBits(c)
    PROVE  IInv'
<1> DEFINE x == call[c]
           r == x.role
           b == [db.bits EXCEPT ![r] = x.row]
           d == [db EXCEPT !.bits = b]
<1>1. /\ x \in CallType /\ Well(x) /\ x.op = "update" /\ x.pc = "bits"
      /\ GoesOn(c, Idle) /\ UNCHANGED <<member, cache>>
  BY DEF UpdateBits, At, Ends, IInv, Inv, Calls
<1>2. /\ db' = IF r \in db.live THEN d ELSE db
      /\ aged' = aged \cup {k \in Key : r \in db.live /\ cache[k] # None
                                         /\ Resolved(d, k) # Resolved(db, k)}
  BY DEF UpdateBits
<1>3. r \in Role /\ x.row \subseteq Bit /\ (r \in ServerRole => OwnerBit \notin x.row) /\ Busy(x) = {}
  BY <1>1, BusyShape DEF Well, Roleless
<1>4. /\ b \in [Role -> SUBSET Bit] /\ \A q \in Role : b[q] = IF q = r THEN x.row ELSE db.bits[q]
  BY <1>3, DbShape DEF IInv, Inv
<1> HIDE DEF b
<1>5. /\ d.live = db.live /\ d.assigned = db.assigned /\ d.grants = db.grants
      /\ d.links = db.links /\ d.bits = b /\ d \in DbType
  BY <1>4, DbIs DEF IInv, Inv, DbType
<1> HIDE DEF d
<1>6. \A q \in ServerRole : OwnerBit \notin db'.bits[q]
  BY <1>2, <1>3, <1>4, <1>5, DbIs, NoneIsNoRole DEF IInv, Inv
<1>7. db' \in DbType /\ db'.live = db.live /\ \A q \in Role : Framed(db, db', q)
  BY <1>2, <1>5, DbIs DEF IInv, Inv, Framed, Grants
<1>8. Caches' /\ aged' \subseteq Key
  BY <1>1, <1>2 DEF IInv, Inv, TypeOK, Caches
<1>9. StaleHasReason'
  <2>1. x.inv = {}
    BY <1>1 DEF Well
  <2>2. ASSUME NEW k \in Key
        PROVE  \/ cache'[k] = None \/ k \in aged'
               \/ /\ cache'[k] = cache[k] /\ Resolved(db', k) = Resolved(db, k)
                  /\ k \in aged => k \in aged'
    BY <1>1, <1>2
  <2> QED
    BY <1>1, <2>1, <2>2, StaleStep DEF IInv, Inv
<1> QED
  BY <1>1, <1>3, <1>6, <1>7, <1>8, <1>9, RolelessEnds

LEMMA BeginDeleteKeeps ==
    ASSUME IInv, NEW c \in Caller, BeginDelete(c)
    PROVE  IInv'
<1>1. PICK r \in db.live :
        Begins(c, [Idle EXCEPT !.op = "delete", !.pc = "delete", !.role = r,
                               !.users = db.assigned[r]])
  BY DEF BeginDelete
<1> DEFINE y == [Idle EXCEPT !.op = "delete", !.pc = "delete", !.role = r,
                             !.users = db.assigned[r]]
<1>2. r \in Role /\ db.assigned[r] \in SUBSET User
  BY DbShape DEF IInv, Inv
<1>3. /\ y \in CallType /\ y.op = "delete" /\ y.pc = "delete" /\ y.role = r
      /\ y.users = db.assigned[r] /\ y.inv = {}
  BY <1>2 DEF Idle, CallType, Op, Pc
<1>4. Begins(c, y) /\ UNCHANGED <<db, member, cache, aged>>
  BY <1>1 DEF BeginDelete
<1> HIDE DEF y
<1>5. Well(y)
  BY <1>2, <1>3 DEF Well
<1>6. Busy(y) = {r}
  BY <1>3, <1>5, BusyShape
<1>7. Agreed(db, member, r) => Under(db, member, y, r)
  BY <1>3 DEF Under
<1> QED
  BY <1>3, <1>4, <1>5, <1>6, <1>7, Beginning

LEMMA DeleteRowKeeps ==
    ASSUME IInv, NEW c \in Caller, DeleteRow(c)
    PROVE  IInv'
<1> DEFINE x == call[c]
           r == x.role
           y == Invalidating(x, x.users)
<1>1. /\ x \in CallType /\ Well(x) /\ x.op = "delete" /\ x.pc = "delete"
      /\ UNCHANGED <<member, cache, aged>>
  BY DEF DeleteRow, At, IInv, Inv, Calls
<1>2. GoesOn(c, y) /\ db' = [db EXCEPT !.live = db.live \ {r}]
  BY DEF DeleteRow
<1>3. Ending(x) /\ r \in Role /\ x.users \in SUBSET User /\ x.inv = {} /\ Busy(x) = {r}
  BY <1>1, MayEnd, BusyShape DEF CallType, Well
<1>4. y \in CallType /\ Well(y) /\ y.inv = x.users /\ Busy(y) \subseteq {r}
  BY <1>1, <1>3, Finishing
<1> HIDE DEF y
<1>5. /\ db' \in DbType /\ db'.live = db.live \ {r} /\ db'.bits = db.bits
      /\ db'.assigned = db.assigned /\ db'.grants = db.grants /\ db'.links = db.links
  BY <1>2, DbIs DEF IInv, Inv, DbType
<1>6. \A q \in Role : Framed(db, db', q)
  BY <1>5 DEF Framed, Grants
<1>7. Calls' /\ Alone' /\ Tables' /\ torn' \subseteq Role
  <2>1. (db'.live \ torn') \cap (Busy(x) \cup Busy(y)) = {}
    BY <1>3, <1>4, <1>5
  <2>2. db'.live \subseteq db.live
    BY <1>5
  <2> QED
    BY <1>1, <1>2, <1>4, <1>6, <2>1, <2>2, LocalStep DEF IInv, Inv
<1>8. ASSUME NEW k \in Key, k[1] \notin x.users, torn' \cap Scope(k) = {}
      PROVE  Resolved(db', k) = Resolved(db, k)
  <2>1. ASSUME NEW q \in Scope(k), q = r, r \in db.live
        PROVE  k[1] \notin db.assigned[q]
    <3>1. r \notin torn'
      BY <1>8, <2>1
    <3>2. r \notin torn
      BY <1>2, <3>1 DEF GoesOn
    <3>3. Under(db, member, x, r)
      BY <1>3, <2>1, <3>2 DEF IInv, Inv, Tables
    <3>4. x.users = db.assigned[r]
      BY <1>1, <3>3 DEF Under
    <3> QED
      BY <1>8, <2>1, <3>4
  <2>2. \A q \in Scope(k) :
          (q \in db'.live /\ k[1] \in db'.assigned[q]) <=> (q \in db.live /\ k[1] \in db.assigned[q])
    BY <1>5, <2>1
  <2> QED
    BY <1>5, <2>2, Relevant
<1>9. StaleHasReason'
  <2>1. ASSUME NEW k \in Key
        PROVE  \/ k[1] \in y.inv \/ torn' \cap Scope(k) # {}
               \/ /\ cache'[k] = cache[k] /\ Resolved(db', k) = Resolved(db, k)
                  /\ k \in aged => k \in aged'
                  /\ k[1] \in x.inv => k[1] \in y.inv
    BY <1>1, <1>3, <1>4, <1>8
  <2> QED
    BY <1>2, <2>1, StaleStep DEF IInv, Inv
<1>10. Caches'
  BY <1>1 DEF IInv, Caches
<1>11. \A q \in ServerRole : OwnerBit \notin db'.bits[q]
  BY <1>5, DbIs DEF IInv, Inv
<1>12. TypeOK'
  BY <1>1, <1>5, <1>7, <1>10, <1>11, TypeKept DEF IInv, Inv, TypeOK, DbType
<1> QED
  BY <1>7, <1>9, <1>10, <1>12 DEF IInv, Inv

LEMMA BeginLinkKeeps ==
    ASSUME IInv, NEW c \in Caller, BeginLink(c)
    PROVE  IInv'
<1>1. PICK r \in db.live \ db.links :
        Begins(c, [Idle EXCEPT !.op = "link", !.pc = "link", !.role = r])
  BY DEF BeginLink
<1> DEFINE y == [Idle EXCEPT !.op = "link", !.pc = "link", !.role = r]
<1>2. r \in Role
  BY DbShape DEF IInv, Inv
<1>3. y \in CallType /\ y.op = "link" /\ y.pc = "link" /\ y.role = r /\ y.inv = {}
  BY <1>2 DEF Idle, CallType, Op, Pc
<1>4. Begins(c, y) /\ UNCHANGED <<db, member, cache, aged>>
  BY <1>1 DEF BeginLink
<1> HIDE DEF y
<1>5. Well(y)
  BY <1>2, <1>3 DEF Well
<1>6. Busy(y) = {}
  BY <1>3, <1>5, BusyShape DEF Roleless
<1> QED
  BY <1>3, <1>4, <1>5, <1>6, Beginning

LEMMA InsertLinkKeeps ==
    ASSUME IInv, NEW c \in Caller, InsertLink(c)
    PROVE  IInv'
<1> DEFINE x == call[c]
           r == x.role
<1>1. /\ x \in CallType /\ Well(x) /\ x.op = "link" /\ x.pc = "link"
      /\ GoesOn(c, Idle) /\ UNCHANGED <<member, cache, aged>>
  BY DEF InsertLink, At, Ends, IInv, Inv, Calls
<1>2. db' = [db EXCEPT !.links = db.links \cup {r}]
  BY DEF InsertLink
<1>3. r \in Role /\ Busy(x) = {}
  BY <1>1, BusyShape DEF Well, Roleless
<1>4. /\ db' \in DbType /\ db'.live = db.live /\ db'.bits = db.bits
      /\ db'.assigned = db.assigned /\ db'.grants = db.grants /\ db'.links = db.links \cup {r}
  BY <1>2, <1>3, DbIs DEF IInv, Inv, DbType
<1>5. \A q \in Role : Framed(db, db', q)
  BY <1>4 DEF Framed, Grants
<1>6. StaleHasReason'
  BY <1>1, <1>4, StaleQuiet DEF IInv, Inv
<1>7. Caches' /\ aged' \subseteq Key
  BY <1>1 DEF IInv, Inv, TypeOK, Caches
<1>8. \A q \in ServerRole : OwnerBit \notin db'.bits[q]
  BY <1>4, DbIs DEF IInv, Inv
<1> QED
  BY <1>1, <1>3, <1>4, <1>5, <1>6, <1>7, <1>8, RolelessEnds

-----------------------------------------------------------------------------
(* Unlinking a role.                                                       *)

LEMMA BeginUnlinkKeeps ==
    ASSUME IInv, NEW c \in Caller, BeginUnlink(c)
    PROVE  IInv'
<1>1. PICK r \in db.links :
        /\ Begins(c, [Idle EXCEPT !.op = "unlink", !.pc = "grants", !.role = r])
        /\ db' = [db EXCEPT !.links = db.links \ {r}]
  BY DEF BeginUnlink
<1> DEFINE y == [Idle EXCEPT !.op = "unlink", !.pc = "grants", !.role = r]
<1>2. r \in Role /\ UNCHANGED <<member, cache, aged>>
  BY DbShape DEF BeginUnlink, IInv, Inv
<1>3. /\ y \in CallType /\ y.op = "unlink" /\ y.pc = "grants" /\ y.role = r
      /\ y.left = {} /\ y.row = {} /\ y.inv = {}
  BY <1>2 DEF Idle, CallType, Op, Pc
<1>4. GoesOn(c, y) /\ call[c].op = "none"
  BY <1>1 DEF Begins
<1> HIDE DEF y
<1>5. Busy(call[c]) = {} /\ call[c].pc = "none"
  BY <1>4, IdleCall DEF IInv, Inv
<1>6. Well(y)
  BY <1>2, <1>3 DEF Well
<1>7. Busy(y) = {r}
  BY <1>3, <1>6, BusyShape
<1>8. /\ db' \in DbType /\ db'.live = db.live /\ db'.bits = db.bits
      /\ db'.assigned = db.assigned /\ db'.grants = db.grants /\ db'.links = db.links \ {r}
  BY <1>1, DbIs DEF IInv, Inv, DbType
<1>9. \A q \in Role : q # r => Framed(db, db', q)
  BY <1>8 DEF Framed, Grants
<1>10. ASSUME Agreed(db, member, r) PROVE Under(db', member, y, r)
  <2>1. Granted(db', r) = Granted(db, r)
    BY <1>8 DEF Granted, Grants
  <2>2. Unlinking(db', y, r)
    BY <1>3, <1>8, <1>10, <2>1 DEF Agreed, Unlinking
  <2> QED
    BY <1>3, <2>2 DEF Under
<1>11. Calls' /\ Alone' /\ Tables' /\ torn' \subseteq Role
  <2>1. \A q \in Role \ (Busy(call[c]) \cup Busy(y)) : Framed(db, db', q)
    BY <1>7, <1>9
  <2>2. db'.live \subseteq db.live /\ member' = member
    BY <1>2, <1>8
  <2> QED
    BY <1>3, <1>4, <1>5, <1>6, <1>7, <1>10, <2>1, <2>2, LocalStep DEF IInv, Inv
<1>12. StaleHasReason'
  BY <1>2, <1>4, <1>5, <1>8, StaleQuiet DEF IInv, Inv
<1>13. Caches'
  BY <1>2 DEF IInv, Caches
<1>14. \A q \in ServerRole : OwnerBit \notin db'.bits[q]
  BY <1>8, DbIs DEF IInv, Inv
<1>15. TypeOK'
  BY <1>2, <1>8, <1>11, <1>13, <1>14, TypeKept DEF IInv, Inv, TypeOK, DbType
<1> QED
  BY <1>11, <1>12, <1>13, <1>15 DEF IInv, Inv

LEMMA UnlinkGrantsKeeps ==
    ASSUME IInv, NEW c \in Caller, UnlinkGrants(c)
    PROVE  IInv'
<1> DEFINE x == call[c]
           r == x.role
           y == [x EXCEPT !.pc = "list"]
           g == [ur \in User \X Role |->
                   IF ur[2] = r THEN db.grants[ur] \ {"discord_role"} ELSE db.grants[ur]]
<1>1. /\ x \in CallType /\ Well(x) /\ x.op = "unlink" /\ x.pc = "grants"
      /\ GoesOn(c, y) /\ UNCHANGED <<member, cache, aged>>
  BY DEF UnlinkGrants, At, IInv, Inv, Calls
<1>2. db' = [db EXCEPT !.grants = g]
  BY DbShape DEF UnlinkGrants, IInv, Inv
<1>3. r \in Role /\ Busy(x) = {r} /\ x.inv = {} /\ x.left \subseteq User /\ x.row \subseteq User
  BY <1>1, BusyShape DEF Well
<1>4. /\ g \in [User \X Role -> SUBSET Source]
      /\ \A u \in User, q \in Role :
           g[<<u, q>>] = IF q = r THEN Grants(db, u, q) \ {"discord_role"} ELSE Grants(db, u, q)
  BY DbShape DEF IInv, Inv, Grants
<1>5. /\ y \in CallType /\ y.op = "unlink" /\ y.pc = "list" /\ y.role = r /\ y.left = x.left
      /\ y.row = x.row /\ y.inv = {}
  BY <1>1, <1>3 DEF CallType, Pc
<1> HIDE DEF g, y
<1>6. Well(y)
  BY <1>3, <1>5 DEF Well
<1>7. Busy(y) = {r}
  BY <1>5, <1>6, BusyShape
<1>8. /\ db' \in DbType /\ db'.live = db.live /\ db'.bits = db.bits
      /\ db'.assigned = db.assigned /\ db'.grants = g /\ db'.links = db.links
  BY <1>2, <1>4, DbIs DEF IInv, Inv, DbType
<1>9. \A u \in User, q \in Role : Grants(db', u, q) =
         IF q = r THEN Grants(db, u, q) \ {"discord_role"} ELSE Grants(db, u, q)
  BY <1>4, <1>8 DEF Grants
<1>10. \A q \in Role : q # r => Framed(db, db', q)
  BY <1>8, <1>9 DEF Framed
<1>11. ASSUME Under(db, member, x, r) PROVE Under(db', member, y, r)
  <2>1. db.assigned[r] = Granted(db, r)
    BY <1>1, <1>11 DEF Under, Unlinking
  <2>2. /\ Granted(db', r) \subseteq Granted(db, r)
        /\ \A u \in User : "discord_role" \notin Grants(db', u, r)
    BY <1>3, <1>9 DEF Granted
  <2>3. Unlinking(db', y, r)
    BY <1>5, <1>8, <2>1, <2>2 DEF Unlinking
  <2> QED
    BY <1>5, <2>3 DEF Under
<1>12. Calls' /\ Alone' /\ Tables' /\ torn' \subseteq Role
  <2>1. \A q \in Role \ (Busy(call[c]) \cup Busy(y)) : Framed(db, db', q)
    BY <1>7, <1>10
  <2>2. db'.live \subseteq db.live /\ member' = member
    BY <1>1, <1>8
  <2> QED
    BY <1>1, <1>3, <1>5, <1>6, <1>7, <1>11, <2>1, <2>2, LocalStep DEF IInv, Inv
<1>13. StaleHasReason'
  BY <1>1, <1>8, StaleQuiet DEF IInv, Inv
<1>14. Caches'
  BY <1>1 DEF IInv, Caches
<1>15. \A q \in ServerRole : OwnerBit \notin db'.bits[q]
  BY <1>8, DbIs DEF IInv, Inv
<1>16. TypeOK'
  BY <1>1, <1>8, <1>12, <1>14, <1>15, TypeKept DEF IInv, Inv, TypeOK, DbType
<1> QED
  BY <1>12, <1>13, <1>14, <1>16 DEF IInv, Inv

LEMMA UnlinkListKeeps ==
    ASSUME IInv, NEW c \in Caller, UnlinkList(c)
    PROVE  IInv'
<1> DEFINE x == call[c]
           r == x.role
           l == {u \in User : HasAnyGrant(db, u, r)}
           y == [x EXCEPT !.pc = "read", !.left = l]
<1>1. /\ x \in CallType /\ Well(x) /\ x.op = "unlink" /\ x.pc = "list"
      /\ GoesOn(c, y) /\ UNCHANGED <<db, member, cache, aged>>
  BY DEF UnlinkList, At, IInv, Inv, Calls
<1>2. r \in Role /\ Busy(x) = {r} /\ x.inv = {} /\ x.left \subseteq User /\ x.row \subseteq User
  BY <1>1, BusyShape DEF Well
<1>3. l = Granted(db, r) /\ l \subseteq User
  BY DEF Granted, HasAnyGrant
<1> HIDE DEF l
<1>4. /\ y \in CallType /\ y.op = "unlink" /\ y.pc = "read" /\ y.role = r /\ y.left = l
      /\ y.row = x.row /\ y.inv = {}
  BY <1>1, <1>2, <1>3 DEF CallType, Pc
<1> HIDE DEF y
<1>5. Well(y)
  BY <1>2, <1>3, <1>4 DEF Well
<1>6. Busy(y) = {r}
  BY <1>4, <1>5, BusyShape
<1>7. ASSUME Under(db, member, x, r) PROVE Under(db, member, y, r)
  <2>1. Unlinking(db, y, r)
    BY <1>1, <1>3, <1>4, <1>7 DEF Under, Unlinking
  <2> QED
    BY <1>4, <2>1 DEF Under
<1> QED
  BY <1>1, <1>2, <1>4, <1>5, <1>6, <1>7, CallOnly

LEMMA UnlinkReadKeeps ==
    ASSUME IInv, NEW c \in Caller, UnlinkRead(c)
    PROVE  IInv'
<1> DEFINE x == call[c]
           r == x.role
           row == db.assigned[r]
           y == [x EXCEPT !.pc = "write", !.users = row, !.row = row \cap x.left, !.left = {}]
<1>1. /\ x \in CallType /\ Well(x) /\ x.op = "unlink" /\ x.pc = "read"
      /\ UNCHANGED <<db, member, cache, aged>>
  BY DEF UnlinkRead, At, IInv, Inv, Calls
<1>2. r \in Role /\ Busy(x) = {r} /\ x.inv = {} /\ row \subseteq User
  BY <1>1, BusyShape, DbShape DEF Well, IInv, Inv
<1>3. IF r \in db.live THEN GoesOn(c, y) ELSE GoesOn(c, Idle)
  BY DEF UnlinkRead, Ends
<1>4. CASE r \in db.live
  <2> HIDE DEF row
  <2>1. /\ y \in CallType /\ y.op = "unlink" /\ y.pc = "write" /\ y.role = r /\ y.left = {}
        /\ y.row = row \cap x.left /\ y.users = row /\ y.inv = {}
    BY <1>1, <1>2 DEF CallType, Pc
  <2>2. GoesOn(c, y)
    BY <1>3, <1>4
  <2> HIDE DEF y
  <2>3. Well(y)
    BY <1>2, <2>1 DEF Well
  <2>4. Busy(y) = {r}
    BY <2>1, <2>3, BusyShape
  <2>5. ASSUME Under(db, member, x, r) PROVE Under(db, member, y, r)
    <3>1. /\ Granted(db, r) \subseteq row /\ x.left = Granted(db, r)
          /\ \A u \in User : "discord_role" \notin Grants(db, u, r)
      BY <1>1, <2>5 DEF Under, Unlinking, row
    <3>2. Unlinking(db, y, r)
      BY <2>1, <3>1 DEF Unlinking, row
    <3> QED
      BY <2>1, <3>2 DEF Under
  <2> QED
    BY <1>1, <1>2, <2>1, <2>2, <2>3, <2>4, <2>5, CallOnly
<1>5. CASE r \notin db.live
  BY <1>1, <1>2, <1>3, <1>5, IdleIsWell, CallOnly
<1> QED
  BY <1>4, <1>5

-----------------------------------------------------------------------------
(* A member gets or loses the Discord role.                                *)

(* A role of the guild that is not linked does not depend on the members.  *)
LEMMA UnlinkedUnder ==
    ASSUME NEW d, NEW m, NEW m2, NEW x \in CallType, Well(x), NEW r \in ServerRole,
           r \notin d.links, r \in Busy(x), Under(d, m, x, r)
    PROVE  Under(d, m2, x, r)
<1>1. Earned(d, m, r) => Earned(d, m2, r)
  BY UnearnedRoles
<1>2. Agreed(d, m, r) => Agreed(d, m2, r)
  BY <1>1 DEF Agreed
<1>3. Assigning(d, m, x, r) => Assigning(d, m2, x, r)
  BY <1>1 DEF Assigning
<1>4. Syncing(d, m, x, r) => Syncing(d, m2, x, r)
  BY <1>1 DEF Syncing
<1>5. ASSUME x.op = "sync", r \in x.left \/ x.pc = "bots"
      PROVE  FALSE
  <2>1. r \notin BotRole
    BY NoneIsNoRole
  <2>2. r \in x.left
    BY <1>5, <2>1, BusyShape
  <2> QED
    BY <1>5, <2>2 DEF Under, Awaited
<1> QED
  BY <1>2, <1>3, <1>4, <1>5 DEF Under

LEMMA MemberUpdateKeeps ==
    ASSUME IInv, NEW c \in Caller, MemberUpdate(c)
    PROVE  IInv'
<1>1. PICK u \in User :
        /\ member' = IF u \in member THEN member \ {u} ELSE member \cup {u}
        /\ Begins(c, [Idle EXCEPT !.op = "sync", !.pc = "bots", !.users = {u},
                                  !.key = IF u \in member THEN "lost" ELSE "has",
                                  !.left = db.links \cap ServerRole])
  BY DEF MemberUpdate
<1> DEFINE key == IF u \in member THEN "lost" ELSE "has"
           y == [Idle EXCEPT !.op = "sync", !.pc = "bots", !.users = {u}, !.key = key,
                             !.left = db.links \cap ServerRole]
<1>2. UNCHANGED <<db, cache, aged>>
  BY DEF MemberUpdate
<1>3. GoesOn(c, y) /\ call[c].op = "none"
  BY <1>1 DEF Begins
<1>4. Busy(call[c]) = {} /\ call[c].pc = "none"
  BY <1>3, IdleCall DEF IInv, Inv
<1>5. key \in {"has", "lost"}
  OBVIOUS
<1>6. /\ key = "has" => u \in member' /\ \A v \in User : v \in member => v \in member'
      /\ key = "lost" => \A v \in User : v \in member => v \in member' \/ v = u
  BY <1>1
<1> HIDE DEF key
<1>7. db.links \cap ServerRole \subseteq Role
  BY NoneIsNoRole
<1>8. /\ y.op = "sync" /\ y.pc = "bots" /\ y.users = {u} /\ y.key = key /\ y.role = None
      /\ y.left = db.links \cap ServerRole /\ y.row = {} /\ y.inv = {}
  BY DEF Idle
<1>9. y \in CallType
  BY <1>5, <1>7 DEF Idle, CallType, Op, Pc
<1> HIDE DEF y
<1>10. Well(y)
  BY <1>5, <1>7, <1>8, NoneIsNoRole DEF Well
<1>11. Busy(y) = (db.links \cap ServerRole) \cup BotRole
  BY <1>8, <1>9, <1>10, BusyShape
<1>12. ASSUME NEW r \in Role, Agreed(db, member, r) PROVE Under(db, member', y, r)
  <2>1. Awaited(db, member', y, r)
    <3>1. \A v \in User : "discord_role" \in Grants(db, v, r) => r \in db.links /\ v \in member
      BY <1>12 DEF Agreed, Earned
    <3>2. db.assigned[r] = Granted(db, r)
      BY <1>12 DEF Agreed
    <3> QED
      BY <1>5, <1>6, <1>8, <3>1, <3>2 DEF Awaited
  <2>2. y.role # r
    BY <1>8, NoneIsNoRole
  <2> QED
    BY <1>8, <2>1, <2>2 DEF Under
<1>13. ASSUME NEW r \in Role \ (Busy(call[c]) \cup Busy(y))
       PROVE  /\ Agreed(db, member, r) => Agreed(db', member', r)
              /\ \A e \in Caller : r \in Busy(call[e]) /\ Under(db, member, call[e], r)
                                     => Under(db', member', call[e], r)
  <2>1. r \in ServerRole /\ r \notin db.links
    BY <1>11, <1>13, NoneIsNoRole
  <2>2. Agreed(db, member, r) => Agreed(db, member', r)
    BY <2>1, UnearnedRoles DEF Agreed
  <2>3. \A e \in Caller : r \in Busy(call[e]) /\ Under(db, member, call[e], r)
                            => Under(db, member', call[e], r)
    <3> SUFFICES ASSUME NEW e \in Caller, r \in Busy(call[e]), Under(db, member, call[e], r)
                 PROVE  Under(db, member', call[e], r)
      OBVIOUS
    <3>1. call[e] \in CallType /\ Well(call[e])
      BY DEF IInv, Inv, Calls
    <3> QED
      BY <2>1, <3>1, UnlinkedUnder
  <2> QED
    BY <1>2, <2>2, <2>3
<1>14. call \in [Caller -> CallType] /\ DOMAIN call = Caller /\ db.live \subseteq Role
       /\ torn \subseteq Role
  BY DbShape DEF IInv, Inv, Calls, TypeOK
<1>15. /\ call' = [call EXCEPT ![c] = y] /\ torn \subseteq torn' /\ Overlapped(call') \subseteq torn'
       /\ torn' \subseteq Role
  BY <1>3, <1>14 DEF GoesOn, Overlapped
<1>16. Busy(y) \subseteq Role /\ Busy(call[c]) \subseteq Role /\ db'.live \subseteq db.live
  BY <1>2, <1>4, <1>9, <1>10, BusyShape
<1>17. \A r \in (db'.live \ torn') \cap (Busy(call[c]) \cup Busy(y)) :
         (IF r \in Busy(call[c]) THEN Under(db, member, call[c], r) ELSE Agreed(db, member, r))
         => (IF r \in Busy(y) THEN Under(db', member', y, r) ELSE Agreed(db', member', r))
  BY <1>2, <1>4, <1>12, <1>16
<1>18. Alone' /\ Tables'
  BY <1>13, <1>14, <1>15, <1>16, <1>17, OneStep DEF IInv, Inv
<1>19. Calls'
  BY <1>9, <1>10, <1>15 DEF IInv, Inv, Calls
<1>20. StaleHasReason'
  BY <1>2, <1>3, <1>4, StaleQuiet DEF IInv, Inv
<1>21. Caches' /\ member' \subseteq User
  BY <1>1, <1>2 DEF IInv, Inv, TypeOK, Caches
<1>22. TypeOK'
  BY <1>2, <1>15, <1>21, TypeKept DEF IInv, Inv, TypeOK
<1> QED
  BY <1>18, <1>19, <1>20, <1>21, <1>22 DEF IInv, Inv

LEMMA SyncBotsKeeps ==
    ASSUME IInv, NEW c \in Caller, SyncBots(c)
    PROVE  IInv'
<1> DEFINE x == call[c]
           l == x.left \cup (db.links \cap BotRole)
           z == [x EXCEPT !.left = l]
           y == Done(z)
<1>1. /\ x \in CallType /\ Well(x) /\ x.op = "sync" /\ x.pc = "bots"
      /\ GoesOn(c, y) /\ UNCHANGED <<db, member, cache, aged>>
  BY DEF SyncBots, At, IInv, Inv, Calls
<1>2. x.role = None /\ x.left \subseteq ServerRole /\ Busy(x) = x.left \cup BotRole
  BY <1>1, BusyShape DEF Well
<1>3. l \subseteq Role
  BY <1>2, NoneIsNoRole
<1>4. \A r \in l : r \in x.left \/ r \in db.links
  OBVIOUS
<1>5. x.left \subseteq l /\ \A r \in BotRole : r \in db.links => r \in l
  OBVIOUS
<1> HIDE DEF l
<1>6. /\ z \in CallType /\ z.op = "sync" /\ z.pc = "bots" /\ z.role = None /\ z.left = l
      /\ z.users = x.users /\ z.key = x.key /\ z.row = x.row
  BY <1>1, <1>2, <1>3 DEF CallType
<1>7. /\ x.key \in {"has", "lost"} /\ x.row \subseteq User
      /\ \E u \in User : x.users = {u}
  BY <1>1 DEF Well
<1>8. Ending(z)
  BY <1>3, <1>6, <1>7, NoneIsNoRole DEF Ending
<1>9. /\ y \in CallType /\ Well(y) /\ Busy(y) = l
      /\ l # {} => /\ y.op = "sync" /\ y.pc = "next" /\ y.role = None /\ y.left = l
                   /\ y.users = x.users /\ y.key = x.key
  BY <1>6, <1>8, DoneIsWell
<1> HIDE DEF y, z
<1>10. ASSUME NEW r \in Role, r \in Busy(x), Under(db, member, x, r)
       PROVE  IF r \in Busy(y) THEN Under(db, member, y, r) ELSE Agreed(db, member, r)
  <2>1. Awaited(db, member, x, r)
    BY <1>1, <1>10 DEF Under
  <2>2. CASE r \in l
    <3>1. r \in db.links
      BY <1>4, <2>1, <2>2 DEF Awaited
    <3>2. Awaited(db, member, y, r)
      BY <1>9, <2>1, <2>2, <3>1, StillAwaited
    <3>3. y.role # r
      BY <1>9, <2>2, NoneIsNoRole
    <3> QED
      BY <1>9, <2>2, <3>2, <3>3 DEF Under
  <2>3. CASE r \notin l
    <3>1. r \notin db.links
      BY <1>2, <1>5, <1>10, <2>3
    <3>2. Agreed(db, member, r)
      BY <2>1, <3>1 DEF Awaited, Agreed, Earned
    <3> QED
      BY <1>9, <2>3, <3>2
  <2> QED
    BY <2>2, <2>3
<1>11. Busy(y) \subseteq Busy(x) /\ db.live \subseteq Role
  BY <1>2, <1>3, <1>9, DbShape DEF IInv, Inv, l
<1> QED
  BY <1>1, <1>9, <1>10, <1>11, CallOnly

(* The links are gone through one at a time.                               *)
LEMMA SyncGrantKeeps ==
    ASSUME IInv, NEW c \in Caller, SyncGrant(c)
    PROVE  IInv'
<1> DEFINE x == call[c]
<1>1. /\ x \in CallType /\ Well(x) /\ x.op = "sync" /\ x.pc = "next"
      /\ UNCHANGED <<member, cache, aged>>
  BY DEF SyncGrant, At, IInv, Inv, Calls
<1>2. PICK r \in x.left, u \in x.users :
        IF x.key = "has"
        THEN /\ SetGrants(u, r, Grants(db, u, r) \cup {"discord_role"})
             /\ GoesOn(c, [x EXCEPT !.pc = "read", !.role = r, !.left = x.left \ {r}])
        ELSE /\ SetGrants(u, r, Grants(db, u, r) \ {"discord_role"})
             /\ GoesOn(c, [x EXCEPT !.pc = "still", !.role = r, !.left = x.left \ {r}])
  BY DEF SyncGrant
<1> DEFINE s == IF x.key = "has" THEN Grants(db, u, r) \cup {"discord_role"}
                                 ELSE Grants(db, u, r) \ {"discord_role"}
           pc == IF x.key = "has" THEN "read" ELSE "still"
           y == [x EXCEPT !.pc = pc, !.role = r, !.left = x.left \ {r}]
<1>3. SetGrants(u, r, s) /\ GoesOn(c, y)
  BY <1>2
<1>4. /\ x.left \subseteq Role /\ x.row \subseteq User /\ x.key \in {"has", "lost"}
      /\ x.inv = {} /\ Busy(x) = x.left /\ x.users \subseteq User
  BY <1>1, BusyShape DEF Well, CallType
<1>5. r \in Role /\ u \in User /\ x.users = {u}
  <2>1. PICK v \in User : x.users = {v}
    BY <1>1 DEF Well
  <2> QED
    BY <1>4, <2>1
<1>6. /\ s \in SUBSET Source
      /\ x.key = "has" => "discord_role" \in s /\ Grants(db, u, r) \subseteq s
      /\ x.key = "lost" => "discord_role" \notin s /\ s \subseteq Grants(db, u, r)
  BY <1>4, <1>5, DbShape DEF IInv, Inv, Source, Grants
<1>7. pc \in {"read", "still"} /\ (x.key = "has" <=> pc = "read")
  OBVIOUS
<1> HIDE DEF s, pc
<1>8. /\ y.op = "sync" /\ y.pc = pc /\ y.role = r /\ y.left = x.left \ {r}
      /\ y.users = x.users /\ y.key = x.key /\ y.row = x.row /\ y.inv = {}
  BY <1>1, <1>4 DEF CallType
<1>9. y \in CallType
  BY <1>1, <1>4, <1>5, <1>7 DEF CallType, Pc
<1> HIDE DEF y
<1>10. Well(y)
  BY <1>4, <1>5, <1>7, <1>8, NoneIsNoRole DEF Well
<1>11. Busy(y) = x.left
  <2>1. Busy(y) = y.left \cup {y.role}
    BY <1>7, <1>8, <1>9, <1>10, BusyShape
  <2> QED
    BY <1>5, <1>8, <2>1
<1>12. /\ db'.live = db.live /\ db'.assigned = db.assigned /\ db'.links = db.links
       /\ \A v \in User, q \in Role : Grants(db', v, q) = IF v = u /\ q = r THEN s ELSE Grants(db, v, q)
  <2> HIDE DEF x
  <2>1. TypeOK /\ SetGrants(u, r, s) /\ r \in Role /\ u \in User /\ s \in SUBSET Source
    BY <1>3, <1>5, <1>6 DEF IInv, Inv
  <2> QED
    BY ONLY <2>1, Setting
<1>13. ASSUME Under(db, member, x, r) PROVE Under(db', member, y, r)
  <2>1. Awaited(db, member, x, r)
    BY <1>1, <1>13 DEF Under
  <2>2. r \in db.links /\ db.assigned[r] = Granted(db, r)
        /\ \A v \in User : "discord_role" \in Grants(db, v, r) =>
              v \in member \/ (v = u /\ x.key = "lost")
    BY <1>5, <2>1 DEF Awaited
  <2>3. CASE x.key = "has"
    <3>1. u \in member
      BY <1>5, <2>1, <2>3 DEF Awaited
    <3>2. Granted(db', r) = Granted(db, r) \cup {u}
      BY <1>5, <1>6, <1>12, <2>3 DEF Granted
    <3>3. Earned(db', member, r)
      BY <1>5, <1>12, <2>2, <2>3, <3>1 DEF Earned
    <3>4. Syncing(db', member, y, r)
      BY <1>5, <1>7, <1>8, <1>12, <2>2, <2>3, <3>2, <3>3 DEF Syncing
    <3> QED
      BY <1>7, <1>8, <3>4 DEF Under
  <2>4. CASE x.key = "lost"
    <3>1. Granted(db', r) \subseteq Granted(db, r) /\ Granted(db, r) \subseteq Granted(db', r) \cup {u}
      BY <1>5, <1>6, <1>12, <2>4 DEF Granted
    <3>2. Earned(db', member, r)
      BY <1>5, <1>6, <1>12, <2>2, <2>4 DEF Earned
    <3>3. pc = "still"
      BY <1>7, <2>4
    <3>4. Syncing(db', member, y, r)
      BY <1>5, <1>8, <1>12, <2>2, <2>4, <3>1, <3>2, <3>3 DEF Syncing
    <3> QED
      BY <1>8, <3>3, <3>4 DEF Under
  <2> QED
    BY <1>4, <2>3, <2>4
<1>14. ASSUME NEW q \in x.left, q # r, Under(db, member, x, q) PROVE Under(db', member, y, q)
  <2>1. Awaited(db, member, x, q)
    BY <1>1, <1>14 DEF Under
  <2>2. Framed(db, db', q)
    BY <1>4, <1>12, <1>14 DEF Framed
  <2>3. Awaited(db', member, x, q)
    <3>1. Under(db', member, x, q)
      BY <1>14, <2>2, FrameUnder
    <3> QED
      BY <1>1, <1>14, <3>1 DEF Under
  <2>4. q \in db'.links
    BY <1>14, <2>3 DEF Awaited
  <2>5. Awaited(db', member, y, q)
    BY <1>8, <2>3, <2>4, StillAwaited
  <2> QED
    BY <1>8, <1>14, <2>5 DEF Under
<1>15. \A q \in (db.live \ torn') \cap (Busy(x) \cup Busy(y)) :
         (IF q \in Busy(x) THEN Under(db, member, x, q) ELSE Agreed(db, member, q))
         => (IF q \in Busy(y) THEN Under(db', member, y, q) ELSE Agreed(db', member, q))
  BY <1>4, <1>11, <1>13, <1>14
<1>16. r \in Busy(x) /\ x.pc # "inv"
  BY <1>1, <1>4
<1> QED
  BY <1>1, <1>3, <1>5, <1>6, <1>9, <1>10, <1>15, <1>16, GrantStep

(* A sync goes on with the same role.                                      *)
LEMMA SyncGoesOn ==
    ASSUME NEW d, NEW m, NEW x \in CallType, Well(x), x.op = "sync",
           x.pc \in {"still", "read"}, NEW y \in CallType, y.op = "sync",
           y.pc \in {"read", "write"}, y.role = x.role, y.left = x.left, y.users = x.users,
           y.key = x.key, y.inv = {}, y.row \subseteq User,
           Under(d, m, x, x.role) => Syncing(d, m, y, x.role)
    PROVE  /\ Well(y) /\ Busy(y) = Busy(x)
           /\ \A r \in Busy(x) : Under(d, m, x, r) => Under(d, m, y, r)
<1>1. /\ x.role \in Role /\ x.left \subseteq Role \ {x.role} /\ Busy(x) = x.left \cup {x.role}
      /\ x.key \in {"has", "lost"} /\ \E u \in User : x.users = {u}
  BY BusyShape DEF Well
<1>2. Well(y)
  BY <1>1, NoneIsNoRole DEF Well
<1>3. Busy(y) = Busy(x)
  BY <1>1, <1>2, BusyShape
<1>4. ASSUME Under(d, m, x, x.role) PROVE Under(d, m, y, x.role)
  BY <1>1, <1>4 DEF Under
<1>5. ASSUME NEW r \in x.left, Under(d, m, x, r) PROVE Under(d, m, y, r)
  <2>1. Awaited(d, m, x, r) /\ r \in d.links
    BY <1>5 DEF Under, Awaited
  <2>2. Awaited(d, m, y, r)
    BY <2>1, StillAwaited
  <2> QED
    BY <1>1, <1>5, <2>2 DEF Under
<1> QED
  BY <1>1, <1>2, <1>3, <1>4, <1>5

(* A sync is done with its role and leaves it Agreed on.                   *)
LEMMA SyncDone ==
    ASSUME NEW d, NEW m, NEW x \in CallType, Well(x), x.op = "sync",
           x.pc \in {"still", "read"}, NEW us \in SUBSET User, us \subseteq x.users,
           x.role \in d.live /\ Under(d, m, x, x.role) => Agreed(d, m, x.role)
    PROVE  LET y == Invalidating(x, us)
           IN  /\ y \in CallType /\ Well(y) /\ Busy(y) \subseteq Busy(x)
               /\ \A r \in Busy(x) \cap d.live : Under(d, m, x, r) =>
                    (IF r \in Busy(y) THEN Under(d, m, y, r) ELSE Agreed(d, m, r))
<1> DEFINE y == Invalidating(x, us)
<1>1. Ending(x) /\ x.role \in Role /\ x.pc # "bots"
  BY MayEnd
<1>2. /\ y \in CallType /\ Well(y) /\ Busy(y) \subseteq Busy(x)
      /\ \A r \in Busy(x) :
           (IF r = x.role THEN Agreed(d, m, r) ELSE Awaited(d, m, x, r))
           => (IF r \in Busy(y) THEN Under(d, m, y, r) ELSE Agreed(d, m, r))
  BY <1>1, Finishing
<1>6. Invalidating(x, us) = y
  OBVIOUS
<1> HIDE DEF y
<1>3. Busy(x) = x.left \cup {x.role}
  BY BusyShape
<1>4. ASSUME NEW r \in Busy(x) \cap d.live, Under(d, m, x, r)
      PROVE  IF r = x.role THEN Agreed(d, m, r) ELSE Awaited(d, m, x, r)
  <2>1. r # x.role => r \in x.left
    BY <1>3
  <2>2. r # x.role => Awaited(d, m, x, r)
    BY <1>4, <2>1 DEF Under
  <2> QED
    BY <1>4, <2>2
<1>5. \A r \in Busy(x) \cap d.live : Under(d, m, x, r) =>
        (IF r \in Busy(y) THEN Under(d, m, y, r) ELSE Agreed(d, m, r))
  BY <1>2, <1>4
<1> QED
  BY <1>2, <1>5, <1>6

LEMMA SyncJustDone ==
    ASSUME NEW d, NEW m, NEW x \in CallType, Well(x), x.op = "sync",
           x.pc \in {"still", "read"},
           x.role \in d.live /\ Under(d, m, x, x.role) => Agreed(d, m, x.role)
    PROVE  LET y == Done(x)
           IN  /\ y \in CallType /\ Well(y) /\ Busy(y) \subseteq Busy(x)
               /\ \A r \in Busy(x) \cap d.live : Under(d, m, x, r) =>
                    (IF r \in Busy(y) THEN Under(d, m, y, r) ELSE Agreed(d, m, r))
<1>1. Invalidating(x, {}) = Done(x)
  BY DEF Invalidating
<1> DEFINE us == {}
<1>2. us \in SUBSET User /\ us \subseteq x.users /\ Invalidating(x, us) = Done(x)
  BY <1>1
<1> HIDE DEF us
<1>3. LET y == Invalidating(x, us)
      IN  /\ y \in CallType /\ Well(y) /\ Busy(y) \subseteq Busy(x)
          /\ \A r \in Busy(x) \cap d.live : Under(d, m, x, r) =>
               (IF r \in Busy(y) THEN Under(d, m, y, r) ELSE Agreed(d, m, r))
  BY <1>2, SyncDone
<1> QED
  BY <1>2, <1>3

LEMMA SyncStillKeeps ==
    ASSUME IInv, NEW c \in Caller, SyncStill(c)
    PROVE  IInv'
<1> DEFINE x == call[c]
           r == x.role
           y == [x EXCEPT !.pc = "read"]
<1>1. /\ x \in CallType /\ Well(x) /\ x.op = "sync" /\ x.pc = "still"
      /\ UNCHANGED <<db, member, cache, aged>>
  BY DEF SyncStill, At, IInv, Inv, Calls
<1>2. PICK u \in x.users : IF HasAnyGrant(db, u, r) THEN GoesOn(c, Done(x)) ELSE GoesOn(c, y)
  BY DEF SyncStill
<1>3. r \in Role /\ x.users = {u} /\ u \in User /\ x.key = "lost" /\ x.inv = {} /\ x.row \subseteq User
  <2>1. PICK v \in User : x.users = {v}
    BY <1>1 DEF Well
  <2> QED
    BY <1>1, <2>1, BusyShape DEF Well
<1>4. HasAnyGrant(db, u, r) <=> u \in Granted(db, r)
  BY <1>3 DEF HasAnyGrant, Granted
<1>5. ASSUME Under(db, member, x, r)
      PROVE  /\ Earned(db, member, r) /\ Granted(db, r) \subseteq db.assigned[r]
             /\ db.assigned[r] \subseteq Granted(db, r) \cup {u}
  BY <1>1, <1>3, <1>5 DEF Under, Syncing
<1>6. CASE HasAnyGrant(db, u, r)
  <2>1. Under(db, member, x, r) => Agreed(db, member, r)
    BY <1>4, <1>5, <1>6 DEF Agreed
  <2> HIDE DEF x, r
  <2>3. /\ Done(x) \in CallType /\ Well(Done(x)) /\ Busy(Done(x)) \subseteq Busy(x)
        /\ \A q \in Busy(x) \cap db.live : Under(db, member, x, q) =>
             (IF q \in Busy(Done(x)) THEN Under(db, member, Done(x), q) ELSE Agreed(db, member, q))
    BY <1>1, <2>1, SyncJustDone DEF r
  <2>4. GoesOn(c, Done(x))
    BY <1>2, <1>6
  <2> QED
    BY <1>1, <2>3, <2>4, CallOnly DEF x
<1>7. CASE ~HasAnyGrant(db, u, r)
  <2>1. GoesOn(c, y)
    BY <1>2, <1>7
  <2>2. /\ y \in CallType /\ y.op = "sync" /\ y.pc = "read" /\ y.role = r /\ y.left = x.left
        /\ y.users = x.users /\ y.key = x.key /\ y.inv = {} /\ y.row = x.row
    BY <1>1, <1>3 DEF CallType, Pc
  <2> HIDE DEF y
  <2>3. ASSUME Under(db, member, x, r) PROVE Syncing(db, member, y, r)
    BY <1>3, <1>4, <1>5, <1>7, <2>2, <2>3 DEF Syncing
  <2>4. /\ Well(y) /\ Busy(y) = Busy(x)
        /\ \A q \in Busy(x) : Under(db, member, x, q) => Under(db, member, y, q)
    BY <1>1, <1>3, <2>2, <2>3, SyncGoesOn
  <2> QED
    BY <1>1, <2>1, <2>2, <2>4, CallOnly
<1> QED
  BY <1>6, <1>7

LEMMA SyncReadKeeps ==
    ASSUME IInv, NEW c \in Caller, SyncRead(c)
    PROVE  IInv'
<1> DEFINE x == call[c]
           r == x.role
           us == x.users
           row == db.assigned[r]
           new == IF x.key = "has" THEN row \cup us ELSE row \ us
           y == [x EXCEPT !.pc = "write", !.row = new]
<1>1. /\ x \in CallType /\ Well(x) /\ x.op = "sync" /\ x.pc = "read"
      /\ UNCHANGED <<db, member, cache, aged>>
  BY DEF SyncRead, At, IInv, Inv, Calls
<1>2. \/ r \notin db.live /\ GoesOn(c, Done(x))
      \/ r \in db.live /\ x.key = "has" /\ us \subseteq row /\ GoesOn(c, Invalidating(x, us))
      \/ GoesOn(c, y)
  BY DEF SyncRead
<1>3. r \in Role /\ us \in SUBSET User /\ x.key \in {"has", "lost"} /\ x.inv = {} /\ row \subseteq User
  BY <1>1, BusyShape, DbShape DEF Well, CallType, IInv, Inv
<1>4. CASE r \notin db.live /\ GoesOn(c, Done(x))
  <2> HIDE DEF x, r, us, row
  <2>2. /\ Done(x) \in CallType /\ Well(Done(x)) /\ Busy(Done(x)) \subseteq Busy(x)
        /\ \A q \in Busy(x) \cap db.live : Under(db, member, x, q) =>
             (IF q \in Busy(Done(x)) THEN Under(db, member, Done(x), q) ELSE Agreed(db, member, q))
    BY <1>1, <1>4, SyncJustDone DEF r
  <2> QED
    BY <1>1, <1>4, <2>2, CallOnly DEF x
<1>5. CASE r \in db.live /\ x.key = "has" /\ us \subseteq row /\ GoesOn(c, Invalidating(x, us))
  <2> DEFINE z == Invalidating(x, us)
  <2>1. ASSUME Under(db, member, x, r) PROVE Agreed(db, member, r)
    <3>1. Syncing(db, member, x, r)
      BY <1>1, <2>1 DEF Under
    <3> QED
      BY <1>5, <3>1 DEF Syncing, Agreed
  <2>2. GoesOn(c, z) /\ z = Invalidating(x, us)
    BY <1>5
  <2> HIDE DEF z, x, r, us, row
  <2>3. /\ z \in CallType /\ Well(z) /\ Busy(z) \subseteq Busy(x)
        /\ \A q \in Busy(x) \cap db.live : Under(db, member, x, q) =>
             (IF q \in Busy(z) THEN Under(db, member, z, q) ELSE Agreed(db, member, q))
    BY <1>1, <1>3, <2>1, <2>2, SyncDone DEF r, us
  <2> QED
    BY <1>1, <2>2, <2>3, CallOnly DEF x
<1>6. CASE GoesOn(c, y)
  <2>1. /\ x.key = "has" => new = row \cup us
        /\ x.key = "lost" => new = row \ us
        /\ new \subseteq User
    BY <1>3
  <2> HIDE DEF new
  <2>2. /\ y \in CallType /\ y.op = "sync" /\ y.pc = "write" /\ y.role = r /\ y.left = x.left
        /\ y.users = x.users /\ y.key = x.key /\ y.inv = {} /\ y.row = new
    BY <1>1, <1>3, <2>1 DEF CallType, Pc
  <2> HIDE DEF y
  <2>3. ASSUME Under(db, member, x, r) PROVE Syncing(db, member, y, r)
    <3>1. Syncing(db, member, x, r)
      BY <1>1, <2>3 DEF Under
    <3>2. new = Granted(db, r)
      BY <1>1, <1>3, <2>1, <3>1 DEF Syncing
    <3> QED
      BY <1>1, <2>2, <3>1, <3>2 DEF Syncing
  <2>4. /\ Well(y) /\ Busy(y) = Busy(x)
        /\ \A q \in Busy(x) : Under(db, member, x, q) => Under(db, member, y, q)
    BY <1>1, <1>3, <2>1, <2>2, <2>3, SyncGoesOn
  <2> QED
    BY <1>1, <1>6, <2>2, <2>4, CallOnly
<1> QED
  BY <1>2, <1>4, <1>5, <1>6

-----------------------------------------------------------------------------
(* Resolving.                                                              *)

LEMMA BeginResolveKeeps ==
    ASSUME IInv, NEW c \in Caller, BeginResolve(c)
    PROVE  IInv'
<1>1. PICK k \in Key, known \in BOOLEAN :
        Begins(c, [Idle EXCEPT !.op = "resolve", !.pc = "bot", !.key = k,
                               !.row = IF known THEN {ServerOwner} ELSE {}])
  BY DEF BeginResolve
<1> DEFINE row == IF known THEN {ServerOwner} ELSE {}
           y == [Idle EXCEPT !.op = "resolve", !.pc = "bot", !.key = k, !.row = row]
<1>2. Begins(c, y) /\ UNCHANGED <<db, member, cache, aged>>
  BY <1>1 DEF BeginResolve
<1>3. row \subseteq Bit \cup {ServerOwner}
  OBVIOUS
<1> HIDE DEF row
<1>4. /\ y \in CallType /\ y.op = "resolve" /\ y.pc = "bot" /\ y.key = k /\ y.row = row
      /\ y.inv = {}
  BY <1>3 DEF Idle, CallType, Op, Pc
<1> HIDE DEF y
<1>5. Well(y)
  BY <1>3, <1>4 DEF Well
<1>6. Busy(y) = {}
  BY <1>4, <1>5, BusyShape DEF Roleless
<1> QED
  BY <1>2, <1>4, <1>5, <1>6, Beginning

LEMMA BitsAreBits ==
    ASSUME IInv, NEW u, NEW rs
    PROVE  BitsIn(db, u, rs) \subseteq Bit
<1>1. \A r \in rs \cap db.live : db.bits[r] \subseteq Bit
  BY DbShape DEF IInv, Inv
<1> QED
  BY <1>1 DEF BitsIn

(* A resolve reads on.                                                     *)
LEMMA ResolveGoesOn ==
    ASSUME IInv, NEW c \in Caller, call[c].op = "resolve", NEW bits \in SUBSET Bit,
           NEW pc \in {"guild", "set"},
           GoesOn(c, [call[c] EXCEPT !.row = call[c].row \cup bits, !.pc = pc]),
           UNCHANGED <<db, member, cache, aged>>
    PROVE  IInv'
<1> DEFINE x == call[c]
           y == [x EXCEPT !.row = x.row \cup bits, !.pc = pc]
<1>1. x \in CallType /\ Well(x)
  BY DEF IInv, Inv, Calls
<1>2. /\ x.row \subseteq Bit \cup {ServerOwner} /\ x.key \in Key /\ Busy(x) = {} /\ x.pc # "inv"
      /\ x.inv = {}
  BY <1>1, BusyShape DEF Well, Roleless
<1>3. /\ y \in CallType /\ y.op = "resolve" /\ y.pc = pc /\ y.key = x.key
      /\ y.row = x.row \cup bits /\ y.inv = {}
  BY <1>1, <1>2 DEF CallType, Pc
<1>4. GoesOn(c, y)
  OBVIOUS
<1> HIDE DEF y
<1>5. Well(y)
  BY <1>2, <1>3 DEF Well
<1>6. Busy(y) = {}
  BY <1>3, <1>5, BusyShape DEF Roleless
<1> QED
  BY <1>2, <1>3, <1>4, <1>5, <1>6, CallOnly

LEMMA ResolvingKeeps ==
    ASSUME IInv, NEW c \in Caller, ResolveBot(c) \/ ResolveGuild(c)
    PROVE  IInv'
<1>1. CASE ResolveBot(c)
  <2> DEFINE pc == IF call[c].key[2] = "bot" THEN "set" ELSE "guild"
             bits == BitsIn(db, call[c].key[1], BotRole)
  <2>1. pc \in {"guild", "set"} /\ bits \in SUBSET Bit
    BY BitsAreBits
  <2>2. /\ call[c].op = "resolve" /\ UNCHANGED <<db, member, cache, aged>>
        /\ GoesOn(c, [call[c] EXCEPT !.row = call[c].row \cup bits, !.pc = pc])
    BY <1>1 DEF ResolveBot, At
  <2> HIDE DEF pc, bits
  <2> QED
    BY <2>1, <2>2, ResolveGoesOn
<1>2. CASE ResolveGuild(c)
  <2> DEFINE pc == "set"
             bits == BitsIn(db, call[c].key[1], ServerRole)
  <2>1. pc \in {"guild", "set"} /\ bits \in SUBSET Bit
    BY BitsAreBits
  <2>2. /\ call[c].op = "resolve" /\ UNCHANGED <<db, member, cache, aged>>
        /\ GoesOn(c, [call[c] EXCEPT !.row = call[c].row \cup bits, !.pc = pc])
    BY <1>2 DEF ResolveGuild, At
  <2> HIDE DEF pc, bits
  <2> QED
    BY <2>1, <2>2, ResolveGoesOn
<1> QED
  BY <1>1, <1>2

LEMMA ResolveSetKeeps ==
    ASSUME IInv, NEW c \in Caller, ResolveSet(c)
    PROVE  IInv'
<1> DEFINE x == call[c]
           k == x.key
           v == Effective(x.row)
<1>1. /\ x \in CallType /\ Well(x) /\ x.op = "resolve" /\ x.pc = "set"
      /\ GoesOn(c, Idle) /\ UNCHANGED <<db, member>>
  BY DEF ResolveSet, At, Ends, IInv, Inv, Calls
<1>2. /\ cache' = [cache EXCEPT ![k] = v]
      /\ aged' = IF v \ {ServerOwner} = Resolved(db, k) THEN aged \ {k} ELSE aged \cup {k}
  BY DEF ResolveSet
<1>3. k \in Key /\ x.row \subseteq Bit \cup {ServerOwner} /\ Busy(x) = {} /\ x.inv = {}
  BY <1>1, BusyShape DEF Well, Roleless
<1>4. v \subseteq Bit \cup {ServerOwner}
  BY <1>3 DEF Effective
<1> HIDE DEF v
<1>5. /\ cache'[k] = v
      /\ \A j \in Key : j # k => cache'[j] = cache[j] /\ (j \in aged => j \in aged')
  BY <1>2, <1>3 DEF IInv, Caches
<1>6. StaleHasReason'
  <2>1. ASSUME NEW j \in Key
        PROVE  \/ cache'[j] \ {ServerOwner} = Resolved(db', j)
               \/ j \in aged'
               \/ /\ cache'[j] = cache[j] /\ Resolved(db', j) = Resolved(db, j)
                  /\ j \in aged => j \in aged'
    <3>1. CASE j = k
      BY <1>1, <1>2, <1>5, <3>1
    <3>2. CASE j # k
      BY <1>1, <1>5, <3>2
    <3> QED
      BY <3>1, <3>2
  <2> QED
    BY <1>1, <1>3, <2>1, StaleStep DEF IInv, Inv
<1>7. Caches' /\ aged' \subseteq Key
  BY <1>2, <1>3, <1>4 DEF IInv, Inv, TypeOK, Caches
<1>8. db' = db /\ db' \in DbType /\ \A q \in ServerRole : OwnerBit \notin db'.bits[q]
  BY <1>1, DbIs DEF IInv, Inv
<1>9. \A q \in Role : Framed(db, db', q)
  BY <1>8 DEF Framed
<1>10. db'.live = db.live
  BY <1>8
<1> QED
  BY <1>1, <1>3, <1>6, <1>7, <1>8, <1>9, <1>10, RolelessEnds

LEMMA ExpireKeeps ==
    ASSUME IInv, Expire
    PROVE  IInv'
<1>1. PICK k \in Key : /\ cache' = [cache EXCEPT ![k] = None] /\ aged' = aged \ {k}
                       /\ UNCHANGED <<db, member, call, count, torn>>
  BY DEF Expire
<1>2. Calls' /\ Alone' /\ Tables'
  BY <1>1 DEF IInv, Inv, Calls, Alone, Tables
<1>3. Caches' /\ aged' \subseteq Key
  BY <1>1 DEF IInv, Inv, TypeOK, Caches
<1>4. StaleHasReason'
  <2> SUFFICES ASSUME NEW j \in Key, cache'[j] # None,
                      cache'[j] \ {ServerOwner} # Resolved(db', j)
               PROVE  Excused(j, aged', call', torn')
    BY StaleIs
  <2>1. j # k /\ cache'[j] = cache[j]
    BY <1>1 DEF IInv, Caches
  <2>2. Excused(j, aged, call, torn)
    BY <1>1, <2>1, StaleIs DEF IInv, Inv, Stale
  <2> QED
    BY <1>1, <2>1, <2>2 DEF Excused
<1>5. TypeOK'
  BY <1>1, <1>3, TypeKept DEF IInv, Inv, TypeOK
<1> QED
  BY <1>2, <1>3, <1>4, <1>5 DEF IInv, Inv

-----------------------------------------------------------------------------
(* Failures and restarts.                                                  *)

(* Roles that two calls would meet at are torn.                            *)
LEMMA OverlapsAreTorn ==
    ASSUME Alone
    PROVE  Overlapped(call) \subseteq torn
BY DEF Alone, Overlapped

LEMMA DatabaseFailsKeeps ==
    ASSUME IInv, NEW c \in Caller, DatabaseFails(c)
    PROVE  IInv'
<1>1. /\ call' = [call EXCEPT ![c] = Idle] /\ torn' = torn \cup Busy(call[c])
      /\ UNCHANGED <<db, member, cache, aged>> /\ call[c].pc # "inv"
  BY DEF DatabaseFails
<1>2. call \in [Caller -> CallType] /\ DOMAIN call = Caller /\ call[c] \in CallType /\ Well(call[c])
  BY DEF IInv, Inv, Calls
<1>3. Busy(call[c]) \subseteq Role /\ call[c].inv = {} /\ db.live \subseteq Role /\ torn \subseteq Role
  BY <1>1, <1>2, BusyShape, DbShape DEF Well, IInv, Inv, TypeOK
<1>4. \A e \in Caller : call'[e] = IF e = c THEN Idle ELSE call[e]
  BY <1>1, <1>2
<1>5. Overlapped(call') \subseteq torn'
  <2>1. Overlapped(call') \subseteq Overlapped(call)
    BY <1>4, IdleIsWell DEF Overlapped
  <2> QED
    BY <1>1, <2>1, OverlapsAreTorn DEF IInv, Inv
<1>6. Alone' /\ Tables'
  <2> DEFINE rec == Idle
  <2>1. Busy(rec) = {} /\ call' = [call EXCEPT ![c] = rec]
    BY <1>1, IdleIsWell
  <2> HIDE DEF rec
  <2>2. \A r \in (db'.live \ torn') \cap (Busy(call[c]) \cup Busy(rec)) :
          (IF r \in Busy(call[c]) THEN Under(db, member, call[c], r) ELSE Agreed(db, member, r))
          => (IF r \in Busy(rec) THEN Under(db', member', rec, r) ELSE Agreed(db', member', r))
    BY <1>1, <2>1
  <2>3. \A r \in Role \ (Busy(call[c]) \cup Busy(rec)) :
          /\ Agreed(db, member, r) => Agreed(db', member', r)
          /\ \A e \in Caller : r \in Busy(call[e]) /\ Under(db, member, call[e], r)
                                 => Under(db', member', call[e], r)
    BY <1>1
  <2>4. Busy(rec) \subseteq Role /\ torn \subseteq torn' /\ db'.live \subseteq db.live
    BY <1>1, <2>1
  <2> QED
    BY <1>2, <1>3, <1>5, <2>1, <2>2, <2>3, <2>4, OneStep DEF IInv, Inv
<1>7. Calls'
  BY <1>1, <1>2, IdleIsWell DEF IInv, Inv, Calls
<1>8. StaleHasReason'
  <2> SUFFICES ASSUME NEW j \in Key, cache'[j] # None,
                      cache'[j] \ {ServerOwner} # Resolved(db', j)
               PROVE  Excused(j, aged', call', torn')
    BY StaleIs
  <2>1. Excused(j, aged, call, torn)
    BY <1>1, StaleIs DEF IInv, Inv, Stale
  <2>2. \A e \in Caller : call[e].inv \subseteq call'[e].inv
    BY <1>3, <1>4, IdleIsWell
  <2> QED
    BY <1>1, <2>1, <2>2 DEF Excused
<1>9. Caches' /\ torn' \subseteq Role
  BY <1>1, <1>3 DEF IInv, Caches
<1>10. TypeOK'
  BY <1>1, <1>9, TypeKept DEF IInv, Inv, TypeOK
<1> QED
  BY <1>6, <1>7, <1>8, <1>9, <1>10 DEF IInv, Inv

(* The legacy migration gives a grant to who is on a list without one.     *)
LEMMA MigratedIs ==
    ASSUME IInv, db' = Migrated(db)
    PROVE  /\ db' \in DbType /\ db'.live = db.live /\ db'.bits = db.bits
           /\ db'.assigned = db.assigned /\ db'.links = db.links
           /\ \A u \in User, q \in Role : Grants(db', u, q) =
                IF Grants(db, u, q) = {} /\ q \in db.live /\ u \in db.assigned[q]
                THEN {"direct"} ELSE Grants(db, u, q)
<1> DEFINE g == [ur \in User \X Role |->
                   IF db.grants[ur] = {} /\ ur[2] \in db.live /\ ur[1] \in db.assigned[ur[2]]
                   THEN {"direct"} ELSE db.grants[ur]]
<1>1. db' = [db EXCEPT !.grants = g]
  BY DbShape DEF Migrated, IInv, Inv
<1>2. /\ g \in [User \X Role -> SUBSET Source]
      /\ \A u \in User, q \in Role : g[<<u, q>>] =
           IF Grants(db, u, q) = {} /\ q \in db.live /\ u \in db.assigned[q]
           THEN {"direct"} ELSE Grants(db, u, q)
  BY DbShape DEF IInv, Inv, Grants, Source
<1> HIDE DEF g
<1>3. /\ db' \in DbType /\ db'.live = db.live /\ db'.bits = db.bits
      /\ db'.assigned = db.assigned /\ db'.links = db.links /\ db'.grants = g
  BY <1>1, <1>2, DbIs DEF IInv, Inv, DbType
<1> QED
  BY <1>2, <1>3 DEF Grants

LEMMA RestartKeeps ==
    ASSUME IInv, Restart
    PROVE  IInv'
<1>1. /\ call' = [c \in Caller |-> Idle]
      /\ torn' = torn \cup UNION {Busy(call[c]) : c \in Caller}
      /\ db' = Migrated(db) /\ member' = member
  BY DEF Restart
<1>2. /\ db' \in DbType /\ db'.live = db.live /\ db'.bits = db.bits
      /\ db'.assigned = db.assigned /\ db'.links = db.links
      /\ \A u \in User, q \in Role : Grants(db', u, q) =
           IF Grants(db, u, q) = {} /\ q \in db.live /\ u \in db.assigned[q]
           THEN {"direct"} ELSE Grants(db, u, q)
  BY <1>1, MigratedIs
<1>3. Calls' /\ \A c \in Caller : Busy(call'[c]) = {}
  BY <1>1, IdleIsWell DEF Calls
<1>4. Alone'
  BY <1>3 DEF Alone
<1>5. Tables'
  <2> SUFFICES ASSUME NEW r \in db'.live, r \notin torn'
               PROVE  Agreed(db', member', r)
    BY <1>3 DEF Tables
  <2>1. r \in Role /\ r \in db.live \ torn /\ \A c \in Caller : r \notin Busy(call[c])
    BY <1>1, <1>2, DbShape DEF IInv, Inv
  <2>2. Agreed(db, member, r)
    BY <2>1 DEF IInv, Inv, Tables
  <2>3. \A u \in User : Grants(db', u, r) = Grants(db, u, r)
    BY <1>2, <2>1, <2>2 DEF Agreed, Granted
  <2>4. Framed(db, db', r)
    BY <1>2, <2>3 DEF Framed
  <2> QED
    BY <1>1, <2>2, <2>4, FrameAgreed
<1>6. torn \subseteq torn' /\ torn' \subseteq Role
  <2>1. \A c \in Caller : Busy(call[c]) \subseteq Role
    BY BusyShape DEF IInv, Inv, Calls
  <2> QED
    BY <1>1, <2>1 DEF IInv, Inv, TypeOK
<1>7. Caches' /\ aged' \subseteq Key
  BY DEF Restart, IInv, Inv, TypeOK, Caches
<1>8. StaleHasReason'
  <2> SUFFICES ASSUME NEW k \in Key, cache'[k] # None,
                      cache'[k] \ {ServerOwner} # Resolved(db', k)
               PROVE  Excused(k, aged', call', torn')
    BY StaleIs
  <2>1. Redis
    BY DEF Restart
  <2>2. /\ cache' = cache
        /\ aged' = aged \cup {j \in Key : cache[j] # None /\ \E c \in Caller : j[1] \in call[c].inv}
    BY <2>1 DEF Restart
  <2>3. Resolved(db', k) = Resolved(db, k)
    BY <1>2, SameResolved
  <2>4. Excused(k, aged, call, torn)
    BY <2>2, <2>3, StaleIs DEF IInv, Inv, Stale
  <2> QED
    BY <1>6, <2>2, <2>4 DEF Excused
<1>9. \A r \in ServerRole : OwnerBit \notin db'.bits[r]
  BY <1>2, DbIs DEF IInv, Inv
<1>10. TypeOK'
  BY <1>1, <1>2, <1>6, <1>7, <1>9, TypeKept DEF IInv, Inv, TypeOK, DbType
<1> QED
  BY <1>3, <1>4, <1>5, <1>7, <1>8, <1>10 DEF IInv, Inv

-----------------------------------------------------------------------------
(* The specification.                                                      *)

LEMMA InitialHolds == Init => IInv
<1> SUFFICES ASSUME Init PROVE IInv
  OBVIOUS
<1>1. member \in SUBSET User /\ cache = [k \in Key |-> None] /\ call = [c \in Caller |-> Idle]
      /\ torn = {} /\ aged = {}
  BY DEF Init
<1>2. PICK direct \in [Role -> SUBSET User] :
        LET linked(r) == IF r \in Linked THEN member ELSE {}
        IN db = [live |-> Role, bits |-> [r \in Role |-> Bit \ {OwnerBit}],
                 assigned |-> [r \in Role |-> direct[r] \cup linked(r)],
                 grants |-> [ur \in User \X Role |->
                     (IF ur[1] \in direct[ur[2]] THEN {"direct"} ELSE {}) \cup
                     (IF ur[1] \in linked(ur[2]) THEN {"discord_role"} ELSE {})],
                 links |-> Linked]
  BY DEF Init
<1> DEFINE linked(r) == IF r \in Linked THEN member ELSE {}
           b == [r \in Role |-> Bit \ {OwnerBit}]
           a == [r \in Role |-> direct[r] \cup linked(r)]
           g == [ur \in User \X Role |->
                   (IF ur[1] \in direct[ur[2]] THEN {"direct"} ELSE {}) \cup
                   (IF ur[1] \in linked(ur[2]) THEN {"discord_role"} ELSE {})]
<1>3. db = [live |-> Role, bits |-> b, assigned |-> a, grants |-> g, links |-> Linked]
  BY <1>2
<1>4. b \in [Role -> SUBSET Bit] /\ \A r \in Role : OwnerBit \notin b[r]
  OBVIOUS
<1>5. a \in [Role -> SUBSET User] /\ \A r \in Role : a[r] = direct[r] \cup linked(r)
  BY <1>1
<1>6. /\ g \in [User \X Role -> SUBSET Source]
      /\ \A u \in User, r \in Role :
           g[<<u, r>>] = (IF u \in direct[r] THEN {"direct"} ELSE {}) \cup
                         (IF u \in linked(r) THEN {"discord_role"} ELSE {})
  BY DEF Source
<1> HIDE DEF a, b, g
<1>7. /\ db \in DbType /\ db.live = Role /\ db.bits = b /\ db.assigned = a /\ db.grants = g
      /\ db.links = Linked
  BY <1>3, <1>4, <1>5, <1>6, PermissionsAssumption DEF DbType, Role
<1>8. Calls /\ \A c \in Caller : Busy(call[c]) = {}
  BY <1>1, IdleIsWell DEF Calls
<1>9. Alone
  BY <1>8 DEF Alone
<1>10. ASSUME NEW r \in Role PROVE Agreed(db, member, r)
  <2>1. Granted(db, r) = db.assigned[r]
    <3> DEFINE l == linked(r)
    <3>1. l \subseteq User /\ direct[r] \subseteq User
      BY <1>1
    <3>2. db.assigned[r] = direct[r] \cup l
      BY <1>5, <1>7
    <3>3. \A u \in User : Grants(db, u, r) =
            (IF u \in direct[r] THEN {"direct"} ELSE {}) \cup (IF u \in l THEN {"discord_role"} ELSE {})
      BY <1>6, <1>7 DEF Grants
    <3> HIDE DEF l
    <3>4. \A u \in User : Grants(db, u, r) # {} <=> u \in direct[r] \/ u \in l
      BY <3>3
    <3> QED
      BY <3>1, <3>2, <3>4 DEF Granted
  <2>2. Earned(db, member, r)
    BY <1>6, <1>7 DEF Earned, Grants
  <2> QED
    BY <2>1, <2>2 DEF Agreed
<1>11. Tables
  BY <1>7, <1>8, <1>10 DEF Tables
<1>12. Caches /\ StaleHasReason
  BY <1>1 DEF Caches, StaleHasReason, Stale
<1>13. TypeOK
  BY <1>1, <1>4, <1>7, <1>12, NoneIsNoRole DEF TypeOK, DbType, Caches
<1> QED
  BY <1>8, <1>9, <1>11, <1>12, <1>13 DEF IInv, Inv

LEMMA StepsKeep == IInv /\ [Next]_vars => IInv'
<1> SUFFICES ASSUME IInv, [Next]_vars PROVE IInv'
  OBVIOUS
<1>1. ASSUME NEW c \in Caller, Begin(c) PROVE IInv'
  BY <1>1, BeginAssignKeeps, BeginUpdateKeeps, BeginDeleteKeeps, BeginLinkKeeps,
     BeginUnlinkKeeps, MemberUpdateKeeps, BeginResolveKeeps DEF Begin
<1>2. ASSUME NEW c \in Caller, Step(c) PROVE IInv'
  BY <1>2, AssignGrantKeeps, RevokeGrantKeeps, RevokeStillKeeps, WriteAssignedKeeps,
     InvalidateKeeps, UpdateBitsKeeps, DeleteRowKeeps, InsertLinkKeeps, UnlinkGrantsKeeps,
     UnlinkListKeeps, UnlinkReadKeeps, SyncBotsKeeps, SyncGrantKeeps, SyncStillKeeps,
     SyncReadKeeps, ResolvingKeeps, ResolveSetKeeps DEF Step
<1>3. ASSUME NEW c \in Caller, DatabaseFails(c) PROVE IInv'
  BY <1>3, DatabaseFailsKeeps
<1>4. CASE UNCHANGED vars
  BY <1>4 DEF vars, IInv, Inv, TypeOK, Calls, Alone, Tables, StaleHasReason, Stale, Caches
<1> QED
  BY <1>1, <1>2, <1>3, <1>4, ExpireKeeps, RestartKeeps DEF Next

LEMMA InvariantHolds == Spec => []IInv
BY InitialHolds, StepsKeep, PTL DEF Spec

(* The list of a role and its grants agree, and Discord grants are earned,
   for any number of users, roles and calls: where the users of a role were
   changed by one call at a time, that call may have been delayed, have met
   a deletion or a member update, or be done, and the list it wrote back is
   that of the grants (permissions.ts:680, :717, :1451, :1527).            *)
THEOREM ListsFollowGrants == Spec => []HoldersHaveReasons
<1>1. IInv => HoldersHaveReasons
  <2> SUFFICES ASSUME IInv PROVE AssignedIsGranted /\ DiscordGrantsAreEarned
    BY DEF HoldersHaveReasons, IInv, Inv
  <2>1. ASSUME NEW r \in Role, Quiet(r) PROVE Agreed(db, member, r)
    BY <2>1 DEF Quiet, IInv, Inv, Tables
  <2> QED
    BY <2>1 DEF AssignedIsGranted, DiscordGrantsAreEarned, Agreed, Granted, Earned, HasAnyGrant
<1> QED
  BY <1>1, InvariantHolds, PTL

(* A cached answer that differs from the tables has one of the named
   reasons, whatever calls overlap: every call that changes who holds a role
   removes what is cached for them before it ends, or has yet to
   (permissionCache.ts:50, permissions.ts:536).                            *)
THEOREM StaleAnswersAreExplained == Spec => []StaleHasReason
<1>1. IInv => StaleHasReason
  BY DEF IInv, Inv
<1> QED
  BY <1>1, InvariantHolds, PTL

-----------------------------------------------------------------------------
(* The guild gate, for any number of processes, operations and gates.      *)

GateCall == [op: {"none", "block", "unblock"}, gate: Gate \cup {"none"},
             pc: {"idle", "sent", "done"}]

GateShape ==
    /\ g_db \subseteq Gate /\ g_ready \subseteq Process
    /\ g_presence \in [Process -> SUBSET Gate]
    /\ g_warming \in [Process -> [on: BOOLEAN, rows: SUBSET Gate]]
    /\ g_call \in [Process -> [Operation -> GateCall]]
    /\ g_crossed \in [Process -> SUBSET Gate] /\ g_foreign \in [Process -> SUBSET Gate]

On(x, g) == x.pc # "idle" /\ x.gate = g

(* The operation under way has a gate; on a gate where none crossed there  *)
(* is one at most.                                                         *)
GateCalls == \A p \in Process : \A c \in Operation :
    /\ g_call[p][c].pc # "idle" =>
          g_call[p][c].gate \in Gate /\ g_call[p][c].op \in {"block", "unblock"} /\ p \in g_ready
    /\ \A d \in Operation, g \in Gate \ g_crossed[p] :
          On(g_call[p][c], g) /\ On(g_call[p][d], g) => c = d

(* A gate of which the memory follows the database: until the statement is *)
(* executed they agree, from then on until the memory follows the database *)
(* is what the operation has made it.                                      *)
Followed(p, g) ==
    /\ (\A c \in Operation : On(g_call[p][c], g) => g_call[p][c].pc = "sent")
          => (g \in g_presence[p] <=> g \in g_db)
    /\ \A c \in Operation : On(g_call[p][c], g) /\ g_call[p][c].pc = "done"
          => (g \in g_db <=> g_call[p][c].op = "block")

GatesFollow == \A p \in g_ready : \A g \in Gate \ (g_crossed[p] \cup g_foreign[p]) : Followed(p, g)

(* What a process read is still so, until it takes it over.                *)
GatesWarm == \A p \in Process : g_warming[p].on =>
    /\ p \notin g_ready
    /\ \A g \in Gate \ g_foreign[p] : g \in g_warming[p].rows <=> g \in g_db

GateInv == GateShape /\ GateCalls /\ GatesFollow /\ GatesWarm

(* One operation of one process goes on to y.                              *)
LEMMA SetGateCall ==
    ASSUME GateShape, NEW p \in Process, NEW c \in Operation, NEW y \in GateCall,
           g_call' = [g_call EXCEPT ![p][c] = y]
    PROVE  /\ g_call' \in [Process -> [Operation -> GateCall]]
           /\ \A q \in Process, d \in Operation :
                 g_call'[q][d] = IF q = p /\ d = c THEN y ELSE g_call[q][d]
BY DEF GateShape

LEMMA GateInit == Gates!Init => GateInv
BY DEF Gates!Init, Gates!Idle, Gates!Cold, GateInv, GateShape, GateCall, GateCalls, GatesFollow,
       GatesWarm, On

LEMMA GateWarm ==
    ASSUME GateInv, NEW p \in Process, Gates!Warm(p)
    PROVE  GateInv'
<1>1. /\ GateShape /\ GateCalls /\ GatesFollow /\ GatesWarm
      /\ p \notin g_ready
      /\ g_warming' = [g_warming EXCEPT ![p] = [on |-> TRUE, rows |-> g_db]]
      /\ g_foreign' = [g_foreign EXCEPT ![p] = {}]
      /\ UNCHANGED <<g_db, g_presence, g_ready, g_call, g_crossed>>
  BY DEF Gates!Warm, GateInv
<1>2. GateShape'
  BY <1>1 DEF GateShape
<1>3. GateCalls'
  BY <1>1 DEF GateCalls, On
<1>4. GatesFollow'
  <2> SUFFICES ASSUME NEW q \in g_ready, NEW g \in Gate \ (g_crossed[q] \cup g_foreign'[q])
               PROVE  Followed(q, g)'
    BY <1>1 DEF GatesFollow
  <2>1. q # p /\ g_foreign'[q] = g_foreign[q]
    BY <1>1 DEF GateShape
  <2> QED
    BY <1>1, <2>1 DEF GatesFollow, Followed, On
<1>5. GatesWarm'
  BY <1>1 DEF GatesWarm, GateShape
<1> QED
  BY <1>2, <1>3, <1>4, <1>5 DEF GateInv

LEMMA GateReady ==
    ASSUME GateInv, NEW p \in Process, Gates!Ready(p)
    PROVE  GateInv'
<1>1. /\ GateShape /\ GateCalls /\ GatesFollow /\ GatesWarm
      /\ g_warming[p].on
      /\ g_presence' = [g_presence EXCEPT ![p] = g_warming[p].rows]
      /\ g_warming' = [g_warming EXCEPT ![p] = [on |-> FALSE, rows |-> {}]]
      /\ g_ready' = g_ready \cup {p}
      /\ UNCHANGED <<g_db, g_call, g_crossed, g_foreign>>
  BY DEF Gates!Ready, Gates!Cold, GateInv
<1>2. GateShape'
  BY <1>1 DEF GateShape
<1>3. GateCalls'
  BY <1>1 DEF GateCalls, On
<1>4. GatesFollow'
  <2> SUFFICES ASSUME NEW q \in g_ready', NEW g \in Gate \ (g_crossed[q] \cup g_foreign[q])
               PROVE  Followed(q, g)'
    BY <1>1 DEF GatesFollow
  <2>1. CASE q = p
    <3>1. \A c \in Operation : g_call[p][c].pc = "idle"
      BY <1>1 DEF GateCalls, GatesWarm
    <3>2. g_presence'[p] = g_warming[p].rows
      BY <1>1 DEF GateShape
    <3> QED
      BY <1>1, <2>1, <3>1, <3>2 DEF Followed, On, GatesWarm
  <2>2. CASE q # p
    <3>1. q \in g_ready /\ g_presence'[q] = g_presence[q]
      BY <1>1, <2>2 DEF GateShape
    <3> QED
      BY <1>1, <3>1 DEF GatesFollow, Followed, On
  <2> QED
    BY <2>1, <2>2
<1>5. GatesWarm'
  BY <1>1 DEF GatesWarm, GateShape
<1> QED
  BY <1>2, <1>3, <1>4, <1>5 DEF GateInv

LEMMA GateRestart ==
    ASSUME GateInv, NEW p \in Process, Gates!Restart(p)
    PROVE  GateInv'
<1> DEFINE idle == [op |-> "none", gate |-> "none", pc |-> "idle"]
<1>1. /\ GateShape /\ GateCalls /\ GatesFollow /\ GatesWarm
      /\ g_presence' = [g_presence EXCEPT ![p] = {}]
      /\ g_ready' = g_ready \ {p}
      /\ g_warming' = [g_warming EXCEPT ![p] = [on |-> FALSE, rows |-> {}]]
      /\ g_call' = [g_call EXCEPT ![p] = [c \in Operation |-> idle]]
      /\ g_crossed' = [g_crossed EXCEPT ![p] = {}]
      /\ g_foreign' = [g_foreign EXCEPT ![p] = {}]
      /\ UNCHANGED g_db
  BY DEF Gates!Restart, Gates!Cold, Gates!Idle, GateInv
<1>2. /\ idle \in GateCall /\ idle.pc = "idle"
  BY DEF GateCall
<1> HIDE DEF idle
<1>3. GateShape'
  BY <1>1, <1>2 DEF GateShape
<1>4. \A q \in Process : IF q = p THEN \A c \in Operation : g_call'[q][c] = idle
                         ELSE /\ g_call'[q] = g_call[q] /\ g_crossed'[q] = g_crossed[q]
                              /\ g_foreign'[q] = g_foreign[q] /\ g_presence'[q] = g_presence[q]
                              /\ g_warming'[q] = g_warming[q]
  BY <1>1 DEF GateShape
<1>5. GateCalls'
  BY <1>1, <1>2, <1>4 DEF GateCalls, On
<1>6. GatesFollow'
  <2> SUFFICES ASSUME NEW q \in g_ready', NEW g \in Gate \ (g_crossed'[q] \cup g_foreign'[q])
               PROVE  Followed(q, g)'
    BY DEF GatesFollow
  <2>1. q \in Process /\ q \in g_ready /\ q # p
    BY <1>1 DEF GateShape
  <2> QED
    BY <1>1, <1>4, <2>1 DEF GatesFollow, Followed, On
<1>7. GatesWarm'
  <2> SUFFICES ASSUME NEW q \in Process, g_warming'[q].on
               PROVE  /\ q \notin g_ready'
                      /\ \A g \in Gate \ g_foreign'[q] : g \in g_warming'[q].rows <=> g \in g_db'
    BY DEF GatesWarm
  <2>1. q # p
    BY <1>1 DEF GateShape
  <2> QED
    BY <1>1, <1>4, <2>1 DEF GatesWarm
<1> QED
  BY <1>3, <1>5, <1>6, <1>7 DEF GateInv

LEMMA GateBegin ==
    ASSUME GateInv, NEW p \in Process, NEW c \in Operation, NEW op \in {"block", "unblock"},
           NEW g \in Gate, Gates!Begin(p, c, op, g)
    PROVE  GateInv'
<1> DEFINE y == [op |-> op, gate |-> g, pc |-> "sent"]
<1>1. /\ GateShape /\ GateCalls /\ GatesFollow /\ GatesWarm
      /\ p \in g_ready /\ g_call[p][c].pc = "idle"
      /\ g_call' = [g_call EXCEPT ![p][c] = y]
      /\ UNCHANGED <<g_db, g_presence, g_ready, g_warming, g_foreign>>
  BY DEF Gates!Begin, GateInv
<1>2. /\ g_crossed' \in [Process -> SUBSET Gate]
      /\ \A q \in Process : g_crossed[q] \subseteq g_crossed'[q]
      /\ g \notin g_crossed'[p] => \A d \in Operation \ {c} : g_call[p][d].gate # g
  <2>1. g_crossed' = [g_crossed EXCEPT ![p] =
                         IF \E d \in Operation \ {c} : g_call[p][d].gate = g THEN @ \cup {g} ELSE @]
    BY DEF Gates!Begin
  <2> QED
    BY <1>1, <2>1 DEF GateShape
<1>3. y \in GateCall /\ y.op = op /\ y.gate = g /\ y.pc = "sent"
  BY DEF GateCall
<1> HIDE DEF y
<1>4. /\ g_call' \in [Process -> [Operation -> GateCall]]
      /\ \A q \in Process, d \in Operation :
            g_call'[q][d] = IF q = p /\ d = c THEN y ELSE g_call[q][d]
  BY <1>1, <1>3, SetGateCall
<1>5. GateShape'
  BY <1>1, <1>2, <1>4 DEF GateShape
<1>6. GateCalls'
  BY <1>1, <1>2, <1>3, <1>4 DEF GateCalls, On
<1>7. GatesFollow'
  <2> SUFFICES ASSUME NEW q \in g_ready, NEW h \in Gate \ (g_crossed'[q] \cup g_foreign[q])
               PROVE  Followed(q, h)'
    BY <1>1 DEF GatesFollow
  <2>1. q \in Process /\ Followed(q, h)
    BY <1>1, <1>2 DEF GatesFollow, GateShape
  <2>2. CASE q = p /\ h = g
    <3>1. \A d \in Operation : On(g_call[p][d], g) => FALSE
      BY <1>1, <1>2, <2>2 DEF On
    <3> QED
      BY <1>1, <1>3, <1>4, <2>1, <2>2, <3>1 DEF Followed, On
  <2>3. CASE ~(q = p /\ h = g)
    <3>1. \A d \in Operation : /\ On(g_call'[q][d], h) <=> On(g_call[q][d], h)
                               /\ On(g_call[q][d], h) => g_call'[q][d] = g_call[q][d]
      BY <1>1, <1>3, <1>4, <2>1, <2>3 DEF On
    <3> QED
      BY <1>1, <2>1, <3>1 DEF Followed
  <2> QED
    BY <2>2, <2>3
<1>8. GatesWarm'
  BY <1>1 DEF GatesWarm
<1> QED
  BY <1>5, <1>6, <1>7, <1>8 DEF GateInv

LEMMA GateExecute ==
    ASSUME GateInv, NEW p \in Process, NEW c \in Operation, Gates!Execute(p, c)
    PROVE  GateInv'
<1> DEFINE x == g_call[p][c]
           y == [op |-> x.op, gate |-> x.gate, pc |-> "done"]
<1>1. /\ GateShape /\ GateCalls /\ GatesFollow /\ GatesWarm
      /\ x.pc = "sent"
      /\ g_db' = IF x.op = "block" THEN g_db \cup {x.gate} ELSE g_db \ {x.gate}
      /\ g_call' = [g_call EXCEPT ![p][c].pc = "done"]
      /\ UNCHANGED <<g_presence, g_ready, g_warming, g_crossed>>
  BY DEF Gates!Execute, GateInv
<1>2. /\ x \in GateCall /\ x.gate \in Gate /\ x.op \in {"block", "unblock"} /\ On(x, x.gate)
      /\ p \in g_ready
  BY <1>1 DEF GateShape, GateCalls, On
<1>3. y \in GateCall /\ y.op = x.op /\ y.gate = x.gate /\ y.pc = "done"
  BY <1>2 DEF GateCall
<1>4. /\ g_call' \in [Process -> [Operation -> GateCall]]
      /\ \A q \in Process, d \in Operation :
            g_call'[q][d] = IF q = p /\ d = c THEN y ELSE g_call[q][d]
  <2>1. [x EXCEPT !.pc = "done"] = y
    BY <1>2 DEF GateCall
  <2>2. g_call' = [g_call EXCEPT ![p][c] = y]
    BY <1>1, <2>1 DEF GateShape
  <2>3. y \in GateCall /\ GateShape
    BY <1>1, <1>3
  <2> HIDE DEF x, y
  <2> QED
    BY <2>2, <2>3, SetGateCall
<1>5. /\ g_foreign' \in [Process -> SUBSET Gate]
      /\ \A q \in Process : g_foreign[q] \subseteq g_foreign'[q]
      /\ \A q \in Process \ {p} : \A g \in Gate \ g_foreign'[q] : g \in g_db' <=> g \in g_db
  <2>1. g_foreign' = [q \in Process |-> IF q = p \/ g_db' = g_db THEN g_foreign[q]
                                        ELSE g_foreign[q] \cup {x.gate}]
    BY DEF Gates!Execute
  <2> QED
    BY <1>1, <1>2, <2>1 DEF GateShape
<1> HIDE DEF x, y
<1>6. GateShape'
  BY <1>1, <1>2, <1>4, <1>5 DEF GateShape
<1>7. \A q \in Process, d \in Operation : \A g : On(g_call'[q][d], g) <=> On(g_call[q][d], g)
  BY <1>1, <1>3, <1>4 DEF On, x
<1>8. GateCalls'
  BY <1>1, <1>2, <1>3, <1>4, <1>7 DEF GateCalls, On, x
<1>9. GatesFollow'
  <2> SUFFICES ASSUME NEW q \in g_ready, NEW g \in Gate \ (g_crossed[q] \cup g_foreign'[q])
               PROVE  Followed(q, g)'
    BY <1>1 DEF GatesFollow
  <2>1. q \in Process /\ Followed(q, g)
    BY <1>1, <1>5 DEF GatesFollow, GateShape
  <2>2. CASE q = p /\ g = x.gate
    <3>1. \A d \in Operation : On(g_call[p][d], g) => d = c
      BY <1>1, <1>2, <2>2 DEF GateCalls, x
    <3>2. On(g_call'[p][c], g) /\ g_call'[p][c].pc = "done" /\ g_call'[p][c].op = x.op
      BY <1>3, <1>4, <2>2 DEF On
    <3>3. g \in g_db' <=> x.op = "block"
      BY <1>1, <2>2
    <3> QED
      BY <1>4, <1>7, <2>1, <2>2, <3>1, <3>2, <3>3 DEF Followed
  <2>3. CASE ~(q = p /\ g = x.gate)
    <3>1. g \in g_db' <=> g \in g_db
      BY <1>1, <1>5, <2>1, <2>3
    <3>2. \A d \in Operation : On(g_call[q][d], g) => g_call'[q][d] = g_call[q][d]
      BY <1>3, <1>4, <2>1, <2>3 DEF On, x
    <3> QED
      BY <1>1, <1>7, <2>1, <3>1, <3>2 DEF Followed
  <2> QED
    BY <2>2, <2>3
<1>10. GatesWarm'
  BY <1>1, <1>2, <1>5 DEF GatesWarm
<1> QED
  BY <1>6, <1>8, <1>9, <1>10 DEF GateInv

(* An operation ends, and the memory is not changed or follows.            *)
LEMMA GateEnds ==
    ASSUME GateInv, NEW p \in Process, NEW c \in Operation,
           \/ Gates!Reject(p, c)
           \/ Gates!Finish(p, c)
    PROVE  GateInv'
<1> DEFINE x == g_call[p][c]
           idle == [op |-> "none", gate |-> "none", pc |-> "idle"]
<1>1. /\ GateShape /\ GateCalls /\ GatesFollow /\ GatesWarm
      /\ g_call' = [g_call EXCEPT ![p][c] = idle]
      /\ UNCHANGED <<g_db, g_ready, g_warming, g_crossed, g_foreign>>
  BY DEF Gates!Reject, Gates!Finish, Gates!Idle, GateInv
<1>2. \/ x.pc = "sent" /\ g_presence' = g_presence
      \/ /\ x.pc = "done"
         /\ g_presence' = [g_presence EXCEPT ![p] = IF x.op = "block" THEN @ \cup {x.gate}
                                                    ELSE @ \ {x.gate}]
  BY DEF Gates!Reject, Gates!Finish, Gates!Followed
<1>3. /\ x \in GateCall /\ x.gate \in Gate /\ x.op \in {"block", "unblock"} /\ On(x, x.gate)
      /\ p \in g_ready
  BY <1>1, <1>2 DEF GateShape, GateCalls, On
<1>4. idle \in GateCall /\ idle.pc = "idle"
  BY DEF GateCall
<1> HIDE DEF x, idle
<1>5. /\ g_call' \in [Process -> [Operation -> GateCall]]
      /\ \A q \in Process, d \in Operation :
            g_call'[q][d] = IF q = p /\ d = c THEN idle ELSE g_call[q][d]
  BY <1>1, <1>4, SetGateCall
<1>6. /\ g_presence' \in [Process -> SUBSET Gate]
      /\ \A q \in Process, g \in Gate :
            g \in g_presence'[q] <=> IF q = p /\ g = x.gate /\ x.pc = "done" THEN x.op = "block"
                                     ELSE g \in g_presence[q]
  <2>1. CASE x.pc = "sent" /\ g_presence' = g_presence
    BY <1>1, <2>1 DEF GateShape
  <2>2. CASE /\ x.pc = "done"
             /\ g_presence' = [g_presence EXCEPT ![p] = IF x.op = "block" THEN @ \cup {x.gate}
                                                        ELSE @ \ {x.gate}]
    BY <1>1, <1>3, <2>2 DEF GateShape
  <2> QED
    BY <1>2, <2>1, <2>2
<1>7. GateShape'
  BY <1>1, <1>5, <1>6 DEF GateShape
<1>8. GateCalls'
  BY <1>1, <1>4, <1>5 DEF GateCalls, On
<1>9. GatesFollow'
  <2> SUFFICES ASSUME NEW q \in g_ready, NEW g \in Gate \ (g_crossed[q] \cup g_foreign[q])
               PROVE  Followed(q, g)'
    BY <1>1 DEF GatesFollow
  <2>1. q \in Process /\ Followed(q, g)
    BY <1>1 DEF GatesFollow, GateShape
  <2>2. CASE q = p /\ g = x.gate
    <3>1. \A d \in Operation : On(g_call[p][d], g) => d = c
      BY <1>1, <1>3, <2>2 DEF GateCalls, x
    <3>2. \A d \in Operation : ~On(g_call'[p][d], g)
      BY <1>4, <1>5, <3>1 DEF On
    <3>3. g \in g_presence'[p] <=> g \in g_db
      BY <1>2, <1>3, <1>6, <2>1, <2>2, <3>1 DEF Followed, x
    <3> QED
      BY <1>1, <2>2, <3>2, <3>3 DEF Followed
  <2>3. CASE ~(q = p /\ g = x.gate)
    <3>1. g \in g_presence'[q] <=> g \in g_presence[q]
      BY <1>6, <2>1, <2>3
    <3>2. \A d \in Operation : /\ On(g_call'[q][d], g) <=> On(g_call[q][d], g)
                               /\ On(g_call[q][d], g) => g_call'[q][d] = g_call[q][d]
      BY <1>4, <1>5, <2>1, <2>3 DEF On, x
    <3> QED
      BY <1>1, <2>1, <3>1, <3>2 DEF Followed
  <2> QED
    BY <2>2, <2>3
<1>10. GatesWarm'
  BY <1>1 DEF GatesWarm
<1> QED
  BY <1>7, <1>8, <1>9, <1>10 DEF GateInv

LEMMA GateStep == GateInv /\ [Gates!Next]_(Gates!vars) => GateInv'
<1> SUFFICES ASSUME GateInv, [Gates!Next]_(Gates!vars) PROVE GateInv'
  OBVIOUS
<1>1. CASE Gates!Next
  BY <1>1, GateWarm, GateReady, GateRestart, GateBegin, GateExecute, GateEnds DEF Gates!Next
<1>2. CASE UNCHANGED Gates!vars
  BY <1>2 DEF Gates!vars, GateInv, GateShape, GateCalls, GatesFollow, Followed, GatesWarm, On
<1> QED
  BY <1>1, <1>2

(* What a process decides by is what the database says of every gate, in   *)
(* any number of processes, except where the model names the two orders in *)
(* which the code has them apart: two operations on a gate at a time, and  *)
(* one of another process (guildGate.ts, blockGuild, warmCache).           *)
LEMMA GatesCurrent == Gates!Spec => [](Gates!TypeOK /\ Gates!GateIsCurrent)
<1>1. GateInv => Gates!TypeOK
  BY DEF GateInv, GateShape, GateCall, Gates!TypeOK
<1>2. GateInv => Gates!GateIsCurrent
  <2> SUFFICES ASSUME GateInv, NEW p \in g_ready, NEW g \in Gate,
                      g \notin g_crossed[p] \cup g_foreign[p],
                      ~\E c \in Operation : g_call[p][c].gate = g
               PROVE  g \in g_presence[p] <=> g \in g_db
    BY DEF Gates!GateIsCurrent
  <2> QED
    BY DEF GateInv, GatesFollow, Followed, On
<1> QED
  BY <1>1, <1>2, GateInit, GateStep, PTL DEF Gates!Spec

-----------------------------------------------------------------------------
(* Guild access, for any number of guilds, commands and joins.             *)

Rows == {"b", "w", "o"} \X Guild

GuildCall == [op: {"none", "add", "remove", "join"}, row: Rows \cup {<<"b", "none">>},
              pc: {"idle", "sent", "done", "check"}, changed: BOOLEAN]

(* An administrator's command is not about the owner's list, a join about  *)
(* nothing else.                                                           *)
Proper(x) == x.pc # "idle" =>
    /\ x.row \in Rows
    /\ IF x.op = "join" THEN x.row = <<"o", x.row[2]>> ELSE x.op \in {"add", "remove"} /\ x.row[1] # "o"

Working(x) == x.pc \in {"sent", "done"}

GuildShape ==
    /\ a_db \subseteq Rows /\ a_presence \subseteq Rows
    /\ a_whitelistCount \in Nat /\ a_ready \in BOOLEAN
    /\ a_warm \in [at: {"b", "w", "o", "load", "idle"}, keys: SUBSET Rows]
    /\ a_call \in [Operation -> GuildCall]
    /\ a_excuse \subseteq {"crossed", "torn", "failed"} /\ a_invited \subseteq Guild

Properly == \A c \in Operation : Proper(a_call[c])

(* Who was invited by an owner is on the list of those, in memory.         *)
Invited == a_wronged = {} /\ \A g \in a_invited : <<"o", g>> \in a_presence

OneEach == \A c, d \in Operation :
    Working(a_call[c]) /\ Working(a_call[d]) /\ a_call[c].row = a_call[d].row => c = d

(* While the memory is warmed nothing is under way, and what was read of   *)
(* the database is still so.                                               *)
Warming == a_warm.at # "idle" =>
    /\ a_presence = {} /\ \A c \in Operation : ~Working(a_call[c])
    /\ a_warm.at = "b" => a_warm.keys = {}
    /\ a_warm.at = "w" => a_warm.keys = {r \in a_db : r[1] = "b"}
    /\ a_warm.at = "o" => a_warm.keys = {r \in a_db : r[1] \in {"b", "w"}}
    /\ a_warm.at = "load" => a_warm.keys = a_db

Whites(rows) == {r \in rows : r[1] = "w"}

(* Of a row that no statement is executed for memory and database agree;   *)
(* from there until the memory follows, the call knows whether they do.    *)
Following == a_ready /\ a_warm.at = "idle" =>
    /\ a_whitelistCount = Cardinality(Whites(a_presence))
    /\ \A row \in Rows :
          (\A c \in Operation : Working(a_call[c]) /\ a_call[c].row = row => a_call[c].pc = "sent")
          => (row \in a_presence <=> row \in a_db)
    /\ \A c \in Operation : a_call[c].pc = "done" =>
          /\ a_call[c].row \in a_db <=> a_call[c].op # "remove"
          /\ a_call[c].changed <=> ~(a_call[c].row \in a_presence <=> a_call[c].row \in a_db)

Unexcused == a_excuse = {} => OneEach /\ Warming /\ Following

GuildInv == GuildShape /\ Properly /\ Invited /\ Unexcused

LEMMA SameCardinality == \A S : Access!Cardinality(S) = Cardinality(S)
BY DEF Access!Cardinality, Cardinality

(* The whitelist is finite, as the guilds are.                             *)
LEMMA WhitesFinite ==
    ASSUME IsFiniteSet(Guild), NEW rows, rows \subseteq Rows
    PROVE  IsFiniteSet(Whites(rows))
<1> DEFINE f == [g \in Guild |-> <<"w", g>>]
<1>1. f \in Surjection(Guild, {"w"} \X Guild)
  BY DEF Surjection
<1>2. IsFiniteSet({"w"} \X Guild)
  BY <1>1, FS_Surjection
<1>3. Whites(rows) \in SUBSET ({"w"} \X Guild)
  BY DEF Whites, Rows
<1> QED
  BY <1>2, <1>3, FS_Subset

LEMMA GuildInitial == IsFiniteSet(Guild) /\ Access!Init => GuildInv
<1> SUFFICES ASSUME Access!Init PROVE GuildInv
  OBVIOUS
<1> DEFINE idle == [op |-> "none", row |-> <<"b", "none">>, pc |-> "idle", changed |-> FALSE]
<1>1. /\ a_db \in {{}, {"w"} \X Guild} /\ a_presence = {} /\ a_whitelistCount = 0 /\ a_ready = FALSE
      /\ a_warm = [at |-> "idle", keys |-> {}] /\ a_call = [c \in Operation |-> idle]
      /\ a_excuse = {} /\ a_invited = {} /\ a_wronged = {}
  BY DEF Access!Init, Access!Cold, Access!Idle
<1>2. idle \in GuildCall /\ idle.pc = "idle"
  BY DEF GuildCall
<1> HIDE DEF idle
<1>3. a_call \in [Operation -> GuildCall] /\ \A c \in Operation : a_call[c].pc = "idle"
  BY <1>1, <1>2
<1>4. a_db \subseteq Rows
  BY <1>1 DEF Rows
<1> QED
  BY <1>1, <1>3, <1>4 DEF GuildInv, GuildShape, Properly, Proper, Invited, Unexcused, OneEach,
                          Warming, Following, Working

(* A call that waits, or ends, without a word to the database.             *)
LEMMA GuildPauses ==
    ASSUME GuildInv, NEW c \in Operation, NEW y \in GuildCall, y.pc \in {"idle", "check"}, Proper(y),
           a_call[c].pc # "done",
           a_call' = [a_call EXCEPT ![c] = y],
           a_invited' \subseteq a_invited, a_wronged' = {},
           UNCHANGED <<a_db, a_presence, a_whitelistCount, a_ready, a_warm, a_excuse>>
    PROVE  GuildInv'
<1>1. GuildShape /\ Properly /\ Invited /\ Unexcused
  BY DEF GuildInv
<1>2. /\ a_call' \in [Operation -> GuildCall]
      /\ \A d \in Operation : a_call'[d] = IF d = c THEN y ELSE a_call[d]
  BY <1>1 DEF GuildShape
<1>3. ~Working(y) /\ \A d \in Operation : Working(a_call'[d]) => d # c /\ a_call'[d] = a_call[d]
  BY <1>2 DEF Working
<1>4. GuildShape' /\ Properly' /\ Invited'
  BY <1>1, <1>2 DEF GuildShape, Properly, Invited
<1>5. ASSUME a_excuse' = {} PROVE OneEach' /\ Warming' /\ Following'
  <2>1. OneEach /\ Warming /\ Following
    BY <1>1, <1>5 DEF Unexcused
  <2>2. OneEach'
    BY <2>1, <1>3 DEF OneEach
  <2>3. Warming'
    BY <2>1, <1>3 DEF Warming
  <2>4. Following'
    <3> SUFFICES ASSUME a_ready, a_warm.at = "idle"
                 PROVE  /\ a_whitelistCount = Cardinality(Whites(a_presence))
                        /\ \A row \in Rows :
                              (\A d \in Operation : Working(a_call'[d]) /\ a_call'[d].row = row
                                                    => a_call'[d].pc = "sent")
                              => (row \in a_presence <=> row \in a_db)
                        /\ \A d \in Operation : a_call'[d].pc = "done" =>
                              /\ a_call'[d].row \in a_db <=> a_call'[d].op # "remove"
                              /\ a_call'[d].changed <=>
                                    ~(a_call'[d].row \in a_presence <=> a_call'[d].row \in a_db)
      BY DEF Following
    <3>1. /\ a_whitelistCount = Cardinality(Whites(a_presence))
          /\ \A d \in Operation : a_call'[d].pc = "done" =>
                              /\ a_call'[d].row \in a_db <=> a_call'[d].op # "remove"
                              /\ a_call'[d].changed <=>
                                    ~(a_call'[d].row \in a_presence <=> a_call'[d].row \in a_db)
      BY <2>1, <1>3 DEF Following, Working
    <3>2. ASSUME NEW row \in Rows,
                 \A d \in Operation : Working(a_call'[d]) /\ a_call'[d].row = row
                                      => a_call'[d].pc = "sent"
          PROVE  row \in a_presence <=> row \in a_db
      <4>1. \A d \in Operation : Working(a_call[d]) /\ a_call[d].row = row => a_call[d].pc = "sent"
        BY <1>2, <3>2 DEF Working
      <4> QED
        BY <2>1, <4>1 DEF Following
    <3> QED
      BY <3>1, <3>2
  <2> QED
    BY <2>2, <2>3, <2>4
<1> QED
  BY <1>4, <1>5 DEF GuildInv, Unexcused

(* A statement is sent, which is excused if it meets another one or the    *)
(* warming.                                                                *)
LEMMA GuildBegins ==
    ASSUME GuildInv, NEW c \in Operation, NEW y \in GuildCall, y.pc = "sent", Proper(y),
           a_call[c].pc = "idle",
           a_call' = [a_call EXCEPT ![c] = y],
           a_excuse' = a_excuse \cup Access!Excused(y.row),
           UNCHANGED <<a_db, a_presence, a_whitelistCount, a_ready, a_warm, a_invited, a_wronged>>
    PROVE  GuildInv'
<1>1. GuildShape /\ Properly /\ Invited /\ Unexcused
  BY DEF GuildInv
<1>2. /\ a_call' \in [Operation -> GuildCall]
      /\ \A d \in Operation : a_call'[d] = IF d = c THEN y ELSE a_call[d]
  BY <1>1 DEF GuildShape
<1>3. GuildShape' /\ Properly' /\ Invited'
  BY <1>1, <1>2 DEF GuildShape, Properly, Invited, Access!Excused
<1>4. ASSUME a_excuse' = {} PROVE OneEach' /\ Warming' /\ Following'
  <2>1. OneEach /\ Warming /\ Following
    BY <1>1, <1>4 DEF Unexcused
  <2>2. a_warm.at = "idle" /\ \A d \in Operation : a_call[d].pc # "idle" => a_call[d].row # y.row
    BY <1>4 DEF Access!Excused, Access!Crossing
  <2>3. \A d \in Operation : Working(a_call'[d]) =>
           (d = c /\ a_call'[d] = y) \/ (a_call'[d] = a_call[d] /\ a_call[d].row # y.row)
    <3>1. a_call'[c] = y
      BY <1>2
    <3>2. \A d \in Operation \ {c} : Working(a_call'[d]) => a_call'[d] = a_call[d] /\ a_call[d].pc # "idle"
      BY <1>2 DEF Working
    <3> QED
      BY <2>2, <3>1, <3>2
  <2>4. OneEach'
    BY <2>1, <2>3 DEF OneEach
  <2>5. Following'
    <3>1. \A d \in Operation : a_call'[d].pc = "done" => a_call'[d] = a_call[d]
      BY <1>2
    <3>2. \A row \in Rows :
             (\A d \in Operation : Working(a_call'[d]) /\ a_call'[d].row = row => a_call'[d].pc = "sent")
             => (\A d \in Operation : Working(a_call[d]) /\ a_call[d].row = row => a_call[d].pc = "sent")
      BY <1>2 DEF Working
    <3> QED
      BY <2>1, <3>1, <3>2 DEF Following
  <2> QED
    BY <2>2, <2>4, <2>5 DEF Warming
<1> QED
  BY <1>3, <1>4 DEF GuildInv, Unexcused

LEMMA ExecutedCall ==
    ASSUME NEW x \in GuildCall, NEW b \in BOOLEAN
    PROVE  [[x EXCEPT !.pc = "done"] EXCEPT !.changed = b]
               = [op |-> x.op, row |-> x.row, pc |-> "done", changed |-> b]
<1>1. [x EXCEPT !.pc = "done"] = [op |-> x.op, row |-> x.row, pc |-> "done", changed |-> x.changed]
  BY DEF GuildCall
<1>2. x.op \in {"none", "add", "remove", "join"} /\ x.row \in Rows \cup {<<"b", "none">>}
  BY DEF GuildCall
<1>3. \A z : z = [op |-> x.op, row |-> x.row, pc |-> "done", changed |-> x.changed]
            => [z EXCEPT !.changed = b] = [op |-> x.op, row |-> x.row, pc |-> "done", changed |-> b]
  OBVIOUS
<1> QED
  BY <1>1, <1>3, Zenon

LEMMA GuildExecutes ==
    ASSUME GuildInv, NEW c \in Operation, Access!Execute(c)
    PROVE  GuildInv'
<1> DEFINE x == a_call[c]
           y == [op |-> x.op, row |-> x.row, pc |-> "done", changed |-> (a_db' # a_db)]
<1>1. /\ GuildShape /\ Properly /\ Invited /\ Unexcused
      /\ x.pc = "sent"
      /\ a_db' = IF x.op = "remove" THEN a_db \ {x.row} ELSE a_db \cup {x.row}
      /\ a_call' = [a_call EXCEPT ![c].pc = "done", ![c].changed = (a_db' # a_db)]
      /\ UNCHANGED <<a_presence, a_whitelistCount, a_ready, a_warm, a_excuse, a_invited, a_wronged>>
  BY DEF Access!Execute, GuildInv
<1>2. x \in GuildCall /\ Proper(x) /\ x.row \in Rows /\ Working(x)
  BY <1>1 DEF GuildShape, Properly, Proper, Working
<1>3. /\ y \in GuildCall /\ y.op = x.op /\ y.row = x.row /\ y.pc = "done"
      /\ y.changed <=> a_db' # a_db
  BY <1>2 DEF GuildCall
<1>4. /\ a_call' \in [Operation -> GuildCall]
      /\ \A d \in Operation : a_call'[d] = IF d = c THEN y ELSE a_call[d]
  <2>1. [[x EXCEPT !.pc = "done"] EXCEPT !.changed = (a_db' # a_db)] = y
    BY <1>2, ExecutedCall
  <2>2. a_call' = [a_call EXCEPT ![c] = y]
    BY <1>1, <2>1 DEF GuildShape
  <2>3. y \in GuildCall /\ GuildShape
    BY <1>1, <1>3
  <2> HIDE DEF x, y
  <2> QED
    BY <2>2, <2>3 DEF GuildShape
<1> HIDE DEF x, y
<1>5. GuildShape' /\ Properly' /\ Invited'
  <2>1. a_db' \subseteq Rows
    BY <1>1, <1>2 DEF GuildShape
  <2>2. Proper(y)
    BY <1>1, <1>2, <1>3 DEF Proper
  <2> QED
    BY <1>1, <1>4, <2>1, <2>2 DEF GuildShape, Properly, Invited
<1>6. ASSUME a_excuse' = {} PROVE OneEach' /\ Warming' /\ Following'
  <2>1. OneEach /\ Warming /\ Following
    BY <1>1, <1>6 DEF Unexcused
  <2>2. \A d \in Operation : /\ Working(a_call'[d]) <=> Working(a_call[d])
                             /\ a_call'[d].row = a_call[d].row
    BY <1>1, <1>3, <1>4 DEF Working, x
  <2>3. OneEach'
    BY <2>1, <2>2 DEF OneEach
  <2>4. a_warm.at = "idle"
    BY <1>2, <2>1 DEF Warming, x
  <2>5. \A d \in Operation : Working(a_call[d]) /\ a_call[d].row = x.row => d = c
    BY <1>2, <2>1 DEF OneEach, x
  <2>6. ASSUME a_ready PROVE x.row \in a_presence <=> x.row \in a_db
    BY <1>1, <1>2, <2>1, <2>4, <2>5, <2>6 DEF Following, x
  <2>7. (a_db' # a_db) <=> ~(x.row \in a_db <=> x.row \in a_db')
    BY <1>1
  <2>8. Following'
    <3>1. ASSUME a_ready, NEW row \in Rows,
                 \A d \in Operation : Working(a_call'[d]) /\ a_call'[d].row = row
                                      => a_call'[d].pc = "sent"
          PROVE  row \in a_presence <=> row \in a_db'
      <4>1. row # x.row
        BY <1>2, <1>3, <1>4, <2>2, <3>1 DEF x
      <4>2. \A d \in Operation : Working(a_call[d]) /\ a_call[d].row = row => a_call[d].pc = "sent"
        BY <1>1, <1>4, <2>2, <3>1 DEF x
      <4> QED
        BY <1>1, <2>1, <2>4, <3>1, <4>1, <4>2 DEF Following
    <3>2. ASSUME a_ready, NEW d \in Operation, a_call'[d].pc = "done"
          PROVE  /\ a_call'[d].row \in a_db' <=> a_call'[d].op # "remove"
                 /\ a_call'[d].changed <=>
                       ~(a_call'[d].row \in a_presence <=> a_call'[d].row \in a_db')
      <4>1. CASE d = c
        BY <1>1, <1>3, <1>4, <2>6, <2>7, <3>2, <4>1
      <4>2. CASE d # c
        <5>1. a_call'[d] = a_call[d] /\ a_call[d].row # x.row
          BY <1>4, <2>5, <3>2, <4>2 DEF Working
        <5>2. /\ a_call[d].row \in a_db <=> a_call[d].op # "remove"
              /\ a_call[d].changed <=> ~(a_call[d].row \in a_presence <=> a_call[d].row \in a_db)
          BY <2>1, <2>4, <3>2, <5>1 DEF Following
        <5>3. a_call[d].row \in a_db <=> a_call[d].row \in a_db'
          BY <1>1, <5>1
        <5> QED
          BY <5>1, <5>2, <5>3
      <4> QED
        BY <4>1, <4>2
    <3>3. a_ready => a_whitelistCount = Cardinality(Whites(a_presence))
      BY <2>1, <2>4 DEF Following
    <3> QED
      BY <1>1, <3>1, <3>2, <3>3 DEF Following
  <2> QED
    BY <1>1, <2>3, <2>4, <2>8 DEF Warming
<1> QED
  BY <1>5, <1>6 DEF GuildInv, Unexcused

(* A call ends or goes on to the check, and the memory has followed.       *)
LEMMA GuildFollows ==
    ASSUME IsFiniteSet(Guild), GuildInv, NEW c \in Operation, Access!Follow(c)
    PROVE  GuildInv'
<1> DEFINE x == a_call[c]
           y == IF x.op = "join" THEN [op |-> "join", row |-> x.row, pc |-> "check",
                                       changed |-> x.changed]
                ELSE [op |-> "none", row |-> <<"b", "none">>, pc |-> "idle", changed |-> FALSE]
<1>1. /\ GuildShape /\ Properly /\ Invited /\ Unexcused
      /\ x.pc = "done"
      /\ a_whitelistCount' = Access!Counted(x)
      /\ a_invited' = IF x.op = "join" THEN a_invited \cup {x.row[2]} ELSE a_invited
      /\ UNCHANGED <<a_db, a_ready, a_warm, a_excuse, a_wronged>>
  BY DEF Access!Follow, GuildInv
<1>2. /\ x \in GuildCall /\ Proper(x) /\ x.row \in Rows /\ Working(x)
      /\ x.op \in {"add", "remove", "join"} /\ x.row[2] \in Guild
  <2>1. x \in GuildCall /\ Proper(x) /\ Working(x)
    BY <1>1 DEF GuildShape, Properly, Working
  <2>2. x.row \in Rows /\ x.op \in {"add", "remove", "join"}
    BY <1>1, <2>1 DEF Proper
  <2> QED
    BY <2>1, <2>2 DEF Rows
<1>3. a_presence' = IF x.op # "remove" THEN a_presence \cup {x.row}
                    ELSE IF x.changed THEN a_presence \ {x.row} ELSE a_presence
  <2>1. a_presence' = CASE x.op # "remove" -> a_presence \cup {x.row}
                        [] x.op = "remove" /\ x.changed -> a_presence \ {x.row}
                        [] OTHER -> a_presence
    BY DEF Access!Follow
  <2> QED
    BY <2>1
<1>4. y \in GuildCall /\ Proper(y) /\ ~Working(y)
  BY <1>2 DEF GuildCall, Proper, Working
<1>5. /\ a_call' \in [Operation -> GuildCall]
      /\ \A d \in Operation : a_call'[d] = IF d = c THEN y ELSE a_call[d]
  <2>1. (IF x.op = "join" THEN [x EXCEPT !.pc = "check"] ELSE Access!Idle) = y
    BY <1>2 DEF GuildCall, Access!Idle
  <2>2. a_call' = [a_call EXCEPT ![c] = y]
    BY <2>1 DEF Access!Follow
  <2>3. y \in GuildCall /\ GuildShape
    BY <1>1, <1>4
  <2> HIDE DEF x, y
  <2> QED
    BY <2>2, <2>3 DEF GuildShape
<1> HIDE DEF x, y
<1>6. /\ Access!Counted(x) \in Nat
      /\ a_whitelistCount = Cardinality(Whites(a_presence))
            /\ (x.op = "remove" => (x.changed <=> x.row \in a_presence))
         => Access!Counted(x) = Cardinality(Whites(a_presence'))
  <2>1. /\ IsFiniteSet(Whites(a_presence)) /\ Cardinality(Whites(a_presence)) \in Nat
        /\ a_whitelistCount \in Nat
    BY <1>1, WhitesFinite, FS_CardinalityType DEF GuildShape
  <2>2. CASE x.row[1] # "w"
    <3>1. Whites(a_presence') = Whites(a_presence)
      BY <1>3, <2>2 DEF Whites
    <3> QED
      BY <2>1, <2>2, <3>1 DEF Access!Counted
  <2>3. CASE x.row[1] = "w" /\ x.op = "add"
    <3>1. Whites(a_presence') = Whites(a_presence) \cup {x.row}
      BY <1>3, <2>3 DEF Whites
    <3>2. Cardinality(Whites(a_presence')) = IF x.row \in Whites(a_presence)
                                             THEN Cardinality(Whites(a_presence))
                                             ELSE Cardinality(Whites(a_presence)) + 1
      BY <2>1, <3>1, FS_AddElement
    <3>3. x.row \in Whites(a_presence) <=> x.row \in a_presence
      BY <2>3 DEF Whites
    <3> QED
      BY <2>1, <2>3, <3>2, <3>3 DEF Access!Counted
  <2>4. CASE x.row[1] = "w" /\ x.op # "add"
    <3>1. x.op = "remove"
      BY <1>1, <1>2, <2>4 DEF Proper
    <3>2. x.row \in Whites(a_presence) <=> x.row \in a_presence
      BY <2>4 DEF Whites
    <3>3. CASE x.changed /\ x.row \in a_presence
      <4>1. Whites(a_presence') = Whites(a_presence) \ {x.row}
        BY <1>3, <3>1, <3>3 DEF Whites
      <4>a. x.row \in Whites(a_presence) /\ IsFiniteSet(Whites(a_presence))
        BY <2>1, <3>2, <3>3
      <4>b. Cardinality(Whites(a_presence) \ {x.row}) = Cardinality(Whites(a_presence)) - 1
        BY ONLY <4>a, FS_RemoveElement
      <4>2. Cardinality(Whites(a_presence')) = Cardinality(Whites(a_presence)) - 1
        BY ONLY <4>1, <4>b
      <4>3. Cardinality(Whites(a_presence)) # 0
        BY <2>1, <3>2, <3>3, FS_EmptySet
      <4> QED
        BY <2>1, <2>4, <3>3, <4>2, <4>3 DEF Access!Counted
    <3>4. CASE ~(x.changed /\ x.row \in a_presence)
      <4>1. Whites(a_presence') = Whites(a_presence)
        BY <1>3, <3>1, <3>4 DEF Whites
      <4> QED
        BY <2>1, <2>4, <3>4, <4>1 DEF Access!Counted
    <3> QED
      BY <3>3, <3>4
  <2> QED
    BY <2>2, <2>3, <2>4
<1>7. GuildShape'
  <2>1. a_presence' \subseteq Rows /\ a_invited' \subseteq Guild
    BY <1>1, <1>2, <1>3 DEF GuildShape
  <2> QED
    BY <1>1, <1>5, <1>6, <2>1 DEF GuildShape
<1>8. Properly'
  BY <1>1, <1>4, <1>5 DEF Properly
<1>9. Invited'
  <2>1. \A g \in a_invited : <<"o", g>> \in a_presence'
    <3>1. ASSUME x.op = "remove", NEW g PROVE x.row # <<"o", g>>
      BY <1>1, <1>2, <3>1 DEF Proper
    <3> QED
      BY <1>1, <1>3, <3>1 DEF Invited
  <2>2. x.op = "join" => <<"o", x.row[2]>> \in a_presence'
    BY <1>1, <1>2, <1>3 DEF Proper
  <2> QED
    BY <1>1, <2>1, <2>2 DEF Invited
<1>10. ASSUME a_excuse' = {} PROVE OneEach' /\ Warming' /\ Following'
  <2>1. OneEach /\ Warming /\ Following
    BY <1>1, <1>10 DEF Unexcused
  <2>2. a_warm.at = "idle"
    BY <1>2, <2>1 DEF Warming, x
  <2>3. \A d \in Operation : Working(a_call'[d]) => d # c /\ a_call'[d] = a_call[d]
    BY <1>4, <1>5
  <2>4. OneEach'
    BY <2>1, <2>3 DEF OneEach
  <2>5. \A d \in Operation : Working(a_call'[d]) => a_call'[d].row # x.row
    BY <1>2, <2>1, <2>3 DEF OneEach, x
  <2>6. ASSUME a_ready
        PROVE  /\ x.row \in a_db <=> x.op # "remove"
               /\ x.changed <=> ~(x.row \in a_presence <=> x.row \in a_db)
               /\ a_whitelistCount = Cardinality(Whites(a_presence))
    BY <1>1, <2>1, <2>2, <2>6 DEF Following, x
  <2>7. ASSUME a_ready PROVE x.row \in a_presence' <=> x.row \in a_db
    BY <1>3, <2>6, <2>7
  <2>8. \A row : row # x.row => (row \in a_presence' <=> row \in a_presence)
    BY <1>3
  <2>9. Following'
    <3>1. ASSUME a_ready, NEW row \in Rows,
                 \A d \in Operation : Working(a_call'[d]) /\ a_call'[d].row = row
                                      => a_call'[d].pc = "sent"
          PROVE  row \in a_presence' <=> row \in a_db
      <4>1. CASE row # x.row
        <5>1. \A d \in Operation : Working(a_call[d]) /\ a_call[d].row = row => a_call[d].pc = "sent"
          BY <1>5, <3>1, <4>1 DEF x
        <5> QED
          BY <2>1, <2>2, <2>8, <3>1, <4>1, <5>1 DEF Following
      <4> QED
        BY <2>7, <3>1, <4>1
    <3>2. ASSUME a_ready, NEW d \in Operation, a_call'[d].pc = "done"
          PROVE  /\ a_call'[d].row \in a_db <=> a_call'[d].op # "remove"
                 /\ a_call'[d].changed <=>
                       ~(a_call'[d].row \in a_presence' <=> a_call'[d].row \in a_db)
      <4>1. a_call'[d] = a_call[d] /\ a_call[d].row # x.row
        BY <2>3, <2>5, <3>2 DEF Working
      <4>2. /\ a_call[d].row \in a_db <=> a_call[d].op # "remove"
            /\ a_call[d].changed <=> ~(a_call[d].row \in a_presence <=> a_call[d].row \in a_db)
        BY <2>1, <2>2, <3>2, <4>1 DEF Following
      <4> QED
        BY <2>8, <4>1, <4>2
    <3>3. a_ready => a_whitelistCount' = Cardinality(Whites(a_presence'))
      BY <1>1, <1>6, <2>6
    <3> QED
      BY <1>1, <3>1, <3>2, <3>3 DEF Following
  <2> QED
    BY <1>1, <2>2, <2>4, <2>9 DEF Warming
<1> QED
  BY <1>7, <1>8, <1>9, <1>10 DEF GuildInv, Unexcused

(* The guild's owner is told, and a guild that an owner invited the bot to *)
(* is not left.                                                            *)
LEMMA GuildChecks ==
    ASSUME GuildInv, NEW c \in Operation, NEW policy \in Access!Policy, Access!CheckJoin(c, policy)
    PROVE  GuildInv'
<1> DEFINE g == a_call[c].row[2]
           idle == [op |-> "none", row |-> <<"b", "none">>, pc |-> "idle", changed |-> FALSE]
<1>1. /\ GuildInv /\ Invited /\ a_call[c].pc = "check"
      /\ a_call' = [a_call EXCEPT ![c] = idle]
      /\ a_invited' = a_invited \ {g}
      /\ a_wronged' = IF g \in a_invited /\ policy.allowOwner /\ ~Access!IsGuildAllowed(policy, g)
                      THEN a_wronged \cup {g} ELSE a_wronged
      /\ UNCHANGED <<a_db, a_presence, a_whitelistCount, a_ready, a_warm, a_excuse>>
  BY DEF Access!CheckJoin, Access!Idle, GuildInv
<1>2. g \in a_invited /\ policy.allowOwner => Access!IsGuildAllowed(policy, g)
  BY <1>1 DEF Invited, Access!IsGuildAllowed, Access!Admits
<1>3. a_wronged' = {}
  BY <1>1, <1>2 DEF Invited
<1>4. idle \in GuildCall /\ Proper(idle) /\ idle.pc = "idle"
  BY DEF GuildCall, Proper
<1> HIDE DEF idle, g
<1> QED
  BY <1>1, <1>3, <1>4, GuildPauses

LEMMA GuildCommands ==
    ASSUME GuildInv, NEW c \in Operation, NEW op \in {"add", "remove"}, NEW row \in Rows,
           Access!Command(c, op, row)
    PROVE  GuildInv'
<1> DEFINE y == [op |-> op, row |-> row, pc |-> "sent", changed |-> FALSE]
<1>1. /\ GuildInv /\ a_call[c].pc = "idle" /\ row[1] # "o"
      /\ a_call' = [a_call EXCEPT ![c] = y]
      /\ a_excuse' = a_excuse \cup Access!Excused(row)
      /\ UNCHANGED <<a_db, a_presence, a_whitelistCount, a_ready, a_warm, a_invited, a_wronged>>
  BY DEF Access!Command
<1>2. y \in GuildCall /\ Proper(y) /\ y.pc = "sent" /\ y.row = row
  BY <1>1 DEF GuildCall, Proper
<1> HIDE DEF y
<1> QED
  BY <1>1, <1>2, GuildBegins

LEMMA GuildJoins ==
    ASSUME GuildInv, NEW c \in Operation, NEW g \in Guild, NEW authorize \in BOOLEAN,
           Access!Join(c, g, authorize)
    PROVE  GuildInv'
<1> DEFINE y == [op |-> "join", row |-> <<"o", g>>, changed |-> FALSE,
                 pc |-> IF authorize THEN "sent" ELSE "check"]
<1>1. /\ GuildInv /\ Invited /\ a_call[c].pc = "idle"
      /\ a_call' = [a_call EXCEPT ![c] = y]
      /\ a_excuse' = a_excuse \cup (IF authorize THEN Access!Excused(<<"o", g>>) ELSE {})
      /\ UNCHANGED <<a_db, a_presence, a_whitelistCount, a_ready, a_warm, a_invited, a_wronged>>
  BY DEF Access!Join, GuildInv
<1>2. /\ y \in GuildCall /\ Proper(y) /\ y.row = <<"o", g>>
      /\ y.pc = IF authorize THEN "sent" ELSE "check"
  BY DEF GuildCall, Proper, Rows
<1> HIDE DEF y
<1>3. CASE authorize
  BY <1>1, <1>2, <1>3, GuildBegins
<1>4. CASE ~authorize
  <2>1. a_excuse' = a_excuse /\ a_wronged' = {}
    BY <1>1, <1>4 DEF Invited
  <2> QED
    BY <1>1, <1>2, <1>4, <2>1, GuildPauses
<1> QED
  BY <1>3, <1>4

LEMMA GuildRejects ==
    ASSUME GuildInv, NEW c \in Operation, Access!Reject(c)
    PROVE  GuildInv'
<1> DEFINE x == a_call[c]
           y == IF x.op = "join" THEN [op |-> "join", row |-> x.row, pc |-> "check",
                                       changed |-> x.changed]
                ELSE [op |-> "none", row |-> <<"b", "none">>, pc |-> "idle", changed |-> FALSE]
<1>1. /\ GuildInv /\ GuildShape /\ Properly /\ Invited /\ x.pc = "sent"
      /\ UNCHANGED <<a_db, a_presence, a_whitelistCount, a_ready, a_warm, a_excuse, a_invited,
                     a_wronged>>
  BY DEF Access!Reject, GuildInv
<1>2. x \in GuildCall /\ Proper(x)
  BY <1>1 DEF GuildShape, Properly
<1>3. y \in GuildCall /\ Proper(y) /\ y.pc \in {"idle", "check"}
  BY <1>1, <1>2 DEF GuildCall, Proper
<1>4. (IF x.op = "join" THEN [x EXCEPT !.pc = "check"] ELSE Access!Idle) = y
  BY <1>2 DEF GuildCall, Access!Idle
<1>5. a_call' = [a_call EXCEPT ![c] = y]
  BY <1>4 DEF Access!Reject
<1>6. a_call[c].pc # "done" /\ a_invited' \subseteq a_invited /\ a_wronged' = {}
  BY <1>1 DEF Invited
<1> HIDE DEF x, y
<1> QED
  BY <1>1, <1>3, <1>5, <1>6, GuildPauses

LEMMA GuildWarms ==
    ASSUME IsFiniteSet(Guild), GuildInv,
           Access!WarmCache \/ Access!Read \/ Access!Load \/ Access!ReadFails
    PROVE  GuildInv'
<1>1. GuildShape /\ Properly /\ Invited /\ Unexcused
  BY DEF GuildInv
<1>2. CASE Access!WarmCache
  <2>1. /\ a_presence' = {} /\ a_warm' = [at |-> "b", keys |-> {}] /\ a_invited' = {}
        /\ a_excuse' = IF Access!Busy THEN {"torn"} ELSE {}
        /\ UNCHANGED <<a_db, a_whitelistCount, a_ready, a_call, a_wronged>>
    BY <1>2 DEF Access!WarmCache
  <2>2. GuildShape' /\ Properly' /\ Invited'
    BY <1>1, <2>1 DEF GuildShape, Properly, Invited
  <2>3. a_excuse' = {} => \A c \in Operation : ~Working(a_call[c])
    BY <2>1 DEF Access!Busy, Working
  <2> QED
    BY <2>1, <2>2, <2>3 DEF GuildInv, Unexcused, OneEach, Warming, Following
<1>3. CASE Access!Read
  <2>1. /\ a_warm.at \in {"b", "w", "o"}
        /\ a_warm' = [at |-> Access!After(a_warm.at),
                      keys |-> a_warm.keys \cup {r \in a_db : r[1] = a_warm.at}]
        /\ UNCHANGED <<a_db, a_presence, a_whitelistCount, a_ready, a_call, a_excuse, a_invited,
                       a_wronged>>
    BY <1>3 DEF Access!Read, Access!Kind
  <2>2. Access!After("b") = "w" /\ Access!After("w") = "o" /\ Access!After("o") = "load"
    BY DEF Access!After
  <2>3. GuildShape' /\ Properly' /\ Invited'
    BY <1>1, <2>1, <2>2 DEF GuildShape, Properly, Invited
  <2>4. \A r \in a_db : r[1] \in {"b", "w", "o"}
    BY <1>1 DEF GuildShape, Rows
  <2>5. ASSUME a_excuse' = {} PROVE OneEach' /\ Warming' /\ Following'
    <3>1. OneEach /\ Warming
      BY <1>1, <2>1, <2>5 DEF Unexcused
    <3>2. OneEach' /\ Following'
      BY <2>1, <2>2, <3>1 DEF OneEach, Following
    <3>3. Warming'
      BY <2>1, <2>2, <2>4, <3>1 DEF Warming
    <3> QED
      BY <3>2, <3>3
  <2> QED
    BY <2>3, <2>5 DEF GuildInv, Unexcused
<1>4. CASE Access!Load
  <2>1. /\ a_warm.at = "load"
        /\ a_presence' = a_presence \cup a_warm.keys
        /\ a_whitelistCount' = Cardinality(Whites(a_warm.keys))
        /\ a_ready' = TRUE /\ a_warm' = [at |-> "idle", keys |-> {}]
        /\ UNCHANGED <<a_db, a_call, a_excuse, a_invited, a_wronged>>
    <3>1. a_whitelistCount' = Cardinality(Access!White(a_warm.keys))
      BY <1>4, SameCardinality DEF Access!Load
    <3>2. Access!White(a_warm.keys) = Whites(a_warm.keys)
      BY DEF Access!White, Whites
    <3> QED
      BY <1>4, <3>1, <3>2 DEF Access!Load, Access!Cold
  <2>2. a_whitelistCount' \in Nat
    BY <1>1, <2>1, WhitesFinite, FS_CardinalityType DEF GuildShape
  <2>3. GuildShape' /\ Properly' /\ Invited'
    BY <1>1, <2>1, <2>2 DEF GuildShape, Properly, Invited
  <2>4. ASSUME a_excuse' = {} PROVE OneEach' /\ Warming' /\ Following'
    <3>1. OneEach /\ Warming
      BY <1>1, <2>1, <2>4 DEF Unexcused
    <3>2. a_presence' = a_db /\ a_warm.keys = a_db /\ \A c \in Operation : ~Working(a_call[c])
      BY <2>1, <3>1 DEF Warming
    <3> QED
      BY <2>1, <3>1, <3>2 DEF OneEach, Warming, Following, Working
  <2> QED
    BY <2>3, <2>4 DEF GuildInv, Unexcused
<1>5. CASE Access!ReadFails
  <2>1. /\ a_warm' = [at |-> "idle", keys |-> {}] /\ a_excuse' = a_excuse \cup {"failed"}
        /\ UNCHANGED <<a_db, a_presence, a_whitelistCount, a_ready, a_call, a_invited, a_wronged>>
    BY <1>5 DEF Access!ReadFails, Access!Cold
  <2> QED
    BY <1>1, <2>1 DEF GuildInv, GuildShape, Properly, Invited, Unexcused
<1> QED
  BY <1>2, <1>3, <1>4, <1>5

LEMMA GuildStep ==
    ASSUME IsFiniteSet(Guild), GuildInv, [Access!Next]_(Access!vars)
    PROVE  GuildInv'
<1>1. CASE Access!Next
  BY <1>1, GuildWarms, GuildExecutes, GuildRejects, GuildFollows, GuildChecks, GuildCommands,
     GuildJoins DEF Access!Next, Access!Row, Access!Kind, Rows
<1>2. CASE UNCHANGED Access!vars
  BY <1>2 DEF Access!vars, GuildInv, GuildShape, Properly, Invited, Unexcused, OneEach, Warming,
              Following
<1> QED
  BY <1>1, <1>2

(* Of every guild the memory decides as the database would, by rows and by *)
(* the count of the whitelist, under any policy, and no guild is left that *)
(* an owner's invitation was recorded for: for any number of guilds, of    *)
(* commands and of joins (guildAccess.ts, isGuildAllowed, warmCache).      *)
LEMMA GuildsDecide == ASSUME IsFiniteSet(Guild) PROVE Access!Spec => []Access!GuildsAreDecided
<1>1. GuildInv => Access!TypeOK
  BY DEF GuildInv, GuildShape, GuildCall, Rows, Access!TypeOK, Access!Row, Access!Kind
<1>2. GuildInv => Access!DecidesAsDatabase
  <2> SUFFICES ASSUME GuildInv, a_ready, a_warm.at = "idle", ~Access!Busy, a_excuse = {}
               PROVE  \A g \in Guild, policy \in Access!Policy :
                         Access!IsGuildAllowed(policy, g)
                         <=> Access!Admits(policy, a_db, Access!Cardinality(Access!White(a_db)), g)
    BY DEF Access!DecidesAsDatabase
  <2>1. Following /\ GuildShape /\ \A c \in Operation : ~Working(a_call[c])
    BY DEF GuildInv, Unexcused, Working, Access!Busy
  <2>2. a_presence = a_db
    BY <2>1 DEF Following, GuildShape
  <2>3. a_whitelistCount = Access!Cardinality(Access!White(a_db))
    BY <2>1, <2>2, SameCardinality DEF Following, Whites, Access!White
  <2> QED
    BY <2>2, <2>3 DEF Access!IsGuildAllowed
<1>3. GuildInv => Access!InvitedStay
  BY DEF GuildInv, Invited, Access!InvitedStay
<1> QED
  BY <1>1, <1>2, <1>3, GuildInitial, GuildStep, PTL DEF Access!Spec, Access!GuildsAreDecided

-----------------------------------------------------------------------------
(* The cooldowns, for any number of processes, limit and window.           *)

(* How many of the times s are from a on and before b.                     *)
Span(s, a, b) == {n \in DOMAIN s : s[n] >= a /\ s[n] < b}
Number(s, a, b) == Cardinality(Span(s, a, b))

LEMMA SpanFinite ==
    ASSUME NEW s \in Seq(Nat), NEW a \in Int, NEW b \in Int
    PROVE  IsFiniteSet(Span(s, a, b)) /\ Number(s, a, b) \in Nat
<1>1. DOMAIN s = 1 .. Len(s) /\ Len(s) \in Nat
  OBVIOUS
<1>2. IsFiniteSet(1 .. Len(s))
  BY <1>1, FS_Interval
<1>3. IsFiniteSet(Span(s, a, b))
  BY <1>1, <1>2, FS_Subset DEF Span
<1> QED
  BY <1>3, FS_CardinalityType DEF Number

LEMMA SpanMore ==
    ASSUME NEW s \in Seq(Nat), NEW a \in Int, NEW b \in Int, NEW c \in Int, NEW d \in Int,
           \A n \in DOMAIN s : s[n] >= a /\ s[n] < b => s[n] >= c /\ s[n] < d
    PROVE  Number(s, a, b) <= Number(s, c, d)
<1>1. Span(s, a, b) \in SUBSET Span(s, c, d)
  BY DEF Span
<1> QED
  BY <1>1, SpanFinite, FS_Subset DEF Number

LEMMA SpanSplit ==
    ASSUME NEW s \in Seq(Nat), NEW a \in Int, NEW b \in Int, NEW c \in Int
    PROVE  Number(s, a, c) <= Number(s, a, b) + Number(s, b, c)
<1> DEFINE U == Span(s, a, b) \cup Span(s, b, c)
<1>1. Span(s, a, c) \in SUBSET U
  <2>1. \A n \in DOMAIN s : s[n] \in Nat
    OBVIOUS
  <2> QED
    BY <2>1 DEF Span
<1>2. /\ IsFiniteSet(Span(s, a, b)) /\ IsFiniteSet(Span(s, b, c))
      /\ Number(s, a, b) \in Nat /\ Number(s, b, c) \in Nat /\ Number(s, a, c) \in Nat
  BY SpanFinite
<1>3. /\ IsFiniteSet(U)
      /\ Cardinality(U) = Cardinality(Span(s, a, b)) + Cardinality(Span(s, b, c))
                              - Cardinality(Span(s, a, b) \cap Span(s, b, c))
  BY <1>2, FS_Union
<1>4. Cardinality(Span(s, a, b) \cap Span(s, b, c)) \in Nat
  BY <1>2, FS_Intersection, FS_CardinalityType
<1>5. Cardinality(Span(s, a, c)) <= Cardinality(U)
  BY <1>1, <1>3, FS_Subset
<1> HIDE DEF U
<1> QED
  BY <1>2, <1>3, <1>4, <1>5 DEF Number

LEMMA SpanAppend ==
    ASSUME NEW s \in Seq(Nat), NEW x \in Nat, NEW a \in Int, NEW b \in Int
    PROVE  Number(Append(s, x), a, b)
               = IF a <= x /\ x < b THEN Number(s, a, b) + 1 ELSE Number(s, a, b)
<1>1. /\ Len(s) \in Nat /\ DOMAIN s = 1 .. Len(s) /\ DOMAIN Append(s, x) = 1 .. (Len(s) + 1)
      /\ \A n \in 1 .. Len(s) : Append(s, x)[n] = s[n]
      /\ Append(s, x)[Len(s) + 1] = x
  OBVIOUS
<1>2. Span(Append(s, x), a, b) = IF a <= x /\ x < b THEN Span(s, a, b) \cup {Len(s) + 1}
                                 ELSE Span(s, a, b)
  <2>1. 1 .. (Len(s) + 1) = (1 .. Len(s)) \cup {Len(s) + 1}
    BY <1>1
  <2>2. \A n : n \in Span(Append(s, x), a, b)
                 <=> n \in Span(s, a, b) \/ (n = Len(s) + 1 /\ a <= x /\ x < b)
    BY <1>1, <2>1 DEF Span
  <2> QED
    BY <2>2
<1>3. Len(s) + 1 \notin Span(s, a, b)
  BY <1>1 DEF Span
<1>4. Cardinality(Span(s, a, b) \cup {Len(s) + 1}) = Cardinality(Span(s, a, b)) + 1
  BY <1>3, SpanFinite, FS_AddElement
<1> QED
  BY <1>2, <1>4 DEF Number

LEMMA SpanNone ==
    ASSUME NEW s \in Seq(Nat), NEW a \in Int, NEW b \in Int,
           \A n \in DOMAIN s : ~(s[n] >= a /\ s[n] < b)
    PROVE  Number(s, a, b) = 0
<1>1. Span(s, a, b) = {}
  BY DEF Span
<1> QED
  BY <1>1, FS_EmptySet DEF Number

Counter == [count: Int, until: Nat, on: BOOLEAN, number: Nat]

CoolShape ==
    /\ c_now \in 1 .. MaxTime /\ c_blip \in 0 .. MaxEvents /\ c_late \in BOOLEAN
    /\ c_redis \in Counter /\ c_redis.until <= MaxTime + Window
    /\ c_local \in [Process -> Counter]
    /\ c_refund \in [Process -> [on: BOOLEAN, number: Nat]]
    /\ c_allowed \in Seq(Nat) /\ c_refunded \in Nat

Alive == c_redis.on /\ (c_redis.until = 0 \/ c_redis.until > c_now)

(* Who was told to wait for a time to come is waiting for the counter      *)
(* there is.                                                               *)
Waits == c_blip = 0 => \A t \in c_told : t \in Nat /\ (t <= c_now \/ (Alive /\ c_redis.until = t))

Began == c_redis.until - Window

(* The counter began before now and no use it allowed came after its end.  *)
Current ==
    /\ c_redis.on \/ c_allowed = <<>>
    /\ c_redis.on => Began \in 1 .. c_now
    /\ \A n \in DOMAIN c_allowed : c_allowed[n] <= c_now /\ c_allowed[n] < c_redis.until

(* Of what was given back, r went to the counter there is: it has allowed  *)
(* no more than the limit and r, and the stretch before it no more than    *)
(* the limit and the rest.                                                 *)
Shared(r) ==
    /\ Number(c_allowed, Began, c_redis.until) <= c_redis.count + r
    /\ Number(c_allowed, Began, c_redis.until) <= Limit + r
    /\ Number(c_allowed, Began - Window, Began) <= Limit + c_refunded - r

Bounded == \A t \in Nat : Number(c_allowed, t, t + Window) <= 2 * Limit + c_refunded

Counted == c_blip = 0 /\ ~c_late => /\ Current /\ Bounded
                                    /\ c_redis.on => \E r \in 0 .. c_refunded : Shared(r)

CoolInv == CoolShape /\ Waits /\ Counted

LEMMA CoolInitial == CoolAssumption /\ Cool!Init => CoolInv
<1> SUFFICES ASSUME CoolAssumption, Cool!Init PROVE CoolInv
  OBVIOUS
<1>1. /\ c_now = 1 /\ c_redis = [count |-> 0, until |-> 0, on |-> FALSE, number |-> 0]
      /\ c_local = [p \in Process |-> [count |-> 0, until |-> 0, on |-> FALSE, number |-> 0]]
      /\ c_refund = [p \in Process |-> [on |-> FALSE, number |-> 0]]
      /\ c_allowed = <<>> /\ c_refunded = 0 /\ c_told = {} /\ c_late = FALSE /\ c_blip = 0
  BY DEF Cool!Init, Cool!NoCounter
<1>2. CoolShape
  <2>1. c_redis \in Counter /\ c_local \in [Process -> Counter]
    BY <1>1 DEF Counter
  <2>2. 1 \in 1 .. MaxTime /\ 0 \in 0 .. MaxEvents /\ 0 <= MaxTime + Window
    BY PermissionsAssumption DEF CoolAssumption, PermissionsAssumption
  <2>3. c_refund \in [Process -> [on: BOOLEAN, number: Nat]]
    BY <1>1
  <2>4. <<>> \in Seq(Nat)
    OBVIOUS
  <2> QED
    BY <1>1, <2>1, <2>2, <2>3, <2>4 DEF CoolShape
<1>3. Current
  BY <1>1 DEF Current
<1>4. Bounded
  <2> SUFFICES ASSUME NEW t \in Nat
               PROVE  Number(c_allowed, t, t + Window) <= 2 * Limit + c_refunded
    BY DEF Bounded
  <2>1. c_allowed \in Seq(Nat) /\ DOMAIN c_allowed = {} /\ t + Window \in Int /\ t \in Int
    BY <1>1, <1>2 DEF CoolAssumption, CoolShape
  <2>2. Number(c_allowed, t, t + Window) = 0
    BY <2>1, SpanNone
  <2> QED
    BY <1>1, <2>2 DEF CoolAssumption
<1> QED
  BY <1>1, <1>2, <1>3, <1>4 DEF CoolInv, Waits, Counted

(* A stretch that a use of now falls in is one of the counter's window and *)
(* the one before it.                                                      *)
LEMMA Stretch ==
    ASSUME CoolAssumption, NEW s \in Seq(Nat), NEW b \in Int, NEW x \in Int, NEW t \in Nat,
           NEW g \in Nat, NEW r \in 0 .. g, b <= x, t <= x, x < t + Window,
           \A n \in DOMAIN s : s[n] < b + Window,
           Number(s, b, b + Window) <= Limit + r,
           Number(s, b - Window, b) <= Limit + g - r
    PROVE  Number(s, t, t + Window) <= 2 * Limit + g
<1>1. Window \in Nat /\ Limit \in Nat
  BY DEF CoolAssumption
<1>2. /\ b - Window \in Int /\ b + Window \in Int /\ t + Window \in Int /\ t \in Int
      /\ \A n \in DOMAIN s : s[n] \in Nat
  BY <1>1
<1>3. Number(s, t, t + Window) <= Number(s, b - Window, b + Window)
  BY <1>1, <1>2, SpanMore
<1>4. Number(s, b - Window, b + Window)
        <= Number(s, b - Window, b) + Number(s, b, b + Window)
  BY <1>2, SpanSplit
<1>5. /\ Number(s, t, t + Window) \in Nat /\ Number(s, b - Window, b + Window) \in Nat
      /\ Number(s, b - Window, b) \in Nat /\ Number(s, b, b + Window) \in Nat
  BY <1>2, SpanFinite
<1> QED
  BY <1>1, <1>3, <1>4, <1>5

LEMMA Increments ==
    ASSUME CoolAssumption, CoolShape, NEW x \in Counter
    PROVE  /\ Cool!Incremented(x) \in Counter
           /\ Cool!Incremented(x).on
           /\ Cool!Lives(x) =>
                /\ Cool!Incremented(x).count = x.count + 1
                /\ x.until # 0 => Cool!Incremented(x).until = x.until
                /\ x.until = 0 => Cool!Incremented(x).until = c_now + Window
           /\ ~Cool!Lives(x) =>
                /\ Cool!Incremented(x).count = 1
                /\ Cool!Incremented(x).until = c_now + Window
<1>1. /\ x.count \in Int /\ x.until \in Nat /\ x.number \in Nat /\ x.on \in BOOLEAN
      /\ c_now \in Nat /\ Window \in Nat
  BY DEF CoolShape, CoolAssumption, Counter
<1>2. Cool!Until(x) \in Nat
  BY <1>1 DEF Cool!Until
<1>3. (IF Cool!Lives(x) THEN x.count ELSE 0) + 1 \in Int
  BY <1>1
<1>4. (IF Cool!Lives(x) THEN x.number ELSE x.number + 1) \in Nat
  BY <1>1
<1> QED
  BY <1>1, <1>2, <1>3, <1>4 DEF Cool!Incremented, Cool!Until, Counter

LEMMA TickKeeps == CoolAssumption /\ CoolInv /\ Cool!Tick => CoolInv'
<1> SUFFICES ASSUME CoolAssumption, CoolInv, Cool!Tick PROVE CoolInv'
  OBVIOUS
<1>1. /\ CoolShape /\ Waits /\ Counted
      /\ c_now < MaxTime /\ c_now' = c_now + 1
      /\ UNCHANGED <<c_redis, c_local, c_refund, c_allowed, c_refunded, c_told, c_late, c_blip>>
  BY DEF CoolInv, Cool!Tick
<1>2. CoolShape'
  BY <1>1 DEF CoolShape, CoolAssumption
<1>3. Waits'
  BY <1>1 DEF Waits, CoolShape, CoolAssumption, Alive, Counter
<1>4. Current /\ c_blip = 0 /\ ~c_late => Current'
  <2>1. \A n \in DOMAIN c_allowed : c_allowed[n] \in Nat
    BY <1>1 DEF CoolShape
  <2> QED
    BY <1>1, <2>1 DEF Current, CoolShape, CoolAssumption, Began, Counter
<1>5. Counted'
  BY <1>1, <1>4 DEF Counted, Bounded, Shared, Began
<1> QED
  BY <1>2, <1>3, <1>5 DEF CoolInv

(* Redis fails: nothing is said of the counter from then on.               *)
LEMMA FailedKeeps ==
    ASSUME CoolAssumption, CoolInv, NEW p \in Process, NEW x \in Counter,
           c_blip < MaxEvents, c_blip' = c_blip + 1, c_local' = [c_local EXCEPT ![p] = x],
           c_allowed' \in Seq(Nat), c_refunded' \in Nat,
           UNCHANGED <<c_now, c_redis, c_refund, c_late>>
    PROVE  CoolInv'
<1>1. CoolShape /\ c_blip' # 0 /\ MaxEvents \in Nat
  BY PermissionsAssumption DEF CoolInv, CoolShape, PermissionsAssumption
<1>2. CoolShape'
  BY <1>1 DEF CoolShape, CoolAssumption
<1> QED
  BY <1>1, <1>2 DEF CoolInv, Waits, Counted

LEMMA CheckLocallyKeeps ==
    ASSUME CoolAssumption, CoolInv, NEW p \in Process, Cool!CheckLocally(p)
    PROVE  CoolInv'
<1>1. CoolShape /\ c_local[p] \in Counter
  BY DEF CoolInv, CoolShape
<1>2. Cool!Incremented(c_local[p]) \in Counter
  BY <1>1, Increments
<1>3. c_allowed' \in Seq(Nat)
  <2>1. c_allowed' = c_allowed \/ c_allowed' = Append(c_allowed, c_now)
    BY DEF Cool!CheckLocally, Cool!Outcome
  <2>2. c_allowed \in Seq(Nat) /\ c_now \in Nat
    BY <1>1 DEF CoolShape
  <2> QED
    BY <2>1, <2>2
<1>4. c_refunded' \in Nat
  BY <1>1 DEF Cool!CheckLocally, CoolShape
<1> QED
  BY <1>2, <1>3, <1>4, FailedKeeps DEF Cool!CheckLocally

LEMMA RefundLocallyKeeps ==
    ASSUME CoolAssumption, CoolInv, NEW p \in Process, Cool!RefundLocally(p)
    PROVE  CoolInv'
<1> DEFINE x == [c_local[p] EXCEPT !.count = @ - 1]
<1>1. CoolShape /\ c_local[p] \in Counter
  BY DEF CoolInv, CoolShape
<1>2. x \in Counter
  BY <1>1 DEF Counter
<1>3. c_allowed' \in Seq(Nat) /\ c_refunded' \in Nat
  BY <1>1 DEF Cool!RefundLocally, CoolShape
<1>4. c_local' = [c_local EXCEPT ![p] = x]
  BY <1>1 DEF Cool!RefundLocally, CoolShape
<1> HIDE DEF x
<1> QED
  BY <1>2, <1>3, <1>4, FailedKeeps DEF Cool!RefundLocally

LEMMA RefundKeeps ==
    ASSUME CoolAssumption, CoolInv, NEW p \in Process, Cool!Refund(p)
    PROVE  CoolInv'
<1>1. /\ CoolShape /\ Waits /\ Counted
      /\ c_refund' = [c_refund EXCEPT ![p] = [on |-> TRUE, number |-> c_redis.number]]
      /\ UNCHANGED <<c_now, c_redis, c_local, c_allowed, c_refunded, c_told, c_late, c_blip>>
  BY DEF CoolInv, Cool!Refund
<1>2. c_redis.number \in Nat
  BY <1>1 DEF CoolShape, Counter
<1>3. CoolShape'
  BY <1>1, <1>2 DEF CoolShape
<1> QED
  BY <1>1, <1>3 DEF CoolInv, Waits, Alive, Counted, Current, Bounded, Shared, Began

LEMMA DecrementKeeps ==
    ASSUME CoolAssumption, CoolInv, NEW p \in Process, Cool!Decrement(p)
    PROVE  CoolInv'
<1>1. /\ CoolShape /\ Waits /\ Counted
      /\ c_refund' = [c_refund EXCEPT ![p].on = FALSE]
      /\ c_redis' = IF Cool!Lives(c_redis) THEN [c_redis EXCEPT !.count = @ - 1]
                    ELSE [count |-> -1, until |-> 0, on |-> TRUE, number |-> c_redis.number + 1]
      /\ c_local' = [c_local EXCEPT ![p].count =
                        IF Cool!Lives(c_local[p]) /\ @ > 0 THEN @ - 1 ELSE @]
      /\ c_refunded' = c_refunded + 1
      /\ c_late' = (c_late \/ ~Cool!Lives(c_redis) \/ c_redis.number # c_refund[p].number)
      /\ UNCHANGED <<c_now, c_allowed, c_told, c_blip>>
  BY DEF CoolInv, Cool!Decrement
<1>2. c_redis \in Counter /\ c_local[p] \in Counter /\ c_refund[p] \in [on: BOOLEAN, number: Nat]
  BY <1>1 DEF CoolShape
<1>3. CoolShape'
  <2>1. c_redis' \in Counter /\ c_redis'.until <= MaxTime + Window
    <3>1. c_redis.count - 1 \in Int /\ c_redis.number + 1 \in Nat
      BY <1>2 DEF Counter
    <3>2. 0 <= MaxTime + Window /\ c_redis.until <= MaxTime + Window
      BY <1>1 DEF CoolAssumption, CoolShape
    <3> QED
      BY <1>1, <1>2, <3>1, <3>2 DEF Counter
  <2>2. c_local' \in [Process -> Counter]
    <3>a. c_local[p].count \in Int /\ c_local[p].count - 1 \in Int
      <4>1. c_local[p].count \in Int
        BY <1>2 DEF Counter
      <4> QED
        BY <4>1
    <3> DEFINE k == IF Cool!Lives(c_local[p]) /\ c_local[p].count > 0
                    THEN c_local[p].count - 1 ELSE c_local[p].count
    <3>1. k \in Int /\ c_local' = [c_local EXCEPT ![p].count = k]
      <4>1. k \in Int
        BY ONLY <3>a
      <4>2. c_local' = [c_local EXCEPT ![p].count = k]
        BY <1>1 DEF CoolShape
      <4> QED
        BY <4>1, <4>2
    <3> HIDE DEF k
    <3>2. [c_local[p] EXCEPT !.count = k] \in Counter
      BY <1>2, <3>1 DEF Counter
    <3>3. c_local' = [c_local EXCEPT ![p] = [c_local[p] EXCEPT !.count = k]]
      BY <1>1, <3>1 DEF CoolShape
    <3> QED
      BY <1>1, <3>2, <3>3 DEF CoolShape
  <2>3. c_refund' \in [Process -> [on: BOOLEAN, number: Nat]]
    BY <1>1, <1>2 DEF CoolShape
  <2>4. c_late' \in BOOLEAN /\ c_refunded' \in Nat
    BY <1>1 DEF CoolShape
  <2> QED
    BY <1>1, <2>1, <2>2, <2>3, <2>4 DEF CoolShape
<1>4. Waits'
  <2>1. CASE Cool!Lives(c_redis)
    <3>1. c_redis'.until = c_redis.until /\ c_redis'.on = c_redis.on
      BY <1>1, <1>2, <2>1 DEF Counter
    <3> QED
      BY <1>1, <3>1 DEF Waits, Alive
  <2>2. CASE ~Cool!Lives(c_redis)
    BY <1>1, <2>2 DEF Waits, Alive, Cool!Lives
  <2> QED
    BY <2>1, <2>2
<1>5. Counted'
  <2> SUFFICES ASSUME c_blip' = 0, ~c_late'
               PROVE  Current' /\ Bounded' /\ (c_redis'.on => \E r \in 0 .. c_refunded' : Shared(r)')
    BY DEF Counted
  <2>1. c_blip = 0 /\ ~c_late /\ Cool!Lives(c_redis)
    BY <1>1 DEF CoolShape
  <2>2. Current /\ Bounded /\ c_redis.on
    BY <1>1, <2>1 DEF Counted, Cool!Lives
  <2>3. PICK r \in 0 .. c_refunded : Shared(r)
    BY <1>1, <2>1, <2>2 DEF Counted
  <2>4. /\ c_redis'.until = c_redis.until /\ c_redis'.on = c_redis.on
        /\ c_redis'.count = c_redis.count - 1
    BY <1>1, <1>2, <2>1 DEF Counter
  <2>5. Current'
    BY <1>1, <2>2, <2>4 DEF Current, Began
  <2>6. c_refunded \in Nat /\ Limit \in Nat /\ c_redis.count \in Int
    BY <1>1, <1>2 DEF CoolShape, CoolAssumption, Counter
  <2>7. c_redis.until \in Nat /\ Window \in Nat /\ c_allowed \in Seq(Nat)
    BY <1>1, <1>2 DEF CoolShape, CoolAssumption, Counter
  <2>8. Bounded'
    <3> SUFFICES ASSUME NEW t \in Nat
                 PROVE  Number(c_allowed, t, t + Window) <= 2 * Limit + (c_refunded + 1)
      BY <1>1 DEF Bounded
    <3>1. Number(c_allowed, t, t + Window) \in Nat
      BY <2>7, SpanFinite
    <3> QED
      BY <2>2, <2>6, <3>1 DEF Bounded
  <2>9. Shared(r + 1)'
    <3>1. /\ Number(c_allowed, Began, c_redis.until) \in Nat
          /\ Number(c_allowed, Began - Window, Began) \in Nat
      BY <2>7, SpanFinite DEF Began
    <3> QED
      BY <1>1, <2>3, <2>4, <2>6, <3>1 DEF Shared, Began
  <2> QED
    BY <1>1, <2>5, <2>6, <2>8, <2>9
<1> QED
  BY <1>3, <1>4, <1>5 DEF CoolInv

LEMMA CheckKeeps ==
    ASSUME CoolAssumption, CoolInv, NEW p \in Process, Cool!Check(p)
    PROVE  CoolInv'
<1> DEFINE c == Cool!Incremented(c_redis)
<1>1. /\ CoolShape /\ Waits /\ Counted
      /\ c_redis' = c /\ c_local' = [c_local EXCEPT ![p] = c]
      /\ IF Cool!Limited(c.count) THEN c_told' = c_told \cup {c.until} /\ UNCHANGED c_allowed
         ELSE c_allowed' = Append(c_allowed, c_now) /\ UNCHANGED c_told
      /\ UNCHANGED <<c_now, c_refund, c_refunded, c_late, c_blip>>
  BY DEF CoolInv, Cool!Check, Cool!Outcome
<1>2. /\ c_redis \in Counter /\ c_now \in Nat /\ c_now >= 1 /\ c_now <= MaxTime
      /\ c_allowed \in Seq(Nat) /\ c_refunded \in Nat
      /\ Limit \in Nat /\ Window \in Nat /\ Window >= 1 /\ MaxTime \in Nat
  BY <1>1 DEF CoolShape, CoolAssumption
<1>3. c_redis.count \in Int /\ c_redis.until \in Nat /\ c_redis.until <= MaxTime + Window
  BY <1>1, <1>2 DEF Counter, CoolShape
<1>4. /\ c \in Counter /\ c.on
      /\ Alive => /\ c.count = c_redis.count + 1
                  /\ c_redis.until # 0 => c.until = c_redis.until
                  /\ c_redis.until = 0 => c.until = c_now + Window
      /\ ~Alive => c.count = 1 /\ c.until = c_now + Window
  BY <1>1, <1>2, Increments DEF Alive, Cool!Lives
<1> HIDE DEF c
<1>5. c.count \in Int /\ c.until \in Nat
  BY <1>4 DEF Counter
<1>6. c.until > c_now /\ c.until <= MaxTime + Window
  BY <1>2, <1>3, <1>4, <1>5 DEF Alive
<1>7. CoolShape'
  <2>1. c_allowed' \in Seq(Nat)
    BY <1>1, <1>2
  <2>2. c_local' \in [Process -> Counter]
    BY <1>1, <1>4 DEF CoolShape
  <2> QED
    BY <1>1, <1>4, <1>6, <2>1, <2>2 DEF CoolShape
<1>8. Waits'
  <2> SUFFICES ASSUME c_blip = 0, NEW t \in c_told'
               PROVE  t \in Nat /\ (t <= c_now \/ (Alive' /\ c.until = t))
    BY <1>1 DEF Waits
  <2>1. Alive'
    BY <1>1, <1>4, <1>6 DEF Alive
  <2>2. CASE t \in c_told
    <3>1. t \in Nat /\ (t <= c_now \/ (Alive /\ c_redis.until = t))
      BY <1>1, <2>2 DEF Waits
    <3> QED
      BY <1>2, <1>4, <2>1, <3>1
  <2>3. CASE t \notin c_told
    BY <1>1, <1>5, <2>1, <2>3
  <2> QED
    BY <2>2, <2>3
<1>9. Counted'
  <2> SUFFICES ASSUME c_blip = 0, ~c_late
               PROVE  Current' /\ Bounded' /\ \E r \in 0 .. c_refunded : Shared(r)'
    BY <1>1 DEF Counted
  <2> DEFINE b == c.until - Window
  <2>1. /\ Current /\ Bounded
        /\ c_redis.on => \E r \in 0 .. c_refunded : Shared(r)
    BY <1>1 DEF Counted
  <2>2. \A n \in DOMAIN c_allowed : /\ c_allowed[n] \in Nat
                                    /\ c_allowed[n] <= c_now /\ c_allowed[n] < c_redis.until
    BY <1>2, <2>1 DEF Current
  <2>3. /\ b \in Int /\ b >= 1 /\ b <= c_now /\ b + Window = c.until
        /\ b - Window \in Int
    BY <1>2, <1>3, <1>4, <1>5, <2>1 DEF Alive, Current, Began
  \* What had been allowed, and what the counter says of it.
  <2>4. PICK r \in 0 .. c_refunded :
           /\ Number(c_allowed, b, c.until) + 1 <= c.count + r
           /\ Number(c_allowed, b, c.until) <= Limit + r
           /\ Number(c_allowed, b - Window, b) <= Limit + c_refunded - r
    <3>1. CASE Alive
      <4>1. c.until = c_redis.until /\ c.count = c_redis.count + 1 /\ b = Began /\ c_redis.on
        BY <1>2, <1>3, <1>4, <2>1, <3>1 DEF Alive, Current, Began
      <4>2. PICK r \in 0 .. c_refunded : Shared(r)
        BY <2>1, <4>1
      <4>3. Number(c_allowed, b, c.until) \in Nat
        BY <1>2, <1>5, <2>3, SpanFinite
      <4> HIDE DEF b
      <4> QED
        BY <1>3, <4>1, <4>2, <4>3 DEF Shared
    <3>2. CASE ~Alive
      <4>1. c.until = c_now + Window /\ c.count = 1 /\ b = c_now
        BY <1>2, <1>4, <3>2
      <4>2. \A n \in DOMAIN c_allowed : c_allowed[n] < c_now
        BY <1>2, <1>3, <2>1, <2>2, <3>2 DEF Alive, Current, Began
      <4>3. Number(c_allowed, b, c.until) = 0
        BY <1>2, <1>5, <2>2, <2>3, <4>1, <4>2, SpanNone
      <4>4. Number(c_allowed, b - Window, b) <= Limit + c_refunded
        <5>1. CASE c_redis.on
          <6>1. PICK r \in 0 .. c_refunded : Shared(r)
            BY <2>1, <5>1
          <6>2. c_redis.until <= c_now /\ Began \in Int
            BY <1>2, <1>3, <2>1, <3>2, <5>1 DEF Alive, Current, Began
          <6>3. Number(c_allowed, b - Window, b) <= Number(c_allowed, Began, c_redis.until)
            BY <1>2, <1>3, <2>2, <2>3, <4>1, <6>2, SpanMore DEF Began
          <6>4. /\ Number(c_allowed, b - Window, b) \in Nat
                /\ Number(c_allowed, Began, c_redis.until) \in Nat
            BY <1>2, <1>3, <2>3, <6>2, SpanFinite
          <6> HIDE DEF b
          <6> QED
            BY <1>2, <6>1, <6>3, <6>4 DEF Shared
        <5>2. CASE ~c_redis.on
          <6>1. DOMAIN c_allowed = {}
            BY <2>1, <5>2 DEF Current
          <6>2. Number(c_allowed, b - Window, b) = 0
            BY <1>2, <2>3, <6>1, SpanNone
          <6> HIDE DEF b
          <6> QED
            BY <1>2, <6>2
        <5> QED
          BY <5>1, <5>2
      <4>5. 0 \in 0 .. c_refunded
        BY <1>2
      <4>6. /\ Number(c_allowed, b, c.until) + 1 <= c.count + 0
            /\ Number(c_allowed, b, c.until) <= Limit + 0
        BY <1>2, <4>1, <4>3
      <4>7. Number(c_allowed, b - Window, b) <= Limit + c_refunded - 0
        BY <1>2, <4>4
      <4> HIDE DEF b
      <4> QED
        BY <4>5, <4>6, <4>7
    <3> QED
      BY <3>1, <3>2
  <2>5. Began' = b /\ c_redis'.until = c.until /\ c_redis'.on /\ c_redis'.count = c.count
    BY <1>1, <1>4 DEF Began
  <2>6. \A n \in DOMAIN c_allowed' : c_allowed'[n] \in Nat /\ c_allowed'[n] <= c_now
                                     /\ c_allowed'[n] < c.until
    <3>1. \A n \in DOMAIN c_allowed : c_allowed[n] < c.until
      BY <1>2, <1>5, <1>6, <2>2
    <3>2. CASE c_allowed' = c_allowed
      BY <2>2, <3>1, <3>2
    <3>3. CASE c_allowed' = Append(c_allowed, c_now)
      <4>1. /\ Len(c_allowed) \in Nat /\ DOMAIN c_allowed = 1 .. Len(c_allowed)
            /\ DOMAIN c_allowed' = 1 .. (Len(c_allowed) + 1)
            /\ \A n \in 1 .. Len(c_allowed) : c_allowed'[n] = c_allowed[n]
            /\ c_allowed'[Len(c_allowed) + 1] = c_now
        BY <1>2, <3>3
      <4> QED
        BY <1>2, <1>6, <2>2, <3>1, <4>1
    <3> QED
      BY <1>1, <3>2, <3>3
  <2>7. Current'
    BY <1>1, <1>4, <2>3, <2>5, <2>6 DEF Current
  <2>8. /\ Number(c_allowed', b, c.until) <= c.count + r
        /\ Number(c_allowed', b, c.until) <= Limit + r
        /\ Number(c_allowed', b - Window, b) <= Limit + c_refunded - r
        /\ c_allowed' = c_allowed \/ c_allowed' = Append(c_allowed, c_now)
    <3>1. Number(c_allowed, b, c.until) \in Nat
      BY <1>2, <1>5, <2>3, SpanFinite
    <3>2. CASE Cool!Limited(c.count)
      <4> HIDE DEF b
      <4> QED
        BY <1>1, <1>5, <2>4, <3>1, <3>2
    <3>3. CASE ~Cool!Limited(c.count)
      <4>1. c.count <= Limit /\ c_allowed' = Append(c_allowed, c_now)
        BY <1>1, <1>2, <1>5, <3>3 DEF Cool!Limited
      <4>2. Number(c_allowed', b, c.until) = Number(c_allowed, b, c.until) + 1
        BY <1>2, <1>5, <1>6, <2>3, <4>1, SpanAppend
      <4>3. Number(c_allowed', b - Window, b) = Number(c_allowed, b - Window, b)
        BY <1>2, <2>3, <4>1, SpanAppend
      <4> HIDE DEF b
      <4> QED
        BY <1>2, <1>5, <2>4, <3>1, <4>1, <4>2, <4>3
    <3> QED
      BY <3>2, <3>3
  <2>9. Shared(r)'
    BY <1>1, <2>5, <2>8 DEF Shared
  <2>10. Bounded'
    <3> SUFFICES ASSUME NEW t \in Nat
                 PROVE  Number(c_allowed', t, t + Window) <= 2 * Limit + c_refunded
      BY <1>1 DEF Bounded
    <3>1. CASE t <= c_now /\ c_now < t + Window
      <4>1. c_allowed' \in Seq(Nat)
        BY <1>7 DEF CoolShape
      <4>2. /\ Number(c_allowed', b, b + Window) <= Limit + r
            /\ \A n \in DOMAIN c_allowed' : c_allowed'[n] < b + Window
        BY <2>3, <2>6, <2>8
      <4>3. c_now \in Int /\ b \in Int /\ b <= c_now /\ c_refunded \in Nat
        BY <1>2, <2>3
      <4> HIDE DEF b
      <4> QED
        BY <2>8, <3>1, <4>1, <4>2, <4>3, Stretch
    <3>2. CASE ~(t <= c_now /\ c_now < t + Window)
      <4>1. t \in Int /\ t + Window \in Int
        BY <1>2
      <4>2. Number(c_allowed', t, t + Window) = Number(c_allowed, t, t + Window)
        <5>1. c_allowed' = c_allowed \/ c_allowed' = Append(c_allowed, c_now)
          BY <2>8
        <5>2. Number(Append(c_allowed, c_now), t, t + Window) = Number(c_allowed, t, t + Window)
          BY <1>2, <3>2, <4>1, SpanAppend
        <5> QED
          BY ONLY <5>1, <5>2
      <4> QED
        BY <2>1, <4>2 DEF Bounded
    <3> QED
      BY <3>1, <3>2
  <2> QED
    BY <2>7, <2>9, <2>10
<1> QED
  BY <1>7, <1>8, <1>9 DEF CoolInv

LEMMA CoolStep ==
    CoolAssumption /\ CoolInv /\ [Cool!Next]_(Cool!vars) => CoolInv'
<1> SUFFICES ASSUME CoolAssumption, CoolInv, [Cool!Next]_(Cool!vars) PROVE CoolInv'
  OBVIOUS
<1>1. CASE Cool!Tick
  BY <1>1, TickKeeps
<1>2. ASSUME NEW p \in Process,
             \/ Cool!Check(p) \/ Cool!CheckLocally(p) \/ Cool!Refund(p) \/ Cool!Decrement(p)
             \/ Cool!RefundLocally(p)
      PROVE  CoolInv'
  BY <1>2, CheckKeeps, CheckLocallyKeeps, RefundKeeps, DecrementKeeps, RefundLocallyKeeps
<1>3. CASE UNCHANGED Cool!vars
  <2>1. UNCHANGED <<c_now, c_redis, c_local, c_refund, c_allowed, c_refunded, c_told, c_late,
                    c_blip>>
    BY <1>3 DEF Cool!vars
  <2>2. CoolShape' /\ Waits'
    BY <2>1 DEF CoolInv, CoolShape, Waits, Alive
  <2>3. Counted'
    BY <2>1 DEF CoolInv, Counted, Current, Bounded, Shared, Began
  <2> QED
    BY <2>2, <2>3 DEF CoolInv
<1> QED
  BY <1>1, <1>2, <1>3 DEF Cool!Next

LEMMA CoolCardinality == \A S : Cool!Cardinality(S) = Cardinality(S)
BY DEF Cool!Cardinality, Cardinality

(* In no stretch of a window's length are more uses allowed than twice the *)
(* limit and what was given back, while Redis answers and no refund        *)
(* outlives its counter, and who was refused is not made to wait longer    *)
(* than told: for any limit, window and number of processes (Bucket.ts,    *)
(* incrWithTtl, decr).                                                     *)
LEMMA CooldownsKept ==
    ASSUME CoolAssumption PROVE Cool!Spec => []Cool!CooldownIsKept
<1>1. CoolInv => Cool!TypeOK
  <2> SUFFICES ASSUME CoolInv PROVE Cool!TypeOK
    OBVIOUS
  <2>1. CoolShape /\ MaxTime \in Nat /\ Window \in Nat
    BY DEF CoolInv, CoolAssumption
  <2>2. c_redis.count \in Int /\ c_redis.until \in Nat /\ c_redis.until <= MaxTime + Window
    BY <2>1 DEF CoolShape, Counter
  <2>3. \A p \in Process : c_local[p].count \in Int
    BY <2>1 DEF CoolShape, Counter
  <2> QED
    BY <2>1, <2>2, <2>3 DEF CoolShape, Cool!TypeOK
<1>2. CoolInv => Cool!BurstIsBounded
  <2> SUFFICES ASSUME CoolInv, c_blip = 0, ~c_late, NEW n \in DOMAIN c_allowed
               PROVE  Cool!Within(c_allowed, c_allowed[n]) <= 2 * Limit + c_refunded
    BY DEF Cool!BurstIsBounded
  <2>1. c_allowed[n] \in Nat /\ Bounded
    BY DEF CoolInv, CoolShape, Counted
  <2>2. Cool!Within(c_allowed, c_allowed[n])
          = Number(c_allowed, c_allowed[n], c_allowed[n] + Window)
    BY CoolCardinality DEF Cool!Within, Number, Span
  <2> QED
    BY <2>1, <2>2 DEF Bounded
<1>3. CoolInv => Cool!WaitIsKept
  <2> SUFFICES ASSUME CoolInv, c_blip = 0, NEW t \in c_told, t > c_now
               PROVE  c_redis.until <= t
    BY DEF Cool!WaitIsKept
  <2>1. c_now \in Nat /\ t \in Nat /\ (t <= c_now \/ c_redis.until = t)
    BY DEF CoolInv, CoolShape, Waits
  <2> QED
    BY <2>1
<1> QED
  BY <1>1, <1>2, <1>3, CoolInitial, CoolStep, PTL DEF Cool!Spec, Cool!CooldownIsKept

-----------------------------------------------------------------------------
(* The tokens, for any number of calls and of tokens.                      *)

DeviceRow == [ver: Nat, last: Nat]

Token == [gv: Nat, dv: Nat, state: {"good", "unsure", "device", "all"}]

TokenCall ==
    [op: {"none", "sign", "verify", "refresh", "issue", "revokeDevice", "revokeAll"},
     pc: {"idle", "global", "device", "last", "increment", "found", "count", "counted", "read",
          "touch", "write"},
     token: Nat, gv: Nat, dv: Nat, row: DeviceRow, unsure: BOOLEAN]

TokenShape ==
    /\ t_engine \in {"sql", "mongo"} /\ t_global \in Nat
    /\ t_torn \in BOOLEAN /\ t_again \in BOOLEAN
    /\ t_tokens \in Seq(Token)
    /\ t_device \in DeviceRow /\ t_device.last <= Len(t_tokens)
    /\ t_call \in [Caller -> TokenCall]

(* A store that counts in one statement counts up; another one as long as  *)
(* nothing was written over.                                               *)
CountsUp == t_engine = "sql" \/ ~t_torn

(* A call x is at a point it can be at, and the version it has read of the *)
(* user is the present one unless all tokens were revoked since.           *)
Fits(x) ==
    /\ x.token <= Len(t_tokens) /\ x.row.last <= Len(t_tokens)
    /\ x.pc = "last" => x.op = "verify"
    /\ x.pc \in {"increment", "found"} => x.op \in {"verify", "revokeDevice"}
    /\ x.pc \in {"count", "counted"} => x.op = "revokeAll"
    /\ x.pc \in {"found", "counted"} => t_engine = "mongo"
    /\ x.pc = "write" => x.op \in {"sign", "issue"}
    /\ x.op \in {"sign", "issue"} /\ x.pc \in {"device", "write"} =>
          /\ CountsUp => x.gv <= t_global
          /\ ~x.unsure => x.gv = t_global

Globals == CountsUp => \A n \in DOMAIN t_tokens :
    /\ t_tokens[n].gv <= t_global
    /\ t_tokens[n].state = "all" => t_tokens[n].gv < t_global

(* The version of the device has passed that of a revoked token, of the    *)
(* last one issued for certain, of each where it was not started anew.     *)
Passed(x) == x.dv <= t_device.ver /\ (x.state = "device" => x.dv < t_device.ver)

Latest == ~t_torn =>
    /\ t_device.last = Len(t_tokens)
    /\ t_tokens # <<>> =>
         /\ Passed(t_tokens[Len(t_tokens)])
         /\ t_tokens[Len(t_tokens)].state = "good" =>
              Tok!Matches(Len(t_tokens), t_global, t_device.ver)

Devices == ~t_torn /\ ~t_again => \A n \in DOMAIN t_tokens : Passed(t_tokens[n])

TokenInv ==
    /\ TokenShape /\ (\A c \in Caller : Fits(t_call[c]))
    /\ Globals /\ Latest /\ Devices

LEMMA IdleFits ==
    TokenShape => Tok!Idle \in TokenCall /\ Tok!Idle.op = "none" /\ Tok!Idle.pc = "idle"
                  /\ Tok!Idle.row \in DeviceRow /\ Fits(Tok!Idle)
<1> SUFFICES ASSUME TokenShape
             PROVE  Tok!Idle \in TokenCall /\ Tok!Idle.op = "none" /\ Tok!Idle.pc = "idle"
                    /\ Tok!Idle.row \in DeviceRow /\ Fits(Tok!Idle)
  OBVIOUS
<1>1. Len(t_tokens) \in Nat
  BY DEF TokenShape
<1> QED
  BY <1>1 DEF Tok!Idle, TokenCall, DeviceRow, Fits

LEMMA TokenInitial == Tok!Init => TokenInv
<1> SUFFICES ASSUME Tok!Init PROVE TokenInv
  OBVIOUS
<1>1. /\ t_engine \in {"sql", "mongo"} /\ t_global = 0 /\ t_device = [ver |-> 0, last |-> 0]
      /\ t_tokens = <<>> /\ t_call = [c \in Caller |-> Tok!Idle] /\ t_torn = FALSE
      /\ t_again = FALSE
  BY DEF Tok!Init
<1>2. <<>> \in Seq(Token) /\ Len(<<>>) = 0 /\ DOMAIN t_tokens = {}
  BY <1>1
<1>3. Tok!Idle \in TokenCall
  BY DEF Tok!Idle, TokenCall, DeviceRow
<1>4. TokenShape
  <2>1. t_device \in DeviceRow /\ t_device.last = 0
    BY <1>1 DEF DeviceRow
  <2>2. t_call \in [Caller -> TokenCall]
    BY <1>1, <1>3
  <2>3. t_tokens \in Seq(Token) /\ Len(t_tokens) = 0
    BY <1>1, <1>2
  <2>4. t_torn \in BOOLEAN /\ t_again \in BOOLEAN /\ t_global \in Nat
    BY <1>1
  <2>5. t_device.last <= Len(t_tokens)
    BY <2>1, <2>3
  <2> QED
    BY <1>1, <2>1, <2>2, <2>3, <2>4, <2>5 DEF TokenShape
<1>5. \A c \in Caller : Fits(t_call[c])
  BY <1>1, <1>4, IdleFits
<1> QED
  BY <1>1, <1>2, <1>4, <1>5 DEF TokenInv, Globals, Latest, Devices

(* A step that changes nothing but its own call, or writes back over what  *)
(* has changed.                                                            *)
LEMMA TokenCallOnly ==
    ASSUME TokenInv, NEW c \in Caller, NEW rec \in TokenCall, Fits(rec),
           t_call' = [t_call EXCEPT ![c] = rec],
           t_device' \in DeviceRow, t_device'.last <= Len(t_tokens),
           t_torn' \in BOOLEAN, t_torn => t_torn', ~t_torn' => t_device' = t_device,
           UNCHANGED <<t_engine, t_global, t_tokens, t_again>>
    PROVE  TokenInv'
<1>1. TokenShape'
  BY DEF TokenInv, TokenShape
<1>2. \A d \in Caller : t_call'[d] = t_call[d] \/ t_call'[d] = rec
  BY DEF TokenInv, TokenShape
<1>3. CountsUp' => CountsUp
  BY DEF CountsUp
<1>4. \A d \in Caller : Fits(t_call[d])'
  BY <1>2, <1>3 DEF TokenInv, Fits
<1>5. Globals'
  BY <1>3 DEF TokenInv, Globals
<1>6. Latest' /\ Devices'
  BY DEF TokenInv, Latest, Devices, Passed, Tok!Matches
<1> QED
  BY <1>1, <1>4, <1>5, <1>6 DEF TokenInv

(* A revocation marks all tokens, and whoever is about to issue another.   *)
LEMMA Revokes ==
    ASSUME TokenShape, NEW c \in Caller, NEW rec \in TokenCall, NEW by \in {"device", "all"},
           Tok!Revoked(by, rec, c)
    PROVE  /\ t_tokens' \in Seq(Token) /\ Len(t_tokens') = Len(t_tokens)
           /\ DOMAIN t_tokens' = DOMAIN t_tokens
           /\ \A n \in DOMAIN t_tokens :
                 /\ t_tokens'[n].gv = t_tokens[n].gv /\ t_tokens'[n].dv = t_tokens[n].dv
                 /\ t_tokens'[n].state = IF by = "all" \/ t_tokens[n].state = "all" THEN "all"
                                         ELSE "device"
           /\ t_call' \in [Caller -> TokenCall] /\ t_call'[c] = rec
           /\ \A d \in Caller : d # c =>
                 t_call'[d] = [t_call[d] EXCEPT !.unsure = t_call[d].op \in {"sign", "issue"}]
<1> DEFINE mark(n) == IF by = "all" THEN "all"
                      ELSE IF t_tokens[n].state = "all" THEN t_tokens[n].state ELSE "device"
           f == [n \in 1 .. Len(t_tokens) |-> [t_tokens[n] EXCEPT !.state = mark(n)]]
<1>1. /\ t_tokens \in Seq(Token) /\ Len(t_tokens) \in Nat
      /\ DOMAIN t_tokens = 1 .. Len(t_tokens)
      /\ \A n \in 1 .. Len(t_tokens) : t_tokens[n] \in Token
  BY DEF TokenShape
<1>2. t_tokens' = f
  BY <1>1 DEF Tok!Revoked
<1>3. \A n \in 1 .. Len(t_tokens) : mark(n) \in {"all", "device"}
  OBVIOUS
<1>4. \A n \in 1 .. Len(t_tokens) :
         /\ f[n] \in Token /\ f[n].gv = t_tokens[n].gv /\ f[n].dv = t_tokens[n].dv
         /\ f[n].state = mark(n)
  <2> SUFFICES ASSUME NEW n \in 1 .. Len(t_tokens)
               PROVE  /\ f[n] \in Token /\ f[n].gv = t_tokens[n].gv /\ f[n].dv = t_tokens[n].dv
                      /\ f[n].state = mark(n)
    OBVIOUS
  <2>1. f[n] = [t_tokens[n] EXCEPT !.state = mark(n)] /\ t_tokens[n] \in Token
    BY <1>1
  <2>2. mark(n) \in {"all", "device"}
    BY <1>3
  <2> HIDE DEF f, mark
  <2> QED
    BY <2>1, <2>2 DEF Token
<1>5. DOMAIN f = 1 .. Len(t_tokens) /\ f \in [1 .. Len(t_tokens) -> Token]
  <2>1. DOMAIN f = 1 .. Len(t_tokens) /\ f = [n \in 1 .. Len(t_tokens) |-> f[n]]
    OBVIOUS
  <2> HIDE DEF f
  <2> QED
    BY <1>4, <2>1
<1>6. f \in Seq(Token) /\ Len(f) = Len(t_tokens)
  <2> HIDE DEF f
  <2> QED
    BY <1>1, <1>5
<1>7. \A d \in Caller :
         [t_call[d] EXCEPT !.unsure = t_call[d].op \in {"sign", "issue"}] \in TokenCall
  <2> SUFFICES ASSUME NEW d \in Caller
               PROVE  [t_call[d] EXCEPT !.unsure = t_call[d].op \in {"sign", "issue"}] \in TokenCall
    OBVIOUS
  <2>1. t_call[d] \in TokenCall /\ (t_call[d].op \in {"sign", "issue"}) \in BOOLEAN
    BY DEF TokenShape
  <2> QED
    BY <2>1 DEF TokenCall
<1>8. t_call' \in [Caller -> TokenCall] /\ t_call'[c] = rec
  BY <1>7 DEF Tok!Revoked
<1>9. \A d \in Caller : d # c =>
         t_call'[d] = [t_call[d] EXCEPT !.unsure = t_call[d].op \in {"sign", "issue"}]
  BY DEF Tok!Revoked
<1>10. \A n \in DOMAIN t_tokens : mark(n) = IF by = "all" \/ t_tokens[n].state = "all" THEN "all"
                                           ELSE "device"
  OBVIOUS
<1> HIDE DEF f, mark
<1> QED
  BY <1>1, <1>2, <1>4, <1>5, <1>6, <1>8, <1>9, <1>10

(* The calls under a revocation: who has read a version is unsure of it.   *)
LEMMA OthersFit ==
    ASSUME TokenInv, NEW c \in Caller, NEW rec \in TokenCall, NEW by \in {"device", "all"},
           Tok!Revoked(by, rec, c), t_engine' = t_engine,
           t_global' \in Nat, CountsUp' => CountsUp /\ t_global <= t_global'
    PROVE  \A d \in Caller : d # c => Fits(t_call[d])'
<1> SUFFICES ASSUME NEW d \in Caller, d # c PROVE Fits(t_call[d])'
  OBVIOUS
<1>1. Len(t_tokens') = Len(t_tokens)
  BY Revokes DEF TokenInv
<1>2. t_call'[d] = [t_call[d] EXCEPT !.unsure = t_call[d].op \in {"sign", "issue"}]
  BY Revokes DEF TokenInv
<1>3. t_call[d] \in TokenCall /\ Fits(t_call[d]) /\ t_global \in Nat
  BY DEF TokenInv, TokenShape
<1>4. /\ t_call'[d].op = t_call[d].op /\ t_call'[d].pc = t_call[d].pc
      /\ t_call'[d].token = t_call[d].token /\ t_call'[d].row = t_call[d].row
      /\ t_call'[d].gv = t_call[d].gv
      /\ t_call'[d].op \in {"sign", "issue"} => t_call'[d].unsure
  BY <1>2, <1>3 DEF TokenCall
<1>5. t_call[d].gv \in Nat
  BY <1>3 DEF TokenCall
<1> QED
  BY <1>1, <1>3, <1>4, <1>5 DEF Fits

LEMMA DeviceRevoked ==
    ASSUME TokenInv, NEW c \in Caller, NEW rec \in TokenCall, NEW k \in Nat,
           Tok!Revoked("device", rec, c), Fits(rec), rec.op \notin {"sign", "issue"},
           t_device' = [t_device EXCEPT !.ver = k],
           t_torn' \in BOOLEAN, t_torn => t_torn', ~t_torn' => k = t_device.ver + 1,
           UNCHANGED <<t_engine, t_global, t_again>>
    PROVE  TokenInv'
<1>1. /\ t_device \in DeviceRow /\ t_global \in Nat /\ t_tokens \in Seq(Token)
      /\ t_device.last <= Len(t_tokens)
  BY DEF TokenInv, TokenShape
<1>2. /\ t_device' \in DeviceRow /\ t_device'.last = t_device.last /\ t_device'.ver = k
      /\ t_device.ver \in Nat
  BY <1>1 DEF DeviceRow
<1>3. /\ t_tokens' \in Seq(Token) /\ Len(t_tokens') = Len(t_tokens)
      /\ DOMAIN t_tokens' = DOMAIN t_tokens
      /\ \A n \in DOMAIN t_tokens :
            /\ t_tokens'[n].gv = t_tokens[n].gv /\ t_tokens'[n].dv = t_tokens[n].dv
            /\ t_tokens'[n].state = IF t_tokens[n].state = "all" THEN "all" ELSE "device"
      /\ t_call' \in [Caller -> TokenCall] /\ t_call'[c] = rec
  BY Revokes DEF TokenInv
<1>4. TokenShape'
  BY <1>1, <1>2, <1>3 DEF TokenInv, TokenShape
<1>5. CountsUp' => CountsUp
  BY DEF CountsUp
<1>6. \A d \in Caller : Fits(t_call[d])'
  <2>1. \A d \in Caller : d # c => Fits(t_call[d])'
    BY <1>1, <1>5, OthersFit
  <2>2. Fits(t_call[c])'
    BY <1>3 DEF Fits
  <2> QED
    BY <2>1, <2>2
<1>7. Globals'
  BY <1>3, <1>5 DEF TokenInv, Globals
<1>8. \A n \in DOMAIN t_tokens :
         ~t_torn' /\ Passed(t_tokens[n]) => t_tokens'[n].dv < t_device'.ver
  <2> SUFFICES ASSUME NEW n \in DOMAIN t_tokens, ~t_torn', Passed(t_tokens[n])
               PROVE  t_tokens'[n].dv < t_device'.ver
    OBVIOUS
  <2>1. t_tokens[n] \in Token
    BY <1>1
  <2>2. t_tokens[n].dv \in Nat
    BY <2>1 DEF Token
  <2> QED
    BY <1>2, <1>3, <2>2 DEF Passed
<1>9. \A n \in DOMAIN t_tokens : t_tokens'[n].dv \in Nat /\ t_tokens'[n].state # "good"
  <2> SUFFICES ASSUME NEW n \in DOMAIN t_tokens
               PROVE  t_tokens'[n].dv \in Nat /\ t_tokens'[n].state # "good"
    OBVIOUS
  <2>1. t_tokens[n] \in Token
    BY <1>1
  <2> QED
    BY <1>3, <2>1 DEF Token
<1>10. t_tokens' # <<>> => t_tokens # <<>> /\ Len(t_tokens) \in DOMAIN t_tokens
  BY <1>1, <1>3
<1>11. Latest'
  BY <1>2, <1>3, <1>8, <1>9, <1>10 DEF TokenInv, Latest, Passed
<1>12. Devices'
  BY <1>2, <1>3, <1>8, <1>9 DEF TokenInv, Devices, Passed
<1> QED
  BY <1>4, <1>6, <1>7, <1>11, <1>12 DEF TokenInv

LEMMA AllRevoked ==
    ASSUME TokenInv, NEW c \in Caller, NEW rec \in TokenCall,
           Tok!Revoked("all", rec, c), Fits(rec), rec.op \notin {"sign", "issue"},
           t_global' \in Nat, CountsUp' => t_global' = t_global + 1,
           t_torn' \in BOOLEAN, t_torn => t_torn',
           UNCHANGED <<t_engine, t_device, t_again>>
    PROVE  TokenInv'
<1>1. /\ t_device \in DeviceRow /\ t_global \in Nat /\ t_tokens \in Seq(Token)
      /\ t_device.last <= Len(t_tokens)
  BY DEF TokenInv, TokenShape
<1>2. /\ t_tokens' \in Seq(Token) /\ Len(t_tokens') = Len(t_tokens)
      /\ DOMAIN t_tokens' = DOMAIN t_tokens
      /\ \A n \in DOMAIN t_tokens :
            /\ t_tokens'[n].gv = t_tokens[n].gv /\ t_tokens'[n].dv = t_tokens[n].dv
            /\ t_tokens'[n].state = "all"
      /\ t_call' \in [Caller -> TokenCall] /\ t_call'[c] = rec
  BY Revokes DEF TokenInv
<1>3. TokenShape'
  BY <1>1, <1>2 DEF TokenInv, TokenShape
<1>4. CountsUp' => CountsUp /\ t_global <= t_global'
  BY <1>1 DEF CountsUp
<1>5. \A d \in Caller : Fits(t_call[d])'
  <2>1. \A d \in Caller : d # c => Fits(t_call[d])'
    BY <1>4, OthersFit
  <2>2. Fits(t_call[c])'
    BY <1>2 DEF Fits
  <2> QED
    BY <2>1, <2>2
<1>6. Globals'
  <2> SUFFICES ASSUME CountsUp', NEW n \in DOMAIN t_tokens
               PROVE  t_tokens'[n].gv <= t_global' /\ t_tokens'[n].gv < t_global'
    BY <1>2 DEF Globals
  <2>1. t_tokens[n] \in Token
    BY <1>1
  <2>2. t_tokens[n].gv \in Nat /\ t_tokens[n].gv <= t_global
    BY <1>4, <2>1 DEF TokenInv, Globals, Token
  <2> QED
    BY <1>1, <1>2, <2>2
<1>7. \A n \in DOMAIN t_tokens : Passed(t_tokens[n]) => Passed(t_tokens[n])'
  BY <1>2 DEF Passed
<1>8. t_tokens' # <<>> => t_tokens # <<>> /\ Len(t_tokens) \in DOMAIN t_tokens
  BY <1>1, <1>2
<1>9. Latest'
  BY <1>2, <1>7, <1>8 DEF TokenInv, Latest
<1>10. Devices'
  BY <1>2, <1>7 DEF TokenInv, Devices
<1> QED
  BY <1>3, <1>5, <1>6, <1>9, <1>10 DEF TokenInv

LEMMA BeginKeeps ==
    ASSUME TokenInv, NEW c \in Caller, Tok!Begin(c)
    PROVE  TokenInv'
<1>1. /\ TokenShape /\ Len(t_tokens) \in Nat /\ DOMAIN t_tokens = 1 .. Len(t_tokens)
      /\ t_device \in DeviceRow /\ t_device.last <= Len(t_tokens)
      /\ t_torn \in BOOLEAN
  BY DEF TokenInv, TokenShape
<1>2. UNCHANGED <<t_engine, t_global, t_device, t_tokens, t_torn, t_again>>
  BY DEF Tok!Begin
<1>3. ASSUME NEW rec \in TokenCall, Tok!GoesOn(c, rec), Fits(rec)
      PROVE  TokenInv'
  BY <1>1, <1>2, <1>3, TokenCallOnly DEF Tok!GoesOn
<1>4. CASE Tok!GoesOn(c, [Tok!Idle EXCEPT !.op = "sign", !.pc = "global"])
  <2> DEFINE rec == [Tok!Idle EXCEPT !.op = "sign", !.pc = "global"]
  <2>1. /\ rec \in TokenCall /\ rec.pc = "global" /\ rec.token = Tok!Idle.token
        /\ rec.row = Tok!Idle.row
    BY <1>1, IdleFits DEF TokenCall
  <2> HIDE DEF rec
  <2>2. Fits(rec)
    BY <1>1, <2>1, IdleFits DEF Fits
  <2> QED
    BY <1>3, <1>4, <2>1, <2>2 DEF rec
<1>5. ASSUME NEW op \in {"verify", "refresh"}, NEW n \in DOMAIN t_tokens,
             Tok!GoesOn(c, [Tok!Idle EXCEPT !.op = op, !.pc = "global", !.token = n])
      PROVE  TokenInv'
  <2> DEFINE rec == [Tok!Idle EXCEPT !.op = op, !.pc = "global", !.token = n]
  <2>1. n \in Nat /\ n <= Len(t_tokens)
    BY <1>1, <1>5
  <2>2. /\ rec \in TokenCall /\ rec.pc = "global" /\ rec.token = n
        /\ rec.row = Tok!Idle.row
    BY <1>1, <2>1, IdleFits DEF TokenCall
  <2> HIDE DEF rec
  <2>3. Fits(rec)
    BY <1>1, <2>1, <2>2, IdleFits DEF Fits
  <2> QED
    BY <1>3, <1>5, <2>2, <2>3 DEF rec
<1>6. ASSUME NEW op \in {"revokeDevice", "revokeAll"},
             Tok!GoesOn(c, [Tok!Idle EXCEPT !.op = op,
                                !.pc = IF op = "revokeAll" THEN "count" ELSE "increment"])
      PROVE  TokenInv'
  <2> DEFINE pc == IF op = "revokeAll" THEN "count" ELSE "increment"
             rec == [Tok!Idle EXCEPT !.op = op, !.pc = pc]
  <2>1. /\ pc \in {"count", "increment"} /\ (pc = "count" => op = "revokeAll")
        /\ (pc = "increment" => op = "revokeDevice")
    OBVIOUS
  <2>2. Tok!GoesOn(c, rec)
    BY <1>6
  <2> HIDE DEF pc
  <2>3. /\ rec \in TokenCall /\ rec.pc = pc /\ rec.op = op /\ rec.token = Tok!Idle.token
        /\ rec.row = Tok!Idle.row
    BY <1>1, <2>1, IdleFits DEF TokenCall
  <2> HIDE DEF rec
  <2>4. Fits(rec)
    BY <1>1, <2>1, <2>3, IdleFits DEF Fits
  <2> QED
    BY <1>3, <2>2, <2>3, <2>4
<1> QED
  BY <1>4, <1>5, <1>6 DEF Tok!Begin

LEMMA ReadsKeep ==
    ASSUME TokenInv, NEW c \in Caller,
           \/ Tok!ReadGlobal(c) \/ Tok!ReadDevice(c) \/ Tok!ReadLast(c) \/ Tok!ReadRow(c)
           \/ Tok!Fails(c)
    PROVE  TokenInv'
<1> DEFINE x == t_call[c]
<1>1. /\ TokenShape /\ Len(t_tokens) \in Nat /\ x \in TokenCall /\ Fits(x)
      /\ t_device \in DeviceRow /\ t_device.ver \in Nat /\ t_device.last <= Len(t_tokens)
      /\ t_global \in Nat
      /\ UNCHANGED <<t_engine, t_global, t_device, t_tokens, t_torn, t_again>>
  BY DEF TokenInv, TokenShape, DeviceRow, Tok!ReadGlobal, Tok!ReadDevice, Tok!ReadLast,
         Tok!ReadRow, Tok!Fails
<1>2. ASSUME NEW rec \in TokenCall, Tok!GoesOn(c, rec), Fits(rec)
      PROVE  TokenInv'
  BY <1>1, <1>2, TokenCallOnly DEF TokenShape, Tok!GoesOn
<1>3. CASE Tok!ReadGlobal(c)
  <2> DEFINE pc == IF x.op = "sign" THEN "write" ELSE "device"
             rec == [Tok!To(c, pc) EXCEPT !.gv = t_global]
  <2>1. Tok!GoesOn(c, rec)
    BY <1>3 DEF Tok!ReadGlobal
  <2>2. pc \in {"write", "device"} /\ (pc = "write" => x.op = "sign")
    OBVIOUS
  <2> HIDE DEF pc
  <2>3. /\ rec \in TokenCall /\ rec.pc = pc /\ rec.op = x.op /\ rec.token = x.token
        /\ rec.row = x.row /\ rec.gv = t_global
    BY <1>1, <2>2 DEF Tok!To, TokenCall
  <2> HIDE DEF rec
  <2>4. Fits(rec)
    BY <1>1, <2>2, <2>3 DEF Fits
  <2> QED
    BY <1>2, <2>1, <2>3, <2>4
<1>4. CASE Tok!ReadDevice(c)
  <2>1. CASE Tok!GoesOn(c, Tok!Idle)
    BY <1>1, <1>2, <2>1, IdleFits
  <2>2. CASE x.op = "issue" /\ Tok!GoesOn(c, [[x EXCEPT !.dv = t_device.ver] EXCEPT !.pc = "write"])
    <3> DEFINE rec == [[x EXCEPT !.dv = t_device.ver] EXCEPT !.pc = "write"]
    <3>1. /\ rec \in TokenCall /\ rec.pc = "write" /\ rec.op = "issue" /\ rec.token = x.token
          /\ rec.row = x.row /\ rec.gv = x.gv /\ rec.unsure = x.unsure
      BY <1>1, <2>2 DEF TokenCall
    <3> HIDE DEF rec
    <3>2. x.pc = "device"
      BY <1>4 DEF Tok!ReadDevice, Tok!At
    <3>3. Fits(rec)
      BY <1>1, <2>2, <3>1, <3>2 DEF Fits
    <3> QED
      BY <1>2, <2>2, <3>1, <3>3 DEF rec
  <2>3. CASE x.op # "issue" /\ Tok!GoesOn(c, [x EXCEPT !.gv = 0,
                                    !.pc = IF x.op = "verify" THEN "last" ELSE "read"])
    <3> DEFINE pc == IF x.op = "verify" THEN "last" ELSE "read"
               rec == [x EXCEPT !.gv = 0, !.pc = pc]
    <3>1. pc \in {"last", "read"} /\ (pc = "last" => x.op = "verify")
      OBVIOUS
    <3>2. Tok!GoesOn(c, rec)
      BY <2>3
    <3> HIDE DEF pc
    <3>3. /\ rec \in TokenCall /\ rec.pc = pc /\ rec.op = x.op /\ rec.token = x.token
          /\ rec.row = x.row
      BY <1>1, <3>1 DEF TokenCall
    <3> HIDE DEF rec
    <3>4. Fits(rec)
      BY <1>1, <3>1, <3>3 DEF Fits
    <3> QED
      BY <1>2, <3>2, <3>3, <3>4
  <2>4. x.op \in {"none", "sign", "verify", "refresh", "issue", "revokeDevice", "revokeAll"}
    BY <1>1 DEF TokenCall
  <2>5. [x EXCEPT !.dv = t_device.ver].op = x.op
    BY <1>1 DEF TokenCall
  <2> QED
    BY <1>4, <2>1, <2>2, <2>3, <2>5 DEF Tok!ReadDevice
<1>5. CASE Tok!ReadLast(c)
  <2> DEFINE pc == IF t_device.last \in {0, x.token} THEN "read" ELSE "increment"
             rec == [Tok!To(c, pc) EXCEPT !.token = 0]
  <2>1. Tok!GoesOn(c, rec) /\ x.pc = "last"
    BY <1>5 DEF Tok!ReadLast, Tok!At
  <2>2. pc \in {"read", "increment"}
    OBVIOUS
  <2> HIDE DEF pc
  <2>3. /\ rec \in TokenCall /\ rec.pc = pc /\ rec.op = x.op /\ rec.token = 0
        /\ rec.row = x.row
    BY <1>1, <2>2 DEF Tok!To, TokenCall
  <2> HIDE DEF rec
  <2>4. Fits(rec)
    BY <1>1, <2>1, <2>2, <2>3 DEF Fits
  <2> QED
    BY <1>2, <2>1, <2>3, <2>4
<1>6. CASE Tok!ReadRow(c)
  <2> DEFINE rec == [Tok!To(c, "touch") EXCEPT !.row = t_device]
  <2>1. Tok!GoesOn(c, rec)
    BY <1>6 DEF Tok!ReadRow
  <2>2. /\ rec \in TokenCall /\ rec.pc = "touch" /\ rec.token = x.token
        /\ rec.row = t_device
    BY <1>1 DEF Tok!To, TokenCall
  <2> HIDE DEF rec
  <2>3. Fits(rec)
    BY <1>1, <2>2 DEF Fits
  <2> QED
    BY <1>2, <2>1, <2>2, <2>3
<1>7. CASE Tok!Fails(c)
  BY <1>1, <1>2, <1>7, IdleFits DEF Tok!Fails
<1> QED
  BY <1>3, <1>4, <1>5, <1>6, <1>7

LEMMA CountedFits ==
    ASSUME TokenInv, NEW c \in Caller, t_call[c].pc \in {"increment", "found"}
    PROVE  /\ Tok!Counted(c) \in TokenCall /\ Fits(Tok!Counted(c))
           /\ Tok!Counted(c).op \notin {"sign", "issue"}
<1>1. /\ TokenShape /\ t_call[c] \in TokenCall /\ Fits(t_call[c])
      /\ t_call[c].op \in {"verify", "revokeDevice"}
  BY DEF TokenInv, TokenShape, Fits
<1>2. CASE t_call[c].op = "verify"
  BY <1>1, <1>2, IdleFits DEF Tok!Counted
<1>3. CASE t_call[c].op = "revokeDevice"
  <2>1. Tok!Counted(c) = [t_call[c] EXCEPT !.pc = "read"]
    BY <1>3 DEF Tok!Counted, Tok!To
  <2> DEFINE rec == [t_call[c] EXCEPT !.pc = "read"]
  <2>2. /\ rec \in TokenCall /\ rec.pc = "read" /\ rec.op = "revokeDevice"
        /\ rec.token = t_call[c].token /\ rec.row = t_call[c].row
    BY <1>1, <1>3 DEF TokenCall
  <2> HIDE DEF rec
  <2>3. Fits(rec)
    BY <1>1, <2>2 DEF Fits
  <2> QED
    BY <2>1, <2>2, <2>3 DEF rec
<1> QED
  BY <1>1, <1>2, <1>3

LEMMA IncrementKeeps ==
    ASSUME TokenInv, NEW c \in Caller, Tok!Increment(c)
    PROVE  TokenInv'
<1>1. /\ TokenShape /\ t_call[c] \in TokenCall /\ Fits(t_call[c])
      /\ t_device \in DeviceRow /\ t_device.ver \in Nat /\ t_call[c].pc = "increment"
      /\ UNCHANGED <<t_engine, t_global, t_torn, t_again>>
  BY DEF TokenInv, TokenShape, DeviceRow, Tok!Increment, Tok!At
<1>2. CASE t_engine = "sql"
  <2>1. /\ t_device' = [t_device EXCEPT !.ver = t_device.ver + 1]
        /\ Tok!Revoked("device", Tok!Counted(c), c)
    BY <1>2 DEF Tok!Increment, Tok!Incremented
  <2> DEFINE rec == Tok!Counted(c)
  <2>2. rec \in TokenCall /\ Fits(rec) /\ rec.op \notin {"sign", "issue"}
    BY <1>1, CountedFits
  <2>3. t_device.ver + 1 \in Nat /\ t_torn' \in BOOLEAN
    BY <1>1 DEF TokenShape
  <2> HIDE DEF rec
  <2> QED
    BY <1>1, <2>1, <2>2, <2>3, DeviceRevoked DEF rec
<1>3. CASE t_engine # "sql"
  <2> DEFINE rec == [Tok!To(c, "found") EXCEPT !.row = t_device]
  <2>1. t_call' = [t_call EXCEPT ![c] = rec] /\ UNCHANGED <<t_device, t_tokens>>
    BY <1>3 DEF Tok!Increment, Tok!GoesOn
  <2>2. /\ rec \in TokenCall /\ rec.pc = "found" /\ rec.op = t_call[c].op
        /\ rec.token = t_call[c].token /\ rec.row = t_device
    BY <1>1 DEF Tok!To, TokenCall
  <2> HIDE DEF rec
  <2>3. Fits(rec)
    BY <1>1, <1>3, <2>2 DEF Fits, TokenShape
  <2> QED
    BY <1>1, <2>1, <2>2, <2>3, TokenCallOnly DEF TokenShape
<1> QED
  BY <1>2, <1>3

LEMMA UpdateKeeps ==
    ASSUME TokenInv, NEW c \in Caller, Tok!Update(c)
    PROVE  TokenInv'
<1> DEFINE rec == Tok!Counted(c)
           k == t_call[c].row.ver + 1
<1>1. /\ TokenShape /\ t_call[c] \in TokenCall /\ t_call[c].pc = "found"
      /\ t_device' = [t_device EXCEPT !.ver = k]
      /\ t_torn' = (t_torn \/ t_device.ver # t_call[c].row.ver)
      /\ Tok!Revoked("device", rec, c)
      /\ UNCHANGED <<t_engine, t_global, t_again>>
  BY DEF TokenInv, TokenShape, Tok!Update, Tok!At, Tok!Incremented
<1>2. t_call[c].row \in DeviceRow
  BY <1>1 DEF TokenCall
<1>3. t_call[c].row.ver \in Nat
  BY <1>2 DEF DeviceRow
<1>4. /\ k \in Nat /\ t_torn' \in BOOLEAN /\ (t_torn => t_torn')
      /\ (~t_torn' => k = t_device.ver + 1)
  <2>1. t_torn' \in BOOLEAN /\ (t_torn => t_torn')
    BY <1>1 DEF TokenShape
  <2>2. ~t_torn' => t_device.ver = t_call[c].row.ver
    BY <1>1
  <2> QED
    BY <1>3, <2>1, <2>2
<1>5. rec \in TokenCall /\ Fits(rec) /\ rec.op \notin {"sign", "issue"}
  BY <1>1, CountedFits
<1> HIDE DEF rec, k
<1> QED
  BY <1>1, <1>4, <1>5, DeviceRevoked

LEMMA CountKeeps ==
    ASSUME TokenInv, NEW c \in Caller, Tok!Count(c)
    PROVE  TokenInv'
<1>1. /\ TokenShape /\ t_call[c] \in TokenCall /\ Fits(t_call[c]) /\ t_global \in Nat
      /\ t_call[c].pc = "count"
      /\ UNCHANGED <<t_engine, t_device, t_torn, t_again>>
  BY DEF TokenInv, TokenShape, Tok!Count, Tok!At
<1>2. CASE t_engine = "sql"
  <2>1. t_global' = t_global + 1 /\ Tok!Revoked("all", Tok!Idle, c)
    BY <1>2 DEF Tok!Count
  <2>2. Tok!Idle \in TokenCall /\ Fits(Tok!Idle) /\ Tok!Idle.op \notin {"sign", "issue"}
    BY <1>1, IdleFits
  <2>3. t_global' \in Nat /\ t_torn' \in BOOLEAN
    BY <1>1, <2>1 DEF TokenShape
  <2> QED
    BY <1>1, <2>1, <2>2, <2>3, AllRevoked
<1>3. CASE t_engine # "sql"
  <2> DEFINE rec == [Tok!To(c, "counted") EXCEPT !.gv = t_global]
  <2>1. t_call' = [t_call EXCEPT ![c] = rec] /\ UNCHANGED <<t_global, t_tokens>>
    BY <1>3 DEF Tok!Count, Tok!GoesOn
  <2>2. /\ rec \in TokenCall /\ rec.pc = "counted" /\ rec.op = t_call[c].op
        /\ rec.token = t_call[c].token /\ rec.row = t_call[c].row
    BY <1>1 DEF Tok!To, TokenCall
  <2> HIDE DEF rec
  <2>3. Fits(rec)
    BY <1>1, <1>3, <2>2 DEF Fits, TokenShape
  <2> QED
    BY <1>1, <2>1, <2>2, <2>3, TokenCallOnly DEF TokenShape
<1> QED
  BY <1>2, <1>3

LEMMA CountUpdateKeeps ==
    ASSUME TokenInv, NEW c \in Caller, Tok!CountUpdate(c)
    PROVE  TokenInv'
<1>1. /\ TokenShape /\ t_call[c] \in TokenCall /\ Fits(t_call[c])
      /\ t_call[c].pc = "counted" /\ t_global' = t_call[c].gv + 1
      /\ t_torn' = (t_torn \/ t_global # t_call[c].gv)
      /\ Tok!Revoked("all", Tok!Idle, c)
      /\ UNCHANGED <<t_engine, t_device, t_again>>
  BY DEF TokenInv, TokenShape, Tok!CountUpdate, Tok!At
<1>2. t_call[c].gv \in Nat /\ t_engine # "sql"
  BY <1>1 DEF TokenCall, Fits
<1>3. /\ t_global' \in Nat /\ t_torn' \in BOOLEAN /\ (t_torn => t_torn')
      /\ (CountsUp' => t_global' = t_global + 1)
  <2>1. t_torn' \in BOOLEAN /\ (t_torn => t_torn')
    BY <1>1 DEF TokenShape
  <2>2. CountsUp' => t_global = t_call[c].gv
    BY <1>1, <1>2 DEF CountsUp
  <2>3. t_global' \in Nat
    BY <1>1, <1>2
  <2> QED
    BY <1>1, <2>1, <2>2, <2>3
<1>4. Tok!Idle \in TokenCall /\ Fits(Tok!Idle) /\ Tok!Idle.op \notin {"sign", "issue"}
  BY <1>1, IdleFits
<1> QED
  BY <1>1, <1>3, <1>4, AllRevoked

LEMMA TouchKeeps ==
    ASSUME TokenInv, NEW c \in Caller, Tok!Touch(c)
    PROVE  TokenInv'
<1>1. /\ TokenShape /\ t_call[c] \in TokenCall /\ Fits(t_call[c])
      /\ t_device' = t_call[c].row
      /\ t_torn' = (t_torn \/ t_device # t_call[c].row)
      /\ UNCHANGED <<t_engine, t_global, t_tokens, t_again>>
  BY DEF TokenInv, TokenShape, Tok!Touch, Tok!Touched
<1>2. t_call[c].row \in DeviceRow
  BY <1>1 DEF TokenCall
<1>3. t_call[c].row.last <= Len(t_tokens)
  BY <1>1 DEF Fits
<1>4. PICK rec \in TokenCall : Fits(rec) /\ t_call' = [t_call EXCEPT ![c] = rec]
  <2>1. CASE Tok!GoesOn(c, Tok!Idle)
    BY <1>1, <2>1, IdleFits DEF Tok!GoesOn
  <2>2. CASE Tok!GoesOn(c, [Tok!Idle EXCEPT !.op = "issue", !.pc = "global"])
    <3> DEFINE rec == [Tok!Idle EXCEPT !.op = "issue", !.pc = "global"]
    <3>1. /\ rec \in TokenCall /\ rec.pc = "global" /\ rec.token = Tok!Idle.token
          /\ rec.row = Tok!Idle.row
      BY <1>1, IdleFits DEF TokenCall
    <3> HIDE DEF rec
    <3>2. Fits(rec)
      BY <1>1, <3>1, IdleFits DEF Fits
    <3> QED
      BY <2>2, <3>1, <3>2 DEF rec, Tok!GoesOn
  <2> QED
    BY <2>1, <2>2 DEF Tok!Touch
<1>5. t_torn' \in BOOLEAN /\ (t_torn => t_torn') /\ (~t_torn' => t_device' = t_device)
  BY <1>1 DEF TokenShape
<1> QED
  BY <1>1, <1>2, <1>3, <1>4, <1>5, TokenCallOnly

LEMMA WriteKeeps ==
    ASSUME TokenInv, NEW c \in Caller, Tok!Write(c)
    PROVE  TokenInv'
<1> DEFINE x == t_call[c]
           new == [gv |-> x.gv, dv |-> x.dv, state |-> IF x.unsure THEN "unsure" ELSE "good"]
           m == Len(t_tokens) + 1
<1>1. /\ TokenShape /\ x \in TokenCall /\ Fits(x) /\ x.pc = "write"
      /\ t_device' = [ver |-> x.dv, last |-> m]
      /\ t_tokens' = Append(t_tokens, new)
      /\ t_torn' = (t_torn \/ (x.op = "issue" /\ t_device.ver # x.dv))
      /\ t_again' = (t_again \/ (x.op = "sign" /\ t_device.ver # 0))
      /\ t_call' = [t_call EXCEPT ![c] = Tok!Idle]
      /\ UNCHANGED <<t_engine, t_global>>
  BY DEF TokenInv, TokenShape, Tok!Write, Tok!At, Tok!GoesOn
<1>2. /\ t_tokens \in Seq(Token) /\ Len(t_tokens) \in Nat /\ t_global \in Nat
      /\ t_device.ver \in Nat
  BY <1>1 DEF TokenShape, DeviceRow
<1>3. x.gv \in Nat /\ x.dv \in Nat /\ x.unsure \in BOOLEAN
  BY <1>1 DEF TokenCall
<1>4. x.op \in {"sign", "issue"}
  BY <1>1 DEF Fits
<1>5. (CountsUp => x.gv <= t_global) /\ (~x.unsure => x.gv = t_global)
  BY <1>1, <1>4 DEF Fits
<1>6. /\ new \in Token /\ new.gv = x.gv /\ new.dv = x.dv /\ new.state \in {"good", "unsure"}
      /\ new.state = "good" => ~x.unsure
  BY <1>3 DEF Token
<1> HIDE DEF new
<1>7. /\ t_tokens' \in Seq(Token) /\ Len(t_tokens') = m /\ m \in Nat
      /\ DOMAIN t_tokens' = 1 .. m /\ DOMAIN t_tokens = 1 .. Len(t_tokens)
      /\ \A n \in 1 .. Len(t_tokens) : t_tokens'[n] = t_tokens[n]
      /\ t_tokens'[m] = new /\ t_tokens' # <<>>
  BY <1>1, <1>2, <1>6
<1>8. \A n \in DOMAIN t_tokens' : n = m \/ (n \in DOMAIN t_tokens /\ t_tokens'[n] = t_tokens[n])
  BY <1>2, <1>7
<1>9. t_device' \in DeviceRow /\ t_device'.ver = x.dv /\ t_device'.last = m
  BY <1>1, <1>3, <1>7 DEF DeviceRow
<1>10. Len(t_tokens) <= m
  BY <1>2
<1> HIDE DEF m
<1>11. TokenShape'
  <2>1. t_call' \in [Caller -> TokenCall]
    BY <1>1, IdleFits DEF TokenShape
  <2>2. t_torn' \in BOOLEAN /\ t_again' \in BOOLEAN
    BY <1>1 DEF TokenShape
  <2> QED
    BY <1>1, <1>7, <1>9, <2>1, <2>2 DEF TokenShape
<1>12. \A d \in Caller : Fits(t_call[d])'
  <2> SUFFICES ASSUME NEW d \in Caller PROVE Fits(t_call[d])'
    OBVIOUS
  <2>1. CountsUp' => CountsUp
    BY <1>1 DEF CountsUp
  <2>2. Fits(t_call'[d])
    BY <1>1, IdleFits DEF TokenInv, TokenShape
  <2>3. t_call'[d] \in TokenCall
    BY <1>11 DEF TokenShape
  <2>4. t_call'[d].token \in Nat /\ t_call'[d].row.last \in Nat
    BY <2>3 DEF TokenCall, DeviceRow
  <2> QED
    BY <1>1, <1>2, <1>7, <1>10, <2>1, <2>2, <2>4 DEF Fits
<1>13. Globals'
  <2>1. CountsUp' => CountsUp
    BY <1>1 DEF CountsUp
  <2> QED
    BY <1>1, <1>5, <1>6, <1>7, <1>8, <2>1 DEF TokenInv, Globals
<1>14. Latest'
  <2>1. new.dv <= t_device'.ver /\ new.state # "device"
    BY <1>3, <1>6, <1>9
  <2>2. new.state = "good" => new.gv = t_global /\ new.dv = t_device'.ver
    BY <1>5, <1>6, <1>9
  <2>3. Passed(t_tokens[Len(t_tokens)])'
    BY <1>7, <2>1 DEF Passed
  <2>4. t_tokens'[m].state = "good" => Tok!Matches(Len(t_tokens), t_global, t_device.ver)'
    BY <1>1, <1>7, <2>2 DEF Tok!Matches
  <2> QED
    BY <1>7, <1>9, <2>3, <2>4 DEF Latest
<1>15. Devices'
  <2> SUFFICES ASSUME ~t_torn', ~t_again', NEW n \in DOMAIN t_tokens'
               PROVE  Passed(t_tokens[n])'
    BY DEF Devices
  <2>1. CASE n = m
    BY <1>3, <1>6, <1>7, <1>9, <2>1 DEF Passed
  <2>2. CASE n \in DOMAIN t_tokens /\ t_tokens'[n] = t_tokens[n]
    <3>1. Passed(t_tokens[n])
      BY <1>1, <2>2 DEF TokenInv, Devices
    <3>2. t_device.ver <= x.dv
      <4>1. CASE x.op = "sign"
        <5>1. t_device.ver = 0
          BY <1>1, <4>1
        <5> QED
          BY <1>3, <5>1
      <4>2. CASE x.op = "issue"
        <5>1. t_device.ver = x.dv
          BY <1>1, <4>2
        <5> QED
          BY <1>3, <5>1
      <4> QED
        BY <1>4, <4>1, <4>2
    <3>3. t_tokens[n] \in Token
      BY <1>2, <2>2
    <3>4. t_tokens[n].dv \in Nat
      BY <3>3 DEF Token
    <3> QED
      BY <1>2, <1>3, <1>9, <2>2, <3>1, <3>2, <3>4 DEF Passed
  <2> QED
    BY <1>8, <2>1, <2>2
<1> QED
  BY <1>11, <1>12, <1>13, <1>14, <1>15 DEF TokenInv

LEMMA TokenStep == TokenInv /\ [Tok!Next]_(Tok!vars) => TokenInv'
<1> SUFFICES ASSUME TokenInv, [Tok!Next]_(Tok!vars) PROVE TokenInv'
  OBVIOUS
<1>1. ASSUME NEW c \in Caller,
             \/ Tok!Begin(c) \/ Tok!ReadGlobal(c) \/ Tok!ReadDevice(c) \/ Tok!ReadLast(c)
             \/ Tok!Increment(c) \/ Tok!Update(c) \/ Tok!Count(c) \/ Tok!CountUpdate(c)
             \/ Tok!ReadRow(c) \/ Tok!Touch(c) \/ Tok!Write(c) \/ Tok!Fails(c)
      PROVE  TokenInv'
  BY <1>1, BeginKeeps, ReadsKeep, IncrementKeeps, UpdateKeeps, CountKeeps, CountUpdateKeeps,
     TouchKeeps, WriteKeeps
<1>2. CASE UNCHANGED Tok!vars
  <2>1. UNCHANGED <<t_engine, t_global, t_device, t_tokens, t_call, t_torn, t_again>>
    BY <1>2 DEF Tok!vars
  <2>2. TokenShape' /\ \A c \in Caller : Fits(t_call[c])'
    BY <2>1 DEF TokenInv, TokenShape, Fits, CountsUp
  <2>3. Globals' /\ Latest' /\ Devices'
    BY <2>1 DEF TokenInv, Globals, CountsUp, Latest, Devices, Passed, Tok!Matches
  <2> QED
    BY <2>2, <2>3 DEF TokenInv
<1> QED
  BY <1>1, <1>2 DEF Tok!Next

(* A revoked token stays revoked and the last one issued is accepted until *)
(* then, for any number of calls and tokens, with either store, as far as  *)
(* nothing was written back over a write of another call (token.ts,        *)
(* verify, refresh, issue, upsertDevice).                                  *)
LEMMA RevocationsExact == Tok!Spec => [](Tok!TypeOK /\ Tok!RevocationIsExact)
<1>1. ASSUME TokenInv
      PROVE  /\ t_tokens \in Seq(Token) /\ Len(t_tokens) \in Nat
             /\ DOMAIN t_tokens = 1 .. Len(t_tokens)
             /\ t_device.ver \in Nat /\ t_device.last \in Nat /\ t_global \in Nat
             /\ \A n \in DOMAIN t_tokens :
                   /\ t_tokens[n].gv \in Nat /\ t_tokens[n].dv \in Nat
                   /\ t_tokens[n].state \in {"good", "unsure", "device", "all"}
  <2>1. t_tokens \in Seq(Token) /\ t_device \in DeviceRow /\ t_global \in Nat
    BY <1>1 DEF TokenInv, TokenShape
  <2>2. \A n \in DOMAIN t_tokens : t_tokens[n] \in Token
    BY <2>1
  <2> QED
    BY <2>1, <2>2 DEF Token, DeviceRow
<1>2. TokenInv => Tok!TypeOK
  <2> SUFFICES ASSUME TokenInv PROVE Tok!TypeOK
    OBVIOUS
  <2>1. /\ t_engine \in {"sql", "mongo"} /\ t_device.last <= Len(t_tokens)
        /\ \A c \in Caller : t_call[c] \in TokenCall /\ t_call[c].token <= Len(t_tokens)
    BY DEF TokenInv, TokenShape, Fits
  <2>2. \A c \in Caller : t_call[c].token \in 0 .. Len(t_tokens)
    BY <1>1, <2>1 DEF TokenCall
  <2> QED
    BY <1>1, <2>1, <2>2 DEF Tok!TypeOK
<1>3. TokenInv => Tok!RevokedStaysRevoked
  <2> SUFFICES ASSUME TokenInv, NEW n \in DOMAIN t_tokens
               PROVE  /\ t_tokens[n].state \in {"device", "all"} /\ ~t_torn => ~Tok!Accepted(n)
                      /\ t_tokens[n].state \in {"device", "all"} /\ ~t_torn /\ ~t_again
                           => ~Tok!Current(n)
                      /\ t_tokens[n].state = "all" /\ t_engine = "sql" => ~Tok!Current(n)
    BY DEF Tok!RevokedStaysRevoked
  <2>1. CountsUp /\ t_tokens[n].state = "all" => ~Tok!Current(n)
    BY <1>1 DEF TokenInv, Globals, Tok!Current, Tok!Matches
  <2>2. Passed(t_tokens[n]) /\ t_tokens[n].state = "device" => ~Tok!Current(n)
    BY <1>1 DEF Passed, Tok!Current, Tok!Matches
  <2>3. ~t_torn /\ n # Len(t_tokens) => ~Tok!Accepted(n)
    BY <1>1 DEF TokenInv, Latest, Tok!Accepted
  <2>4. ~t_torn /\ n = Len(t_tokens) => Passed(t_tokens[n])
    BY <1>1 DEF TokenInv, Latest
  <2>5. ~t_torn /\ ~t_again => Passed(t_tokens[n])
    BY DEF TokenInv, Devices
  <2> QED
    BY <2>1, <2>2, <2>3, <2>4, <2>5 DEF CountsUp, Tok!Accepted
<1>4. TokenInv => Tok!LatestIsAccepted
  BY <1>1 DEF TokenInv, Latest, Tok!LatestIsAccepted, Tok!Accepted, Tok!Current
<1> QED
  BY <1>2, <1>3, <1>4, TokenInitial, TokenStep, PTL DEF Tok!Spec, Tok!RevocationIsExact

-----------------------------------------------------------------------------
(* All of them beside each other, as they are run.                         *)

(* A behaviour of them all is one of each.                                 *)
LEMMA Each == AccessSpec => Spec /\ Cool!Spec /\ Gates!Spec /\ Tok!Spec /\ Access!Spec
<1>1. AccessInit => Init /\ Cool!Init /\ Gates!Init /\ Tok!Init /\ Access!Init
  BY DEF AccessInit
<1>2. [AccessNext]_AllVars => [Next]_vars
  <2>1. UNCHANGED AllVars => UNCHANGED vars
    BY DEF AllVars
  <2> QED
    BY <2>1 DEF AccessNext, PermissionsStep, CooldownStep, GatesStep, TokensStep, GuildsStep
<1>3. [AccessNext]_AllVars => [Cool!Next]_(Cool!vars)
  <2>1. UNCHANGED c_vars => UNCHANGED Cool!vars
    BY DEF c_vars, Cool!vars
  <2>2. UNCHANGED AllVars => UNCHANGED c_vars
    BY DEF AllVars
  <2> QED
    BY <2>1, <2>2
       DEF AccessNext, PermissionsStep, CooldownStep, GatesStep, TokensStep, GuildsStep
<1>4. [AccessNext]_AllVars => [Gates!Next]_(Gates!vars)
  <2>1. UNCHANGED g_vars => UNCHANGED Gates!vars
    BY DEF g_vars, Gates!vars
  <2>2. UNCHANGED AllVars => UNCHANGED g_vars
    BY DEF AllVars
  <2> QED
    BY <2>1, <2>2
       DEF AccessNext, PermissionsStep, CooldownStep, GatesStep, TokensStep, GuildsStep
<1>5. [AccessNext]_AllVars => [Tok!Next]_(Tok!vars)
  <2>1. UNCHANGED t_vars => UNCHANGED Tok!vars
    BY DEF t_vars, Tok!vars
  <2>2. UNCHANGED AllVars => UNCHANGED t_vars
    BY DEF AllVars
  <2> QED
    BY <2>1, <2>2
       DEF AccessNext, PermissionsStep, CooldownStep, GatesStep, TokensStep, GuildsStep
<1>6. [AccessNext]_AllVars => [Access!Next]_(Access!vars)
  <2>1. UNCHANGED a_vars => UNCHANGED Access!vars
    BY DEF a_vars, Access!vars
  <2>2. UNCHANGED AllVars => UNCHANGED a_vars
    BY DEF AllVars
  <2> QED
    BY <2>1, <2>2
       DEF AccessNext, PermissionsStep, CooldownStep, GatesStep, TokensStep, GuildsStep
<1> QED
  BY <1>1, <1>2, <1>3, <1>4, <1>5, <1>6, PTL
     DEF AccessSpec, Spec, Cool!Spec, Gates!Spec, Tok!Spec, Access!Spec

(* A process decides by what the database says of every gate, unless two   *)
(* operations on it crossed or another process changed it: for any number  *)
(* of processes, gates and operations (guildGate.ts, blockGuild).          *)
THEOREM GatesAreCurrent == AccessSpec => []GateIsCurrent
<1>1. Gates!TypeOK /\ Gates!GateIsCurrent => GateIsCurrent
  BY DEF GateIsCurrent
<1> QED
  BY <1>1, Each, GatesCurrent, PTL

(* Of every guild the memory decides as the database would, and none is    *)
(* left that an invitation was recorded for: for any number of guilds,     *)
(* commands and joins (guildAccess.ts, isGuildAllowed).                    *)
THEOREM GuildsDecided == AccessSpec => []GuildsAreDecided
<1>1. Access!GuildsAreDecided => GuildsAreDecided
  BY DEF GuildsAreDecided
<1>2. Access!Spec => []Access!GuildsAreDecided
  BY GuildsAssumption, GuildsDecide DEF GuildsAssumption
<1> QED
  BY <1>1, <1>2, Each, PTL

(* No more uses in a stretch of a window's length than twice the limit and *)
(* the refunds, and no longer a wait than told: for any limit, window and  *)
(* number of processes (Bucket.ts; cacheFacade.ts, incrWithTtl, decr).     *)
THEOREM CooldownsAreKept == AccessSpec => []CooldownIsKept
<1>1. Cool!CooldownIsKept => CooldownIsKept
  BY DEF CooldownIsKept
<1>2. Cool!Spec => []Cool!CooldownIsKept
  BY CoolAssumption, CooldownsKept
<1> QED
  BY <1>1, <1>2, Each, PTL

(* A revoked token stays revoked and the last one issued is accepted until *)
(* then: for any number of calls and tokens, with either store (token.ts,  *)
(* verify, refresh, issue).                                                *)
THEOREM RevocationsAreExact == AccessSpec => []RevocationIsExact
<1>1. Tok!TypeOK /\ Tok!RevocationIsExact => RevocationIsExact
  BY DEF RevocationIsExact
<1> QED
  BY <1>1, Each, RevocationsExact, PTL
=============================================================================
