----------------------- MODULE GatewayMultiplex_proof ------------------------
(***************************************************************************)
(* Discord and the raw gateway agree on the sessions of a shard, for any   *)
(* number of shard objects, faults and operations.                         *)
(***************************************************************************)
EXTENDS GatewayMultiplex, FiniteSetTheorems, TLAPS

Socket == [st: {"none", "connecting", "open", "closing", "closed"}, resume: BOOLEAN,
           hello: BOOLEAN, auth: {"none", "identify", "resume", "live"},
           settled: BOOLEAN, timer: BOOLEAN]

Object == [status: Status, ws: {0} \cup Gens, gen: {0} \cup Gens, session: BOOLEAN,
           heartbeat: BOOLEAN, destroyed: BOOLEAN, refused: BOOLEAN]

Shape ==
    /\ shards \in [Shards -> Object]
    /\ sock \in [Conns -> Socket]
    /\ current \in {0} \cup Shards /\ lock \in Conns \cup {Free}
    /\ turns \subseteq Conns /\ sleeps \subseteq Conns
    /\ stored \in BOOLEAN

Active == {"identifying", "resuming", "ready"}

(* What an object that is not in the map has left: no socket to send on,   *)
(* and no sleep that would have it connect, unless it is marked destroyed. *)
Others == \A i \in Shards : i # current =>
    /\ shards[i].ws = 0
    /\ shards[i].destroyed \/ (shards[i].gen = 0 /\ sleeps \cap ({i} \X Gens) = {})

(* The object in the map holds the socket of its latest connect, or that   *)
(* socket has closed.                                                      *)
Holder == current # 0 =>
    /\ ~shards[current].destroyed
    /\ shards[current].gen # 0
    /\ shards[current].ws \in {0, shards[current].gen}
    /\ sock[<<current, shards[current].gen>>].st # "closed" => shards[current].ws # 0

(* A socket with a session is the one that the object in the map holds,    *)
(* and that object's status keeps it from connecting again.                *)
Session(c) == sock[c].st = "open" /\ sock[c].auth # "none"

Sessions == \A c \in Conns :
    /\ sock[c].st = "connecting" => sock[c].auth = "none"
    /\ Session(c) => /\ c[1] = current /\ c[2] = shards[current].ws
                     /\ shards[current].status \in Active

Inv == Shape /\ Others /\ Holder /\ Sessions /\ ReadyIsLive

-----------------------------------------------------------------------------
(* The parts the actions are made of.                                      *)

LEMMA ConstantsShape ==
    /\ Shards \subseteq Nat \ {0} /\ Gens \subseteq Nat \ {0} /\ 1 \in Gens
    /\ Conns = Shards \X Gens
BY GatewayAssumption DEF Shards, Gens, Conns

LEMMA ConnectShape ==
    ASSUME Shape, NEW i \in Shards, NEW sh \in Object, Connect(i, sh)
    PROVE  \E g \in Gens : \E t \in Object : \E k \in Socket :
              /\ g = sh.gen + 1
              /\ shards' = [shards EXCEPT ![i] = t] /\ sock' = [sock EXCEPT ![<<i, g>>] = k]
              /\ t.gen = g /\ t.ws = g /\ t.destroyed = sh.destroyed
              /\ t.status \in {"connecting", "reconnecting"}
              /\ k.st = "connecting" /\ k.auth = "none"
<1> DEFINE g == sh.gen + 1
           t == [sh EXCEPT !.gen = g, !.ws = g, !.refused = FALSE,
                           !.status = IF stored THEN "reconnecting" ELSE "connecting",
                           !.session = @ \/ stored]
           k == [NoSocket EXCEPT !.st = "connecting", !.resume = stored, !.timer = TRUE]
<1>1. g \in Gens /\ shards' = [shards EXCEPT ![i] = t] /\ sock' = [sock EXCEPT ![<<i, g>>] = k]
  BY DEF Connect
<1>2. t \in Object /\ t.gen = g /\ t.ws = g /\ t.destroyed = sh.destroyed
      /\ t.status \in {"connecting", "reconnecting"}
  BY <1>1 DEF Shape, Object, Status
<1>3. k \in Socket /\ k.st = "connecting" /\ k.auth = "none"
  BY DEF Shape, Socket, NoSocket
<1> HIDE DEF g, t, k
<1> QED
  BY <1>1, <1>2, <1>3 DEF g

(* To settle a connect, or to close the socket that is held, gives no      *)
(* socket a session.                                                       *)
LEMMA SettleShape ==
    ASSUME NEW s \in Socket, NEW c
    PROVE  /\ Settle(s, c) \in Socket
           /\ Settle(s, c).st = s.st /\ Settle(s, c).auth = s.auth
BY DEF Settle, Socket

LEMMA CloseHeldShape ==
    ASSUME Shape, NEW c \in Conns
    PROVE  /\ CloseHeld(c) \in [Conns -> Socket]
           /\ \A d \in Conns : /\ CloseHeld(c)[d].auth = sock[d].auth
                               /\ CloseHeld(c)[d].st \in {sock[d].st, "closing"}
                               /\ sock[d].st = "closed" => CloseHeld(c)[d].st = "closed"
<1> DEFINE h == Held(c)
<1>1. c[1] \in Shards /\ shards[c[1]].ws \in {0} \cup Gens
  BY DEF Shape, Conns, Object
<1>2. CASE CloseHeld(c) = sock
  BY <1>2 DEF Shape
<1>3. CASE CloseHeld(c) # sock
  <2>1. h \in Conns /\ sock[h].st \in {"connecting", "open"}
        /\ CloseHeld(c) = [sock EXCEPT ![h] = [sock[h] EXCEPT !.st = "closing"]]
    BY <1>1, <1>3 DEF CloseHeld, Held, Conns
  <2>2. [sock[h] EXCEPT !.st = "closing"] \in Socket
        /\ [sock[h] EXCEPT !.st = "closing"].st = "closing"
        /\ [sock[h] EXCEPT !.st = "closing"].auth = sock[h].auth
    BY <2>1 DEF Shape, Socket
  <2> HIDE DEF h
  <2> QED
    BY <2>1, <2>2 DEF Shape
<1> QED
  BY <1>2, <1>3

-----------------------------------------------------------------------------
(* The operations of the multiplex.                                        *)

LEMMA AddNewKeeps == ASSUME Inv, AddNew PROVE Inv'
<1> DEFINE i == count.made + 1
<1>1. NoShard \in Object /\ NoShard.gen = 0 /\ ~NoShard.destroyed
  BY DEF NoShard, Object, Status
<1>2. i \in Shards /\ current = 0 /\ current' = i /\ Connect(i, NoShard)
      /\ lock' = <<i, 1>> /\ UNCHANGED <<stored, turns, sleeps>>
  BY DEF AddNew
<1> HIDE DEF i
<1>3. PICK g \in Gens : \E t \in Object : \E k \in Socket :
              /\ g = NoShard.gen + 1
              /\ shards' = [shards EXCEPT ![i] = t] /\ sock' = [sock EXCEPT ![<<i, g>>] = k]
              /\ t.gen = g /\ t.ws = g /\ t.destroyed = NoShard.destroyed
              /\ t.status \in {"connecting", "reconnecting"}
              /\ k.st = "connecting" /\ k.auth = "none"
  BY <1>1, <1>2, ConnectShape DEF Inv
<1>4. Shape'
  BY <1>2, <1>3, ConstantsShape DEF Inv, Shape
<1>5. Others' /\ Holder'
  BY <1>1, <1>2, <1>3, ConstantsShape DEF Inv, Shape, Others, Holder
<1>6. Sessions' /\ ReadyIsLive'
  BY <1>2, <1>3, ConstantsShape DEF Inv, Shape, Others, Sessions, Session, ReadyIsLive, Active
<1> QED
  BY <1>4, <1>5, <1>6 DEF Inv

(* The object in the map connects again.                                   *)
LEMMA ConnectKeeps ==
    ASSUME Inv, current \in Shards, ~ConnectReturns(current), Connect(current, shards[current]),
           sleeps' \subseteq sleeps, UNCHANGED <<current, stored, turns>>,
           lock' \in Conns \cup {Free}
    PROVE  Inv'
<1> DEFINE i == current
<1>1. shards[i] \in Object
  BY DEF Inv, Shape
<1>2. PICK g \in Gens : \E t \in Object : \E k \in Socket :
              /\ g = shards[i].gen + 1
              /\ shards' = [shards EXCEPT ![i] = t] /\ sock' = [sock EXCEPT ![<<i, g>>] = k]
              /\ t.gen = g /\ t.ws = g /\ t.destroyed = shards[i].destroyed
              /\ t.status \in {"connecting", "reconnecting"}
              /\ k.st = "connecting" /\ k.auth = "none"
  BY <1>1, ConnectShape DEF Inv
<1>3. Shape'
  BY <1>1, <1>2, ConstantsShape DEF Inv, Shape
<1>4. Others' /\ Holder'
  BY <1>1, <1>2, ConstantsShape DEF Inv, Shape, Others, Holder
<1>5. Sessions' /\ ReadyIsLive'
  BY <1>1, <1>2, ConstantsShape
     DEF Inv, Shape, Sessions, Session, ReadyIsLive, Active, ConnectReturns
<1> QED
  BY <1>3, <1>4, <1>5 DEF Inv

LEMMA AddExistingKeeps == ASSUME Inv, AddExisting PROVE Inv'
<1>1. current \in Shards /\ shards[current].gen + 1 \in Gens
  BY DEF AddExisting, Connect, Inv, Shape
<1> QED
  BY <1>1, ConnectKeeps DEF AddExisting, Conns

LEMMA RemoveKeeps == ASSUME Inv, NEW clear \in BOOLEAN, Remove(clear) PROVE Inv'
<1> DEFINE i == current
           t == [shards[i] EXCEPT !.destroyed = TRUE, !.heartbeat = FALSE, !.ws = 0,
                                  !.status = "destroyed", !.session = @ /\ ~clear]
<1>1. i \in Shards /\ t \in Object /\ t.destroyed /\ t.ws = 0
  BY DEF Remove, Inv, Shape, Object, Status
<1>2. shards' = [shards EXCEPT ![i] = t] /\ current' = 0 /\ stored' = (stored /\ ~clear)
      /\ UNCHANGED <<lock, turns, sleeps>>
  BY DEF Remove
<1>3. /\ sock' \in [Conns -> Socket]
      /\ \A d \in Conns : ~(sock[d].st = "open" /\ sock[d].auth # "none" /\ sock'[d].st = "open")
      /\ \A d \in Conns : /\ sock'[d].st = "open" => sock[d].st = "open"
                          /\ sock'[d].st = "connecting" => sock[d].st = "connecting"
      /\ \A d \in Conns : sock'[d].auth = sock[d].auth
  <2> DEFINE c == <<current, shards[current].ws>>
  <2>1. c[2] # 0 => c \in Conns
    BY <1>1, ConstantsShape DEF Inv, Shape, Object
  <2>2. \A d \in Conns : Session(d) => d = c
    BY ConstantsShape DEF Inv, Sessions
  <2>3. CASE c[2] # 0 /\ sock[c].st = "open"
    <3>1. [sock[c] EXCEPT !.st = "closing"] \in Socket
          /\ [sock[c] EXCEPT !.st = "closing"].st = "closing"
          /\ [sock[c] EXCEPT !.st = "closing"].auth = sock[c].auth
      BY <2>1, <2>3 DEF Inv, Shape, Socket
    <3>2. sock' = [sock EXCEPT ![c] = [sock[c] EXCEPT !.st = "closing"]]
      BY <2>3 DEF Remove
    <3> HIDE DEF c
    <3> QED
      BY <2>1, <2>2, <2>3, <3>1, <3>2 DEF Inv, Shape, Session
  <2>4. CASE ~(c[2] # 0 /\ sock[c].st = "open")
    <3>1. sock' = sock
      BY <2>4 DEF Remove
    <3> QED
      BY <2>1, <2>2, <2>4, <3>1, ConstantsShape DEF Inv, Shape, Session
  <2> QED
    BY <2>3, <2>4
<1> HIDE DEF t
<1>4. Shape'
  BY <1>1, <1>2, <1>3, ConstantsShape DEF Inv, Shape
<1>5. Others' /\ Holder'
  BY <1>1, <1>2, <1>3, ConstantsShape DEF Inv, Shape, Others, Holder
<1>6. Sessions' /\ ReadyIsLive'
  BY <1>1, <1>2, <1>3, ConstantsShape DEF Inv, Shape, Sessions, Session, ReadyIsLive, Active
<1> QED
  BY <1>4, <1>5, <1>6 DEF Inv

LEMMA ReleaseKeeps == ASSUME Inv, Release PROVE Inv'
BY DEF Release, Inv, Shape, Others, Holder, Sessions, Session, ReadyIsLive

-----------------------------------------------------------------------------
(* What the sockets bring.                                                 *)

(* Steps that move no object and give no socket a session keep the         *)
(* invariant.                                                              *)
LEMMA QuietKeeps ==
    ASSUME Inv, Shape', current' = current, sleeps' = sleeps,
           \A i \in Shards : /\ shards'[i].ws = shards[i].ws /\ shards'[i].gen = shards[i].gen
                             /\ shards'[i].destroyed = shards[i].destroyed
                             /\ shards'[i].status = shards[i].status,
           \A d \in Conns : /\ sock'[d].auth = sock[d].auth
                            /\ sock'[d].st = "closed" <=> sock[d].st = "closed"
                            /\ sock'[d].st = "connecting" => sock[d].st = "connecting"
                            /\ sock'[d].st = "open" => sock[d].st \in {"connecting", "open"}
    PROVE  Inv'
<1>1. Others'
  BY DEF Inv, Shape, Others
<1>2. current # 0 => current \in Shards /\ shards[current].gen \in {0} \cup Gens
  BY DEF Inv, Shape, Object
<1>3. Holder'
  BY <1>2 DEF Inv, Holder, Conns
<1>4. Sessions'
  <2> SUFFICES ASSUME NEW c \in Conns
               PROVE  /\ sock'[c].st = "connecting" => sock'[c].auth = "none"
                      /\ Session(c)' => /\ c[1] = current /\ c[2] = shards'[current].ws
                                        /\ shards'[current].status \in Active
    BY DEF Sessions
  <2>1. Session(c)' => Session(c)
    BY DEF Inv, Sessions, Session
  <2>2. c[1] \in Shards
    BY ConstantsShape
  <2> QED
    BY <2>1, <2>2 DEF Inv, Sessions
<1>5. ReadyIsLive'
  BY <1>2 DEF Inv, Holder, ReadyIsLive, Conns
<1> QED
  BY <1>1, <1>3, <1>4, <1>5 DEF Inv

LEMMA OpensKeeps == ASSUME Inv, NEW c \in Conns, Opens(c) PROVE Inv'
<1> DEFINE k == [sock[c] EXCEPT !.st = "open"]
<1>1. k \in Socket /\ k.st = "open" /\ k.auth = sock[c].auth
  BY DEF Inv, Shape, Socket
<1>2. sock' = [sock EXCEPT ![c] = k] /\ sock[c].st = "connecting"
      /\ UNCHANGED <<shards, current, stored, lock, turns, sleeps>>
  BY DEF Opens
<1> HIDE DEF k
<1>3. Shape'
  BY <1>1, <1>2 DEF Inv, Shape
<1> QED
  BY <1>1, <1>2, <1>3, QuietKeeps DEF Inv, Shape

(* The object in the map that has a socket to send on holds the latest.    *)
LEMMA HeldIsCurrent ==
    ASSUME Inv, NEW c \in Conns, shards[c[1]].ws # 0
    PROVE  /\ c[1] = current /\ shards[current].ws = shards[current].gen
           /\ Held(c) = <<current, shards[current].ws>> /\ Held(c) \in Conns
<1>1. c[1] \in Shards /\ shards[c[1]].ws \in {0} \cup Gens
  BY DEF Inv, Shape, Object, Conns
<1>2. c[1] = current
  BY <1>1 DEF Inv, Others
<1>3. shards[current].ws = shards[current].gen
  BY <1>1, <1>2, ConstantsShape DEF Inv, Holder
<1> QED
  BY <1>1, <1>2, <1>3 DEF Held, Conns

LEMMA ReconnectKeeps == ASSUME Inv, NEW c \in Conns, Reconnect(c) PROVE Inv'
<1>1. sock' = CloseHeld(c) /\ UNCHANGED <<shards, current, stored, lock, turns, sleeps>>
  BY DEF Reconnect
<1>2. Shape'
  BY <1>1, CloseHeldShape DEF Inv, Shape
<1> QED
  BY <1>1, <1>2, CloseHeldShape, QuietKeeps DEF Inv

LEMMA ConnectTimeoutKeeps == ASSUME Inv, NEW c \in Conns, ConnectTimeout(c) PROVE Inv'
<1> DEFINE k == Settle([CloseHeld(c)[c] EXCEPT !.timer = FALSE], c)
<1>1. CloseHeld(c) \in [Conns -> Socket] /\ CloseHeld(c)[c] \in Socket
  BY CloseHeldShape DEF Inv
<1>2. /\ [CloseHeld(c)[c] EXCEPT !.timer = FALSE] \in Socket
      /\ [CloseHeld(c)[c] EXCEPT !.timer = FALSE].st = CloseHeld(c)[c].st
      /\ [CloseHeld(c)[c] EXCEPT !.timer = FALSE].auth = CloseHeld(c)[c].auth
  BY <1>1 DEF Socket
<1>3. k \in Socket /\ k.st = CloseHeld(c)[c].st /\ k.auth = CloseHeld(c)[c].auth
  BY <1>2, SettleShape
<1>4. sock' = [CloseHeld(c) EXCEPT ![c] = k]
      /\ UNCHANGED <<shards, current, stored, lock, turns, sleeps>>
  BY DEF ConnectTimeout
<1> HIDE DEF k
<1>5. Shape'
  BY <1>1, <1>3, <1>4 DEF Inv, Shape
<1>6. \A d \in Conns : sock'[d].auth = CloseHeld(c)[d].auth /\ sock'[d].st = CloseHeld(c)[d].st
  BY <1>1, <1>3, <1>4
<1> QED
  BY <1>4, <1>5, <1>6, CloseHeldShape, QuietKeeps DEF Inv

LEMMA InvalidSessionKeeps ==
    ASSUME Inv, NEW c \in Conns, NEW resumable \in BOOLEAN, InvalidSession(c, resumable)
    PROVE  Inv'
<1> DEFINE i == c[1]
           t == [shards[i] EXCEPT !.session = FALSE]
<1>1. i \in Shards /\ t \in Object /\ t.ws = shards[i].ws /\ t.gen = shards[i].gen
      /\ t.destroyed = shards[i].destroyed /\ t.status = shards[i].status
  BY DEF Inv, Shape, Object, Conns
<1>2. shards' = (IF resumable THEN shards ELSE [shards EXCEPT ![i] = t])
      /\ sock' = CloseHeld(c) /\ stored' = (stored /\ resumable)
      /\ UNCHANGED <<current, lock, turns, sleeps>>
  BY DEF InvalidSession
<1> HIDE DEF t
<1>3. Shape'
  BY <1>1, <1>2, CloseHeldShape DEF Inv, Shape
<1>4. \A j \in Shards : /\ shards'[j].ws = shards[j].ws /\ shards'[j].gen = shards[j].gen
                        /\ shards'[j].destroyed = shards[j].destroyed
                        /\ shards'[j].status = shards[j].status
  BY <1>1, <1>2 DEF Inv, Shape
<1> QED
  BY <1>2, <1>3, <1>4, CloseHeldShape, QuietKeeps DEF Inv

LEMMA HelloKeeps == ASSUME Inv, NEW c \in Conns, Hello(c) PROVE Inv'
<1> DEFINE i == c[1]
           resumes == sock[c].resume /\ shards[i].session
           sends == shards[i].ws # 0 /\ sock[Held(c)].st = "open"
           greeted == [sock[c] EXCEPT !.hello = TRUE]
           beating == [shards[i] EXCEPT !.heartbeat = TRUE,
                              !.status = IF resumes THEN "resuming" ELSE @]
<1>1. /\ i \in Shards /\ beating \in Object
      /\ beating.ws = shards[i].ws /\ beating.gen = shards[i].gen
      /\ beating.destroyed = shards[i].destroyed
      /\ beating.status = IF resumes THEN "resuming" ELSE shards[i].status
  BY DEF Inv, Shape, Object, Conns, Status
<1>2. /\ greeted \in Socket /\ greeted.st = sock[c].st /\ greeted.auth = sock[c].auth
      /\ Settle(greeted, c) \in Socket /\ Settle(greeted, c).st = sock[c].st
      /\ Settle(greeted, c).auth = sock[c].auth
  <2>1. greeted \in Socket /\ greeted.st = sock[c].st /\ greeted.auth = sock[c].auth
    BY DEF Inv, Shape, Socket
  <2> QED
    BY <2>1, SettleShape
<1>3. /\ sock[c].st = "open"
      /\ shards' = IF ~Handled(c) THEN shards ELSE [shards EXCEPT ![i] = beating]
      /\ turns' \subseteq turns \cup {c}
      /\ UNCHANGED <<current, stored, lock, sleeps>>
  BY DEF Hello
<1>4. CASE ~(Handled(c) /\ resumes /\ sends)
  <2>1. \/ sock' = [sock EXCEPT ![c] = greeted]
        \/ sock' = [sock EXCEPT ![c] = Settle(greeted, c)]
    BY <1>4 DEF Hello
  <2> HIDE DEF greeted, beating, sends
  <2>2. /\ sock' \in [Conns -> Socket]
        /\ \A d \in Conns : sock'[d].st = sock[d].st /\ sock'[d].auth = sock[d].auth
    BY <1>2, <2>1 DEF Inv, Shape
  <2>3. Shape'
    BY <1>1, <1>3, <2>2 DEF Inv, Shape
  <2>4. CASE ~(Handled(c) /\ resumes)
    <3>1. \A j \in Shards : /\ shards'[j].ws = shards[j].ws /\ shards'[j].gen = shards[j].gen
                            /\ shards'[j].destroyed = shards[j].destroyed
                            /\ shards'[j].status = shards[j].status
      BY <1>1, <1>3, <2>4 DEF Inv, Shape
    <3> QED
      BY <1>3, <2>2, <2>3, <3>1, QuietKeeps
  <2>5. CASE Handled(c) /\ resumes
    <3>1. Others' /\ Holder'
      BY <1>1, <1>3, <2>2, <2>5, ConstantsShape DEF Inv, Shape, Object, Others, Holder
    <3>2. Sessions' /\ ReadyIsLive'
      BY <1>1, <1>3, <2>2, <2>5, ConstantsShape
         DEF Inv, Shape, Object, Sessions, Session, ReadyIsLive, Holder, Active
    <3> QED
      BY <2>3, <3>1, <3>2 DEF Inv
  <2> QED
    BY <2>4, <2>5
<1>5. CASE Handled(c) /\ resumes /\ sends
  <2> DEFINE k == [greeted EXCEPT !.auth = "resume"]
  <2>1. i = current /\ Held(c) = c /\ c = <<current, shards[current].ws>>
        /\ shards[current].ws = shards[current].gen
    <3>1. i = current /\ shards[current].ws = shards[current].gen
          /\ Held(c) = <<current, shards[current].ws>>
      BY <1>5, HeldIsCurrent
    <3>2. c = <<c[1], c[2]>>
      BY DEF Conns
    <3> QED
      BY <1>5, <3>1, <3>2 DEF Handled
  <2>2. k \in Socket /\ k.st = "open" /\ k.auth = "resume"
    BY <1>2, <1>3 DEF Socket
  <2>3. sock' = [sock EXCEPT ![c].hello = TRUE, ![c].auth = "resume"]
    BY <1>5, <2>1 DEF Hello
  <2>4. sock' = [sock EXCEPT ![c] = k]
    BY <2>3 DEF Inv, Shape, Socket
  <2> HIDE DEF k, greeted, beating, sends
  <2>5. Shape'
    BY <1>1, <1>3, <2>2, <2>4 DEF Inv, Shape
  <2>6. Others' /\ Holder'
    BY <1>1, <1>3, <1>5, <2>1, <2>2, <2>4, ConstantsShape DEF Inv, Shape, Object, Others, Holder
  <2>7. Sessions' /\ ReadyIsLive'
    BY <1>1, <1>3, <1>5, <2>1, <2>2, <2>4, ConstantsShape
       DEF Inv, Shape, Object, Sessions, Session, ReadyIsLive, Active
  <2> QED
    BY <2>5, <2>6, <2>7 DEF Inv
<1> QED
  BY <1>4, <1>5

LEMMA TurnKeeps == ASSUME Inv, NEW c \in Conns, Turn(c) PROVE Inv'
<1> DEFINE i == c[1]
           t == [shards[i] EXCEPT !.status = "identifying"]
           h == Held(c)
<1>1. /\ i \in Shards /\ t \in Object
      /\ t.ws = shards[i].ws /\ t.gen = shards[i].gen
      /\ t.destroyed = shards[i].destroyed /\ t.status = "identifying"
  BY DEF Inv, Shape, Object, Conns, Status
<1>2. /\ shards' = [shards EXCEPT ![i] = t]
      /\ turns' \subseteq turns /\ UNCHANGED <<current, stored, lock, sleeps>>
  BY DEF Turn
<1> HIDE DEF t
<1>3. /\ sock' \in [Conns -> Socket]
      /\ \A d \in Conns : /\ sock'[d].st = "closed" <=> sock[d].st = "closed"
                          /\ sock'[d].st = "connecting" => sock[d].st = "connecting"
                          /\ sock'[d].st = "open" => sock[d].st = "open"
                          /\ sock'[d].auth # sock[d].auth
                                => d = h /\ d = <<current, shards[current].ws>>
                                   /\ sock[d].st = "open"
  <2>1. CASE shards[i].ws # 0 /\ sock[h].st = "open"
    <3> DEFINE k == IF sock[h].auth = "none" THEN [sock[h] EXCEPT !.auth = "identify"]
                                             ELSE [sock[h] EXCEPT !.st = "closing"]
    <3>1. h \in Conns /\ h = <<current, shards[current].ws>>
      BY <2>1, HeldIsCurrent
    <3>2. k \in Socket /\ (k.st = "open" \/ k.st = "closing")
      BY <2>1, <3>1 DEF Inv, Shape, Socket
    <3>3. sock' = [sock EXCEPT ![h] = k]
      BY <2>1 DEF Turn
    <3> HIDE DEF k, h
    <3> QED
      BY <2>1, <3>1, <3>2, <3>3 DEF Inv, Shape
  <2>2. CASE ~(shards[i].ws # 0 /\ sock[h].st = "open")
    <3>1. sock' = [sock EXCEPT ![c] = Settle(sock[c], c)]
      BY <2>2 DEF Turn
    <3>2. /\ Settle(sock[c], c) \in Socket /\ Settle(sock[c], c).st = sock[c].st
          /\ Settle(sock[c], c).auth = sock[c].auth
      BY SettleShape DEF Inv, Shape
    <3> HIDE DEF h
    <3> QED
      BY <3>1, <3>2 DEF Inv, Shape
  <2> QED
    BY <2>1, <2>2
<1>4. Shape'
  BY <1>1, <1>2, <1>3 DEF Inv, Shape
<1>5. Others' /\ Holder'
  BY <1>1, <1>2, <1>3, ConstantsShape DEF Inv, Shape, Object, Others, Holder
<1>6. shards[i].ws # 0 => i = current
  BY <1>1 DEF Inv, Others
<1>7. current # 0 => shards'[current].ws = shards[current].ws
  BY <1>1, <1>2 DEF Inv, Shape
<1>8. Sessions'
  <2> SUFFICES ASSUME NEW d \in Conns
               PROVE  /\ sock'[d].st = "connecting" => sock'[d].auth = "none"
                      /\ Session(d)' => /\ d[1] = current /\ d[2] = shards'[current].ws
                                        /\ shards'[current].status \in Active
    BY <1>2 DEF Sessions
  <2>1. d = <<d[1], d[2]>> /\ d[1] \in Shards
    BY DEF Conns
  <2>2. CASE sock'[d].auth = sock[d].auth
    BY <1>1, <1>2, <1>3, <2>1, <2>2 DEF Inv, Shape, Sessions, Session, Active
  <2>3. CASE sock'[d].auth # sock[d].auth
    <3>1. d = h /\ d[1] = i /\ d[1] = current /\ d[2] = shards[current].ws /\ sock[d].st = "open"
      BY <1>3, <2>3 DEF Held
    <3> QED
      BY <1>1, <1>2, <1>3, <2>1, <3>1 DEF Inv, Shape, Active
  <2> QED
    BY <2>2, <2>3
<1>9. ReadyIsLive'
  BY <1>1, <1>2, <1>3, ConstantsShape DEF Inv, Shape, Object, ReadyIsLive, Holder, Held
<1> QED
  BY <1>4, <1>5, <1>8, <1>9 DEF Inv

(* READY and RESUMED: the socket is live, and ready is the object it is    *)
(* the latest of.                                                          *)
LEMMA LiveKeeps ==
    ASSUME Inv, NEW c \in Conns, NEW t \in Object, NEW k \in Socket,
           sock[c].st \in {"open", "closing"}, sock[c].auth # "none",
           t.ws = shards[c[1]].ws, t.gen = shards[c[1]].gen,
           t.destroyed = shards[c[1]].destroyed, t.status = "ready",
           k.st = sock[c].st, k.auth = "live",
           shards' = (IF Handled(c) THEN [shards EXCEPT ![c[1]] = t] ELSE shards),
           sock' = [sock EXCEPT ![c] = k], stored' \in BOOLEAN,
           UNCHANGED <<current, lock, turns, sleeps>>
    PROVE  Inv'
<1>1. c[1] \in Shards /\ c[2] \in Gens /\ c = <<c[1], c[2]>>
  BY DEF Conns
<1>2. Shape'
  BY <1>1 DEF Inv, Shape
<1>3. Others' /\ Holder'
  BY <1>1, ConstantsShape DEF Inv, Shape, Object, Others, Holder
<1>4. \A j \in Shards : shards'[j].ws = shards[j].ws
                        /\ shards'[j].status \in {shards[j].status, "ready"}
  BY <1>1 DEF Inv, Shape
<1>5. \A d \in Conns : /\ sock'[d].st = sock[d].st
                      /\ sock[d].auth # "none" <=> sock'[d].auth # "none"
  BY DEF Inv, Shape
<1>6. Sessions'
  <2> SUFFICES ASSUME NEW d \in Conns
               PROVE  /\ sock'[d].st = "connecting" => sock'[d].auth = "none"
                      /\ Session(d)' => /\ d[1] = current /\ d[2] = shards'[current].ws
                                        /\ shards'[current].status \in Active
    BY DEF Sessions
  <2>1. d[1] \in Shards /\ sock'[d].auth \in {"none", "identify", "resume", "live"}
    BY <1>2 DEF Conns, Shape, Socket
  <2>2. Session(d)' => Session(d)
    BY <1>5 DEF Session
  <2> QED
    BY <1>4, <1>5, <2>1, <2>2 DEF Inv, Sessions, Active
<1>7. ReadyIsLive'
  <2>1. CASE c[1] = current /\ Handled(c)
    <3>1. shards[current].ws = shards[current].gen /\ shards[current].gen = c[2]
      BY <1>1, <2>1, ConstantsShape DEF Inv, Holder, Handled
    <3>2. shards'[current] = t
      BY <1>1, <2>1 DEF Inv, Shape
    <3> QED
      BY <1>1, <2>1, <3>1, <3>2 DEF Inv, Shape, ReadyIsLive
  <2>2. CASE ~(c[1] = current /\ Handled(c))
    <3>1. current # 0 => shards'[current] = shards[current]
      BY <1>1, <2>2 DEF Inv, Shape
    <3> QED
      BY <1>1, <2>2, <3>1 DEF Inv, Shape, Object, ReadyIsLive, Handled, Holder, Conns
  <2> QED
    BY <2>1, <2>2
<1> QED
  BY <1>2, <1>3, <1>6, <1>7 DEF Inv

LEMMA ReadyKeeps == ASSUME Inv, NEW c \in Conns, Ready(c) \/ Resumed(c) PROVE Inv'
<1> DEFINE i == c[1]
           k == Settle([sock[c] EXCEPT !.auth = "live"], c)
           r == [shards[i] EXCEPT !.session = TRUE, !.status = "ready"]
           s == [shards[i] EXCEPT !.status = "ready"]
<1>1. k \in Socket /\ k.st = sock[c].st /\ k.auth = "live"
  <2>1. /\ [sock[c] EXCEPT !.auth = "live"] \in Socket
        /\ [sock[c] EXCEPT !.auth = "live"].st = sock[c].st
        /\ [sock[c] EXCEPT !.auth = "live"].auth = "live"
    BY DEF Inv, Shape, Socket
  <2> QED
    BY <2>1, SettleShape
<1>2. /\ r \in Object /\ r.ws = shards[i].ws /\ r.gen = shards[i].gen
      /\ r.destroyed = shards[i].destroyed /\ r.status = "ready"
  BY DEF Inv, Shape, Object, Conns, Status
<1>3. /\ s \in Object /\ s.ws = shards[i].ws /\ s.gen = shards[i].gen
      /\ s.destroyed = shards[i].destroyed /\ s.status = "ready"
  BY DEF Inv, Shape, Object, Conns, Status
<1>4. CASE Ready(c)
  <2>1. /\ sock[c].st \in {"open", "closing"} /\ sock[c].auth # "none"
        /\ shards' = (IF Handled(c) THEN [shards EXCEPT ![i] = r] ELSE shards)
        /\ sock' = [sock EXCEPT ![c] = k] /\ stored' \in BOOLEAN
        /\ UNCHANGED <<current, lock, turns, sleeps>>
    BY <1>4 DEF Ready, Inv, Shape
  <2> HIDE DEF k, r
  <2> QED
    BY <1>1, <1>2, <2>1, LiveKeeps
<1>5. CASE Resumed(c)
  <2>1. /\ sock[c].st \in {"open", "closing"} /\ sock[c].auth # "none"
        /\ shards' = (IF Handled(c) THEN [shards EXCEPT ![i] = s] ELSE shards)
        /\ sock' = [sock EXCEPT ![c] = k] /\ stored' \in BOOLEAN
        /\ UNCHANGED <<current, lock, turns, sleeps>>
    BY <1>5 DEF Resumed, Inv, Shape
  <2> HIDE DEF k, s
  <2> QED
    BY <1>1, <1>3, <2>1, LiveKeeps
<1> QED
  BY <1>4, <1>5

-----------------------------------------------------------------------------
(* Closes, and the sleep after them.                                       *)

LEMMA ClosedKeeps ==
    ASSUME Inv, NEW c \in Conns, NEW fatal \in BOOLEAN, Closed(c, fatal), sock[c].st # "closed"
    PROVE  Inv'
<1> DEFINE i == c[1]
           t == [shards[i] EXCEPT !.heartbeat = FALSE, !.ws = 0,
                                  !.status = "disconnected", !.refused = fatal]
           k == Settle([sock[c] EXCEPT !.st = "closed"], c)
<1>1. i \in Shards /\ c[2] \in Gens /\ c = <<i, c[2]>>
  BY DEF Conns
<1>2. k \in Socket /\ k.st = "closed" /\ k.auth = sock[c].auth
  <2>1. /\ [sock[c] EXCEPT !.st = "closed"] \in Socket
        /\ [sock[c] EXCEPT !.st = "closed"].st = "closed"
        /\ [sock[c] EXCEPT !.st = "closed"].auth = sock[c].auth
    BY DEF Inv, Shape, Socket
  <2> QED
    BY <2>1, SettleShape
<1>3. /\ t \in Object /\ t.ws = 0 /\ t.gen = shards[i].gen
      /\ t.destroyed = shards[i].destroyed /\ t.status = "disconnected"
  <2>1. shards[i] \in Object
    BY <1>1 DEF Inv, Shape
  <2>2. t.ws = 0 /\ t.status = "disconnected" /\ t.heartbeat = FALSE /\ t.refused = fatal
    BY <2>1 DEF Object
  <2>3. t.gen = shards[i].gen /\ t.destroyed = shards[i].destroyed
    BY <2>1 DEF Object
  <2>4. t \in Object
    BY <2>1 DEF Object, Status
  <2> QED
    BY <2>2, <2>3, <2>4
<1>4. sock' = [sock EXCEPT ![c] = k] /\ UNCHANGED <<current, lock, turns>>
  BY DEF Closed
<1>5. ASSUME NEW d \in Conns
      PROVE  /\ d # c => sock'[d] = sock[d]
             /\ sock'[d].st = "connecting" => sock[d].st = "connecting" /\ sock'[d].auth = sock[d].auth
             /\ Session(d)' => Session(d) /\ d # c
  BY <1>2, <1>4 DEF Inv, Shape, Session
<1>6. CASE Handled(c)
  <2>1. /\ shards' = [shards EXCEPT ![i] = t] /\ stored' = (stored /\ ~fatal)
        /\ sleeps' \subseteq sleeps \cup {c} /\ (shards[i].destroyed => sleeps' = sleeps)
    BY <1>6 DEF Closed
  <2> HIDE DEF t, k
  <2>2. Shape'
    BY <1>1, <1>2, <1>3, <1>4, <2>1 DEF Inv, Shape
  <2>3. shards[i].gen = c[2] /\ c[2] # 0
    BY <1>1, <1>6, ConstantsShape DEF Handled
  <2>4. Others'
    <3> SUFFICES ASSUME NEW j \in Shards, j # current
                 PROVE  /\ shards'[j].ws = 0
                        /\ shards'[j].destroyed
                             \/ (shards'[j].gen = 0 /\ sleeps' \cap ({j} \X Gens) = {})
      BY <1>4 DEF Others
    <3>1. CASE j = i
      BY <1>3, <2>1, <2>3, <3>1 DEF Inv, Shape, Others
    <3>2. CASE j # i
      BY <2>1, <3>2 DEF Inv, Shape, Others
    <3> QED
      BY <3>1, <3>2
  <2>5. Holder'
    <3>1. CASE current = i
      BY <1>1, <1>2, <1>3, <1>4, <2>1, <2>3, <3>1 DEF Inv, Shape, Holder
    <3>2. CASE current # i
      BY <1>1, <1>4, <2>1, <3>2 DEF Inv, Shape, Holder, Object, Conns
    <3> QED
      BY <3>1, <3>2
  <2>6. \A d \in Conns : Session(d) => (d[1] = i => d = c)
    BY <1>1, <2>3, ConstantsShape DEF Inv, Sessions, Shape, Object, Holder, Conns
  <2>7. Sessions'
    <3> SUFFICES ASSUME NEW d \in Conns
                 PROVE  /\ sock'[d].st = "connecting" => sock'[d].auth = "none"
                        /\ Session(d)' => /\ d[1] = current /\ d[2] = shards'[current].ws
                                          /\ shards'[current].status \in Active
      BY <1>4 DEF Sessions
    <3>1. d[1] \in Shards
      BY DEF Conns
    <3> QED
      BY <1>1, <1>5, <2>1, <2>6, <3>1 DEF Inv, Shape, Sessions
  <2>8. ReadyIsLive'
    <3>1. CASE current = i
      BY <1>1, <1>3, <1>4, <2>1, <3>1 DEF Inv, Shape, ReadyIsLive
    <3>2. CASE current # i
      <4>1. current # 0 => shards'[current] = shards[current]
        BY <2>1, <3>2 DEF Inv, Shape
      <4>2. current # 0 /\ shards[current].ws # 0 =>
              /\ <<current, shards[current].ws>> \in Conns
              /\ sock'[<<current, shards[current].ws>>] = sock[<<current, shards[current].ws>>]
        BY <1>1, <1>5, <3>2 DEF Inv, Shape, Object, Conns
      <4>3. current # 0 /\ shards[current].status = "ready" => shards[current].ws # 0
        BY DEF Inv, ReadyIsLive, Holder
      <4> QED
        BY <1>4, <4>1, <4>2, <4>3 DEF Inv, ReadyIsLive
    <3> QED
      BY <3>1, <3>2
  <2> QED
    BY <2>2, <2>4, <2>5, <2>7, <2>8 DEF Inv
<1>7. CASE ~Handled(c)
  <2>1. UNCHANGED <<shards, stored, sleeps>>
    BY <1>7 DEF Closed
  <2> HIDE DEF t, k
  <2>2. Shape'
    BY <1>1, <1>2, <1>4, <2>1 DEF Inv, Shape
  <2>3. Others'
    BY <1>4, <2>1 DEF Inv, Others
  <2>4. current # 0 => /\ c # <<current, shards[current].gen>>
                       /\ <<current, shards[current].gen>> \in Conns
                       /\ shards[current].ws \in {0, shards[current].gen}
    BY <1>1, <1>7 DEF Handled, Inv, Shape, Object, Holder, Conns
  <2>5. Holder'
    BY <1>4, <1>5, <2>1, <2>4 DEF Inv, Holder
  <2>6. Sessions'
    BY <1>4, <1>5, <2>1 DEF Inv, Sessions
  <2>7. ReadyIsLive'
    BY <1>4, <1>5, <2>1, <2>4 DEF Inv, Holder, ReadyIsLive
  <2> QED
    BY <2>2, <2>3, <2>5, <2>6, <2>7 DEF Inv
<1> QED
  BY <1>6, <1>7

LEMMA WakesKeeps == ASSUME Inv, NEW c \in Conns, Wakes(c) PROVE Inv'
<1>1. c[1] \in Shards /\ c = <<c[1], c[2]>> /\ c[2] \in Gens
  BY DEF Conns
<1>2. /\ c \in sleeps /\ sleeps' = sleeps \ {c}
      /\ UNCHANGED <<current, stored, lock, turns>>
  BY DEF Wakes
<1>3. CASE shards[c[1]].destroyed \/ ConnectReturns(c[1])
  <2>1. UNCHANGED <<shards, sock>>
    BY <1>3 DEF Wakes
  <2> QED
    BY <1>2, <2>1 DEF Inv, Shape, Others, Holder, Sessions, Session, ReadyIsLive
<1>4. CASE ~(shards[c[1]].destroyed \/ ConnectReturns(c[1]))
  <2>1. c[1] = current
    BY <1>1, <1>2, <1>4 DEF Inv, Others
  <2>2. Connect(current, shards[current])
    BY <1>4, <2>1 DEF Wakes
  <2>3. lock' \in Conns \cup {Free} /\ sleeps' \subseteq sleeps
    BY <1>2 DEF Inv, Shape
  <2> QED
    BY <1>1, <1>2, <1>4, <2>1, <2>2, <2>3, ConnectKeeps
<1> QED
  BY <1>3, <1>4

-----------------------------------------------------------------------------
(* The theorem.                                                            *)

LEMMA InvInit == Init => Inv
<1> SUFFICES ASSUME Init PROVE Inv
  OBVIOUS
<1>1. Shape
  BY DEF Init, Shape, Object, Socket, NoShard, NoSocket, Status
<1>2. Others /\ Holder /\ Sessions /\ ReadyIsLive
  BY DEF Init, Others, Holder, Sessions, Session, ReadyIsLive, NoShard, NoSocket
<1> QED
  BY <1>1, <1>2 DEF Inv

LEMMA InvNext == Inv /\ [Next]_vars => Inv'
<1> SUFFICES ASSUME Inv, [Next]_vars PROVE Inv'
  OBVIOUS
<1>1. CASE AddNew \/ AddExisting \/ (\E clear \in BOOLEAN : Remove(clear)) \/ Release
  BY <1>1, AddNewKeeps, AddExistingKeeps, RemoveKeeps, ReleaseKeeps
<1>2. ASSUME NEW c \in Conns, Progress(c) PROVE Inv'
  <2>1. CASE CloseEnds(c)
    BY <2>1, ClosedKeeps DEF CloseEnds
  <2> QED
    BY <1>2, <2>1, OpensKeeps, HelloKeeps, TurnKeeps, ReadyKeeps, WakesKeeps DEF Progress
<1>3. ASSUME NEW c \in Conns, Faults(c) PROVE Inv'
  <2>1. ASSUME NEW fatal \in BOOLEAN, Drops(c, fatal) PROVE Inv'
    BY <2>1, ClosedKeeps DEF Drops
  <2> QED
    BY <1>3, <2>1, ReconnectKeeps, ConnectTimeoutKeeps, InvalidSessionKeeps DEF Faults
<1>4. CASE UNCHANGED vars
  BY <1>4 DEF vars, Inv, Shape, Others, Holder, Sessions, Session, ReadyIsLive
<1> QED
  BY <1>1, <1>2, <1>3, <1>4 DEF Next

LEMMA InvMeans == Inv => SessionsAreKnown
<1> SUFFICES ASSUME Inv PROVE SessionsAreKnown
  OBVIOUS
<1>1. TypeOK
  BY DEF Inv, Shape, Object, Socket, TypeOK
<1>2. OneSession
  <2> DEFINE S == {c \in Conns : sock[c].st = "open" /\ sock[c].auth # "none"}
             h == <<current, shards[current].ws>>
  <2>1. S \subseteq {h}
    BY DEF Inv, Sessions, Session, Conns
  <2>2. IsFiniteSet({h}) /\ Cardinality({h}) = 1
    BY FS_Singleton
  <2>3. IsFiniteSet(S) /\ Cardinality(S) <= Cardinality({h})
    BY <2>1, <2>2, FS_Subset
  <2> QED
    BY <2>2, <2>3 DEF OneSession
<1>3. RemovedIsSilent
  BY ConstantsShape DEF Inv, Sessions, Session, Holder, RemovedIsSilent
<1> QED
  BY <1>1, <1>2, <1>3 DEF Inv, SessionsAreKnown

(* At any time at most one of the sockets that were ever opened for a      *)
(* shard has a session at Discord, a removed shard has none, and a shard   *)
(* that says it is ready has it: for any number of objects, faults and     *)
(* operations.                                                             *)
THEOREM OneSessionAtMost == Spec => []SessionsAreKnown
BY InvInit, InvNext, InvMeans, PTL DEF Spec
=============================================================================
