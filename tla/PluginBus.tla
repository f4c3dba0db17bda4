------------------------------- MODULE PluginBus -------------------------------
(***************************************************************************)
(* What plugins say to each other between machines                         *)
(* (crosshost/worker/pluginBus.ts): sends to a machine or to all, and      *)
(* requests, over one channel of Redis that every machine hears, itself    *)
(* included.  One channel of the plugins' own; a handler's result is its   *)
(* name.  What is published while a machine is cut off it never hears.     *)
(***************************************************************************)
EXTENDS Naturals, Sequences, FiniteSets

CONSTANTS
    Machine,
    Sender,       \* the machines whose plugins send and ask
    Handler,      \* handlers that plugins may register, on any machine
    Registered,   \* handlers at the start: functions from machines
    MaxMessages,  \* bound: sends and requests
    MaxEvents     \* bound: handlers registered and removed after the start,
                  \* failed publishes and cut connections

VARIABLES
    handlers,  \* per machine its handlers, in the order of their registration
    wire,      \* per machine what it has still to hear, in order
    pending,   \* the requests that are waited for
    runs,      \* deliveries under way
    outcome,   \* per message what became of it for its sender
    messages, events,
    \* For the properties: what each message is, the calls it led to in their
    \* order, and the handlers that have once been removed.
    sent, called, removed

vars == <<handlers, wire, pending, runs, outcome, messages, events, sent, called, removed>>

All == "*"
Result(h) == [kind |-> "result", of |-> h]
Outcome(kind) == [kind |-> kind, of |-> "none"]

Msg(kind, id, from, to, payload) ==
    [kind |-> kind, id |-> id, from |-> from, to |-> to, payload |-> payload]

----------------------------------------------------------------------------

\* publish: heard by all machines, of which those it is not for do nothing.
Publish(msg) ==
    wire' = [m \in Machine |-> IF msg.to \in {m, All} THEN Append(wire[m], msg) ELSE wire[m]]

Happens == events < MaxEvents /\ events' = events + 1

\* deliverLocal: the first handler is called at once.
Deliver(m, msg, heard) ==
    LET hs == handlers[m]
        first == IF hs = <<>> THEN "none" ELSE Head(hs)
    IN /\ runs' = runs \cup {[at |-> m, msg |-> msg, heard |-> heard, awaiting |-> first,
                              next |-> 2, last |-> "none"]}
       /\ called' = IF hs = <<>> THEN called
                    ELSE [called EXCEPT ![msg.id] = Append(@, <<m, first>>)]

New(msg) ==
    /\ messages < MaxMessages /\ messages' = messages + 1
    /\ sent' = [sent EXCEPT ![msg.id] = msg]
    /\ UNCHANGED <<handlers, removed>>

Becomes(msg, o) == outcome' = [outcome EXCEPT ![msg.id] = o]

\* send: to this machine without the wire; to all also here, after the publish.
Send(m, to) ==
    LET msg == Msg("send", messages + 1, m, to, Outcome("none")) IN
    /\ New(msg)
    /\ \/ /\ to = m /\ Deliver(m, msg, FALSE)
          /\ Becomes(msg, Outcome("sent")) /\ UNCHANGED <<wire, events>>
       \/ /\ to # m /\ Publish(msg)
          /\ IF to = All THEN Deliver(m, msg, FALSE) ELSE UNCHANGED <<runs, called>>
          /\ Becomes(msg, Outcome("sent")) /\ UNCHANGED events
       \/ /\ to # m /\ Happens
          /\ Becomes(msg, Outcome("error")) /\ UNCHANGED <<wire, runs, called>>
    /\ UNCHANGED pending

\* request: never to all.
Request(m, to) ==
    LET msg == Msg("request", messages + 1, m, to, Outcome("none")) IN
    /\ New(msg)
    /\ \/ /\ to = m /\ Deliver(m, msg, FALSE)
          /\ Becomes(msg, Outcome("waiting")) /\ UNCHANGED <<wire, pending, events>>
       \/ /\ to # m /\ Publish(msg) /\ pending' = pending \cup {msg.id}
          /\ Becomes(msg, Outcome("waiting")) /\ UNCHANGED <<runs, called, events>>
       \/ /\ to # m /\ Happens
          /\ Becomes(msg, Outcome("error")) /\ UNCHANGED <<wire, runs, called, pending>>

\* Mutant: an answer is taken for all that is asked of its machine.
SettlesMachine(m, msg) == {id \in pending : sent[id].from = m /\ sent[id].to = msg.from}

\* An answer is for whoever waits for that request.
Settles(m, msg) == {id \in pending : sent[id].from = m /\ id = msg.id}

\* onMessage.
Hear(m) ==
    LET msg == Head(wire[m]) IN
    /\ wire[m] # <<>> /\ wire' = [wire EXCEPT ![m] = Tail(@)]
    /\ IF msg.kind = "response" THEN
           /\ pending' = pending \ Settles(m, msg)
           /\ outcome' = [id \in DOMAIN outcome |->
                             IF id \in Settles(m, msg) THEN msg.payload ELSE outcome[id]]
           /\ UNCHANGED <<runs, called>>
       ELSE Deliver(m, msg, TRUE) /\ UNCHANGED <<pending, outcome>>
    /\ UNCHANGED <<handlers, messages, events, sent, removed>>

\* A handler ends: the next is called, one registered meanwhile too, unless it threw.
Return(d, throws) ==
    /\ d.awaiting # "none"
    /\ LET more == ~throws /\ d.next <= Len(handlers[d.at])
           next == handlers[d.at][d.next]
       IN /\ runs' = (runs \ {d}) \cup
                        {[d EXCEPT !.last = IF throws THEN "throws" ELSE d.awaiting,
                                   !.awaiting = IF more THEN next ELSE "none",
                                   !.next = IF more THEN @ + 1 ELSE @]}
          /\ called' = IF more THEN [called EXCEPT ![d.msg.id] = Append(@, <<d.at, next>>)]
                       ELSE called
    /\ UNCHANGED <<handlers, wire, pending, outcome, messages, events, sent, removed>>

\* Without a handler a request fails.
Answer(d) == IF d.last \in {"none", "throws"} THEN Outcome("error") ELSE Result(d.last)
Response(d, o) == Msg("response", d.msg.id, d.at, d.msg.from, o)

\* A request is answered; when its result cannot be published, an error is.
Finish(d) ==
    /\ d.awaiting = "none"
    /\ runs' = runs \ {d}
    /\ \/ d.msg.kind = "send" /\ UNCHANGED <<wire, outcome, events>>
       \/ /\ d.msg.kind = "request" /\ ~d.heard
          /\ Becomes(d.msg, Answer(d)) /\ UNCHANGED <<wire, events>>
       \/ /\ d.msg.kind = "request" /\ d.heard /\ UNCHANGED outcome
          /\ \/ Publish(Response(d, Answer(d))) /\ UNCHANGED events
             \/ Happens /\ (UNCHANGED wire \/ Publish(Response(d, Outcome("error"))))
    /\ UNCHANGED <<handlers, pending, messages, sent, called, removed>>

Timeout(id) ==
    /\ id \in pending
    /\ pending' = pending \ {id}
    /\ outcome' = [outcome EXCEPT ![id] = Outcome("timeout")]
    /\ UNCHANGED <<handlers, wire, runs, messages, events, sent, called, removed>>

CutOff(m) ==
    /\ wire[m] # <<>> /\ Happens
    /\ wire' = [wire EXCEPT ![m] = <<>>]
    /\ UNCHANGED <<handlers, pending, runs, outcome, messages, sent, called, removed>>

On(m, h) ==
    /\ Happens
    /\ \A i \in DOMAIN handlers[m] : handlers[m][i] # h
    /\ handlers' = [handlers EXCEPT ![m] = Append(@, h)]
    /\ UNCHANGED <<wire, pending, runs, outcome, messages, sent, called, removed>>

\* A delivery that is past it goes on with the handler that was next.
Off(m, i) ==
    /\ Happens
    /\ removed' = removed \cup {<<m, handlers[m][i]>>}
    /\ handlers' = [handlers EXCEPT ![m] = SubSeq(@, 1, i - 1) \o SubSeq(@, i + 1, Len(@))]
    /\ runs' = {IF d.at = m /\ i < d.next THEN [d EXCEPT !.next = @ - 1] ELSE d : d \in runs}
    /\ UNCHANGED <<wire, pending, outcome, messages, sent, called>>

Init ==
    /\ handlers \in Registered
    /\ wire = [m \in Machine |-> <<>>] /\ pending = {} /\ runs = {}
    /\ outcome = [id \in 1..MaxMessages |-> Outcome("none")]
    /\ sent = [id \in 1..MaxMessages |-> Msg("none", 0, "none", "none", Outcome("none"))]
    /\ called = [id \in 1..MaxMessages |-> <<>>]
    /\ removed = {} /\ messages = 0 /\ events = 0

Next ==
    \/ \E m \in Sender, to \in Machine \cup {All} : Send(m, to)
    \/ \E m \in Sender, to \in Machine : Request(m, to)
    \/ \E m \in Machine : Hear(m) \/ CutOff(m)
    \/ \E m \in Machine, h \in Handler : On(m, h)
    \/ \E m \in Machine : \E i \in DOMAIN handlers[m] : Off(m, i)
    \/ \E d \in runs : Finish(d) \/ \E throws \in BOOLEAN : Return(d, throws)
    \/ \E id \in 1..MaxMessages : Timeout(id)

Spec == Init /\ [][Next]_vars

----------------------------------------------------------------------------
(* Properties. *)

TypeOK ==
    /\ handlers \in [Machine -> Seq(Handler)]
    /\ pending \subseteq 1..messages /\ removed \subseteq Machine \X Handler
    /\ \A id \in 1..MaxMessages :
          outcome[id].kind \in {"none", "sent", "waiting", "result", "error", "timeout"}
    /\ \A d \in runs : d.at \in Machine /\ d.next \in 1..(Cardinality(Handler) + 1) \cup {2}

\* A request ends with what the last handler of its target made of this very
\* request, however late other answers come, and is waited for until then
\* only (request, onMessage).
AnswersAreTheirs ==
    \A id \in 1..messages :
        /\ outcome[id].kind = "result" =>
              called[id] # <<>> /\ called[id][Len(called[id])] = <<sent[id].to, outcome[id].of>>
        /\ id \in pending <=> outcome[id].kind = "waiting" /\ sent[id].to # sent[id].from

\* A message is handled at most once by each handler, on the machine that sends
\* it to all at most twice, unless the handler was removed and registered again.
HandledOnce ==
    \A id \in 1..messages, m \in Machine, h \in Handler :
        <<m, h>> \notin removed =>
            Cardinality({i \in DOMAIN called[id] : called[id][i] = <<m, h>>})
                <= IF sent[id].to = All /\ sent[id].from = m THEN 2 ELSE 1
===============================================================================
