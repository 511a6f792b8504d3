----------------------------- MODULE IpcService -----------------------------
(***************************************************************************)
(* What the IPC server promises its clients.  Requests are handled whole   *)
(* and at once, those of a client in the order it wrote them; a broadcast  *)
(* reaches every subscriber in one step; every client has one queue, as    *)
(* long as it gets, of what was sent to it and it has not read.  A         *)
(* connection may be lost at any time, and with it the end of its queue.   *)
(* There are no sockets, watchers, callbacks or requests read in part.     *)
(***************************************************************************)
EXTENDS Integers, Sequences

CONSTANTS
  Clients,
  Types          \* of requests; all but a query have a payload

VARIABLES
  conn,
  subs,          \* the clients that subscribed to events
  requests,      \* what each client wrote and i3 has not handled
  box,           \* per client, its queue and the history of what was sent to it
  received,      \* what each client has read
  ticks          \* history: number of SEND_TICK requests handled

vars == <<conn, subs, requests, box, received, ticks>>

Units == [msg : Nat, end : BOOLEAN]
Messages == [kind : {"reply", "event", "tick"}, tick : Nat]
Boxes == [mail : Seq(Units), sent : Seq(Messages)]

TypeOK ==
  /\ conn \in [Clients -> {"new", "open", "closed"}]
  /\ subs \subseteq Clients
  /\ requests \in [Clients -> Seq(Types \cup {"payload"})]
  /\ box \in [Clients -> Boxes]
  /\ received \in [Clients -> Seq(Units)]
  /\ ticks \in Nat

Init ==
  /\ conn = [c \in Clients |-> "new"]
  /\ subs = {}
  /\ requests = [c \in Clients |-> << >>]
  /\ box = [c \in Clients |-> [mail |-> << >>, sent |-> << >>]]
  /\ received = [c \in Clients |-> << >>]
  /\ ticks = 0

-----------------------------------------------------------------------------
Reply(n) == [kind |-> "reply", tick |-> n]
Tick(n) == [kind |-> "tick", tick |-> n]
Event == [kind |-> "event", tick |-> 0]

\* a message is its header and its payload, behind all that was sent before
Put(b, m) ==
  LET n == Len(b.sent) + 1
  IN  [mail |-> b.mail \o <<[msg |-> n, end |-> FALSE], [msg |-> n, end |-> TRUE]>>,
       sent |-> Append(b.sent, m)]

Published(m) == [c \in Clients |-> IF c \in subs THEN Put(box[c], m) ELSE box[c]]

Cut(b, n) == [mail |-> SubSeq(b.mail, 1, n), sent |-> b.sent]

\* the first request of a client, which must be there with its payload
First(c, type) ==
  /\ conn[c] = "open"
  /\ requests[c] # << >> /\ Head(requests[c]) = type
  /\ type # "query" => Len(requests[c]) > 1 /\ requests[c][2] = "payload"

Rest(c, type) ==
  IF type = "query" THEN Tail(requests[c]) ELSE Tail(Tail(requests[c]))

Handle(c, type) ==
  /\ First(c, type)
  /\ requests' = [requests EXCEPT ![c] = Rest(c, type)]

-----------------------------------------------------------------------------
Connect(c) ==
  /\ conn[c] = "new"
  /\ conn' = [conn EXCEPT ![c] = "open"]
  /\ UNCHANGED <<subs, requests, box, received, ticks>>

Write(c, part) ==
  /\ conn[c] # "closed"
  /\ requests' = [requests EXCEPT ![c] = Append(@, part)]
  /\ UNCHANGED <<conn, subs, box, received, ticks>>

Take(c) ==
  /\ box[c].mail # << >>
  /\ received' = [received EXCEPT ![c] = Append(@, Head(box[c].mail))]
  /\ box' = [box EXCEPT ![c] = [mail |-> Tail(@.mail), sent |-> @.sent]]
  /\ UNCHANGED <<conn, subs, requests, ticks>>

Query(c) ==
  /\ Handle(c, "query")
  /\ box' = [box EXCEPT ![c] = Put(@, Reply(0))]
  /\ UNCHANGED <<conn, subs, received, ticks>>

\* the reply, and with the first subscription a tick
Subscribe(c) ==
  /\ Handle(c, "subscribe")
  /\ box' = [box EXCEPT ![c] =
               IF c \in subs THEN Put(@, Reply(0)) ELSE Put(Put(@, Reply(0)), Tick(0))]
  /\ subs' = subs \cup {c}
  /\ UNCHANGED <<conn, received, ticks>>

\* the tick is sent to every subscriber before the reply
SendTick(c) ==
  /\ Handle(c, "tick")
  /\ ticks' = ticks + 1
  /\ box' = [Published(Tick(ticks')) EXCEPT ![c] = Put(@, Reply(ticks'))]
  /\ UNCHANGED <<conn, subs, received>>

Publish ==
  /\ box' = Published(Event)
  /\ UNCHANGED <<conn, subs, requests, received, ticks>>

Lose(c) ==
  /\ conn[c] = "open"
  /\ conn' = [conn EXCEPT ![c] = "closed"]
  /\ subs' = subs \ {c}
  /\ requests' = [requests EXCEPT ![c] = << >>]
  /\ \E n \in 0 .. Len(box[c].mail) : box' = [box EXCEPT ![c] = Cut(@, n)]
  /\ UNCHANGED <<received, ticks>>

\* A last event, then every connection is lost but the one that asked, which
\* loses the end of its queue and gets its reply behind what is left.
Restart(c) ==
  /\ First(c, "restart")
  /\ requests' = [d \in Clients |->
       IF d = c THEN Rest(c, "restart") ELSE IF conn[d] = "open" THEN << >> ELSE requests[d]]
  /\ conn' = [d \in Clients |-> IF d # c /\ conn[d] = "open" THEN "closed" ELSE conn[d]]
  /\ subs' = {}
  /\ box' \in [Clients -> Boxes]
  /\ \A d \in Clients : \E n \in 0 .. Len(Published(Event)[d].mail) :
       LET left == Cut(Published(Event)[d], n)
       IN  /\ box'[d] = IF d = c THEN Put(left, Reply(0)) ELSE left
           /\ conn[d] # "open" => left = box[d]
  /\ UNCHANGED <<received, ticks>>

Next ==
  \/ Publish
  \/ \E c \in Clients :
       \/ Connect(c) \/ Take(c) \/ Lose(c)
       \/ Query(c) \/ Subscribe(c) \/ SendTick(c) \/ Restart(c)
       \/ \E part \in Types \cup {"payload"} : Write(c, part)

Spec == Init /\ [][Next]_vars
=============================================================================
