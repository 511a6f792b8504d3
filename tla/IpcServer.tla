------------------------------ MODULE IpcServer ------------------------------
(***************************************************************************)
(* The IPC server of i3 (ipc.c): connections over UNIX sockets, each with  *)
(* a queue of outgoing bytes, a watcher for the socket to become writable  *)
(* and a timer after which a client that does not read is disconnected.    *)
(*                                                                         *)
(* i3 is one thread around libev's loop: an iteration polls the sockets    *)
(* and the timers, then calls the callbacks of what was ready, those of    *)
(* timers last.  A callback is one step, but the read callback, which      *)
(* waits in a loop for the payload of a request whose header it has read.  *)
(* Clients read, write and hang up at any time.                            *)
(*                                                                         *)
(* A message is two units, its header and its payload, and the kernel      *)
(* takes whole units: any number of them may fit the socket at a time.     *)
(***************************************************************************)
EXTENDS Integers, Sequences

CONSTANTS
  Clients,       \* one connection each
  Room,          \* units a socket holds that the client has not read
  Requests,      \* the types of requests the clients send
  MaxRequests,   \* bound: requests of all clients together
  MaxEvents,     \* bound: events i3 sends of its own
  None           \* no request is being read

Types == {"query", "subscribe", "tick", "restart"}

ASSUME IpcAssumption ==
  /\ Room \in Nat \ {0}
  /\ Requests \subseteq Types
  /\ MaxRequests \in Nat /\ MaxEvents \in Nat
  /\ None \notin Clients \X Types

\* A unit of the n-th message of a connection; a message is a reply, an event
\* of any kind, or the event of the tick with a number.
Units == [msg : Nat, end : BOOLEAN]
Messages == [kind : {"reply", "event", "tick"}, tick : Nat]

\* ipc_client: its buffer, its write watcher, its timeout; the socket behind
\* it, and the history of the messages sent to it
Connections ==
  [buffer : Seq(Units), watching : BOOLEAN, timer : {"off", "on", "expired"},
   socket : Seq(Units), sent : Seq(Messages)]

VARIABLES
  conn,       \* "open" is in all_clients
  client,     \* the ipc_client of each
  subs,       \* the clients that subscribed to events
  pending,    \* the callbacks left to call in this iteration of the loop
  full,       \* history: the sockets without room at the last poll
  reading,    \* the request whose payload ipc_recv_message() waits for
  inbox,      \* headers, named by their type, and payloads on their way to i3
  owing,      \* the clients that have written a header and not its payload
  hungup,     \* the clients that closed the connection
  received,   \* what each client has read
  asked,      \* number of requests the clients have sent
  events,     \* number of events i3 has sent of its own
  ticks,      \* history: number of SEND_TICK requests handled
  carried     \* history: the clients whose connection outlived a restart

server == <<conn, client, subs, pending, full, reading, ticks, carried>>
peers == <<owing, hungup, received, asked>>
vars == <<server, inbox, peers, events>>

Open == {c \in Clients : conn[c] = "open"}
Watchers == {"read", "write", "timeout"} \X Clients

TypeOK ==
  /\ conn \in [Clients -> {"new", "open", "closed"}]
  /\ client \in [Clients -> Connections]
  /\ \A c \in Clients : Len(client[c].socket) <= Room
  /\ subs \subseteq Open
  /\ pending \subseteq Watchers
  /\ full \subseteq Clients
  /\ reading \in (Clients \X Types) \cup {None}
  /\ inbox \in [Clients -> Seq(Types \cup {"payload"})]
  /\ owing \subseteq Clients /\ hungup \subseteq Clients
  /\ received \in [Clients -> Seq(Units)]
  /\ asked \in 0 .. MaxRequests
  /\ events \in 0 .. MaxEvents
  /\ ticks \in Nat
  /\ carried \subseteq Clients

Fresh == [buffer |-> << >>, watching |-> FALSE, timer |-> "off", socket |-> << >>,
          sent |-> << >>]

Init ==
  /\ conn = [c \in Clients |-> "new"]
  /\ client = [c \in Clients |-> Fresh]
  /\ subs = {} /\ pending = {} /\ full = {} /\ reading = None
  /\ inbox = [c \in Clients |-> << >>]
  /\ owing = {} /\ hungup = {}
  /\ received = [c \in Clients |-> << >>]
  /\ asked = 0
  /\ events = 0 /\ ticks = 0 /\ carried = {}

-----------------------------------------------------------------------------
(* Sending *)

Frame(n) == <<[msg |-> n, end |-> FALSE], [msg |-> n, end |-> TRUE]>>

\* writeall_nonblock() until EAGAIN
Written(r) ==
  IF Len(r.buffer) <= Room - Len(r.socket) THEN Len(r.buffer) ELSE Room - Len(r.socket)

\* the queue is not shifted by what was written
UnshiftedBy(buffer, n) == IF n = Len(buffer) THEN << >> ELSE buffer
ShiftedBy(buffer, n) == SubSeq(buffer, n + 1, Len(buffer))

\* the watcher is started, the timer is not
PushUntimed(r, broken) ==
  LET n == Written(r) IN
  IF broken THEN r
  ELSE [buffer |-> ShiftedBy(r.buffer, n), watching |-> n < Len(r.buffer),
        timer |-> r.timer, socket |-> r.socket \o SubSeq(r.buffer, 1, n), sent |-> r.sent]

\* ipc_push_pending(); a write to a connection the peer has closed fails
Push(r, broken) ==
  LET n == Written(r)
      all == n = Len(r.buffer)
  IN  IF broken THEN r
      ELSE [buffer |-> ShiftedBy(r.buffer, n),
            watching |-> ~all,
            timer |-> IF all THEN "off" ELSE IF r.timer = "off" \/ n > 0 THEN "on" ELSE r.timer,
            socket |-> r.socket \o SubSeq(r.buffer, 1, n),
            sent |-> r.sent]

Queued(r, m) ==
  [buffer |-> r.buffer \o Frame(Len(r.sent) + 1), watching |-> r.watching,
   timer |-> r.timer, socket |-> r.socket, sent |-> Append(r.sent, m)]

\* ipc_send_client_message(); only an empty queue is written at once
Send(r, m, broken) ==
  IF r.buffer = << >> THEN Push(Queued(r, m), broken) ELSE Queued(r, m)

\* ipc_send_event(), for a reply afterwards to one client or none
Event(m) ==
  [c \in Clients |-> IF c \in subs THEN Send(client[c], m, c \in hungup) ELSE client[c]]

Reply == [kind |-> "reply", tick |-> 0]
Tick(n) == [kind |-> "tick", tick |-> n]

\* ev_io_stop() and ev_timer_stop() also take back a callback that is pending
StillPending(p, now) ==
  {e \in p : CASE e[1] = "write" -> now[e[2]].watching
               [] e[1] = "timeout" -> now[e[2]].timer = "expired"
               [] OTHER -> TRUE}

\* free_ipc_client(), and without stopping what may still call back
FreedAlone(c) == /\ conn' = [conn EXCEPT ![c] = "closed"]
                 /\ client' = [client EXCEPT ![c].buffer = << >>]
                 /\ pending' = pending \ {<<"read", c>>}
Dropped(r) == [buffer |-> << >>, watching |-> FALSE, timer |-> "off",
               socket |-> r.socket, sent |-> r.sent]
Freed(c) ==
  /\ conn' = [conn EXCEPT ![c] = "closed"]
  /\ client' = [client EXCEPT ![c] = Dropped(@)]
  /\ pending' = {e \in pending : e[2] # c}

Free(c) ==
  /\ Freed(c)
  /\ subs' = subs \ {c}
  /\ reading' = None
  /\ inbox' = [inbox EXCEPT ![c] = << >>]
  /\ UNCHANGED <<full, ticks, carried, peers, events>>

-----------------------------------------------------------------------------
(* The loop *)

Waiting == pending = {} /\ reading = None

\* accept() of the listening socket
NewClient(c) ==
  /\ reading = None
  /\ conn[c] = "new"
  /\ conn' = [conn EXCEPT ![c] = "open"]
  /\ UNCHANGED <<client, subs, pending, full, reading, ticks, carried,
                 inbox, peers, events>>

HasRoom(c) == Len(client[c].socket) < Room

Ready ==
  {e \in Watchers :
     /\ e[2] \in Open
     /\ CASE e[1] = "read" -> inbox[e[2]] # << >> \/ e[2] \in hungup
          [] e[1] = "write" -> client[e[2]].watching /\ (HasRoom(e[2]) \/ e[2] \in hungup)
          [] e[1] = "timeout" -> client[e[2]].timer = "expired"}

Poll ==
  /\ Waiting
  /\ Ready # {}
  /\ pending' = Ready
  /\ full' = {c \in Clients : ~HasRoom(c)}
  /\ UNCHANGED <<conn, client, subs, reading, ticks, carried,
                 inbox, peers, events>>

\* ipc_receive_message(), as far as the header
ReadHeader(c) ==
  /\ reading = None
  /\ <<"read", c>> \in pending
  /\ inbox[c] # << >>
  /\ reading' = <<c, Head(inbox[c])>>
  /\ inbox' = [inbox EXCEPT ![c] = Tail(@)]
  /\ pending' = pending \ {<<"read", c>>}
  /\ UNCHANGED <<conn, client, subs, full, ticks, carried, peers, events>>

\* the end of the stream, before a header or before a payload
ReadEnd(c) ==
  /\ \/ reading = None /\ <<"read", c>> \in pending
     \/ reading # None /\ reading[1] = c /\ reading[2] # "query"
  /\ inbox[c] = << >>
  /\ c \in hungup
  /\ Free(c)

\* ipc_socket_writeable_cb()
Writeable(c) ==
  /\ reading = None
  /\ <<"write", c>> \in pending
  /\ client' = [client EXCEPT ![c] = Push(@, c \in hungup)]
  /\ pending' = StillPending(pending \ {<<"write", c>>}, client')
  /\ UNCHANGED <<conn, subs, full, reading, ticks, carried,
                 inbox, peers, events>>

\* ev_set_priority(timeout, EV_MINPRI): after every other callback
AnyOrder == TRUE
InputOutputDone == \A e \in pending : e[1] = "timeout"

\* ipc_client_timeout()
Timeout(c) ==
  /\ reading = None
  /\ <<"timeout", c>> \in pending
  /\ InputOutputDone
  /\ Free(c)

\* time passes
Elapse(c) ==
  /\ client[c].timer = "on"
  /\ client' = [client EXCEPT ![c].timer = "expired"]
  /\ UNCHANGED <<conn, subs, pending, full, reading, ticks, carried,
                 inbox, peers, events>>

\* ipc_send_event() from the handler of an X11 event
Broadcast ==
  /\ Waiting
  /\ events < MaxEvents
  /\ events' = events + 1
  /\ client' = Event([kind |-> "event", tick |-> 0])
  /\ UNCHANGED <<conn, subs, pending, full, reading, ticks, carried,
                 inbox, peers>>

-----------------------------------------------------------------------------
(* The handlers of requests *)

\* The request c waits for has all of its payload, if it has one.
Complete(c, type) ==
  /\ reading = <<c, type>>
  /\ reading' = None
  /\ IF type = "query" THEN inbox' = inbox
     ELSE inbox[c] # << >> /\ inbox' = [inbox EXCEPT ![c] = Tail(@)]

Answered(now, c, m) == [now EXCEPT ![c] = Send(@, m, c \in hungup)]

\* GET_TREE, GET_WORKSPACES and so on
Query(c) ==
  /\ Complete(c, "query")
  /\ client' = Answered(client, c, Reply)
  /\ pending' = StillPending(pending, client')
  /\ UNCHANGED <<conn, subs, full, ticks, carried, peers, events>>

\* handle_subscribe(), for every event there is: a reply and the first tick
Subscribe(c) ==
  /\ Complete(c, "subscribe")
  /\ LET replied == Answered(client, c, Reply)
     IN  client' = IF c \in subs THEN replied ELSE Answered(replied, c, Tick(0))
  /\ subs' = subs \cup {c}
  /\ pending' = StillPending(pending, client')
  /\ UNCHANGED <<conn, full, ticks, carried, peers, events>>

\* handle_send_tick()
SendTick(c) ==
  /\ Complete(c, "tick")
  /\ ticks' = ticks + 1
  /\ client' = Answered(Event(Tick(ticks')), c, [kind |-> "reply", tick |-> ticks'])
  /\ pending' = StillPending(pending, client')
  /\ UNCHANGED <<conn, subs, full, carried, peers, events>>

\* ipc_confirm_restart(), which pushes the reply once more
Confirmed(r, broken) == Push(Send(Dropped(r), Reply, broken), broken)

\* cmd_restart(): the shutdown event, every connection but this one is closed,
\* and the new process replies on it
Restart(c) ==
  /\ Complete(c, "restart")
  /\ LET told == Event([kind |-> "event", tick |-> 0])
     IN  client' = [d \in Clients |->
           IF d = c THEN Confirmed(told[c], c \in hungup) ELSE Dropped(told[d])]
  /\ conn' = [d \in Clients |-> IF d # c /\ conn[d] = "open" THEN "closed" ELSE conn[d]]
  /\ carried' = carried \cup {c}
  /\ subs' = {} /\ pending' = {}
  /\ UNCHANGED <<full, ticks, peers, events>>

-----------------------------------------------------------------------------
(* The clients *)

SendHeader(c, type) ==
  /\ conn[c] = "open" /\ c \notin hungup \cup owing
  /\ asked < MaxRequests
  /\ asked' = asked + 1
  /\ inbox' = [inbox EXCEPT ![c] = Append(@, type)]
  /\ owing' = IF type = "query" THEN owing ELSE owing \cup {c}
  /\ UNCHANGED <<server, hungup, received, events>>

SendPayload(c) ==
  /\ c \in owing \ hungup
  /\ owing' = owing \ {c}
  /\ inbox' = [inbox EXCEPT ![c] = Append(@, "payload")]
  /\ UNCHANGED <<server, hungup, received, asked, events>>

Receive(c) ==
  /\ c \notin hungup
  /\ client[c].socket # << >>
  /\ received' = [received EXCEPT ![c] = Append(@, Head(client[c].socket))]
  /\ client' = [client EXCEPT ![c].socket = Tail(@)]
  /\ UNCHANGED <<conn, subs, pending, full, reading, ticks, carried,
                 inbox, owing, hungup, asked, events>>

HangUp(c) ==
  /\ conn[c] = "open" /\ c \notin hungup
  /\ hungup' = hungup \cup {c}
  /\ UNCHANGED <<server, inbox, owing, received, asked, events>>

-----------------------------------------------------------------------------
Loop ==
  \/ Poll \/ Broadcast
  \/ \E c \in Clients :
       \/ NewClient(c) \/ ReadHeader(c) \/ ReadEnd(c) \/ Writeable(c) \/ Timeout(c)
       \/ Query(c) \/ Subscribe(c) \/ SendTick(c) \/ Restart(c)

Client(c) ==
  \/ \E type \in Requests : SendHeader(c, type)
  \/ SendPayload(c) \/ Receive(c) \/ HangUp(c)

Next == Loop \/ \E c \in Clients : Elapse(c) \/ Client(c)

Spec == Init /\ [][Next]_vars

\* The loop goes on, time passes, and a client that has written the header of
\* a request writes the rest of it or hangs up.
Fairness ==
  /\ WF_vars(Loop)
  /\ \A c \in Clients : WF_vars(Elapse(c)) /\ WF_vars(SendPayload(c))

FairSpec == Spec /\ Fairness

-----------------------------------------------------------------------------
(* What all this comes to for the clients: IpcService *)

\* a request that is being read counts as not handled
Unhandled ==
  [c \in Clients |->
     IF conn[c] = "closed" THEN << >>
     ELSE IF reading # None /\ reading[1] = c THEN <<reading[2]>> \o inbox[c]
     ELSE inbox[c]]

\* what is in the socket and what is queued
Mail(r) == [mail |-> r.socket \o r.buffer, sent |-> r.sent]
Posted == [c \in Clients |-> Mail(client[c])]

Service == INSTANCE IpcService WITH requests <- Unhandled, box <- Posted

\* To its clients the server is IpcService: that ipc_push_pending() writes as
\* much as a socket takes, that watchers and timers call back in any order and
\* that ipc_receive_message() reads a request in parts, they do not see.
ServesClients == Service!Spec

-----------------------------------------------------------------------------
(* Properties *)

Stream(c) == received[c] \o client[c].socket \o client[c].buffer

\* What a client has read, what is in its socket and what is queued are the
\* messages sent to it, whole and in order.  A connection carried over a
\* restart is another matter.
InOrder ==
  \A c \in Clients \ carried :
    /\ \A i \in DOMAIN Stream(c) :
         Stream(c)[i] = [msg |-> (i + 1) \div 2, end |-> i % 2 = 0]
    /\ c \in Open => Len(Stream(c)) = 2 * Len(client[c].sent)

\* Bytes are queued exactly while the loop watches for the socket to become
\* writable, and then a timer runs (ipc_socket_writeable_cb() asserts it);
\* only the queue of a client that is gone may have neither.
QueueIsWatched ==
  \A c \in Open :
    /\ client[c].watching => client[c].buffer # << >> /\ client[c].timer # "off"
    /\ client[c].buffer # << >> => client[c].watching \/ c \in hungup
    /\ client[c].timer # "off" => client[c].watching

\* A connection that was closed is freed with its watchers, its timer and its
\* subscriptions: no callback is left to be called for it.
FreedIsForgotten ==
  /\ \A e \in pending : e[2] \in Open
  /\ reading # None => reading[1] \in Open
  /\ \A c \in Clients \ Open :
       ~client[c].watching /\ client[c].timer = "off" /\ client[c].buffer = << >>

\* The callbacks that libev may call are those the connections need: for what
\* is queued, and for no connection that was freed.
CallbacksFollow == QueueIsWatched /\ FreedIsForgotten

\* A client is disconnected by the timer only if it left no room in its socket
\* when the loop last looked, however late the loop was: the other callback
\* would have been called by now.
OnlyStuckTimesOut ==
  [][\A c \in Clients : Timeout(c) => c \in full \cup hungup]_vars

\* What is queued for a client is written, or the client is disconnected,
\* whether or not any client reads.
Drains ==
  \A c \in Clients : client[c].buffer # << >> ~> client[c].buffer = << >>

\* docs/ipc, of SEND_TICK: "After the reply was received, the tick event has
\* been written to all IPC connections which subscribe to tick events."
TickWritten ==
  \A c, d \in Clients : \A i \in DOMAIN received[c] : \A j \in DOMAIN client[d].buffer :
    LET m == client[c].sent[received[c][i].msg]
        n == client[d].sent[client[d].buffer[j].msg]
    IN  m.kind = "reply" /\ m.tick > 0 => ~(n.kind = "tick" /\ n.tick = m.tick)

\* docs/ipc: events "may be sent at any time (though never in the middle of
\* another event or reply)"
NeverInTheMiddle ==
  \A c \in Clients : \A i \in 2 .. Len(received[c]) :
    LET before == received[c][i - 1]
        unit == received[c][i]
    IN  IF before.end THEN ~unit.end ELSE unit = [before EXCEPT !.end = TRUE]
=============================================================================
