--------------------------- MODULE IpcServerProofs ---------------------------
(***************************************************************************)
(* Proofs about the IPC server, for any number of clients, any size of the *)
(* sockets and any requests.                                               *)
(***************************************************************************)
EXTENDS IpcServer, SequenceTheorems, TLAPS

(***************************************************************************)
(* Moving the first n elements of a queue to the end of a sequence.        *)
(***************************************************************************)
LEMMA Moving ==
  ASSUME NEW s \in Seq(Units), NEW b \in Seq(Units), NEW n \in 0 .. Len(b)
  PROVE  /\ s \o SubSeq(b, 1, n) \in Seq(Units)
         /\ Len(s \o SubSeq(b, 1, n)) = Len(s) + n
         /\ SubSeq(b, n + 1, Len(b)) \in Seq(Units)
         /\ (SubSeq(b, n + 1, Len(b)) = << >> <=> n = Len(b))
         /\ (s \o SubSeq(b, 1, n)) \o SubSeq(b, n + 1, Len(b)) = s \o b
<1> DEFINE front == SubSeq(b, 1, n)
           rest == SubSeq(b, n + 1, Len(b))
<1>1. Len(b) \in Nat /\ Len(s) \in Nat /\ n \in Nat /\ n <= Len(b)
  OBVIOUS
<1>2. \A i \in 1 .. Len(b) : b[i] \in Units
  BY ElementOfSeq
<1>3. front \in Seq(Units) /\ Len(front) = n /\ \A i \in 1 .. n : front[i] = b[i]
  BY <1>1, <1>2, SubSeqProperties
<1>4. /\ rest \in Seq(Units) /\ Len(rest) = Len(b) - n
      /\ \A i \in 1 .. Len(b) - n : rest[i] = b[n + i]
  BY <1>1, <1>2, SubSeqProperties
<1>5. front \in Seq(Units) /\ rest \in Seq(Units)
  BY <1>3, <1>4
<1> HIDE DEF front, rest
<1>6. /\ front \o rest \in Seq(Units) /\ Len(front \o rest) = Len(front) + Len(rest)
      /\ \A i \in 1 .. Len(front) + Len(rest) : (front \o rest)[i] =
           IF i <= Len(front) THEN front[i] ELSE rest[i - Len(front)]
  BY <1>5, ConcatProperties
<1>7. Len(front \o rest) = Len(b)
  BY <1>1, <1>3, <1>4, <1>6
<1>8. \A i \in 1 .. Len(b) : (front \o rest)[i] = b[i]
  BY <1>1, <1>3, <1>4, <1>6
<1>9. front \o rest = b
  BY <1>6, <1>7, <1>8, SeqEqual
<1>10. (s \o front) \o rest = s \o (front \o rest)
  BY <1>5, ConcatAssociative
<1>11. (rest = << >> <=> n = Len(b))
  BY <1>1, <1>4, EmptySeq
<1>12. s \o front \in Seq(Units) /\ Len(s \o front) = Len(s) + Len(front)
  BY <1>5, ConcatProperties
<1> QED BY <1>3, <1>4, <1>9, <1>10, <1>11, <1>12 DEF front, rest

(***************************************************************************)
(* ipc_push_pending() moves bytes from the queue to the socket as far as   *)
(* there is room, and leaves watcher and timer as the rest demands.        *)
(***************************************************************************)
LEMMA PushMoves ==
  ASSUME NEW r \in Connections, Len(r.socket) <= Room, NEW broken \in BOOLEAN
  PROVE  /\ Push(r, broken) \in Connections
         /\ Len(Push(r, broken).socket) <= Room
         /\ Push(r, broken).sent = r.sent
         /\ Push(r, broken).socket \o Push(r, broken).buffer = r.socket \o r.buffer
         /\ broken => Push(r, broken) = r
         /\ ~broken =>
              /\ Push(r, broken).watching = (Push(r, broken).buffer # << >>)
              /\ (Push(r, broken).timer = "off") = (Push(r, broken).buffer = << >>)
              /\ Len(r.socket) < Room /\ r.buffer # << >>
                   => Push(r, broken).timer # "expired"
<1>1. CASE broken
  BY <1>1 DEF Push
<1>2. CASE ~broken
  <2> DEFINE p == Push(r, broken)
  <2>1. /\ r.buffer \in Seq(Units) /\ r.socket \in Seq(Units) /\ r.sent \in Seq(Messages)
        /\ r.timer \in {"off", "on", "expired"}
    BY DEF Connections
  <2>2. PICK b \in Seq(Units) : b = r.buffer
    BY <2>1
  <2>3. PICK k \in Seq(Units) : k = r.socket
    BY <2>1
  <2>4. /\ Len(b) \in Nat /\ Len(k) \in Nat /\ Room \in Nat \ {0} /\ Len(k) <= Room
        /\ (b # << >> => Len(b) > 0)
    BY <2>2, <2>3, IpcAssumption
  <2>5. Written(r) = IF Len(b) <= Room - Len(k) THEN Len(b) ELSE Room - Len(k)
    BY <2>2, <2>3 DEF Written
  <2>6. PICK n \in 0 .. Len(b) :
          n = Written(r) /\ n <= Room - Len(k) /\ (Len(k) < Room /\ b # << >> => n > 0)
    BY <2>4, <2>5
  <2>7. p = [buffer |-> SubSeq(b, n + 1, Len(b)), watching |-> n # Len(b),
             timer |-> IF n = Len(b) THEN "off"
                       ELSE IF r.timer = "off" \/ n > 0 THEN "on" ELSE r.timer,
             socket |-> k \o SubSeq(b, 1, n), sent |-> r.sent]
    BY <1>2, <2>2, <2>3, <2>4, <2>6 DEF Push, ShiftedBy
  <2> HIDE DEF p
  <2>8. /\ k \o SubSeq(b, 1, n) \in Seq(Units)
        /\ Len(k \o SubSeq(b, 1, n)) = Len(k) + n
        /\ SubSeq(b, n + 1, Len(b)) \in Seq(Units)
        /\ (SubSeq(b, n + 1, Len(b)) = << >> <=> n = Len(b))
        /\ (k \o SubSeq(b, 1, n)) \o SubSeq(b, n + 1, Len(b)) = k \o b
    BY Moving
  <2>9. p \in Connections
    BY <2>1, <2>7, <2>8 DEF Connections
  <2>10. Len(p.socket) <= Room
    BY <2>4, <2>6, <2>7, <2>8
  <2>11. p.socket \o p.buffer = r.socket \o r.buffer /\ p.sent = r.sent
    BY <2>2, <2>3, <2>7, <2>8
  <2>12. /\ p.watching = (p.buffer # << >>)
         /\ (p.timer = "off") = (p.buffer = << >>)
         /\ n > 0 => p.timer # "expired"
    BY <2>1, <2>7, <2>8
  <2>13. Len(r.socket) < Room /\ r.buffer # << >> => p.timer # "expired"
    BY <2>2, <2>3, <2>6, <2>12
  <2> QED BY <1>2, <2>9, <2>10, <2>11, <2>12, <2>13 DEF p
<1> QED BY <1>1, <1>2

-----------------------------------------------------------------------------
(***************************************************************************)
(* What QueueIsWatched says of one connection, and of a connection that    *)
(* has it the type.                                                        *)
(***************************************************************************)
Watched(r, broken) ==
  /\ r.watching => r.buffer # << >> /\ r.timer # "off"
  /\ r.buffer # << >> => r.watching \/ broken
  /\ r.timer # "off" => r.watching

Sound(r, broken) ==
  /\ r \in Connections
  /\ Len(r.socket) <= Room
  /\ Watched(r, broken)

LEMMA PushSound ==
  ASSUME NEW r, NEW broken \in BOOLEAN, Sound(r, broken)
  PROVE  Sound(Push(r, broken), broken)
<1>1. r \in Connections /\ Len(r.socket) <= Room
  BY DEF Sound
<1>2. CASE broken
  BY <1>1, <1>2, PushMoves
<1>3. CASE ~broken
  BY <1>1, <1>3, PushMoves DEF Sound, Watched
<1> QED BY <1>2, <1>3

(***************************************************************************)
(* A message is appended to the queue, and the queue is not empty then.    *)
(***************************************************************************)
LEMMA QueuedSound ==
  ASSUME NEW r \in Connections, NEW m \in Messages
  PROVE  /\ Queued(r, m) \in Connections
         /\ Queued(r, m).buffer # << >>
         /\ Queued(r, m).watching = r.watching
         /\ Queued(r, m).timer = r.timer
         /\ Queued(r, m).socket = r.socket
<1>1. /\ r.buffer \in Seq(Units) /\ r.socket \in Seq(Units) /\ r.sent \in Seq(Messages)
      /\ r.timer \in {"off", "on", "expired"} /\ r.watching \in BOOLEAN
  BY DEF Connections
<1>2. PICK b \in Seq(Units) : b = r.buffer
  BY <1>1
<1>3. PICK k \in Nat : k = Len(r.sent) + 1
  BY <1>1, LenProperties
<1>4. Frame(k) \in Seq(Units) /\ Len(Frame(k)) = 2
  BY DEF Frame, Units
<1>5. PICK f \in Seq(Units) : f = Frame(k) /\ Len(f) = 2
  BY <1>4
<1>6. b \o f \in Seq(Units) /\ b \o f # << >>
  <2>1. Len(f) # Len(<< >>)
    BY <1>5, EmptySeq
  <2>2. f # << >>
    BY <2>1, Zenon
  <2> QED BY <2>2, ConcatProperties, ConcatEqualIffEmpty
<1>7. Append(r.sent, m) \in Seq(Messages)
  BY <1>1, AppendProperties
<1>8. Queued(r, m) = [buffer |-> b \o f, watching |-> r.watching,
                      timer |-> r.timer, socket |-> r.socket, sent |-> Append(r.sent, m)]
  BY <1>2, <1>3, <1>5 DEF Queued
<1> QED BY <1>1, <1>6, <1>7, <1>8 DEF Connections

(***************************************************************************)
(* ipc_send_client_message() leaves a sound connection, and one that is    *)
(* watched as it is but for what is queued.                                *)
(***************************************************************************)
LEMMA SendSound ==
  ASSUME NEW r, NEW broken \in BOOLEAN, Sound(r, broken), NEW m \in Messages
  PROVE  /\ Sound(Send(r, m, broken), broken)
         /\ r.watching => /\ Send(r, m, broken).watching
                          /\ Send(r, m, broken).timer = r.timer
                          /\ Send(r, m, broken).socket = r.socket
<1> DEFINE q == Queued(r, m)
<1>1. /\ r \in Connections /\ Len(r.socket) <= Room
      /\ Watched(r, broken)
  BY DEF Sound
<1>2. /\ q \in Connections /\ q.buffer # << >>
      /\ q.watching = r.watching /\ q.timer = r.timer /\ q.socket = r.socket
  BY <1>1, QueuedSound
<1> HIDE DEF q
<1>3. CASE r.buffer = << >> /\ ~broken
  <2>1. Send(r, m, broken) = Push(q, broken)
    BY <1>3 DEF Send, q
  <2>2. Sound(Push(q, broken), broken)
    BY <1>1, <1>2, <1>3, PushMoves DEF Sound, Watched
  <2> QED BY <1>1, <1>3, <2>1, <2>2 DEF Watched
<1>4. CASE r.buffer = << >> /\ broken
  <2>1. Send(r, m, broken) = q
    BY <1>1, <1>2, <1>4, PushMoves DEF Send, q
  <2> QED BY <1>1, <1>2, <1>4, <2>1 DEF Sound, Watched
<1>5. CASE r.buffer # << >>
  <2>1. Send(r, m, broken) = q
    BY <1>5 DEF Send, q
  <2> QED BY <1>1, <1>2, <1>5, <2>1 DEF Sound, Watched
<1> QED BY <1>3, <1>4, <1>5

LEMMA DroppedSound ==
  ASSUME NEW r \in Connections, Len(r.socket) <= Room, NEW broken \in BOOLEAN
  PROVE  /\ Sound(Dropped(r), broken)
         /\ ~Dropped(r).watching /\ Dropped(r).timer = "off" /\ Dropped(r).buffer = << >>
<1>1. << >> \in Seq(Units)
  BY EmptySeq
<1> QED BY <1>1 DEF Dropped, Sound, Watched, Connections

-----------------------------------------------------------------------------
(***************************************************************************)
(* The inductive invariant.  AllSound is QueueIsWatched with the types,    *)
(* Forgotten is FreedIsForgotten.  Due says what else the callbacks that   *)
(* are pending tell: a client whose timer is about to fire left no room in *)
(* its socket, or will be written to first.                                *)
(***************************************************************************)
AllSound ==
  /\ client \in [Clients -> Connections]
  /\ \A c \in Clients : Sound(client[c], c \in hungup)

Forgotten ==
  /\ \A e \in pending : e[2] \in Open
  /\ reading # None => reading[1] \in Open
  /\ \A c \in Clients \ Open :
       ~client[c].watching /\ client[c].timer = "off" /\ client[c].buffer = << >>

Due ==
  \A c \in Clients :
    /\ <<"write", c>> \in pending =>
         client[c].watching /\ (HasRoom(c) \/ c \in hungup)
    /\ <<"timeout", c>> \in pending =>
         /\ client[c].timer = "expired"
         /\ c \in full \cup hungup \/ <<"write", c>> \in pending

Plain ==
  /\ conn \in [Clients -> {"new", "open", "closed"}]
  /\ subs \subseteq Open
  /\ pending \subseteq Watchers
  /\ full \subseteq Clients
  /\ reading \in (Clients \X Types) \cup {None}
  /\ inbox \in [Clients -> Seq(Types \cup {"payload"})]
  /\ owing \subseteq Clients /\ hungup \subseteq Clients
  /\ received \in [Clients -> Seq(Units)]
  /\ asked \in 0 .. MaxRequests
  /\ events \in 0 .. MaxEvents
  /\ ticks \in Nat
  /\ carried \subseteq Clients

\* What i3 read last of c, as far as what comes next depends on it.
Before(c) == IF reading # None /\ reading[1] = c THEN reading[2] ELSE "payload"

\* On its way to i3, a payload follows the header of a request that has one,
\* and nothing else.
Follows(q, before) ==
  \A i \in 1 .. Len(q) :
    q[i] = "payload" <=> (IF i = 1 THEN before ELSE q[i - 1]) \notin {"payload", "query"}

\* The last header still misses its payload.
Owes(q, before) == (IF q = << >> THEN before ELSE q[Len(q)]) \notin {"payload", "query"}

Framed ==
  \A c \in Clients : conn[c] # "closed" =>
    /\ Follows(inbox[c], Before(c))
    /\ c \notin hungup => (c \in owing <=> Owes(inbox[c], Before(c)))

IInv == Plain /\ AllSound /\ Forgotten /\ Due /\ Framed

LEMMA TailFramed ==
  ASSUME NEW q \in Seq(Types \cup {"payload"}), q # << >>,
         NEW before \in Types \cup {"payload"}, Follows(q, before)
  PROVE  /\ Head(q) = q[1] /\ q[1] \in Types \cup {"payload"}
         /\ Tail(q) \in Seq(Types \cup {"payload"})
         /\ q[1] = "payload" <=> before \notin {"payload", "query"}
         /\ Follows(Tail(q), q[1]) /\ (Owes(Tail(q), q[1]) <=> Owes(q, before))
<1>1. /\ Head(q) \in Types \cup {"payload"} /\ Head(q) = q[1]
      /\ Tail(q) \in Seq(Types \cup {"payload"})
      /\ Len(q) \in Nat \ {0} /\ Len(Tail(q)) = Len(q) - 1
      /\ \A i \in 1 .. Len(Tail(q)) : Tail(q)[i] = q[i + 1]
  BY HeadTailProperties, EmptySeq
<1>2. PICK n \in Nat \ {0} : n = Len(q)
  BY <1>1
<1>3. PICK t \in Seq(Types \cup {"payload"}) : t = Tail(q)
  BY <1>1
<1>4. Len(t) = n - 1 /\ \A i \in 1 .. n - 1 : t[i] = q[i + 1]
  BY <1>1, <1>2, <1>3
<1>5. (t = << >>) <=> (n = 1)
  <2>1. t = << >> => Len(t) = 0
    BY EmptySeq
  <2>2. t # << >> => Len(t) > 0
    BY EmptySeq
  <2> QED BY <1>4, <2>1, <2>2
<1>6. \A i \in 1 .. n :
        q[i] = "payload" <=> (IF i = 1 THEN before ELSE q[i - 1]) \notin {"payload", "query"}
  BY <1>2 DEF Follows
<1>7. ASSUME NEW i \in 1 .. n - 1
      PROVE  t[i] = "payload" <=>
               (IF i = 1 THEN q[1] ELSE t[i - 1]) \notin {"payload", "query"}
  <2>1. i + 1 \in 1 .. n /\ i + 1 # 1 /\ (i + 1) - 1 = i
    OBVIOUS
  <2>2. q[i + 1] = "payload" <=> q[i] \notin {"payload", "query"}
    BY <1>6, <2>1
  <2>3. t[i] = q[i + 1] /\ (i # 1 => t[i - 1] = q[i])
    BY <1>4
  <2> QED BY <2>2, <2>3
<1>8. Follows(t, q[1])
  BY <1>4, <1>7 DEF Follows
<1>9. Owes(t, q[1]) <=> Owes(q, before)
  <2>1. CASE n = 1
    BY <1>2, <1>5, <2>1 DEF Owes
  <2>2. CASE n # 1
    <3>1. t # << >> /\ t[n - 1] = q[n]
      BY <1>4, <1>5, <2>2
    <3> QED BY <1>2, <1>4, <3>1 DEF Owes
  <2> QED BY <2>1, <2>2
<1> QED BY <1>1, <1>2, <1>3, <1>6, <1>8, <1>9

LEMMA AppendFramed ==
  ASSUME NEW q \in Seq(Types \cup {"payload"}),
         NEW before \in Types \cup {"payload"}, Follows(q, before),
         NEW e \in Types \cup {"payload"}, e = "payload" <=> Owes(q, before)
  PROVE  /\ Append(q, e) \in Seq(Types \cup {"payload"})
         /\ Follows(Append(q, e), before)
         /\ Owes(Append(q, e), before) <=> e \notin {"payload", "query"}
<1>1. PICK n \in Nat : n = Len(q)
  BY LenProperties
<1>2. PICK t \in Seq(Types \cup {"payload"}) : t = Append(q, e)
  BY AppendProperties
<1>3. Len(t) = n + 1 /\ t[n + 1] = e /\ \A i \in 1 .. n : t[i] = q[i]
  BY <1>1, <1>2, AppendProperties
<1>4. t # << >>
  <2>1. t = << >> => Len(t) = 0
    BY EmptySeq
  <2> QED BY <1>3, <2>1
<1>5. (q = << >>) <=> (n = 0)
  <2>1. q = << >> => Len(q) = 0
    BY EmptySeq
  <2>2. q # << >> => Len(q) > 0
    BY EmptySeq
  <2> QED BY <1>1, <2>1, <2>2
<1>6. \A i \in 1 .. n + 1 :
        t[i] = "payload" <=> (IF i = 1 THEN before ELSE t[i - 1]) \notin {"payload", "query"}
  <2>1. ASSUME NEW i \in 1 .. n
        PROVE  t[i] = "payload" <=>
                 (IF i = 1 THEN before ELSE t[i - 1]) \notin {"payload", "query"}
    <3>1. q[i] = "payload" <=> (IF i = 1 THEN before ELSE q[i - 1]) \notin {"payload", "query"}
      BY <1>1 DEF Follows
    <3> QED BY <1>3, <3>1
  <2>2. e = "payload" <=> (IF n = 0 THEN before ELSE q[n]) \notin {"payload", "query"}
    BY <1>1, <1>5 DEF Owes
  <2>3. e = "payload" <=> (IF n + 1 = 1 THEN before ELSE t[n]) \notin {"payload", "query"}
    BY <1>3, <2>2
  <2> QED BY <1>3, <2>1, <2>3
<1>7. Follows(t, before)
  BY <1>3, <1>6 DEF Follows
<1>8. Owes(t, before) <=> e \notin {"payload", "query"}
  BY <1>3, <1>4 DEF Owes
<1> QED BY <1>2, <1>7, <1>8

LEMMA InitIInv == Init => IInv
<1> SUFFICES ASSUME Init PROVE IInv
  OBVIOUS
<1>1. << >> \in Seq(Units) /\ << >> \in Seq(Messages) /\ << >> \in Seq(Types \cup {"payload"})
      /\ Len(<< >>) = 0
  BY EmptySeq
<1>2. Fresh \in Connections /\ \A broken \in BOOLEAN : Sound(Fresh, broken)
  BY <1>1, IpcAssumption DEF Fresh, Connections, Sound, Watched
<1>3. Plain
  BY <1>1, IpcAssumption DEF Init, Plain, Open
<1>4. AllSound
  BY <1>1, <1>2, IpcAssumption DEF Init, AllSound, Sound, Watched, Fresh
<1>5. Forgotten /\ Due
  BY DEF Init, Forgotten, Due, Fresh
<1>6. Framed
  <2>1. \A c \in Clients : inbox[c] = << >> /\ Before(c) = "payload" /\ owing = {}
    BY DEF Init, Before
  <2> QED BY <1>1, <2>1 DEF Framed, Follows, Owes
<1> QED BY <1>3, <1>4, <1>5, <1>6 DEF IInv

(***************************************************************************)
(* The connections now are sound, those that are closed are as they were,  *)
(* and those that were watched still are, with the same timer and socket.  *)
(***************************************************************************)
Kept(old, now) ==
  /\ now \in [Clients -> Connections]
  /\ \A c \in Clients :
       /\ Sound(now[c], c \in hungup)
       /\ c \notin Open => now[c] = old[c]
       /\ old[c].watching => /\ now[c].watching
                             /\ now[c].timer = old[c].timer
                             /\ now[c].socket = old[c].socket

LEMMA EventKept ==
  ASSUME IInv, NEW m \in Messages
  PROVE  Kept(client, Event(m))
<1>1. \A c \in Clients : Sound(client[c], c \in hungup) /\ client[c] \in Connections
  BY DEF IInv, AllSound
<1>2. ASSUME NEW c \in Clients
      PROVE  /\ Sound(Event(m)[c], c \in hungup)
             /\ c \notin Open => Event(m)[c] = client[c]
             /\ client[c].watching => /\ Event(m)[c].watching
                                      /\ Event(m)[c].timer = client[c].timer
                                      /\ Event(m)[c].socket = client[c].socket
  <2>1. CASE c \in subs
    <3>1. Event(m)[c] = Send(client[c], m, c \in hungup) /\ c \in Open
      BY <2>1 DEF Event, IInv, Plain
    <3>2. (c \in hungup) \in BOOLEAN
      OBVIOUS
    <3>3. /\ Sound(Send(client[c], m, c \in hungup), c \in hungup)
          /\ client[c].watching =>
               /\ Send(client[c], m, c \in hungup).watching
               /\ Send(client[c], m, c \in hungup).timer = client[c].timer
               /\ Send(client[c], m, c \in hungup).socket = client[c].socket
      BY <1>1, <3>2, SendSound
    <3> QED BY <3>1, <3>3
  <2>2. CASE c \notin subs
    BY <1>1, <2>2 DEF Event
  <2> QED BY <2>1, <2>2
<1>3. Event(m) \in [Clients -> Connections]
  <2>1. \A c \in Clients : Event(m)[c] \in Connections
    BY <1>2 DEF Sound
  <2> QED BY <2>1 DEF Event
<1> QED BY <1>2, <1>3 DEF Kept

LEMMA AnsweredKept ==
  ASSUME NEW old, NEW now, Kept(old, now), NEW c \in Open, NEW m \in Messages
  PROVE  Kept(old, Answered(now, c, m))
<1> DEFINE sent == Send(now[c], m, c \in hungup)
           new == Answered(now, c, m)
<1>1. c \in Clients /\ Sound(now[c], c \in hungup) /\ now \in [Clients -> Connections]
  BY DEF Kept, Open
<1>2. (c \in hungup) \in BOOLEAN
  OBVIOUS
<1>3. /\ Sound(sent, c \in hungup)
      /\ now[c].watching => /\ sent.watching /\ sent.timer = now[c].timer
                            /\ sent.socket = now[c].socket
  BY <1>1, <1>2, SendSound
<1>4. new = [now EXCEPT ![c] = sent]
  BY DEF Answered
<1> HIDE DEF sent, new
<1>5. new \in [Clients -> Connections]
  BY <1>1, <1>3, <1>4 DEF Sound
<1>6. new[c] = sent /\ \A d \in Clients \ {c} : new[d] = now[d]
  BY <1>1, <1>4
<1>7. ASSUME NEW d \in Clients
      PROVE  /\ Sound(new[d], d \in hungup)
             /\ d \notin Open => new[d] = old[d]
             /\ old[d].watching => /\ new[d].watching
                                   /\ new[d].timer = old[d].timer
                                   /\ new[d].socket = old[d].socket
  BY <1>3, <1>6 DEF Kept
<1> QED BY <1>5, <1>7 DEF Kept, new

(***************************************************************************)
(* A handler that only sends: what is still pending stays due.             *)
(***************************************************************************)
LEMMA KeptStep ==
  ASSUME IInv, Kept(client, client'), pending' = StillPending(pending, client'),
         conn' = conn, full' = full, hungup' = hungup, reading' = None
  PROVE  AllSound' /\ Forgotten' /\ Due'
<1>1. AllSound'
  BY DEF Kept, AllSound
<1>2. Open' = Open
  BY DEF Open
<1>3. pending' \subseteq pending
  BY DEF StillPending
<1>4. Forgotten'
  BY <1>2, <1>3 DEF Forgotten, IInv, Kept
<1>5. ASSUME NEW c \in Clients, <<"write", c>> \in pending'
      PROVE  client'[c].watching /\ (HasRoom(c)' \/ c \in hungup')
  <2>1. client[c].watching /\ (HasRoom(c) \/ c \in hungup)
    BY <1>3, <1>5 DEF IInv, Due
  <2> QED BY <2>1 DEF Kept, HasRoom
<1>6. ASSUME NEW c \in Clients, <<"timeout", c>> \in pending'
      PROVE  /\ client'[c].timer = "expired"
             /\ c \in full' \cup hungup' \/ <<"write", c>> \in pending'
  <2>1. c \in full \cup hungup \/ <<"write", c>> \in pending
    BY <1>3, <1>6 DEF IInv, Due
  <2>2. client'[c].timer = "expired"
    BY <1>6 DEF StillPending
  <2>3. ASSUME <<"write", c>> \in pending
        PROVE  <<"write", c>> \in pending'
    BY <2>3 DEF IInv, Due, Kept, StillPending
  <2> QED BY <2>1, <2>2, <2>3
<1>7. Due'
  BY <1>5, <1>6 DEF Due
<1> QED BY <1>1, <1>4, <1>7

(***************************************************************************)
(* free_ipc_client() forgets a connection, its watchers and its callbacks. *)
(***************************************************************************)
LEMMA FreeStep ==
  ASSUME IInv, NEW c \in Clients, Free(c), reading # None => reading[1] = c
  PROVE  IInv'
<1> USE DEF Free, Freed
<1>1. /\ client' = [client EXCEPT ![c] = Dropped(client[c])]
      /\ pending' = {e \in pending : e[2] # c}
      /\ hungup' = hungup /\ full' = full /\ reading' = None
      /\ client \in [Clients -> Connections]
  BY DEF peers, IInv, AllSound
<1>2. \A broken \in BOOLEAN : Sound(Dropped(client[c]), broken)
  BY DroppedSound DEF IInv, AllSound, Sound
<1>3. /\ ~Dropped(client[c]).watching /\ Dropped(client[c]).timer = "off"
      /\ Dropped(client[c]).buffer = << >>
  BY DroppedSound DEF IInv, AllSound, Sound
<1>4. Dropped(client[c]) \in Connections /\ Sound(Dropped(client[c]), c \in hungup)
  BY <1>2 DEF Sound, Watched
<1>5. AllSound'
  BY <1>1, <1>4 DEF IInv, AllSound
<1>6. Open' = Open \ {c}
  BY DEF Open, IInv, Plain
<1>7. Forgotten'
  BY <1>1, <1>3, <1>6 DEF Forgotten, IInv
<1>8. \A d \in Clients \ {c} : client'[d] = client[d]
  BY <1>1
<1>9. Due'
  BY <1>1, <1>8 DEF Due, IInv, HasRoom
<1>10. Plain'
  <2>1. << >> \in Seq(Types \cup {"payload"})
    BY EmptySeq
  <2> QED BY <2>1, <1>6 DEF Plain, IInv, peers, Open
<1>11. Framed'
  <2>1. \A d \in Clients : conn'[d] # "closed" =>
          d # c /\ conn[d] # "closed" /\ inbox'[d] = inbox[d]
    BY DEF IInv, Plain
  <2>2. \A d \in Clients \ {c} : Before(d)' = Before(d)
    BY DEF Before
  <2>3. owing' = owing
    BY DEF peers
  <2> QED BY <1>1, <2>1, <2>2, <2>3 DEF Framed, IInv
<1> QED BY <1>5, <1>7, <1>9, <1>10, <1>11 DEF IInv

(***************************************************************************)
(* A request is handled with its payload, and the next thing is a header.  *)
(***************************************************************************)
LEMMA CompleteStep ==
  ASSUME IInv, NEW c \in Clients, NEW type \in Types, Complete(c, type),
         hungup' = hungup, owing' = owing,
         \A d \in Clients : conn'[d] # "closed" => conn[d] # "closed"
  PROVE  /\ Framed' /\ reading' = None /\ c \in Open
         /\ inbox' \in [Clients -> Seq(Types \cup {"payload"})]
<1>1. reading = <<c, type>> /\ reading # None /\ reading' = None
  BY IpcAssumption DEF Complete
<1>2. c \in Open /\ conn[c] # "closed" /\ inbox \in [Clients -> Seq(Types \cup {"payload"})]
  BY <1>1 DEF IInv, Forgotten, Open, Plain
<1>3. Before(c) = type /\ Before(c)' = "payload" /\ \A d \in Clients \ {c} : Before(d)' = Before(d)
  BY <1>1 DEF Before
<1>4. PICK q \in Seq(Types \cup {"payload"}) : q = inbox[c]
  BY <1>2
<1>5. Follows(q, type) /\ (c \notin hungup => (c \in owing <=> Owes(q, type)))
  BY <1>2, <1>3, <1>4 DEF IInv, Framed
<1>6. CASE type = "query"
  <2>1. inbox' = inbox
    BY <1>6 DEF Complete
  <2>2. Follows(q, "payload") /\ (Owes(q, "payload") <=> Owes(q, "query"))
    BY <1>5, <1>6 DEF Follows, Owes
  <2>3. Framed'
    BY <1>3, <1>4, <1>5, <1>6, <2>1, <2>2 DEF IInv, Framed
  <2> QED BY <1>1, <1>2, <2>1, <2>3
<1>7. CASE type # "query"
  <2>1. q # << >> /\ inbox' = [inbox EXCEPT ![c] = Tail(q)]
    BY <1>4, <1>7 DEF Complete
  <2>2. /\ q[1] = "payload" /\ Tail(q) \in Seq(Types \cup {"payload"})
        /\ Follows(Tail(q), q[1]) /\ (Owes(Tail(q), q[1]) <=> Owes(q, type))
    <3>1. type \notin {"payload", "query"}
      BY <1>7 DEF Types
    <3> QED BY <1>5, <2>1, <3>1, TailFramed
  <2>3. inbox'[c] = Tail(q) /\ \A d \in Clients \ {c} : inbox'[d] = inbox[d]
    BY <1>2, <2>1
  <2>4. Framed'
    BY <1>3, <1>5, <2>2, <2>3 DEF IInv, Framed
  <2> QED BY <1>1, <1>2, <2>1, <2>2, <2>4
<1> QED BY <1>6, <1>7

LEMMA LoopStep ==
  ASSUME IInv, Loop
  PROVE  IInv'
<1>1. CASE Poll
  <2>1. AllSound'
    BY <1>1 DEF Poll, IInv, AllSound, peers
  <2>2. Forgotten'
    BY <1>1 DEF Poll, IInv, Forgotten, Ready, Open
  <2>3. Plain'
    BY <1>1 DEF Poll, IInv, Plain, Ready, Open, peers, Watchers
  <2>4. ASSUME NEW c \in Clients, <<"write", c>> \in pending'
        PROVE  client'[c].watching /\ (HasRoom(c)' \/ c \in hungup')
    BY <1>1, <2>4 DEF Poll, Ready, HasRoom, peers
  <2>5. ASSUME NEW c \in Clients, <<"timeout", c>> \in pending'
        PROVE  /\ client'[c].timer = "expired"
               /\ c \in full' \cup hungup' \/ <<"write", c>> \in pending'
    <3>1. client[c].timer = "expired" /\ c \in Open /\ client' = client /\ hungup' = hungup
      BY <1>1, <2>5 DEF Poll, Ready, peers
    <3>2. client[c].watching
      BY <3>1 DEF IInv, AllSound, Sound, Watched
    <3>3. HasRoom(c) => <<"write", c>> \in pending'
      BY <1>1, <3>1, <3>2 DEF Poll, Ready, Watchers
    <3>4. ~HasRoom(c) => c \in full'
      BY <1>1 DEF Poll
    <3> QED BY <3>1, <3>3, <3>4
  <2>6. Framed'
    BY <1>1 DEF Poll, IInv, Framed, Before, Open, peers
  <2> QED BY <2>1, <2>2, <2>3, <2>4, <2>5, <2>6 DEF IInv, Due
<1>2. CASE Broadcast
  <2> DEFINE m == [kind |-> "event", tick |-> 0]
  <2>1. m \in Messages
    BY DEF Messages
  <2>2. Kept(client, client')
    BY <1>2, <2>1, EventKept DEF Broadcast
  <2>3. /\ pending = {} /\ reading = None /\ pending' = pending /\ reading' = reading
        /\ conn' = conn /\ full' = full /\ hungup' = hungup
    BY <1>2 DEF Broadcast, Waiting, peers
  <2>4. pending' = StillPending(pending, client')
    BY <2>3 DEF StillPending
  <2>5. AllSound' /\ Forgotten' /\ Due'
    BY <2>2, <2>3, <2>4, KeptStep
  <2>6. Plain'
    BY <1>2, IpcAssumption DEF Broadcast, IInv, Plain, Open, peers
  <2>7. Framed'
    BY <1>2 DEF Broadcast, IInv, Framed, Before, Open, peers
  <2> QED BY <2>5, <2>6, <2>7 DEF IInv
<1>3. ASSUME NEW c \in Clients, NewClient(c)
      PROVE  IInv'
  <2>1. Open' = Open \cup {c}
    BY <1>3 DEF NewClient, Open, IInv, Plain
  <2>2. Plain' /\ AllSound' /\ Forgotten' /\ Due'
    BY <1>3, <2>1 DEF NewClient, IInv, Plain, AllSound, Forgotten, Due, HasRoom, peers
  <2>3. Framed'
    BY <1>3, <2>1 DEF NewClient, IInv, Framed, Before, Open, peers
  <2> QED BY <2>2, <2>3 DEF IInv
<1>4. ASSUME NEW c \in Clients, ReadHeader(c)
      PROVE  IInv'
  <2>1. /\ client' = client /\ conn' = conn /\ hungup' = hungup /\ full' = full
        /\ Open' = Open /\ pending' = pending \ {<<"read", c>>} /\ c \in Open
        /\ reading = None /\ owing' = owing /\ inbox \in [Clients -> Seq(Types \cup {"payload"})]
    BY <1>4 DEF ReadHeader, peers, Open, IInv, Forgotten, Plain
  <2>2. PICK q \in Seq(Types \cup {"payload"}) : q = inbox[c]
    BY <2>1
  <2>3. /\ q # << >> /\ inbox' = [inbox EXCEPT ![c] = Tail(q)]
        /\ reading' = <<c, Head(q)>> /\ Follows(q, "payload")
        /\ c \notin hungup => (c \in owing <=> Owes(q, "payload"))
    <3>1. Before(c) = "payload"
      BY <2>1 DEF Before
    <3>2. conn[c] # "closed"
      BY <2>1 DEF Open
    <3> QED BY <1>4, <2>1, <2>2, <3>1, <3>2 DEF ReadHeader, IInv, Framed
  <2>4. /\ Head(q) \in Types /\ q[1] = Head(q) /\ Tail(q) \in Seq(Types \cup {"payload"})
        /\ Follows(Tail(q), q[1]) /\ (Owes(Tail(q), q[1]) <=> Owes(q, "payload"))
    BY <2>3, TailFramed
  <2>5. reading' # None /\ Before(c)' = q[1]
    BY <2>3, <2>4, IpcAssumption DEF Before
  <2>6. Framed'
    <3>1. \A d \in Clients \ {c} : inbox'[d] = inbox[d] /\ Before(d)' = Before(d)
      BY <2>1, <2>3 DEF Before
    <3>2. inbox'[c] = Tail(q)
      BY <2>1, <2>3
    <3> QED BY <2>1, <2>3, <2>4, <2>5, <3>1, <3>2 DEF IInv, Framed
  <2>7. AllSound' /\ Due'
    BY <2>1 DEF IInv, AllSound, Due, HasRoom
  <2>8. Forgotten'
    BY <2>1, <2>3 DEF IInv, Forgotten
  <2>9. Plain'
    BY <1>4, <2>1, <2>3, <2>4 DEF ReadHeader, IInv, Plain, peers
  <2> QED BY <2>6, <2>7, <2>8, <2>9 DEF IInv
<1>5. ASSUME NEW c \in Clients, ReadEnd(c)
      PROVE  IInv'
  BY <1>5, FreeStep DEF ReadEnd
<1>6. ASSUME NEW c \in Clients, Timeout(c)
      PROVE  IInv'
  BY <1>6, FreeStep DEF Timeout
<1>7. ASSUME NEW c \in Clients, Writeable(c)
      PROVE  IInv'
  <2> DEFINE r == client[c]
             p == Push(r, c \in hungup)
  <2>1. /\ client' = [client EXCEPT ![c] = p] /\ client \in [Clients -> Connections]
        /\ pending' = StillPending(pending \ {<<"write", c>>}, client')
        /\ conn' = conn /\ full' = full /\ hungup' = hungup /\ reading' = reading
        /\ <<"write", c>> \in pending /\ Open' = Open
    BY <1>7 DEF Writeable, peers, Open, IInv, AllSound
  <2>2. Sound(r, c \in hungup) /\ (c \in hungup) \in BOOLEAN
    BY DEF IInv, AllSound
  <2>3. Sound(p, c \in hungup)
    BY <2>2, PushSound
  <2>4. /\ client'[c] = p /\ p \in Connections
        /\ \A d \in Clients \ {c} : client'[d] = client[d]
    BY <2>1, <2>3 DEF Sound
  <2>5. c \in Open
    BY <2>1 DEF IInv, Forgotten
  <2>6. pending' \subseteq pending \ {<<"write", c>>}
    BY <2>1 DEF StillPending
  <2>7. AllSound'
    BY <2>1, <2>3, <2>4 DEF IInv, AllSound
  <2>8. Forgotten'
    BY <2>1, <2>4, <2>5, <2>6 DEF IInv, Forgotten
  <2>9. r.watching /\ (HasRoom(c) \/ c \in hungup)
    BY <2>1 DEF IInv, Due
  <2>10. c \notin hungup => p.timer # "expired"
    <3>1. r.buffer # << >> /\ r \in Connections /\ Len(r.socket) <= Room
      BY <2>2, <2>9 DEF Sound, Watched
    <3>2. c \notin hungup => Len(r.socket) < Room
      BY <2>9 DEF HasRoom
    <3>3. ~(c \in hungup) =>
            (Len(r.socket) < Room /\ r.buffer # << >> => p.timer # "expired")
      BY <2>2, <3>1, PushMoves
    <3> QED BY <3>1, <3>2, <3>3
  <2>11. Due'
    <3>1. ASSUME NEW d \in Clients \ {c}
          PROVE  /\ <<"write", d>> \in pending' =>
                      client'[d].watching /\ (HasRoom(d)' \/ d \in hungup')
                 /\ <<"timeout", d>> \in pending' =>
                      /\ client'[d].timer = "expired"
                      /\ d \in full' \cup hungup' \/ <<"write", d>> \in pending'
      <4>1. HasRoom(d)' = HasRoom(d)
        BY <2>4 DEF HasRoom
      <4>2. <<"write", d>> \in pending => <<"write", d>> \in pending'
        BY <2>1, <2>4 DEF IInv, Due, StillPending
      <4> QED BY <2>1, <2>4, <2>6, <4>1, <4>2 DEF IInv, Due
    <3>2. <<"write", c>> \notin pending'
      BY <2>6
    <3>3. <<"timeout", c>> \in pending' => p.timer = "expired"
      BY <2>1, <2>4 DEF StillPending
    <3> QED BY <2>1, <2>4, <2>10, <3>1, <3>2, <3>3 DEF Due
  <2>12. Plain'
    BY <1>7, <2>1, <2>6 DEF Writeable, IInv, Plain, peers
  <2>13. Framed'
    BY <1>7, <2>1 DEF Writeable, IInv, Framed, Before, peers
  <2> QED BY <2>7, <2>8, <2>11, <2>12, <2>13 DEF IInv
<1>8. Reply \in Messages /\ \A n \in Nat : /\ Tick(n) \in Messages
                                           /\ [kind |-> "reply", tick |-> n] \in Messages
  BY DEF Reply, Tick, Messages
<1>9. Kept(client, client)
  BY DEF IInv, AllSound, Kept
<1>10. ASSUME NEW c \in Clients, Query(c)
       PROVE  IInv'
  <2>1. Framed' /\ reading' = None /\ c \in Open
        /\ inbox' \in [Clients -> Seq(Types \cup {"payload"})]
    BY <1>10, CompleteStep DEF Query, Types, peers
  <2>2. Kept(client, client')
    BY <1>8, <1>9, <1>10, <2>1, AnsweredKept DEF Query
  <2>3. AllSound' /\ Forgotten' /\ Due'
    BY <1>10, <2>1, <2>2, KeptStep DEF Query, peers
  <2>4. Plain'
    BY <1>10, <2>1 DEF Query, IInv, Plain, Open, peers, StillPending
  <2> QED BY <2>1, <2>3, <2>4 DEF IInv
<1>11. ASSUME NEW c \in Clients, Subscribe(c)
       PROVE  IInv'
  <2>1. Framed' /\ reading' = None /\ c \in Open
        /\ inbox' \in [Clients -> Seq(Types \cup {"payload"})]
    BY <1>11, CompleteStep DEF Subscribe, Types, peers
  <2>2. Kept(client, client')
    <3>1. Kept(client, Answered(client, c, Reply))
      BY <1>8, <1>9, <2>1, AnsweredKept
    <3>2. Kept(client, Answered(Answered(client, c, Reply), c, Tick(0)))
      BY <1>8, <2>1, <3>1, AnsweredKept
    <3> QED BY <1>11, <3>1, <3>2 DEF Subscribe
  <2>3. AllSound' /\ Forgotten' /\ Due'
    BY <1>11, <2>1, <2>2, KeptStep DEF Subscribe, peers
  <2>4. Plain'
    BY <1>11, <2>1 DEF Subscribe, IInv, Plain, Open, peers, StillPending
  <2> QED BY <2>1, <2>3, <2>4 DEF IInv
<1>12. ASSUME NEW c \in Clients, SendTick(c)
       PROVE  IInv'
  <2>1. Framed' /\ reading' = None /\ c \in Open
        /\ inbox' \in [Clients -> Seq(Types \cup {"payload"})]
    BY <1>12, CompleteStep DEF SendTick, Types, peers
  <2>2. ticks \in Nat /\ ticks' = ticks + 1 /\ ticks' \in Nat
    BY <1>12 DEF SendTick, IInv, Plain
  <2>3. Kept(client, client')
    <3>1. Kept(client, Event(Tick(ticks')))
      BY <1>8, <2>2, EventKept
    <3>2. Kept(client, Answered(Event(Tick(ticks')), c, [kind |-> "reply", tick |-> ticks']))
      BY <1>8, <2>1, <2>2, <3>1, AnsweredKept
    <3> QED BY <1>12, <3>2 DEF SendTick
  <2>4. AllSound' /\ Forgotten' /\ Due'
    BY <1>12, <2>1, <2>3, KeptStep DEF SendTick, peers
  <2>5. Plain'
    BY <1>12, <2>1, <2>2 DEF SendTick, IInv, Plain, Open, peers, StillPending
  <2> QED BY <2>1, <2>4, <2>5 DEF IInv
<1>13. ASSUME NEW c \in Clients, Restart(c)
       PROVE  IInv'
  <2> DEFINE told == Event([kind |-> "event", tick |-> 0])
             s == Confirmed(told[c], c \in hungup)
  <2>1. Framed' /\ reading' = None /\ c \in Open
        /\ inbox' \in [Clients -> Seq(Types \cup {"payload"})]
    BY <1>13, CompleteStep DEF Restart, Types, peers, IInv, Plain
  <2>2. [kind |-> "event", tick |-> 0] \in Messages
    BY DEF Messages
  <2>3. \A d \in Clients : Sound(told[d], d \in hungup)
    BY <2>2, EventKept DEF Kept
  <2> HIDE DEF told
  <2>4. \A d \in Clients : /\ Sound(Dropped(told[d]), d \in hungup)
                           /\ ~Dropped(told[d]).watching /\ Dropped(told[d]).timer = "off"
                           /\ Dropped(told[d]).buffer = << >>
    <3> SUFFICES ASSUME NEW d \in Clients
                 PROVE  /\ Sound(Dropped(told[d]), d \in hungup)
                        /\ ~Dropped(told[d]).watching /\ Dropped(told[d]).timer = "off"
                        /\ Dropped(told[d]).buffer = << >>
      OBVIOUS
    <3>1. (d \in hungup) \in BOOLEAN /\ told[d] \in Connections /\ Len(told[d].socket) <= Room
      BY <2>3 DEF Sound
    <3> QED BY <3>1, DroppedSound
  <2>5. Sound(s, c \in hungup)
    <3>1. (c \in hungup) \in BOOLEAN
      OBVIOUS
    <3>2. Sound(Send(Dropped(told[c]), Reply, c \in hungup), c \in hungup)
      BY <1>8, <2>4, <3>1, SendSound
    <3> QED BY <3>1, <3>2, PushSound DEF Confirmed
  <2> HIDE DEF s
  <2>6. /\ client' = [d \in Clients |-> IF d = c THEN s ELSE Dropped(told[d])]
        /\ pending' = {} /\ hungup' = hungup
    BY <1>13 DEF Restart, told, s, peers
  <2>7. \A d \in Clients : Sound(client'[d], d \in hungup) /\ client'[d] \in Connections
    BY <2>4, <2>5, <2>6 DEF Sound
  <2>8. AllSound'
    BY <2>6, <2>7 DEF AllSound
  <2>9. c \in Open'
    BY <1>13, <2>1 DEF Restart, Open
  <2>10. Forgotten' /\ Due'
    BY <2>1, <2>4, <2>6, <2>9 DEF Forgotten, Due
  <2>11. Plain'
    BY <1>13, <2>1 DEF Restart, IInv, Plain, Open, peers
  <2> QED BY <2>1, <2>8, <2>10, <2>11 DEF IInv
<1> QED BY <1>1, <1>2, <1>3, <1>4, <1>5, <1>6, <1>7, <1>10, <1>11, <1>12, <1>13 DEF Loop

(***************************************************************************)
(* Time and the clients.                                                   *)
(***************************************************************************)
LEMMA ElapseStep ==
  ASSUME IInv, NEW c \in Clients, Elapse(c)
  PROVE  IInv'
<1> DEFINE r == client[c]
           p == [r EXCEPT !.timer = "expired"]
<1>1. /\ client' = [client EXCEPT ![c] = p] /\ r \in Connections /\ r.timer = "on"
      /\ conn' = conn /\ pending' = pending /\ full' = full /\ reading' = reading
      /\ hungup' = hungup /\ client \in [Clients -> Connections]
  BY DEF Elapse, IInv, AllSound, peers
<1>2. /\ p \in Connections /\ p.buffer = r.buffer /\ p.watching = r.watching
      /\ p.socket = r.socket /\ p.timer = "expired"
  BY <1>1 DEF Connections
<1> HIDE DEF p
<1>3. client'[c] = p /\ \A d \in Clients \ {c} : client'[d] = client[d]
  BY <1>1
<1>4. Sound(r, c \in hungup)
  BY DEF IInv, AllSound
<1>5. Sound(p, c \in hungup)
  BY <1>1, <1>2, <1>4 DEF Sound, Watched
<1>6. AllSound'
  BY <1>1, <1>2, <1>3, <1>5 DEF IInv, AllSound
<1>7. Forgotten'
  BY <1>1, <1>3 DEF IInv, Forgotten, Open
<1>8. Due'
  BY <1>1, <1>2, <1>3 DEF IInv, Due, HasRoom
<1>9. Plain' /\ Framed'
  BY DEF Elapse, IInv, Plain, Framed, Before, Open, peers
<1> QED BY <1>6, <1>7, <1>8, <1>9 DEF IInv

LEMMA ReceiveStep ==
  ASSUME IInv, NEW c \in Clients, Receive(c)
  PROVE  IInv'
<1> DEFINE r == client[c]
           p == [r EXCEPT !.socket = Tail(r.socket)]
<1>1. /\ client' = [client EXCEPT ![c] = p] /\ r \in Connections /\ r.socket # << >>
      /\ conn' = conn /\ pending' = pending /\ full' = full /\ reading' = reading
      /\ hungup' = hungup /\ client \in [Clients -> Connections]
  BY DEF Receive, IInv, AllSound
<1>2. r.socket \in Seq(Units)
  BY <1>1 DEF Connections
<1>3. PICK k \in Seq(Units) : k = r.socket
  BY <1>2
<1>4. /\ Tail(k) \in Seq(Units) /\ Head(k) \in Units
      /\ Len(Tail(k)) = Len(k) - 1 /\ Len(k) \in Nat
  BY <1>1, <1>3, HeadTailProperties, EmptySeq
<1>5. /\ p \in Connections /\ p.buffer = r.buffer /\ p.watching = r.watching
      /\ p.socket = Tail(k) /\ p.timer = r.timer
  BY <1>1, <1>3, <1>4 DEF Connections
<1> HIDE DEF p
<1>6. client'[c] = p /\ \A d \in Clients \ {c} : client'[d] = client[d]
  BY <1>1
<1>7. Sound(r, c \in hungup)
  BY DEF IInv, AllSound
<1>8. Room \in Nat /\ Len(k) <= Room
  BY <1>3, <1>7, IpcAssumption DEF Sound
<1>9. Len(p.socket) < Room
  BY <1>4, <1>5, <1>8
<1>10. Sound(p, c \in hungup)
  BY <1>5, <1>7, <1>4, <1>8 DEF Sound, Watched
<1>11. AllSound'
  BY <1>1, <1>5, <1>6, <1>10 DEF IInv, AllSound
<1>12. Forgotten'
  BY <1>1, <1>5, <1>6 DEF IInv, Forgotten, Open
<1>13. Due'
  BY <1>1, <1>5, <1>6, <1>9 DEF IInv, Due, HasRoom
<1>14. Append(received[c], Head(k)) \in Seq(Units)
  BY <1>4, AppendProperties DEF IInv, Plain
<1>15. received' = [received EXCEPT ![c] = Append(received[c], Head(k))]
  BY <1>3 DEF Receive
<1>16. Plain' /\ Framed'
  BY <1>14, <1>15 DEF Receive, IInv, Plain, Framed, Before, Open
<1> QED BY <1>11, <1>12, <1>13, <1>16 DEF IInv

LEMMA SendHeaderStep ==
  ASSUME IInv, NEW c \in Clients, NEW type \in Requests, SendHeader(c, type)
  PROVE  IInv'
<1>1. type \in Types \cup {"payload"} /\ type # "payload"
  BY IpcAssumption DEF Types
<1>2. inbox \in [Clients -> Seq(Types \cup {"payload"})]
  BY DEF IInv, Plain
<1>3. PICK q \in Seq(Types \cup {"payload"}) : q = inbox[c]
  BY <1>2
<1>4. Before(c) \in Types \cup {"payload"} /\ \A d \in Clients : Before(d)' = Before(d)
  BY DEF Before, IInv, Plain, SendHeader, server
<1>5. Follows(q, Before(c)) /\ ~Owes(q, Before(c))
  BY <1>3 DEF SendHeader, IInv, Framed
<1>6. /\ Append(q, type) \in Seq(Types \cup {"payload"})
      /\ Follows(Append(q, type), Before(c))
      /\ Owes(Append(q, type), Before(c)) <=> type \notin {"payload", "query"}
  BY <1>1, <1>4, <1>5, AppendFramed
<1>7. inbox'[c] = Append(q, type) /\ \A d \in Clients \ {c} : inbox'[d] = inbox[d]
  BY <1>2, <1>3 DEF SendHeader
<1>8. inbox' \in [Clients -> Seq(Types \cup {"payload"})]
  BY <1>2, <1>3, <1>6 DEF SendHeader
<1>9. c \in owing' <=> type # "query"
  BY DEF SendHeader
<1>10. Framed'
  BY <1>1, <1>4, <1>6, <1>7, <1>9 DEF IInv, Framed, SendHeader, server
<1>11. Plain'
  BY <1>8, IpcAssumption DEF SendHeader, IInv, Plain, Open, server
<1>12. AllSound' /\ Forgotten' /\ Due'
  BY DEF SendHeader, IInv, AllSound, Forgotten, Due, HasRoom, Open, server
<1> QED BY <1>10, <1>11, <1>12 DEF IInv

LEMMA SendPayloadStep ==
  ASSUME IInv, NEW c \in Clients, SendPayload(c)
  PROVE  IInv'
<1>1. inbox \in [Clients -> Seq(Types \cup {"payload"})]
  BY DEF IInv, Plain
<1>2. PICK q \in Seq(Types \cup {"payload"}) : q = inbox[c]
  BY <1>1
<1>3. Before(c) \in Types \cup {"payload"} /\ \A d \in Clients : Before(d)' = Before(d)
  BY DEF Before, IInv, Plain, SendPayload, server
<1>4. /\ Append(q, "payload") \in Seq(Types \cup {"payload"})
      /\ conn[c] # "closed" =>
           /\ Follows(Append(q, "payload"), Before(c))
           /\ ~Owes(Append(q, "payload"), Before(c))
  <2>1. Append(q, "payload") \in Seq(Types \cup {"payload"})
    BY AppendProperties
  <2>2. CASE conn[c] # "closed"
    <3>1. Follows(q, Before(c)) /\ Owes(q, Before(c))
      BY <1>2, <2>2 DEF SendPayload, IInv, Framed
    <3> QED BY <1>3, <3>1, AppendFramed
  <2> QED BY <2>1, <2>2
<1>5. inbox'[c] = Append(q, "payload") /\ \A d \in Clients \ {c} : inbox'[d] = inbox[d]
  BY <1>1, <1>2 DEF SendPayload
<1>6. inbox' \in [Clients -> Seq(Types \cup {"payload"})]
  BY <1>1, <1>2, <1>4 DEF SendPayload
<1>7. Framed'
  BY <1>3, <1>4, <1>5 DEF IInv, Framed, SendPayload, server
<1>8. Plain'
  BY <1>6 DEF SendPayload, IInv, Plain, Open, server
<1>9. AllSound' /\ Forgotten' /\ Due'
  BY DEF SendPayload, IInv, AllSound, Forgotten, Due, HasRoom, Open, server
<1> QED BY <1>7, <1>8, <1>9 DEF IInv

LEMMA HangUpStep ==
  ASSUME IInv, NEW c \in Clients, HangUp(c)
  PROVE  IInv'
<1>1. hungup' = hungup \cup {c} /\ UNCHANGED <<server, inbox, owing, received, asked, events>>
  BY DEF HangUp
<1>2. \A d \in Clients : Sound(client'[d], d \in hungup')
  BY <1>1 DEF IInv, AllSound, Sound, Watched, server
<1>3. AllSound'
  BY <1>1, <1>2 DEF IInv, AllSound, server
<1>4. Plain' /\ Forgotten' /\ Due'
  BY <1>1 DEF IInv, Plain, Forgotten, Due, HasRoom, Open, server
<1>5. Framed'
  BY <1>1 DEF IInv, Framed, Before, server
<1> QED BY <1>3, <1>4, <1>5 DEF IInv

-----------------------------------------------------------------------------
LEMMA Inductive == IInv /\ [Next]_vars => IInv'
<1> SUFFICES ASSUME IInv, [Next]_vars
             PROVE  IInv'
  OBVIOUS
<1>1. CASE Loop
  BY <1>1, LoopStep
<1>2. ASSUME NEW c \in Clients, Elapse(c)
      PROVE  IInv'
  BY <1>2, ElapseStep
<1>3. ASSUME NEW c \in Clients, Client(c)
      PROVE  IInv'
  BY <1>3, SendHeaderStep, SendPayloadStep, ReceiveStep, HangUpStep DEF Client
<1>4. CASE UNCHANGED vars
  BY <1>4 DEF vars, server, peers, IInv, Plain, AllSound, Forgotten, Due, Framed,
              Open, HasRoom, Before
<1> QED BY <1>1, <1>2, <1>3, <1>4 DEF Next

LEMMA Always == Spec => []IInv
BY InitIInv, Inductive, PTL DEF Spec

(***************************************************************************)
(* The type invariant; among the rest, that the stream of a client is read *)
(* in step: a payload is never taken for the header of a request.          *)
(***************************************************************************)
THEOREM TypeCorrect == Spec => []TypeOK
<1>1. IInv => TypeOK
  BY DEF IInv, Plain, AllSound, Sound, TypeOK
<1> QED BY <1>1, Always, PTL

(***************************************************************************)
(* Bytes are queued for a client exactly while i3 watches for its socket   *)
(* to become writable, with a timer running, and no callback is ever       *)
(* called for a connection that was freed, whatever order callbacks,       *)
(* requests, events and restarts come in.                                  *)
(***************************************************************************)
THEOREM CallbacksAlwaysFollow == Spec => []CallbacksFollow
<1>1. IInv => QueueIsWatched
  BY DEF IInv, AllSound, Sound, Watched, QueueIsWatched, Open
<1>2. IInv => FreedIsForgotten
  BY DEF IInv, Forgotten, FreedIsForgotten
<1>3. IInv => CallbacksFollow
  BY <1>1, <1>2 DEF CallbacksFollow
<1> QED BY <1>3, Always, PTL

(***************************************************************************)
(* i3 disconnects by the timer only clients that left no room in their     *)
(* socket when the loop last looked, or that had hung up: Due with the low *)
(* priority of timers, by which no client is about to be written to.       *)
(***************************************************************************)
THEOREM NobodyElseTimesOut == Spec => OnlyStuckTimesOut
<1>1. IInv /\ [Next]_vars => [\A c \in Clients : Timeout(c) => c \in full \cup hungup]_vars
  BY DEF IInv, Due, Timeout, InputOutputDone
<1> QED BY <1>1, Always, PTL DEF Spec, OnlyStuckTimesOut
=============================================================================
