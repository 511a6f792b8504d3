-------------------------- MODULE IpcServiceProofs --------------------------
(***************************************************************************)
(* The IPC server implements what it promises its clients, and what it     *)
(* sends arrives in order: the bytes a client has read, those in its       *)
(* socket and those queued for it are the messages sent to it, one after   *)
(* the other and whole.  For any number of clients, any size of the        *)
(* sockets and any requests.                                               *)
(***************************************************************************)
EXTENDS IpcServerProofs

LEMMA SameData ==
  /\ Service!Units = Units /\ Service!Messages = Messages
  /\ Service!Boxes = [mail : Seq(Units), sent : Seq(Messages)]
BY DEF Service!Units, Units, Service!Messages, Messages, Service!Boxes

(***************************************************************************)
(* What is sent may be grouped as one likes.                               *)
(***************************************************************************)
LEMMA Regrouped == \A s, t, u \in Seq(Units) : (s \o t) \o u = s \o (t \o u)
<1> TAKE s, t, u \in Seq(Units)
<1> QED BY ConcatAssociative

(***************************************************************************)
(* An element before a sequence, and the first of two sequences.           *)
(***************************************************************************)
LEMMA ConsProperties ==
  ASSUME NEW S, NEW x \in S, NEW q \in Seq(S)
  PROVE  /\ <<x>> \o q \in Seq(S)
         /\ <<x>> \o q # << >>
         /\ Head(<<x>> \o q) = x
         /\ Tail(<<x>> \o q) = q
         /\ Len(<<x>> \o q) = Len(q) + 1
         /\ \A i \in 1 .. Len(q) : (<<x>> \o q)[i + 1] = q[i]
<1>1. <<x>> \in Seq(S) /\ Len(<<x>>) = 1 /\ <<x>>[1] = x
  OBVIOUS
<1>2. PICK one \in Seq(S) : one = <<x>> /\ Len(one) = 1 /\ one[1] = x
  BY <1>1
<1>3. PICK n \in Nat : n = Len(q)
  BY LenProperties
<1>4. /\ one \o q \in Seq(S) /\ Len(one \o q) = 1 + n
      /\ \A i \in 1 .. 1 + n : (one \o q)[i] = IF i <= 1 THEN one[i] ELSE q[i - 1]
  BY <1>2, <1>3, ConcatProperties
<1>5. PICK s \in Seq(S) : s = one \o q
  BY <1>4
<1>6. Len(s) = n + 1 /\ s[1] = x /\ \A i \in 1 .. n : s[i + 1] = q[i]
  BY <1>2, <1>4, <1>5
<1>7. s # << >>
  <2>1. s = << >> => Len(s) = 0
    BY EmptySeq
  <2> QED BY <1>6, <2>1
<1>8. /\ Head(s) = s[1] /\ Tail(s) \in Seq(S) /\ Len(Tail(s)) = Len(s) - 1
      /\ \A i \in 1 .. Len(Tail(s)) : Tail(s)[i] = s[i + 1]
  BY <1>7, HeadTailProperties
<1>9. PICK t \in Seq(S) : t = Tail(s)
  BY <1>8
<1>10. Len(t) = Len(q) /\ \A i \in 1 .. Len(t) : t[i] = q[i]
  BY <1>3, <1>6, <1>8, <1>9
<1>11. t = q
  BY <1>10, SeqEqual
<1> QED BY <1>2, <1>3, <1>5, <1>6, <1>7, <1>8, <1>9, <1>11

LEMMA ConsHeadTail ==
  ASSUME NEW S, NEW q \in Seq(S), q # << >>
  PROVE  <<Head(q)>> \o Tail(q) = q /\ Head(q) \in S /\ Tail(q) \in Seq(S)
<1>1. /\ Head(q) \in S /\ Head(q) = q[1] /\ Tail(q) \in Seq(S)
      /\ Len(Tail(q)) = Len(q) - 1 /\ \A i \in 1 .. Len(Tail(q)) : Tail(q)[i] = q[i + 1]
  BY HeadTailProperties
<1>2. PICK x \in S : x = Head(q)
  BY <1>1
<1>3. PICK t \in Seq(S) : t = Tail(q)
  BY <1>1
<1>4. /\ <<x>> \o t \in Seq(S) /\ <<x>> \o t # << >>
      /\ Head(<<x>> \o t) = x /\ Len(<<x>> \o t) = Len(t) + 1
      /\ \A i \in 1 .. Len(t) : (<<x>> \o t)[i + 1] = t[i]
  BY ConsProperties
<1>5. PICK s \in Seq(S) : s = <<x>> \o t
  BY <1>4
<1>6. Len(s) \in Nat /\ Len(t) \in Nat /\ Len(q) \in Nat
  BY LenProperties
<1>7. s[1] = x
  BY <1>4, <1>5, HeadTailProperties
<1>8. Len(s) = Len(q) /\ \A i \in 1 .. Len(s) : s[i] = q[i]
  <2>1. Len(s) = Len(q)
    BY <1>1, <1>3, <1>4, <1>5, <1>6
  <2>2. ASSUME NEW i \in 1 .. Len(s)
        PROVE  s[i] = q[i]
    <3>1. CASE i = 1
      BY <1>1, <1>2, <1>7, <3>1
    <3>2. CASE i # 1
      <4>1. i - 1 \in 1 .. Len(t) /\ (i - 1) + 1 = i
        BY <1>4, <1>5, <1>6, <3>2
      <4> QED BY <1>1, <1>3, <1>4, <1>5, <4>1
    <3> QED BY <3>1, <3>2
  <2> QED BY <2>1, <2>2
<1>9. s = q
  BY <1>8, SeqEqual
<1> QED BY <1>1, <1>2, <1>3, <1>5, <1>9

LEMMA ConcatHeadTail ==
  ASSUME NEW k \in Seq(Units), NEW b \in Seq(Units), k # << >>
  PROVE  /\ k \o b # << >>
         /\ Head(k \o b) = Head(k)
         /\ Tail(k \o b) = Tail(k) \o b
<1>1. <<Head(k)>> \o Tail(k) = k /\ Head(k) \in Units /\ Tail(k) \in Seq(Units)
  BY ConsHeadTail
<1>2. PICK x \in Units : x = Head(k)
  BY <1>1
<1>3. PICK t \in Seq(Units) : t = Tail(k)
  BY <1>1
<1>4. t \o b \in Seq(Units) /\ <<x>> \in Seq(Units)
  BY ConcatProperties
<1>5. (<<x>> \o t) \o b = <<x>> \o (t \o b)
  BY <1>4, Regrouped
<1>6. PICK s \in Seq(Units) : s = t \o b
  BY <1>4
<1>7. <<x>> \o s # << >> /\ Head(<<x>> \o s) = x /\ Tail(<<x>> \o s) = s
  BY ConsProperties
<1> QED BY <1>1, <1>2, <1>3, <1>5, <1>6, <1>7

-----------------------------------------------------------------------------
(***************************************************************************)
(* ipc_push_pending() leaves the queue a client sees as it is,             *)
(* ipc_send_client_message() puts a message behind it, and what is dropped *)
(* with a connection is its end.                                           *)
(***************************************************************************)
LEMMA MailType ==
  ASSUME NEW r \in Connections
  PROVE  /\ r.socket \in Seq(Units) /\ r.buffer \in Seq(Units) /\ r.sent \in Seq(Messages)
         /\ Mail(r) \in Service!Boxes
<1>1. r.socket \in Seq(Units) /\ r.buffer \in Seq(Units) /\ r.sent \in Seq(Messages)
  BY DEF Connections
<1>2. r.socket \o r.buffer \in Seq(Units)
  BY <1>1, ConcatProperties
<1> QED BY <1>1, <1>2, SameData DEF Mail

LEMMA PushMail ==
  ASSUME NEW r \in Connections, Len(r.socket) <= Room, NEW broken \in BOOLEAN
  PROVE  Mail(Push(r, broken)) = Mail(r)
<1>1. /\ Push(r, broken).sent = r.sent
      /\ Push(r, broken).socket \o Push(r, broken).buffer = r.socket \o r.buffer
  BY PushMoves
<1> QED BY <1>1, Zenon DEF Mail

LEMMA QueuedMail ==
  ASSUME NEW r \in Connections, NEW m \in Messages
  PROVE  Mail(Queued(r, m)) = Service!Put(Mail(r), m)
<1>1. r.socket \in Seq(Units) /\ r.buffer \in Seq(Units) /\ r.sent \in Seq(Messages)
  BY MailType
<1>2. PICK k \in Seq(Units) : k = r.socket
  BY <1>1
<1>3. PICK b \in Seq(Units) : b = r.buffer
  BY <1>1
<1>4. PICK n \in Nat : n = Len(r.sent) + 1
  BY <1>1, LenProperties
<1>5. Frame(n) \in Seq(Units)
  BY DEF Frame, Units
<1>6. PICK f \in Seq(Units) : f = Frame(n)
  BY <1>5
<1>7. (k \o b) \o f = k \o (b \o f)
  BY Regrouped
<1>8. Mail(Queued(r, m)) = [mail |-> k \o (b \o f), sent |-> Append(r.sent, m)]
  BY <1>2, <1>3, <1>4, <1>6 DEF Mail, Queued
<1>9. Service!Put(Mail(r), m) = [mail |-> (k \o b) \o f, sent |-> Append(r.sent, m)]
  BY <1>2, <1>3, <1>4, <1>6 DEF Service!Put, Mail, Frame
<1> QED BY <1>7, <1>8, <1>9

LEMMA SendMail ==
  ASSUME NEW r \in Connections, Len(r.socket) <= Room, NEW broken \in BOOLEAN,
         NEW m \in Messages
  PROVE  Mail(Send(r, m, broken)) = Service!Put(Mail(r), m)
<1>1. Queued(r, m) \in Connections /\ Queued(r, m).socket = r.socket
  BY QueuedSound
<1>2. PICK q \in Connections : q = Queued(r, m) /\ Len(q.socket) <= Room
  BY <1>1
<1>3. Mail(Push(q, broken)) = Mail(q)
  BY <1>2, PushMail
<1>4. Send(r, m, broken) = IF r.buffer = << >> THEN Push(q, broken) ELSE q
  BY <1>2 DEF Send
<1>5. Mail(q) = Service!Put(Mail(r), m)
  BY <1>2, QueuedMail
<1> QED BY <1>3, <1>4, <1>5

LEMMA DroppedMail ==
  ASSUME NEW r \in Connections
  PROVE  /\ \E n \in 0 .. Len(Mail(r).mail) : Mail(Dropped(r)) = Service!Cut(Mail(r), n)
         /\ r.buffer = << >> => Mail(Dropped(r)) = Mail(r)
<1>1. r.socket \in Seq(Units) /\ r.buffer \in Seq(Units) /\ r.sent \in Seq(Messages)
  BY MailType
<1>2. PICK k \in Seq(Units) : k = r.socket
  BY <1>1
<1>3. PICK b \in Seq(Units) : b = r.buffer
  BY <1>1
<1>4. k \o << >> = k
  BY ConcatEmptySeq
<1>5. Mail(Dropped(r)) = [mail |-> k, sent |-> r.sent]
  BY <1>2, <1>4 DEF Mail, Dropped
<1>6. Mail(r) = [mail |-> k \o b, sent |-> r.sent]
  BY <1>2, <1>3 DEF Mail
<1>7. PICK n \in Nat : n = Len(k)
  BY LenProperties
<1>8. PICK l \in Nat : l = Len(b)
  BY LenProperties
<1>9. /\ k \o b \in Seq(Units) /\ Len(k \o b) = n + l
      /\ \A i \in 1 .. n + l : (k \o b)[i] = IF i <= n THEN k[i] ELSE b[i - n]
  BY <1>7, <1>8, ConcatProperties
<1>10. PICK s \in Seq(Units) : s = k \o b
  BY <1>9
<1>11. SubSeq(s, 1, n) \in Seq(Units) /\ Len(SubSeq(s, 1, n)) = n
       /\ \A i \in 1 .. n : SubSeq(s, 1, n)[i] = s[i]
  <2>1. \A i \in 1 .. n : s[i] \in Units
    BY <1>9, <1>10, ElementOfSeq
  <2>2. /\ SubSeq(s, 1, n) \in Seq(Units)
        /\ Len(SubSeq(s, 1, n)) = IF 1 <= n THEN n - 1 + 1 ELSE 0
        /\ \A i \in 1 .. n - 1 + 1 : SubSeq(s, 1, n)[i] = s[1 + i - 1]
    BY <2>1, SubSeqProperties
  <2>3. PICK q \in Seq(Units) : q = SubSeq(s, 1, n)
    BY <2>2
  <2>4. Len(q) = n
    BY <2>2, <2>3
  <2>5. ASSUME NEW i \in 1 .. n
        PROVE  q[i] = s[i]
    <3>1. i \in 1 .. n - 1 + 1 /\ 1 + i - 1 = i
      OBVIOUS
    <3> QED BY <2>2, <2>3, <3>1
  <2> QED BY <2>2, <2>3, <2>4, <2>5
<1>12. PICK t \in Seq(Units) : t = SubSeq(s, 1, n)
  BY <1>11
<1>13. Len(t) = Len(k) /\ \A i \in 1 .. Len(t) : t[i] = k[i]
  BY <1>7, <1>9, <1>10, <1>11, <1>12
<1>14. t = k
  BY <1>13, SeqEqual
<1>15. Mail(Dropped(r)) = Service!Cut(Mail(r), n)
  <2>1. Mail(r).mail = s /\ Mail(r).sent = r.sent
    BY <1>6, <1>10
  <2>2. Service!Cut(Mail(r), n) = [mail |-> t, sent |-> r.sent]
    BY <1>12, <2>1, Zenon DEF Service!Cut
  <2> QED BY <1>5, <1>14, <2>2
<1>16. n \in 0 .. Len(Mail(r).mail)
  BY <1>6, <1>9
<1>17. r.buffer = << >> => Mail(Dropped(r)) = Mail(r)
  BY <1>2, <1>3, <1>4, <1>5, <1>6
<1> QED BY <1>15, <1>16, <1>17

LEMMA Posts ==
  ASSUME IInv
  PROVE  /\ client \in [Clients -> Connections]
         /\ \A c \in Clients : Len(client[c].socket) <= Room
         /\ Posted = [c \in Clients |-> Mail(client[c])]
         /\ Posted' = [c \in Clients |-> Mail(client'[c])]
         /\ Posted \in [Clients -> Service!Boxes]
<1>1. client \in [Clients -> Connections] /\ \A c \in Clients : Len(client[c].socket) <= Room
  BY DEF IInv, AllSound, Sound
<1>2. Posted = [c \in Clients |-> Mail(client[c])]
  BY DEF Posted
<1>3. Posted' = [c \in Clients |-> Mail(client'[c])]
  BY DEF Posted
<1>4. ASSUME NEW c \in Clients
      PROVE  Mail(client[c]) \in Service!Boxes
  BY <1>1, MailType
<1> QED BY <1>1, <1>2, <1>3, <1>4

LEMMA EventMail ==
  ASSUME IInv, NEW m \in Messages
  PROVE  [c \in Clients |-> Mail(Event(m)[c])] = Service!Published(m)
<1>1. ASSUME NEW c \in Clients
      PROVE  Mail(Event(m)[c]) =
               IF c \in subs THEN Service!Put(Posted[c], m) ELSE Posted[c]
  <2>1. client[c] \in Connections /\ Len(client[c].socket) <= Room /\ Posted[c] = Mail(client[c])
    BY Posts
  <2>2. (c \in hungup) \in BOOLEAN
    OBVIOUS
  <2>3. Mail(Send(client[c], m, c \in hungup)) = Service!Put(Mail(client[c]), m)
    BY <2>1, <2>2, SendMail
  <2>4. Event(m)[c] = IF c \in subs THEN Send(client[c], m, c \in hungup) ELSE client[c]
    BY DEF Event
  <2>5. CASE c \in subs
    BY <2>1, <2>3, <2>4, <2>5, Zenon
  <2>6. CASE c \notin subs
    BY <2>1, <2>4, <2>6, Zenon
  <2> QED BY <2>5, <2>6
<1>2. [c \in Clients |-> Mail(Event(m)[c])]
        = [c \in Clients |-> IF c \in subs THEN Service!Put(Posted[c], m) ELSE Posted[c]]
  BY <1>1
<1> QED BY <1>2, Zenon DEF Service!Published

\* what the clients see if the connections are now these
Seen(now) == [c \in Clients |-> Mail(now[c])]

LEMMA AnsweredMail ==
  ASSUME NEW now \in [Clients -> Connections], NEW c \in Clients,
         Len(now[c].socket) <= Room, NEW m \in Messages
  PROVE  Seen(Answered(now, c, m)) = [Seen(now) EXCEPT ![c] = Service!Put(Seen(now)[c], m)]
<1>1. now[c] \in Connections /\ (c \in hungup) \in BOOLEAN
  OBVIOUS
<1>2. Mail(Send(now[c], m, c \in hungup)) = Service!Put(Mail(now[c]), m)
  BY <1>1, SendMail
<1> DEFINE next == Answered(now, c, m)
           put == Service!Put(Mail(now[c]), m)
           sent == Send(now[c], m, c \in hungup)
<1>3. next = [now EXCEPT ![c] = sent]
  BY DEF Answered
<1>4. Seen(now)[c] = Mail(now[c])
  BY DEF Seen
<1>5. Mail(sent) = put
  BY <1>2
<1> HIDE DEF next, put, sent
<1>6. next[c] = sent /\ \A d \in Clients \ {c} : next[d] = now[d]
  BY <1>3
<1>7. Mail(next[c]) = put
  BY <1>5, <1>6
<1>8. \A d \in Clients \ {c} : Mail(next[d]) = Mail(now[d])
  BY <1>6
<1>9. Seen(next) = [Seen(now) EXCEPT ![c] = put]
  BY <1>7, <1>8 DEF Seen
<1> QED BY <1>4, <1>9 DEF next, put

-----------------------------------------------------------------------------
(***************************************************************************)
(* A request whose payload was read is the first that was not handled.     *)
(***************************************************************************)
LEMMA UnhandledOf ==
  ASSUME NEW c \in Clients
  PROVE  /\ Unhandled[c] = IF conn[c] = "closed" THEN << >>
                           ELSE IF reading # None /\ reading[1] = c
                                THEN <<reading[2]>> \o inbox[c] ELSE inbox[c]
         /\ DOMAIN Unhandled = Clients
BY DEF Unhandled

LEMMA FirstStep ==
  ASSUME IInv, NEW c \in Clients, NEW type \in Types, Complete(c, type)
  PROVE  /\ Service!First(c, type)
         /\ inbox'[c] = Service!Rest(c, type)
         /\ \A d \in Clients \ {c} : inbox'[d] = inbox[d]
         /\ reading = <<c, type>> /\ reading # None /\ reading' = None /\ conn[c] = "open"
<1>1. reading = <<c, type>> /\ reading # None /\ reading' = None
  BY IpcAssumption DEF Complete
<1>2. conn[c] = "open" /\ inbox \in [Clients -> Seq(Types \cup {"payload"})]
  BY <1>1 DEF IInv, Forgotten, Open, Plain
<1>3. PICK q \in Seq(Types \cup {"payload"}) : q = inbox[c]
  BY <1>2
<1>4. Unhandled[c] = <<type>> \o q
  BY <1>1, <1>2, <1>3, UnhandledOf
<1>5. PICK s \in Seq(Types \cup {"payload"}) :
        s = Unhandled[c] /\ s # << >> /\ Head(s) = type /\ Tail(s) = q
        /\ Len(s) = Len(q) + 1 /\ \A i \in 1 .. Len(q) : s[i + 1] = q[i]
  <2>1. /\ <<type>> \o q \in Seq(Types \cup {"payload"}) /\ <<type>> \o q # << >>
        /\ Head(<<type>> \o q) = type /\ Tail(<<type>> \o q) = q
        /\ Len(<<type>> \o q) = Len(q) + 1
        /\ \A i \in 1 .. Len(q) : (<<type>> \o q)[i + 1] = q[i]
    BY ConsProperties
  <2> QED BY <1>4, <2>1, Zenon
<1>6. CASE type = "query"
  <2>1. inbox' = inbox
    BY <1>6 DEF Complete
  <2>2. Service!First(c, type)
    BY <1>2, <1>5, <1>6 DEF Service!First
  <2>3. Service!Rest(c, type) = q
    BY <1>5, <1>6 DEF Service!Rest
  <2> QED BY <1>1, <1>2, <1>3, <2>1, <2>2, <2>3
<1>7. CASE type # "query"
  <2>1. q # << >> /\ inbox' = [inbox EXCEPT ![c] = Tail(q)]
    BY <1>3, <1>7 DEF Complete
  <2>2. Before(c) = type /\ Follows(q, type)
    BY <1>1, <1>2, <1>3 DEF Before, IInv, Framed
  <2>3. Len(q) \in Nat /\ Len(q) > 0
    BY <2>1, EmptySeq
  <2>4. q[1] = "payload"
    BY <1>7, <2>2, <2>3 DEF Follows, Types
  <2>5. Len(s) > 1 /\ s[2] = "payload"
    <3>1. 1 \in 1 .. Len(q) /\ 1 + 1 = 2
      BY <2>3
    <3> QED BY <1>5, <2>3, <2>4, <3>1
  <2>6. Service!First(c, type)
    BY <1>2, <1>5, <2>5 DEF Service!First
  <2>7. Service!Rest(c, type) = Tail(q)
    BY <1>5, <1>7 DEF Service!Rest
  <2>8. inbox'[c] = Tail(q) /\ \A d \in Clients \ {c} : inbox'[d] = inbox[d]
    BY <1>2, <2>1
  <2> QED BY <1>1, <1>2, <2>6, <2>7, <2>8
<1> QED BY <1>6, <1>7

LEMMA HandleStep ==
  ASSUME IInv, NEW c \in Clients, NEW type \in Types, Complete(c, type), conn' = conn
  PROVE  Service!Handle(c, type) /\ Service!First(c, type) /\ conn[c] = "open"
<1>1. /\ Service!First(c, type)
      /\ inbox'[c] = Service!Rest(c, type)
      /\ \A d \in Clients \ {c} : inbox'[d] = inbox[d]
      /\ reading = <<c, type>> /\ reading # None /\ reading' = None /\ conn[c] = "open"
  BY FirstStep
<1> DEFINE rest == Service!Rest(c, type)
<1> HIDE DEF rest
<1>2. inbox'[c] = rest
  BY <1>1 DEF rest
<1>3. Unhandled' = [d \in Clients |-> IF conn[d] = "closed" THEN << >> ELSE inbox'[d]]
  BY <1>1 DEF Unhandled
<1>4. Unhandled' = [Unhandled EXCEPT ![c] = rest]
  BY <1>1, <1>2, <1>3 DEF Unhandled
<1> QED BY <1>1, <1>4 DEF Service!Handle, rest

-----------------------------------------------------------------------------
(***************************************************************************)
(* Steps the clients do not see.                                           *)
(***************************************************************************)
LEMMA ReadHeaderStep ==
  ASSUME IInv, NEW c \in Clients, ReadHeader(c)
  PROVE  Unhandled' = Unhandled
<1>1. /\ reading = None /\ reading' = <<c, Head(inbox[c])>> /\ inbox[c] # << >>
      /\ inbox' = [inbox EXCEPT ![c] = Tail(inbox[c])] /\ conn' = conn
      /\ inbox \in [Clients -> Seq(Types \cup {"payload"})]
  BY DEF ReadHeader, IInv, Plain
<1>2. PICK q \in Seq(Types \cup {"payload"}) : q = inbox[c] /\ q # << >>
  BY <1>1
<1>3. <<Head(q)>> \o Tail(q) = q /\ Head(q) \in Types \cup {"payload"}
  BY <1>2, ConsHeadTail
<1>4. Head(q) \in Types
  <2>1. conn[c] # "closed" /\ Before(c) = "payload"
    BY <1>1 DEF Before, ReadHeader, IInv, Forgotten, Open
  <2>2. Follows(q, "payload")
    BY <1>2, <2>1 DEF IInv, Framed
  <2>3. Head(q) = q[1] /\ ~(q[1] = "payload")
    BY <1>2, <2>2, TailFramed
  <2> QED BY <1>3, <2>3
<1>5. reading' # None /\ reading'[1] = c /\ reading'[2] = Head(q)
  BY <1>1, <1>2, <1>4, IpcAssumption
<1>6. inbox'[c] = Tail(q) /\ \A d \in Clients \ {c} : inbox'[d] = inbox[d]
  BY <1>1, <1>2
<1>7. ASSUME NEW d \in Clients
      PROVE  (IF conn[d] = "closed" THEN << >>
              ELSE IF reading' # None /\ reading'[1] = d THEN <<reading'[2]>> \o inbox'[d]
              ELSE inbox'[d])
             = (IF conn[d] = "closed" THEN << >> ELSE inbox[d])
  <2>1. CASE d = c
    BY <1>2, <1>3, <1>5, <1>6, <2>1
  <2>2. CASE d # c
    BY <1>5, <1>6, <2>2
  <2> QED BY <2>1, <2>2
<1>8. Unhandled' = [d \in Clients |-> IF conn[d] = "closed" THEN << >> ELSE inbox[d]]
  BY <1>1, <1>7 DEF Unhandled
<1>9. Unhandled = [d \in Clients |-> IF conn[d] = "closed" THEN << >> ELSE inbox[d]]
  BY <1>1 DEF Unhandled
<1> QED BY <1>8, <1>9

LEMMA SameMail ==
  ASSUME IInv, \A c \in Clients : Mail(client'[c]) = Mail(client[c])
  PROVE  Posted' = Posted
BY Posts

LEMMA WriteableStep ==
  ASSUME IInv, NEW c \in Clients, Writeable(c)
  PROVE  Posted' = Posted
<1>1. client[c] \in Connections /\ Len(client[c].socket) <= Room /\ (c \in hungup) \in BOOLEAN
  BY Posts
<1>2. Mail(Push(client[c], c \in hungup)) = Mail(client[c])
  BY <1>1, PushMail
<1> DEFINE pushed == Push(client[c], c \in hungup)
<1>3. client' = [client EXCEPT ![c] = pushed]
  BY DEF Writeable
<1> HIDE DEF pushed
<1>4. client'[c] = pushed /\ \A d \in Clients \ {c} : client'[d] = client[d]
  BY <1>3, Posts
<1>5. Mail(pushed) = Mail(client[c])
  BY <1>2 DEF pushed
<1> QED BY <1>4, <1>5, SameMail

LEMMA ElapseUnseen ==
  ASSUME IInv, NEW c \in Clients, Elapse(c)
  PROVE  Posted' = Posted
<1>1. /\ client' = [client EXCEPT ![c].timer = "expired"]
      /\ client \in [Clients -> Connections]
  BY Posts DEF Elapse
<1>2. ASSUME NEW d \in Clients
      PROVE  /\ client'[d].socket = client[d].socket
             /\ client'[d].buffer = client[d].buffer
             /\ client'[d].sent = client[d].sent
  BY <1>1 DEF Connections
<1>3. ASSUME NEW d \in Clients
      PROVE  Mail(client'[d]) = Mail(client[d])
  BY <1>2 DEF Mail
<1> QED BY <1>3, SameMail

-----------------------------------------------------------------------------
(***************************************************************************)
(* Each step that the clients see is one of the service.                   *)
(***************************************************************************)
LEMMA NewClientServes ==
  ASSUME IInv, NEW c \in Clients, NewClient(c)
  PROVE  Service!Connect(c)
<1>1. /\ conn[c] = "new" /\ conn' = [conn EXCEPT ![c] = "open"] /\ reading = None
      /\ reading' = reading /\ inbox' = inbox /\ subs' = subs /\ ticks' = ticks
      /\ received' = received /\ client' = client
      /\ conn \in [Clients -> {"new", "open", "closed"}]
  BY DEF NewClient, peers, IInv, Plain
<1>2. \A d \in Clients : conn'[d] = "closed" <=> conn[d] = "closed"
  BY <1>1
<1>3. Unhandled' = Unhandled
  BY <1>1, <1>2 DEF Unhandled
<1>4. Posted' = Posted
  BY <1>1, SameMail
<1> QED BY <1>1, <1>3, <1>4 DEF Service!Connect

LEMMA FreeServes ==
  ASSUME IInv, NEW c \in Open, Free(c), reading # None => reading[1] = c
  PROVE  Service!Lose(c)
<1>1. /\ c \in Clients /\ conn[c] = "open" /\ conn' = [conn EXCEPT ![c] = "closed"]
      /\ subs' = subs \ {c} /\ inbox' = [inbox EXCEPT ![c] = << >>] /\ reading' = None
      /\ client' = [client EXCEPT ![c] = Dropped(client[c])]
      /\ ticks' = ticks /\ received' = received
      /\ conn \in [Clients -> {"new", "open", "closed"}]
      /\ inbox \in [Clients -> Seq(Types \cup {"payload"})]
  BY DEF Free, Freed, peers, Open, IInv, Plain
<1>2. /\ conn'[c] = "closed" /\ \A d \in Clients \ {c} : conn'[d] = conn[d]
      /\ \A d \in Clients \ {c} : inbox'[d] = inbox[d]
  BY <1>1
<1>3. Unhandled' = [Unhandled EXCEPT ![c] = << >>]
  BY <1>1, <1>2 DEF Unhandled
<1>4. PICK n \in 0 .. Len(Mail(client[c]).mail) :
        Mail(Dropped(client[c])) = Service!Cut(Mail(client[c]), n)
  BY <1>1, DroppedMail, Posts
<1> DEFINE dropped == Dropped(client[c])
           cut == Service!Cut(Posted[c], n)
<1>5. Posted[c] = Mail(client[c])
  BY <1>1, Posts
<1>6. Mail(dropped) = cut
  BY <1>4, <1>5
<1>7. client' = [client EXCEPT ![c] = dropped]
  BY <1>1
<1> HIDE DEF dropped, cut
<1>8. client'[c] = dropped /\ \A d \in Clients \ {c} : client'[d] = client[d]
  BY <1>1, <1>7, Posts
<1>9. Posted' = [Posted EXCEPT ![c] = cut]
  BY <1>6, <1>8, Posts
<1>10. \E i \in 0 .. Len(Posted[c].mail) : Posted' = [Posted EXCEPT ![c] = Service!Cut(Posted[c], i)]
  BY <1>5, <1>9, Zenon DEF cut
<1> QED BY <1>1, <1>3, <1>10 DEF Service!Lose

LEMMA ReceiveServes ==
  ASSUME IInv, NEW c \in Clients, Receive(c)
  PROVE  Service!Take(c)
<1>1. /\ client' = [client EXCEPT ![c].socket = Tail(client[c].socket)]
      /\ received' = [received EXCEPT ![c] = Append(received[c], Head(client[c].socket))]
      /\ client[c].socket # << >> /\ conn' = conn /\ subs' = subs /\ ticks' = ticks
      /\ reading' = reading /\ inbox' = inbox
      /\ client \in [Clients -> Connections]
  BY Posts DEF Receive
<1>2. PICK r \in Connections : r = client[c]
  BY <1>1
<1>3. r.socket \in Seq(Units) /\ r.buffer \in Seq(Units)
  BY MailType
<1>4. PICK k \in Seq(Units) : k = r.socket /\ k # << >>
  BY <1>1, <1>2, <1>3
<1>5. PICK b \in Seq(Units) : b = r.buffer
  BY <1>3
<1>6. k \o b # << >> /\ Head(k \o b) = Head(k) /\ Tail(k \o b) = Tail(k) \o b
  BY <1>4, ConcatHeadTail
<1>7. Posted[c] = [mail |-> k \o b, sent |-> r.sent]
  BY <1>2, <1>4, <1>5, Posts DEF Mail
<1> DEFINE p == [r EXCEPT !.socket = Tail(k)]
<1>8. p.socket = Tail(k) /\ p.buffer = b /\ p.sent = r.sent
  BY <1>5 DEF Connections
<1>9. client' = [client EXCEPT ![c] = p]
  BY <1>1, <1>2, <1>4
<1> HIDE DEF p
<1>10. client'[c] = p /\ \A d \in Clients \ {c} : client'[d] = client[d]
  BY <1>1, <1>9
<1>11. Mail(p) = [mail |-> Tail(Posted[c].mail), sent |-> Posted[c].sent]
  <2>1. Tail(Posted[c].mail) = Tail(k) \o b /\ Posted[c].sent = r.sent
    BY <1>6, <1>7
  <2>2. Mail(p) = [mail |-> Tail(k) \o b, sent |-> r.sent]
    BY <1>8, Zenon DEF Mail
  <2> QED BY <2>1, <2>2, Zenon
<1>12. Posted' = [Posted EXCEPT ![c] = Mail(p)]
  BY <1>10, Posts
<1>13. Posted[c].mail # << >> /\ Head(client[c].socket) = Head(Posted[c].mail)
  BY <1>2, <1>4, <1>6, <1>7
<1>14. Unhandled' = Unhandled
  BY <1>1 DEF Unhandled
<1> QED BY <1>1, <1>11, <1>12, <1>13, <1>14 DEF Service!Take

(***************************************************************************)
(* The handlers of requests.                                               *)
(***************************************************************************)
LEMMA MessagesSame ==
  /\ Service!Reply(0) = Reply /\ Service!Event = [kind |-> "event", tick |-> 0]
  /\ Reply \in Messages /\ [kind |-> "event", tick |-> 0] \in Messages
  /\ \A n \in Nat : /\ Service!Tick(n) = Tick(n) /\ Tick(n) \in Messages
                    /\ Service!Reply(n) = [kind |-> "reply", tick |-> n]
                    /\ [kind |-> "reply", tick |-> n] \in Messages
BY DEF Service!Reply, Reply, Service!Event, Service!Tick, Tick, Messages

LEMMA QueryServes ==
  ASSUME IInv, NEW c \in Clients, Query(c)
  PROVE  Service!Query(c)
<1>1. /\ Complete(c, "query") /\ client' = Answered(client, c, Reply)
      /\ conn' = conn /\ subs' = subs /\ ticks' = ticks /\ received' = received
  BY DEF Query, peers
<1>2. Service!Handle(c, "query")
  BY <1>1, HandleStep DEF Types
<1>3. Seen(Answered(client, c, Reply)) = [Seen(client) EXCEPT ![c] = Service!Put(Seen(client)[c], Reply)]
  BY AnsweredMail, Posts, MessagesSame
<1>4. Posted = Seen(client) /\ Posted' = Seen(client')
  BY Posts DEF Seen
<1>5. Posted' = [Posted EXCEPT ![c] = Service!Put(Posted[c], Service!Reply(0))]
  BY <1>1, <1>3, <1>4, MessagesSame
<1> QED BY <1>1, <1>2, <1>5 DEF Service!Query

LEMMA SubscribeServes ==
  ASSUME IInv, NEW c \in Clients, Subscribe(c)
  PROVE  Service!Subscribe(c)
<1> DEFINE replied == Answered(client, c, Reply)
           ticked == Answered(replied, c, Tick(0))
           put == Service!Put(Seen(client)[c], Reply)
<1>1. /\ Complete(c, "subscribe") /\ client' = (IF c \in subs THEN replied ELSE ticked)
      /\ conn' = conn /\ subs' = subs \cup {c} /\ ticks' = ticks /\ received' = received
  BY DEF Subscribe, peers
<1>2. Service!Handle(c, "subscribe") /\ c \in Open
  BY <1>1, HandleStep DEF Types, Open
<1>3. Seen(replied) = [Seen(client) EXCEPT ![c] = put]
  BY AnsweredMail, Posts, MessagesSame
<1>4. replied \in [Clients -> Connections] /\ Len(replied[c].socket) <= Room
  <2>1. Kept(client, client)
    BY DEF IInv, AllSound, Kept
  <2>2. Kept(client, replied)
    BY <1>2, <2>1, AnsweredKept, MessagesSame
  <2> QED BY <2>2 DEF Kept, Sound
<1> HIDE DEF replied
<1>5. Seen(ticked) = [Seen(replied) EXCEPT ![c] = Service!Put(Seen(replied)[c], Tick(0))]
  <2>1. Tick(0) \in Messages
    BY MessagesSame
  <2> QED BY <1>4, <2>1, AnsweredMail
<1> HIDE DEF ticked, put
<1>6. Posted = Seen(client) /\ Posted' = Seen(client') /\ DOMAIN Seen(client) = Clients
  BY Posts DEF Seen
<1>7. Seen(replied)[c] = put
  BY <1>3, <1>6
<1>8. Seen(ticked) = [Seen(client) EXCEPT ![c] = Service!Put(put, Tick(0))]
  BY <1>3, <1>5, <1>6, <1>7
<1>9. Posted' = [Posted EXCEPT ![c] = IF c \in subs THEN put ELSE Service!Put(put, Tick(0))]
  BY <1>1, <1>3, <1>6, <1>8
<1>10. put = Service!Put(Posted[c], Service!Reply(0)) /\ Tick(0) = Service!Tick(0)
  BY <1>6, MessagesSame DEF put
<1> QED BY <1>1, <1>2, <1>9, <1>10 DEF Service!Subscribe

LEMMA SendTickServes ==
  ASSUME IInv, NEW c \in Clients, SendTick(c)
  PROVE  Service!SendTick(c)
<1>1. PICK n \in Nat : n = ticks' /\ n = ticks + 1
  BY DEF SendTick, IInv, Plain
<1> DEFINE told == Event(Tick(n))
           reply == [kind |-> "reply", tick |-> n]
<1>2. /\ Complete(c, "tick") /\ client' = Answered(told, c, reply)
      /\ conn' = conn /\ subs' = subs /\ received' = received
  BY <1>1 DEF SendTick, peers
<1>3. Service!Handle(c, "tick")
  BY <1>2, HandleStep DEF Types
<1>4. Kept(client, told)
  BY EventKept, MessagesSame
<1>5. Seen(told) = Service!Published(Tick(n))
  BY EventMail, MessagesSame DEF Seen
<1>6. told \in [Clients -> Connections] /\ Len(told[c].socket) <= Room
  BY <1>4 DEF Kept, Sound
<1> HIDE DEF told
<1>7. Seen(Answered(told, c, reply)) = [Seen(told) EXCEPT ![c] = Service!Put(Seen(told)[c], reply)]
  BY <1>6, AnsweredMail, MessagesSame
<1>8. Tick(n) = Service!Tick(n) /\ reply = Service!Reply(n)
  BY MessagesSame
<1> HIDE DEF reply
<1>9. Posted' = Seen(client')
  BY Posts DEF Seen
<1>10. Posted' = [Service!Published(Service!Tick(n)) EXCEPT
                    ![c] = Service!Put(Service!Published(Service!Tick(n))[c], Service!Reply(n))]
  BY <1>2, <1>5, <1>7, <1>8, <1>9
<1> QED BY <1>1, <1>2, <1>3, <1>10 DEF Service!SendTick

LEMMA BroadcastServes ==
  ASSUME IInv, Broadcast
  PROVE  Service!Publish
<1>1. /\ client' = Event([kind |-> "event", tick |-> 0])
      /\ conn' = conn /\ subs' = subs /\ ticks' = ticks /\ received' = received
      /\ reading' = reading /\ inbox' = inbox
  BY DEF Broadcast, peers
<1>2. Posted' = Service!Published(Service!Event)
  BY <1>1, EventMail, Posts, MessagesSame
<1>3. Unhandled' = Unhandled
  BY <1>1 DEF Unhandled
<1> QED BY <1>1, <1>2, <1>3 DEF Service!Publish

(***************************************************************************)
(* A restart: the connection it carries loses the end of its queue, gets   *)
(* the reply behind the rest, and the rest of the bytes is pushed on.      *)
(***************************************************************************)
LEMMA ConfirmedMail ==
  ASSUME NEW r \in Connections, Len(r.socket) <= Room, NEW broken \in BOOLEAN
  PROVE  /\ Confirmed(r, broken) \in Connections
         /\ Mail(Confirmed(r, broken)) = Service!Put(Mail(Dropped(r)), Reply)
<1>1. Sound(Dropped(r), broken)
  BY DroppedSound
<1>2. PICK d : d = Dropped(r) /\ Sound(d, broken)
  BY <1>1
<1>3. d \in Connections /\ Len(d.socket) <= Room
  BY <1>2 DEF Sound
<1>4. Sound(Send(d, Reply, broken), broken)
  BY <1>2, SendSound, MessagesSame
<1>5. Mail(Send(d, Reply, broken)) = Service!Put(Mail(d), Reply)
  BY <1>3, SendMail, MessagesSame
<1>6. PICK s : s = Send(d, Reply, broken) /\ Sound(s, broken)
  BY <1>4
<1>7. s \in Connections /\ Len(s.socket) <= Room
  BY <1>6 DEF Sound
<1>8. Mail(Push(s, broken)) = Mail(s) /\ Push(s, broken) \in Connections
  BY <1>7, PushMail, PushMoves
<1> QED BY <1>2, <1>5, <1>6, <1>8 DEF Confirmed

LEMMA RestartServes ==
  ASSUME IInv, NEW c \in Clients, Restart(c)
  PROVE  Service!Restart(c)
<1> DEFINE told == Event([kind |-> "event", tick |-> 0])
           confirmed == Confirmed(told[c], c \in hungup)
           published == Service!Published(Service!Event)
<1>1. /\ Complete(c, "restart")
      /\ client' = [d \in Clients |-> IF d = c THEN confirmed ELSE Dropped(told[d])]
      /\ conn' = [d \in Clients |-> IF d # c /\ conn[d] = "open" THEN "closed" ELSE conn[d]]
      /\ subs' = {} /\ ticks' = ticks /\ received' = received
  BY DEF Restart, peers
<1>2. /\ Service!First(c, "restart") /\ inbox'[c] = Service!Rest(c, "restart")
      /\ \A d \in Clients \ {c} : inbox'[d] = inbox[d]
      /\ reading = <<c, "restart">> /\ reading # None /\ reading' = None /\ conn[c] = "open"
  BY <1>1, FirstStep DEF Types
<1>3. /\ \A d \in Clients : told[d] \in Connections /\ Len(told[d].socket) <= Room
      /\ \A d \in Clients \ Open : told[d] = client[d]
  BY EventKept, MessagesSame DEF Kept, Sound
<1>4. \A d \in Clients : Mail(told[d]) = published[d]
  <2>1. [d \in Clients |-> Mail(told[d])] = published
    BY EventMail, MessagesSame
  <2> QED BY <2>1
<1> HIDE DEF told, published
<1>5. confirmed \in Connections /\ Mail(confirmed) = Service!Put(Mail(Dropped(told[c])), Service!Reply(0))
  <2>1. told[c] \in Connections /\ Len(told[c].socket) <= Room /\ (c \in hungup) \in BOOLEAN
    BY <1>3
  <2> QED BY <2>1, ConfirmedMail, MessagesSame
<1> HIDE DEF confirmed
<1>6. \A d \in Clients :
        Posted'[d] = Mail(IF d = c THEN confirmed ELSE Dropped(told[d]))
  BY <1>1, Posts
<1>7. ASSUME NEW d \in Clients
      PROVE  \E n \in 0 .. Len(published[d].mail) :
               LET left == Service!Cut(published[d], n)
               IN  /\ Posted'[d] = IF d = c THEN Service!Put(left, Service!Reply(0)) ELSE left
                   /\ conn[d] # "open" => left = Posted[d]
  <2>1. PICK n \in 0 .. Len(published[d].mail) :
          Mail(Dropped(told[d])) = Service!Cut(published[d], n)
    BY <1>3, <1>4, DroppedMail
  <2>2. Posted'[d] = IF d = c THEN Service!Put(Service!Cut(published[d], n), Service!Reply(0))
                     ELSE Service!Cut(published[d], n)
    BY <1>5, <1>6, <2>1
  <2>3. ASSUME conn[d] # "open"
        PROVE  Service!Cut(published[d], n) = Posted[d]
    <3>1. told[d] = client[d] /\ client[d].buffer = << >> /\ client[d] \in Connections
      BY <1>3, <2>3, Posts DEF Open, IInv, Forgotten
    <3>2. Mail(Dropped(told[d])) = Mail(client[d])
      BY <3>1, DroppedMail
    <3> QED BY <2>1, <3>2, Posts
  <2> QED BY <2>2, <2>3, Zenon
<1>8. Posted' \in [Clients -> Service!Boxes]
  <2>1. ASSUME NEW d \in Clients
        PROVE  client'[d] \in Connections
    <3>1. Dropped(told[d]) \in Connections
      BY <1>3, DroppedSound DEF Sound
    <3> QED BY <1>1, <1>5, <3>1
  <2>2. \A d \in Clients : Mail(client'[d]) \in Service!Boxes
    BY <2>1, MailType
  <2> QED BY <2>2, Posts
<1>9. Unhandled' = [d \in Clients |-> IF d = c THEN Service!Rest(c, "restart")
                                      ELSE IF conn[d] = "open" THEN << >> ELSE Unhandled[d]]
  <2> DEFINE rest == Service!Rest(c, "restart")
  <2> HIDE DEF rest
  <2>1. inbox'[c] = rest
    BY <1>2 DEF rest
  <2>2. Unhandled' = [d \in Clients |-> IF conn'[d] = "closed" THEN << >> ELSE inbox'[d]]
    BY <1>2 DEF Unhandled
  <2>3. ASSUME NEW d \in Clients
        PROVE  (IF conn'[d] = "closed" THEN << >> ELSE inbox'[d])
               = (IF d = c THEN rest ELSE IF conn[d] = "open" THEN << >> ELSE Unhandled[d])
    <3>1. CASE d = c
      BY <1>1, <1>2, <2>1, <3>1
    <3>2. CASE d # c
      <4>1. conn'[d] = IF conn[d] = "open" THEN "closed" ELSE conn[d]
        BY <1>1, <3>2
      <4>2. Unhandled[d] = IF conn[d] = "closed" THEN << >> ELSE inbox[d]
        BY <1>2, <3>2, UnhandledOf
      <4> QED BY <1>2, <3>2, <4>1, <4>2
    <3> QED BY <3>1, <3>2
  <2> QED BY <2>2, <2>3 DEF rest
<1> QED BY <1>1, <1>2, <1>7, <1>8, <1>9 DEF Service!Restart, published

(***************************************************************************)
(* A client writes; over a connection that was lost nobody hears it.       *)
(***************************************************************************)
LEMMA WriteServes ==
  ASSUME IInv, NEW c \in Clients, NEW part \in Types \cup {"payload"},
         inbox' = [inbox EXCEPT ![c] = Append(inbox[c], part)],
         UNCHANGED <<server, received>>
  PROVE  Service!Write(c, part) \/ UNCHANGED Service!vars
<1>1. /\ conn' = conn /\ subs' = subs /\ ticks' = ticks /\ reading' = reading
      /\ client' = client /\ Posted' = Posted
      /\ inbox \in [Clients -> Seq(Types \cup {"payload"})]
  BY SameMail DEF server, IInv, Plain
<1>2. inbox'[c] = Append(inbox[c], part) /\ \A d \in Clients \ {c} : inbox'[d] = inbox[d]
  BY <1>1
<1>3. CASE conn[c] = "closed"
  <2>1. Unhandled' = Unhandled
    BY <1>1, <1>2, <1>3 DEF Unhandled
  <2> QED BY <1>1, <2>1 DEF Service!vars
<1>4. CASE conn[c] # "closed"
  <2>1. PICK q \in Seq(Types \cup {"payload"}) : q = inbox[c]
    BY <1>1
  <2>2. ASSUME reading # None, reading[1] = c
        PROVE  <<reading[2]>> \o Append(q, part) = Append(<<reading[2]>> \o q, part)
    <3>1. reading[2] \in Types
      BY <2>2 DEF IInv, Plain
    <3>2. PICK x \in Types \cup {"payload"} : x = reading[2]
      BY <3>1
    <3>3. /\ <<x>> \in Seq(Types \cup {"payload"}) /\ <<part>> \in Seq(Types \cup {"payload"})
          /\ <<x>> \o q \in Seq(Types \cup {"payload"})
      BY ConcatProperties
    <3>4. Append(q, part) = q \o <<part>>
      BY AppendIsConcat
    <3>5. Append(<<x>> \o q, part) = (<<x>> \o q) \o <<part>>
      BY <3>3, AppendIsConcat
    <3>6. (<<x>> \o q) \o <<part>> = <<x>> \o (q \o <<part>>)
      BY <3>3, ConcatAssociative
    <3> QED BY <3>2, <3>4, <3>5, <3>6, Zenon
  <2> DEFINE written == Append(Unhandled[c], part)
  <2>3. (IF reading # None /\ reading[1] = c THEN <<reading[2]>> \o inbox'[c] ELSE inbox'[c])
        = written
    BY <1>2, <1>4, <2>1, <2>2, UnhandledOf
  <2> HIDE DEF written
  <2>4. Unhandled' = [Unhandled EXCEPT ![c] = written]
    BY <1>1, <1>2, <1>4, <2>3 DEF Unhandled
  <2> QED BY <1>1, <1>4, <2>4 DEF Service!Write, written
<1> QED BY <1>3, <1>4

-----------------------------------------------------------------------------
LEMMA LoopServes ==
  ASSUME IInv, Loop
  PROVE  Service!Next \/ UNCHANGED Service!vars
<1>1. CASE Poll
  BY <1>1, SameMail DEF Poll, peers, Service!vars, Unhandled
<1>2. CASE Broadcast
  BY <1>2, BroadcastServes DEF Service!Next
<1>3. ASSUME NEW c \in Clients, NewClient(c)
      PROVE  Service!Next
  BY <1>3, NewClientServes DEF Service!Next
<1>4. ASSUME NEW c \in Clients, ReadHeader(c)
      PROVE  UNCHANGED Service!vars
  BY <1>4, ReadHeaderStep, SameMail DEF ReadHeader, peers, Service!vars
<1>5. ASSUME NEW c \in Clients, ReadEnd(c)
      PROVE  Service!Next
  <2>1. c \in Open /\ Free(c) /\ (reading # None => reading[1] = c)
    BY <1>5 DEF ReadEnd, IInv, Forgotten
  <2> QED BY <2>1, FreeServes DEF Service!Next
<1>6. ASSUME NEW c \in Clients, Timeout(c)
      PROVE  Service!Next
  <2>1. c \in Open /\ Free(c) /\ reading = None
    BY <1>6 DEF Timeout, IInv, Forgotten
  <2> QED BY <2>1, FreeServes DEF Service!Next
<1>7. ASSUME NEW c \in Clients, Writeable(c)
      PROVE  UNCHANGED Service!vars
  BY <1>7, WriteableStep DEF Writeable, peers, Service!vars, Unhandled
<1>8. ASSUME NEW c \in Clients, Query(c) \/ Subscribe(c) \/ SendTick(c) \/ Restart(c)
      PROVE  Service!Next
  BY <1>8, QueryServes, SubscribeServes, SendTickServes, RestartServes DEF Service!Next
<1> QED BY <1>1, <1>2, <1>3, <1>4, <1>5, <1>6, <1>7, <1>8 DEF Loop

LEMMA StepServes == IInv /\ [Next]_vars => [Service!Next]_Service!vars
<1> SUFFICES ASSUME IInv, [Next]_vars
             PROVE  Service!Next \/ UNCHANGED Service!vars
  OBVIOUS
<1>1. CASE Loop
  BY <1>1, LoopServes
<1>2. ASSUME NEW c \in Clients, Elapse(c)
      PROVE  UNCHANGED Service!vars
  BY <1>2, ElapseUnseen DEF Elapse, peers, Service!vars, Unhandled
<1>3. ASSUME NEW c \in Clients, Client(c)
      PROVE  Service!Next \/ UNCHANGED Service!vars
  <2>1. ASSUME NEW type \in Requests, SendHeader(c, type)
        PROVE  Service!Next \/ UNCHANGED Service!vars
    <3>1. type \in Types \cup {"payload"}
      BY IpcAssumption
    <3>2. /\ inbox' = [inbox EXCEPT ![c] = Append(inbox[c], type)]
          /\ UNCHANGED <<server, received>>
      BY <2>1 DEF SendHeader
    <3> QED BY <3>1, <3>2, WriteServes DEF Service!Next
  <2>2. CASE SendPayload(c)
    <3>1. /\ inbox' = [inbox EXCEPT ![c] = Append(inbox[c], "payload")]
          /\ UNCHANGED <<server, received>>
      BY <2>2 DEF SendPayload
    <3> QED BY <3>1, WriteServes DEF Service!Next
  <2>3. CASE Receive(c)
    BY <2>3, ReceiveServes DEF Service!Next
  <2>4. CASE HangUp(c)
    BY <2>4, SameMail DEF HangUp, server, Service!vars, Unhandled
  <2> QED BY <1>3, <2>1, <2>2, <2>3, <2>4 DEF Client
<1>4. CASE UNCHANGED vars
  BY <1>4, SameMail DEF vars, server, peers, Service!vars, Unhandled
<1> QED BY <1>1, <1>2, <1>3, <1>4 DEF Next

(***************************************************************************)
(* The server of ipc.c, with sockets that take any part of a queue,        *)
(* watchers, timers, callbacks in any order and requests read in two       *)
(* parts, implements the service that handles every request whole and at   *)
(* once, with one queue per client: what a client reads is what was sent   *)
(* to it, in order; a broadcast is behind all that was sent before and     *)
(* before all that is sent later, for every subscriber; and only a lost    *)
(* connection, or the restart it asked for, costs a client the end of its  *)
(* queue.                                                                  *)
(***************************************************************************)
THEOREM ServerImplementsService == Spec => ServesClients
<1>1. Init => Service!Init
  <2> SUFFICES ASSUME Init
               PROVE  Service!Init
    OBVIOUS
  <2>1. << >> \o << >> = << >>
    BY ConcatEmptySeq, EmptySeq
  <2>2. \A c \in Clients : Mail(client[c]) = [mail |-> << >>, sent |-> << >>]
    BY <2>1 DEF Init, Fresh, Mail
  <2>3. Posted = [c \in Clients |-> [mail |-> << >>, sent |-> << >>]]
    BY <2>2 DEF Posted
  <2>4. Unhandled = [c \in Clients |-> << >>]
    BY DEF Init, Unhandled
  <2> QED BY <2>3, <2>4 DEF Init, Service!Init
<1> QED BY <1>1, StepServes, Always, PTL DEF Spec, ServesClients, Service!Spec

-----------------------------------------------------------------------------

(***************************************************************************)
(* The units of whole messages one after the other.                        *)
(***************************************************************************)
Nth(i) == [msg |-> (i + 1) \div 2, end |-> i % 2 = 0]
Numbered(s) == \A i \in 1 .. Len(s) : s[i] = Nth(i)

\* What has been sent over r, pre of which has been read, are whole messages.
Flow(pre, r) == pre \o r.socket \o r.buffer
InStep(pre, r) == Numbered(Flow(pre, r)) /\ Len(Flow(pre, r)) = 2 * Len(r.sent)

LEMMA PrefixNumbered ==
  ASSUME NEW s \in Seq(Units), NEW t \in Seq(Units), Numbered(s \o t)
  PROVE  Numbered(s)
<1>1. Len(s) \in Nat /\ Len(t) \in Nat
  BY LenProperties
<1>2. /\ Len(s \o t) = Len(s) + Len(t)
      /\ \A i \in 1 .. Len(s) + Len(t) : (s \o t)[i] =
           IF i <= Len(s) THEN s[i] ELSE t[i - Len(s)]
  BY ConcatProperties
<1>3. ASSUME NEW i \in 1 .. Len(s)
      PROVE  s[i] = Nth(i)
  <2>1. i \in 1 .. Len(s) + Len(t) /\ i <= Len(s)
    BY <1>1
  <2> QED BY <1>2, <2>1 DEF Numbered
<1> QED BY <1>3 DEF Numbered

LEMMA FrameNumbered ==
  ASSUME NEW s \in Seq(Units), NEW n \in Nat, Len(s) = 2 * n, Numbered(s)
  PROVE  /\ s \o Frame(n + 1) \in Seq(Units)
         /\ Len(s \o Frame(n + 1)) = 2 * (n + 1)
         /\ Numbered(s \o Frame(n + 1))
<1>1. /\ Frame(n + 1) \in Seq(Units) /\ Len(Frame(n + 1)) = 2
      /\ Frame(n + 1)[1] = [msg |-> n + 1, end |-> FALSE]
      /\ Frame(n + 1)[2] = [msg |-> n + 1, end |-> TRUE]
  BY DEF Frame, Units
<1>2. PICK f \in Seq(Units) : f = Frame(n + 1)
  BY <1>1
<1>3. /\ s \o f \in Seq(Units) /\ Len(s \o f) = Len(s) + Len(f)
      /\ \A i \in 1 .. Len(s) + Len(f) : (s \o f)[i] =
           IF i <= Len(s) THEN s[i] ELSE f[i - Len(s)]
  BY ConcatProperties
<1>4. Len(s \o f) = 2 * (n + 1)
  <2>1. Len(f) = 2
    BY <1>1, <1>2
  <2>2. Len(s \o f) = 2 * n + 2
    BY <1>3, <2>1
  <2>3. 2 * n + 2 = 2 * (n + 1)
    OBVIOUS
  <2> QED BY <2>2, <2>3
<1>5. ASSUME NEW i \in 1 .. 2 * (n + 1)
      PROVE  (s \o f)[i] = Nth(i)
  <2>1. CASE i <= 2 * n
    BY <1>1, <1>2, <1>3, <2>1 DEF Numbered
  <2>2. CASE i = 2 * n + 1
    <3>1. (i + 1) \div 2 = n + 1 /\ i % 2 = 1
      BY <2>2
    <3>2. (s \o f)[i] = f[1]
      BY <1>1, <1>2, <1>3, <2>2
    <3> QED BY <1>1, <1>2, <3>1, <3>2 DEF Nth
  <2>3. CASE i = 2 * n + 2
    <3>1. (i + 1) \div 2 = n + 1 /\ i % 2 = 0
      BY <2>3
    <3>2. (s \o f)[i] = f[2]
      BY <1>1, <1>2, <1>3, <2>3
    <3> QED BY <1>1, <1>2, <3>1, <3>2 DEF Nth
  <2>4. i \in Nat /\ 1 <= i /\ i <= 2 * n + 2
    OBVIOUS
  <2>5. i <= 2 * n \/ i = 2 * n + 1 \/ i = 2 * n + 2
    BY <2>4
  <2> QED BY <2>1, <2>2, <2>3, <2>5, Zenon
<1> QED BY <1>2, <1>3, <1>4, <1>5 DEF Numbered

LEMMA FlowType ==
  ASSUME NEW pre \in Seq(Units), NEW r \in Connections
  PROVE  /\ r.socket \in Seq(Units) /\ r.buffer \in Seq(Units) /\ r.sent \in Seq(Messages)
         /\ Flow(pre, r) \in Seq(Units)
         /\ Flow(pre, r) = pre \o (r.socket \o r.buffer)
<1>1. /\ r.socket \in Seq(Units) /\ r.buffer \in Seq(Units) /\ r.sent \in Seq(Messages)
  BY DEF Connections
<1>2. PICK k \in Seq(Units) : k = r.socket
  BY <1>1
<1>3. PICK b \in Seq(Units) : b = r.buffer
  BY <1>1
<1>4. pre \o k \in Seq(Units)
  BY ConcatProperties
<1>5. (pre \o k) \o b \in Seq(Units)
  BY <1>4, ConcatProperties
<1>6. (pre \o k) \o b = pre \o (k \o b)
  BY Regrouped
<1> QED BY <1>1, <1>2, <1>3, <1>5, <1>6 DEF Flow

(***************************************************************************)
(* ipc_push_pending() does not change what is in flight, a message is put  *)
(* behind all of it, and what is dropped with a connection is its end.     *)
(***************************************************************************)
LEMMA PushInStep ==
  ASSUME NEW pre \in Seq(Units), NEW r \in Connections, Len(r.socket) <= Room,
         NEW broken \in BOOLEAN, InStep(pre, r)
  PROVE  /\ Push(r, broken) \in Connections
         /\ Len(Push(r, broken).socket) <= Room
         /\ InStep(pre, Push(r, broken))
<1>1. /\ Push(r, broken) \in Connections
      /\ Len(Push(r, broken).socket) <= Room
      /\ Push(r, broken).sent = r.sent
      /\ Push(r, broken).socket \o Push(r, broken).buffer = r.socket \o r.buffer
  BY PushMoves
<1>2. PICK p \in Connections : p = Push(r, broken)
  BY <1>1
<1>3. Flow(pre, p) = pre \o (p.socket \o p.buffer)
  BY FlowType
<1>4. Flow(pre, r) = pre \o (r.socket \o r.buffer)
  BY FlowType
<1>5. Flow(pre, p) = Flow(pre, r)
  BY <1>1, <1>2, <1>3, <1>4, Zenon
<1> QED BY <1>1, <1>2, <1>5 DEF InStep

LEMMA QueuedInStep ==
  ASSUME NEW pre \in Seq(Units), NEW r \in Connections, NEW m \in Messages,
         InStep(pre, r)
  PROVE  InStep(pre, Queued(r, m))
<1>1. Flow(pre, r) \in Seq(Units) /\ r.sent \in Seq(Messages)
  BY FlowType
<1>2. PICK s \in Seq(Units) : s = Flow(pre, r)
  BY <1>1
<1>3. PICK n \in Nat : n = Len(r.sent)
  BY <1>1, LenProperties
<1>4. /\ Len(s \o Frame(n + 1)) = 2 * (n + 1)
      /\ Numbered(s \o Frame(n + 1))
  BY <1>2, <1>3, FrameNumbered DEF InStep
<1>5. Len(Append(r.sent, m)) = n + 1
  BY <1>1, <1>3, AppendProperties
<1>6. Flow(pre, Queued(r, m)) = s \o Frame(n + 1)
  <2>1. r.socket \in Seq(Units) /\ r.buffer \in Seq(Units)
    BY FlowType
  <2>2. PICK k \in Seq(Units) : k = pre \o r.socket
    BY <2>1, ConcatProperties
  <2>3. PICK b \in Seq(Units) : b = r.buffer
    BY <2>1
  <2>4. Frame(n + 1) \in Seq(Units)
    BY DEF Frame, Units
  <2>5. PICK f \in Seq(Units) : f = Frame(n + 1)
    BY <2>4
  <2>6. (k \o b) \o f = k \o (b \o f)
    BY Regrouped
  <2>7. Flow(pre, Queued(r, m)) = k \o (b \o f)
    BY <1>3, <2>2, <2>3, <2>5 DEF Flow, Queued
  <2>8. s = k \o b
    BY <1>2, <2>2, <2>3 DEF Flow
  <2> QED BY <2>5, <2>6, <2>7, <2>8
<1>7. Queued(r, m).sent = Append(r.sent, m)
  BY DEF Queued
<1> QED BY <1>4, <1>5, <1>6, <1>7 DEF InStep

LEMMA SendInStep ==
  ASSUME NEW pre \in Seq(Units), NEW r \in Connections, Len(r.socket) <= Room,
         NEW broken \in BOOLEAN, NEW m \in Messages, InStep(pre, r)
  PROVE  /\ Send(r, m, broken) \in Connections
         /\ Len(Send(r, m, broken).socket) <= Room
         /\ InStep(pre, Send(r, m, broken))
<1>1. /\ Queued(r, m) \in Connections /\ Queued(r, m).socket = r.socket
      /\ InStep(pre, Queued(r, m))
  BY QueuedSound, QueuedInStep
<1>2. PICK q \in Connections : q = Queued(r, m)
  BY <1>1
<1>3. /\ Push(q, broken) \in Connections
      /\ Len(Push(q, broken).socket) <= Room
      /\ InStep(pre, Push(q, broken))
  BY <1>1, <1>2, PushInStep
<1>4. Send(r, m, broken) = IF r.buffer = << >> THEN Push(q, broken) ELSE q
  BY <1>2 DEF Send
<1> QED BY <1>1, <1>2, <1>3, <1>4

LEMMA DroppedNumbered ==
  ASSUME NEW pre \in Seq(Units), NEW r \in Connections, Numbered(Flow(pre, r))
  PROVE  Numbered(Flow(pre, Dropped(r)))
<1>1. r.socket \in Seq(Units) /\ r.buffer \in Seq(Units)
  BY FlowType
<1>2. PICK k \in Seq(Units) : k = pre \o r.socket
  BY <1>1, ConcatProperties
<1>3. PICK b \in Seq(Units) : b = r.buffer
  BY <1>1
<1>4. Flow(pre, r) = k \o b
  BY <1>2, <1>3 DEF Flow
<1>5. Flow(pre, Dropped(r)) = k \o << >>
  BY <1>2 DEF Flow, Dropped
<1>6. k \o << >> = k
  BY ConcatEmptySeq
<1>7. Numbered(k)
  BY <1>4, PrefixNumbered
<1> QED BY <1>5, <1>6, <1>7
-----------------------------------------------------------------------------
(***************************************************************************)
(* The inductive invariant: a connection is in step, and of one that was   *)
(* closed what was not dropped.                                            *)
(***************************************************************************)
Ordered ==
  \A c \in Clients \ carried :
    /\ Numbered(Flow(received[c], client[c]))
    /\ conn[c] # "closed" => InStep(received[c], client[c])

\* Handlers send over open connections only, and keep those in step.
Sending(now) ==
  \A c \in Clients :
    /\ now[c] \in Connections /\ Len(now[c].socket) <= Room
    /\ c \notin Open => now[c] = client[c]
    /\ c \in Open \ carried => InStep(received[c], now[c])

LEMMA IdleSending ==
  ASSUME IInv, Ordered
  PROVE  /\ Sending(client) /\ \A c \in Clients : received[c] \in Seq(Units)
         /\ client \in [Clients -> Connections] /\ Open \subseteq Clients
         /\ subs \subseteq Open
<1>1. \A c \in Clients : client[c] \in Connections /\ Len(client[c].socket) <= Room
  BY DEF IInv, AllSound, Sound
<1>2. Sending(client)
  BY <1>1 DEF Sending, Ordered, Open
<1> QED BY <1>2 DEF IInv, Plain, AllSound, Open

LEMMA EventSending ==
  ASSUME IInv, Ordered, NEW m \in Messages
  PROVE  Sending(Event(m))
<1> SUFFICES ASSUME NEW c \in Clients
             PROVE  /\ Event(m)[c] \in Connections /\ Len(Event(m)[c].socket) <= Room
                    /\ c \notin Open => Event(m)[c] = client[c]
                    /\ c \in Open \ carried => InStep(received[c], Event(m)[c])
  BY DEF Sending
<1> DEFINE broken == c \in hungup
<1>1. Sending(client) /\ received[c] \in Seq(Units) /\ subs \subseteq Open
  BY IdleSending
<1>2. broken \in BOOLEAN
  OBVIOUS
<1>3. PICK r \in Connections : r = client[c] /\ Len(r.socket) <= Room
  BY <1>1 DEF Sending
<1>4. CASE c \in subs
  <2>1. Event(m)[c] = Send(r, m, broken)
    BY <1>2, <1>3, <1>4 DEF Event
  <2>2. Sound(Send(r, m, broken), broken)
    BY <1>2, <1>3, SendSound DEF IInv, AllSound
  <2>3. ASSUME c \notin carried
        PROVE  InStep(received[c], Send(r, m, broken))
    <3>1. InStep(received[c], r)
      BY <1>1, <1>3, <1>4, <2>3 DEF Sending
    <3> QED BY <1>1, <1>2, <1>3, <3>1, SendInStep
  <2> QED BY <1>1, <1>4, <2>1, <2>2, <2>3 DEF Sound
<1>5. CASE c \notin subs
  BY <1>1, <1>5 DEF Event, Sending
<1> QED BY <1>4, <1>5

LEMMA AnsweredSending ==
  ASSUME IInv, Ordered, NEW now, Sending(now), now \in [Clients -> Connections],
         \A c \in Clients : Sound(now[c], c \in hungup),
         NEW c \in Open, NEW m \in Messages
  PROVE  Sending(Answered(now, c, m))
<1> DEFINE next == Answered(now, c, m)
           broken == c \in hungup
<1>1. c \in Clients /\ received[c] \in Seq(Units)
  BY IdleSending
<1>2. broken \in BOOLEAN
  OBVIOUS
<1>3. PICK r \in Connections : r = now[c] /\ Len(r.socket) <= Room
  BY <1>1 DEF Sending
<1>4. next = [now EXCEPT ![c] = Send(r, m, broken)]
  BY <1>2, <1>3 DEF Answered
<1> HIDE DEF next
<1>5. next[c] = Send(r, m, broken) /\ \A d \in Clients \ {c} : next[d] = now[d]
  BY <1>1, <1>4
<1>6. Sound(Send(r, m, broken), broken)
  BY <1>1, <1>2, <1>3, SendSound
<1>7. ASSUME c \notin carried
      PROVE  InStep(received[c], Send(r, m, broken))
  <2>1. InStep(received[c], r)
    BY <1>1, <1>3, <1>7 DEF Sending
  <2> QED BY <1>1, <1>2, <1>3, <2>1, SendInStep
<1>8. Sending(next)
  BY <1>5, <1>6, <1>7 DEF Sending, Sound
<1> QED BY <1>8 DEF next

(***************************************************************************)
(* A handler that only sends leaves what is sent in order.                 *)
(***************************************************************************)
LEMMA SendingStep ==
  ASSUME IInv, Ordered, Sending(client'), conn' = conn, received' = received,
         carried' = carried
  PROVE  Ordered'
<1> SUFFICES ASSUME NEW c \in Clients \ carried
             PROVE  /\ Numbered(Flow(received[c], client'[c]))
                    /\ conn[c] # "closed" => InStep(received[c], client'[c])
  BY DEF Ordered
<1>1. CASE c \in Open
  BY <1>1 DEF Sending, InStep
<1>2. CASE c \notin Open
  BY <1>2 DEF Sending, Ordered
<1> QED BY <1>1, <1>2

(***************************************************************************)
(* A connection is freed: what was queued for it is lost, what is in its   *)
(* socket the client may still read.                                       *)
(***************************************************************************)
LEMMA FreeOrdered ==
  ASSUME IInv, Ordered, NEW c \in Clients, Free(c)
  PROVE  Ordered'
<1>1. /\ client' = [client EXCEPT ![c] = Dropped(client[c])]
      /\ conn' = [conn EXCEPT ![c] = "closed"]
      /\ received' = received /\ carried' = carried
  BY DEF Free, Freed, peers
<1>2. /\ client \in [Clients -> Connections] /\ received[c] \in Seq(Units)
      /\ conn \in [Clients -> {"new", "open", "closed"}]
  BY IdleSending DEF IInv, Plain
<1>3. PICK r \in Connections : r = client[c]
  BY <1>2
<1>4. c \notin carried => Numbered(Flow(received[c], Dropped(r)))
  BY <1>2, <1>3, DroppedNumbered DEF Ordered
<1>5. client'[c] = Dropped(r) /\ \A d \in Clients \ {c} : client'[d] = client[d]
  BY <1>1, <1>2, <1>3
<1>6. conn'[c] = "closed" /\ \A d \in Clients \ {c} : conn'[d] = conn[d]
  BY <1>1, <1>2
<1> QED BY <1>1, <1>4, <1>5, <1>6 DEF Ordered
(***************************************************************************)
(* A restart frees every connection but one.                               *)
(***************************************************************************)
LEMMA RestartOrdered ==
  ASSUME IInv, Ordered, NEW c \in Clients, Restart(c)
  PROVE  Ordered'
<1> DEFINE told == Event([kind |-> "event", tick |-> 0])
<1>1. /\ \A d \in Clients \ {c} : client'[d] = Dropped(told[d])
      /\ \A d \in Clients \ {c} : conn'[d] = IF conn[d] = "open" THEN "closed" ELSE conn[d]
      /\ carried' = carried \cup {c} /\ received' = received
  BY DEF Restart, peers
<1>2. [kind |-> "event", tick |-> 0] \in Messages
  BY DEF Messages
<1>3. Sending(told)
  BY <1>2, EventSending
<1> HIDE DEF told
<1>4. SUFFICES ASSUME NEW d \in Clients \ carried, d # c
               PROVE  /\ Numbered(Flow(received[d], Dropped(told[d])))
                      /\ (IF conn[d] = "open" THEN "closed" ELSE conn[d]) # "closed"
                           => InStep(received[d], Dropped(told[d]))
  BY <1>1 DEF Ordered
<1>5. received[d] \in Seq(Units) /\ client[d] \in Connections
  BY IdleSending
<1>6. PICK r \in Connections : r = told[d]
  BY <1>3 DEF Sending
<1>7. CASE d \in Open
  <2>1. InStep(received[d], r)
    BY <1>3, <1>4, <1>6, <1>7 DEF Sending
  <2>2. Numbered(Flow(received[d], Dropped(r)))
    BY <1>5, <2>1, DroppedNumbered DEF InStep
  <2> QED BY <1>6, <1>7, <2>2 DEF Open
<1>8. CASE d \notin Open
  <2>1. r = client[d] /\ r.buffer = << >>
    BY <1>3, <1>6, <1>8 DEF Sending, IInv, Forgotten
  <2>2. /\ Flow(received[d], Dropped(r)) = Flow(received[d], r)
        /\ Dropped(r).sent = r.sent
    BY <2>1 DEF Flow, Dropped
  <2>3. /\ Numbered(Flow(received[d], r))
        /\ conn[d] # "closed" => InStep(received[d], r)
    BY <1>4, <2>1 DEF Ordered
  <2> QED BY <1>6, <2>2, <2>3 DEF InStep
<1> QED BY <1>7, <1>8

LEMMA LoopOrdered ==
  ASSUME IInv, Ordered, Loop
  PROVE  Ordered'
<1>1. CASE Poll
  BY <1>1 DEF Poll, Ordered, peers
<1>2. Reply \in Messages /\ \A n \in Nat : /\ Tick(n) \in Messages
                                           /\ [kind |-> "reply", tick |-> n] \in Messages
                                           /\ [kind |-> "event", tick |-> n] \in Messages
  BY DEF Reply, Tick, Messages
<1>3. CASE Broadcast
  BY <1>2, <1>3, EventSending, SendingStep DEF Broadcast, peers
<1>4. ASSUME NEW c \in Clients, NewClient(c)
      PROVE  Ordered'
  BY <1>4 DEF NewClient, Ordered, IInv, Plain, peers
<1>5. ASSUME NEW c \in Clients, ReadHeader(c)
      PROVE  Ordered'
  BY <1>5 DEF ReadHeader, Ordered, peers
<1>6. ASSUME NEW c \in Clients, ReadEnd(c)
      PROVE  Ordered'
  BY <1>6, FreeOrdered DEF ReadEnd
<1>7. ASSUME NEW c \in Clients, Timeout(c)
      PROVE  Ordered'
  BY <1>7, FreeOrdered DEF Timeout
<1>8. ASSUME NEW c \in Clients, Writeable(c)
      PROVE  Ordered'
  <2> DEFINE broken == c \in hungup
  <2>1. /\ client' = [client EXCEPT ![c] = Push(client[c], broken)]
        /\ conn' = conn /\ received' = received /\ carried' = carried
    BY <1>8 DEF Writeable, peers
  <2>2. /\ client \in [Clients -> Connections] /\ received[c] \in Seq(Units)
        /\ Sending(client) /\ broken \in BOOLEAN
    BY IdleSending
  <2> HIDE DEF broken
  <2>3. PICK r \in Connections : r = client[c] /\ Len(r.socket) <= Room
    BY <2>2 DEF Sending
  <2>4. ASSUME c \notin carried, conn[c] # "closed"
        PROVE  InStep(received[c], Push(r, broken))
    <3>1. InStep(received[c], r)
      BY <2>3, <2>4 DEF Ordered
    <3> QED BY <2>2, <2>3, <3>1, PushInStep
  <2>5. c \in Open
    BY <1>8 DEF Writeable, IInv, Forgotten
  <2>6. client'[c] = Push(r, broken) /\ \A d \in Clients \ {c} : client'[d] = client[d]
    BY <2>1, <2>2, <2>3
  <2> QED BY <2>1, <2>4, <2>5, <2>6 DEF Ordered, InStep, Open
<1>9. /\ Sending(client) /\ client \in [Clients -> Connections]
      /\ \A c \in Clients : Sound(client[c], c \in hungup)
  BY IdleSending DEF IInv, AllSound
<1>10. ASSUME NEW c \in Clients, Query(c)
       PROVE  Ordered'
  <2>1. c \in Open
    BY <1>10, IpcAssumption DEF Query, Complete, Types, IInv, Forgotten
  <2>2. Sending(client')
    BY <1>2, <1>9, <1>10, <2>1, AnsweredSending DEF Query
  <2> QED BY <1>10, <2>2, SendingStep DEF Query, peers
<1>11. ASSUME NEW c \in Clients, Subscribe(c)
       PROVE  Ordered'
  <2> DEFINE replied == Answered(client, c, Reply)
  <2>1. c \in Open
    BY <1>11, IpcAssumption DEF Subscribe, Complete, Types, IInv, Forgotten
  <2>2. Sending(replied)
    BY <1>2, <1>9, <2>1, AnsweredSending
  <2>3. Kept(client, client)
    BY DEF IInv, AllSound, Kept
  <2>4. Kept(client, replied)
    BY <1>2, <2>1, <2>3, AnsweredKept
  <2> HIDE DEF replied
  <2>5. Sending(Answered(replied, c, Tick(0)))
    BY <1>2, <2>1, <2>2, <2>4, AnsweredSending DEF Kept
  <2>6. client' = IF c \in subs THEN replied ELSE Answered(replied, c, Tick(0))
    BY <1>11 DEF Subscribe, replied
  <2>7. Sending(client')
    BY <2>2, <2>5, <2>6
  <2> QED BY <1>11, <2>7, SendingStep DEF Subscribe, peers
<1>12. ASSUME NEW c \in Clients, SendTick(c)
       PROVE  Ordered'
  <2>1. c \in Open
    BY <1>12, IpcAssumption DEF SendTick, Complete, Types, IInv, Forgotten
  <2>2. PICK n \in Nat : n = ticks'
    BY <1>12 DEF SendTick, IInv, Plain
  <2> DEFINE told == Event(Tick(n))
  <2>3. Sending(told) /\ Kept(client, told)
    BY <1>2, EventSending, EventKept
  <2> HIDE DEF told
  <2>4. Sending(Answered(told, c, [kind |-> "reply", tick |-> n]))
    BY <1>2, <2>1, <2>3, AnsweredSending DEF Kept
  <2>5. Sending(client')
    BY <1>12, <2>2, <2>4 DEF SendTick, told
  <2> QED BY <1>12, <2>5, SendingStep DEF SendTick, peers
<1>13. ASSUME NEW c \in Clients, Restart(c)
       PROVE  Ordered'
  BY <1>13, RestartOrdered
<1> QED BY <1>1, <1>3, <1>4, <1>5, <1>6, <1>7, <1>8, <1>10, <1>11, <1>12, <1>13 DEF Loop

(***************************************************************************)
(* A client takes the next unit from its socket.                           *)
(***************************************************************************)
LEMMA ReceiveOrdered ==
  ASSUME IInv, Ordered, NEW c \in Clients, Receive(c)
  PROVE  Ordered'
<1>1. /\ client' = [client EXCEPT ![c].socket = Tail(client[c].socket)]
      /\ received' = [received EXCEPT ![c] = Append(received[c], Head(client[c].socket))]
      /\ client[c].socket # << >> /\ conn' = conn /\ carried' = carried
  BY DEF Receive
<1>2. /\ client \in [Clients -> Connections] /\ received[c] \in Seq(Units)
      /\ received \in [Clients -> Seq(Units)]
  BY IdleSending DEF IInv, Plain
<1>3. PICK r \in Connections : r = client[c]
  BY <1>2
<1>4. PICK k \in Seq(Units) : k = r.socket /\ k # << >>
  BY <1>1, <1>3 DEF Connections
<1>5. PICK pre \in Seq(Units) : pre = received[c]
  BY <1>2
<1>6. Head(k) \in Units /\ Tail(k) \in Seq(Units)
  BY <1>4, HeadTailProperties
<1>7. PICK u \in Units : u = Head(k)
  BY <1>6
<1>8. PICK t \in Seq(Units) : t = Tail(k)
  BY <1>6
<1> DEFINE p == [r EXCEPT !.socket = t]
<1>9. Append(pre, u) \o t = pre \o k
  <2>1. Append(pre, u) = pre \o <<u>> /\ <<u>> \in Seq(Units)
    BY AppendIsConcat
  <2>2. PICK one \in Seq(Units) : one = <<u>>
    BY <2>1
  <2>3. (pre \o one) \o t = pre \o (one \o t)
    BY Regrouped
  <2>4. one \o t = k
    <3>1. Len(one) = 1 /\ one[1] = u
      BY <2>2
    <3>2. /\ Len(k) \in Nat \ {0} /\ Len(t) = Len(k) - 1 /\ u = k[1]
          /\ \A i \in 1 .. Len(t) : t[i] = k[i + 1]
      BY <1>4, <1>7, <1>8, HeadTailProperties, EmptySeq
    <3>3. /\ one \o t \in Seq(Units) /\ Len(one \o t) = Len(one) + Len(t)
          /\ \A i \in 1 .. Len(one) + Len(t) : (one \o t)[i] =
               IF i <= Len(one) THEN one[i] ELSE t[i - Len(one)]
      BY ConcatProperties
    <3>4. Len(one \o t) = Len(k)
      BY <3>1, <3>2, <3>3
    <3>5. \A i \in 1 .. Len(k) : (one \o t)[i] = k[i]
      BY <3>1, <3>2, <3>3
    <3> QED BY <3>3, <3>4, <3>5, SeqEqual
  <2> QED BY <2>1, <2>2, <2>3, <2>4
<1>10. p.socket = t /\ p.buffer = r.buffer /\ p.sent = r.sent
  BY DEF Connections
<1> HIDE DEF p
<1>11. Flow(Append(pre, u), p) = Flow(pre, r)
  BY <1>4, <1>9, <1>10, Zenon DEF Flow
<1>12. client'[c] = p /\ \A d \in Clients \ {c} : client'[d] = client[d]
  BY <1>1, <1>2, <1>3, <1>4, <1>8 DEF p
<1>13. /\ received'[c] = Append(pre, u)
       /\ \A d \in Clients \ {c} : received'[d] = received[d]
  BY <1>1, <1>2, <1>3, <1>4, <1>5, <1>7
<1>14. /\ c \notin carried => Numbered(Flow(pre, r))
       /\ c \notin carried /\ conn[c] # "closed" => InStep(pre, r)
  BY <1>3, <1>5 DEF Ordered
<1>15. /\ c \notin carried => Numbered(Flow(Append(pre, u), p))
       /\ c \notin carried /\ conn[c] # "closed" => InStep(Append(pre, u), p)
  BY <1>10, <1>11, <1>14 DEF InStep
<1> QED BY <1>1, <1>12, <1>13, <1>15 DEF Ordered

LEMMA OrderedInductive == IInv /\ Ordered /\ [Next]_vars => Ordered'
<1> SUFFICES ASSUME IInv, Ordered, [Next]_vars
             PROVE  Ordered'
  OBVIOUS
<1>1. CASE Loop
  BY <1>1, LoopOrdered
<1>2. ASSUME NEW c \in Clients, Elapse(c)
      PROVE  Ordered'
  <2>1. /\ client' = [client EXCEPT ![c].timer = "expired"]
        /\ conn' = conn /\ received' = received /\ carried' = carried
        /\ client \in [Clients -> Connections]
    BY <1>2 DEF Elapse, peers, IInv, AllSound
  <2>2. ASSUME NEW d \in Clients
        PROVE  /\ client'[d].socket = client[d].socket
               /\ client'[d].buffer = client[d].buffer
               /\ client'[d].sent = client[d].sent
    BY <2>1 DEF Connections
  <2> QED BY <2>1, <2>2 DEF Ordered, InStep, Flow
<1>3. ASSUME NEW c \in Clients, Client(c)
      PROVE  Ordered'
  <2>1. CASE Receive(c)
    BY <2>1, ReceiveOrdered
  <2>2. ~Receive(c) => UNCHANGED <<client, conn, received, carried>>
    BY <1>3 DEF Client, SendHeader, SendPayload, HangUp, server
  <2> QED BY <2>1, <2>2 DEF Ordered
<1>4. CASE UNCHANGED vars
  BY <1>4 DEF vars, server, peers, Ordered
<1> QED BY <1>1, <1>2, <1>3, <1>4 DEF Next

(***************************************************************************)
(* Over a connection that no restart carried, i3 never loses, repeats,     *)
(* cuts or reorders a message: whatever is written at once, queued, pushed *)
(* on by the watcher or dropped with the connection, the client reads the  *)
(* messages sent to it in order, and an open connection still holds all    *)
(* that was sent and not read.                                             *)
(***************************************************************************)
THEOREM AlwaysInOrder == Spec => []InOrder
<1>1. Init => Ordered
  <2>1. << >> \in Seq(Units) /\ Len(<< >>) = 0
    BY EmptySeq
  <2>2. Flow(<< >>, Fresh) = << >> /\ Fresh.sent = << >>
    BY <2>1, ConcatEmptySeq DEF Flow, Fresh
  <2>3. InStep(<< >>, Fresh)
    <3>1. \A i \in 1 .. 0 : FALSE
      OBVIOUS
    <3> QED BY <2>1, <2>2, <3>1 DEF InStep, Numbered
  <2>4. Init => \A c \in Clients : received[c] = << >> /\ client[c] = Fresh
    BY DEF Init
  <2> QED BY <2>3, <2>4 DEF Ordered, InStep
<1>2. IInv /\ Ordered => InOrder
  <2> SUFFICES ASSUME IInv, Ordered, NEW c \in Clients \ carried
               PROVE  /\ \A i \in DOMAIN Stream(c) : Stream(c)[i] = Nth(i)
                      /\ c \in Open => Len(Stream(c)) = 2 * Len(client[c].sent)
    BY DEF InOrder, Nth
  <2>1. Stream(c) = Flow(received[c], client[c])
    BY DEF Stream, Flow
  <2>2. Flow(received[c], client[c]) \in Seq(Units)
    BY IdleSending, FlowType
  <2>3. DOMAIN Stream(c) = 1 .. Len(Stream(c))
    BY <2>1, <2>2, LenProperties
  <2> QED BY <2>1, <2>3 DEF Ordered, Numbered, InStep, Open
<1> QED BY <1>1, <1>2, OrderedInductive, Always, PTL DEF Spec
=============================================================================
