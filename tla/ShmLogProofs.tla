---------------------------- MODULE ShmLogProofs ----------------------------
(***************************************************************************)
(* Proofs about the log in shared memory, for every size of the buffer and *)
(* every set of message lengths.                                           *)
(***************************************************************************)
EXTENDS ShmLog, SequenceTheorems, TLAPS

\* Where the writer stands in vlog() says whether the message in hand fits:
\* the part of the writer's state that TypeOK and CopyFits rest on.
WriterInv ==
  /\ logwalk \in Hdr .. Size - 1
  /\ lastwrap \in Hdr .. Size
  /\ header \in [next : Hdr .. Size - 1, last : Hdr .. Size, wrap_count : 0 .. WrapMod - 1]
  /\ wpc \in WriterPC
  /\ wpc = "wrapMarkers" => logwalk = Hdr
  /\ IF wpc = "idle" THEN len = 0 ELSE len \in Lens
  /\ wpc \in {"wrapMarkers", "copy"} => logwalk + len < Size
  /\ logged \in Nat

LEMMA WriterInvInit == Init => WriterInv
BY ShmLogAssumption DEF Init, WriterInv, WriterPC

LEMMA WriterInvNext == WriterInv /\ [Next]_vars => WriterInv'
<1> SUFFICES ASSUME WriterInv, [Next]_vars PROVE WriterInv'
  OBVIOUS
<1> USE ShmLogAssumption DEF WriterInv, WriterPC
<1>1. CASE Writer
  <2>1. ASSUME NEW l \in Lens, BeginLog(l) PROVE WriterInv'
    BY <2>1 DEF BeginLog, Fits, WrappedAt
  <2>2. CASE StoreWrapMarkers
    BY <2>2 DEF StoreWrapMarkers, Markers
  <2>3. CASE CountWrap
    BY <2>3 DEF CountWrap, Markers, NextCount
  <2>4. CASE CopyMessage
    <3>1. len \in Nat
      BY <2>4 DEF CopyMessage
    <3>2. logwalk' \in Hdr .. Size - 1
      BY <2>4, <3>1 DEF CopyMessage
    <3> QED BY <2>4, <3>2 DEF CopyMessage
  <2>5. CASE StoreMarkers
    <3>1. header' = [next |-> logwalk, last |-> lastwrap,
                     wrap_count |-> header.wrap_count]
      BY <2>5 DEF StoreMarkers, Markers
    <3>2. header' \in [next : Hdr .. Size - 1, last : Hdr .. Size,
                       wrap_count : 0 .. WrapMod - 1]
      BY <3>1
    <3> QED BY <2>5, <3>2 DEF StoreMarkers
  <2> QED BY <1>1, <2>1, <2>2, <2>3, <2>4, <2>5 DEF Writer
<1>2. CASE Reader
  <2>1. UNCHANGED writer
    BY <1>2 DEF Reader, ReadNextWrite, TestFirstByte, SkipByte, CheckForWrap,
                PrintToWrap, GoToTop, PrintTillEnd
  <2> QED BY <2>1 DEF writer
<1>3. CASE UNCHANGED vars
  BY <1>3 DEF vars, writer
<1> QED BY <1>1, <1>2, <1>3 DEF Next

-----------------------------------------------------------------------------
\* What the writer has copied last.
Newest == IF wpc = "markers" THEN logged + 1 ELSE logged

\* The two laps in the buffer, wherever the writer stands in vlog(): this one
\* up to logwalk, and what is left of the lap before up to lastwrap.
Laps ==
  /\ buf \in [Hdr .. Size - 1 -> Bytes]
  /\ Consecutive(buf, Hdr, logwalk)
  /\ logwalk > Hdr => buf[logwalk - 1] = [msg |-> Newest, nl |-> TRUE]
  /\ lastwrap < Size =>
       /\ Consecutive(buf, logwalk, lastwrap)
       /\ logwalk = Hdr =>
            lastwrap > Hdr /\ buf[lastwrap - 1] = [msg |-> Newest, nl |-> TRUE]
       /\ logwalk < lastwrap /\ logwalk > Hdr =>
            buf[lastwrap - 1] = [msg |-> buf[Hdr].msg - 1, nl |-> TRUE]
  /\ wpc = "idle" => header.next = logwalk /\ header.last = lastwrap

LogInv == WriterInv /\ Laps

LEMMA LogInvInit == Init => LogInv
<1> SUFFICES ASSUME Init PROVE Laps
  BY WriterInvInit DEF LogInv
<1>1. buf \in [Hdr .. Size - 1 -> Bytes]
  BY ShmLogAssumption DEF Init, Bytes, NUL
<1>2. Consecutive(buf, Hdr, logwalk)
  BY ShmLogAssumption DEF Init, Consecutive
<1> QED BY ShmLogAssumption, <1>1, <1>2 DEF Init, Laps, Newest

\* A part of consecutive bytes is consecutive.
LEMMA PartConsecutive ==
  ASSUME NEW b, NEW lo \in Int, NEW hi \in Int, NEW mid \in Int,
         Consecutive(b, lo, hi), lo <= mid
  PROVE  Consecutive(b, mid, hi)
BY DEF Consecutive

\* The newline comes last.
LEMMA CopiedBytes ==
  ASSUME NEW i
  PROVE  /\ i = logwalk + len - 1 => Copied(i) = [msg |-> logged + 1, nl |-> TRUE]
         /\ i # logwalk + len - 1 => Copied(i) = [msg |-> logged + 1, nl |-> FALSE]
<1>1. ASSUME i = logwalk + len - 1 PROVE (i = logwalk + len - 1) = TRUE
  BY <1>1
<1>2. ASSUME i # logwalk + len - 1 PROVE (i = logwalk + len - 1) = FALSE
  BY <1>2
<1> QED BY <1>1, <1>2, Zenon DEF Copied

\* Copying a message: what was behind it stays, what was before it goes on.
LEMMA CopyKeepsLaps ==
  ASSUME LogInv, CopyMessage PROVE LogInv'
<1> USE ShmLogAssumption
<1>0. WriterInv'
  BY WriterInvNext DEF LogInv, Next, Writer
<1> DEFINE end == logwalk + len
<1>1. /\ logwalk \in Hdr .. Size - 1 /\ lastwrap \in Hdr .. Size /\ logged \in Nat
      /\ len \in Nat \ {0} /\ end \in Int /\ end < Size
      /\ wpc = "copy" /\ wpc' = "markers"
      /\ logwalk' = end /\ lastwrap' = lastwrap /\ logged' = logged
  <2>1. /\ wpc = "copy" /\ wpc' = "markers"
        /\ logwalk' = end /\ lastwrap' = lastwrap /\ logged' = logged
    BY DEF CopyMessage
  <2>2. /\ logwalk \in Hdr .. Size - 1 /\ lastwrap \in Hdr .. Size /\ logged \in Nat
        /\ len \in Lens /\ end < Size
    BY <2>1 DEF LogInv, WriterInv
  <2> QED BY <2>1, <2>2
<1>2. /\ buf \in [Hdr .. Size - 1 -> Bytes]
      /\ Consecutive(buf, Hdr, logwalk)
      /\ logwalk > Hdr => buf[logwalk - 1] = [msg |-> logged, nl |-> TRUE]
  BY <1>1 DEF LogInv, Laps, Newest
<1> DEFINE inside == [msg |-> logged + 1, nl |-> FALSE]
           last == [msg |-> logged + 1, nl |-> TRUE]
<1>3. /\ buf'[end - 1] = last
      /\ \A i \in logwalk .. end - 2 : buf'[i] = inside
      /\ \A i \in Hdr .. Size - 1 : i \notin logwalk .. end - 1 => buf'[i] = buf[i]
      /\ buf' \in [Hdr .. Size - 1 -> Bytes]
  <2> DEFINE new(i) == IF i \in logwalk .. logwalk + len - 1 THEN Copied(i) ELSE buf[i]
  <2>1. buf' = [i \in Hdr .. Size - 1 |-> new(i)]
    <3>1. DOMAIN buf = Hdr .. Size - 1
      BY <1>2
    <3>2. buf' = [i \in DOMAIN buf |-> new(i)]
      BY DEF CopyMessage
    <3> QED BY <3>1, <3>2
  <2>2. Copied(end - 1) = last
    <3>1. end - 1 = logwalk + len - 1
      BY <1>1
    <3>2. Copied(logwalk + len - 1) = last
      BY CopiedBytes
    <3> QED BY <3>1, <3>2
  <2>3. ASSUME NEW i \in logwalk .. end - 2 PROVE Copied(i) = inside
    BY <1>1, CopiedBytes
  <2>4. last \in Bytes /\ inside \in Bytes
    BY <1>1 DEF Bytes
  <2>5. /\ end - 1 \in logwalk .. logwalk + len - 1
        /\ \A i \in logwalk .. end - 2 : i \in logwalk .. logwalk + len - 1
        /\ \A i \in logwalk .. logwalk + len - 1 : i = end - 1 \/ i \in logwalk .. end - 2
        /\ logwalk .. logwalk + len - 1 \subseteq Hdr .. Size - 1
    BY <1>1
  <2> HIDE DEF last, inside
  <2>6. \A i \in Hdr .. Size - 1 : new(i) \in Bytes
    BY <1>2, <2>2, <2>3, <2>4, <2>5
  <2>7. \A i \in Hdr .. Size - 1 : buf'[i] = new(i)
    BY <2>1
  <2>8. buf' \in [Hdr .. Size - 1 -> Bytes]
    BY <2>1, <2>6
  <2>9. buf'[end - 1] = last /\ \A i \in logwalk .. end - 2 : buf'[i] = inside
    BY <2>2, <2>3, <2>5, <2>7
  <2>10. \A i \in Hdr .. Size - 1 : i \notin logwalk .. end - 1 => buf'[i] = buf[i]
    BY <1>1, <2>7
  <2> QED BY <2>8, <2>9, <2>10
<1>3a. \A i \in logwalk .. end - 1 : buf'[i] = inside \/ buf'[i] = last
  <2>1. \A i \in logwalk .. end - 1 : i = end - 1 \/ i \in logwalk .. end - 2
    BY <1>1
  <2> QED BY <1>3, <2>1
<1>4. Consecutive(buf', Hdr, end)
  <2> SUFFICES ASSUME NEW i \in Hdr .. end - 1
               PROVE /\ buf'[i] # NUL
                     /\ i + 1 < end =>
                          buf'[i + 1].msg = IF buf'[i].nl THEN buf'[i].msg + 1
                                            ELSE buf'[i].msg
    BY DEF Consecutive
  <2>1. CASE i >= logwalk
    <3>1. CASE i = end - 1
      BY <1>1, <1>3, <3>1 DEF NUL
    <3>2. CASE i < end - 1
      <4>1. i \in logwalk .. end - 2 /\ i + 1 \in logwalk .. end - 1
        BY <1>1, <2>1, <3>2
      <4>2. buf'[i] = inside /\ (buf'[i + 1] = inside \/ buf'[i + 1] = last)
        BY <1>3, <1>3a, <4>1
      <4> QED BY <1>1, <4>2 DEF NUL
    <3> QED BY <1>1, <3>1, <3>2
  <2>2. CASE i + 1 < logwalk
    <3>1. buf'[i] = buf[i] /\ buf'[i + 1] = buf[i + 1]
      BY <1>1, <1>3, <2>2
    <3> QED BY <1>1, <1>2, <2>2, <3>1 DEF Consecutive
  <2>3. CASE i + 1 = logwalk
    <3>1. buf'[i] = buf[i] /\ buf[i] = [msg |-> logged, nl |-> TRUE]
      BY <1>1, <1>2, <1>3, <2>3, SMTT(20)
    <3>2. buf'[i + 1] = inside \/ buf'[i + 1] = last
      <4>1. i + 1 \in logwalk .. end - 1
        BY <1>1, <2>3
      <4> QED BY <1>3a, <4>1
    <3>3. buf[i] # NUL
      BY <1>1, <1>2, <2>3 DEF Consecutive
    <3> QED BY <3>1, <3>2, <3>3
  <2> QED BY <1>1, <2>1, <2>2, <2>3
<1>5. buf'[end - 1] = [msg |-> logged + 1, nl |-> TRUE]
  BY <1>1, <1>3
<1>6. ASSUME lastwrap < Size PROVE Consecutive(buf', end, lastwrap)
  <2>1. Consecutive(buf, end, lastwrap)
    BY <1>1, <1>6, PartConsecutive DEF LogInv, Laps
  <2>2. \A i \in end .. lastwrap - 1 : buf'[i] = buf[i]
    BY <1>1, <1>3, <1>6
  <2> SUFFICES ASSUME NEW i \in end .. lastwrap - 1
               PROVE /\ buf'[i] # NUL
                     /\ i + 1 < lastwrap =>
                          buf'[i + 1].msg = IF buf'[i].nl THEN buf'[i].msg + 1
                                            ELSE buf'[i].msg
    BY <1>1 DEF Consecutive
  <2>3. i + 1 < lastwrap => i + 1 \in end .. lastwrap - 1
    BY <1>1
  <2>4. buf'[i] = buf[i] /\ (i + 1 < lastwrap => buf'[i + 1] = buf[i + 1])
    BY <2>2, <2>3
  <2> QED BY <2>1, <2>4 DEF Consecutive
<1>7. ASSUME lastwrap < Size, end < lastwrap
      PROVE  buf'[lastwrap - 1] = [msg |-> buf'[Hdr].msg - 1, nl |-> TRUE]
  <2>1. buf'[lastwrap - 1] = buf[lastwrap - 1]
    BY <1>1, <1>3, <1>7
  <2>2. CASE logwalk = Hdr
    <3>1. buf[lastwrap - 1] = [msg |-> logged, nl |-> TRUE]
      BY <1>1, <1>7, <2>2 DEF LogInv, Laps, Newest
    <3>2. buf'[Hdr] = inside \/ buf'[Hdr] = last
      <4>1. Hdr \in logwalk .. end - 1
        BY <1>1, <2>2
      <4> QED BY <1>3a, <4>1
    <3>3. buf'[Hdr].msg = logged + 1
      BY <3>2
    <3> QED BY <1>1, <2>1, <3>1, <3>3
  <2>3. CASE logwalk > Hdr
    <3>1. buf'[Hdr] = buf[Hdr]
      BY <1>1, <1>3, <2>3
    <3>2. buf[lastwrap - 1] = [msg |-> buf[Hdr].msg - 1, nl |-> TRUE]
      BY <1>1, <1>7, <2>3 DEF LogInv, Laps
    <3> QED BY <2>1, <3>1, <3>2
  <2> QED BY <1>1, <2>2, <2>3
<1>8. Newest' = logged + 1
  BY <1>1 DEF Newest
<1> QED
  BY <1>0, <1>1, <1>3, <1>4, <1>5, <1>6, <1>7, <1>8 DEF LogInv, Laps

LEMMA LogInvNext == LogInv /\ [Next]_vars => LogInv'
<1> SUFFICES ASSUME LogInv, [Next]_vars PROVE LogInv'
  OBVIOUS
<1> USE ShmLogAssumption
<1>0. WriterInv /\ WriterInv'
  BY WriterInvNext DEF LogInv
<1>1. ASSUME NEW l \in Lens, BeginLog(l) PROVE Laps'
  <2>1. CASE Fits(l)
    <3>1. UNCHANGED <<buf, logwalk, lastwrap, logged>> /\ wpc' = "copy" /\ Newest' = Newest
      BY <1>1, <2>1 DEF BeginLog, Newest
    <3> QED BY <3>1 DEF LogInv, Laps, Consecutive
  <2>2. CASE ~Fits(l)
    <3>1. /\ UNCHANGED <<buf, logged>> /\ lastwrap' = logwalk /\ logwalk' = Hdr
          /\ wpc' = "wrapMarkers" /\ Newest' = logged /\ Newest = logged
      BY <1>1, <2>2 DEF BeginLog, WrappedAt, Newest
    <3>2. logwalk > Hdr /\ logwalk \in Int
      BY <1>0, <2>2 DEF WriterInv, Fits
    <3>3. Consecutive(buf', Hdr, Hdr)
      BY DEF Consecutive
    <3> QED BY <3>1, <3>2, <3>3 DEF LogInv, Laps
  <2> QED BY <2>1, <2>2
<1>2. ASSUME StoreWrapMarkers \/ CountWrap PROVE Laps'
  <2>1. UNCHANGED <<buf, logwalk, lastwrap, logged>> /\ wpc' # "idle"
        /\ Newest' = Newest
    BY <1>2 DEF StoreWrapMarkers, CountWrap, Newest
  <2> QED BY <2>1 DEF LogInv, Laps
<1>3. ASSUME StoreMarkers PROVE Laps'
  <2>1. UNCHANGED <<buf, logwalk, lastwrap>> /\ Newest' = Newest
        /\ header' = [next |-> logwalk, last |-> lastwrap,
                      wrap_count |-> header.wrap_count]
    BY <1>0, <1>3 DEF StoreMarkers, Newest, Markers, WriterInv
  <2> QED BY <2>1 DEF LogInv, Laps
<1>4. ASSUME UNCHANGED writer PROVE Laps'
  <2>1. UNCHANGED <<buf, logwalk, lastwrap, logged, wpc, header>> /\ Newest' = Newest
    BY <1>4 DEF writer, Newest
  <2> QED BY <2>1 DEF LogInv, Laps
<1>5. Reader => UNCHANGED writer
  BY DEF Reader, ReadNextWrite, TestFirstByte, SkipByte, CheckForWrap,
         PrintToWrap, GoToTop, PrintTillEnd
<1> QED
  BY <1>0, <1>1, <1>2, <1>3, <1>4, <1>5, CopyKeepsLaps
  DEF LogInv, Next, Writer, vars

(***************************************************************************)
(* For every buffer larger than the header and the largest message, and    *)
(* for messages of any lengths: vlog() writes inside the mapping, leaves a *)
(* byte behind the next-write marker that a reader may look at, and        *)
(* between two calls the header tells where the newest messages and the    *)
(* rest of the lap before are.                                             *)
(***************************************************************************)
THEOREM HeaderTellsTheLog == Spec => []MarkersTellTheLog
<1>1. LogInv => MarkersTellTheLog
  BY ShmLogAssumption DEF LogInv, WriterInv, Laps, Newest, MarkersTellTheLog, CopyFits
<1> QED
  BY LogInvInit, LogInvNext, <1>1, PTL DEF Spec

-----------------------------------------------------------------------------
(***************************************************************************)
(* The reader, for any interleaving of i3-dump-log's loads with vlog()'s   *)
(* stores.                                                                 *)
(***************************************************************************)

\* More of the writer: a wrap is counted behind its marker, which then never
\* goes away; there is something behind the header once a message is there.
WriterMore ==
  /\ wpc = "wrapMarkers" \/ header.wrap_count # 0 => lastwrap < Size
  /\ wpc = "markers" \/ (wpc = "idle" /\ logged > 0) => logwalk > Hdr
  /\ wpc # "idle" => len \in lens /\ logged < MaxMsgs
  /\ logged <= MaxMsgs
  /\ lens \subseteq Lens

WriterAll == LogInv /\ WriterMore

LEMMA WriterAllInit == Init => WriterAll
BY LogInvInit, ShmLogAssumption DEF Init, WriterAll, WriterMore

LEMMA ReaderLeavesWriter == Reader => UNCHANGED writer
BY DEF Reader, ReadNextWrite, TestFirstByte, SkipByte, CheckForWrap,
       PrintToWrap, GoToTop, PrintTillEnd

LEMMA WriterLeavesReader == Writer => UNCHANGED reader
BY DEF Writer, BeginLog, StoreWrapMarkers, CountWrap, CopyMessage, StoreMarkers

LEMMA WriterAllNext == WriterAll /\ [Next]_vars => WriterAll'
<1> SUFFICES ASSUME WriterAll, [Next]_vars
             PROVE  WriterMore'
  BY LogInvNext DEF WriterAll
<1>0. /\ WriterMore /\ WriterInv
      /\ MaxMsgs \in Nat /\ Hdr \in Nat /\ Size \in Nat /\ Lens \subseteq Nat \ {0}
  BY ShmLogAssumption DEF WriterAll, LogInv
<1>1. ASSUME NEW l \in Lens, BeginLog(l) PROVE WriterMore'
  BY <1>0, <1>1 DEF BeginLog, WriterMore, WriterInv, WrappedAt
<1>2. CASE StoreWrapMarkers
  <2>1. header'.wrap_count = header.wrap_count
    BY <1>0, <1>2 DEF StoreWrapMarkers, Markers, WriterInv
  <2> QED BY <1>0, <1>2, <2>1 DEF StoreWrapMarkers, WriterMore
<1>3. CASE CountWrap
  BY <1>0, <1>3 DEF CountWrap, WriterMore
<1>4. CASE CopyMessage
  <2>1. len \in Lens /\ logwalk \in Hdr .. Size - 1 /\ logwalk' = logwalk + len
    BY <1>0, <1>4 DEF CopyMessage, WriterInv
  <2>2. logwalk' > Hdr
    BY <1>0, <2>1
  <2> QED BY <1>0, <1>4, <2>2 DEF CopyMessage, WriterMore
<1>5. CASE StoreMarkers
  <2>1. header'.wrap_count = header.wrap_count
    BY <1>0, <1>5 DEF StoreMarkers, Markers, WriterInv
  <2> QED BY <1>0, <1>5, <2>1 DEF StoreMarkers, WriterMore, WriterInv
<1>6. CASE UNCHANGED writer
  BY <1>0, <1>6 DEF writer, WriterMore
<1> QED BY <1>1, <1>2, <1>3, <1>4, <1>5, <1>6, ReaderLeavesWriter DEF Next, Writer, vars

(***************************************************************************)
(* What the copying of a message changes in the buffer.                    *)
(***************************************************************************)
LEMMA CopyChanges ==
  ASSUME WriterAll, CopyMessage
  PROVE  /\ buf' \in [Hdr .. Size - 1 -> Bytes]
         /\ logwalk' = logwalk + len /\ logwalk' \in Hdr + 1 .. Size - 1
         /\ buf'[logwalk' - 1].nl
         /\ \A i \in logwalk .. logwalk' - 2 : ~buf'[i].nl
         /\ \A i \in Hdr .. Size - 1 : i \notin logwalk .. logwalk' - 1 => buf'[i] = buf[i]
<1> USE ShmLogAssumption
<1>1. /\ wpc = "copy" /\ logwalk' = logwalk + len /\ len \in Nat \ {0}
      /\ logwalk \in Hdr .. Size - 1 /\ logwalk + len < Size
      /\ buf \in [Hdr .. Size - 1 -> Bytes]
  BY DEF WriterAll, LogInv, WriterInv, Laps, CopyMessage
<1>2. LogInv'
  BY CopyKeepsLaps DEF WriterAll
<1>3. /\ buf' \in [Hdr .. Size - 1 -> Bytes]
      /\ buf'[logwalk' - 1] = [msg |-> Newest', nl |-> TRUE]
  BY <1>1, <1>2 DEF LogInv, Laps
<1>4. buf' = [i \in Hdr .. Size - 1 |->
                IF i \in logwalk .. logwalk + len - 1 THEN Copied(i) ELSE buf[i]]
  BY <1>1 DEF CopyMessage
<1>5. ASSUME NEW i \in logwalk .. logwalk' - 2
      PROVE  ~buf'[i].nl
  <2>1. i \in Hdr .. Size - 1 /\ i \in logwalk .. logwalk + len - 1 /\ i # logwalk + len - 1
    BY <1>1
  <2>2. Copied(i) = [msg |-> logged + 1, nl |-> FALSE]
    BY <2>1, CopiedBytes
  <2> QED BY <1>4, <2>1, <2>2
<1>6. \A i \in Hdr .. Size - 1 : i \notin logwalk .. logwalk' - 1 => buf'[i] = buf[i]
  BY <1>1, <1>4
<1> QED BY <1>1, <1>3, <1>5, <1>6

-----------------------------------------------------------------------------
(***************************************************************************)
(* The search for a newline: behind every byte that was ever written there *)
(* is a newline, whatever is written over it meanwhile.                    *)
(***************************************************************************)
NewlineFrom(b, p) == \E j \in p .. Size - 1 : b[j].nl

Searching ==
  /\ \A i \in Hdr .. Size - 1 : buf[i] # NUL => NewlineFrom(buf, i)
  /\ rpc \in ReaderPC \ {"overrun"}
  /\ rpc \in {"skip", "skipLine"} => walk \in Hdr .. Size - 1
  /\ rpc = "skipLine" => NewlineFrom(buf, walk)
  /\ rpc \in {"oldWrap", "oldLines", "top"} => walk \in Hdr .. Size
  /\ rpc \in {"newWrap", "wrapLines", "newLines"} => walk = Hdr

LEMMA SearchingInit == Init => Searching
BY ShmLogAssumption DEF Init, Searching, ReaderPC

LEMMA SearchingNext == WriterAll /\ Searching /\ [Next]_vars => Searching'
<1> SUFFICES ASSUME WriterAll, Searching, [Next]_vars
             PROVE  Searching'
  OBVIOUS
<1> USE ShmLogAssumption
<1>1. /\ buf \in [Hdr .. Size - 1 -> Bytes]
      /\ header.next \in Hdr .. Size - 1 /\ header.last \in Hdr .. Size
  BY DEF WriterAll, LogInv, WriterInv, Laps
<1>2. CASE CopyMessage
  <2>1. /\ logwalk' \in Hdr + 1 .. Size - 1 /\ buf'[logwalk' - 1].nl
        /\ \A i \in Hdr .. Size - 1 : i \notin logwalk .. logwalk' - 1 => buf'[i] = buf[i]
        /\ logwalk \in Hdr .. Size - 1
    BY <1>2, CopyChanges DEF WriterAll, LogInv, WriterInv
  <2>2. ASSUME NEW p \in Hdr .. Size - 1, NewlineFrom(buf, p) \/ p \in logwalk .. logwalk' - 1
        PROVE  NewlineFrom(buf', p)
    <3> DEFINE e == logwalk' - 1
    <3>0. e \in Hdr .. Size - 1 /\ buf'[e].nl
      BY <2>1
    <3> HIDE DEF e
    <3>1. CASE p <= e
      <4>1. e \in p .. Size - 1
        BY <3>0, <3>1
      <4> QED BY <3>0, <4>1 DEF NewlineFrom
    <3>2. CASE p > e
      <4>0. p \notin logwalk .. e
        BY <2>1, <3>0, <3>2
      <4>1. PICK j \in p .. Size - 1 : buf[j].nl
        BY <2>2, <4>0 DEF NewlineFrom, e
      <4>2. j \notin logwalk .. e /\ j \in Hdr .. Size - 1
        BY <2>1, <3>0, <3>2, <4>1
      <4>3. buf'[j] = buf[j]
        BY <2>1, <4>2 DEF e
      <4> QED BY <4>1, <4>3 DEF NewlineFrom
    <3> QED BY <3>0, <3>1, <3>2
  <2>3. ASSUME NEW i \in Hdr .. Size - 1, buf'[i] # NUL
        PROVE  NewlineFrom(buf', i)
    BY <2>1, <2>2, <2>3 DEF Searching
  <2>4. UNCHANGED reader
    BY <1>2, WriterLeavesReader DEF Writer
  <2> QED BY <2>2, <2>3, <2>4 DEF Searching, reader
<1>3. CASE UNCHANGED <<buf, reader>>
  BY <1>3 DEF Searching, NewlineFrom, reader
<1>4. CASE ReadNextWrite
  BY <1>1, <1>4 DEF ReadNextWrite, Searching, NewlineFrom, ReaderPC, writer
<1>5. CASE TestFirstByte
  BY <1>1, <1>5 DEF TestFirstByte, Searching, NewlineFrom, ReaderPC, writer
<1>6. CASE SkipByte
  <2>1. rpc = "skipLine" /\ walk \in Hdr .. Size - 1 /\ walk' = walk + 1 /\ buf' = buf
    BY <1>6 DEF SkipByte, Searching, writer
  <2>2. PICK j \in walk .. Size - 1 : buf[j].nl
    BY <1>6 DEF SkipByte, Searching, NewlineFrom
  <2>3. CASE buf[walk].nl
    BY <1>6, <2>1, <2>3 DEF SkipByte, Searching, NewlineFrom, ReaderPC
  <2>4. CASE ~buf[walk].nl
    <3>1. j # walk
      BY <2>2, <2>4
    <3>2. j \in walk + 1 .. Size - 1 /\ walk + 1 # Size
      BY <2>1, <2>2, <3>1
    <3>3. rpc' = "skipLine" /\ NewlineFrom(buf, walk + 1)
      BY <1>6, <2>1, <2>2, <2>4, <3>2 DEF SkipByte, NewlineFrom
    <3> QED BY <2>1, <3>2, <3>3 DEF Searching, NewlineFrom, ReaderPC
  <2> QED BY <2>3, <2>4
<1>7. CASE \/ CheckForWrap("oldWrap", "oldLines", "top")
           \/ CheckForWrap("newWrap", "wrapLines", "newLines")
  BY <1>7 DEF CheckForWrap, Searching, NewlineFrom, ReaderPC, writer
<1>8. CASE PrintToWrap("oldLines", "top") \/ PrintToWrap("wrapLines", "newLines")
  BY <1>1, <1>8, SMTT(20) DEF PrintToWrap, Swrite, Searching, NewlineFrom, ReaderPC, writer
<1>9. CASE GoToTop
  BY <1>9 DEF GoToTop, Searching, NewlineFrom, ReaderPC, writer
<1>10. CASE PrintTillEnd
  BY <1>10 DEF PrintTillEnd, Swrite, Searching, NewlineFrom, ReaderPC, writer
<1>11. ASSUME Writer, ~CopyMessage PROVE UNCHANGED <<buf, reader>>
  BY <1>11 DEF Writer, BeginLog, StoreWrapMarkers, CountWrap, StoreMarkers, reader
<1> QED BY <1>2, <1>3, <1>4, <1>5, <1>6, <1>7, <1>8, <1>9, <1>10, <1>11
        DEF Next, Reader, vars, writer
-----------------------------------------------------------------------------
(***************************************************************************)
(* As long as all messages have the length l, they start at the same       *)
(* places in every lap, and every lap ends at the same place.              *)
(***************************************************************************)
Aligned(p, l) == p \in Hdr .. Size - 1 /\ \E k \in Nat : p = Hdr + k * l
EndOfLap(p, l) == p = Size \/ (Aligned(p, l) /\ p + l >= Size)

Even(l) ==
  /\ Aligned(logwalk, l) /\ Aligned(header.next, l)
  /\ EndOfLap(lastwrap, l) /\ EndOfLap(header.last, l)
  /\ \A p \in Hdr .. Size - 1 : buf[p].nl => Aligned(p + 1, l)
  /\ rpc \in {"skip", "oldWrap", "oldLines", "top"} => Aligned(walk, l)
  /\ rpc # "negative"

EvenInv == \A l \in Nat \ {0} : lens \subseteq {l} => Even(l)

LEMMA AlignedStep ==
  ASSUME NEW l \in Nat \ {0}, NEW p, Aligned(p, l), p + l < Size
  PROVE  Aligned(p + l, l)
<1>1. PICK k \in Nat : p = Hdr + k * l
  BY DEF Aligned
<1>2. k + 1 \in Nat /\ (k + 1) * l = k * l + l
  OBVIOUS
<1>3. p + l = Hdr + (k + 1) * l
  BY <1>1, <1>2, ShmLogAssumption
<1>4. p + l \in Hdr .. Size - 1
  BY ShmLogAssumption DEF Aligned
<1> QED BY <1>2, <1>3, <1>4 DEF Aligned

LEMMA AlignedHdr ==
  ASSUME NEW l \in Nat \ {0}
  PROVE  Aligned(Hdr, l)
<1>1. 0 \in Nat /\ Hdr = Hdr + 0 * l
  BY ShmLogAssumption
<1> QED BY <1>1, ShmLogAssumption DEF Aligned

\* Nothing aligned is behind the end of a lap.
LEMMA AlignedInLap ==
  ASSUME NEW l \in Nat \ {0}, NEW p, NEW e, Aligned(p, l), EndOfLap(e, l)
  PROVE  p <= e
<1> USE ShmLogAssumption
<1>1. CASE e = Size
  BY <1>1 DEF Aligned
<1>2. CASE e # Size
  <2>1. /\ p \in Hdr .. Size - 1 /\ e \in Hdr .. Size - 1 /\ e + l >= Size
        /\ (\E k \in Nat : p = Hdr + k * l) /\ \E k \in Nat : e = Hdr + k * l
    BY <1>2 DEF Aligned, EndOfLap
  <2>2. PICK i \in Nat : p = Hdr + i * l
    BY <2>1
  <2>3. PICK j \in Nat : e = Hdr + j * l
    BY <2>1
  <2>4. CASE i <= j
    <3>1. PICK d \in Nat : j = i + d
      BY <2>4
    <3>2. j * l = i * l + d * l /\ d * l \in Nat
      BY <3>1
    <3> QED BY <2>1, <2>2, <2>3, <3>2
  <2>5. CASE i > j
    <3>1. PICK d \in Nat : i = j + 1 + d
      <4>1. i - j - 1 \in Nat /\ i = j + 1 + (i - j - 1)
        BY <2>5
      <4> QED BY <4>1
    <3>2. i * l = j * l + l + d * l /\ d * l \in Nat /\ j * l \in Nat
      BY <3>1
    <3>3. p >= e + l
      BY <2>1, <2>2, <2>3, <3>2
    <3> QED BY <2>1, <3>3
  <2> QED BY <2>4, <2>5
<1> QED BY <1>1, <1>2

LEMMA EvenInit == Init => EvenInv
BY AlignedHdr, ShmLogAssumption DEF Init, EvenInv, Even, EndOfLap, NUL

LEMMA EvenNext == WriterAll /\ Searching /\ EvenInv /\ [Next]_vars => EvenInv'
<1> SUFFICES ASSUME WriterAll, Searching, EvenInv, [Next]_vars,
                    NEW l \in Nat \ {0}, lens' \subseteq {l}
             PROVE  Even(l)'
  BY DEF EvenInv
<1> USE ShmLogAssumption
<1>0. /\ WriterInv /\ WriterMore
      /\ header.next \in Hdr .. Size - 1 /\ header.last \in Hdr .. Size
      /\ buf \in [Hdr .. Size - 1 -> Bytes]
  BY DEF WriterAll, LogInv, WriterInv, Laps
<1>1. Even(l)
  <2>1. lens \subseteq lens'
    BY DEF Next, Writer, Reader, BeginLog, StoreWrapMarkers, CountWrap, CopyMessage,
           StoreMarkers, ReadNextWrite, TestFirstByte, SkipByte, CheckForWrap,
           PrintToWrap, GoToTop, PrintTillEnd, vars, writer
  <2> QED BY <2>1 DEF EvenInv
<1>2. ASSUME NEW m \in Lens, BeginLog(m) PROVE Even(l)'
  <2>1. m = l /\ UNCHANGED <<buf, header, reader>>
    BY <1>2 DEF BeginLog
  <2>2. CASE Fits(m)
    <3>1. UNCHANGED <<logwalk, lastwrap>>
      BY <1>2, <2>2 DEF BeginLog
    <3> QED BY <1>1, <2>1, <3>1 DEF Even, reader
  <2>3. CASE ~Fits(m)
    <3>1. lastwrap' = logwalk /\ logwalk' = Hdr
      BY <1>2, <2>3 DEF BeginLog, WrappedAt
    <3>2. logwalk + l >= Size
      BY <1>0, <2>1, <2>3 DEF Fits, WriterInv
    <3>3. EndOfLap(logwalk, l)
      BY <1>1, <3>2 DEF Even, EndOfLap
    <3> QED BY <1>1, <2>1, <3>1, <3>3, AlignedHdr DEF Even, reader
  <2> QED BY <2>2, <2>3
<1>3. CASE StoreWrapMarkers \/ CountWrap \/ StoreMarkers
  <2>1. /\ header'.next \in {header.next, logwalk}
        /\ header'.last \in {header.last, lastwrap}
        /\ UNCHANGED <<buf, logwalk, lastwrap, reader>>
    <3>1. CASE StoreWrapMarkers
      BY <1>0, <3>1 DEF StoreWrapMarkers, Markers, WriterInv
    <3>2. CASE CountWrap
      BY <1>0, <3>2 DEF CountWrap, WriterInv
    <3>3. CASE StoreMarkers
      BY <1>0, <3>3 DEF StoreMarkers, Markers, WriterInv
    <3> QED BY <1>3, <3>1, <3>2, <3>3
  <2> QED BY <1>1, <2>1 DEF Even, reader
<1>4. CASE CopyMessage
  <2>1. /\ logwalk' = logwalk + len /\ logwalk' \in Hdr + 1 .. Size - 1
        /\ \A i \in logwalk .. logwalk' - 2 : ~buf'[i].nl
        /\ \A i \in Hdr .. Size - 1 : i \notin logwalk .. logwalk' - 1 => buf'[i] = buf[i]
        /\ UNCHANGED <<lastwrap, header, reader>>
    BY <1>4, CopyChanges DEF CopyMessage
  <2>2. len = l
    BY <1>0, <1>4 DEF CopyMessage, WriterMore
  <2>3. Aligned(logwalk', l)
    <3>1. logwalk + l < Size /\ logwalk' = logwalk + l
      BY <2>1, <2>2
    <3> QED BY <1>1, <3>1, AlignedStep DEF Even
  <2>4. ASSUME NEW p \in Hdr .. Size - 1, buf'[p].nl
        PROVE  Aligned(p + 1, l)
    <3>0. logwalk \in Hdr .. Size - 1
      BY <1>0 DEF WriterInv
    <3>1. CASE p \in logwalk .. logwalk' - 1
      <4>1. p = logwalk' - 1
        BY <2>1, <2>4, <3>0, <3>1
      <4>2. p + 1 = logwalk'
        BY <2>1, <4>1
      <4> QED BY <2>3, <4>2
    <3>2. CASE p \notin logwalk .. logwalk' - 1
      BY <1>1, <2>1, <2>4, <3>2 DEF Even
    <3> QED BY <3>1, <3>2
  <2> QED BY <1>1, <2>1, <2>3, <2>4 DEF Even, reader
<1>5. CASE UNCHANGED vars
  BY <1>1, <1>5 DEF vars, writer, reader, Even
<1>6. CASE Reader
  <2>1. UNCHANGED <<buf, logwalk, lastwrap, header>>
    BY <1>6, ReaderLeavesWriter DEF writer
  <2> SUFFICES /\ rpc' \in {"skip", "oldWrap", "oldLines", "top"} => Aligned(walk', l)
               /\ rpc' # "negative"
    BY <1>1, <2>1 DEF Even
  <2>2. CASE ReadNextWrite
    BY <1>1, <2>2 DEF ReadNextWrite, Even
  <2>3. CASE TestFirstByte
    BY <1>1, <2>3 DEF TestFirstByte, Even
  <2>4. CASE SkipByte
    BY <1>1, <2>4 DEF SkipByte, Searching, Even
  <2>5. CASE \/ CheckForWrap("oldWrap", "oldLines", "top")
             \/ CheckForWrap("newWrap", "wrapLines", "newLines")
    BY <1>1, <2>5 DEF CheckForWrap, Even
  <2>6. CASE PrintToWrap("oldLines", "top")
    <3>1. walk <= header.last
      BY <1>1, <2>6, AlignedInLap DEF PrintToWrap, Even
    <3>2. walk \in Hdr .. Size
      BY <2>6 DEF PrintToWrap, Searching
    <3>3. ~(header.last < walk)
      BY <1>0, <3>1, <3>2
    <3> QED BY <2>6, <3>3, AlignedHdr DEF PrintToWrap, Swrite
  <2>7. CASE PrintToWrap("wrapLines", "newLines")
    <3>1. walk = Hdr /\ ~(header.last < walk)
      BY <1>0, <2>7 DEF PrintToWrap, Searching
    <3> QED BY <2>7, <3>1, AlignedHdr DEF PrintToWrap, Swrite
  <2>8. CASE GoToTop
    BY <2>8, AlignedHdr DEF GoToTop
  <2>9. CASE PrintTillEnd
    <3>1. walk = Hdr /\ ~(header.next < walk)
      BY <1>0, <2>9 DEF PrintTillEnd, Searching
    <3> QED BY <2>9, <3>1 DEF PrintTillEnd, Swrite
  <2> QED BY <1>6, <2>2, <2>3, <2>4, <2>5, <2>6, <2>7, <2>8, <2>9 DEF Reader
<1> QED BY <1>2, <1>3, <1>4, <1>5, <1>6 DEF Next, Writer
-----------------------------------------------------------------------------
(***************************************************************************)
(* A dump during which nothing was logged.                                 *)
(***************************************************************************)
\* Consecutive bytes behind consecutive bytes.
LEMMA JoinConsecutive ==
  ASSUME NEW s \in Seq(Bytes), NEW t \in Seq(Bytes),
         Consecutive(s, 1, Len(s) + 1), Consecutive(t, 1, Len(t) + 1),
         Len(s) > 0 /\ Len(t) > 0 =>
           t[1].msg = IF s[Len(s)].nl THEN s[Len(s)].msg + 1 ELSE s[Len(s)].msg
  PROVE  Consecutive(s \o t, 1, Len(s \o t) + 1)
<1>1. PICK m \in Nat : m = Len(s)
  BY LenProperties
<1>2. PICK n \in Nat : n = Len(t)
  BY LenProperties
<1>3. PICK u \in Seq(Bytes) : u = s \o t
  BY ConcatProperties
<1>4. /\ Len(u) = m + n
      /\ \A i \in 1 .. m + n : u[i] = IF i <= m THEN s[i] ELSE t[i - m]
  BY <1>1, <1>2, <1>3, ConcatProperties
<1>5. SUFFICES ASSUME NEW i \in 1 .. m + n
               PROVE  /\ u[i] # NUL
                      /\ i + 1 < m + n + 1 =>
                           u[i + 1].msg = IF u[i].nl THEN u[i].msg + 1 ELSE u[i].msg
  BY <1>3, <1>4 DEF Consecutive
<1>6. /\ \A j \in 1 .. m : s[j] # NUL
      /\ \A j \in 1 .. m - 1 : s[j + 1].msg = IF s[j].nl THEN s[j].msg + 1 ELSE s[j].msg
      /\ \A j \in 1 .. n : t[j] # NUL
      /\ \A j \in 1 .. n - 1 : t[j + 1].msg = IF t[j].nl THEN t[j].msg + 1 ELSE t[j].msg
  <2>1. ASSUME NEW j \in 1 .. m
        PROVE  /\ s[j] # NUL
               /\ j + 1 < m + 1 => s[j + 1].msg = IF s[j].nl THEN s[j].msg + 1 ELSE s[j].msg
    BY <1>1 DEF Consecutive
  <2>2. ASSUME NEW j \in 1 .. n
        PROVE  /\ t[j] # NUL
               /\ j + 1 < n + 1 => t[j + 1].msg = IF t[j].nl THEN t[j].msg + 1 ELSE t[j].msg
    BY <1>2 DEF Consecutive
  <2>3. /\ \A j \in 1 .. m - 1 : j \in 1 .. m /\ j + 1 < m + 1
        /\ \A j \in 1 .. n - 1 : j \in 1 .. n /\ j + 1 < n + 1
    OBVIOUS
  <2> QED BY <2>1, <2>2, <2>3
<1>7. CASE i < m
  <2>1. i \in 1 .. m - 1 /\ i \in 1 .. m /\ i + 1 \in 1 .. m + n /\ i + 1 <= m /\ i <= m
    BY <1>7
  <2>2. u[i] = s[i] /\ u[i + 1] = s[i + 1]
    BY <1>4, <2>1
  <2> QED BY <1>6, <2>1, <2>2
<1>8. CASE i = m
  <2>1. u[i] = s[m] /\ m \in 1 .. m
    BY <1>4, <1>8
  <2>2. i + 1 < m + n + 1 => n > 0 /\ u[i + 1] = t[1]
    BY <1>4, <1>8
  <2> QED BY <1>1, <1>2, <1>6, <1>8, <2>1, <2>2
<1>9. CASE i > m
  <2>1. PICK j \in 1 .. n : j = i - m
    BY <1>9
  <2>2. u[i] = t[j] /\ (i + 1 < m + n + 1 => j \in 1 .. n - 1 /\ u[i + 1] = t[j + 1])
    BY <1>4, <1>9, <2>1
  <2> QED BY <1>6, <2>1, <2>2, SMTT(20)
<1> QED BY <1>7, <1>8, <1>9

\* swrite() of a piece of the buffer.
Piece(lo, hi) == [i \in 1 .. hi - lo |-> buf[lo + i - 1]]

LEMMA PieceConsecutive ==
  ASSUME buf \in [Hdr .. Size - 1 -> Bytes],
         NEW lo \in Hdr .. Size, NEW hi \in Hdr .. Size, lo <= hi,
         Consecutive(buf, lo, hi)
  PROVE  /\ Piece(lo, hi) \in Seq(Bytes) /\ Len(Piece(lo, hi)) = hi - lo
         /\ \A i \in 1 .. hi - lo : Piece(lo, hi)[i] = buf[lo + i - 1]
         /\ Consecutive(Piece(lo, hi), 1, Len(Piece(lo, hi)) + 1)
<1> USE ShmLogAssumption
<1>1. PICK n \in Nat : n = hi - lo
  OBVIOUS
<1>2. \A i \in 1 .. n : lo + i - 1 \in lo .. hi - 1 /\ buf[lo + i - 1] \in Bytes
  BY <1>1
<1>3. Piece(lo, hi) = [i \in 1 .. n |-> buf[lo + i - 1]]
  BY <1>1 DEF Piece
<1>4. PICK t : t = Piece(lo, hi)
  OBVIOUS
<1>5. t \in [1 .. n -> Bytes] /\ \A i \in 1 .. n : t[i] = buf[lo + i - 1]
  BY <1>2, <1>3, <1>4
<1>6. t \in Seq(Bytes) /\ Len(t) = n
  BY <1>5, IsASeq, LenProperties
<1>7. Consecutive(t, 1, n + 1)
  <2> SUFFICES ASSUME NEW i \in 1 .. n
               PROVE  /\ t[i] # NUL
                      /\ i + 1 < n + 1 =>
                           t[i + 1].msg = IF t[i].nl THEN t[i].msg + 1 ELSE t[i].msg
    BY DEF Consecutive
  <2>1. PICK p \in lo .. hi - 1 : p = lo + i - 1
    BY <1>1
  <2>2. t[i] = buf[p] /\ (i + 1 < n + 1 => p + 1 < hi /\ t[i + 1] = buf[p + 1])
    BY <1>1, <1>5, <2>1
  <2> QED BY <2>2 DEF Consecutive
<1> QED BY <1>1, <1>4, <1>5, <1>6, <1>7

\* What is printed of the lap before, when this lap comes next.
EndsLap(o) ==
  Len(o) > 0 => /\ Consecutive(o, 1, Len(o) + 1)
                /\ o[Len(o)] = [msg |-> buf[Hdr].msg - 1, nl |-> TRUE]

Dumped(o) ==
  /\ Len(o) > 0 /\ o[Len(o)] = [msg |-> logged, nl |-> TRUE]
  /\ Consecutive(o, 1, Len(o) + 1)

Frozen == wpc = "idle" /\ logged = began /\ logged > 0

Dumping ==
  /\ rpc = "start" => began = 0
  /\ began \in Nat /\ (began <= logged \/ began > MaxMsgs)
  /\ out \in Seq(Bytes)
  /\ rpc \in {"start", "skip", "skipLine", "oldWrap"} => wraps = 0
  /\ rpc \in {"start", "skip", "skipLine", "oldWrap", "oldLines"} => out = << >>
  /\ Frozen =>
       /\ rpc \in {"skip", "skipLine", "oldWrap", "oldLines"} => walk >= header.next
       /\ rpc = "oldLines" => header.wrap_count # 0
       /\ rpc \in {"oldLines", "top", "newWrap", "newLines"} => wraps = header.wrap_count
       /\ rpc \in {"top", "newWrap", "newLines"} => EndsLap(out)
       /\ rpc # "wrapLines"
       /\ rpc = "done" => Dumped(out)

LEMMA DumpingInit == Init => Dumping
<1>1. << >> \in Seq(Bytes)
  BY EmptySeq
<1> QED BY <1>1 DEF Init, Dumping, Frozen

LEMMA DumpingReader ==
  ASSUME WriterAll, Searching, Dumping, Reader
  PROVE  Dumping'
<1> USE ShmLogAssumption
<1>0. UNCHANGED <<buf, logwalk, lastwrap, header, wpc, logged>>
  BY ReaderLeavesWriter DEF writer
<1>1. /\ WriterInv /\ WriterMore /\ Laps
      /\ header.next \in Hdr .. Size - 1 /\ header.last \in Hdr .. Size
      /\ buf \in [Hdr .. Size - 1 -> Bytes] /\ logged \in Nat
  BY DEF WriterAll, LogInv, WriterInv, Laps
<1>2. CASE ReadNextWrite
  <2>1. /\ rpc = "start" /\ rpc' = "skip" /\ walk' = header.next /\ wraps' = wraps /\ out' = out
        /\ began' = IF wpc = "idle" THEN logged ELSE MaxMsgs + 1
    BY <1>2 DEF ReadNextWrite
  <2>2. began' \in Nat /\ (began' <= logged' \/ began' > MaxMsgs)
    BY <1>0, <1>1, <2>1
  <2>3. walk' >= header'.next
    BY <1>0, <1>1, <2>1
  <2> QED BY <2>1, <2>2, <2>3 DEF Dumping
<1>3. CASE TestFirstByte
  <2>1. /\ rpc = "skip" /\ rpc' \in {"oldWrap", "skipLine"}
        /\ UNCHANGED <<walk, wraps, out, began>>
    BY <1>3 DEF TestFirstByte
  <2> QED BY <1>0, <2>1 DEF Dumping, Frozen
<1>4. CASE SkipByte
  <2>1. /\ rpc = "skipLine" /\ rpc' \in {"oldWrap", "overrun", "skipLine"}
        /\ walk' = walk + 1 /\ walk \in Hdr .. Size - 1
        /\ UNCHANGED <<wraps, out, began>>
    BY <1>4 DEF SkipByte, Searching
  <2>2. Frozen => walk' >= header'.next
    BY <1>0, <1>1, <2>1 DEF Dumping
  <2> QED BY <1>0, <2>1, <2>2 DEF Dumping, Frozen
<1>5. CASE CheckForWrap("oldWrap", "oldLines", "top")
  <2>1. /\ rpc = "oldWrap" /\ wraps = 0 /\ wraps' = header.wrap_count
        /\ rpc' = IF wraps = header.wrap_count THEN "top" ELSE "oldLines"
        /\ UNCHANGED <<walk, out, began>> /\ out = << >>
    BY <1>5 DEF CheckForWrap, Dumping
  <2>2. EndsLap(out)'
    BY <2>1 DEF EndsLap
  <2> QED BY <1>0, <2>1, <2>2 DEF Dumping, Frozen
<1>6. CASE CheckForWrap("newWrap", "wrapLines", "newLines")
  <2>1. /\ rpc = "newWrap" /\ wraps' = header.wrap_count
        /\ rpc' = IF wraps = header.wrap_count THEN "newLines" ELSE "wrapLines"
        /\ UNCHANGED <<walk, out, began>>
    BY <1>6 DEF CheckForWrap
  <2>2. EndsLap(out)' <=> EndsLap(out)
    BY <1>0, <2>1 DEF EndsLap
  <2> QED BY <1>0, <2>1, <2>2 DEF Dumping, Frozen
<1>7. CASE PrintToWrap("oldLines", "top")
  <2>1. /\ rpc = "oldLines" /\ out = << >> /\ walk \in Hdr .. Size
        /\ UNCHANGED <<wraps, began>>
    BY <1>7 DEF PrintToWrap, Dumping, Searching
  <2>2. CASE header.last < walk
    BY <1>0, <1>7, <2>1, <2>2 DEF PrintToWrap, Swrite, Dumping, Frozen
  <2>3. CASE ~(header.last < walk)
    <3>1. /\ rpc' = "top" /\ out' = out \o Piece(walk, header.last)
      BY <1>7, <2>3 DEF PrintToWrap, Swrite, Piece
    <3>2. walk <= header.last
      BY <1>1, <2>1, <2>3
    <3>3. out' = Piece(walk, header.last) /\ out' \in Seq(Bytes)
          /\ Len(out') = header.last - walk
      <4>1. Piece(walk, header.last) \in Seq(Bytes)
            /\ Len(Piece(walk, header.last)) = header.last - walk
        <5>1. PICK n \in Nat : n = header.last - walk
          BY <1>1, <2>1, <3>2
        <5>2. \A i \in 1 .. n : buf[walk + i - 1] \in Bytes
          BY <1>1, <2>1, <5>1
        <5>3. Piece(walk, header.last) = [i \in 1 .. n |-> buf[walk + i - 1]]
          BY <5>1 DEF Piece
        <5>4. Piece(walk, header.last) \in [1 .. n -> Bytes]
          BY <5>2, <5>3
        <5> QED BY <5>1, <5>4, IsASeq, LenProperties
      <4> QED BY <2>1, <3>1, <4>1, ConcatEmptySeq
    <3>4. ASSUME Frozen PROVE EndsLap(out')
      <4>1. /\ header.next = logwalk /\ header.last = lastwrap
            /\ walk >= header.next /\ header.wrap_count # 0
        BY <1>1, <2>1, <3>4 DEF Frozen, Laps, Dumping
      <4>2. lastwrap < Size /\ logwalk > Hdr
        BY <1>1, <3>4, <4>1 DEF Frozen, WriterMore
      <4>3. Consecutive(buf, logwalk, lastwrap)
        BY <1>1, <4>2 DEF Laps
      <4>4. Consecutive(buf, walk, header.last)
        BY <1>1, <2>1, <4>1, <4>3, PartConsecutive
      <4>5. /\ Consecutive(out', 1, Len(out') + 1)
            /\ \A i \in 1 .. header.last - walk : out'[i] = buf[walk + i - 1]
        BY <1>1, <2>1, <3>2, <3>3, <4>4, PieceConsecutive
      <4>6. ASSUME Len(out') > 0
            PROVE  out'[Len(out')] = [msg |-> buf[Hdr].msg - 1, nl |-> TRUE]
        <5>1. header.last - walk > 0
          BY <3>3, <4>6
        <5>2. out'[Len(out')] = buf[lastwrap - 1]
          BY <1>1, <2>1, <3>3, <4>1, <4>5, <5>1
        <5>3. logwalk < lastwrap
          BY <1>1, <2>1, <4>1, <5>1
        <5> QED BY <1>1, <4>2, <5>2, <5>3 DEF Laps
      <4> QED BY <4>5, <4>6 DEF EndsLap
    <3>5. EndsLap(out)' <=> EndsLap(out')
      BY <1>0 DEF EndsLap
    <3> QED BY <1>0, <2>1, <3>1, <3>3, <3>4, <3>5 DEF Dumping, Frozen
  <2> QED BY <2>2, <2>3
<1>8. CASE PrintToWrap("wrapLines", "newLines")
  <2>1. /\ rpc = "wrapLines" /\ walk = Hdr /\ UNCHANGED <<wraps, began>>
    BY <1>8 DEF PrintToWrap, Searching
  <2>2. ~(header.last < walk)
    BY <1>1, <2>1
  <2>3. rpc' = "newLines" /\ out' = out \o Piece(walk, header.last)
    BY <1>8, <2>2 DEF PrintToWrap, Swrite, Piece
  <2>4. PICK n \in Nat : n = header.last - walk
    BY <1>1, <2>1
  <2>5. Piece(walk, header.last) = [i \in 1 .. n |-> buf[walk + i - 1]]
    BY <2>4 DEF Piece
  <2>6. \A i \in 1 .. n : buf[walk + i - 1] \in Bytes
    BY <1>1, <2>1, <2>4
  <2>7. Piece(walk, header.last) \in Seq(Bytes)
    BY <2>5, <2>6, IsASeq
  <2>8. out' \in Seq(Bytes)
    BY <2>3, <2>7, ConcatProperties DEF Dumping
  <2>9. ~Frozen /\ ~Frozen'
    BY <1>0, <2>1 DEF Dumping, Frozen
  <2> QED BY <1>0, <2>1, <2>3, <2>8, <2>9 DEF Dumping
<1>9. CASE GoToTop
  <2>1. rpc = "top" /\ rpc' = "newWrap" /\ UNCHANGED <<wraps, out, began>>
    BY <1>9 DEF GoToTop
  <2>2. EndsLap(out)' <=> EndsLap(out)
    BY <1>0, <2>1 DEF EndsLap
  <2> QED BY <1>0, <2>1, <2>2 DEF Dumping, Frozen
<1>10. CASE PrintTillEnd
  <2>1. rpc = "newLines" /\ walk = Hdr /\ UNCHANGED <<wraps, began>> /\ out \in Seq(Bytes)
    BY <1>10 DEF PrintTillEnd, Searching, Dumping
  <2>2. ~(header.next < walk)
    BY <1>1, <2>1
  <2>3. rpc' = "done" /\ out' = out \o Piece(Hdr, header.next)
    BY <1>10, <2>1, <2>2 DEF PrintTillEnd, Swrite, Piece
  <2>4. PICK n \in Nat : n = header.next - Hdr
    BY <1>1
  <2>5. Piece(Hdr, header.next) = [i \in 1 .. n |-> buf[Hdr + i - 1]]
    BY <2>4 DEF Piece
  <2>6. \A i \in 1 .. n : buf[Hdr + i - 1] \in Bytes
    BY <1>1, <2>4
  <2>7. Piece(Hdr, header.next) \in Seq(Bytes)
    BY <2>5, <2>6, IsASeq
  <2>8. out' \in Seq(Bytes)
    BY <2>1, <2>3, <2>7, ConcatProperties
  <2>9. ASSUME Frozen PROVE Dumped(out')
    <3>1. header.next = logwalk /\ logwalk > Hdr /\ EndsLap(out)
      BY <1>1, <2>1, <2>9 DEF Frozen, Laps, WriterMore, Dumping
    <3>2. Consecutive(buf, Hdr, header.next)
          /\ buf[logwalk - 1] = [msg |-> logged, nl |-> TRUE]
      BY <1>1, <2>9, <3>1 DEF Frozen, Laps, Newest
    <3>3. Hdr \in Hdr .. Size /\ header.next \in Hdr .. Size /\ Hdr <= header.next
      BY <1>1
    <3> DEFINE t == Piece(Hdr, header.next)
    <3>4. /\ Len(t) = header.next - Hdr
          /\ \A i \in 1 .. header.next - Hdr : t[i] = buf[Hdr + i - 1]
          /\ Consecutive(t, 1, Len(t) + 1)
      BY <1>1, <3>2, <3>3, PieceConsecutive
    <3>5. t \in Seq(Bytes)
      BY <2>7
    <3> HIDE DEF t
    <3>6. Len(t) \in Nat /\ Len(t) > 0 /\ t[1] = buf[Hdr] /\ t[Len(t)] = buf[logwalk - 1]
      BY <1>1, <3>1, <3>4
    <3>7. Consecutive(out, 1, Len(out) + 1)
      <4>1. CASE Len(out) > 0
        BY <3>1, <4>1 DEF EndsLap
      <4>2. CASE ~(Len(out) > 0)
        <5>1. Len(out) = 0
          BY <2>1, <4>2, LenProperties
        <5> QED BY <5>1 DEF Consecutive
      <4> QED BY <4>1, <4>2
    <3>8. Len(out) > 0 => out[Len(out)].nl /\ out[Len(out)].msg + 1 = t[1].msg
      <4>1. ASSUME Len(out) > 0
            PROVE  out[Len(out)].nl /\ out[Len(out)].msg + 1 = buf[Hdr].msg
        <5>1. out[Len(out)] = [msg |-> buf[Hdr].msg - 1, nl |-> TRUE]
          BY <3>1, <4>1, Zenon DEF EndsLap
        <5>2. buf[Hdr].msg \in Nat
          BY <1>1 DEF Bytes
        <5> QED BY <5>1, <5>2
      <4> QED BY <3>6, <4>1
    <3>9. Consecutive(out \o t, 1, Len(out \o t) + 1)
      <4>1. Len(out) > 0 /\ Len(t) > 0 =>
              t[1].msg = IF out[Len(out)].nl THEN out[Len(out)].msg + 1 ELSE out[Len(out)].msg
        BY <3>8
      <4> QED BY <2>1, <3>4, <3>5, <3>7, <4>1, JoinConsecutive
    <3>10. /\ Len(out \o t) = Len(out) + Len(t)
           /\ \A i \in 1 .. Len(out) + Len(t) : (out \o t)[i] =
                IF i <= Len(out) THEN out[i] ELSE t[i - Len(out)]
      BY <2>1, <3>5, ConcatProperties
    <3>11. Len(out) \in Nat
      BY <2>1, LenProperties
    <3>12. Len(out \o t) > 0 /\ (out \o t)[Len(out \o t)] = t[Len(t)]
      BY <3>6, <3>10, <3>11
    <3> QED BY <2>3, <3>2, <3>6, <3>9, <3>12 DEF Dumped, t
  <2>10. Dumped(out)' <=> Dumped(out')
    BY <1>0 DEF Dumped
  <2> QED BY <1>0, <2>1, <2>3, <2>8, <2>9, <2>10 DEF Dumping, Frozen
<1> QED BY <1>2, <1>3, <1>4, <1>5, <1>6, <1>7, <1>8, <1>9, <1>10 DEF Reader

\* A message that was begun cannot be taken back: once something is logged
\* during a dump, that dump is never again one during which nothing was.
LEMMA DumpingWriter ==
  ASSUME WriterAll, WriterAll', Dumping, Writer
  PROVE  Dumping'
<1>1. UNCHANGED <<rpc, walk, wraps, out, began>>
  BY WriterLeavesReader DEF reader
<1>2. /\ logged' \in {logged, logged + 1} /\ logged \in Nat
      /\ (wpc' = "idle" => wpc = "markers" /\ logged' = logged + 1)
  BY DEF Writer, BeginLog, StoreWrapMarkers, CountWrap, CopyMessage, StoreMarkers,
         WriterAll, LogInv, WriterInv
<1>3. wpc = "markers" => logged < MaxMsgs
  BY DEF WriterAll, WriterMore
<1>4. ~Frozen'
  BY <1>1, <1>2, <1>3, ShmLogAssumption DEF Frozen, Dumping
<1>5. began' <= logged' \/ began' > MaxMsgs
  BY <1>1, <1>2, ShmLogAssumption DEF Dumping
<1> QED BY <1>1, <1>4, <1>5 DEF Dumping

-----------------------------------------------------------------------------
DumpInv == WriterAll /\ Searching /\ EvenInv /\ Dumping

LEMMA DumpInductive == DumpInv /\ [Next]_vars => DumpInv'
<1> SUFFICES ASSUME DumpInv, [Next]_vars
             PROVE  DumpInv'
  OBVIOUS
<1>1. WriterAll' /\ Searching' /\ EvenInv'
  BY WriterAllNext, SearchingNext, EvenNext DEF DumpInv
<1>2. ASSUME UNCHANGED vars
      PROVE  Dumping'
  <2>1. /\ UNCHANGED <<buf, logwalk, lastwrap, header, wpc, logged>>
        /\ UNCHANGED <<rpc, walk, wraps, out, began>>
    BY <1>2 DEF vars, writer, reader
  <2>2. Dumping
    BY DEF DumpInv
  <2> QED BY <2>1, <2>2 DEF Dumping, Frozen, EndsLap, Dumped, Consecutive
<1>3. Dumping'
  BY <1>1, <1>2, DumpingReader, DumpingWriter DEF DumpInv, Next
<1> QED BY <1>1, <1>3 DEF DumpInv

(***************************************************************************)
(* Wherever the writer is, i3-dump-log looks for a newline inside the      *)
(* mapping only, and computes a negative length only if messages differ in *)
(* length; a dump that nothing was logged during consists of consecutive   *)
(* lines up to the newest.                                                 *)
(***************************************************************************)
THEOREM DumpIsAlwaysTheLog == Spec => []DumpIsTheLog
<1>1. Init => DumpInv
  BY WriterAllInit, SearchingInit, EvenInit, DumpingInit DEF DumpInv
<1>2. ASSUME DumpInv, rpc = "negative"
      PROVE  \E a, b \in lens : a # b
  <2>1. \A l \in Nat \ {0} : ~(lens \subseteq {l})
    BY <1>2 DEF DumpInv, EvenInv, Even
  <2>2. lens \subseteq Nat \ {0}
    BY <1>2, ShmLogAssumption DEF DumpInv, WriterAll, WriterMore
  <2>3. lens # {}
    BY <2>1
  <2>4. PICK a \in lens : TRUE
    BY <2>3
  <2> QED BY <2>1, <2>2, <2>4
<1>3. DumpInv => DumpIsTheLog
  BY <1>2 DEF DumpInv, Searching, Dumping, Frozen, Dumped, DumpIsTheLog, ReaderInBounds
<1> QED BY <1>1, <1>3, DumpInductive, PTL DEF Spec
=============================================================================
