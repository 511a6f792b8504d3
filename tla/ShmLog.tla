------------------------------- MODULE ShmLog -------------------------------
(***************************************************************************)
(* The log of i3 in shared memory: the writer (vlog() in log.c, called by  *)
(* every LOG macro of the window manager) and the reader in another        *)
(* process (i3-dump-log).  Nothing synchronises the two: the header and    *)
(* the bytes are plain stores and loads, so every store and every load     *)
(* that the other side can observe is a step of its own.                   *)
(*                                                                         *)
(* A byte of the buffer is abstracted to the number of the message it      *)
(* belongs to and whether it is the newline that ends that message.        *)
(***************************************************************************)
EXTENDS Integers, Sequences

CONSTANTS
  Size,      \* logbuffer_size, in bytes
  Hdr,       \* sizeof(i3_shmlog_header)
  Lens,      \* the lengths a formatted message may have
  WrapMod,   \* wrap_count is an unsigned integer of this modulus
  MaxMsgs    \* bound: messages the writer logs

ASSUME ShmLogAssumption ==
  /\ Size \in Nat /\ Hdr \in Nat \ {0} /\ Hdr < Size
  /\ WrapMod \in Nat \ {0} /\ MaxMsgs \in Nat
  /\ Lens \subseteq Nat \ {0}
  \* the smallest log that holds the largest message: 4096 bytes in the code
  /\ \A l \in Lens : Hdr + l < Size

Offsets == 0 .. Size
NUL == [msg |-> 0, nl |-> FALSE]
Bytes == [msg : Nat, nl : BOOLEAN]

VARIABLES
  buf,       \* the mapping behind the header
  logwalk,   \* where the next message goes (private to the writer)
  lastwrap,  \* loglastwrap (private to the writer)
  header,    \* i3_shmlog_header, shared
  wpc,       \* the writer's position inside vlog()
  len,       \* length of the message being logged
  logged,    \* number of messages completely logged
  lens,      \* history: the lengths of all messages
  rpc,       \* the reader's position inside main()
  walk,      \* the reader's walk pointer
  wraps,     \* the reader's wrap_count
  out,       \* the bytes the reader has printed
  began      \* history: `logged` when the reader started, if i3 was idle then

writer == <<buf, logwalk, lastwrap, header, wpc, len, logged, lens>>
reader == <<rpc, walk, wraps, out, began>>
vars == <<writer, reader>>

WriterPC == {"idle", "wrapMarkers", "copy", "markers"}
ReaderPC == {"start", "skip", "skipLine", "oldWrap", "oldLines", "top",
             "newWrap", "wrapLines", "newLines", "done", "negative", "overrun"}

TypeOK ==
  /\ buf \in [Hdr .. Size - 1 -> Bytes]
  /\ logwalk \in Hdr .. Size - 1
  /\ lastwrap \in Offsets
  /\ header \in [next : Offsets, last : Offsets, wrap_count : 0 .. WrapMod - 1]
  /\ wpc \in WriterPC
  /\ len \in Lens \cup {0}
  /\ logged \in 0 .. MaxMsgs /\ lens \subseteq Lens
  /\ rpc \in ReaderPC
  /\ walk \in Offsets
  /\ wraps \in 0 .. WrapMod - 1
  /\ out \in Seq(Bytes)
  /\ began \in 0 .. MaxMsgs + 1

(***************************************************************************)
(* open_logbuffer(): a zeroed mapping, both markers stored.  The reader    *)
(* has not been started.                                                   *)
(***************************************************************************)
Init ==
  /\ buf = [i \in Hdr .. Size - 1 |-> NUL]
  /\ logwalk = Hdr
  /\ lastwrap = Size
  /\ header = [next |-> Hdr, last |-> Size, wrap_count |-> 0]
  /\ wpc = "idle" /\ len = 0 /\ logged = 0 /\ lens = {}
  /\ rpc = "start" /\ walk = 0 /\ wraps = 0 /\ out = << >> /\ began = 0

-----------------------------------------------------------------------------
(* vlog() *)

\* store_log_markers(), and a version that forgets where the log wrapped
MarkersStale(w, l) == [header EXCEPT !.next = w]
Markers(w, l) == [header EXCEPT !.next = w, !.last = l]

\* There is room for l bytes behind logwalk, and for one more.
Fits(l) == l < Size - logwalk

\* loglastwrap = logwalk comes before logwalk goes back to the top, and after.
WrappedAtTop == Hdr
WrappedAt == logwalk

\* wrap_count++ on an unsigned integer
NextCount(n) == (n + 1) % WrapMod

\* A message is formatted; vlog() decides whether it still fits.
BeginLog(l) ==
  /\ wpc = "idle" /\ logged < MaxMsgs
  /\ len' = l /\ lens' = lens \cup {l}
  /\ IF Fits(l)
       THEN /\ wpc' = "copy"
            /\ UNCHANGED <<lastwrap, logwalk>>
       ELSE /\ lastwrap' = WrappedAt
            /\ logwalk' = Hdr
            /\ wpc' = "wrapMarkers"
  /\ UNCHANGED <<buf, header, logged, reader>>

\* The two markers are two stores, in this order, and wrap_count follows.
StoreWrapMarkers ==
  /\ wpc = "wrapMarkers"
  /\ header # Markers(logwalk, lastwrap)
  /\ header' = IF header.next # logwalk
                 THEN [header EXCEPT !.next = logwalk]
                 ELSE Markers(logwalk, lastwrap)
  /\ UNCHANGED <<buf, logwalk, lastwrap, wpc, len, logged, lens, reader>>

CountWrap ==
  /\ wpc = "wrapMarkers"
  /\ header = Markers(logwalk, lastwrap)
  /\ header' = [header EXCEPT !.wrap_count = NextCount(@)]
  /\ wpc' = "copy"
  /\ UNCHANGED <<buf, logwalk, lastwrap, len, logged, lens, reader>>

\* The byte at i of the message in hand, when it is copied to logwalk.
Copied(i) == [msg |-> logged + 1, nl |-> i = logwalk + len - 1]

\* strncpy() of the message; logwalk moves behind it.
CopyMessage ==
  /\ wpc = "copy"
  /\ buf' = [i \in DOMAIN buf |->
               IF i \in logwalk .. logwalk + len - 1 THEN Copied(i) ELSE buf[i]]
  /\ logwalk' = logwalk + len
  /\ wpc' = "markers"
  /\ UNCHANGED <<lastwrap, header, len, logged, lens, reader>>

\* store_log_markers() again; offset_last_wrap gets the value it already has.
StoreMarkers ==
  /\ wpc = "markers"
  /\ header' = Markers(logwalk, lastwrap)
  /\ logged' = logged + 1
  /\ wpc' = "idle" /\ len' = 0
  /\ UNCHANGED <<buf, logwalk, lastwrap, lens, reader>>

Writer ==
  \/ \E l \in Lens : BeginLog(l)
  \/ StoreWrapMarkers \/ CountWrap \/ CopyMessage \/ StoreMarkers

-----------------------------------------------------------------------------
(* main() of i3-dump-log, without -f *)

\* swrite(STDOUT_FILENO, walk, to - walk): a negative length is no length.
Swrite(to, next, then) ==
  IF to < walk
    THEN /\ rpc' = "negative" /\ UNCHANGED <<out, walk>>
    ELSE /\ out' = out \o [i \in 1 .. to - walk |-> buf[walk + i - 1]]
         /\ rpc' = next
         /\ walk' = then

ReadNextWrite ==
  /\ rpc = "start"
  /\ walk' = header.next
  /\ rpc' = "skip"
  /\ began' = IF wpc = "idle" THEN logged ELSE MaxMsgs + 1
  /\ UNCHANGED <<wraps, out, writer>>

\* if (*walk != '\0'): there is an old line, very likely mangled
TestFirstByte ==
  /\ rpc = "skip"
  /\ rpc' = IF buf[walk] = NUL THEN "oldWrap" ELSE "skipLine"
  /\ UNCHANGED <<walk, wraps, out, began, writer>>

\* while (*walk != '\n') walk++; walk++
SkipByte ==
  /\ rpc = "skipLine"
  /\ walk' = walk + 1
  /\ rpc' = IF buf[walk].nl THEN "oldWrap"
            ELSE IF walk + 1 = Size THEN "overrun" ELSE "skipLine"
  /\ UNCHANGED <<wraps, out, began, writer>>

\* check_for_wrap(): compare and take over the counter, then print up to the
\* last wrap and go back to the top.  The two loads are two steps.
CheckForWrap(here, wrapped, next) ==
  /\ rpc = here
  /\ wraps' = header.wrap_count
  /\ rpc' = IF wraps = header.wrap_count THEN next ELSE wrapped
  /\ UNCHANGED <<walk, out, began, writer>>

PrintToWrap(here, next) ==
  /\ rpc = here
  /\ Swrite(header.last, next, Hdr)
  /\ UNCHANGED <<wraps, began, writer>>

GoToTop ==
  /\ rpc = "top"
  /\ walk' = Hdr
  /\ rpc' = "newWrap"
  /\ UNCHANGED <<wraps, out, began, writer>>

\* print_till_end(), after its check_for_wrap()
PrintTillEnd ==
  /\ rpc = "newLines"
  /\ Swrite(header.next, "done", header.next)
  /\ UNCHANGED <<wraps, began, writer>>

Reader ==
  \/ ReadNextWrite \/ TestFirstByte \/ SkipByte
  \/ CheckForWrap("oldWrap", "oldLines", "top")
  \/ PrintToWrap("oldLines", "top")
  \/ GoToTop
  \/ CheckForWrap("newWrap", "wrapLines", "newLines")
  \/ PrintToWrap("wrapLines", "newLines")
  \/ PrintTillEnd

Next == Writer \/ Reader

Spec == Init /\ [][Next]_vars

-----------------------------------------------------------------------------
\* The bytes lo .. hi - 1 belong to consecutive messages, each of them ended by
\* its newline before the next one starts.
Consecutive(b, lo, hi) ==
  \A i \in lo .. hi - 1 :
    /\ b[i] # NUL
    /\ i + 1 < hi => b[i + 1].msg = IF b[i].nl THEN b[i].msg + 1 ELSE b[i].msg

\* What vlog() copies stays inside the mapping, and the byte the header points
\* at exists, so that the reader may look at it.
CopyFits ==
  /\ wpc = "copy" => logwalk + len < Size
  /\ header.next \in Hdr .. Size - 1

(***************************************************************************)
(* Between two calls of vlog() the log is what its header says: the bytes  *)
(* up to the next write are the newest messages, complete and in order,    *)
(* and the bytes from there to the last wrap are the end of the lap before,*)
(* whose last message comes right before the first of this lap.  While a   *)
(* message is copied, it fits.                                             *)
(***************************************************************************)
MarkersTellTheLog ==
  /\ CopyFits
  /\ wpc = "idle" =>
    /\ header.next = logwalk /\ header.last = lastwrap
    /\ Consecutive(buf, Hdr, header.next)
    /\ header.next > Hdr => buf[header.next - 1] = [msg |-> logged, nl |-> TRUE]
    /\ header.last < Size =>
         /\ Consecutive(buf, header.next, header.last)
         /\ header.next < header.last /\ header.next > Hdr =>
              buf[header.last - 1] = [msg |-> buf[Hdr].msg - 1, nl |-> TRUE]

\* The search for a newline ends inside the mapping, and swrite() is given a
\* negative length only if the messages differ in length: the lap before may
\* have ended early for a long message, and this one be further already.
ReaderInBounds ==
  /\ rpc # "overrun"
  /\ rpc = "negative" => \E a, b \in lens : a # b

(***************************************************************************)
(* The reader stays in the mapping wherever the writer is, and a dump      *)
(* during which nothing was logged consists of complete lines, in the      *)
(* order they were logged, up to the newest.                               *)
(***************************************************************************)
DumpIsTheLog ==
  /\ ReaderInBounds
  /\ rpc = "done" /\ wpc = "idle" /\ logged = began /\ logged > 0 =>
      /\ Len(out) > 0 /\ out[Len(out)] = [msg |-> logged, nl |-> TRUE]
      /\ Consecutive(out, 1, Len(out) + 1)
=============================================================================
