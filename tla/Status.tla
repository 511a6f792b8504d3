------------------------------- MODULE Status -------------------------------
(***************************************************************************)
(* i3status with its volume module: the main loop (i3status.c) and the     *)
(* thread of the PulseAudio client library (pulse.c), which share a cache. *)
(*                                                                         *)
(* The main thread starts a line, asks for the description and the volume  *)
(* one after the other, writes the line and sleeps.  The other thread gets *)
(* events and replies, updates the cache and sends SIGUSR1 to end the      *)
(* sleep; a signal that comes at another time does nothing.  pulse_mutex   *)
(* guards the cache, the lock of the library's loop everything that is     *)
(* asked of the library.                                                   *)
(*                                                                         *)
(* The sound server is external: it answers in order, and sends events     *)
(* once it has been asked to.  Not modelled: other modules, --run-once,    *)
(* the signals that end i3status, and a main loop that cannot be started.  *)
(***************************************************************************)
EXTENDS Integers, Sequences, FiniteSets

CONSTANTS
    Sinks,        \* the server's sinks; a sink stands for its index and name
    First,        \* the default one when we start
    Volumes,      \* 0 is one of them
    Default,      \* DEFAULT_SINK_INDEX
    None,         \* nothing, and what is said while PulseAudio is not ready
    Unknown,      \* 0 and "": ready, but not in the cache
    MaxChanges    \* bound: changes at the server

VARIABLES
    device,       \* what is configured: of is Default or a sink; forced if it is
                  \* "pulse" or "pulse:<sink>", not if it is "default"
    thread,       \* main thread: where it is, what it wants, what it got
    pulse,        \* context, context_ready, default_sink_idx
    cache,        \* cached_info: key -> entry
    mutex,        \* who holds pulse_mutex
    callback,     \* the event or reply the library's thread is working on; it
                  \* holds the lock of the loop meanwhile
    server,       \* its state; whether we are linked to it and asked for events
    requests, messages,   \* on their way to it, and from it
    changes,      \* number of changes so far
    notified      \* history: the last change was one we are told about

shared == <<pulse, cache, callback>>
outside == <<server, messages, changes, notified>>
svars == <<device, thread, shared, mutex, requests, outside>>

Keys == Sinks \cup {Default}
Entry == [sink : Sinks, vol : Volumes]
Target == IF device.of = Default THEN server.default ELSE device.of

-----------------------------------------------------------------------------
(* The main thread. *)

SInit ==
    /\ device \in [of : Keys, forced : BOOLEAN] /\ (device.of # Default => device.forced)
    /\ thread = [pc |-> "top", wants |-> <<>>, got |-> <<>>]
    /\ pulse = [context |-> "null", ready |-> FALSE, default |-> None]
    /\ cache = [k \in Keys |-> None]
    /\ mutex = "free" /\ callback = None
    /\ server = [up |-> TRUE, default |-> First, vol |-> [s \in Sinks |-> 0],
                 linked |-> FALSE, asked |-> FALSE]
    /\ requests = <<>> /\ messages = <<>> /\ changes = 0 /\ notified = FALSE

(* print_volume(): the volume comes first if PulseAudio is forced. *)
Wants == IF device.forced THEN <<"volume", "description">> ELSE <<"description", "volume">>

(* The top of the loop, and pulse_initialize(), which runs without any     *)
(* lock.  Without a context "pulse" is 0 and "", "default" is left to      *)
(* ALSA; one that cannot connect is kept as it is.                         *)
StartLine ==
    /\ thread.pc = "top"
    /\ \/ /\ pulse.context = "null"
          /\ thread' = [pc |-> "write", wants |-> <<>>, got |-> <<None, None>>]
          /\ pulse' \in {pulse, [pulse EXCEPT !.context = "unconnected"]}
       \/ /\ thread' = [pc |-> "look", wants |-> Wants, got |-> <<>>]
          /\ pulse' = IF pulse.context = "null"
                      THEN [pulse EXCEPT !.context = "connecting"] ELSE pulse
    /\ UNCHANGED <<device, cache, callback, mutex, requests, outside>>

(* One of the two values is there, or known to be missing. *)
Got(t, v) ==
    [pc |-> IF Len(t.wants) = 1 THEN "write" ELSE "look", wants |-> Tail(t.wants),
     got |-> Append(t.got, v)]

Look ==
    /\ thread.pc = "look"
    /\ IF ~pulse.ready \/ pulse.default = None
       THEN thread' = Got(thread, None) /\ UNCHANGED mutex
       ELSE /\ mutex = "free" /\ mutex' = "main"
            /\ thread' = [thread EXCEPT !.pc = "read"]
    /\ UNCHANGED <<device, shared, requests, outside>>

Read ==
    /\ thread.pc = "read"
    /\ mutex' = "free"
    /\ thread' = IF cache[device.of] # None THEN Got(thread, cache[device.of])
                 ELSE [thread EXCEPT !.pc = "prime"]
    /\ UNCHANGED <<device, shared, requests, outside>>

(* get_sink_info() for what is not in the cache; the context may be gone   *)
(* since the look at context_ready.  Bound: no second such request while   *)
(* one or its answer is on its way.                                        *)
Prime ==
    /\ thread.pc = "prime" /\ callback = None
    /\ LET request == [kind |-> "info", of |-> device.of]
           again == \/ \E i \in DOMAIN requests : requests[i] = request
                    \/ \E i \in DOMAIN messages : messages[i].kind = "info"
       IN  IF pulse.context = "null"
           THEN thread' = [thread EXCEPT !.pc = "crashed"] /\ UNCHANGED requests
           ELSE /\ thread' = Got(thread, Unknown)
                /\ requests' = IF server.linked /\ ~again
                               THEN Append(requests, request) ELSE requests
    /\ UNCHANGED <<device, shared, mutex, outside>>

(* nanosleep() refuses the billion nanoseconds from a full second on, and  *)
(* returns at once.                                                        *)
WriteLine ==
    /\ thread.pc = "write"
    /\ thread' \in [pc : {"asleep", "top"}, wants : {<<>>}, got : {<<>>}]
    /\ UNCHANGED <<device, shared, mutex, requests, outside>>

Woken(t) == IF t.pc = "asleep" THEN [t EXCEPT !.pc = "top"] ELSE t

Wake ==
    /\ thread.pc = "asleep"
    /\ thread' = Woken(thread)
    /\ UNCHANGED <<device, shared, mutex, requests, outside>>

Main == StartLine \/ Look \/ Read \/ Prime \/ WriteLine \/ Wake

-----------------------------------------------------------------------------
(***************************************************************************)
(* The library's thread.  It holds the lock of its loop while it works.    *)
(***************************************************************************)
Alive == thread.pc # "crashed"
Idle == Alive /\ callback = None

(* context_state_callback(): ready, if events can be asked for. *)
Connected ==
    /\ Idle /\ pulse.context = "connecting" /\ server.up
    /\ \E ok \in BOOLEAN :
         /\ pulse' = [pulse EXCEPT !.context = "ready", !.ready = ok]
         /\ requests' = <<[kind |-> "default"]>> \o (IF ok THEN <<[kind |-> "subscribe"]>> ELSE <<>>)
    /\ server' = [server EXCEPT !.linked = TRUE]
    /\ UNCHANGED <<device, thread, cache, callback, mutex, messages,
                   changes, notified>>

(* context_state_callback(): failed. *)
Disconnected ==
    /\ Idle /\ pulse.context = "ready" /\ ~server.linked
    /\ pulse' = [pulse EXCEPT !.context = "null", !.ready = FALSE]
    /\ UNCHANGED <<device, thread, cache, callback, mutex, requests,
                   outside>>

(* store_info_from_sink_cb(): what is saved under, each key with a lock of  *)
(* its own, in an order that C does not say.                               *)
SavedKeysOnce(info, default) ==   \* mutant: || instead of |
    IF info.sink = default /\ cache[Default] # info THEN {Default} ELSE {info.sink}
SavedKeys(info, default) == {info.sink} \cup (IF info.sink = default THEN {Default} ELSE {})
Storing(info, default) ==
    [kind |-> "storing", info |-> info, todo |-> SavedKeys(info, default), changed |-> FALSE]

Dispatch ==
    /\ Idle /\ pulse.context = "ready" /\ messages # <<>>
    /\ callback' = IF Head(messages).kind = "info"
                   THEN Storing(Head(messages).info, pulse.default) ELSE Head(messages)
    /\ messages' = Tail(messages)
    /\ UNCHANGED <<device, thread, pulse, cache, mutex, requests, server, changes,
                   notified>>

(* subscribe_cb(): ask for what has changed. *)
Subscribed ==
    /\ callback # None /\ callback.kind = "event" /\ Alive
    /\ requests' = IF ~server.linked THEN requests
                   ELSE Append(requests, IF callback.of = Default THEN [kind |-> "default"]
                                         ELSE [kind |-> "info", of |-> callback.of])
    /\ callback' = None
    /\ UNCHANGED <<device, thread, pulse, cache, mutex, outside>>

(* store_default_sink_cb(): only another sink is stored. *)
StoreDefault ==
    /\ callback # None /\ callback.kind = "default" /\ Alive
    /\ IF pulse.default = callback.info.sink
       THEN callback' = None /\ UNCHANGED pulse
       ELSE /\ pulse' = [pulse EXCEPT !.default = callback.info.sink]
            /\ callback' = Storing(callback.info, callback.info.sink)
    /\ UNCHANGED <<device, thread, cache, mutex, requests, outside>>

(* save_info() under one of the keys, and the signal after the last. *)
SaveInfo ==
    /\ callback # None /\ callback.kind = "storing" /\ Alive /\ mutex = "free"
    /\ \E key \in callback.todo :
         LET changed == callback.changed \/ cache[key] # callback.info
             last == callback.todo = {key}
         IN  /\ cache' = [cache EXCEPT ![key] = callback.info]
             /\ callback' = IF last THEN None
                            ELSE [callback EXCEPT !.todo = @ \ {key}, !.changed = changed]
             /\ thread' = IF last /\ changed THEN Woken(thread) ELSE thread
    /\ UNCHANGED <<device, pulse, mutex, requests, outside>>

Library == Connected \/ Disconnected \/ Dispatch \/ Subscribed \/ StoreDefault \/ SaveInfo

-----------------------------------------------------------------------------
(* The sound server. *)

Info(s) == [sink |-> s, vol |-> server.vol[s]]

Answer(r) ==
    CASE r.kind = "default" -> [kind |-> "default", info |-> Info(server.default)]
      [] r.of = Default -> [kind |-> "info", info |-> Info(server.default)]
      [] OTHER -> [kind |-> "info", info |-> Info(r.of)]

(* The value that an answer carries is the first we hear of. *)
FirstHeard(r) ==
    /\ pulse.ready
    /\ \/ device.of = Default /\ r.kind = "default" /\ pulse.default = None
       \/ device.of # Default /\ r.kind = "info" /\ r.of = device.of /\ cache[device.of] = None

Process ==
    /\ server.up /\ requests # <<>>
    /\ requests' = Tail(requests)
    /\ IF Head(requests).kind = "subscribe"
       THEN server' = [server EXCEPT !.asked = TRUE] /\ UNCHANGED <<messages, notified>>
       ELSE /\ messages' = Append(messages, Answer(Head(requests)))
            /\ notified' = (notified \/ FirstHeard(Head(requests)))
            /\ UNCHANGED server
    /\ UNCHANGED <<device, thread, shared, mutex, changes>>

Changed(s, key) ==
    /\ server' = s
    /\ changes' = changes + 1
    /\ messages' = IF server.asked THEN Append(messages, [kind |-> "event", of |-> key])
                   ELSE messages
    /\ UNCHANGED <<device, thread, shared, mutex, requests>>

ChangeVolume ==
    /\ changes < MaxChanges
    /\ \E s \in Sinks, v \in Volumes :
         /\ v # server.vol[s]
         /\ Changed([server EXCEPT !.vol[s] = v], s)
         /\ notified' = IF s # Target THEN notified
                        ELSE server.asked /\ (device.of = Default => notified \/ pulse.default = s)

ChangeDefault ==
    /\ changes < MaxChanges
    /\ \E s \in Sinks \ {server.default} :
         /\ Changed([server EXCEPT !.default = s], Default)
         /\ notified' = IF device.of = Default THEN server.asked ELSE notified

(* The server ends, or starts. *)
EndServer ==
    /\ server.up /\ changes < MaxChanges
    /\ server' = [server EXCEPT !.up = FALSE, !.linked = FALSE, !.asked = FALSE]
    /\ requests' = <<>> /\ messages' = <<>>
    /\ changes' = changes + 1 /\ notified' = FALSE
    /\ UNCHANGED <<device, thread, shared, mutex>>

StartServer ==
    /\ ~server.up
    /\ server' = [server EXCEPT !.up = TRUE]
    /\ UNCHANGED <<device, thread, shared, mutex, requests, messages,
                   changes, notified>>

Server == Process \/ ChangeVolume \/ ChangeDefault \/ EndServer \/ StartServer

SNext == Main \/ Library \/ Server

(* Both threads run, and each of them gets a lock that is free again and   *)
(* again: the main thread sleeps between two lines.  The server answers.   *)
SFairness ==
    /\ WF_svars(StartLine \/ Read \/ WriteLine \/ Wake)
    /\ SF_svars(Look) /\ SF_svars(Prime)
    /\ SF_svars(Connected \/ Disconnected \/ Dispatch) /\ SF_svars(SaveInfo)
    /\ WF_svars(Subscribed \/ StoreDefault)
    /\ WF_svars(Process)
-----------------------------------------------------------------------------
(* Neither thread waits for a lock for ever: as long as i3status runs it    *)
(* writes one line after the other.                                        *)
LinesGoOn == []<>(thread.pc \in {"write", "crashed"})

(* Lines go on, and a change that the server tells us about is shown,      *)
(* description and volume both, unless another one or the end of the       *)
(* server comes first.                                                     *)
VolumeShown ==
    /\ LinesGoOn
    /\ notified ~> \/ thread.pc = "write" /\ \A i \in 1..2 : thread.got[i] = Info(Target)
                   \/ ~notified \/ ~Alive
=============================================================================
