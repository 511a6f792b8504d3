------------------------------ MODULE Startup ------------------------------
(***************************************************************************)
(* Startup notification (startup.c): a program that i3 starts opens its    *)
(* windows where it was started, even when the user has gone elsewhere.    *)
(*                                                                         *)
(* i3 keeps a list of sequences (in no order that matters: a set), a timer *)
(* for each of them, and a context of libstartup-notification that both    *)
(* hold.  Programs say that they are  *)
(* started with a message that comes later; so does the context, when the  *)
(* timer makes it.  A unit of time is thirty seconds.                      *)
(***************************************************************************)
EXTENDS Integers, FiniteSets, Functions

CONSTANTS
    Programs,     \* each is started at most once; a program stands for its startup id
    Led,          \* those with the startup id on the leader of their window only
    Workspaces, Names,
    SpelledAsIs,  \* the ways a command can spell a workspace: BOOLEAN, or {TRUE}
    MaxTime       \* bound

ASSUME NamesAssumption ==
    /\ \E f \in [Workspaces -> Names] : IsInjective(f)
    /\ "nothing" \notin Workspaces
    /\ SpelledAsIs \subseteq BOOLEAN

VARIABLES
    name,         \* workspace -> name
    sequences,    \* startup_sequences: [id, workspace (a name), delete_at]
    refs,         \* program -> references to its context; 0: freed, or not there yet
    timers,       \* program -> when its timeout comes; 0: none
    sent,         \* "completed" messages on their way, by program
    rootCursor,   \* of the root window
    window,       \* program -> "none", "shown", "leader" (its leader is), "both"
    started,      \* history: program -> the workspace it was started on
    clock

uvars == <<name, sequences, refs, timers, sent, rootCursor, window, started, clock>>
others == <<window, started>>

Nothing == "nothing"
Listed(p) == \E s \in sequences : s.id = p
SequenceOf(p) == CHOOSE s \in sequences : s.id = p

UInit ==
    /\ name = CHOOSE f \in [Workspaces -> Names] : IsInjective(f)
    /\ sequences = {} /\ refs = [p \in Programs |-> 0] /\ timers = [p \in Programs |-> 0]
    /\ sent = {} /\ rootCursor = "pointer"
    /\ window = [p \in Programs |-> "none"]
    /\ started = [p \in Programs |-> Nothing]
    /\ clock = 1

-----------------------------------------------------------------------------
(* start_application(): one reference for the list, one for the timeout. *)
RefsOfListOnly == 1   \* mutant: no sn_launcher_context_ref()
RefsAtStart == 2

Start(p, w) ==   \* w: the focused workspace
    /\ started[p] = Nothing
    /\ started' = [started EXCEPT ![p] = w]
    /\ refs' = [refs EXCEPT ![p] = RefsAtStart]
    /\ timers' = [timers EXCEPT ![p] = clock + 2]
    /\ sequences' = sequences \cup {[id |-> p, workspace |-> name[w], delete_at |-> 0]}
    /\ rootCursor' = "watch"
    /\ UNCHANGED <<name, sent, window, clock>>

(* startup_sequence_delete() of several *)
Deleting(gone) ==
    /\ sequences' = {s \in sequences : s.id \notin gone}
    /\ refs' = [p \in Programs |-> IF p \in gone /\ Listed(p) THEN refs[p] - 1 ELSE refs[p]]

(* startup_timeout(): complete what is still listed.  A context completes  *)
(* once.                                                                   *)
Timeout(p) ==
    /\ timers[p] # 0 /\ clock >= timers[p]
    /\ timers' = [timers EXCEPT ![p] = 0]
    /\ refs' = [refs EXCEPT ![p] = @ - 1]
    /\ sent' = IF Listed(p) THEN sent \cup {p} ELSE sent
    /\ UNCHANGED <<name, sequences, rootCursor, others, clock>>

(* The program says that it is started; it may say so before its window.   *)
(* Bound: once.                                                            *)
SayStarted(p) ==
    /\ started[p] # Nothing /\ p \notin sent /\ Listed(p) /\ SequenceOf(p).delete_at = 0
    /\ sent' = sent \cup {p}
    /\ UNCHANGED <<name, sequences, refs, timers, rootCursor, others, clock>>

(* startup_monitor_event() and _prune_startup_sequences() *)
Marked(p) == {IF s.id = p THEN [s EXCEPT !.delete_at = clock + 1] ELSE s : s \in sequences}
Expired(s) == s.delete_at # 0 /\ clock > s.delete_at
Active(s) == s.delete_at = 0

Completed(p) ==
    /\ p \in sent /\ sent' = sent \ {p}
    /\ IF Listed(p)
       THEN /\ sequences' = {s \in Marked(p) : ~Expired(s)}
            /\ refs' = [q \in Programs |-> IF \E s \in Marked(p) : s.id = q /\ Expired(s)
                                           THEN refs[q] - 1 ELSE refs[q]]
            /\ rootCursor' = IF \E s \in sequences' : Active(s) THEN rootCursor ELSE "pointer"
       ELSE UNCHANGED <<sequences, refs, rootCursor>>
    /\ UNCHANGED <<name, timers, others, clock>>

-----------------------------------------------------------------------------
(* startup_workspace_for_window(): a window that is managed. *)
OpenWindow(p) ==
    /\ started[p] # Nothing /\ window[p] \in {"none", "leader"}
    /\ window' = [window EXCEPT ![p] = IF @ = "none" THEN "shown" ELSE "both"]
    /\ IF Listed(p) /\ Expired(SequenceOf(p)) THEN Deleting({p}) ELSE UNCHANGED <<sequences, refs>>
    /\ UNCHANGED <<name, timers, sent, rootCursor, started, clock>>

OpenLeader(p) ==
    /\ started[p] # Nothing /\ p \in Led /\ window[p] \in {"none", "shown"}
    /\ window' = [window EXCEPT ![p] = IF @ = "none" THEN "leader" ELSE "both"]
    /\ IF Listed(p) /\ Expired(SequenceOf(p)) THEN Deleting({p}) ELSE UNCHANGED <<sequences, refs>>
    /\ UNCHANGED <<name, timers, sent, rootCursor, started, clock>>

(* A window is moved to another workspace: startup_sequence_delete_by_window(), *)
(* which leaves the sequence of a leader alone that has a container.       *)
MoveWindow(p) ==
    /\ window[p] \in {"shown", "both"}
    /\ ~(p \in Led /\ window[p] = "both")
    /\ Listed(p)
    /\ Deleting({p})
    /\ UNCHANGED <<name, timers, sent, rootCursor, others, clock>>

(* cmd_rename_workspace(): the workspace is found in whatever case it is   *)
(* spelled, the sequences are found by the spelling of the command.        *)
RenamedFirst(old, new) ==   \* mutant: one of them only
    {IF s.workspace = old /\ s = CHOOSE x \in sequences : x.workspace = old
     THEN [s EXCEPT !.workspace = new] ELSE s : s \in sequences}
Renamed(old, new) ==
    {IF s.workspace = old THEN [s EXCEPT !.workspace = new] ELSE s : s \in sequences}

Rename ==
    /\ \E w \in Workspaces, new \in Names, asIs \in SpelledAsIs :
         /\ \A v \in Workspaces : name[v] # new
         /\ name' = [name EXCEPT ![w] = new]
         /\ sequences' = IF asIs THEN Renamed(name[w], new) ELSE sequences
    /\ UNCHANGED <<refs, timers, sent, rootCursor, others, clock>>

Tick ==
    /\ clock < MaxTime /\ clock' = clock + 1
    /\ UNCHANGED <<name, sequences, refs, timers, sent, rootCursor, others>>

UNext ==
    \/ \E p \in Programs, w \in Workspaces : Start(p, w)
    \/ \E p \in Programs : Completed(p) \/ Timeout(p) \/ SayStarted(p)
    \/ \E p \in Programs : OpenWindow(p) \/ OpenLeader(p) \/ MoveWindow(p)
    \/ Rename \/ Tick

USpec == UInit /\ [][UNext]_uvars

-----------------------------------------------------------------------------
(* A program opens its windows where it was started: its sequence has the  *)
(* name that the workspace now has, however often that was renamed.        *)
OpensWhereStarted ==
    \A s \in sequences : s.workspace = name[started[s.id]]

(* A context lasts as long as somebody has to use it and no longer: the     *)
(* list, until the sequence is deleted, and the timeout, until it came, in *)
(* whatever order the two end.  The cursor shows that something is starting. *)
Holders(p) == (IF Listed(p) THEN 1 ELSE 0) + (IF timers[p] # 0 THEN 1 ELSE 0)
ContextsLast ==
    /\ \A p \in Programs : refs[p] = Holders(p)
    /\ \A s \in sequences : Active(s) => rootCursor = "watch"
=============================================================================
