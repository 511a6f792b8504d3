----------------------------- MODULE BarChild -----------------------------
(***************************************************************************)
(* i3bar's child processes (child.c, parse_json_header.c): the status      *)
(* command and the workspace command.  s.child[k] is what i3bar remembers  *)
(* of child k and s.proc[k] the process itself.  A process that has not    *)
(* called setpgid() yet ("young") is out of killpg()'s reach.              *)
(***************************************************************************)
EXTENDS Naturals, Sequences, FiniteSets, SequencesExt

Kids == {"status", "ws"}

\* i3bar_child after memset(): the flags stop and cont are "signal > 0"
NoChild == [alive |-> FALSE, version |-> "unknown", stopped |-> FALSE, stop |-> FALSE,
            cont |-> FALSE, click |-> FALSE, clickInit |-> FALSE]
NoProc == [state |-> "none", kind |-> "unknown", lines |-> << >>, in |-> << >>, read |-> 0]

Signalled(state, signal) ==
  CASE state = "runs"  /\ signal = "SIGSTOP" -> "stops"
    [] state = "stops" /\ signal = "SIGCONT" -> "runs"
    [] state = "runs"  /\ signal = "SIGTERM" -> "dead"
    [] OTHER -> state
Killpg(s, k, signal) == [s EXCEPT !.proc[k].state = Signalled(@, signal)]

StopChild(s, k) ==
  IF s.child[k].stop /\ ~s.child[k].stopped
  THEN Killpg([s EXCEPT !.child[k].stopped = TRUE], k, "SIGSTOP") ELSE s
ContChild(s, k) ==
  IF s.child[k].alive /\ s.child[k].cont /\ s.child[k].stopped
  THEN Killpg([s EXCEPT !.child[k].stopped = FALSE], k, "SIGCONT") ELSE s

StopChildren(s) == StopChild(StopChild(s, "status"), "ws")
ContChildren(s) == ContChild(ContChild(s, "status"), "ws")

\* the process has been reaped
Cleanup(s, k) == [s EXCEPT !.child[k] = NoChild, !.proc[k] = NoProc]

\* kill_and_wait() up to its waitpid()
KillAndWait(s, k) == Killpg(ContChild(s, k), k, "SIGTERM")

StartChild(s, command) ==
  IF command = "none" THEN s
  ELSE [s EXCEPT !.child["status"] = [@ EXCEPT !.alive = TRUE, !.version = "unknown"],
                 !.proc["status"] = [NoProc EXCEPT !.state = "young"]]
StartWsChild(s, command) ==
  IF command = "none" THEN s
  ELSE [s EXCEPT !.child["ws"] = [@ EXCEPT !.alive = TRUE, !.stop = TRUE, !.cont = TRUE],
                 !.proc["ws"] = [NoProc EXCEPT !.state = "young"]]

\* the first line: "json" asks for clicks, "busy" turns the signals off, "flat" is no header
ChildInit(child) == [child EXCEPT !.version = "flat", !.stop = TRUE, !.cont = TRUE]
ParseJsonHeader(s, kind) ==
  LET signals == kind # "busy"
  IN  IF kind = "flat" THEN [s EXCEPT !.child["status"] = ChildInit(@)]
      ELSE [s EXCEPT !.child["status"] = [ChildInit(@) EXCEPT !.version = "json",
              !.stop = signals, !.cont = signals, !.click = (kind = "json")]]

\* send_block_clicked(): what is still to be written to the status command
SendBlockClicked(s) ==
  IF ~s.child["status"].click THEN s
  ELSE [s EXCEPT !.pc = "writing", !.child["status"].clickInit = TRUE,
                 !.toWrite = IF s.child["status"].clickInit THEN <<"click">> ELSE <<"open", "click">>]
=============================================================================
