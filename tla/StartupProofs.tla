--------------------------- MODULE StartupProofs ---------------------------
(***************************************************************************)
(* Proofs about startup notification, for every number of programs,        *)
(* workspaces and names.                                                   *)
(***************************************************************************)
EXTENDS Startup, TLAPS

Sequence == [id : Programs, workspace : Names, delete_at : Nat]

UTypeOK ==
  /\ name \in [Workspaces -> Names]
  /\ sequences \subseteq Sequence
  /\ refs \in [Programs -> Nat]
  /\ timers \in [Programs -> Nat]
  /\ sent \subseteq Programs
  /\ rootCursor \in {"pointer", "watch"}
  /\ window \in [Programs -> {"none", "shown", "leader", "both"}]
  /\ started \in [Programs -> Workspaces \cup {Nothing}]
  /\ clock \in Nat

\* A program has one sequence at most, and a sequence or a timer only when it
\* was started.
OneSequence ==
  /\ \A s, t \in sequences : s.id = t.id => s = t
  /\ \A p \in Programs : (Listed(p) \/ timers[p] # 0) => started[p] # Nothing

\* What ContextsLast rests on; it says itself who holds a context.
UInv == UTypeOK /\ OneSequence /\ ContextsLast

-----------------------------------------------------------------------------
(* What several actions share *)

\* What a step does to the list and the timer of a program shows in its context.
LEMMA HoldersOf ==
  ASSUME NEW p
  PROVE  /\ Holders(p) = (IF Listed(p) THEN 1 ELSE 0) + (IF timers[p] # 0 THEN 1 ELSE 0)
         /\ Holders(p)' = (IF Listed(p)' THEN 1 ELSE 0) + (IF timers'[p] # 0 THEN 1 ELSE 0)
         /\ Holders(p)' \in Nat
<1>1. Holders(p)' = (IF Listed(p)' THEN 1 ELSE 0) + (IF timers'[p] # 0 THEN 1 ELSE 0)
  BY DEF Holders
<1>2. Holders(p)' \in Nat
  BY <1>1
<1> QED BY <1>1, <1>2 DEF Holders

\* A step that leaves the list and the timers alone.
LEMMA ListKept ==
  ASSUME UInv, UNCHANGED <<sequences, refs, timers, rootCursor, started>>,
         name' = name, clock' \in Nat, sent' \subseteq Programs,
         window' \in [Programs -> {"none", "shown", "leader", "both"}]
  PROVE  UInv'
<1>1. \A q : Listed(q)' <=> Listed(q)
  BY DEF Listed
<1>2. \A q : Holders(q)' = Holders(q)
  BY <1>1 DEF Holders
<1>3. UTypeOK'
  BY DEF UInv, UTypeOK
<1>4. OneSequence'
  BY <1>1 DEF UInv, OneSequence
<1>5. ContextsLast'
  BY <1>2 DEF UInv, ContextsLast, Active
<1> QED BY <1>3, <1>4, <1>5 DEF UInv

\* startup_sequence_delete() gives back the reference of the list, once.
LEMMA DeletingKeeps ==
  ASSUME UInv, NEW p \in Programs, Deleting({p}),
         UNCHANGED <<name, timers, sent, rootCursor, started, clock>>,
         window' \in [Programs -> {"none", "shown", "leader", "both"}]
  PROVE  UInv'
<1>a. UTypeOK /\ OneSequence /\ ContextsLast
  BY DEF UInv
<1>1. sequences' = {s \in sequences : s.id # p}
  BY DEF Deleting
<1>2. \A q \in Programs : Listed(q)' <=> Listed(q) /\ q # p
  BY <1>1 DEF Listed
<1>3. refs' = [q \in Programs |-> IF q \in {p} /\ Listed(p) THEN refs[q] - 1 ELSE refs[q]]
  BY DEF Deleting
<1>4. ASSUME NEW q \in Programs PROVE refs'[q] = Holders(q)'
  <2>1. refs[q] = Holders(q)
    BY <1>a DEF ContextsLast
  <2>2. refs'[q] = IF q = p /\ Listed(q) THEN refs[q] - 1 ELSE refs[q]
    BY <1>3
  <2>3. (Listed(q)' <=> Listed(q) /\ q # p) /\ timers'[q] = timers[q]
    BY <1>2
  <2>4. CASE q = p /\ Listed(q)
    BY <2>1, <2>2, <2>3, <2>4, HoldersOf
  <2>5. CASE ~(q = p /\ Listed(q))
    BY <2>1, <2>2, <2>3, <2>5, HoldersOf
  <2> QED BY <2>4, <2>5
<1>5. refs' \in [Programs -> Nat]
  BY <1>3, <1>4, HoldersOf
<1>6. UTypeOK'
  BY <1>a, <1>1, <1>5 DEF UTypeOK
<1>7. OneSequence'
  BY <1>a, <1>1, <1>2 DEF OneSequence
<1>8. ContextsLast'
  BY <1>a, <1>1, <1>4 DEF ContextsLast, Active
<1> QED BY <1>6, <1>7, <1>8 DEF UInv

LEMMA UInvInit == UInit => UInv
<1> SUFFICES ASSUME UInit PROVE UInv
  OBVIOUS
<1>1. name \in [Workspaces -> Names]
  BY NamesAssumption DEF UInit
<1>2. UTypeOK
  BY <1>1 DEF UInit, UTypeOK, Sequence
<1>3. \A p \in Programs : ~Listed(p) /\ timers[p] = 0 /\ refs[p] = 0
  BY DEF UInit, Listed
<1>4. OneSequence
  BY <1>3 DEF OneSequence, UInit
<1>5. ContextsLast
  BY <1>3 DEF ContextsLast, Holders, UInit
<1> QED BY <1>2, <1>4, <1>5 DEF UInv

LEMMA UInvNext == UInv /\ [UNext]_uvars => UInv'
<1> SUFFICES ASSUME UInv, [UNext]_uvars PROVE UInv'
  OBVIOUS
<1>a. UTypeOK /\ OneSequence /\ ContextsLast
  BY DEF UInv
<1>1. ASSUME NEW p \in Programs, NEW w \in Workspaces, Start(p, w) PROVE UInv'
  <2> DEFINE new == [id |-> p, workspace |-> name[w], delete_at |-> 0]
  <2>1. sequences' = sequences \cup {new} /\ new \in Sequence /\ new.id = p
    BY <1>a, <1>1 DEF Start, Sequence, UTypeOK
  <2> HIDE DEF new
  <2>2. ~Listed(p) /\ timers[p] = 0
    BY <1>a, <1>1 DEF Start, OneSequence
  <2>3. \A q \in Programs : Listed(q)' <=> Listed(q) \/ q = p
    BY <2>1 DEF Listed
  <2>4. /\ timers' = [timers EXCEPT ![p] = clock + 2] /\ refs' = [refs EXCEPT ![p] = 2]
        /\ started' = [started EXCEPT ![p] = w] /\ rootCursor' = "watch"
        /\ UNCHANGED <<name, sent, window, clock>>
    BY <1>1 DEF Start, RefsAtStart
  <2>5. UTypeOK'
    <3>1. timers' \in [Programs -> Nat]
      BY <1>a, <2>4 DEF UTypeOK
    <3>2. refs' \in [Programs -> Nat]
      BY <1>a, <2>4 DEF UTypeOK
    <3>3. started' \in [Programs -> Workspaces \cup {Nothing}]
      BY <1>a, <2>4 DEF UTypeOK
    <3> QED BY <1>a, <2>1, <2>4, <3>1, <3>2, <3>3 DEF UTypeOK
  <2>6. OneSequence'
    <3>1. \A s, t \in sequences' : s.id = t.id => s = t
      BY <1>a, <2>1, <2>2 DEF OneSequence, Listed
    <3>2. started'[p] # Nothing
      BY <1>a, <2>4, NamesAssumption DEF UTypeOK, Nothing
    <3>3. ASSUME NEW q \in Programs, q # p
          PROVE  started'[q] = started[q] /\ timers'[q] = timers[q]
      BY <1>a, <2>4, <3>3 DEF UTypeOK
    <3> QED BY <1>a, <2>3, <3>1, <3>2, <3>3 DEF OneSequence
  <2>7. ASSUME NEW q \in Programs PROVE refs'[q] = Holders(q)'
    <3>1. CASE q = p
      <4>1. Listed(q)'
        BY <2>3, <3>1
      <4>2. refs'[q] = 2 /\ timers'[q] = clock + 2 /\ clock \in Nat
        BY <1>a, <2>4, <3>1 DEF UTypeOK
      <4> QED BY <4>1, <4>2, HoldersOf
    <3>2. CASE q # p
      <4>1. (Listed(q)' <=> Listed(q)) /\ timers'[q] = timers[q] /\ refs'[q] = refs[q]
        BY <1>a, <2>3, <2>4, <3>2 DEF UTypeOK
      <4>2. refs[q] = Holders(q)
        BY <1>a DEF ContextsLast
      <4> QED BY <4>1, <4>2, HoldersOf
    <3> QED BY <3>1, <3>2
  <2>8. ContextsLast'
    BY <2>4, <2>7 DEF ContextsLast
  <2> QED BY <2>5, <2>6, <2>8 DEF UInv
<1>2. ASSUME NEW p \in Programs, Completed(p) PROVE UInv'
  <2>1. CASE ~Listed(p)
    <3>1. /\ UNCHANGED <<sequences, refs, rootCursor, name, timers, window, started, clock>>
          /\ sent' \subseteq sent
      BY <1>2, <2>1 DEF Completed, others
    <3> QED BY <1>a, <3>1, ListKept DEF UTypeOK
  <2>2. CASE Listed(p)
    <3> DEFINE gone(q) == \E s \in Marked(p) : s.id = q /\ Expired(s)
    <3>1. /\ sequences' = {s \in Marked(p) : ~Expired(s)}
          /\ refs' = [q \in Programs |-> IF gone(q) THEN refs[q] - 1 ELSE refs[q]]
          /\ rootCursor' = IF \E s \in sequences' : Active(s) THEN rootCursor ELSE "pointer"
          /\ UNCHANGED <<name, timers, window, started, clock>>
          /\ sent' \subseteq sent
      BY <1>2, <2>2 DEF Completed, others
    <3>2. /\ Marked(p) \subseteq Sequence
          /\ \A s, t \in Marked(p) : s.id = t.id => s = t
          /\ \A s \in Marked(p) : Active(s) => s \in sequences
          /\ \A q \in Programs : Listed(q) <=> \E s \in Marked(p) : s.id = q
      <4> DEFINE m(s) == IF s.id = p THEN [s EXCEPT !.delete_at = clock + 1] ELSE s
      <4>1. ASSUME NEW s \in sequences
            PROVE  m(s) \in Sequence /\ m(s).id = s.id /\ (m(s).delete_at = 0 => m(s) = s)
        <5>1. s \in Sequence /\ clock + 1 \in Nat /\ clock + 1 # 0
          BY <1>a DEF UTypeOK
        <5> QED BY <5>1 DEF Sequence
      <4>2. Marked(p) = {m(s) : s \in sequences}
        BY DEF Marked
      <4> HIDE DEF m
      <4>3. \A s, t \in Marked(p) : s.id = t.id => s = t
        BY <1>a, <4>1, <4>2 DEF OneSequence
      <4>4. \A q \in Programs : Listed(q) <=> \E s \in Marked(p) : s.id = q
        BY <4>1, <4>2 DEF Listed
      <4> QED BY <4>1, <4>2, <4>3, <4>4 DEF Active
    <3>3. \A q \in Programs : Listed(q)' <=> Listed(q) /\ ~gone(q)
      BY <3>1, <3>2 DEF Listed
    <3>4. \A q \in Programs : gone(q) => Listed(q)
      BY <3>2
    <3> HIDE DEF gone
    <3>5. ASSUME NEW q \in Programs PROVE refs'[q] = Holders(q)'
      <4>1. refs[q] = Holders(q)
        BY <1>a DEF ContextsLast
      <4>2. refs'[q] = IF gone(q) THEN refs[q] - 1 ELSE refs[q]
        BY <3>1
      <4>3. timers'[q] = timers[q]
        BY <3>1
      <4> QED BY <3>3, <3>4, <4>1, <4>2, <4>3, HoldersOf
    <3>6. UTypeOK'
      <4>1. refs' \in [Programs -> Nat]
        BY <3>1, <3>5, HoldersOf
      <4>2. sequences' \subseteq Sequence /\ sent' \subseteq Programs /\ rootCursor' \in {"pointer", "watch"}
        BY <1>a, <3>1, <3>2 DEF UTypeOK
      <4> QED BY <1>a, <3>1, <4>1, <4>2 DEF UTypeOK
    <3>7. OneSequence'
      <4>1. \A s, t \in sequences' : s.id = t.id => s = t
        BY <3>1, <3>2
      <4> QED BY <1>a, <3>1, <3>3, <4>1 DEF OneSequence
    <3>8. \A s \in sequences' : Active(s) => rootCursor' = "watch"
      BY <1>a, <3>1, <3>2 DEF ContextsLast
    <3>9. ContextsLast'
      BY <3>5, <3>8 DEF ContextsLast, Active
    <3> QED BY <3>6, <3>7, <3>9 DEF UInv
  <2> QED BY <2>1, <2>2
<1>3. ASSUME NEW p \in Programs, Timeout(p) PROVE UInv'
  <2>1. /\ timers' = [timers EXCEPT ![p] = 0] /\ refs' = [refs EXCEPT ![p] = @ - 1]
        /\ timers[p] # 0
        /\ UNCHANGED <<name, sequences, rootCursor, window, started, clock>>
        /\ sent' \subseteq sent \cup {p}
    BY <1>3 DEF Timeout, others
  <2>2. \A q \in Programs : Listed(q)' <=> Listed(q)
    BY <2>1 DEF Listed
  <2>3. ASSUME NEW q \in Programs PROVE refs'[q] = Holders(q)'
    <3>1. refs[q] = Holders(q)
      BY <1>a DEF ContextsLast
    <3>2. IF q = p THEN timers'[q] = 0 /\ timers[q] # 0 /\ refs'[q] = refs[q] - 1
                   ELSE timers'[q] = timers[q] /\ refs'[q] = refs[q]
      BY <1>a, <2>1 DEF UTypeOK
    <3>3. Listed(q)' <=> Listed(q)
      BY <2>2
    <3> QED BY <3>1, <3>2, <3>3, HoldersOf
  <2>4. UTypeOK'
    <3>1. refs' \in [Programs -> Nat]
      <4>1. \A q \in Programs : refs'[q] \in Nat
        BY <2>3, HoldersOf
      <4>2. DOMAIN refs' = Programs /\ refs' = [q \in Programs |-> refs'[q]]
        BY <1>a, <2>1 DEF UTypeOK
      <4> QED BY <4>1, <4>2
    <3>2. timers' \in [Programs -> Nat] /\ sent' \subseteq Programs
      BY <1>a, <2>1 DEF UTypeOK
    <3> QED BY <1>a, <2>1, <3>1, <3>2 DEF UTypeOK
  <2>5. OneSequence'
    <3>1. \A q \in Programs : timers'[q] # 0 => timers[q] # 0
      BY <1>a, <2>1 DEF UTypeOK
    <3> QED BY <1>a, <2>1, <2>2, <3>1 DEF OneSequence
  <2>6. ContextsLast'
    BY <1>a, <2>1, <2>3 DEF ContextsLast, Active
  <2> QED BY <2>4, <2>5, <2>6 DEF UInv
<1>4. ASSUME NEW p \in Programs, SayStarted(p) PROVE UInv'
  BY <1>a, <1>4, ListKept DEF SayStarted, others, UTypeOK
<1>5. ASSUME NEW p \in Programs, OpenWindow(p) \/ OpenLeader(p) \/ MoveWindow(p) PROVE UInv'
  <2>1. /\ Deleting({p}) \/ UNCHANGED <<sequences, refs>>
        /\ UNCHANGED <<name, timers, sent, rootCursor, started, clock>>
        /\ window' \in [Programs -> {"none", "shown", "leader", "both"}]
    BY <1>a, <1>5 DEF OpenWindow, OpenLeader, MoveWindow, others, UTypeOK
  <2>2. CASE Deleting({p})
    BY <2>1, <2>2, DeletingKeeps
  <2>3. CASE UNCHANGED <<sequences, refs>>
    BY <1>a, <2>1, <2>3, ListKept DEF UTypeOK
  <2> QED BY <2>1, <2>2, <2>3
<1>6. CASE Rename
  <2>1. PICK w \in Workspaces, new \in Names, asIs \in SpelledAsIs :
          /\ name' = [name EXCEPT ![w] = new]
          /\ sequences' = IF asIs THEN Renamed(name[w], new) ELSE sequences
    BY <1>6 DEF Rename
  <2>2. UNCHANGED <<refs, timers, sent, rootCursor, window, started, clock>>
    BY <1>6 DEF Rename, others
  <2>3. name' \in [Workspaces -> Names]
    BY <1>a, <2>1 DEF UTypeOK
  <2> DEFINE r(s) == IF asIs /\ s.workspace = name[w] THEN [s EXCEPT !.workspace = new] ELSE s
  <2>4. sequences' = {r(s) : s \in sequences}
    BY <2>1 DEF Renamed
  <2>5. \A s \in sequences : r(s) \in Sequence /\ r(s).id = s.id /\ r(s).delete_at = s.delete_at
    BY <1>a DEF Sequence, UTypeOK
  <2> HIDE DEF r
  <2>6. \A q : Listed(q)' <=> Listed(q)
    BY <2>4, <2>5 DEF Listed
  <2>7. \A q : Holders(q)' = Holders(q)
    BY <2>2, <2>6 DEF Holders
  <2>8. UTypeOK'
    BY <1>a, <2>2, <2>3, <2>4, <2>5 DEF UTypeOK
  <2>9. OneSequence'
    BY <1>a, <2>2, <2>4, <2>5, <2>6 DEF OneSequence
  <2>10. ContextsLast'
    BY <1>a, <2>2, <2>4, <2>5, <2>7 DEF ContextsLast, Active
  <2> QED BY <2>8, <2>9, <2>10 DEF UInv
<1>7. CASE Tick
  <2>1. clock' = clock + 1 /\ UNCHANGED <<name, sequences, refs, timers, sent, rootCursor, window, started>>
    BY <1>7 DEF Tick, others
  <2>2. clock' \in Nat /\ sent' \subseteq Programs
    BY <1>a, <2>1 DEF UTypeOK
  <2>3. window' \in [Programs -> {"none", "shown", "leader", "both"}]
    BY <1>a, <2>1 DEF UTypeOK
  <2> QED BY <2>1, <2>2, <2>3, ListKept
<1>8. CASE UNCHANGED uvars
  BY <1>a, <1>8, ListKept DEF uvars, UTypeOK
<1> QED BY <1>1, <1>2, <1>3, <1>4, <1>5, <1>6, <1>7, <1>8 DEF UNext

\* Whatever the order in which a sequence is completed, expires, is deleted with
\* its window and times out, its context is freed with the last use of it.
THEOREM ContextsAlwaysLast == USpec => []ContextsLast
<1>1. UInv => ContextsLast
  BY DEF UInv
<1> QED BY <1>1, UInvInit, UInvNext, PTL DEF USpec

-----------------------------------------------------------------------------
(* Windows open where their program was started *)

\* Two workspaces have two names, and a sequence has the one of its workspace.
NamesInv ==
  /\ UInv
  /\ \A v, w \in Workspaces : name[v] = name[w] => v = w
  /\ OpensWhereStarted

LEMMA NamesInvInit == UInit => NamesInv
<1> SUFFICES ASSUME UInit PROVE NamesInv
  OBVIOUS
<1>1. IsInjective(name) /\ name \in [Workspaces -> Names]
  BY NamesAssumption DEF UInit
<1>2. \A v, w \in Workspaces : name[v] = name[w] => v = w
  BY <1>1 DEF IsInjective
<1>3. OpensWhereStarted
  BY DEF UInit, OpensWhereStarted
<1> QED BY <1>2, <1>3, UInvInit DEF NamesInv

\* A workspace that is renamed in the way it is spelled takes the sequences
\* started on it along, and no others.
LEMMA NamesInvNext ==
  ASSUME SpelledAsIs \subseteq {TRUE} PROVE NamesInv /\ [UNext]_uvars => NamesInv'
<1> SUFFICES ASSUME NamesInv, [UNext]_uvars PROVE NamesInv'
  OBVIOUS
<1>1. UInv'
  BY UInvNext DEF NamesInv
<1>2. /\ name \in [Workspaces -> Names] /\ sequences \subseteq Sequence
      /\ started \in [Programs -> Workspaces \cup {Nothing}] /\ clock \in Nat
      /\ \A v, w \in Workspaces : name[v] = name[w] => v = w
      /\ OpensWhereStarted
  BY DEF NamesInv, UInv, UTypeOK
<1>3. \A s \in sequences : s.id \in Programs /\ started[s.id] \in Workspaces
  BY <1>2 DEF NamesInv, UInv, OneSequence, Listed, Sequence
<1>4. CASE UNCHANGED <<name, started>> /\ \A s \in sequences' : \E t \in sequences :
             s.id = t.id /\ s.workspace = t.workspace
  <2>1. OpensWhereStarted'
    BY <1>2, <1>4 DEF OpensWhereStarted
  <2> QED BY <1>1, <1>2, <1>4, <2>1 DEF NamesInv
<1>5. ASSUME NEW p \in Programs, NEW w \in Workspaces, Start(p, w) PROVE NamesInv'
  <2> DEFINE new == [id |-> p, workspace |-> name[w], delete_at |-> 0]
  <2>1. /\ sequences' = sequences \cup {new} /\ started' = [started EXCEPT ![p] = w]
        /\ name' = name
    BY <1>5 DEF Start
  <2>2. new.id = p /\ new.workspace = name[w]
    OBVIOUS
  <2>3. \A s \in sequences : s.id # p
    BY <1>3, <1>5, NamesAssumption DEF Start, Nothing
  <2>4. OpensWhereStarted'
    <3>1. started'[p] = w
      BY <1>2, <2>1
    <3>2. \A s \in sequences : started'[s.id] = started[s.id]
      BY <1>2, <1>3, <2>1, <2>3
    <3> HIDE DEF new
    <3> QED BY <1>2, <2>1, <2>2, <3>1, <3>2 DEF OpensWhereStarted
  <2> QED BY <1>1, <1>2, <2>1, <2>4 DEF NamesInv
<1>6. CASE Rename
  <2>1. PICK w \in Workspaces, new \in Names :
          /\ name' = [name EXCEPT ![w] = new]
          /\ \A v \in Workspaces : name[v] # new
          /\ sequences' = Renamed(name[w], new)
    BY <1>6 DEF Rename
  <2>2. started' = started
    BY <1>6 DEF Rename, others
  <2>3. \A v \in Workspaces : name'[v] = IF v = w THEN new ELSE name[v]
    BY <1>2, <2>1
  <2> DEFINE r(s) == IF s.workspace = name[w] THEN [s EXCEPT !.workspace = new] ELSE s
  <2>4. sequences' = {r(s) : s \in sequences}
    BY <2>1 DEF Renamed
  <2>5. \A s \in sequences : /\ r(s).id = s.id
                             /\ r(s).workspace = IF s.workspace = name[w] THEN new ELSE s.workspace
    BY <1>2 DEF Sequence
  <2> HIDE DEF r
  <2>6. ASSUME NEW s \in sequences PROVE r(s).workspace = name'[started[s.id]]
    <3>1. s.workspace = name[started[s.id]] /\ started[s.id] \in Workspaces
      BY <1>2, <1>3 DEF OpensWhereStarted
    <3> QED BY <1>2, <2>3, <2>5, <3>1
  <2>7. OpensWhereStarted'
    BY <2>2, <2>4, <2>5, <2>6 DEF OpensWhereStarted
  <2>8. \A v, x \in Workspaces : name'[v] = name'[x] => v = x
    BY <1>2, <2>1, <2>3
  <2> QED BY <1>1, <2>7, <2>8 DEF NamesInv
<1>7. ASSUME NEW p \in Programs, Completed(p) PROVE NamesInv'
  <2>1. \A s \in Marked(p) : \E t \in sequences : s.id = t.id /\ s.workspace = t.workspace
    <3>1. \A s \in sequences : /\ [s EXCEPT !.delete_at = clock + 1].id = s.id
                               /\ [s EXCEPT !.delete_at = clock + 1].workspace = s.workspace
      BY <1>2 DEF Sequence
    <3> QED BY <3>1 DEF Marked
  <2>2. UNCHANGED <<name, started>> /\ (sequences' = sequences \/ sequences' \subseteq Marked(p))
    BY <1>7 DEF Completed, others
  <2> QED BY <1>4, <2>1, <2>2
<1>8. ASSUME NEW p \in Programs,
             \/ Timeout(p) \/ SayStarted(p) \/ OpenWindow(p) \/ OpenLeader(p) \/ MoveWindow(p)
      PROVE  NamesInv'
  <2>1. UNCHANGED <<name, started>> /\ sequences' \subseteq sequences
    BY <1>8 DEF Timeout, SayStarted, OpenWindow, OpenLeader, MoveWindow, Deleting, others
  <2> QED BY <1>4, <2>1
<1>9. CASE Tick \/ UNCHANGED uvars
  <2>1. UNCHANGED <<name, started, sequences>>
    BY <1>9 DEF Tick, uvars, others
  <2> QED BY <1>4, <2>1
<1> QED BY <1>5, <1>6, <1>7, <1>8, <1>9 DEF UNext

\* When the commands that rename a workspace spell it as it is named, a program's
\* windows open on the workspace it was started on, under whatever name.  (A
\* command that spells it in another case renames it and not the sequences.)
THEOREM AlwaysOpensWhereStarted ==
  ASSUME SpelledAsIs \subseteq {TRUE} PROVE USpec => []OpensWhereStarted
<1>1. NamesInv => OpensWhereStarted
  BY DEF NamesInv
<1> QED BY <1>1, NamesInvInit, NamesInvNext, PTL DEF USpec
=============================================================================
