------------------------------ MODULE KeysProofs ------------------------------
(***************************************************************************)
(* Proofs about the key bindings: reorder_bindings() sorts, and once every *)
(* event has been handled the keys that are grabbed are those of the mode, *)
(* for any configuration, any keymaps and any order of events.             *)
(***************************************************************************)
EXTENDS Keys, FiniteSetTheorems, FunctionTheorems, SequenceTheorems, TLAPS

-----------------------------------------------------------------------------
(***************************************************************************)
(* reorder_bindings().                                                     *)
(***************************************************************************)
LEMMA MaskIsNat == \A b : Mask(b) \in Nat
<1>1. \A n, s : /\ Weight(1, n, s) \in Nat /\ Weight(2, n, s) \in Nat /\ Weight(4, n, s) \in Nat
                /\ Weight(8, n, s) \in Nat /\ Weight(16, n, s) \in Nat
  BY DEF Weight
<1> QED BY <1>1 DEF Mask

LEMMA RankIsPlace ==
  ASSUME NEW n \in Nat, NEW q, DOMAIN q = 1 .. n, NEW j \in 1 .. n
  PROVE  Rank(q, j) \in 1 .. n
<1> DEFINE first == {i \in DOMAIN q : Precedes(q, i, j)}
<1>1. first \subseteq (1 .. n) \ {j}
  BY MaskIsNat DEF Precedes
<1>2. /\ IsFiniteSet(1 .. n) /\ Cardinality(1 .. n) = n
  BY FS_Interval
<1>3. /\ IsFiniteSet((1 .. n) \ {j}) /\ Cardinality((1 .. n) \ {j}) = n - 1
  BY <1>2, FS_RemoveElement
<1> HIDE DEF first
<1>4. Cardinality(first) \in Nat /\ Cardinality(first) <= n - 1
  BY <1>1, <1>3, FS_Subset, FS_CardinalityType
<1>5. Rank(q, j) = 1 + Cardinality(first)
  BY DEF Rank, first
<1> QED BY <1>4, <1>5

\* Of two bindings the one that precedes has the lower rank.
LEMMA RankOrders ==
  ASSUME NEW n \in Nat, NEW q, DOMAIN q = 1 .. n,
         NEW i \in 1 .. n, NEW j \in 1 .. n, Precedes(q, i, j)
  PROVE  Rank(q, i) < Rank(q, j)
<1> DEFINE I == {k \in DOMAIN q : Precedes(q, k, i)}
           J == {k \in DOMAIN q : Precedes(q, k, j)}
<1>1. I \subseteq J /\ i \in J /\ i \notin I
  <2>1. \A k \in 1 .. n : Mask(q[k]) \in Nat
    BY MaskIsNat
  <2> QED BY <2>1 DEF Precedes
<1>2. J \subseteq 1 .. n
  OBVIOUS
<1> HIDE DEF I, J
<1>3. IsFiniteSet(1 .. n)
  BY FS_Interval
<1>4. IsFiniteSet(J) /\ IsFiniteSet(I)
  BY <1>1, <1>2, <1>3, FS_Subset
<1>5. Cardinality(I) \in Nat /\ Cardinality(J) \in Nat
  BY <1>4, FS_CardinalityType
<1>6. Cardinality(I) < Cardinality(J)
  <2>1. I \in SUBSET J
    BY <1>1
  <2>2. Cardinality(I) <= Cardinality(J) /\ (Cardinality(J) = Cardinality(I) => J = I)
    BY <1>4, <2>1, FS_Subset
  <2>3. J # I
    BY <1>1
  <2> QED BY <1>5, <2>2, <2>3
<1>7. Rank(q, i) = 1 + Cardinality(I) /\ Rank(q, j) = 1 + Cardinality(J)
  BY DEF Rank, I, J
<1> QED BY <1>5, <1>6, <1>7

(***************************************************************************)
(* reorder_bindings() keeps every binding once and puts larger masks       *)
(* first: "so that get_binding() correctly matches more specific bindings  *)
(* before more generic bindings" (bindings.c:720).                         *)
(***************************************************************************)
LEMMA ReorderingSorts ==
  ASSUME NEW n \in Nat, NEW q, DOMAIN q = 1 .. n
  PROVE  /\ \E p \in Bijection(1 .. n, 1 .. n) :
              \A i \in 1 .. n : ReorderBindings(q)[i] = q[p[i]]
         /\ \A i, j \in 1 .. n :
              i < j => Mask(ReorderBindings(q)[i]) >= Mask(ReorderBindings(q)[j])
<1> DEFINE place == [j \in 1 .. n |-> Rank(q, j)]
           at(p) == CHOOSE j \in DOMAIN q : Rank(q, j) = p
<1>1. place \in [1 .. n -> 1 .. n] /\ \A j \in 1 .. n : place[j] = Rank(q, j)
  BY RankIsPlace
<1>2. ASSUME NEW i \in 1 .. n, NEW j \in 1 .. n, place[i] = place[j]
      PROVE  i = j
  <2>1. i # j => Precedes(q, i, j) \/ Precedes(q, j, i)
    BY MaskIsNat DEF Precedes
  <2>2. /\ Rank(q, i) \in Nat /\ Rank(q, j) \in Nat /\ Rank(q, i) = Rank(q, j)
        /\ Precedes(q, i, j) => Rank(q, i) < Rank(q, j)
        /\ Precedes(q, j, i) => Rank(q, j) < Rank(q, i)
    BY <1>1, <1>2, RankIsPlace, RankOrders
  <2> QED BY <2>1, <2>2
<1> HIDE DEF place
<1>3. place \in Surjection(1 .. n, 1 .. n)
  <2>1. place \in Injection(1 .. n, 1 .. n)
    BY <1>1, <1>2, Fun_IsInj
  <2>2. IsFiniteSet(1 .. n)
    BY FS_Interval
  <2> QED BY <2>1, <2>2, FS_Injection
<1>4. ASSUME NEW p \in 1 .. n
      PROVE  at(p) \in 1 .. n /\ Rank(q, at(p)) = p
  <2>1. PICK j \in 1 .. n : place[j] = p
    BY <1>3 DEF Surjection
  <2>2. j \in DOMAIN q /\ Rank(q, j) = p
    BY <1>1, <2>1
  <2> QED BY <2>2
<1>5. \A p \in 1 .. n : ReorderBindings(q)[p] = q[at(p)]
  BY DEF ReorderBindings
<1> HIDE DEF at
<1>6. [p \in 1 .. n |-> at(p)] \in Bijection(1 .. n, 1 .. n)
  <2> DEFINE order == [p \in 1 .. n |-> at(p)]
  <2>1. order \in [1 .. n -> 1 .. n] /\ \A p \in 1 .. n : order[p] = at(p)
    BY <1>4
  <2> HIDE DEF order
  <2>2. order \in Injection(1 .. n, 1 .. n)
    BY <1>4, <2>1, Fun_IsInj
  <2>3. IsFiniteSet(1 .. n)
    BY FS_Interval
  <2>4. order \in Surjection(1 .. n, 1 .. n)
    BY <2>2, <2>3, FS_Injection
  <2>5. order \in Bijection(1 .. n, 1 .. n)
    BY <2>2, <2>4, Fun_IsBij
  <2> QED BY <2>5 DEF order
<1>7. ASSUME NEW i \in 1 .. n, NEW j \in 1 .. n, i < j
      PROVE  Mask(ReorderBindings(q)[i]) >= Mask(ReorderBindings(q)[j])
  <2>1. PICK a \in 1 .. n : a = at(i) /\ Rank(q, a) = i
    BY <1>4
  <2>2. PICK b \in 1 .. n : b = at(j) /\ Rank(q, b) = j
    BY <1>4
  <2>3. ~Precedes(q, b, a)
    BY <1>7, <2>1, <2>2, RankOrders
  <2>4. Mask(q[a]) >= Mask(q[b])
    BY <2>3, MaskIsNat DEF Precedes
  <2> QED BY <1>5, <2>1, <2>2, <2>4
<1>8. \E p \in Bijection(1 .. n, 1 .. n) : \A i \in 1 .. n : ReorderBindings(q)[i] = q[p[i]]
  <2>1. \A i \in 1 .. n : ReorderBindings(q)[i] = q[[p \in 1 .. n |-> at(p)][i]]
    BY <1>5
  <2> QED BY <1>6, <2>1
<1> QED BY <1>7, <1>8

-----------------------------------------------------------------------------
(***************************************************************************)
(* The inductive invariant.  The bindings keep their shape and their       *)
(* order; what is grabbed is what the bindings of the mode say in the      *)
(* group that i3 knows of; and with what is still in the queue i3 will     *)
(* know the server's group, and its keymap, in the end.                    *)
(***************************************************************************)
Whole(b) ==
  b = [by |-> b.by, sym |-> b.sym, key |-> b.key, mods |-> b.mods, groups |-> b.groups, release |-> b.release,
       run |-> b.run, on |-> b.on, codes |-> b.codes]
WellMade(q) == q = [i \in DOMAIN q |-> q[i]] /\ \A i \in DOMAIN q : Whole(q[i])
Sorted(q) == \A i, j \in DOMAIN q : i < j => Mask(q[i]) >= Mask(q[j])

Groups == {1} \cup UNION {s.groups : s \in Setups}
Modifiers == {ModKeys[k] : k \in DOMAIN ModKeys} \cup Locks
Events == [type : {"press", "release"}, key : Keys, mods : SUBSET Modifiers, group : Groups]
          \cup [type : {"group", "device", "new", "map"}, group : Groups, seq : Nat]

\* Bindings of every mode, in order.
Kept(bs) ==
  /\ DOMAIN bs = DOMAIN setup.modes /\ bs = [n \in DOMAIN bs |-> bs[n]]
  /\ \A n \in DOMAIN bs : WellMade(bs[n]) /\ Sorted(bs[n])

BindingsKept == setup \in Setups /\ mode \in DOMAIN binds /\ Kept(binds)

ServerType ==
  /\ setup \in Setups
  /\ held \subseteq Keys /\ locks \subseteq Locks
  /\ group \in Groups /\ sent \in Nat
  /\ queue \in Seq(Events)
  /\ \A i \in 1 .. Len(queue) : queue[i].type \in {"press", "release", "group", "device", setup.notice}

GrabsOfTheMode == grabs = GrabAllKeys(binds[mode], current)

Without(type, q) == \A i \in 1 .. Len(q) : q[i].type # type

\* Under a keymap whose changes are announced with XkbNewKeyboardNotify.
KeymapLearnt ==
  setup.notice = "new" =>
    /\ TranslateKeysyms(known, binds[mode]) = binds[mode]
    /\ Without("new", queue) => known = map

\* With what is in the queue c will become g: the newest notice is of g.
GroupIn(q, g, c) ==
  /\ Without("group", q) => c = g
  /\ \A i \in 1 .. Len(q) :
       q[i].type = "group" /\ (\A j \in 1 .. Len(q) : i < j => q[j].type # "group") => q[i].group = g

KeysInv == BindingsKept /\ ServerType /\ GrabsOfTheMode /\ KeymapLearnt /\ GroupIn(queue, group, current)
-----------------------------------------------------------------------------
(***************************************************************************)
(* What marking and translating change of a binding.                       *)
(***************************************************************************)
\* Two bindings that differ in their marks and the keys found for them only.
Alike(b, c) ==
  /\ c.by = b.by /\ c.sym = b.sym /\ c.key = b.key /\ c.mods = b.mods /\ c.groups = b.groups
  /\ c.release = b.release /\ c.run = b.run

LEMMA MarkedBinding ==
  ASSUME NEW b, Whole(b), NEW v
  PROVE  /\ Whole([b EXCEPT !.on = v]) /\ Alike(b, [b EXCEPT !.on = v])
         /\ [b EXCEPT !.on = v].on = v /\ [b EXCEPT !.on = v].codes = b.codes
<1> PICK by, sym, key, mods, groups, release, run, on, codes :
      b = [by |-> by, sym |-> sym, key |-> key, mods |-> mods, groups |-> groups,
           release |-> release, run |-> run, on |-> on, codes |-> codes]
  BY DEF Whole
<1> QED BY DEF Whole, Alike

LEMMA CodesBinding ==
  ASSUME NEW b, Whole(b), NEW v
  PROVE  /\ Whole([b EXCEPT !.codes = v]) /\ Alike(b, [b EXCEPT !.codes = v])
         /\ [b EXCEPT !.codes = v].on = b.on /\ [b EXCEPT !.codes = v].codes = v
<1> PICK by, sym, key, mods, groups, release, run, on, codes :
      b = [by |-> by, sym |-> sym, key |-> key, mods |-> mods, groups |-> groups,
           release |-> release, run |-> run, on |-> on, codes |-> codes]
  BY DEF Whole
<1> QED BY DEF Whole, Alike

LEMMA WholeEqual ==
  ASSUME NEW b, NEW c, Whole(b), Whole(c), Alike(b, c), c.on = b.on, c.codes = b.codes
  PROVE  c = b
BY DEF Whole, Alike

\* The keys for a binding, whatever its marks are.
Resolved(m, b) == Translated(m, b).codes

LEMMA TranslatedBinding ==
  ASSUME NEW b, Whole(b), NEW m
  PROVE  /\ Whole(Translated(m, b)) /\ Alike(b, Translated(m, b))
         /\ Translated(m, b).on = b.on
BY CodesBinding DEF Translated

LEMMA ResolvedAlike ==
  ASSUME NEW b, NEW c, Whole(b), Whole(c), Alike(b, c), NEW m
  PROVE  Resolved(m, c) = Resolved(m, b)
<1> DEFINE Found(d) ==
      LET same == "num" \notin d.mods /\ Sym(m, d.key, d.mods) = Sym(m, d.key, d.mods \cup {"num"})
      IN  IF d.by = "sym" THEN UNION {KeycodeIfMatches(m, d, k) : k \in Keys}
          ELSE WithLocks(d.key, d.mods, IF same THEN Locks ELSE {"caps"})
<1>1. \A k \in Keys : KeycodeIfMatches(m, c, k) = KeycodeIfMatches(m, b, k)
  BY DEF KeycodeIfMatches, Alike
<1>2. {KeycodeIfMatches(m, c, k) : k \in Keys} = {KeycodeIfMatches(m, b, k) : k \in Keys}
  BY <1>1
<1>3. Found(c) = Found(b)
  BY <1>2 DEF Alike
<1>4. Translated(m, b) = [b EXCEPT !.codes = Found(b)] /\ Translated(m, c) = [c EXCEPT !.codes = Found(c)]
  BY DEF Translated
<1> HIDE DEF Found
<1> QED BY <1>3, <1>4, CodesBinding DEF Resolved

\* Bindings that are translated are so after marking them.
LEMMA MarkedTranslated ==
  ASSUME NEW b, NEW c, Whole(b), Whole(c), Alike(b, c), c.codes = b.codes, NEW m, Translated(m, b) = b
  PROVE  Translated(m, c) = c
<1>1. Resolved(m, c) = c.codes
  BY ResolvedAlike DEF Resolved
<1>2. Whole(Translated(m, c)) /\ Alike(c, Translated(m, c)) /\ Translated(m, c).on = c.on
  BY TranslatedBinding
<1> QED BY <1>1, <1>2, WholeEqual DEF Resolved

LEMMA TranslatedTwice ==
  ASSUME NEW b, Whole(b), NEW m
  PROVE  Translated(m, Translated(m, b)) = Translated(m, b)
<1> DEFINE c == Translated(m, b)
           d == Translated(m, c)
<1>1. Whole(c) /\ Alike(b, c) /\ c.on = b.on
  BY TranslatedBinding
<1> HIDE DEF c
<1>2. Whole(d) /\ Alike(c, d) /\ d.on = c.on
  BY <1>1, TranslatedBinding
<1>3. d.codes = c.codes
  <2>1. Resolved(m, c) = Resolved(m, b)
    BY <1>1, ResolvedAlike
  <2> QED BY <2>1 DEF Resolved, c
<1>4. d = c
  BY <1>1, <1>2, <1>3, WholeEqual
<1> QED BY <1>4 DEF c

(***************************************************************************)
(* The same of the bindings of a mode.                                     *)
(***************************************************************************)
\* r are the bindings q with other marks.
Remarked(q, r) ==
  /\ WellMade(r) /\ DOMAIN r = DOMAIN q
  /\ \A i \in DOMAIN q : Alike(q[i], r[i]) /\ r[i].codes = q[i].codes

LEMMA RemarkedKeeps ==
  ASSUME NEW q, NEW r, WellMade(q), Remarked(q, r)
  PROVE  /\ Sorted(q) => Sorted(r)
         /\ \A g : GrabAllKeys(r, g) = GrabAllKeys(q, g)
         /\ \A m : TranslateKeysyms(m, q) = q => TranslateKeysyms(m, r) = r
<1>1. DOMAIN r = DOMAIN q /\ \A i \in DOMAIN q : Alike(q[i], r[i]) /\ r[i].codes = q[i].codes
  BY DEF Remarked
<1>2. ASSUME Sorted(q)
      PROVE  Sorted(r)
  <2>1. \A i \in DOMAIN q : Mask(r[i]) = Mask(q[i])
    BY <1>1 DEF Mask, Alike
  <2> QED BY <1>1, <1>2, <2>1 DEF Sorted
<1>3. ASSUME NEW g
      PROVE  GrabAllKeys(r, g) = GrabAllKeys(q, g)
  <2> DEFINE Keysof(p, i) == IF p[i].by = "code" THEN WithLocks(p[i].key, p[i].mods, Locks) ELSE p[i].codes
             Here(p) == {j \in DOMAIN p : InCurrentGroup(p[j], g)}
  <2>1. Here(r) = Here(q)
    BY <1>1 DEF InCurrentGroup, Alike
  <2>2. \A i \in DOMAIN q : Keysof(r, i) = Keysof(q, i)
    BY <1>1 DEF Alike
  <2>3. Here(q) \subseteq DOMAIN q
    OBVIOUS
  <2>4. GrabAllKeys(r, g) = UNION {Keysof(r, i) : i \in Here(r)} /\ GrabAllKeys(q, g) = UNION {Keysof(q, i) : i \in Here(q)}
    BY DEF GrabAllKeys
  <2> HIDE DEF Here, Keysof
  <2>5. {Keysof(r, i) : i \in Here(r)} = {Keysof(q, i) : i \in Here(q)}
    BY <2>1, <2>2, <2>3
  <2> QED BY <2>4, <2>5
<1>4. ASSUME NEW m, TranslateKeysyms(m, q) = q
      PROVE  TranslateKeysyms(m, r) = r
  <2>1. \A i \in DOMAIN q : Translated(m, q[i]) = q[i]
    BY <1>4 DEF TranslateKeysyms
  <2>2. \A i \in DOMAIN q : Translated(m, r[i]) = r[i]
    BY <1>1, <2>1, MarkedTranslated DEF WellMade, Remarked
  <2>3. r = [i \in DOMAIN r |-> r[i]]
    BY DEF Remarked, WellMade
  <2> QED BY <1>1, <2>2, <2>3 DEF TranslateKeysyms
<1> QED BY <1>2, <1>3, <1>4

LEMMA MarkingRemarks ==
  ASSUME NEW q, WellMade(q)
  PROVE  Remarked(q, Disarm(q)) /\ \A e : Remarked(q, Marked(q, e))
<1>1. ASSUME NEW w, NEW r, r = [i \in DOMAIN q |-> [q[i] EXCEPT !.on = w[i]]]
      PROVE  Remarked(q, r)
  <2>1. \A i \in DOMAIN q : r[i] = [q[i] EXCEPT !.on = w[i]] /\ Whole(q[i])
    BY <1>1 DEF WellMade
  <2>2. DOMAIN r = DOMAIN q /\ r = [i \in DOMAIN r |-> r[i]]
    BY <1>1
  <2>3. \A i \in DOMAIN q : Whole(r[i]) /\ Alike(q[i], r[i]) /\ r[i].codes = q[i].codes
    <3> TAKE i \in DOMAIN q
    <3>1. PICK b, v : b = q[i] /\ v = w[i]
      OBVIOUS
    <3>2. Whole(b) /\ r[i] = [b EXCEPT !.on = v]
      BY <2>1, <3>1
    <3>3. Whole([b EXCEPT !.on = v]) /\ Alike(b, [b EXCEPT !.on = v]) /\ [b EXCEPT !.on = v].codes = b.codes
      BY <3>2, MarkedBinding
    <3> QED BY <3>1, <3>2, <3>3
  <2> QED BY <2>2, <2>3 DEF WellMade, Remarked
<1>2. Remarked(q, Disarm(q))
  <2> DEFINE w == [i \in DOMAIN q |-> IF q[i].on = "armed" THEN "release" ELSE q[i].on]
  <2>1. Disarm(q) = [i \in DOMAIN q |-> [q[i] EXCEPT !.on = w[i]]]
    BY DEF Disarm
  <2> HIDE DEF w
  <2> QED BY <1>1, <2>1
<1>3. ASSUME NEW e
      PROVE  Remarked(q, Marked(q, e))
  <2> DEFINE run == MatchOf(q, e)
             later == {i \in DOMAIN q : i > run /\ Matches(q[i], e) /\ q[i].on = "release"}
             end == IF run = 0 \/ later = {} THEN Len(q) ELSE Min(later)
             w == [i \in DOMAIN q |-> IF q[i].on = "release" /\ i <= end /\ Matches(q[i], e) THEN "armed" ELSE q[i].on]
  <2>1. Marked(q, e) = [i \in DOMAIN q |-> [q[i] EXCEPT !.on = w[i]]]
    BY DEF Marked
  <2> HIDE DEF w
  <2> QED BY <1>1, <2>1
<1> QED BY <1>2, <1>3
-----------------------------------------------------------------------------
(***************************************************************************)
(* The queue.                                                              *)
(***************************************************************************)
LEMMA AppendedEvent ==
  ASSUME NEW q \in Seq(Events), NEW e \in Events, NEW g, NEW c, GroupIn(q, g, c)
  PROVE  /\ e.type # "group" => GroupIn(Append(q, e), g, c)
         /\ e.type = "group" => GroupIn(Append(q, e), e.group, c)
         /\ \A type : Without(type, Append(q, e)) => Without(type, q) /\ e.type # type
<1> PICK n \in Nat : n = Len(q)
  BY LenProperties
<1> DEFINE r == Append(q, e)
<1>1. /\ Len(r) = n + 1 /\ \A i \in 1 .. n : r[i] = q[i]
      /\ r[n + 1] = e
  BY AppendProperties
<1> HIDE DEF r
<1>2. \A i \in 1 .. n : i \in 1 .. n + 1 /\ i < n + 1 /\ i # n + 1
  OBVIOUS
<1>3. \A i \in 1 .. n + 1 : i \in 1 .. n \/ i = n + 1
  OBVIOUS
<1>4. n + 1 \in 1 .. n + 1
  OBVIOUS
<1>5. ASSUME NEW type, Without(type, r)
      PROVE  Without(type, q) /\ e.type # type
  BY <1>1, <1>2, <1>4, <1>5 DEF Without
<1>6. ASSUME e.type # "group"
      PROVE  GroupIn(r, g, c)
  <2>1. Without("group", r) => c = g
    BY <1>5 DEF GroupIn
  <2>2. ASSUME NEW i \in 1 .. n + 1, r[i].type = "group",
               \A j \in 1 .. n + 1 : i < j => r[j].type # "group"
        PROVE  r[i].group = g
    <3>1. i \in 1 .. n
      BY <1>1, <1>3, <1>6, <2>2
    <3>2. \A j \in 1 .. n : i < j => q[j].type # "group"
      BY <1>1, <1>2, <2>2
    <3> QED BY <1>1, <2>2, <3>1, <3>2 DEF GroupIn
  <2> QED BY <1>1, <2>1, <2>2 DEF GroupIn
<1>7. ASSUME e.type = "group"
      PROVE  GroupIn(r, e.group, c)
  <2>1. ~Without("group", r)
    BY <1>1, <1>4, <1>7 DEF Without
  <2>2. ASSUME NEW i \in 1 .. n + 1, \A j \in 1 .. n + 1 : i < j => r[j].type # "group"
        PROVE  r[i].group = e.group
    BY <1>1, <1>2, <1>3, <1>4, <1>7, <2>2
  <2> QED BY <1>1, <2>1, <2>2 DEF GroupIn
<1> QED BY <1>5, <1>6, <1>7 DEF r

LEMMA HandledEvent ==
  ASSUME NEW q \in Seq(Events), q # << >>, NEW g, NEW c, GroupIn(q, g, c)
  PROVE  /\ Head(q) \in Events /\ Tail(q) \in Seq(Events)
         /\ Head(q) = q[1] /\ 1 \in 1 .. Len(q)
         /\ \A i \in 1 .. Len(Tail(q)) : i + 1 \in 1 .. Len(q) /\ Tail(q)[i] = q[i + 1]
         /\ Head(q).type # "group" => GroupIn(Tail(q), g, c)
         /\ Head(q).type = "group" => GroupIn(Tail(q), g, Head(q).group)
         /\ \A type : Head(q).type # type /\ Without(type, Tail(q)) => Without(type, q)
<1> PICK n \in Nat : n = Len(q)
  BY LenProperties
<1> DEFINE r == Tail(q)
<1>0. /\ Head(q) \in Events /\ r \in Seq(Events) /\ Head(q) = q[1] /\ n > 0
      /\ Len(r) = n - 1 /\ \A i \in 1 .. n - 1 : r[i] = q[i + 1]
  BY HeadTailProperties, EmptySeq, LenProperties
<1> HIDE DEF r
<1> PICK h : h = Head(q)
  OBVIOUS
<1>1. /\ q[1] = h /\ 1 \in 1 .. n
      /\ \A i \in 1 .. n - 1 : i + 1 \in 1 .. n /\ r[i] = q[i + 1] /\ 1 < i + 1
  BY <1>0
<1>2. \A i \in 1 .. n : i = 1 \/ (i - 1 \in 1 .. n - 1 /\ r[i - 1] = q[i])
  BY <1>0
<1>3. ASSUME NEW type, h.type # type, Without(type, r)
      PROVE  Without(type, q)
  BY <1>0, <1>1, <1>2, <1>3 DEF Without
<1>4. ASSUME NEW i \in 1 .. n - 1, r[i].type = "group",
             \A j \in 1 .. n - 1 : i < j => r[j].type # "group"
      PROVE  r[i].group = g
  <2>1. q[i + 1].type = "group" /\ i + 1 \in 1 .. n
    BY <1>1, <1>4
  <2>2. ASSUME NEW j \in 1 .. n, i + 1 < j
        PROVE  q[j].type # "group"
    BY <1>2, <1>4, <2>2
  <2> QED BY <1>1, <2>1, <2>2 DEF GroupIn
<1>5. ASSUME h.type # "group"
      PROVE  GroupIn(r, g, c)
  <2>1. Without("group", r) => c = g
    BY <1>3, <1>5 DEF GroupIn
  <2> QED BY <1>0, <1>4, <2>1 DEF GroupIn
<1>6. ASSUME h.type = "group"
      PROVE  GroupIn(r, g, h.group)
  <2>1. ASSUME Without("group", r)
        PROVE  h.group = g
    <3>1. ASSUME NEW j \in 1 .. n, 1 < j
          PROVE  q[j].type # "group"
      BY <1>0, <1>2, <2>1, <3>1 DEF Without
    <3> QED BY <1>1, <1>6, <3>1 DEF GroupIn
  <2> QED BY <1>0, <1>4, <2>1 DEF GroupIn
<1> QED BY <1>0, <1>1, <1>3, <1>5, <1>6 DEF r
-----------------------------------------------------------------------------
(***************************************************************************)
(* Bindings as they are read, and translating them.                        *)
(***************************************************************************)
LEMMA ConfiguredBindings ==
  ASSUME NEW s \in Setups, NEW n \in DOMAIN s.modes
  PROVE  WellMade(Configured(s.modes[n])) /\ Sorted(Configured(s.modes[n]))
<1> DEFINE raw == s.modes[n]
           q == [i \in DOMAIN raw |-> NewBinding(raw[i])]
<1>1. PICK k \in Nat : DOMAIN raw = 1 .. k
  BY KeysAssumption
<1>2. DOMAIN q = 1 .. k /\ \A i \in 1 .. k : Whole(q[i])
  <2>1. \A i \in 1 .. k : q[i] = NewBinding(raw[i])
    BY <1>1
  <2>2. \A b : Whole(NewBinding(b))
    BY DEF Whole, NewBinding
  <2> QED BY <1>1, <2>1, <2>2
<1>3. Configured(raw) = ReorderBindings(q)
  BY DEF Configured
<1> HIDE DEF q
<1>4. PICK p \in Bijection(1 .. k, 1 .. k) : \A i \in 1 .. k : ReorderBindings(q)[i] = q[p[i]]
  BY <1>2, ReorderingSorts
<1>5. \A i \in 1 .. k : p[i] \in 1 .. k
  BY <1>4 DEF Bijection, Injection
<1>6. DOMAIN ReorderBindings(q) = 1 .. k /\ ReorderBindings(q) = [i \in 1 .. k |-> ReorderBindings(q)[i]]
  BY <1>2 DEF ReorderBindings
<1>7. WellMade(ReorderBindings(q))
  BY <1>2, <1>4, <1>5, <1>6 DEF WellMade
<1>8. Sorted(ReorderBindings(q))
  BY <1>2, <1>6, ReorderingSorts DEF Sorted
<1> QED BY <1>3, <1>7, <1>8

LEMMA TranslateKeeps ==
  ASSUME NEW q, WellMade(q), NEW m
  PROVE  /\ WellMade(TranslateKeysyms(m, q))
         /\ Sorted(q) => Sorted(TranslateKeysyms(m, q))
         /\ TranslateKeysyms(m, TranslateKeysyms(m, q)) = TranslateKeysyms(m, q)
<1> DEFINE r == TranslateKeysyms(m, q)
<1>1. DOMAIN r = DOMAIN q /\ r = [i \in DOMAIN r |-> r[i]] /\ \A i \in DOMAIN q : r[i] = Translated(m, q[i])
  BY DEF TranslateKeysyms
<1>2. \A i \in DOMAIN q : Whole(q[i])
  BY DEF WellMade
<1>3. TranslateKeysyms(m, r) = [i \in DOMAIN r |-> Translated(m, r[i])]
  BY DEF TranslateKeysyms
<1> HIDE DEF r
<1>4. WellMade(r)
  BY <1>1, <1>2, TranslatedBinding DEF WellMade
<1>5. \A i \in DOMAIN q : Mask(r[i]) = Mask(q[i])
  BY <1>1, <1>2, TranslatedBinding DEF Mask, Alike
<1>6. Sorted(q) => Sorted(r)
  BY <1>1, <1>5 DEF Sorted
<1>7. \A i \in DOMAIN q : Translated(m, r[i]) = r[i]
  BY <1>1, <1>2, TranslatedTwice
<1>8. TranslateKeysyms(m, r) = r
  BY <1>1, <1>3, <1>7
<1> QED BY <1>4, <1>6, <1>8 DEF r

-----------------------------------------------------------------------------
LEMMA KeysInvInit == KeyInit => KeysInv
<1> SUFFICES ASSUME KeyInit
             PROVE  KeysInv
  OBVIOUS
<1>1. setup \in Setups /\ "default" \in DOMAIN setup.modes
  BY KeysAssumption DEF KeyInit
<1>2. /\ DOMAIN binds = DOMAIN setup.modes /\ binds = [n \in DOMAIN binds |-> binds[n]]
      /\ \A n \in DOMAIN binds : binds[n] = IF n = "default" THEN TranslateKeysyms(map, Configured(setup.modes[n]))
                                            ELSE Configured(setup.modes[n])
      /\ mode = "default" /\ grabs = GrabAllKeys(binds["default"], 1)
      /\ queue = << >> /\ known = map /\ current = 1 /\ group = 1 /\ held = {} /\ locks = {} /\ sent = 1
  BY DEF KeyInit
<1>3. BindingsKept
  BY <1>1, <1>2, ConfiguredBindings, TranslateKeeps DEF BindingsKept, Kept
<1>4. queue \in Seq(Events) /\ Len(queue) = 0 /\ \A i \in 1 .. Len(queue) : FALSE
  BY <1>2, EmptySeq
<1>5. ServerType
  BY <1>1, <1>2, <1>4 DEF ServerType, Groups
<1>6. GrabsOfTheMode /\ KeymapLearnt
  BY <1>1, <1>2, ConfiguredBindings, TranslateKeeps DEF GrabsOfTheMode, KeymapLearnt
<1>7. GroupIn(queue, group, current)
  BY <1>2, <1>4 DEF GroupIn
<1> QED BY <1>3, <1>5, <1>6, <1>7 DEF KeysInv

(***************************************************************************)
(* What the user does: at most one event is appended.                      *)
(***************************************************************************)
LEMMA TypedEvents ==
  ASSUME ServerType, NEW k \in Keys
  PROVE  /\ \A type \in {"press", "release"} : KeyEvent(type, k) \in Events /\ KeyEvent(type, k).type = type
         /\ \A type \in {"group", "device", "new", "map"}, g \in Groups :
              /\ Notice(type, g) \in Events /\ Notice(type, g).type = type
              /\ Notice(type, g).group = g
<1>1. State \in SUBSET Modifiers
  BY DEF State, Modifiers, ServerType
<1> QED BY <1>1 DEF KeyEvent, Notice, Events, ServerType

LEMMA UserKeeps ==
  ASSUME KeysInv,
         UNCHANGED <<i3, grabs, setup>>,
         held' \subseteq Keys, locks' \subseteq Locks,
         \/ UNCHANGED <<queue, group, map>>
         \/ \E e \in Events :
              /\ queue' = Append(queue, e)
              /\ e.type \in {"press", "release", "group", "device", setup.notice}
              /\ group' = IF e.type = "group" THEN e.group ELSE group
              /\ map' # map => e.type = setup.notice
  PROVE  KeysInv'
<1>1. /\ UNCHANGED <<known, current, mode, binds, sent, ignored, grabs, setup>>
      /\ setup.notice \in {"new", "map"}
      /\ queue \in Seq(Events) /\ setup \in Setups /\ group \in Groups
      /\ GroupIn(queue, group, current)
  BY KeysAssumption DEF i3, KeysInv, ServerType
<1>2. BindingsKept' /\ GrabsOfTheMode'
  BY <1>1 DEF KeysInv, BindingsKept, Kept, GrabsOfTheMode
<1>3. CASE UNCHANGED <<queue, group, map>>
  BY <1>1, <1>2, <1>3 DEF KeysInv, ServerType, KeymapLearnt
<1>4. ASSUME NEW e \in Events, queue' = Append(queue, e),
             e.type \in {"press", "release", "group", "device", setup.notice},
             group' = (IF e.type = "group" THEN e.group ELSE group),
             map' # map => e.type = setup.notice
      PROVE  KeysInv'
  <2>1. /\ GroupIn(queue', group', current)
        /\ \A type : Without(type, queue') => Without(type, queue) /\ e.type # type
    BY <1>1, <1>4, AppendedEvent
  <2>2. KeymapLearnt'
    BY <1>1, <1>4, <2>1 DEF KeysInv, KeymapLearnt
  <2>3. group' \in Groups
    BY <1>1, <1>4 DEF Events
  <2>4. /\ queue' \in Seq(Events)
        /\ \A i \in 1 .. Len(queue') : queue'[i] = e \/ (i \in 1 .. Len(queue) /\ queue'[i] = queue[i])
    BY <1>1, <1>4, AppendProperties, LenProperties
  <2>5. \A i \in 1 .. Len(queue') : queue'[i].type \in {"press", "release", "group", "device", setup.notice}
    BY <1>4, <2>4 DEF KeysInv, ServerType
  <2>6. sent' \in Nat
    BY <1>1 DEF KeysInv, ServerType
  <2> QED BY <1>1, <1>2, <2>1, <2>2, <2>3, <2>4, <2>5, <2>6 DEF KeysInv, ServerType
<1> QED BY <1>3, <1>4
LEMMA UserInductive ==
  ASSUME KeysInv,
         \/ \E k \in Keys : Press(k) \/ Release(k)
         \/ \E l \in setup.locks : ToggleLock(l)
         \/ \E g \in setup.groups : SwitchGroup(g)
         \/ \E m \in setup.maps : ChangeKeymap(m)
         \/ ReplaceKeyboard
  PROVE  KeysInv'
<1>0. /\ ServerType /\ setup \in Setups /\ setup.notice \in {"new", "map"} /\ setup.locks \subseteq Locks
      /\ held \subseteq Keys /\ locks \subseteq Locks /\ group \in Groups
  BY KeysAssumption DEF KeysInv, ServerType
<1>1. ASSUME NEW k \in Keys, Press(k)
      PROVE  KeysInv'
  <2>1. KeyEvent("press", k) \in Events /\ KeyEvent("press", k).type = "press"
    BY <1>0, TypedEvents
  <2>2. /\ UNCHANGED <<i3, grabs, setup, locks, group, map>> /\ held' = held \cup {k}
        /\ queue' = queue \/ queue' = Append(queue, KeyEvent("press", k))
    BY <1>1 DEF Press, Does
  <2> QED BY <1>0, <2>1, <2>2, UserKeeps
<1>2. ASSUME NEW k \in Keys, Release(k)
      PROVE  KeysInv'
  <2>1. KeyEvent("release", k) \in Events /\ KeyEvent("release", k).type = "release"
    BY <1>0, TypedEvents
  <2>2. /\ UNCHANGED <<i3, grabs, setup, locks, group, map>> /\ held' = held \ {k}
        /\ queue' = queue \/ queue' = Append(queue, KeyEvent("release", k))
    BY <1>2 DEF Release, Does
  <2> QED BY <1>0, <2>1, <2>2, UserKeeps
<1>3. ASSUME NEW l \in setup.locks, ToggleLock(l)
      PROVE  KeysInv'
  <2>1. UNCHANGED <<i3, grabs, setup, held, group, map, queue>> /\ locks' \subseteq Locks
    BY <1>0, <1>3 DEF ToggleLock, Does
  <2> QED BY <1>0, <2>1, UserKeeps
<1>4. ASSUME NEW g \in setup.groups, SwitchGroup(g)
      PROVE  KeysInv'
  <2>1. g \in Groups
    BY <1>0 DEF Groups
  <2>2. /\ Notice("group", g) \in Events /\ Notice("group", g).type = "group"
        /\ Notice("group", g).group = g
    BY <1>0, <2>1 DEF Notice, Events, ServerType
  <2>3. /\ UNCHANGED <<i3, grabs, setup, held, locks, map>> /\ group' = g
        /\ queue' = Append(queue, Notice("group", g))
    BY <1>4 DEF SwitchGroup, Does
  <2> QED BY <1>0, <2>2, <2>3, UserKeeps
<1>5. ASSUME NEW m \in setup.maps, ChangeKeymap(m)
      PROVE  KeysInv'
  <2>1. Notice(setup.notice, group) \in Events /\ Notice(setup.notice, group).type = setup.notice
    BY <1>0 DEF Notice, Events, ServerType
  <2>2. /\ UNCHANGED <<i3, grabs, setup, held, locks, group>>
        /\ queue' = Append(queue, Notice(setup.notice, group))
    BY <1>5 DEF ChangeKeymap, Does
  <2>3. setup.notice # "group"
    BY <1>0
  <2> QED BY <1>0, <2>1, <2>2, <2>3, UserKeeps
<1>6. CASE ReplaceKeyboard
  <2>1. Notice("device", group) \in Events /\ Notice("device", group).type = "device"
    BY <1>0 DEF Notice, Events, ServerType
  <2>2. /\ UNCHANGED <<i3, grabs, setup, held, locks, group, map>>
        /\ queue' = Append(queue, Notice("device", group))
    BY <1>6 DEF ReplaceKeyboard, Does
  <2> QED BY <1>0, <2>1, <2>2, UserKeeps
<1> QED BY <1>1, <1>2, <1>3, <1>4, <1>5, <1>6

(***************************************************************************)
(* What i3 does.                                                           *)
(***************************************************************************)
\* switch_mode(), and load_configuration(), from bindings in order.
LEMMA SwitchKeeps ==
  ASSUME KeysInv, NEW bs, Kept(bs), NEW n \in DOMAIN bs, SwitchMode(n, bs),
         UNCHANGED <<setup, known, current>>
  PROVE  /\ BindingsKept' /\ GrabsOfTheMode'
         /\ TranslateKeysyms(known, binds'[mode']) = binds'[mode']
<1> DEFINE q == TranslateKeysyms(known, bs[n])
<1>1. /\ mode' = n /\ binds' = [bs EXCEPT ![n] = Disarm(q)]
      /\ grabs' = GrabAllKeys(binds'[n], current)
  BY DEF SwitchMode
<1>2. WellMade(q) /\ Sorted(q) /\ TranslateKeysyms(known, q) = q
  BY TranslateKeeps DEF Kept
<1> HIDE DEF q
<1>3. /\ Remarked(q, Disarm(q)) /\ WellMade(Disarm(q)) /\ Sorted(Disarm(q))
      /\ TranslateKeysyms(known, Disarm(q)) = Disarm(q)
  BY <1>2, MarkingRemarks, RemarkedKeeps DEF Remarked
<1>4. /\ DOMAIN binds' = DOMAIN bs /\ binds'[n] = Disarm(q)
      /\ \A k \in DOMAIN bs : k # n => binds'[k] = bs[k]
      /\ binds' = [k \in DOMAIN binds' |-> binds'[k]]
  BY <1>1 DEF Kept
<1>5. \A k \in DOMAIN binds' : WellMade(binds'[k]) /\ Sorted(binds'[k])
  BY <1>3, <1>4 DEF Kept
<1> QED BY <1>1, <1>3, <1>4, <1>5 DEF BindingsKept, Kept, GrabsOfTheMode, KeysInv

LEMMA RunBindingKeeps ==
  ASSUME KeysInv, NEW bs, Kept(bs), NEW i, NEW now, RunBinding(bs, i, now),
         GrabAllKeys(bs[mode], current) = GrabAllKeys(binds[mode], current),
         TranslateKeysyms(known, binds[mode]) = binds[mode]
           => TranslateKeysyms(known, bs[mode]) = bs[mode],
         UNCHANGED <<setup, known, current>>
  PROVE  /\ BindingsKept' /\ GrabsOfTheMode'
         /\ TranslateKeysyms(known, binds[mode]) = binds[mode]
              => TranslateKeysyms(known, binds'[mode']) = binds'[mode']
<1>0. mode \in DOMAIN bs /\ setup \in Setups /\ DOMAIN binds = DOMAIN setup.modes /\ DOMAIN bs = DOMAIN setup.modes
  BY DEF KeysInv, BindingsKept, Kept
<1>1. CASE i # 0 /\ bs[mode][i].run \in DOMAIN binds
  <2>1. bs[mode][i].run # "reload"
    BY <1>0, <1>1, KeysAssumption
  <2>2. SwitchMode(bs[mode][i].run, bs)
    BY <1>1, <2>1 DEF RunBinding
  <2> QED BY <1>0, <1>1, <2>2, SwitchKeeps
<1>2. CASE i # 0 /\ bs[mode][i].run = "reload" /\ ~(bs[mode][i].run \in DOMAIN binds)
  <2> DEFINE fresh == [n \in DOMAIN binds |-> Configured(setup.modes[n])]
  <2>1. SwitchMode("default", fresh)
    BY <1>2 DEF RunBinding, LoadConfiguration
  <2>2. Kept(fresh) /\ "default" \in DOMAIN fresh
    BY <1>0, ConfiguredBindings, KeysAssumption DEF Kept
  <2> QED BY <2>1, <2>2, SwitchKeeps
<1>3. CASE ~(i # 0 /\ bs[mode][i].run \in DOMAIN binds) /\ ~(i # 0 /\ bs[mode][i].run = "reload")
  <2>1. mode' = mode /\ binds' = bs /\ grabs' = grabs
    BY <1>3 DEF RunBinding
  <2> QED BY <1>0, <2>1 DEF KeysInv, BindingsKept, Kept, GrabsOfTheMode
<1> QED BY <1>1, <1>2, <1>3

LEMMA EventInductive ==
  ASSUME KeysInv, HandleEvent
  PROVE  KeysInv'
<1> PICK e : e = Head(queue)
  OBVIOUS
<1>1. /\ queue \in Seq(Events) /\ queue # << >> /\ queue' = Tail(queue)
      /\ UNCHANGED <<server, setup, fuel>>
      /\ HandleKeyPress(e) \/ HandleNewKeyboard(e) \/ HandleMap(e) \/ HandleGroup(e)
      /\ GroupIn(queue, group, current)
      /\ \A i \in 1 .. Len(queue) : queue[i].type \in {"press", "release", "group", "device", setup.notice}
  BY DEF HandleEvent, KeysInv, ServerType
<1>2. UNCHANGED <<held, locks, group, map, active, setup>>
  BY <1>1 DEF server
<1>3. /\ e \in Events /\ queue' \in Seq(Events)
      /\ e.type \in {"press", "release", "group", "device", setup.notice}
      /\ \A i \in 1 .. Len(queue') : queue'[i].type \in {"press", "release", "group", "device", setup.notice}
      /\ e.type # "group" => GroupIn(queue', group, current)
      /\ e.type = "group" => GroupIn(queue', group, e.group)
      /\ \A type : e.type # type /\ Without(type, queue') => Without(type, queue)
  BY <1>1, HandledEvent
<1>4. sent' \in {sent, sent + 1}
  BY <1>1 DEF HandleKeyPress, HandleNewKeyboard, HandleMap, HandleGroup, RunBinding, SwitchMode,
              LoadConfiguration, Regrab, i3
<1>5. ServerType'
  BY <1>2, <1>3, <1>4 DEF KeysInv, ServerType
<1>6. mode \in DOMAIN binds /\ WellMade(binds[mode]) /\ Sorted(binds[mode]) /\ Kept(binds) /\ setup \in Setups
  BY DEF KeysInv, BindingsKept, Kept
<1>7. CASE HandleKeyPress(e)
  <2>1. UNCHANGED <<known, current>> /\ e.type \in {"press", "release"}
    BY <1>7 DEF HandleKeyPress
  <2>2. /\ BindingsKept' /\ GrabsOfTheMode'
        /\ TranslateKeysyms(known, binds[mode]) = binds[mode]
             => TranslateKeysyms(known, binds'[mode']) = binds'[mode']
    <3>1. CASE e.type = "press"
      <4> DEFINE q == Disarm(binds[mode])
                 r == Marked(q, e)
                 bs == [binds EXCEPT ![mode] = r]
      <4>1. RunBinding(bs, MatchOf(q, e), {e})
        BY <1>7, <3>1 DEF HandleKeyPress
      <4>2. /\ Remarked(binds[mode], q) /\ WellMade(q) /\ Sorted(q)
            /\ \A g : GrabAllKeys(q, g) = GrabAllKeys(binds[mode], g)
            /\ \A m : TranslateKeysyms(m, binds[mode]) = binds[mode] => TranslateKeysyms(m, q) = q
        BY <1>6, MarkingRemarks, RemarkedKeeps DEF Remarked
      <4> HIDE DEF q
      <4>3. /\ WellMade(r) /\ Sorted(r)
            /\ \A g : GrabAllKeys(r, g) = GrabAllKeys(q, g)
            /\ \A m : TranslateKeysyms(m, q) = q => TranslateKeysyms(m, r) = r
        <5>1. Remarked(q, r)
          BY <4>2, MarkingRemarks
        <5> HIDE DEF r
        <5> QED BY <4>2, <5>1, RemarkedKeeps DEF Remarked
      <4> HIDE DEF r
      <4>4. Kept(bs) /\ bs[mode] = r
        BY <1>6, <4>3 DEF Kept
      <4> HIDE DEF bs
      <4> QED BY <1>2, <2>1, <4>1, <4>2, <4>3, <4>4, RunBindingKeeps
    <3>2. CASE e.type = "release"
      <4>1. RunBinding(binds, MatchOf(binds[mode], e), last)
        BY <1>7, <3>2 DEF HandleKeyPress
      <4> QED BY <1>2, <1>6, <2>1, <4>1, RunBindingKeeps
    <3> QED BY <2>1, <3>1, <3>2
  <2>3. KeymapLearnt'
    BY <1>2, <1>3, <2>1, <2>2 DEF KeysInv, KeymapLearnt
  <2> QED BY <1>2, <1>3, <1>5, <2>1, <2>2, <2>3 DEF KeysInv
<1>8. ASSUME NEW m, Regrab(m, binds[mode]), UNCHANGED <<current, mode>>
      PROVE  /\ BindingsKept' /\ GrabsOfTheMode'
             /\ TranslateKeysyms(m, binds'[mode']) = binds'[mode']
  <2> DEFINE q == TranslateKeysyms(m, binds[mode])
  <2>1. binds' = [binds EXCEPT ![mode] = q] /\ grabs' = GrabAllKeys(binds'[mode], current)
    BY <1>8 DEF Regrab
  <2>2. WellMade(q) /\ Sorted(q) /\ TranslateKeysyms(m, q) = q
    BY <1>6, TranslateKeeps
  <2> HIDE DEF q
  <2>3. binds'[mode] = q /\ Kept(binds') /\ DOMAIN binds' = DOMAIN binds
    BY <1>6, <2>1, <2>2 DEF Kept
  <2>4. Kept(binds)'
    BY <1>2, <2>3 DEF Kept
  <2> QED BY <1>2, <1>6, <1>8, <2>1, <2>2, <2>3, <2>4 DEF BindingsKept, GrabsOfTheMode
<1>9. CASE HandleNewKeyboard(e)
  <2>1. /\ known' = (IF e.type = "new" THEN map ELSE known) /\ e.type \in {"new", "device"}
        /\ Regrab(known', binds[mode]) /\ UNCHANGED <<current, mode>>
    BY <1>9 DEF HandleNewKeyboard
  <2>2. BindingsKept' /\ GrabsOfTheMode' /\ TranslateKeysyms(known', binds'[mode']) = binds'[mode']
    BY <1>8, <2>1
  <2>3. Without("new", queue') => known' = map \/ (e.type # "new" /\ Without("new", queue))
    BY <1>3, <2>1
  <2>4. KeymapLearnt'
    BY <1>2, <2>1, <2>2, <2>3 DEF KeysInv, KeymapLearnt
  <2> QED BY <1>2, <1>3, <1>5, <2>1, <2>2, <2>4 DEF KeysInv
<1>10. CASE HandleMap(e)
  <2>1. e.type = "map" /\ setup.notice = "map" /\ UNCHANGED <<current, mode>>
    BY <1>3, <1>10 DEF HandleMap, i3
  <2>2. BindingsKept' /\ GrabsOfTheMode'
    <3>1. CASE UNCHANGED <<i3, grabs>>
      BY <1>2, <3>1 DEF i3, KeysInv, BindingsKept, Kept, GrabsOfTheMode
    <3>2. CASE Regrab(known, binds[mode])
      BY <1>8, <2>1, <3>2
    <3> QED BY <1>10, <3>1, <3>2 DEF HandleMap
  <2>3. KeymapLearnt'
    BY <1>2, <2>1 DEF KeymapLearnt
  <2> QED BY <1>2, <1>3, <1>5, <2>1, <2>2, <2>3 DEF KeysInv
<1>11. CASE HandleGroup(e)
  <2>1. e.type = "group" /\ current' = e.group /\ UNCHANGED <<known, mode, binds>>
        /\ grabs' = IF e.group = current THEN grabs ELSE GrabAllKeys(binds[mode], e.group)
    BY <1>11 DEF HandleGroup
  <2>2. BindingsKept' /\ GrabsOfTheMode'
    BY <1>2, <2>1 DEF KeysInv, BindingsKept, Kept, GrabsOfTheMode
  <2>3. KeymapLearnt'
    BY <1>2, <1>3, <2>1 DEF KeysInv, KeymapLearnt
  <2> QED BY <1>2, <1>3, <1>5, <2>1, <2>2, <2>3 DEF KeysInv
<1> QED BY <1>1, <1>7, <1>9, <1>10, <1>11

LEMMA KeysInductive == KeysInv /\ [KeyNext]_keyvars => KeysInv'
<1> SUFFICES ASSUME KeysInv, [KeyNext]_keyvars
             PROVE  KeysInv'
  OBVIOUS
<1>1. CASE UNCHANGED keyvars
  BY <1>1 DEF keyvars, server, i3, KeysInv, BindingsKept, Kept, ServerType, GrabsOfTheMode, KeymapLearnt
<1> QED BY <1>1, UserInductive, EventInductive DEF KeyNext

(***************************************************************************)
(* Once i3 has handled every event, the keys that the server holds for it  *)
(* are those of the bindings of its mode in the server's group, found with *)
(* the server's keymap if its changes are announced as new keyboards.      *)
(***************************************************************************)
THEOREM GrabsAlwaysFollow == KeySpec => []GrabsFollow
<1>1. KeysInv => GrabsFollow
  <2> SUFFICES ASSUME KeysInv, queue = << >>
               PROVE  /\ current = group
                      /\ setup.notice = "new" => grabs = GrabAllKeys(TranslateKeysyms(map, binds[mode]), group)
    BY DEF GrabsFollow
  <2>1. Len(queue) = 0 /\ \A i \in 1 .. Len(queue) : FALSE
    BY EmptySeq
  <2>2. current = group
    BY <2>1 DEF KeysInv, GroupIn, Without
  <2>3. setup.notice = "new" => TranslateKeysyms(map, binds[mode]) = binds[mode]
    BY <2>1 DEF KeysInv, KeymapLearnt, Without
  <2> QED BY <2>2, <2>3 DEF KeysInv, GrabsOfTheMode
<1> QED BY <1>1, KeysInvInit, KeysInductive, PTL DEF KeySpec

(***************************************************************************)
(* The bindings of every mode stay in the order that reorder_bindings()    *)
(* gave them, whatever is marked, translated again, switched or reloaded:  *)
(* get_binding() runs the most specific of those that match a press.       *)
(***************************************************************************)
MostSpecificRuns ==
  \A n \in DOMAIN binds : \A i, j \in DOMAIN binds[n] :
    i < j => Mask(binds[n][i]) >= Mask(binds[n][j])

THEOREM AlwaysMostSpecific == KeySpec => []MostSpecificRuns
<1>1. KeysInv => MostSpecificRuns
  BY DEF KeysInv, BindingsKept, Kept, Sorted, MostSpecificRuns
<1> QED BY <1>1, KeysInvInit, KeysInductive, PTL DEF KeySpec
===============================================================================
