---------------------------- MODULE WindowProofs ----------------------------
(***************************************************************************)
(* What is drawn is what was asked for, what is selected is drawn, and     *)
(* what is sent reaches the torrent that was seen: for any library, any    *)
(* files dropped in the watched folder and any number of gestures.  The    *)
(* end of the module proves that the figures drawn of a torrent are        *)
(* earned: for any rates and sizes, any patience and any length of the     *)
(* footer.                                                                 *)
(***************************************************************************)
EXTENDS Window, Figures, FiniteSetTheorems, SequenceTheorems, WellFoundedInduction, TLAPS

(* What the promises need of a user.  An id is handed out again: a torrent *)
(* dropped in the folder may get that of one removed.                      *)
NoIdReturns == \A w \in Worlds : ~({"removes", "drops"} \subseteq w)

(* Narrowing by state or shelf leaves the selection alone.                 *)
NoOneNarrowsAndSelects ==
  \A w \in Worlds : \/ w \cap {"selects", "arrows", "menus"} = {}
                    \/ w \cap {"shows", "shelves"} = {}

Marks    == Nat \cup Files
Shown    == {"paused", "seeding", "downloading"}
Line     == [id : Nat, hash : Hashes, state : Shown, complete : BOOLEAN]
Entry    == [hash : Hashes, paused : BOOLEAN, complete : BOOLEAN, ticks : SUBSET Marks]
Commands == [do : Actions, id : Nat, files : SUBSET Marks, on : BOOLEAN, about : Nat]
Guess    == [action : {"Started", "Paused", "Removed"}, newer : BOOLEAN]
Views    == [col : {"name", "state"}, desc : BOOLEAN, text : SUBSET Hashes,
             shown : {"all", "downloading", "paused"}, shelf : BOOLEAN]

IsSession(s) == IsFiniteSet(DOMAIN s) /\ DOMAIN s \subseteq Nat /\ s \in [DOMAIN s -> Entry]

(* A list of rows has an id once.                                          *)
IsList(rows) ==
  /\ rows \in Seq(Line)
  /\ \A j, k \in DOMAIN rows : rows[j].id = rows[k].id => j = k

Agrees(rows, s) ==
  \A k \in DOMAIN rows : rows[k].id \in DOMAIN s /\ s[rows[k].id].hash = rows[k].hash

SameTorrents(rows, others) ==
  /\ DOMAIN rows = DOMAIN others
  /\ \A k \in DOMAIN rows : rows[k].id = others[k].id /\ rows[k].hash = others[k].hash

(* The newest snapshot lacks at most what was dropped since, and has the   *)
(* torrents of the session in their places when the generation says so.    *)
Engine ==
  /\ world \in Worlds
  /\ IsSession(session)
  /\ generation \in Nat /\ latest.generation \in 0 .. generation
  /\ IsList(latest.rows) /\ Agrees(latest.rows, session)
  /\ latest.generation = generation => SameTorrents(latest.rows, Rows(session))
  /\ folder \subseteq Hashes
  /\ "drops" \notin world => folder = {}

Known ==
  /\ latest.details \subseteq [id : Nat, hash : Hashes, ticks : SUBSET Marks]
  /\ \A d \in latest.details : d.id \in IdsOf(latest.rows) /\ session[d.id].hash = d.hash

Interface ==
  /\ inbox \in Seq(Commands)
  /\ selected \subseteq Nat /\ IsFiniteSet(selected)
  /\ view \in Views
  /\ order \in [at : {order.at}, generation : 0 .. latest.generation, rows : Nat]
  /\ order.at \in Seq(1 .. order.rows)
  /\ guesses \in [DOMAIN guesses -> Guess]
  /\ drawn \in Seq(Line)
  /\ dialog \in [open : BOOLEAN, asks : {dialog.asks}, data : BOOLEAN]
  /\ dialog.asks \in [DOMAIN dialog.asks -> Nat]
  /\ DOMAIN dialog.asks \subseteq Nat /\ IsFiniteSet(DOMAIN dialog.asks)
  /\ drawer \in [open : BOOLEAN, shown : SUBSET Nat,
                 lines : SUBSET [hash : Hashes, ticks : SUBSET Marks], guess : BOOLEAN]
  /\ IsFiniteSet(drawer.shown) /\ IsFiniteSet(drawer.lines)

NoRemoval ==
  "removes" \notin world => ~dialog.open /\ \A k \in DOMAIN inbox : inbox[k].do # "remove"

Base == Engine /\ Known /\ Interface /\ NoRemoval

(* An id the window remembers, of a torrent with a name: what it was the   *)
(* id of, it is, or nothing.                                               *)
SafeIn(s, ids, w, i) ==
  /\ i \in DOMAIN s => i \in ids
  /\ "removes" \notin w => i \in DOMAIN s

SeenIn(s, ids, w, i, h) == SafeIn(s, ids, w, i) /\ (i \in DOMAIN s => s[i].hash = h)

Safe(i)    == SafeIn(session, IdsOf(latest.rows), world, i)
Seen(i, h) == SeenIn(session, IdsOf(latest.rows), world, i, h)

Memory ==
  /\ \A i \in selected : Safe(i)
  /\ \A k \in DOMAIN drawn : Seen(drawn[k].id, drawn[k].hash)
  /\ \A i \in DOMAIN dialog.asks : Seen(i, dialog.asks[i])
  /\ \A i \in drawer.shown : Safe(i) /\ \A l \in drawer.lines : Seen(i, l.hash)
  /\ \A k \in DOMAIN inbox : inbox[k].do # "watch" => Seen(inbox[k].id, inbox[k].about)

(* A removal that will change the list is on its way.                      *)
Leaving == \E k \in DOMAIN inbox : inbox[k].do = "remove" /\ inbox[k].id \in DOMAIN session

(* The order a list is drawn in, with the shelf it is built from in the    *)
(* open.                                                                   *)
ShowsOn(shelf, v, r) ==
  /\ v.shown \in {"all", r.state}
  /\ v.shelf => r.hash \in shelf
  /\ r.hash \in v.text

Places(shelf, v, rows) ==
  LET left == {k \in DOMAIN rows : ShowsOn(shelf, v, rows[k])}
  IN  InRow(left, [k \in left |-> {j \in left : Before(v, rows[j], rows[k])}])

(* The order that is cached is the one that would be built now, unless the *)
(* next redraw builds it afresh.                                           *)
Cached ==
  /\ order.generation = latest.generation
  /\ ~IsVolatile /\ view.shown = "all"
  /\ view.shelf => ~Leaving
  => order.at = Places(assigned, view, latest.rows)

(* Nothing is owed to the window: it shows the newest snapshot.            *)
UpToDate ==
  ~busy /\ applied =>
    /\ order.generation = latest.generation /\ order.rows = Len(latest.rows)
    /\ IsVolatile => order.at = Places(assigned, view, latest.rows)
    /\ drawn = Overlaid(latest, order.at, guesses)
    /\ \A i \in DOMAIN guesses : ~guesses[i].newer

Fresh == Cached /\ UpToDate /\ GuessIsShown

(* What is selected, what is drawn and what the cached order holds has the *)
(* text that was typed.                                                    *)
Matching ==
  /\ selected # {} => world \cap {"selects", "arrows", "menus"} # {}
  /\ view.shown # "all" \/ view.shelf => world \cap {"shows", "shelves"} # {}
  /\ \A i \in selected, k \in DOMAIN latest.rows :
       latest.rows[k].id = i => latest.rows[k].hash \in view.text
  /\ ~busy => \A k \in DOMAIN drawn : drawn[k].hash \in view.text
  /\ order.generation = latest.generation => \A m \in DOMAIN order.at :
       order.at[m] \in DOMAIN latest.rows /\ latest.rows[order.at[m]].hash \in view.text

----------------------------------------------------------------------------
(* Sets in a row.                                                          *)

Ordered(S, ahead) ==
  /\ ahead \in [S -> SUBSET S]
  /\ \A x \in S : x \notin ahead[x]
  /\ \A x, y \in S : y \in ahead[x] => ahead[y] \subseteq ahead[x]
  /\ \A x, y \in S : x = y \/ x \in ahead[y] \/ y \in ahead[x]

(* As many places as members, and every one has its own: by counting those *)
(* ahead of it.                                                            *)
LEMMA Ranks ==
  ASSUME NEW S, IsFiniteSet(S), NEW ahead, Ordered(S, ahead)
  PROVE  /\ Cardinality(S) \in Nat
         /\ \A x \in S : Cardinality(ahead[x]) \in 0 .. Cardinality(S) - 1
         /\ \A x, y \in S : Cardinality(ahead[x]) = Cardinality(ahead[y]) => x = y
         /\ \A n \in 1 .. Cardinality(S) : \E x \in S : Cardinality(ahead[x]) = n - 1
<1>1. Cardinality(S) \in Nat
  BY FS_CardinalityType
<1>2. \A x \in S : ahead[x] \in SUBSET S /\ IsFiniteSet(ahead[x])
  BY FS_Subset DEF Ordered
<1>3. \A x \in S : Cardinality(ahead[x]) \in Nat
  BY <1>2, FS_CardinalityType
<1>4. ASSUME NEW x \in S
      PROVE  Cardinality(ahead[x]) \in 0 .. Cardinality(S) - 1
  <2>1. ahead[x] \in SUBSET S /\ ahead[x] # S
    BY <1>2 DEF Ordered
  <2>2. Cardinality(ahead[x]) <= Cardinality(S) /\ Cardinality(ahead[x]) # Cardinality(S)
    BY <2>1, FS_Subset
  <2> QED BY <1>1, <1>3, <2>2
<1>5. ASSUME NEW x \in S, NEW y \in S, y \in ahead[x]
      PROVE  Cardinality(ahead[y]) < Cardinality(ahead[x])
  <2>1. ahead[y] \in SUBSET ahead[x] /\ ahead[y] # ahead[x]
    BY <1>5 DEF Ordered
  <2>2. Cardinality(ahead[y]) <= Cardinality(ahead[x]) /\ Cardinality(ahead[y]) # Cardinality(ahead[x])
    BY <1>2, <2>1, FS_Subset
  <2> QED BY <1>3, <2>2
<1>6. ASSUME NEW x \in S, NEW y \in S, Cardinality(ahead[x]) = Cardinality(ahead[y])
      PROVE  x = y
  <2>1. CASE x \in ahead[y]
    BY <1>3, <1>5, <1>6, <2>1
  <2>2. CASE y \in ahead[x]
    BY <1>3, <1>5, <1>6, <2>2
  <2> QED BY <2>1, <2>2 DEF Ordered
<1>7. \A n \in 1 .. Cardinality(S) : \E x \in S : Cardinality(ahead[x]) = n - 1
  <2> DEFINE rank == [x \in S |-> Cardinality(ahead[x]) + 1]
             places == 1 .. Cardinality(S)
  <2>1. rank \in [S -> places]
    BY <1>1, <1>4
  <2>2. \A x, y \in S : rank[x] = rank[y] => x = y
    BY <1>3, <1>6
  <2>3. rank \in Injection(S, places)
    BY <2>1, <2>2 DEF Injection, IsInjective
  <2>4. IsFiniteSet(places) /\ Cardinality(places) = Cardinality(S)
    BY <1>1, FS_Interval
  <2>5. rank \in Surjection(S, places)
    BY <2>3, <2>4, FS_Injection
  <2>6. \A n \in places : \E x \in S : rank[x] = n
    BY <2>5 DEF Surjection
  <2> QED BY <1>3, <2>6
<1> QED BY <1>1, <1>4, <1>6, <1>7

LEMMA RowIsAll ==
  ASSUME NEW S, IsFiniteSet(S), NEW ahead, Ordered(S, ahead)
  PROVE  LET row == InRow(S, ahead)
         IN  /\ row \in Seq(S) /\ DOMAIN row = 1 .. Cardinality(S)
             /\ \A j, k \in DOMAIN row : row[j] = row[k] => j = k
             /\ \A x \in S : \E k \in DOMAIN row : row[k] = x
<1> DEFINE row == InRow(S, ahead)
<1>1. Cardinality(S) \in Nat /\ DOMAIN row = 1 .. Cardinality(S)
  BY Ranks DEF InRow
<1>2. ASSUME NEW k \in DOMAIN row
      PROVE  row[k] \in S /\ Cardinality(ahead[row[k]]) = k - 1
  <2>1. \E x \in S : Cardinality(ahead[x]) = k - 1
    BY <1>1, Ranks
  <2> QED BY <1>1, <2>1 DEF InRow
<1>3. row \in [1 .. Cardinality(S) -> S]
  BY <1>1, <1>2 DEF InRow
<1>4. ASSUME NEW j \in DOMAIN row, NEW k \in DOMAIN row, row[j] = row[k]
      PROVE  j = k
  BY <1>1, <1>2, <1>4
<1>5. ASSUME NEW x \in S
      PROVE  \E k \in DOMAIN row : row[k] = x
  <2> DEFINE k == Cardinality(ahead[x]) + 1
  <2>1. k \in DOMAIN row /\ Cardinality(ahead[x]) = k - 1
    BY <1>1, Ranks
  <2>2. row[k] = x
    BY <1>2, <2>1, Ranks
  <2> QED BY <2>1, <2>2
<1> QED BY <1>1, <1>3, <1>4, <1>5

(* Nothing comes after the last.                                           *)
LEMMA OneIsLast ==
  ASSUME NEW S, IsFiniteSet(S), NEW ahead, Ordered(S, ahead), S # {}
  PROVE  \E x \in S : \A y \in S : x \notin ahead[y]
<1>1. Cardinality(S) \in Nat /\ Cardinality(S) # 0
  BY FS_CardinalityType, FS_EmptySet
<1>2. PICK x \in S : Cardinality(ahead[x]) = Cardinality(S) - 1
  BY <1>1, Ranks
<1>3. ASSUME NEW y \in S, x \in ahead[y]
      PROVE  FALSE
  <2>1. ahead[x] \in SUBSET ahead[y] /\ ahead[x] # ahead[y] /\ IsFiniteSet(ahead[y])
    BY <1>3, FS_Subset DEF Ordered
  <2>2. Cardinality(ahead[x]) <= Cardinality(ahead[y]) /\ Cardinality(ahead[x]) # Cardinality(ahead[y])
    BY <2>1, FS_Subset
  <2>3. Cardinality(ahead[y]) \in 0 .. Cardinality(S) - 1
    BY Ranks
  <2> QED BY <1>1, <1>2, <2>2, <2>3
<1> QED BY <1>3

(* Numbers ascend, and the last is the greatest.                           *)
LEMMA AscendingIsAll ==
  ASSUME NEW S \in SUBSET Nat, IsFiniteSet(S)
  PROVE  /\ Ascending(S) \in Seq(S)
         /\ \A j, k \in DOMAIN Ascending(S) : Ascending(S)[j] = Ascending(S)[k] => j = k
         /\ \A x \in S : \E k \in DOMAIN Ascending(S) : Ascending(S)[k] = x
         /\ S # {} => \E i \in S : \A j \in S : j <= i
<1> DEFINE ahead == [i \in S |-> {j \in S : j < i}]
<1>1. Ordered(S, ahead)
  <2>1. \A x \in S : x \in Nat
    OBVIOUS
  <2>2. ahead \in [S -> SUBSET S]
    OBVIOUS
  <2>3. \A x, y \in S : y \in ahead[x] <=> y < x
    OBVIOUS
  <2>4. \A x, y \in S : y \in ahead[x] => ahead[y] \subseteq ahead[x]
    <3> SUFFICES ASSUME NEW x \in S, NEW y \in S, y \in ahead[x], NEW z \in ahead[y]
                 PROVE  z \in ahead[x]
      OBVIOUS
    <3>1. z \in S /\ z < y /\ y < x
      OBVIOUS
    <3>2. z < x
      BY <2>1, <3>1
    <3> QED BY <3>1, <3>2
  <2> HIDE DEF ahead
  <2> QED BY <2>1, <2>2, <2>3, <2>4 DEF Ordered
<1>2. Ascending(S) = InRow(S, ahead)
  BY DEF Ascending
<1>3. S # {} => \E i \in S : \A j \in S : i \notin ahead[j]
  <2> HIDE DEF ahead
  <2> QED BY <1>1, OneIsLast
<1>4. S # {} => \E i \in S : \A j \in S : j <= i
  BY <1>3
<1> HIDE DEF ahead
<1> QED BY <1>1, <1>2, <1>4, RowIsAll

(* A finite set as a sequence has all its members.                         *)
LEMMA SentIsAll ==
  ASSUME NEW S, IsFiniteSet(S)
  PROVE  /\ SetToSeq(S) \in Seq(S)
         /\ \A k \in DOMAIN SetToSeq(S) : SetToSeq(S)[k] \in S
         /\ \A x \in S : \E k \in DOMAIN SetToSeq(S) : SetToSeq(S)[k] = x
<1> DEFINE N == Cardinality(S)
           places == 1 .. N
<1>1. N \in Nat /\ ExistsBijection(places, S)
  BY FS_CardinalityType
<1>2. \E f \in [places -> S] : IsInjective(f)
  BY <1>1 DEF ExistsBijection, Bijection, Injection
<1>3. SetToSeq(S) \in [places -> S] /\ IsInjective(SetToSeq(S))
  BY <1>2 DEF SetToSeq
<1>4. SetToSeq(S) \in Injection(places, S)
  BY <1>3 DEF Injection
<1>5. Cardinality(places) = Cardinality(S)
  BY <1>1, FS_Interval
<1>6. SetToSeq(S) \in Surjection(places, S)
  BY <1>4, <1>5, FS_Injection
<1> QED BY <1>1, <1>3, <1>6 DEF Surjection

LEMMA ImageIsFinite ==
  ASSUME NEW f, IsFiniteSet(DOMAIN f)
  PROVE  IsFiniteSet({f[x] : x \in DOMAIN f})
<1> DEFINE S == DOMAIN f
           T == {f[x] : x \in S}
           g == [x \in S |-> f[x]]
<1>1. g \in Surjection(S, T)
  BY DEF Surjection
<1> HIDE DEF T, g
<1>2. IsFiniteSet(T)
  BY <1>1, FS_Surjection
<1> QED BY <1>2 DEF T

(* What is in two sequences one after the other.                           *)
Joins(u, s, t) ==
  /\ \A k \in DOMAIN u : (\E j \in DOMAIN s : u[k] = s[j]) \/ (\E j \in DOMAIN t : u[k] = t[j])
  /\ \A j \in DOMAIN s : \E k \in DOMAIN u : u[k] = s[j]
  /\ \A j \in DOMAIN t : \E k \in DOMAIN u : u[k] = t[j]

LEMMA Joined ==
  ASSUME NEW S, NEW s \in Seq(S), NEW t \in Seq(S)
  PROVE  s \o t \in Seq(S) /\ Joins(s \o t, s, t)
<1> DEFINE u == s \o t
<1>1. /\ u \in Seq(S) /\ Len(u) = Len(s) + Len(t)
      /\ \A i \in 1 .. Len(s) + Len(t) : u[i] = IF i <= Len(s) THEN s[i] ELSE t[i - Len(s)]
  BY ConcatProperties
<1>2. /\ DOMAIN s = 1 .. Len(s) /\ DOMAIN t = 1 .. Len(t) /\ DOMAIN u = 1 .. Len(u)
      /\ Len(s) \in Nat /\ Len(t) \in Nat
  BY <1>1, LenProperties
<1> HIDE DEF u
<1>3. ASSUME NEW k \in DOMAIN u
      PROVE  \/ \E j \in DOMAIN s : u[k] = s[j]
             \/ \E j \in DOMAIN t : u[k] = t[j]
  <2>1. CASE k <= Len(s)
    BY <1>1, <1>2, <2>1
  <2>2. CASE ~(k <= Len(s))
    <3>1. k - Len(s) \in DOMAIN t /\ u[k] = t[k - Len(s)]
      BY <1>1, <1>2, <2>2
    <3> QED BY <3>1
  <2> QED BY <2>1, <2>2
<1>4. ASSUME NEW j \in DOMAIN s
      PROVE  \E k \in DOMAIN u : u[k] = s[j]
  BY <1>1, <1>2
<1>5. ASSUME NEW j \in DOMAIN t
      PROVE  \E k \in DOMAIN u : u[k] = t[j]
  <2>1. Len(s) + j \in DOMAIN u /\ u[Len(s) + j] = t[Len(s) + j - Len(s)]
    BY <1>1, <1>2
  <2>2. Len(s) + j - Len(s) = j
    BY <1>2
  <2> QED BY <2>1, <2>2
<1>6. u \in Seq(S)
  BY <1>1
<1> QED BY <1>3, <1>4, <1>5, <1>6 DEF u, Joins

(* What is left of a sequence without its first.                           *)
LEMMA HeadAndTail ==
  ASSUME NEW S, NEW s \in Seq(S), s # <<>>
  PROVE  /\ Head(s) \in S /\ Tail(s) \in Seq(S)
         /\ 1 \in DOMAIN s /\ Head(s) = s[1]
         /\ \A k \in DOMAIN Tail(s) : k + 1 \in DOMAIN s /\ Tail(s)[k] = s[k + 1]
         /\ \A j \in DOMAIN s : j = 1 \/ j - 1 \in DOMAIN Tail(s)
<1>1. /\ DOMAIN s = 1 .. Len(s) /\ Len(s) \in Nat /\ Len(s) # 0
  BY LenProperties, EmptySeq
<1>2. Tail(s) \in Seq(S) /\ Len(Tail(s)) = Len(s) - 1 /\ DOMAIN Tail(s) = 1 .. Len(Tail(s))
  BY HeadTailProperties, LenProperties
<1> QED BY <1>1, <1>2

----------------------------------------------------------------------------
(* The rows of a session, and the order they are drawn in.                 *)

LEMMA HashesAreNumbers == Hashes \subseteq Nat
<1>1. \A i \in DOMAIN Library : Library[i] \in Nat
  BY LibraryAssumption
<1>2. Strays \subseteq Nat
  BY LibraryAssumption
<1> QED BY <1>1, <1>2 DEF Hashes

LEMMA RowsAreAList ==
  ASSUME NEW s, IsSession(s)
  PROVE  /\ IsList(Rows(s)) /\ Agrees(Rows(s), s) /\ IdsOf(Rows(s)) = DOMAIN s
         /\ \A k \in DOMAIN Rows(s) : Rows(s)[k] = RowOf(s, Rows(s)[k].id)
<1> DEFINE ids == Ascending(DOMAIN s)
           rows == Rows(s)
<1>1. DOMAIN s \in SUBSET Nat /\ IsFiniteSet(DOMAIN s)
  BY DEF IsSession
<1>2. /\ ids \in Seq(DOMAIN s)
      /\ \A j, k \in DOMAIN ids : ids[j] = ids[k] => j = k
      /\ \A x \in DOMAIN s : \E k \in DOMAIN ids : ids[k] = x
  BY <1>1, AscendingIsAll
<1>3. rows = [k \in DOMAIN ids |-> RowOf(s, ids[k])]
  BY DEF Rows
<1>4. \A i \in DOMAIN s : RowOf(s, i) \in Line /\ RowOf(s, i).id = i /\ RowOf(s, i).hash = s[i].hash
  BY <1>1 DEF RowOf, IsSession, Entry, Line, State, Shown
<1> HIDE DEF ids, rows
<1>5. DOMAIN ids = 1 .. Len(ids) /\ Len(ids) \in Nat /\ \A k \in DOMAIN ids : ids[k] \in DOMAIN s
  BY <1>2
<1>6. \A k \in DOMAIN ids : rows[k] = RowOf(s, ids[k]) /\ rows[k].id = ids[k] /\ rows[k] \in Line
  BY <1>3, <1>4, <1>5
<1>7. rows \in Seq(Line) /\ DOMAIN rows = DOMAIN ids
  BY <1>3, <1>5, <1>6
<1>8. IsList(rows)
  BY <1>2, <1>6, <1>7 DEF IsList
<1>9. Agrees(rows, s)
  BY <1>4, <1>5, <1>6, <1>7 DEF Agrees
<1>10. IdsOf(rows) = DOMAIN s
  <2>1. \A k \in DOMAIN rows : rows[k].id \in DOMAIN s
    BY <1>5, <1>6, <1>7
  <2>2. \A x \in DOMAIN s : \E k \in DOMAIN rows : rows[k].id = x
    BY <1>2, <1>6, <1>7
  <2> QED BY <2>1, <2>2 DEF IdsOf
<1> QED BY <1>6, <1>7, <1>8, <1>9, <1>10 DEF rows

LEMMA RowsAreTheSame ==
  ASSUME NEW s, NEW t, IsSession(s), IsSession(t), DOMAIN s = DOMAIN t,
         \A i \in DOMAIN s : s[i].hash = t[i].hash
  PROVE  SameTorrents(Rows(s), Rows(t))
<1> DEFINE ids == Ascending(DOMAIN s)
<1>1. DOMAIN s \in SUBSET Nat /\ IsFiniteSet(DOMAIN s)
  BY DEF IsSession
<1>2. ids \in Seq(DOMAIN s)
  BY <1>1, AscendingIsAll
<1>3. Rows(s) = [k \in DOMAIN ids |-> RowOf(s, ids[k])] /\ Rows(t) = [k \in DOMAIN ids |-> RowOf(t, ids[k])]
  BY DEF Rows
<1>4. \A k \in DOMAIN ids : ids[k] \in DOMAIN s
  BY <1>2
<1>5. \A i : RowOf(s, i).id = i /\ RowOf(s, i).hash = s[i].hash /\ RowOf(t, i).id = i /\ RowOf(t, i).hash = t[i].hash
  BY DEF RowOf
<1> HIDE DEF ids
<1> QED BY <1>3, <1>4, <1>5 DEF SameTorrents

(* No row comes before itself, and of two rows one comes before the other. *)
LEMMA BeforeIsAnOrder ==
  ASSUME NEW v \in Views
  PROVE  /\ \A r \in Line : ~Before(v, r, r)
         /\ \A r, t \in Line : r.id = t.id \/ Before(v, r, t) \/ Before(v, t, r)
         /\ \A r, t, u \in Line : Before(v, r, t) /\ Before(v, t, u) => Before(v, r, u)
<1> DEFINE key(x) == IF v.col = "name" THEN x.hash ELSE Kind(x.state)
<1>1. \A r \in Line : key(r) \in Nat /\ r.id \in Nat
  BY HashesAreNumbers DEF Line, Kind
<1>2. \A r, t \in Line : Before(v, r, t) <=>
        IF key(r) = key(t) THEN r.id < t.id
        ELSE IF v.desc THEN key(r) > key(t) ELSE key(r) < key(t)
  BY DEF Before
<1> HIDE DEF key
<1>3. \A r \in Line : ~Before(v, r, r)
  BY <1>1, <1>2
<1>4. \A r, t \in Line : r.id = t.id \/ Before(v, r, t) \/ Before(v, t, r)
  BY <1>1, <1>2
<1>5. \A r, t, u \in Line : Before(v, r, t) /\ Before(v, t, u) => Before(v, r, u)
  <2> SUFFICES ASSUME NEW r \in Line, NEW t \in Line, NEW u \in Line, Before(v, r, t), Before(v, t, u)
               PROVE  Before(v, r, u)
    OBVIOUS
  <2>1. CASE v.desc
    BY <1>1, <1>2, <2>1
  <2>2. CASE ~v.desc
    BY <1>1, <1>2, <2>2
  <2> QED BY <2>1, <2>2
<1> QED BY <1>3, <1>4, <1>5

(* The order built anew has every row that is shown, once.                 *)
LEMMA RebuiltIsAll ==
  ASSUME NEW v \in Views, NEW snap, IsList(snap.rows)
  PROVE  LET at == Rebuilt(v, snap).at
         IN  /\ at \in Seq(1 .. Len(snap.rows)) /\ Len(snap.rows) \in Nat
             /\ \A m \in DOMAIN at : at[m] \in DOMAIN snap.rows /\ Shows(v, snap.rows[at[m]])
             /\ \A k \in DOMAIN snap.rows : Shows(v, snap.rows[k]) => \E m \in DOMAIN at : at[m] = k
<1> DEFINE rows == snap.rows
           left == {k \in DOMAIN rows : Shows(v, rows[k])}
           ahead == [k \in left |-> {j \in left : Before(v, rows[j], rows[k])}]
<1>1. rows \in Seq(Line) /\ DOMAIN rows = 1 .. Len(rows) /\ Len(rows) \in Nat
  BY DEF IsList
<1>2. IsFiniteSet(left) /\ left \subseteq 1 .. Len(rows)
  <2>1. left \in SUBSET (1 .. Len(rows)) /\ IsFiniteSet(1 .. Len(rows))
    BY <1>1, FS_Interval
  <2> HIDE DEF left
  <2> QED BY <2>1, FS_Subset
<1>3. /\ \A k \in left : k \in DOMAIN rows /\ rows[k] \in Line
      /\ \A j, k \in left : rows[j].id = rows[k].id => j = k
  BY <1>1 DEF IsList
<1>4. \A j, k \in left : j \in ahead[k] <=> Before(v, rows[j], rows[k])
  OBVIOUS
<1>5. ahead \in [left -> SUBSET left]
  OBVIOUS
<1>6. Rebuilt(v, snap).at = InRow(left, ahead)
  BY DEF Rebuilt
<1>a. \A k \in left : Shows(v, rows[k])
  OBVIOUS
<1>b. \A k \in DOMAIN rows : Shows(v, rows[k]) => k \in left
  OBVIOUS
<1> HIDE DEF ahead, left, rows
<1>7. Ordered(left, ahead)
  <2>1. \A x \in left : x \notin ahead[x]
    BY <1>3, <1>4, BeforeIsAnOrder
  <2>2. \A x, y \in left : x = y \/ x \in ahead[y] \/ y \in ahead[x]
    BY <1>3, <1>4, BeforeIsAnOrder
  <2>3. ASSUME NEW x \in left, NEW y \in left, y \in ahead[x]
        PROVE  ahead[y] \subseteq ahead[x]
    <3>1. \A z \in left : z \in ahead[y] => z \in ahead[x]
      BY <1>3, <1>4, <2>3, BeforeIsAnOrder
    <3>2. ahead[y] \subseteq left
      BY <1>5
    <3> QED BY <3>1, <3>2
  <2> QED BY <1>5, <2>1, <2>2, <2>3 DEF Ordered
<1>8. /\ InRow(left, ahead) \in Seq(left)
      /\ \A x \in left : \E k \in DOMAIN InRow(left, ahead) : InRow(left, ahead)[k] = x
  BY <1>2, <1>7, RowIsAll
<1>9. \A m \in DOMAIN InRow(left, ahead) : InRow(left, ahead)[m] \in left
  BY <1>8
<1>10. InRow(left, ahead) \in Seq(1 .. Len(rows))
  BY <1>2, <1>8, SeqMonotonic
<1> QED BY <1>1, <1>3, <1>6, <1>8, <1>9, <1>10, <1>a, <1>b DEF rows

(* By name, with nothing hidden but by text and shelf, only the torrents   *)
(* and their places count: and the shelf only when it is what is shown.    *)
LEMMA PlacesAreTheSame ==
  ASSUME NEW v, NEW rows, NEW others, NEW shelf, NEW left,
         v.col = "name", v.shown = "all",
         SameTorrents(rows, others),
         v.shelf => left = shelf
  PROVE  Places(shelf, v, rows) = Places(left, v, others)
<1> DEFINE one == {k \in DOMAIN rows : ShowsOn(shelf, v, rows[k])}
           two == {k \in DOMAIN others : ShowsOn(left, v, others[k])}
<1>1. \A k \in DOMAIN rows : ShowsOn(shelf, v, rows[k]) <=> ShowsOn(left, v, others[k])
  BY DEF ShowsOn, SameTorrents
<1>2. one = two
  BY <1>1 DEF SameTorrents
<1>3. \A j, k \in DOMAIN rows : Before(v, rows[j], rows[k]) <=> Before(v, others[j], others[k])
  BY DEF Before, SameTorrents
<1>4. \A k \in one : {j \in one : Before(v, rows[j], rows[k])} = {j \in two : Before(v, others[j], others[k])}
  BY <1>2, <1>3
<1>5. [k \in one |-> {j \in one : Before(v, rows[j], rows[k])}]
        = [k \in two |-> {j \in two : Before(v, others[j], others[k])}]
  BY <1>2, <1>4
<1> QED BY <1>2, <1>5 DEF Places

LEMMA GuessedIsTheRow ==
  ASSUME NEW r \in Line, NEW gs
  PROVE  /\ Guessed(r, gs) \in Line
         /\ Guessed(r, gs).id = r.id /\ Guessed(r, gs).hash = r.hash
         /\ Gone(Guessed(r, gs), gs) <=> Gone(r, gs)
BY DEF Guessed, Gone, Line, Shown

(* What is drawn: the rows of the order, but those that are to be removed. *)
DrawnFrom(o, rows, at, gs) ==
  /\ o \in Seq(Line)
  /\ \A k \in DOMAIN o : \E m \in DOMAIN at :
       o[k] = Guessed(rows[at[m]], gs) /\ ~Gone(rows[at[m]], gs)
  /\ \A m \in DOMAIN at : ~Gone(rows[at[m]], gs) => \E k \in DOMAIN o : o[k] = Guessed(rows[at[m]], gs)

LEMMA OverlaidIsTheOrder ==
  ASSUME NEW snap, IsList(snap.rows), NEW at \in Seq(1 .. Len(snap.rows)), NEW gs
  PROVE  DrawnFrom(Overlaid(snap, at, gs), snap.rows, at, gs)
<1> DEFINE rows == snap.rows
           r == [k \in DOMAIN rows |-> Guessed(rows[k], gs)]
           S == {n \in DOMAIN at : ~Gone(r[at[n]], gs)}
           left == Ascending(S)
           o == [n \in DOMAIN left |-> r[at[left[n]]]]
<1>1. rows \in Seq(Line) /\ DOMAIN rows = 1 .. Len(rows) /\ Len(rows) \in Nat
  BY DEF IsList
<1>2. DOMAIN at = 1 .. Len(at) /\ Len(at) \in Nat /\ \A m \in DOMAIN at : at[m] \in DOMAIN rows
  BY <1>1
<1>3. \A k \in DOMAIN rows : r[k] \in Line /\ r[k] = Guessed(rows[k], gs) /\ (Gone(r[k], gs) <=> Gone(rows[k], gs))
  BY <1>1, GuessedIsTheRow
<1>4. S \in SUBSET DOMAIN at /\ \A m \in DOMAIN at : m \in S <=> ~Gone(r[at[m]], gs)
  OBVIOUS
<1>5. Overlaid(snap, at, gs) = o
  BY DEF Overlaid
<1> HIDE DEF rows, r, S
<1>6. S \in SUBSET Nat /\ IsFiniteSet(S)
  <2>1. IsFiniteSet(1 .. Len(at))
    <3>1. 1 \in Int /\ Len(at) \in Int
      BY <1>2
    <3> QED BY <3>1, FS_Interval
  <2> QED BY <1>2, <1>4, <2>1, FS_Subset
<1>7. /\ left \in Seq(S) /\ \A n \in DOMAIN left : left[n] \in S
      /\ \A x \in S : \E n \in DOMAIN left : left[n] = x
  BY <1>6, AscendingIsAll
<1> HIDE DEF left
<1>8. DOMAIN left = 1 .. Len(left) /\ Len(left) \in Nat
  BY <1>7
<1>9. \A n \in DOMAIN left : o[n] \in Line
  BY <1>2, <1>3, <1>4, <1>7
<1>10. o \in Seq(Line)
  BY <1>8, <1>9
<1>11. ASSUME NEW k \in DOMAIN o
       PROVE  \E m \in DOMAIN at : o[k] = Guessed(rows[at[m]], gs) /\ ~Gone(rows[at[m]], gs)
  <2>1. left[k] \in S /\ o[k] = r[at[left[k]]]
    BY <1>7
  <2>2. left[k] \in DOMAIN at /\ at[left[k]] \in DOMAIN rows
    BY <1>2, <1>4, <2>1
  <2> QED BY <1>3, <1>4, <2>1, <2>2
<1>12. ASSUME NEW m \in DOMAIN at, ~Gone(rows[at[m]], gs)
       PROVE  \E k \in DOMAIN o : o[k] = Guessed(rows[at[m]], gs)
  <2>1. at[m] \in DOMAIN rows
    BY <1>2
  <2>2. m \in S
    BY <1>3, <1>4, <1>12, <2>1
  <2>3. PICK n \in DOMAIN left : left[n] = m
    BY <1>7, <2>2
  <2>4. n \in DOMAIN o /\ o[n] = r[at[m]]
    BY <2>3
  <2> QED BY <1>3, <2>1, <2>4
<1> HIDE DEF o
<1> QED BY <1>5, <1>10, <1>11, <1>12 DEF rows, DrawnFrom

----------------------------------------------------------------------------
(* The engine.                                                             *)

LEMMA AddedIsOneMore ==
  ASSUME NEW s, IsSession(s), NEW h \in Hashes
  PROVE  /\ IsSession(Added(s, h))
         /\ \A i \in DOMAIN s : i \in DOMAIN Added(s, h) /\ Added(s, h)[i] = s[i]
<1> DEFINE fresh == IF DOMAIN s = {} THEN 0 ELSE 1 + CHOOSE i \in DOMAIN s : \A j \in DOMAIN s : j <= i
           e == [hash |-> h, paused |-> FALSE, complete |-> FALSE, ticks |-> Files]
<1>1. DOMAIN s \in SUBSET Nat /\ IsFiniteSet(DOMAIN s) /\ \A i \in DOMAIN s : s[i] \in Entry
  BY DEF IsSession
<1>2. fresh \in Nat /\ fresh \notin DOMAIN s
  <2>1. CASE DOMAIN s = {}
    BY <2>1
  <2>2. CASE DOMAIN s # {}
    <3> DEFINE top == CHOOSE i \in DOMAIN s : \A j \in DOMAIN s : j <= i
    <3>1. \E i \in DOMAIN s : \A j \in DOMAIN s : j <= i
      BY <1>1, <2>2, AscendingIsAll
    <3>2. top \in DOMAIN s /\ \A j \in DOMAIN s : j <= top
      BY <3>1
    <3>3. fresh = 1 + top
      BY <2>2
    <3> HIDE DEF top, fresh
    <3> QED BY <1>1, <3>2, <3>3
  <2> QED BY <2>1, <2>2
<1>3. Added(s, h) = [i \in DOMAIN s \cup {fresh} |-> IF i = fresh THEN e ELSE s[i]]
  BY DEF Added
<1>4. e \in Entry
  BY DEF Entry, Marks
<1> HIDE DEF fresh, e
<1>5. IsFiniteSet(DOMAIN s \cup {fresh}) /\ DOMAIN s \cup {fresh} \subseteq Nat
  BY <1>1, <1>2, FS_AddElement
<1>6. \A i \in DOMAIN s \cup {fresh} : Added(s, h)[i] \in Entry
  BY <1>1, <1>3, <1>4
<1>7. IsSession(Added(s, h))
  BY <1>3, <1>5, <1>6 DEF IsSession
<1> QED BY <1>2, <1>3, <1>7

LEMMA TurnEnds ==
  ASSUME NEW STATE s, NEW STATE g, NEW STATE w, NEW CONSTANT acted,
         IsSession(s), g \in Nat, folder \subseteq Hashes,
         EndTurn(s, g, w, acted)
  PROVE  /\ IsSession(session')
         /\ \A i \in DOMAIN s : i \in DOMAIN session' /\ session'[i] = s[i]
         /\ folder' \subseteq folder
         /\ \/ session' = s /\ generation' = g
            \/ generation' = g + 1 /\ folder # {}
         /\ \/ UNCHANGED <<latest, applied, guesses, drawer>>
            \/ Publish(session', generation', w)
<1> PICK drop \in {{}} \cup {{h} : h \in folder} :
      LET news == {h \in drop : \A i \in DOMAIN s : s[i].hash # h}
          s2   == IF news = {} THEN s ELSE Added(s, CHOOSE h \in news : TRUE)
          g2   == g + Cardinality(news)
      IN  /\ folder' = folder \ drop
          /\ session' = s2
          /\ generation' = g2
          /\ watching' = w
          /\ IF asleep /\ ~acted
             THEN landed' = {} /\ UNCHANGED <<latest, applied, guesses, drawer>>
             ELSE Publish(s2, g2, w)
  BY DEF EndTurn
<1> DEFINE news == {h \in drop : \A i \in DOMAIN s : s[i].hash # h}
<1>1. \/ UNCHANGED <<latest, applied, guesses, drawer>>
      \/ Publish(session', generation', w)
  OBVIOUS
<1>2. folder' \subseteq folder
  OBVIOUS
<1>3. \/ news = {}
      \/ folder # {} /\ \E h \in Hashes : news = {h}
  OBVIOUS
<1>4. /\ session' = IF news = {} THEN s ELSE Added(s, CHOOSE h \in news : TRUE)
      /\ generation' = g + Cardinality(news)
  OBVIOUS
<1> HIDE DEF news
<1>5. CASE news = {}
  <2>1. session' = s /\ generation' = g
    BY <1>4, <1>5, FS_EmptySet
  <2> QED BY <1>1, <1>2, <2>1
<1>6. CASE folder # {} /\ \E h \in Hashes : news = {h}
  <2> PICK h \in Hashes : news = {h}
    BY <1>6
  <2>1. session' = Added(s, h) /\ generation' = g + 1
    BY <1>4, FS_Singleton
  <2>2. /\ IsSession(Added(s, h))
        /\ \A i \in DOMAIN s : i \in DOMAIN Added(s, h) /\ Added(s, h)[i] = s[i]
    BY AddedIsOneMore
  <2>3. /\ IsSession(session')
        /\ \A i \in DOMAIN s : i \in DOMAIN session' /\ session'[i] = s[i]
    BY <2>1, <2>2
  <2>4. generation' = g + 1 /\ folder # {}
    BY <1>6, <2>1
  <2> QED BY ONLY <1>1, <1>2, <2>3, <2>4
<1> QED BY <1>3, <1>5, <1>6

LEMMA CarriedIsASession ==
  ASSUME NEW s, IsSession(s), NEW c \in Commands
  PROVE  /\ IsSession(Carried(s, c))
         /\ DOMAIN Carried(s, c) \subseteq DOMAIN s
         /\ \A i \in DOMAIN Carried(s, c) : Carried(s, c)[i].hash = s[i].hash
         /\ DOMAIN Carried(s, c) = DOMAIN s \/ (c.do = "remove" /\ DOMAIN Carried(s, c) = DOMAIN s \ {c.id})
         /\ c.do = "remove" /\ c.id \in DOMAIN s => DOMAIN Carried(s, c) # DOMAIN s
<1>1. IsFiniteSet(DOMAIN s) /\ DOMAIN s \subseteq Nat /\ s \in [DOMAIN s -> Entry]
  BY DEF IsSession
<1>2. c.files \subseteq Marks
  BY DEF Commands
<1>3. CASE c.id \notin DOMAIN s
  BY <1>3 DEF Carried
<1>4. CASE c.id \in DOMAIN s /\ c.do \in {"start", "pause", "want"}
  <2>1. Carried(s, c) \in [DOMAIN s -> Entry] /\ \A i \in DOMAIN s : Carried(s, c)[i].hash = s[i].hash
    <3>1. CASE c.do = "start"
      <4>1. Carried(s, c) = [s EXCEPT ![c.id].paused = FALSE]
        BY <1>4, <3>1 DEF Carried
      <4>2. s[c.id] \in Entry
        BY <1>1, <1>4
      <4>3. /\ [s[c.id] EXCEPT !.paused = FALSE] \in Entry
            /\ [s[c.id] EXCEPT !.paused = FALSE].hash = s[c.id].hash
        BY <4>2 DEF Entry
      <4> QED BY <1>1, <1>4, <4>1, <4>3
    <3>2. CASE c.do = "pause"
      <4>1. Carried(s, c) = [s EXCEPT ![c.id].paused = TRUE]
        BY <1>4, <3>2 DEF Carried
      <4>2. s[c.id] \in Entry
        BY <1>1, <1>4
      <4>3. /\ [s[c.id] EXCEPT !.paused = TRUE] \in Entry
            /\ [s[c.id] EXCEPT !.paused = TRUE].hash = s[c.id].hash
        BY <4>2 DEF Entry
      <4> QED BY <1>1, <1>4, <4>1, <4>3
    <3>3. CASE c.do = "want"
      <4>1. Carried(s, c) = [s EXCEPT ![c.id].ticks = IF c.on THEN @ \cup c.files ELSE @ \ c.files]
        BY <1>4, <3>3 DEF Carried
      <4>2. s[c.id] \in Entry /\ s[c.id].ticks \subseteq Marks
        BY <1>1, <1>4 DEF Entry
      <4>3. (IF c.on THEN s[c.id].ticks \cup c.files ELSE s[c.id].ticks \ c.files) \in SUBSET Marks
        BY <1>2, <4>2
      <4> QED BY <1>1, <1>4, <4>1, <4>3 DEF Entry
    <3> QED BY <1>4, <3>1, <3>2, <3>3
  <2> QED BY <1>1, <1>4, <2>1 DEF IsSession
<1>5. CASE c.id \in DOMAIN s /\ c.do = "remove"
  <2>1. Carried(s, c) = [i \in DOMAIN s \ {c.id} |-> s[i]]
    BY <1>5 DEF Carried
  <2>2. IsFiniteSet(DOMAIN s \ {c.id})
    BY <1>1, FS_RemoveElement
  <2> QED BY <1>1, <1>5, <2>1, <2>2 DEF IsSession
<1>6. CASE c.id \in DOMAIN s /\ c.do = "watch"
  BY <1>6 DEF Carried
<1> QED BY <1>3, <1>4, <1>5, <1>6 DEF Commands, Actions

(* What the engine does in a step, as far as the window can tell.  Nothing *)
(* else takes the name of a torrent than a removal and an arrival.         *)
EngineMoves ==
  /\ IsSession(session')
  /\ generation' \in Nat /\ generation <= generation'
  /\ folder' \subseteq folder
  /\ \A i \in DOMAIN session' :
       IF i \in DOMAIN session
       THEN session'[i].hash = session[i].hash \/ {"removes", "drops"} \subseteq world
       ELSE "drops" \in world
  /\ "removes" \notin world => DOMAIN session \subseteq DOMAIN session'
  /\ generation' = generation =>
       /\ DOMAIN session' = DOMAIN session
       /\ \A i \in DOMAIN session : session'[i].hash = session[i].hash
       /\ Leaving => Leaving'
  /\ \/ /\ UNCHANGED <<latest, applied, guesses, drawer>>
        /\ \A i \in DOMAIN session : i \in DOMAIN session' /\ session'[i].hash = session[i].hash
        /\ inbox' = inbox
     \/ \E w : Publish(session', generation', w)
  /\ inbox' \in Seq(Commands)
  /\ \A k \in DOMAIN inbox' : \E j \in DOMAIN inbox : inbox'[k] = inbox[j]
  /\ UNCHANGED <<world, table, drawn, dialog, busy>>

LEMMA TickMoves ==
  ASSUME Base, Tick
  PROVE  EngineMoves
<1>1. IsSession(session) /\ generation \in Nat /\ folder \subseteq Hashes /\ (folder # {} => "drops" \in world)
  BY DEF Base, Engine
<1>2. /\ EndTurn(session, generation, watching, FALSE)
      /\ UNCHANGED <<world, inbox, table, drawn, dialog, busy>>
  BY DEF Tick
<1>3. /\ IsSession(session')
      /\ \A i \in DOMAIN session : i \in DOMAIN session' /\ session'[i] = session[i]
      /\ folder' \subseteq folder
      /\ \/ session' = session /\ generation' = generation
         \/ generation' = generation + 1 /\ folder # {}
      /\ \/ UNCHANGED <<latest, applied, guesses, drawer>>
         \/ Publish(session', generation', watching)
  BY <1>1, <1>2, TurnEnds
<1>4. generation' \in Nat /\ generation <= generation'
  BY <1>1, <1>3
<1>5. \A i \in DOMAIN session' : i \in DOMAIN session \/ "drops" \in world
  BY <1>1, <1>3
<1>6. generation' = generation =>
       /\ DOMAIN session' = DOMAIN session
       /\ \A i \in DOMAIN session : session'[i].hash = session[i].hash
       /\ Leaving => Leaving'
  BY <1>1, <1>2, <1>3 DEF Leaving
<1>7. inbox' \in Seq(Commands)
  BY <1>2 DEF Base, Interface
<1> QED BY <1>2, <1>3, <1>4, <1>5, <1>6, <1>7 DEF EngineMoves

LEMMA TakeMoves ==
  ASSUME Base, Take
  PROVE  EngineMoves
<1> DEFINE c == Head(inbox)
           s == Carried(session, c)
           g == IF DOMAIN s = DOMAIN session THEN generation ELSE generation + 1
           w == IF c.do = "watch" THEN c.files ELSE watching
<1>1. IsSession(session) /\ generation \in Nat /\ folder \subseteq Hashes /\ (folder # {} => "drops" \in world)
  BY DEF Base, Engine
<1>2. /\ inbox # <<>> /\ EndTurn(s, g, w, TRUE) /\ inbox' = Tail(inbox)
      /\ UNCHANGED <<world, table, drawn, dialog, busy>>
  BY DEF Take
<1>3. /\ c \in Commands /\ Tail(inbox) \in Seq(Commands)
      /\ 1 \in DOMAIN inbox /\ c = inbox[1]
      /\ \A k \in DOMAIN Tail(inbox) : k + 1 \in DOMAIN inbox /\ Tail(inbox)[k] = inbox[k + 1]
      /\ \A j \in DOMAIN inbox : j = 1 \/ j - 1 \in DOMAIN Tail(inbox)
  BY <1>2, HeadAndTail DEF Base, Interface
<1>4. /\ IsSession(s) /\ DOMAIN s \subseteq DOMAIN session
      /\ \A i \in DOMAIN s : s[i].hash = session[i].hash
      /\ DOMAIN s = DOMAIN session \/ (c.do = "remove" /\ DOMAIN s = DOMAIN session \ {c.id})
      /\ c.do = "remove" /\ c.id \in DOMAIN session => DOMAIN s # DOMAIN session
  <2>1. IsSession(session) /\ c \in Commands
    BY <1>1, <1>3
  <2> HIDE DEF c
  <2> QED BY ONLY <2>1, CarriedIsASession
<1>5. c.do = "remove" => "removes" \in world
  BY <1>3 DEF Base, NoRemoval
<1>6. g \in Nat /\ generation <= g /\ (g = generation => DOMAIN s = DOMAIN session)
  BY <1>1
<1> HIDE DEF s, g, w
<1>7. /\ IsSession(session')
      /\ \A i \in DOMAIN s : i \in DOMAIN session' /\ session'[i] = s[i]
      /\ folder' \subseteq folder
      /\ \/ session' = s /\ generation' = g
         \/ generation' = g + 1 /\ folder # {}
      /\ \/ UNCHANGED <<latest, applied, guesses, drawer>>
         \/ Publish(session', generation', w)
  BY <1>1, <1>2, <1>4, <1>6, TurnEnds
<1>8. generation' \in Nat /\ generation <= generation'
  BY <1>1, <1>6, <1>7
<1>9. ASSUME NEW i \in DOMAIN session'
      PROVE  IF i \in DOMAIN session
             THEN session'[i].hash = session[i].hash \/ {"removes", "drops"} \subseteq world
             ELSE "drops" \in world
  <2>1. CASE i \in DOMAIN s
    BY <1>4, <1>7, <2>1
  <2>2. CASE i \notin DOMAIN s
    <3>1. "drops" \in world
      BY <1>1, <1>7, <2>2
    <3>2. i \in DOMAIN session => "removes" \in world
      BY <1>4, <1>5, <2>2
    <3> QED BY <3>1, <3>2
  <2> QED BY <2>1, <2>2
<1>10. "removes" \notin world => DOMAIN session \subseteq DOMAIN session'
  BY <1>4, <1>5, <1>7
<1>11. ASSUME generation' = generation
       PROVE  /\ DOMAIN session' = DOMAIN session
              /\ \A i \in DOMAIN session : session'[i].hash = session[i].hash
              /\ Leaving => Leaving'
  <2>1. session' = s /\ g = generation
    BY <1>1, <1>6, <1>7, <1>11
  <2>2. DOMAIN s = DOMAIN session
    BY <1>6, <2>1
  <2>3. ASSUME NEW k \in DOMAIN inbox, inbox[k].do = "remove", inbox[k].id \in DOMAIN session
        PROVE  Leaving'
    <3>1. k # 1
      BY <1>3, <1>4, <2>2, <2>3
    <3>2. k - 1 \in DOMAIN inbox' /\ inbox'[k - 1] = inbox[k - 1 + 1]
      BY <1>2, <1>3, <3>1
    <3>3. k \in Int
      BY DEF Base, Interface
    <3>4. inbox'[k - 1] = inbox[k]
      BY <3>2, <3>3
    <3> QED BY <2>1, <2>2, <2>3, <3>2, <3>4 DEF Leaving
  <2> QED BY <1>4, <2>1, <2>2, <2>3 DEF Leaving
<1>12. \E ww : Publish(session', generation', ww)
  <2>1. Publish(session', generation', w)
    BY <1>2 DEF EndTurn
  <2> QED BY <2>1
<1>13. \A k \in DOMAIN inbox' : \E j \in DOMAIN inbox : inbox'[k] = inbox[j]
  BY <1>2, <1>3
<1>14. inbox' \in Seq(Commands)
  BY <1>2, <1>3
<1> QED BY <1>2, <1>7, <1>8, <1>9, <1>10, <1>11, <1>12, <1>13, <1>14 DEF EngineMoves

LEMMA FinishMoves ==
  ASSUME Base, NEW i \in DOMAIN session, Finish(i)
  PROVE  EngineMoves
<1>1. IsSession(session) /\ generation \in Nat /\ session[i] \in Entry
  BY DEF Base, Engine, IsSession
<1>2. /\ session' = [session EXCEPT ![i].complete = TRUE]
      /\ UNCHANGED <<world, generation, inbox, latest, folder, table, guesses, drawn, dialog, drawer, applied, busy>>
  BY DEF Finish, window
<1>3. /\ DOMAIN session' = DOMAIN session
      /\ \A j \in DOMAIN session : session'[j].hash = session[j].hash
  BY <1>1, <1>2 DEF IsSession
<1>4. IsSession(session')
  BY <1>1, <1>2 DEF IsSession, Entry
<1>5. inbox' \in Seq(Commands)
  BY <1>2 DEF Base, Interface
<1>6. Leaving => Leaving'
  BY <1>2, <1>3 DEF Leaving
<1> QED BY <1>1, <1>2, <1>3, <1>4, <1>5, <1>6 DEF EngineMoves

LEMMA Published ==
  ASSUME Base, IsSession(session'), NEW w, Publish(session', generation', w)
  PROVE  /\ latest'.rows = Rows(session') /\ latest'.generation = generation'
         /\ latest'.details = Details(session', w)
         /\ IsList(latest'.rows) /\ Agrees(latest'.rows, session') /\ IdsOf(latest'.rows) = DOMAIN session'
         /\ DOMAIN guesses' = DOMAIN guesses
         /\ \A i \in DOMAIN guesses : guesses'[i].newer
         /\ guesses' \in [DOMAIN guesses' -> Guess]
         /\ drawer'.open = drawer.open /\ drawer'.shown = drawer.shown /\ drawer'.lines = drawer.lines
         /\ drawer' \in [open : BOOLEAN, shown : SUBSET Nat,
                         lines : SUBSET [hash : Hashes, ticks : SUBSET Marks], guess : BOOLEAN]
         /\ applied' = FALSE
<1>1. /\ latest' = Snapshot(session', generation', w, landed)
      /\ applied' = FALSE
      /\ guesses' = [i \in DOMAIN guesses |-> [guesses[i] EXCEPT !.newer = TRUE]]
      /\ drawer' = [drawer EXCEPT !.guess = FALSE]
  BY DEF Publish
<1>2. latest'.rows = Rows(session') /\ latest'.generation = generation' /\ latest'.details = Details(session', w)
  BY <1>1 DEF Snapshot
<1>3. IsList(latest'.rows) /\ Agrees(latest'.rows, session') /\ IdsOf(latest'.rows) = DOMAIN session'
  BY <1>2, RowsAreAList
<1>4. /\ DOMAIN guesses' = DOMAIN guesses
      /\ \A i \in DOMAIN guesses : guesses'[i].newer
      /\ guesses' \in [DOMAIN guesses' -> Guess]
  BY <1>1 DEF Base, Interface, Guess
<1>5. /\ drawer'.open = drawer.open /\ drawer'.shown = drawer.shown /\ drawer'.lines = drawer.lines
      /\ drawer' \in [open : BOOLEAN, shown : SUBSET Nat,
                      lines : SUBSET [hash : Hashes, ticks : SUBSET Marks], guess : BOOLEAN]
  BY <1>1 DEF Base, Interface
<1> QED BY ONLY <1>1, <1>2, <1>3, <1>4, <1>5

LEMMA EngineKeepsBase ==
  ASSUME Base, EngineMoves
  PROVE  Base'
<1>1. /\ world \in Worlds /\ IsSession(session) /\ generation \in Nat /\ latest.generation \in 0 .. generation
      /\ IsList(latest.rows) /\ Agrees(latest.rows, session)
      /\ latest.generation = generation => SameTorrents(latest.rows, Rows(session))
      /\ folder \subseteq Hashes
      /\ "drops" \notin world => folder = {}
  BY DEF Base, Engine
<1>2. /\ IsSession(session') /\ generation' \in Nat /\ generation <= generation' /\ folder' \subseteq folder
      /\ UNCHANGED <<world, selected, view, order, drawn, dialog>>
      /\ inbox' \in Seq(Commands)
      /\ \A k \in DOMAIN inbox' : \E j \in DOMAIN inbox : inbox'[k] = inbox[j]
  BY DEF EngineMoves, table
<1>3. CASE /\ UNCHANGED <<latest, applied, guesses, drawer>>
           /\ \A i \in DOMAIN session : i \in DOMAIN session' /\ session'[i].hash = session[i].hash
  <2>1. latest'.generation \in 0 .. generation'
    BY <1>1, <1>2, <1>3
  <2>2. Agrees(latest'.rows, session')
    BY <1>1, <1>3 DEF Agrees
  <2>3. ASSUME latest'.generation = generation'
        PROVE  SameTorrents(latest'.rows, Rows(session'))
    <3>1. latest.generation = generation /\ generation' = generation
      BY <1>1, <1>2, <1>3, <2>3
    <3>2. DOMAIN session' = DOMAIN session /\ \A i \in DOMAIN session : session'[i].hash = session[i].hash
      BY <3>1 DEF EngineMoves
    <3>3. SameTorrents(Rows(session), Rows(session'))
      BY <1>1, <1>2, <3>2, RowsAreTheSame
    <3>4. SameTorrents(latest.rows, Rows(session))
      BY <1>1, <3>1
    <3> QED BY <1>3, <3>3, <3>4 DEF SameTorrents
  <2>4. Engine'
    BY <1>1, <1>2, <1>3, <2>1, <2>2, <2>3 DEF Engine
  <2>5. Known'
    <3>1. \A i \in IdsOf(latest.rows) : i \in DOMAIN session
      BY <1>1 DEF Agrees, IdsOf
    <3> QED BY <1>3, <3>1 DEF Base, Known
  <2>6. Interface'
    BY <1>2, <1>3 DEF Base, Interface
  <2>7. NoRemoval'
    BY <1>2 DEF Base, NoRemoval
  <2> QED BY <2>4, <2>5, <2>6, <2>7 DEF Base
<1>4. CASE \E w : Publish(session', generation', w)
  <2> PICK w : Publish(session', generation', w)
    BY <1>4
  <2>1. /\ latest'.rows = Rows(session') /\ latest'.generation = generation'
        /\ latest'.details = Details(session', w)
        /\ IsList(latest'.rows) /\ Agrees(latest'.rows, session') /\ IdsOf(latest'.rows) = DOMAIN session'
        /\ guesses' \in [DOMAIN guesses' -> Guess]
        /\ drawer'.shown = drawer.shown /\ drawer'.lines = drawer.lines
        /\ drawer' \in [open : BOOLEAN, shown : SUBSET Nat,
                        lines : SUBSET [hash : Hashes, ticks : SUBSET Marks], guess : BOOLEAN]
    BY <1>2, Published
  <2>2. SameTorrents(latest'.rows, Rows(session'))
    BY <2>1 DEF SameTorrents
  <2>3. latest'.generation \in 0 .. generation'
    BY <1>2, <2>1
  <2>4. Engine'
    BY <1>1, <1>2, <2>1, <2>2, <2>3 DEF Engine
  <2>5. Known'
    <3>1. \A i \in DOMAIN session' : i \in Nat /\ session'[i].hash \in Hashes /\ session'[i].ticks \in SUBSET Marks
      BY <1>2 DEF IsSession, Entry
    <3>2. latest'.details = {[id |-> i, hash |-> session'[i].hash, ticks |-> session'[i].ticks] : i \in w \cap DOMAIN session'}
      BY <2>1 DEF Details
    <3> QED BY <2>1, <3>1, <3>2 DEF Known
  <2>6. Interface'
    <3>1. order.generation \in 0 .. latest.generation
      BY DEF Base, Interface
    <3>2. order.generation \in 0 .. latest'.generation
      BY <1>1, <1>2, <2>1, <3>1
    <3>3. order \in [at : {order.at}, generation : 0 .. latest'.generation, rows : Nat]
      BY <3>2 DEF Base, Interface
    <3> QED BY <1>2, <2>1, <3>3 DEF Base, Interface
  <2>7. NoRemoval'
    BY <1>2 DEF Base, NoRemoval
  <2> QED BY <2>4, <2>5, <2>6, <2>7 DEF Base
<1> QED BY <1>3, <1>4 DEF EngineMoves

----------------------------------------------------------------------------
(* A redraw.                                                               *)

Draws ==
  /\ UNCHANGED <<world, session, generation, inbox, latest, folder, view, assigned, dialog>>
  /\ busy' = FALSE
  /\ \/ UNCHANGED <<selected, order, guesses, drawn, drawer, applied, busy>>
     \/ Refresh(latest)

LEMMA RedrawDraws ==
  ASSUME Redraw \/ Poll
  PROVE  Draws
<1>1. CASE Redraw
  <2>1. /\ UNCHANGED <<world, session, generation, inbox, latest, folder, dialog>>
        /\ busy' = FALSE /\ Refresh(latest)
    BY <1>1 DEF Redraw, engine
  <2> QED BY <2>1 DEF Draws, Refresh
<1>2. CASE Poll
  <2>1. /\ UNCHANGED <<world, session, generation, inbox, latest, folder, dialog, busy>> /\ ~busy
        /\ IF Covered \/ applied
           THEN UNCHANGED <<table, guesses, drawn, told, drawer, applied>>
           ELSE Refresh(latest) /\ applied' = TRUE
    BY <1>2 DEF Poll
  <2>2. busy' = FALSE
    BY <1>2 DEF Poll
  <2>3. CASE Covered \/ applied
    BY <2>1, <2>2, <2>3 DEF Draws, table
  <2>4. CASE ~(Covered \/ applied)
    BY <2>1, <2>2, <2>4 DEF Draws, Refresh
  <2> QED BY <2>3, <2>4
<1> QED BY <1>1, <1>2

LEMMA OrderIsRefreshed ==
  ASSUME Base, Refresh(latest)
  PROVE  /\ order' = order \/ order'.at = Rebuilt(view, latest).at
         /\ IsVolatile => order'.at = Rebuilt(view, latest).at
         /\ order.generation # latest.generation => order'.at = Rebuilt(view, latest).at
         /\ order'.generation = latest.generation /\ order'.rows = Len(latest.rows)
         /\ order'.at \in Seq(1 .. Len(latest.rows))
         /\ order' \in [at : {order'.at}, generation : 0 .. latest.generation, rows : Nat]
<1>1. order' = IF Stale(latest) \/ IsVolatile THEN Rebuilt(view, latest) ELSE order
  BY DEF Refresh, RefreshOrder
<1>2. /\ IsList(latest.rows) /\ view \in Views
      /\ latest.generation \in Nat
      /\ order \in [at : {order.at}, generation : 0 .. latest.generation, rows : Nat]
      /\ order.at \in Seq(1 .. order.rows)
  BY DEF Base, Engine, Interface
<1>3. /\ Rebuilt(view, latest).at \in Seq(1 .. Len(latest.rows)) /\ Len(latest.rows) \in Nat
  BY <1>2, RebuiltIsAll
<1>4. Rebuilt(view, latest) = [at |-> Rebuilt(view, latest).at, generation |-> latest.generation,
                               rows |-> Len(latest.rows)]
  BY DEF Rebuilt
<1>5. CASE Stale(latest) \/ IsVolatile
  <2>1. order' = [at |-> Rebuilt(view, latest).at, generation |-> latest.generation, rows |-> Len(latest.rows)]
    BY <1>1, <1>4, <1>5
  <2> QED BY <1>2, <1>3, <2>1
<1>6. CASE ~(Stale(latest) \/ IsVolatile)
  <2>1. order' = order /\ order.generation = latest.generation /\ order.rows = Len(latest.rows)
    BY <1>1, <1>6 DEF Stale
  <2> QED BY <1>2, <1>6, <2>1
<1> QED BY <1>5, <1>6

LEMMA RowsAreRefreshed ==
  ASSUME Base, Refresh(latest)
  PROVE  /\ drawn' = Overlaid(latest, order'.at, guesses')
         /\ drawn' \in Seq(Line)
         /\ \A k \in DOMAIN drawn' : \E m \in DOMAIN order'.at :
              /\ order'.at[m] \in DOMAIN latest.rows
              /\ drawn'[k] = Guessed(latest.rows[order'.at[m]], guesses')
              /\ ~Gone(latest.rows[order'.at[m]], guesses')
              /\ drawn'[k].id = latest.rows[order'.at[m]].id /\ drawn'[k].hash = latest.rows[order'.at[m]].hash
         /\ \A m \in DOMAIN order'.at : latest.rows[order'.at[m]].id \in DOMAIN guesses' \/
              \E k \in DOMAIN drawn' : drawn'[k].id = latest.rows[order'.at[m]].id
         /\ guesses' \in [DOMAIN guesses' -> Guess] /\ DOMAIN guesses' \subseteq DOMAIN guesses
         /\ \A i \in DOMAIN guesses' : ~guesses'[i].newer
<1>1. drawn' = Overlaid(latest, order'.at, guesses') /\ guesses' = Settle
  BY DEF Refresh
<1>2. IsList(latest.rows) /\ order'.at \in Seq(1 .. Len(latest.rows))
  BY OrderIsRefreshed DEF Base, Engine
<1>3. /\ DOMAIN latest.rows = 1 .. Len(latest.rows) /\ Len(latest.rows) \in Nat
      /\ \A k \in DOMAIN latest.rows : latest.rows[k] \in Line
  BY <1>2 DEF IsList
<1>4. \A m \in DOMAIN order'.at : order'.at[m] \in DOMAIN latest.rows
  BY <1>2, <1>3
<1> DEFINE at == order'.at
           gs == guesses'
           o  == Overlaid(latest, at, gs)
<1>5. /\ o \in Seq(Line)
      /\ \A k \in DOMAIN o : \E m \in DOMAIN at :
           o[k] = Guessed(latest.rows[at[m]], gs) /\ ~Gone(latest.rows[at[m]], gs)
      /\ \A m \in DOMAIN at : ~Gone(latest.rows[at[m]], gs) =>
           \E k \in DOMAIN o : o[k] = Guessed(latest.rows[at[m]], gs)
  <2>1. IsList(latest.rows) /\ at \in Seq(1 .. Len(latest.rows)) /\ o = Overlaid(latest, at, gs)
    BY <1>2
  <2> HIDE DEF at, gs, o
  <2>2. DrawnFrom(o, latest.rows, at, gs)
    BY ONLY <2>1, OverlaidIsTheOrder
  <2> QED BY <2>2 DEF DrawnFrom
<1>6. \A k \in DOMAIN latest.rows :
        /\ Guessed(latest.rows[k], gs).id = latest.rows[k].id
        /\ Guessed(latest.rows[k], gs).hash = latest.rows[k].hash
  BY <1>3, GuessedIsTheRow
<1>a. drawn' = o /\ \A m \in DOMAIN at : at[m] \in DOMAIN latest.rows
  BY <1>1, <1>4
<1>7. \A k \in DOMAIN o : \E m \in DOMAIN at :
        /\ at[m] \in DOMAIN latest.rows
        /\ o[k] = Guessed(latest.rows[at[m]], gs)
        /\ ~Gone(latest.rows[at[m]], gs)
        /\ o[k].id = latest.rows[at[m]].id /\ o[k].hash = latest.rows[at[m]].hash
  <2> HIDE DEF at, gs, o
  <2> SUFFICES ASSUME NEW k \in DOMAIN o
               PROVE  \E m \in DOMAIN at :
                        /\ at[m] \in DOMAIN latest.rows
                        /\ o[k] = Guessed(latest.rows[at[m]], gs)
                        /\ ~Gone(latest.rows[at[m]], gs)
                        /\ o[k].id = latest.rows[at[m]].id /\ o[k].hash = latest.rows[at[m]].hash
    OBVIOUS
  <2>1. PICK m \in DOMAIN at : o[k] = Guessed(latest.rows[at[m]], gs) /\ ~Gone(latest.rows[at[m]], gs)
    BY <1>5
  <2>2. at[m] \in DOMAIN latest.rows
    BY <1>a
  <2> QED BY <1>6, <2>1, <2>2
<1>8. \A m \in DOMAIN at : latest.rows[at[m]].id \in DOMAIN gs \/
        \E k \in DOMAIN o : o[k].id = latest.rows[at[m]].id
  <2> HIDE DEF at, gs, o
  <2> SUFFICES ASSUME NEW m \in DOMAIN at, latest.rows[at[m]].id \notin DOMAIN gs
               PROVE  \E k \in DOMAIN o : o[k].id = latest.rows[at[m]].id
    OBVIOUS
  <2>1. ~Gone(latest.rows[at[m]], gs)
    BY DEF Gone
  <2>2. PICK k \in DOMAIN o : o[k] = Guessed(latest.rows[at[m]], gs)
    BY <1>5, <2>1
  <2> QED BY <1>6, <1>a, <2>2
<1>9. /\ guesses' \in [DOMAIN guesses' -> Guess] /\ DOMAIN guesses' \subseteq DOMAIN guesses
      /\ \A i \in DOMAIN guesses' : ~guesses'[i].newer
  BY <1>1 DEF Settle, Base, Interface
<1> HIDE DEF o
<1> QED BY <1>1, <1>5, <1>7, <1>8, <1>9, <1>a

LEMMA DrawerIsRefreshed ==
  ASSUME Base, Refresh(latest)
  PROVE  /\ drawer' \in [open : BOOLEAN, shown : SUBSET Nat,
                         lines : SUBSET [hash : Hashes, ticks : SUBSET Marks], guess : BOOLEAN]
         /\ IsFiniteSet(drawer'.shown) /\ IsFiniteSet(drawer'.lines)
         /\ \/ drawer'.shown = drawer.shown /\ drawer'.lines = drawer.lines
            \/ \E d \in latest.details : drawer'.shown = {d.id} /\ \A l \in drawer'.lines : l.hash = d.hash
<1>1. /\ drawer \in [open : BOOLEAN, shown : SUBSET Nat,
                     lines : SUBSET [hash : Hashes, ticks : SUBSET Marks], guess : BOOLEAN]
      /\ IsFiniteSet(drawer.shown) /\ IsFiniteSet(drawer.lines)
      /\ latest.details \subseteq [id : Nat, hash : Hashes, ticks : SUBSET Marks]
  BY DEF Base, Interface, Known
<1>2. CASE drawer' = drawer \/ drawer' = [drawer EXCEPT !.open = FALSE]
  BY <1>1, <1>2
<1>3. CASE ~(drawer' = drawer \/ drawer' = [drawer EXCEPT !.open = FALSE])
  <2> DEFINE d        == CHOOSE d \in latest.details : TRUE
             inFlight == drawer.shown = {d.id} /\ drawer.guess
             from     == IF inFlight THEN drawer.lines ELSE {d}
             lines    == {[hash |-> d.hash, ticks |-> IF inFlight THEN l.ticks ELSE d.ticks] : l \in from}
             f        == [l \in from |-> [hash |-> d.hash, ticks |-> IF inFlight THEN l.ticks ELSE d.ticks]]
  <2>1. /\ latest.details # {}
        /\ drawer' = [open |-> TRUE, shown |-> {d.id}, guess |-> inFlight, lines |-> lines]
    BY <1>3 DEF Refresh, RefreshDrawer
  <2>2. d \in latest.details
    BY <2>1
  <2>3. d.id \in Nat /\ d.hash \in Hashes /\ d.ticks \in SUBSET Marks
    BY <1>1, <2>2
  <2>4. \A l \in drawer.lines : l.ticks \in SUBSET Marks
    BY <1>1
  <2>5. IsFiniteSet(from)
    BY <1>1, FS_Singleton
  <2> HIDE DEF d
  <2>6. \A l \in from : (IF inFlight THEN l.ticks ELSE d.ticks) \in SUBSET Marks
    BY <2>3, <2>4
  <2>7. lines \subseteq [hash : Hashes, ticks : SUBSET Marks] /\ \A l \in lines : l.hash = d.hash
    BY <2>3, <2>6
  <2>8. DOMAIN f = from /\ lines = {f[l] : l \in DOMAIN f}
    OBVIOUS
  <2> HIDE DEF f, from, inFlight, lines
  <2>9. IsFiniteSet(lines)
    BY <2>5, <2>8, ImageIsFinite
  <2>10. inFlight \in BOOLEAN
    BY DEF inFlight
  <2>11. IsFiniteSet({d.id})
    BY FS_Singleton
  <2> QED BY <2>1, <2>2, <2>3, <2>7, <2>9, <2>10, <2>11
<1> QED BY <1>2, <1>3

LEMMA DrawingKeepsBase ==
  ASSUME Base, Draws
  PROVE  Base'
<1>1. UNCHANGED <<world, session, generation, inbox, latest, folder, view, assigned, dialog>>
  BY DEF Draws
<1>2. Engine' /\ Known' /\ NoRemoval'
  BY <1>1 DEF Base, Engine, Known, NoRemoval
<1>3. CASE UNCHANGED <<selected, order, guesses, drawn, drawer, applied, busy>>
  BY <1>1, <1>2, <1>3 DEF Base, Interface
<1>4. CASE Refresh(latest)
  <2>1. selected' \in SUBSET selected
    BY <1>4 DEF Refresh
  <2>2. selected' \subseteq Nat /\ IsFiniteSet(selected')
    BY <2>1, FS_Subset DEF Base, Interface
  <2>3. /\ order' \in [at : {order'.at}, generation : 0 .. latest.generation, rows : Nat]
        /\ order'.at \in Seq(1 .. order'.rows)
    BY <1>4, OrderIsRefreshed
  <2>4. guesses' \in [DOMAIN guesses' -> Guess] /\ drawn' \in Seq(Line)
    BY <1>4, RowsAreRefreshed
  <2>5. /\ drawer' \in [open : BOOLEAN, shown : SUBSET Nat,
                        lines : SUBSET [hash : Hashes, ticks : SUBSET Marks], guess : BOOLEAN]
        /\ IsFiniteSet(drawer'.shown) /\ IsFiniteSet(drawer'.lines)
    BY <1>4, DrawerIsRefreshed
  <2>6. Interface'
    BY <1>1, <2>2, <2>3, <2>4, <2>5 DEF Base, Interface
  <2> QED BY <1>2, <2>6 DEF Base
<1> QED BY <1>3, <1>4 DEF Draws

----------------------------------------------------------------------------
(* The user.                                                               *)

(* What a gesture may be about: what is selected, drawn or in the drawer.  *)
Pointed == selected \cup IdsOf(drawn) \cup drawer.shown

Named(c) ==
  \/ c.do = "watch"
  \/ c.id \in Pointed /\ c.about = SeenAs(c.id)
  \/ c.id \in DOMAIN dialog.asks /\ c.about = dialog.asks[c.id]
  \/ c.id \in drawer.shown /\ \E l \in drawer.lines : c.about = l.hash

Heard ==
  /\ inbox' \in Seq(Commands)
  /\ \A j \in DOMAIN inbox : \E k \in DOMAIN inbox' : inbox'[k] = inbox[j]
  /\ \A k \in DOMAIN inbox' :
       \/ \E j \in DOMAIN inbox : inbox'[k] = inbox[j]
       \/ Named(inbox'[k]) /\ (inbox'[k].do = "remove" => "removes" \in world)

(* What a gesture does, and what it leaves alone.                          *)
Hand ==
  /\ ~busy
  /\ UNCHANGED <<world, session, generation, latest, folder, drawn, applied>>
  /\ Heard
  /\ selected' \subseteq selected \cup IdsOf(drawn)
  /\ drawer' \in [open : BOOLEAN, shown : {drawer.shown},
                  lines : SUBSET [hash : Hashes, ticks : SUBSET Marks], guess : BOOLEAN]
  /\ IsFiniteSet(drawer'.lines) /\ \A l \in drawer'.lines : \E m \in drawer.lines : l.hash = m.hash
  /\ guesses' \in [DOMAIN guesses' -> Guess]
  /\ dialog' \in [open : BOOLEAN, asks : {dialog'.asks}, data : BOOLEAN]
  /\ dialog'.open => dialog.open \/ "removes" \in world
  /\ \/ dialog'.asks = dialog.asks
     \/ /\ IsFiniteSet(DOMAIN dialog'.asks) /\ DOMAIN dialog'.asks \subseteq Pointed
        /\ dialog'.asks = [i \in DOMAIN dialog'.asks |-> SeenAs(i)]
  /\ view' \in Views
  /\ \/ UNCHANGED <<view, order>> /\ (assigned' = assigned \/ (busy' /\ Leaving'))
     \/ order' = Rebuilt(view', latest) /\ assigned' = assigned /\ busy'
  /\ busy' \/ UNCHANGED <<busy, selected, order, view, assigned, guesses>>

(* How the selection and what narrows the list change.                     *)
Picks ==
  /\ selected' \subseteq selected \/ world \cap {"selects", "arrows", "menus"} # {}
  /\ \/ view'.shown = "all" /\ ~view'.shelf
     \/ view'.shown = view.shown /\ view'.shelf = view.shelf
     \/ world \cap {"shows", "shelves"} # {}
  /\ \A i \in selected' :
       \/ view'.text \in {view.text, Hashes}
       \/ \E k \in DOMAIN latest.rows : latest.rows[k].id = i /\ latest.rows[k].hash \in view'.text

LEMMA DrawnIdsAreFinite ==
  ASSUME NEW rows \in Seq(Line)
  PROVE  IsFiniteSet(IdsOf(rows)) /\ IdsOf(rows) \subseteq Nat /\ \A k \in DOMAIN rows : rows[k].id \in IdsOf(rows)
<1> DEFINE f == [k \in DOMAIN rows |-> rows[k].id]
<1>1. DOMAIN rows = 1 .. Len(rows) /\ Len(rows) \in Nat /\ \A k \in DOMAIN rows : rows[k] \in Line
  OBVIOUS
<1>2. IsFiniteSet(DOMAIN f)
  BY <1>1, FS_Interval
<1>3. IdsOf(rows) = {f[k] : k \in DOMAIN f}
  BY DEF IdsOf
<1>4. IdsOf(rows) \subseteq Nat /\ \A k \in DOMAIN rows : rows[k].id \in IdsOf(rows)
  BY <1>1 DEF IdsOf, Line
<1> HIDE DEF f
<1>5. IsFiniteSet(IdsOf(rows))
  BY <1>2, <1>3, ImageIsFinite
<1> QED BY <1>4, <1>5

LEMMA PointedIsFinite ==
  ASSUME Base, NEW ids \in SUBSET Pointed
  PROVE  IsFiniteSet(ids) /\ ids \subseteq Nat
<1>1. IsFiniteSet(selected) /\ IsFiniteSet(IdsOf(drawn)) /\ IsFiniteSet(drawer.shown)
  BY DrawnIdsAreFinite DEF Base, Interface
<1>2. selected \subseteq Nat /\ IdsOf(drawn) \subseteq Nat /\ drawer.shown \subseteq Nat
  BY DrawnIdsAreFinite DEF Base, Interface
<1>3. IsFiniteSet(selected \cup IdsOf(drawn))
  BY <1>1, FS_Union
<1>4. IsFiniteSet(Pointed)
  BY <1>1, <1>3, FS_Union DEF Pointed
<1> QED BY <1>2, <1>4, FS_Subset DEF Pointed

(* The name a gesture has for an id is that of a row with the id, if there *)
(* is one.                                                                 *)
LEMMA SeenAsIsARow ==
  ASSUME Base, NEW i
  PROVE  /\ SeenAs(i) \in Nat
         /\ \/ \E k \in DOMAIN drawn : drawn[k].id = i /\ SeenAs(i) = drawn[k].hash
            \/ \E k \in DOMAIN latest.rows : latest.rows[k].id = i /\ SeenAs(i) = latest.rows[k].hash
            \/ i \notin IdsOf(latest.rows)
<1> DEFINE known == {r \in Range(latest.rows) : r.id = i}
           sight == IF RowsOf({i}) # {} THEN RowsOf({i}) ELSE known
           r     == CHOOSE r \in sight : TRUE
<1>1. SeenAs(i) = IF sight = {} THEN 0 ELSE r.hash
  BY DEF SeenAs
<1>2. \A q \in RowsOf({i}) : \E k \in DOMAIN drawn : q = drawn[k] /\ drawn[k].id = i
  BY DEF RowsOf
<1>3. \A q \in known : \E k \in DOMAIN latest.rows : q = latest.rows[k] /\ latest.rows[k].id = i
  BY DEF Range
<1>4. known = {} => i \notin IdsOf(latest.rows)
  BY DEF Range, IdsOf
<1>5. \A k \in DOMAIN drawn : drawn[k].hash \in Nat
  <2>1. \A k \in DOMAIN drawn : drawn[k] \in Line
    BY DEF Base, Interface
  <2> QED BY <2>1, HashesAreNumbers DEF Line
<1>6. \A k \in DOMAIN latest.rows : latest.rows[k].hash \in Nat
  <2>1. \A k \in DOMAIN latest.rows : latest.rows[k] \in Line
    BY DEF Base, Engine, IsList
  <2> QED BY <2>1, HashesAreNumbers DEF Line
<1> HIDE DEF known
<1>7. CASE RowsOf({i}) # {}
  <2>1. r \in RowsOf({i}) /\ SeenAs(i) = r.hash
    BY <1>1, <1>7
  <2> HIDE DEF r
  <2> QED BY <1>2, <1>5, <2>1
<1>8. CASE RowsOf({i}) = {} /\ known # {}
  <2>1. r \in known /\ SeenAs(i) = r.hash
    BY <1>1, <1>8
  <2> HIDE DEF r
  <2> QED BY <1>3, <1>6, <2>1
<1>9. CASE RowsOf({i}) = {} /\ known = {}
  BY <1>1, <1>4, <1>9
<1> QED BY <1>7, <1>8, <1>9

LEMMA NothingIsHeard ==
  ASSUME Base, inbox' = inbox
  PROVE  Heard
BY DEF Base, Interface, Heard

LEMMA WatchIsHeard ==
  ASSUME Base, NEW sel, NEW open
  PROVE  inbox' = Append(inbox, Watch(sel, open)) => Heard
<1> DEFINE c == Watch(sel, open)
<1>1. IdsOf(drawn) \subseteq Nat
  BY DrawnIdsAreFinite DEF Base, Interface
<1>2. TopSelected(sel) \subseteq Nat
  BY <1>1 DEF TopSelected, IdsOf
<1>3. c \in Commands /\ c.do = "watch"
  BY <1>2 DEF Watch, Command, Commands, Actions, Marks
<1>4. inbox \in Seq(Commands)
  BY DEF Base, Interface
<1> HIDE DEF c
<1>5. /\ Append(inbox, c) \in Seq(Commands)
      /\ \A j \in DOMAIN inbox : j \in DOMAIN Append(inbox, c) /\ Append(inbox, c)[j] = inbox[j]
      /\ \A k \in DOMAIN Append(inbox, c) : k \in DOMAIN inbox \/ Append(inbox, c)[k] = c
  BY <1>3, <1>4
<1>6. ASSUME inbox' = Append(inbox, c)
      PROVE  Heard
  BY <1>3, <1>5, <1>6 DEF Heard, Named
<1> QED BY <1>6 DEF c

LEMMA SendIsHeard ==
  ASSUME Base, NEW STATE cs, IsFiniteSet(cs), Send(cs),
         \A c \in cs : c \in Commands /\ Named(c) /\ (c.do = "remove" => "removes" \in world)
  PROVE  Heard /\ \A c \in cs : \E k \in DOMAIN inbox' : inbox'[k] = c
<1> DEFINE t == SetToSeq(cs)
<1>1. /\ t \in Seq(cs) /\ \A k \in DOMAIN t : t[k] \in cs
      /\ \A x \in cs : \E k \in DOMAIN t : t[k] = x
  BY SentIsAll
<1>2. inbox \in Seq(Commands) /\ inbox' = inbox \o t
  BY DEF Base, Interface, Send
<1>3. t \in Seq(Commands)
  BY <1>1, SeqMonotonic
<1> HIDE DEF t
<1>a. inbox' \in Seq(Commands) /\ Joins(inbox', inbox, t)
  BY <1>2, <1>3, Joined
<1>4. /\ inbox' \in Seq(Commands)
      /\ \A k \in DOMAIN inbox' : (\E j \in DOMAIN inbox : inbox'[k] = inbox[j]) \/ (\E j \in DOMAIN t : inbox'[k] = t[j])
      /\ \A j \in DOMAIN inbox : \E k \in DOMAIN inbox' : inbox'[k] = inbox[j]
      /\ \A j \in DOMAIN t : \E k \in DOMAIN inbox' : inbox'[k] = t[j]
  BY <1>a DEF Joins
<1>5. \A k \in DOMAIN inbox' :
        (\E j \in DOMAIN inbox : inbox'[k] = inbox[j]) \/
        (Named(inbox'[k]) /\ (inbox'[k].do = "remove" => "removes" \in world))
  BY <1>1, <1>4
<1>6. \A c \in cs : \E k \in DOMAIN inbox' : inbox'[k] = c
  BY <1>1, <1>4
<1> QED BY <1>4, <1>5, <1>6 DEF Heard

Elsewhere == UNCHANGED <<world, session, generation, latest, folder, drawn, applied>>

LEMMA SelectingIsByHand ==
  ASSUME Base, ~busy, busy' = TRUE, Elsewhere,
         UNCHANGED <<guesses, dialog, view, order, assigned>>,
         Heard,
         selected' \subseteq selected \cup IdsOf(drawn),
         drawer' = drawer \/ \E on \in BOOLEAN : drawer' = [drawer EXCEPT !.open = on],
         selected' = selected \/ world \cap {"selects", "arrows", "menus"} # {}
  PROVE  Hand /\ Picks
<1>1. /\ drawer' \in [open : BOOLEAN, shown : {drawer.shown},
                      lines : SUBSET [hash : Hashes, ticks : SUBSET Marks], guess : BOOLEAN]
      /\ IsFiniteSet(drawer'.lines) /\ drawer'.lines = drawer.lines
  <2>1. /\ drawer \in [open : BOOLEAN, shown : SUBSET Nat,
                       lines : SUBSET [hash : Hashes, ticks : SUBSET Marks], guess : BOOLEAN]
        /\ IsFiniteSet(drawer.lines)
    BY DEF Base, Interface
  <2>2. CASE drawer' = drawer
    BY <2>1, <2>2
  <2>3. CASE \E on \in BOOLEAN : drawer' = [drawer EXCEPT !.open = on]
    BY <2>1, <2>3
  <2> QED BY <2>2, <2>3
<1>2. \A l \in drawer'.lines : \E m \in drawer.lines : l.hash = m.hash
  BY <1>1
<1>3. guesses' \in [DOMAIN guesses' -> Guess] /\ view' \in Views
  BY DEF Base, Interface
<1>4. dialog' \in [open : BOOLEAN, asks : {dialog'.asks}, data : BOOLEAN]
  BY DEF Base, Interface
<1>5. Hand
  BY <1>1, <1>2, <1>3, <1>4 DEF Hand, Elsewhere
<1>6. Picks
  BY DEF Picks
<1> QED BY <1>5, <1>6

LEMMA SelectTakesWhatIsDrawn ==
  ASSUME Base, NEW k \in DOMAIN drawn, NEW how, Select(k, how)
  PROVE  selected' \subseteq selected \cup IdsOf(drawn)
<1>1. drawn[k].id \in IdsOf(drawn)
  BY DEF IdsOf
<1>2. \A S : {drawn[j].id : j \in S \cap DOMAIN drawn} \subseteq IdsOf(drawn)
  BY DEF IdsOf
<1> QED BY <1>1, <1>2 DEF Select

LEMMA ClickIsByHand ==
  ASSUME Base, NEW k \in DOMAIN drawn, NEW how, Click(k, how)
  PROVE  Hand /\ Picks
<1>1. ~busy /\ busy' = TRUE /\ "selects" \in world
  BY DEF Click, Gesture, Free
<1>2. Elsewhere /\ UNCHANGED <<guesses, dialog, view, order, assigned>>
  BY DEF Click, Quiet, Rest, engine, window, Elsewhere
<1>3. selected' \subseteq selected \cup IdsOf(drawn)
  BY SelectTakesWhatIsDrawn DEF Click
<1>4. \E on \in BOOLEAN : drawer' = [drawer EXCEPT !.open = on]
  <2>1. drawer' = [drawer EXCEPT !.open = drawer.open \/ how = "plain"]
    BY DEF Click, Base, Interface
  <2>2. (drawer.open \/ how = "plain") \in BOOLEAN
    OBVIOUS
  <2> QED BY <2>1, <2>2
<1>5. Heard
  BY WatchIsHeard DEF Click, Follow
<1> QED BY <1>1, <1>2, <1>3, <1>4, <1>5, SelectingIsByHand

LEMMA OpenMenuIsByHand ==
  ASSUME Base, NEW k \in DOMAIN drawn, OpenMenu(k)
  PROVE  Hand /\ Picks
<1>1. ~busy /\ busy' = TRUE /\ "menus" \in world
  BY DEF OpenMenu, Gesture, Free
<1>2. Elsewhere /\ UNCHANGED <<guesses, dialog, view, order, assigned, drawer>>
  BY DEF OpenMenu, Quiet, Rest, engine, window, Elsewhere
<1>3. CASE drawn[k].id \in selected
  <2>1. selected' = selected /\ inbox' = inbox
    BY <1>3 DEF OpenMenu
  <2> QED BY <1>1, <1>2, <2>1, NothingIsHeard, SelectingIsByHand
<1>4. CASE drawn[k].id \notin selected
  <2>1. Select(k, "plain") /\ Follow
    BY <1>4 DEF OpenMenu
  <2>2. selected' \subseteq selected \cup IdsOf(drawn)
    BY <2>1, SelectTakesWhatIsDrawn
  <2>3. Heard
    BY <2>1, WatchIsHeard DEF Follow
  <2> QED BY <1>1, <1>2, <2>2, <2>3, SelectingIsByHand
<1> QED BY <1>3, <1>4

LEMMA SelectAllIsByHand ==
  ASSUME Base, SelectAll
  PROVE  Hand /\ Picks
<1>1. ~busy /\ busy' = TRUE /\ "selects" \in world
  BY DEF SelectAll, Gesture, Free
<1>2. Elsewhere /\ UNCHANGED <<guesses, dialog, view, order, assigned, drawer>>
  BY DEF SelectAll, Quiet, Rest, engine, window, Elsewhere
<1>3. selected' \subseteq selected \cup IdsOf(drawn)
  BY DEF SelectAll, IdsOf
<1>4. Heard
  BY WatchIsHeard DEF SelectAll, Follow
<1> QED BY <1>1, <1>2, <1>3, <1>4, SelectingIsByHand

LEMMA ArrowIsByHand ==
  ASSUME Base, NEW step \in {"Up", "Down", "Home", "End"}, NEW extend \in BOOLEAN, Arrow(step, extend)
  PROVE  Hand /\ Picks
<1> DEFINE from == CHOOSE k \in FocusRow : TRUE
           last == Len(drawn)
           row  == CASE step = "Home" -> 1
                     [] step = "End"  -> last
                     [] OTHER         -> IF FocusRow = {} THEN 1
                                         ELSE IF step = "Up" THEN IF from = 1 THEN 1 ELSE from - 1
                                         ELSE IF from = last THEN last ELSE from + 1
<1>1. ~busy /\ busy' = TRUE /\ "arrows" \in world /\ drawn # <<>>
  BY DEF Arrow, Gesture, Free
<1>2. Elsewhere /\ UNCHANGED <<guesses, dialog, view, order, assigned, drawer>>
  BY DEF Arrow, Quiet, Rest, engine, window, Elsewhere
<1>3. selected' = IF extend THEN {drawn[j].id : j \in Between(anchor, row) \cap DOMAIN drawn} ELSE {drawn[row].id}
  BY DEF Arrow
<1>4. row \in DOMAIN drawn
  <2>1. DOMAIN drawn = 1 .. last /\ last \in Nat /\ last # 0
    BY <1>1 DEF Base, Interface
  <2>2. FocusRow # {} => from \in 1 .. last
    BY <2>1 DEF FocusRow
  <2> HIDE DEF from, last
  <2> QED BY <2>1, <2>2
<1> HIDE DEF row
<1>5. selected' \subseteq selected \cup IdsOf(drawn)
  BY <1>3, <1>4 DEF IdsOf
<1>6. Heard
  BY WatchIsHeard DEF Arrow, Follow
<1> QED BY <1>1, <1>2, <1>5, <1>6, SelectingIsByHand

LEMMA OpenDrawerIsByHand ==
  ASSUME Base, OpenDrawer
  PROVE  Hand /\ Picks
<1>1. ~busy /\ busy' = TRUE
  BY DEF OpenDrawer, Gesture, Free
<1>2. Elsewhere /\ UNCHANGED <<guesses, dialog, view, order, assigned, selected>>
  BY DEF OpenDrawer, table, Rest, engine, window, Elsewhere
<1>3. \E on \in BOOLEAN : drawer' = [drawer EXCEPT !.open = on]
  <2>1. drawer' = [drawer EXCEPT !.open = ~drawer.open]
    BY DEF OpenDrawer
  <2>2. (~drawer.open) \in BOOLEAN
    OBVIOUS
  <2> QED BY <2>1, <2>2
<1>4. Heard
  BY WatchIsHeard DEF OpenDrawer, Follow
<1> QED BY <1>1, <1>2, <1>3, <1>4, SelectingIsByHand

LEMMA NarrowingIsByHand ==
  ASSUME Base, ~busy, busy' = TRUE, Heard, NEW STATE v, v \in Views, Narrow(v), selected' \subseteq selected,
         \/ v.shown = "all" /\ ~v.shelf
         \/ v.shown = view.shown /\ v.shelf = view.shelf
         \/ world \cap {"shows", "shelves"} # {},
         \A i \in selected' :
           \/ v.text \in {view.text, Hashes}
           \/ \E k \in DOMAIN latest.rows : latest.rows[k].id = i /\ latest.rows[k].hash \in v.text
  PROVE  Hand /\ Picks
<1>1. /\ view' = v /\ order' = Rebuilt(v, latest)
      /\ UNCHANGED <<assigned, drawer, guesses, dialog>>
  BY DEF Narrow
<1>2. UNCHANGED <<world, session, generation, latest, folder, drawn, applied>>
  BY DEF Narrow, Rest, engine, window
<1>3. /\ drawer' \in [open : BOOLEAN, shown : {drawer.shown},
                      lines : SUBSET [hash : Hashes, ticks : SUBSET Marks], guess : BOOLEAN]
      /\ IsFiniteSet(drawer'.lines) /\ \A l \in drawer'.lines : \E m \in drawer.lines : l.hash = m.hash
  BY <1>1 DEF Base, Interface
<1>4. /\ guesses' \in [DOMAIN guesses' -> Guess]
      /\ dialog' \in [open : BOOLEAN, asks : {dialog'.asks}, data : BOOLEAN]
  BY <1>1 DEF Base, Interface
<1>5. order' = Rebuilt(view', latest)
  BY <1>1
<1>6. Hand
  BY <1>1, <1>2, <1>3, <1>4, <1>5 DEF Hand
<1>7. Picks
  BY <1>1 DEF Picks
<1> QED BY <1>6, <1>7

LEMMA SortByIsByHand ==
  ASSUME Base, NEW col \in {"name", "state"}, SortBy(col)
  PROVE  Hand /\ Picks
<1>1. ~busy /\ busy' = TRUE /\ Narrow(Clicked(col)) /\ selected' = selected /\ inbox' = inbox
  BY DEF SortBy, Gesture, Free
<1>2. view \in Views
  BY DEF Base, Interface
<1>3. /\ Clicked(col) \in Views /\ Clicked(col).shown = view.shown
      /\ Clicked(col).shelf = view.shelf /\ Clicked(col).text = view.text
  BY <1>2 DEF Clicked, Views
<1>4. Heard
  BY <1>1, NothingIsHeard
<1> QED BY <1>1, <1>3, <1>4, NarrowingIsByHand

LEMMA TypeIsByHand ==
  ASSUME Base, NEW names \in SUBSET Hashes, Type(names)
  PROVE  Hand /\ Picks
<1> DEFINE v == [view EXCEPT !.text = names]
<1>1. /\ ~busy /\ busy' = TRUE /\ Narrow(v) /\ Follow
      /\ selected' = selected \cap {latest.rows[order'.at[k]].id : k \in DOMAIN order'.at}
  BY DEF Type, Gesture, Free
<1>2. view \in Views /\ IsList(latest.rows)
  BY DEF Base, Interface, Engine
<1>3. v \in Views /\ v.shown = view.shown /\ v.shelf = view.shelf /\ v.text = names
  BY <1>2 DEF Views
<1> HIDE DEF v
<1>4. Heard
  BY <1>1, WatchIsHeard DEF Follow
<1>5. order'.at = Rebuilt(v, latest).at
  BY <1>1 DEF Narrow
<1>6. \A m \in DOMAIN order'.at : order'.at[m] \in DOMAIN latest.rows /\ Shows(v, latest.rows[order'.at[m]])
  BY <1>2, <1>3, <1>5, RebuiltIsAll
<1>7. \A i \in selected' : \E k \in DOMAIN latest.rows : latest.rows[k].id = i /\ latest.rows[k].hash \in v.text
  BY <1>1, <1>6 DEF Shows
<1> QED BY <1>1, <1>3, <1>4, <1>7, NarrowingIsByHand

LEMMA ShowStateIsByHand ==
  ASSUME Base, NEW state \in {"all", "downloading", "paused"}, ShowState(state)
  PROVE  Hand /\ Picks
<1> DEFINE v == [view EXCEPT !.shown = state]
<1>1. ~busy /\ busy' = TRUE /\ Narrow(v) /\ Follow /\ selected' = selected /\ "shows" \in world
  BY DEF ShowState, Gesture, Free
<1>2. view \in Views
  BY DEF Base, Interface
<1>3. v \in Views /\ v.text = view.text
  BY <1>2 DEF Views
<1> HIDE DEF v
<1>4. Heard
  BY <1>1, WatchIsHeard DEF Follow
<1> QED BY <1>1, <1>3, <1>4, NarrowingIsByHand

LEMMA ShowShelfIsByHand ==
  ASSUME Base, NEW on \in BOOLEAN, ShowShelf(on)
  PROVE  Hand /\ Picks
<1> DEFINE v == [view EXCEPT !.shelf = on]
<1>1. ~busy /\ busy' = TRUE /\ Narrow(v) /\ Follow /\ selected' = selected /\ "shelves" \in world
  BY DEF ShowShelf, Gesture, Free
<1>2. view \in Views
  BY DEF Base, Interface
<1>3. v \in Views /\ v.text = view.text
  BY <1>2 DEF Views
<1> HIDE DEF v
<1>4. Heard
  BY <1>1, WatchIsHeard DEF Follow
<1> QED BY <1>1, <1>3, <1>4, NarrowingIsByHand

LEMMA ShowAllIsByHand ==
  ASSUME Base, ShowAll
  PROVE  Hand /\ Picks
<1> DEFINE v == [view EXCEPT !.text = Hashes, !.shown = "all", !.shelf = FALSE]
<1>1. ~busy /\ busy' = TRUE /\ Narrow(v) /\ selected' = selected /\ inbox' = inbox
  BY DEF ShowAll, Gesture, Free
<1>2. view \in Views
  BY DEF Base, Interface
<1>3. v \in Views /\ v.text = Hashes /\ v.shown = "all" /\ ~v.shelf
  BY <1>2 DEF Views
<1> HIDE DEF v
<1>4. Heard
  BY <1>1, NothingIsHeard
<1> QED BY <1>1, <1>3, <1>4, NarrowingIsByHand

(* Commands to start or to pause.                                          *)
LEMMA ExpectedIsAGuess ==
  ASSUME Base, NEW STATE ids, NEW STATE action, action \in {"Started", "Paused", "Removed"}, Expect(ids, action)
  PROVE  guesses' \in [DOMAIN guesses' -> Guess]
<1>1. guesses \in [DOMAIN guesses -> Guess]
  BY DEF Base, Interface
<1>2. guesses' = [i \in DOMAIN guesses \cup ids |->
                   IF i \in ids THEN [action |-> action, newer |-> FALSE] ELSE guesses[i]]
  BY DEF Expect
<1>3. [action |-> action, newer |-> FALSE] \in Guess
  BY DEF Guess
<1> QED BY <1>1, <1>2, <1>3

LEMMA RunIsByHand ==
  ASSUME Base, ~busy, busy' = TRUE, NEW STATE ids, ids \subseteq Pointed, NEW STATE start, Run(ids, start)
  PROVE  Hand /\ Picks
<1> DEFINE do == IF start THEN "start" ELSE "pause"
           f  == [i \in ids |-> Command(do, i, {}, FALSE, SeenAs(i))]
           cs == {Command(do, i, {}, FALSE, SeenAs(i)) : i \in ids}
<1>1. IsFiniteSet(ids) /\ ids \subseteq Nat
  BY PointedIsFinite
<1>2. do \in {"start", "pause"}
  OBVIOUS
<1>3. DOMAIN f = ids /\ cs = {f[i] : i \in DOMAIN f}
  OBVIOUS
<1>4. \A i \in ids : SeenAs(i) \in Nat
  BY SeenAsIsARow
<1>5. \A c \in cs : c \in Commands /\ c.id \in ids /\ c.about = SeenAs(c.id) /\ c.do # "remove"
  <2> SUFFICES ASSUME NEW i \in ids
               PROVE  LET c == Command(do, i, {}, FALSE, SeenAs(i))
                      IN  c \in Commands /\ c.id \in ids /\ c.about = SeenAs(c.id) /\ c.do # "remove"
    OBVIOUS
  <2>1. i \in Nat /\ SeenAs(i) \in Nat
    BY <1>1, <1>4
  <2> HIDE DEF do
  <2> QED BY <1>2, <2>1 DEF Command, Commands, Actions
<1>6. Send(cs) /\ Expect(ids, IF start THEN "Started" ELSE "Paused")
  BY DEF Run
<1> HIDE DEF f, cs, do
<1>7. IsFiniteSet(cs)
  BY <1>1, <1>3, ImageIsFinite
<1>8. \A c \in cs : c \in Commands /\ Named(c) /\ (c.do = "remove" => "removes" \in world)
  BY <1>5 DEF Named
<1>9. Heard
  BY <1>6, <1>7, <1>8, SendIsHeard
<1>10. guesses' \in [DOMAIN guesses' -> Guess]
  BY <1>6, ExpectedIsAGuess
<1>11. UNCHANGED <<world, session, generation, latest, folder, drawn, applied>>
  BY DEF Run, Rest, engine, window
<1>12. UNCHANGED <<selected, assigned, view, order, drawer, dialog>>
  BY DEF Run, table
<1>13. /\ drawer' \in [open : BOOLEAN, shown : {drawer.shown},
                       lines : SUBSET [hash : Hashes, ticks : SUBSET Marks], guess : BOOLEAN]
       /\ IsFiniteSet(drawer'.lines) /\ \A l \in drawer'.lines : \E m \in drawer.lines : l.hash = m.hash
       /\ dialog' \in [open : BOOLEAN, asks : {dialog'.asks}, data : BOOLEAN]
       /\ view' \in Views
  BY <1>12 DEF Base, Interface
<1>14. Hand
  BY <1>9, <1>10, <1>11, <1>12, <1>13 DEF Hand
<1> QED BY <1>12, <1>14 DEF Picks

LEMMA ToggleIsByHand ==
  ASSUME Base, ToggleSelected \/ (\E k \in DOMAIN drawn : ToggleRow(k)) \/ ToggleShown
  PROVE  Hand /\ Picks
<1>1. CASE ToggleSelected
  <2>1. ~busy /\ busy' = TRUE /\ Run(selected, ~AllRunning)
    BY <1>1 DEF ToggleSelected, Gesture, Free
  <2>2. selected \subseteq Pointed
    BY DEF Pointed
  <2> QED BY <2>1, <2>2, RunIsByHand
<1>2. CASE \E k \in DOMAIN drawn : ToggleRow(k)
  <2> PICK k \in DOMAIN drawn : ToggleRow(k)
    BY <1>2
  <2>1. ~busy /\ busy' = TRUE /\ Run({drawn[k].id}, drawn[k].state = "paused")
    BY DEF ToggleRow, Gesture, Free
  <2>2. {drawn[k].id} \subseteq Pointed
    BY DEF Pointed, IdsOf
  <2> QED BY <2>1, <2>2, RunIsByHand
<1>3. CASE ToggleShown
  <2>1. ~busy /\ busy' = TRUE
    BY <1>3 DEF ToggleShown, Gesture, Free
  <2> PICK r \in Range(latest.rows) : r.id \in drawer.shown /\ Run({r.id}, r.state = "paused")
    BY <1>3 DEF ToggleShown
  <2>2. {r.id} \subseteq Pointed
    BY DEF Pointed
  <2> QED BY <2>1, <2>2, RunIsByHand
<1> QED BY <1>1, <1>2, <1>3

(* The dialog.                                                             *)
LEMMA ConfirmIsByHand ==
  ASSUME Base, NEW STATE ids, ids \subseteq Pointed, Confirm(ids)
  PROVE  Hand /\ Picks
<1>1. /\ ~busy /\ "removes" \in world
      /\ dialog' = [open |-> TRUE, asks |-> [i \in ids |-> SeenAs(i)], data |-> FALSE]
      /\ inbox' = inbox
      /\ UNCHANGED <<selected, assigned, view, order, guesses, drawer, busy>>
  BY DEF Confirm, Free, table
<1>2. UNCHANGED <<world, session, generation, latest, folder, drawn, applied>>
  BY DEF Confirm, Rest, engine, window
<1>3. /\ drawer' \in [open : BOOLEAN, shown : {drawer.shown},
                      lines : SUBSET [hash : Hashes, ticks : SUBSET Marks], guess : BOOLEAN]
      /\ IsFiniteSet(drawer'.lines) /\ \A l \in drawer'.lines : \E m \in drawer.lines : l.hash = m.hash
      /\ view' \in Views /\ guesses' \in [DOMAIN guesses' -> Guess]
  BY <1>1 DEF Base, Interface
<1>4. /\ dialog' \in [open : BOOLEAN, asks : {dialog'.asks}, data : BOOLEAN]
      /\ IsFiniteSet(DOMAIN dialog'.asks) /\ DOMAIN dialog'.asks \subseteq Pointed
      /\ dialog'.asks = [i \in DOMAIN dialog'.asks |-> SeenAs(i)]
  BY <1>1, PointedIsFinite
<1>5. Heard
  BY <1>1, NothingIsHeard
<1>6. Hand
  BY <1>1, <1>2, <1>3, <1>4, <1>5 DEF Hand
<1> QED BY <1>1, <1>6 DEF Picks

LEMMA AskIsByHand ==
  ASSUME Base, AskToRemove
  PROVE  Hand /\ Picks
<1>1. CASE Confirm(selected)
  BY <1>1, ConfirmIsByHand DEF Pointed
<1>2. CASE \E k \in DOMAIN drawn : Confirm({drawn[k].id})
  <2> PICK k \in DOMAIN drawn : Confirm({drawn[k].id})
    BY <1>2
  <2>1. {drawn[k].id} \subseteq Pointed
    BY DEF Pointed, IdsOf
  <2> QED BY <2>1, ConfirmIsByHand
<1>3. CASE Confirm(drawer.shown)
  BY <1>3, ConfirmIsByHand DEF Pointed
<1> QED BY <1>1, <1>2, <1>3 DEF AskToRemove

(* What leaves the list and the lines of the drawer as they are, and sends *)
(* nothing.                                                                *)
LEMMA IdleIsByHand ==
  ASSUME Base, ~busy, Elsewhere,
         UNCHANGED <<inbox, selected, assigned, view, order, guesses, drawer, busy>>,
         \E on, data \in BOOLEAN : dialog' = [open |-> on, asks |-> dialog.asks, data |-> data] /\ (on => dialog.open)
  PROVE  Hand /\ Picks
<1>1. /\ drawer' \in [open : BOOLEAN, shown : {drawer.shown},
                      lines : SUBSET [hash : Hashes, ticks : SUBSET Marks], guess : BOOLEAN]
      /\ IsFiniteSet(drawer'.lines) /\ \A l \in drawer'.lines : \E m \in drawer.lines : l.hash = m.hash
      /\ view' \in Views /\ guesses' \in [DOMAIN guesses' -> Guess]
  BY DEF Base, Interface
<1>2. /\ dialog' \in [open : BOOLEAN, asks : {dialog'.asks}, data : BOOLEAN]
      /\ dialog'.asks = dialog.asks /\ (dialog'.open => dialog.open)
  OBVIOUS
<1>3. Heard
  BY NothingIsHeard
<1>4. Hand
  BY <1>1, <1>2, <1>3 DEF Hand, Elsewhere
<1> QED BY <1>4 DEF Picks

LEMMA IdlingIsByHand ==
  ASSUME Base, TickData \/ Cancel \/ OpenPrefs \/ ClosePrefs \/ TrayClick
  PROVE  Hand /\ Picks
<1>1. dialog = [open |-> dialog.open, asks |-> dialog.asks, data |-> dialog.data]
      /\ dialog.open \in BOOLEAN /\ dialog.data \in BOOLEAN
  BY DEF Base, Interface
<1>2. CASE TickData
  <2>1. /\ ~busy /\ dialog.open /\ dialog' = [dialog EXCEPT !.data = TRUE]
        /\ UNCHANGED <<inbox, table, guesses, drawer, Rest, busy>>
    BY <1>2 DEF TickData
  <2>2. dialog' = [open |-> dialog.open, asks |-> dialog.asks, data |-> TRUE]
    BY <1>1, <2>1
  <2> QED BY <1>1, <2>1, <2>2, IdleIsByHand DEF table, Rest, engine, window, Elsewhere
<1>3. CASE Cancel
  <2>1. /\ ~busy /\ dialog.open /\ dialog' = [dialog EXCEPT !.open = FALSE]
        /\ UNCHANGED <<inbox, table, guesses, drawer, Rest, busy>>
    BY <1>3 DEF Cancel
  <2>2. dialog' = [open |-> FALSE, asks |-> dialog.asks, data |-> dialog.data]
    BY <1>1, <2>1
  <2> QED BY <1>1, <2>1, <2>2, IdleIsByHand DEF table, Rest, engine, window, Elsewhere
<1>4. CASE OpenPrefs \/ ClosePrefs \/ TrayClick
  <2>1. /\ ~busy
        /\ UNCHANGED <<inbox, table, guesses, drawer, dialog, busy, world, engine, drawn, applied>>
    BY <1>4 DEF OpenPrefs, ClosePrefs, TrayClick, Free
  <2> QED BY <1>1, <2>1, IdleIsByHand DEF table, engine, Elsewhere
<1> QED BY <1>2, <1>3, <1>4

LEMMA AcceptIsByHand ==
  ASSUME Base, Accept
  PROVE  Hand /\ Picks
<1> DEFINE targets == DOMAIN dialog.asks
           f  == [i \in targets |-> Command("remove", i, {}, dialog.data, AskedAs(i))]
           cs == {Command("remove", i, {}, dialog.data, AskedAs(i)) : i \in targets}
           struck == {r.hash : r \in {q \in Range(latest.rows) : q.id \in targets}}
<1>1. /\ dialog.open /\ ~busy /\ busy' = TRUE
      /\ assigned' = assigned \ struck
      /\ Send(cs)
      /\ Expect(targets, "Removed")
      /\ dialog' = [dialog EXCEPT !.open = FALSE]
      /\ UNCHANGED <<selected, view, order, drawer>>
  BY DEF Accept
<1>2. UNCHANGED <<world, session, generation, latest, folder, drawn, applied>>
  BY DEF Accept, Rest, engine, window
<1>3. /\ dialog \in [open : BOOLEAN, asks : {dialog.asks}, data : BOOLEAN]
      /\ dialog.asks \in [targets -> Nat] /\ targets \subseteq Nat /\ IsFiniteSet(targets)
      /\ "removes" \in world
  BY <1>1 DEF Base, Interface, NoRemoval
<1>4. DOMAIN f = targets /\ cs = {f[i] : i \in DOMAIN f}
  OBVIOUS
<1>5. \A c \in cs : /\ c \in Commands /\ c.id \in targets /\ c.about = dialog.asks[c.id] /\ c.do = "remove"
  <2> SUFFICES ASSUME NEW i \in targets
               PROVE  LET c == Command("remove", i, {}, dialog.data, AskedAs(i))
                      IN  /\ c \in Commands /\ c.id \in targets /\ c.about = dialog.asks[c.id] /\ c.do = "remove"
    OBVIOUS
  <2>1. i \in Nat /\ AskedAs(i) = dialog.asks[i] /\ dialog.asks[i] \in Nat
    BY <1>3 DEF AskedAs
  <2> QED BY <1>3, <2>1 DEF Command, Commands, Actions
<1>6. \A i \in targets : \E c \in cs : c.id = i /\ c.do = "remove"
  <2> SUFFICES ASSUME NEW i \in targets
               PROVE  \E c \in cs : c.id = i /\ c.do = "remove"
    OBVIOUS
  <2>1. Command("remove", i, {}, dialog.data, AskedAs(i)) \in cs
    OBVIOUS
  <2> QED BY <2>1 DEF Command
<1> HIDE DEF f, cs
<1>7. IsFiniteSet(cs)
  BY <1>3, <1>4, ImageIsFinite
<1>8. Heard /\ \A c \in cs : \E k \in DOMAIN inbox' : inbox'[k] = c
  BY <1>1, <1>3, <1>5, <1>7, SendIsHeard DEF Named
<1>9. assigned' = assigned \/ Leaving'
  <2>1. CASE \A k \in DOMAIN latest.rows : latest.rows[k].id \notin targets
    <3>1. struck = {}
      BY <2>1 DEF Range
    <3> QED BY <1>1, <3>1
  <2>2. CASE \E k \in DOMAIN latest.rows : latest.rows[k].id \in targets
    <3>1. PICK k \in DOMAIN latest.rows : latest.rows[k].id \in targets
      BY <2>2
    <3>2. latest.rows[k].id \in DOMAIN session'
      BY <1>2 DEF Base, Engine, Agrees
    <3>3. PICK c \in cs : c.id = latest.rows[k].id /\ c.do = "remove"
      BY <1>6, <3>1
    <3>4. PICK j \in DOMAIN inbox' : inbox'[j] = c
      BY <1>8
    <3> QED BY <3>2, <3>3, <3>4 DEF Leaving
  <2> QED BY <2>1, <2>2
<1>10. guesses' \in [DOMAIN guesses' -> Guess]
  BY <1>1, ExpectedIsAGuess
<1>11. /\ drawer' \in [open : BOOLEAN, shown : {drawer.shown},
                       lines : SUBSET [hash : Hashes, ticks : SUBSET Marks], guess : BOOLEAN]
       /\ IsFiniteSet(drawer'.lines) /\ \A l \in drawer'.lines : \E m \in drawer.lines : l.hash = m.hash
       /\ view' \in Views
  BY <1>1 DEF Base, Interface
<1>12. /\ dialog' \in [open : BOOLEAN, asks : {dialog'.asks}, data : BOOLEAN]
       /\ dialog'.asks = dialog.asks /\ ~dialog'.open
  BY <1>1, <1>3
<1>13. Hand
  BY <1>1, <1>2, <1>8, <1>9, <1>10, <1>11, <1>12 DEF Hand
<1> QED BY <1>1, <1>13 DEF Picks

LEMMA CloseDrawerIsByHand ==
  ASSUME Base, CloseDrawer
  PROVE  Hand /\ Picks
<1>1. /\ ~busy /\ drawer' = [drawer EXCEPT !.open = FALSE]
      /\ UNCHANGED <<selected, assigned, view, order, guesses, dialog, busy>>
      /\ inbox' = Append(inbox, Watch({}, FALSE))
  BY DEF CloseDrawer, Free, table
<1>2. UNCHANGED <<world, session, generation, latest, folder, drawn, applied>>
  BY DEF CloseDrawer, Rest, engine, window
<1>3. /\ drawer' \in [open : BOOLEAN, shown : {drawer.shown},
                      lines : SUBSET [hash : Hashes, ticks : SUBSET Marks], guess : BOOLEAN]
      /\ IsFiniteSet(drawer'.lines) /\ \A l \in drawer'.lines : \E m \in drawer.lines : l.hash = m.hash
      /\ view' \in Views /\ guesses' \in [DOMAIN guesses' -> Guess]
      /\ dialog' \in [open : BOOLEAN, asks : {dialog'.asks}, data : BOOLEAN]
  BY <1>1 DEF Base, Interface
<1>4. Heard
  BY <1>1, WatchIsHeard
<1>5. Hand
  BY <1>1, <1>2, <1>3, <1>4 DEF Hand
<1> QED BY <1>1, <1>5 DEF Picks

LEMMA ToggleFilesIsByHand ==
  ASSUME Base, NEW files \in SUBSET Files, ToggleFiles(files)
  PROVE  Hand /\ Picks
<1> DEFINE on == ~\A l \in drawer.lines : files \subseteq l.ticks
           ticks(l) == IF on THEN l.ticks \cup files ELSE l.ticks \ files
           g  == [l \in drawer.lines |-> [l EXCEPT !.ticks = ticks(l)]]
           lines == {[l EXCEPT !.ticks = IF on THEN @ \cup files ELSE @ \ files] : l \in drawer.lines}
           f  == [p \in drawer.shown \X drawer.lines |-> Command("want", p[1], files, on, p[2].hash)]
           cs == {Command("want", i, files, on, l.hash) : i \in drawer.shown, l \in drawer.lines}
<1>1. /\ ~busy
      /\ drawer' = [drawer EXCEPT !.guess = TRUE, !.lines = lines]
      /\ Send(cs)
      /\ UNCHANGED <<selected, assigned, view, order, guesses, dialog, busy>>
  BY DEF ToggleFiles, Want, Free, table
<1>2. UNCHANGED <<world, session, generation, latest, folder, drawn, applied>>
  BY DEF ToggleFiles, Rest, engine, window
<1>3. /\ drawer \in [open : BOOLEAN, shown : SUBSET Nat,
                     lines : SUBSET [hash : Hashes, ticks : SUBSET Marks], guess : BOOLEAN]
      /\ IsFiniteSet(drawer.shown) /\ IsFiniteSet(drawer.lines)
  BY DEF Base, Interface
<1>4. on \in BOOLEAN /\ files \in SUBSET Marks
  BY DEF Marks
<1> HIDE DEF on
<1>5. \A l \in drawer.lines : l \in [hash : Hashes, ticks : SUBSET Marks] /\ l.hash \in Nat /\ ticks(l) \in SUBSET Marks
  BY <1>3, <1>4, HashesAreNumbers
<1>6. \A l \in drawer.lines :
        /\ [l EXCEPT !.ticks = ticks(l)] \in [hash : Hashes, ticks : SUBSET Marks]
        /\ [l EXCEPT !.ticks = ticks(l)].hash = l.hash
  BY <1>5
<1>7. DOMAIN g = drawer.lines /\ lines = {g[l] : l \in DOMAIN g}
  OBVIOUS
<1>8. /\ lines \in SUBSET [hash : Hashes, ticks : SUBSET Marks]
      /\ \A l \in lines : \E m \in drawer.lines : l.hash = m.hash
  <2> SUFFICES ASSUME NEW l \in lines
               PROVE  l \in [hash : Hashes, ticks : SUBSET Marks] /\ \E m \in drawer.lines : l.hash = m.hash
    OBVIOUS
  <2>1. PICK m \in drawer.lines : l = [m EXCEPT !.ticks = ticks(m)]
    BY <1>7
  <2> HIDE DEF lines, g, ticks
  <2> QED BY <1>6, <2>1
<1>9. DOMAIN f = drawer.shown \X drawer.lines /\ cs = {f[p] : p \in DOMAIN f}
  <2>1. DOMAIN f = drawer.shown \X drawer.lines
    OBVIOUS
  <2>2. ASSUME NEW p \in drawer.shown \X drawer.lines
        PROVE  f[p] \in cs
    <3>1. p[1] \in drawer.shown /\ p[2] \in drawer.lines /\ f[p] = Command("want", p[1], files, on, p[2].hash)
      OBVIOUS
    <3> QED BY <3>1
  <2>3. ASSUME NEW i \in drawer.shown, NEW l \in drawer.lines
        PROVE  \E p \in drawer.shown \X drawer.lines : Command("want", i, files, on, l.hash) = f[p]
    <3>1. <<i, l>> \in drawer.shown \X drawer.lines /\ <<i, l>>[1] = i /\ <<i, l>>[2] = l
      OBVIOUS
    <3>2. f[<<i, l>>] = Command("want", i, files, on, l.hash)
      BY <3>1
    <3> QED BY <3>1, <3>2
  <2> HIDE DEF f
  <2> QED BY <2>1, <2>2, <2>3
<1>10. ASSUME NEW c \in cs
       PROVE  c \in Commands /\ Named(c) /\ c.do # "remove"
  <2>1. PICK i \in drawer.shown, l \in drawer.lines : c = Command("want", i, files, on, l.hash)
    OBVIOUS
  <2>2. i \in Nat /\ l.hash \in Nat
    BY <1>3, <1>5
  <2>3. c \in Commands /\ c.do = "want" /\ c.id = i /\ c.about = l.hash
    BY <1>4, <2>1, <2>2 DEF Command, Commands, Actions
  <2> QED BY <2>3 DEF Named
<1> HIDE DEF f, g, cs, lines, ticks
<1>11. IsFiniteSet(cs) /\ IsFiniteSet(lines)
  BY <1>3, <1>7, <1>9, ImageIsFinite, FS_Product
<1>12. Heard
  BY <1>1, <1>10, <1>11, SendIsHeard
<1>13. /\ drawer' \in [open : BOOLEAN, shown : {drawer.shown},
                       lines : SUBSET [hash : Hashes, ticks : SUBSET Marks], guess : BOOLEAN]
       /\ drawer'.lines = lines
  BY <1>1, <1>3, <1>8
<1>14. /\ view' \in Views /\ guesses' \in [DOMAIN guesses' -> Guess]
       /\ dialog' \in [open : BOOLEAN, asks : {dialog'.asks}, data : BOOLEAN]
  BY <1>1 DEF Base, Interface
<1>15. Hand
  BY <1>1, <1>2, <1>8, <1>11, <1>12, <1>13, <1>14 DEF Hand
<1> QED BY <1>1, <1>15 DEF Picks

LEMMA HandKeepsBase ==
  ASSUME Base, Hand
  PROVE  Base'
<1>1. UNCHANGED <<world, session, generation, latest, folder, drawn>>
  BY DEF Hand
<1>2. Engine' /\ Known'
  BY <1>1 DEF Base, Engine, Known
<1>3. NoRemoval'
  <2>1. "removes" \notin world => ~dialog'.open
    BY DEF Hand, Base, NoRemoval
  <2>2. ASSUME NEW k \in DOMAIN inbox', "removes" \notin world
        PROVE  inbox'[k].do # "remove"
    BY <2>2 DEF Hand, Heard, Base, NoRemoval
  <2> QED BY <1>1, <2>1, <2>2 DEF NoRemoval
<1>4. selected' \subseteq Nat /\ IsFiniteSet(selected')
  <2>1. selected' \in SUBSET Pointed
    BY DEF Hand, Pointed
  <2> QED BY <2>1, PointedIsFinite
<1>5. /\ order' \in [at : {order'.at}, generation : 0 .. latest.generation, rows : Nat]
      /\ order'.at \in Seq(1 .. order'.rows)
  <2>1. CASE order' = order
    BY <2>1 DEF Base, Interface
  <2>2. CASE order' = Rebuilt(view', latest)
    <3>1. view' \in Views /\ IsList(latest.rows) /\ latest.generation \in Nat
      BY DEF Hand, Base, Engine
    <3>2. Rebuilt(view', latest).at \in Seq(1 .. Len(latest.rows)) /\ Len(latest.rows) \in Nat
      BY <3>1, RebuiltIsAll
    <3>3. order' = [at |-> Rebuilt(view', latest).at, generation |-> latest.generation,
                    rows |-> Len(latest.rows)]
      BY <2>2 DEF Rebuilt
    <3> QED BY <3>1, <3>2, <3>3
  <2> QED BY <2>1, <2>2 DEF Hand
<1>6. /\ dialog' \in [open : BOOLEAN, asks : {dialog'.asks}, data : BOOLEAN]
      /\ dialog'.asks \in [DOMAIN dialog'.asks -> Nat]
      /\ DOMAIN dialog'.asks \subseteq Nat /\ IsFiniteSet(DOMAIN dialog'.asks)
  <2>1. CASE dialog'.asks = dialog.asks
    BY <2>1 DEF Hand, Base, Interface
  <2>2. CASE /\ IsFiniteSet(DOMAIN dialog'.asks) /\ DOMAIN dialog'.asks \subseteq Pointed
             /\ dialog'.asks = [i \in DOMAIN dialog'.asks |-> SeenAs(i)]
    <3>1. \A i : SeenAs(i) \in Nat
      BY SeenAsIsARow
    <3>2. DOMAIN dialog'.asks \subseteq Nat
      BY <2>2, PointedIsFinite
    <3>3. dialog'.asks \in [DOMAIN dialog'.asks -> Nat]
      BY <2>2, <3>1
    <3>4. dialog' \in [open : BOOLEAN, asks : {dialog'.asks}, data : BOOLEAN]
      BY DEF Hand
    <3> QED BY <2>2, <3>2, <3>3, <3>4
  <2> QED BY <2>1, <2>2 DEF Hand
<1>7. /\ drawer' \in [open : BOOLEAN, shown : SUBSET Nat,
                      lines : SUBSET [hash : Hashes, ticks : SUBSET Marks], guess : BOOLEAN]
      /\ IsFiniteSet(drawer'.shown) /\ IsFiniteSet(drawer'.lines)
  BY DEF Hand, Base, Interface
<1>8. inbox' \in Seq(Commands) /\ view' \in Views /\ guesses' \in [DOMAIN guesses' -> Guess]
  BY DEF Hand, Heard
<1>9. drawn' \in Seq(Line)
  BY <1>1 DEF Base, Interface
<1>10. Interface'
  BY <1>1, <1>4, <1>5, <1>6, <1>7, <1>8, <1>9 DEF Interface
<1> QED BY <1>2, <1>3, <1>10 DEF Base

(* Every step is one of the three, or leaves all as it is.                 *)
LEMMA EveryStep ==
  ASSUME Base, [Next]_vars
  PROVE  EngineMoves \/ Draws \/ (Hand /\ Picks) \/ UNCHANGED vars
<1>1. CASE Tick
  BY <1>1, TickMoves
<1>2. CASE Take
  BY <1>2, TakeMoves
<1>3. CASE \E i \in DOMAIN session : Finish(i)
  BY <1>3, FinishMoves
<1>4. CASE Redraw \/ Poll
  BY <1>4, RedrawDraws
<1>5. CASE \E k \in DOMAIN drawn : AtRow(k)
  BY <1>5, ClickIsByHand, OpenMenuIsByHand, ToggleIsByHand DEF AtRow
<1>6. CASE SelectAll
  BY <1>6, SelectAllIsByHand
<1>7. CASE \E step \in {"Up", "Down", "Home", "End"}, extend \in BOOLEAN : Arrow(step, extend)
  BY <1>7, ArrowIsByHand
<1>8. CASE \E col \in {"name", "state"} : SortBy(col)
  BY <1>8, SortByIsByHand
<1>9. CASE \E names \in {Hashes} \cup {{h} : h \in Hashes} : Type(names)
  <2>1. PICK names \in {Hashes} \cup {{h} : h \in Hashes} : Type(names)
    BY <1>9
  <2>2. names \in SUBSET Hashes
    OBVIOUS
  <2> QED BY <2>1, <2>2, TypeIsByHand
<1>10. CASE \E state \in {"all", "downloading", "paused"} : ShowState(state)
  BY <1>10, ShowStateIsByHand
<1>11. CASE \E on \in BOOLEAN : ShowShelf(on)
  BY <1>11, ShowShelfIsByHand
<1>12. CASE ShowAll
  BY <1>12, ShowAllIsByHand
<1>13. CASE ToggleSelected \/ ToggleShown
  BY <1>13, ToggleIsByHand
<1>14. CASE AskToRemove
  BY <1>14, AskIsByHand
<1>15. CASE TickData \/ Cancel \/ OpenPrefs \/ ClosePrefs \/ TrayClick
  BY <1>15, IdlingIsByHand
<1>16. CASE Accept
  BY <1>16, AcceptIsByHand
<1>17. CASE OpenDrawer
  BY <1>17, OpenDrawerIsByHand
<1>18. CASE CloseDrawer
  BY <1>18, CloseDrawerIsByHand
<1>19. CASE \E files \in {Files} \cup {{f} : f \in Files} : ToggleFiles(files)
  <2>1. PICK files \in {Files} \cup {{f} : f \in Files} : ToggleFiles(files)
    BY <1>19
  <2>2. files \in SUBSET Files
    OBVIOUS
  <2> QED BY <2>1, <2>2, ToggleFilesIsByHand
<1> QED
  BY <1>1, <1>2, <1>3, <1>4, <1>5, <1>6, <1>7, <1>8, <1>9, <1>10, <1>11, <1>12, <1>13, <1>14,
     <1>15, <1>16, <1>17, <1>18, <1>19 DEF Next

LEMMA StutteringKeepsBase ==
  ASSUME Base, UNCHANGED vars
  PROVE  Base'
<1>1. UNCHANGED <<world, session, generation, inbox, latest, folder, selected, view, order, guesses,
                  drawn, dialog, drawer>>
  BY DEF vars, engine, table
<1> QED BY <1>1 DEF Base, Engine, Known, Interface, NoRemoval

LEMMA BaseIsKept ==
  ASSUME Base, [Next]_vars
  PROVE  Base'
BY EveryStep, EngineKeepsBase, DrawingKeepsBase, HandKeepsBase, StutteringKeepsBase

LEMMA InitialSession ==
  ASSUME Init
  PROVE  /\ IsSession(session) /\ latest.rows = Rows(session) /\ latest.generation = 0 /\ latest.details = {}
         /\ IsList(latest.rows) /\ Agrees(latest.rows, session) /\ IdsOf(latest.rows) = DOMAIN session
<1>1. Len(Library) \in Nat /\ DOMAIN Library = 1 .. Len(Library)
  BY LibraryAssumption
<1>2. session = [i \in 0 .. (Len(Library) - 1) |->
                  [hash |-> Library[i + 1], paused |-> FALSE, complete |-> FALSE, ticks |-> Files]]
  BY DEF Init
<1>3. IsFiniteSet(0 .. (Len(Library) - 1))
  BY <1>1, FS_Interval
<1>4. \A i \in 0 .. (Len(Library) - 1) : i + 1 \in DOMAIN Library /\ Library[i + 1] \in Hashes
  BY <1>1 DEF Hashes
<1>5. IsSession(session)
  BY <1>1, <1>2, <1>3, <1>4 DEF IsSession, Entry, Marks
<1>6. latest.rows = Rows(session) /\ latest.generation = 0 /\ latest.details = {}
  BY DEF Init, Snapshot, Details
<1> QED BY <1>5, <1>6, RowsAreAList

LEMMA InitialRows ==
  ASSUME Init
  PROVE  /\ view \in Views /\ order.at = Rebuilt(view, latest).at
         /\ order = [at |-> order.at, generation |-> latest.generation, rows |-> Len(latest.rows)]
         /\ order.at \in Seq(1 .. Len(latest.rows)) /\ Len(latest.rows) \in Nat
         /\ drawn = Overlaid(latest, order.at, guesses)
         /\ drawn \in Seq(Line)
         /\ \A k \in DOMAIN drawn : \E m \in DOMAIN latest.rows :
              drawn[k].id = latest.rows[m].id /\ drawn[k].hash = latest.rows[m].hash
         /\ DOMAIN guesses = {}
<1>1. view \in Views
  BY DEF Init, Views
<1>2. order = Rebuilt(view, latest) /\ guesses = <<>> /\ drawn = Overlaid(latest, order.at, guesses)
  BY DEF Init
<1>3. IsList(latest.rows)
  BY InitialSession
<1>4. Rebuilt(view, latest).at \in Seq(1 .. Len(latest.rows)) /\ Len(latest.rows) \in Nat
  BY <1>1, <1>3, RebuiltIsAll
<1>5. order = [at |-> order.at, generation |-> latest.generation, rows |-> Len(latest.rows)]
  BY <1>2 DEF Rebuilt
<1>6. DrawnFrom(drawn, latest.rows, order.at, guesses)
  BY <1>2, <1>3, <1>4, OverlaidIsTheOrder
<1>7. \A k \in DOMAIN latest.rows : latest.rows[k] \in Line
  BY <1>3 DEF IsList
<1>8. \A m \in DOMAIN order.at : order.at[m] \in DOMAIN latest.rows
  BY <1>2, <1>3, <1>4 DEF IsList
<1>9. ASSUME NEW k \in DOMAIN drawn
      PROVE  \E m \in DOMAIN latest.rows : drawn[k].id = latest.rows[m].id /\ drawn[k].hash = latest.rows[m].hash
  <2>1. PICK n \in DOMAIN order.at : drawn[k] = Guessed(latest.rows[order.at[n]], guesses)
    BY <1>6 DEF DrawnFrom
  <2>2. order.at[n] \in DOMAIN latest.rows /\ latest.rows[order.at[n]] \in Line
    BY <1>7, <1>8
  <2> QED BY <2>1, <2>2, GuessedIsTheRow
<1>10. DOMAIN guesses = {}
  BY <1>2
<1> QED BY <1>1, <1>2, <1>4, <1>5, <1>6, <1>9, <1>10 DEF DrawnFrom

LEMMA InitialBase ==
  ASSUME Init
  PROVE  Base
<1>1. /\ world \in Worlds /\ generation = 0
      /\ folder = (IF "drops" \in world THEN Strays ELSE {})
      /\ inbox = <<>> /\ selected = {} /\ guesses = <<>>
      /\ dialog = [open |-> FALSE, asks |-> <<>>, data |-> FALSE]
      /\ drawer = [open |-> FALSE, shown |-> {}, lines |-> {}, guess |-> FALSE]
  BY DEF Init
<1>2. Engine
  <2>1. SameTorrents(latest.rows, Rows(session))
    BY InitialSession DEF SameTorrents
  <2>2. latest.generation \in 0 .. generation /\ generation \in Nat
    BY <1>1, InitialSession
  <2>3. folder \subseteq Hashes
    BY <1>1 DEF Hashes
  <2> QED BY <1>1, <2>1, <2>2, <2>3, InitialSession DEF Engine
<1>3. Known /\ NoRemoval
  BY <1>1, InitialSession DEF Known, NoRemoval
<1>4. Interface
  <2>1. IsFiniteSet({})
    BY FS_EmptySet
  <2>2. DOMAIN <<>> = {} /\ inbox \in Seq(Commands)
    BY <1>1
  <2>3. guesses \in [DOMAIN guesses -> Guess] /\ dialog.asks \in [DOMAIN dialog.asks -> Nat]
    BY <1>1
  <2>4. /\ order \in [at : {order.at}, generation : 0 .. latest.generation, rows : Nat]
        /\ order.at \in Seq(1 .. order.rows)
    <3>1. 0 \in 0 .. latest.generation /\ latest.generation = 0
      BY InitialSession
    <3> QED BY <3>1, InitialRows
  <2> QED BY <1>1, <2>1, <2>2, <2>3, <2>4, InitialRows DEF Interface
<1> QED BY <1>2, <1>3, <1>4 DEF Base

----------------------------------------------------------------------------
(* What is drawn is what was asked for.                                    *)

LEMMA RebuiltIsPlaces == \A v, snap : Rebuilt(v, snap).at = Places(assigned, v, snap.rows)
BY DEF Rebuilt, Places, Shows, ShowsOn

LEMMA EngineKeepsFresh ==
  ASSUME Base, Fresh, EngineMoves
  PROVE  Fresh'
<1>1. /\ UNCHANGED <<selected, assigned, view, order, drawn, busy>>
      /\ latest.generation \in 0 .. generation /\ generation \in Nat
      /\ order.generation \in 0 .. latest.generation
      /\ generation' \in Nat /\ generation <= generation'
      /\ IsSession(session) /\ IsSession(session')
  BY DEF EngineMoves, table, Base, Engine, Interface
<1>2. CASE /\ UNCHANGED <<latest, applied, guesses, drawer>>
           /\ \A i \in DOMAIN session : i \in DOMAIN session' /\ session'[i].hash = session[i].hash
           /\ inbox' = inbox
  <2>1. Leaving => Leaving'
    BY <1>2 DEF Leaving
  <2>2. Cached'
    BY <1>1, <1>2, <2>1 DEF Fresh, Cached, IsVolatile
  <2>3. UpToDate' /\ GuessIsShown'
    BY <1>1, <1>2 DEF Fresh, UpToDate, GuessIsShown, IsVolatile
  <2> QED BY <2>2, <2>3 DEF Fresh
<1>3. CASE \E w : Publish(session', generation', w)
  <2> PICK w : Publish(session', generation', w)
    BY <1>3
  <2>1. /\ latest'.rows = Rows(session') /\ latest'.generation = generation'
        /\ DOMAIN guesses' = DOMAIN guesses /\ \A i \in DOMAIN guesses : guesses'[i].newer
        /\ applied' = FALSE
    BY <1>1, Published
  <2>2. UpToDate'
    BY <2>1 DEF UpToDate
  <2>3. GuessIsShown'
    BY <2>1 DEF GuessIsShown
  <2>4. ASSUME order'.generation = latest'.generation, ~IsVolatile', view'.shown = "all",
               view'.shelf => ~Leaving'
        PROVE  order'.at = Places(assigned', view', latest'.rows)
    <3>1. generation' = generation /\ order.generation = latest.generation /\ latest.generation = generation
      BY <1>1, <2>1, <2>4
    <3>2. /\ DOMAIN session' = DOMAIN session
          /\ \A i \in DOMAIN session : session'[i].hash = session[i].hash
          /\ Leaving => Leaving'
      BY <3>1 DEF EngineMoves
    <3>3. SameTorrents(latest.rows, Rows(session)) /\ SameTorrents(Rows(session), Rows(session'))
      BY <1>1, <3>1, <3>2, RowsAreTheSame DEF Base, Engine
    <3>4. SameTorrents(latest.rows, latest'.rows)
      BY <2>1, <3>3 DEF SameTorrents
    <3>5. view.col = "name" /\ view.shown = "all" /\ (view.shelf => ~Leaving)
      BY <1>1, <2>4, <3>2 DEF IsVolatile
    <3>6. order.at = Places(assigned, view, latest.rows)
      BY <3>1, <3>5 DEF Fresh, Cached, IsVolatile
    <3>7. Places(assigned, view, latest.rows) = Places(assigned, view, latest'.rows)
      BY <3>4, <3>5, PlacesAreTheSame
    <3> QED BY <1>1, <3>6, <3>7
  <2>5. Cached'
    BY <2>4 DEF Cached
  <2> QED BY <2>2, <2>3, <2>5 DEF Fresh
<1> QED BY <1>2, <1>3 DEF EngineMoves

LEMMA DrawingKeepsFresh ==
  ASSUME Base, Fresh, Draws
  PROVE  Fresh'
<1>1. UNCHANGED <<session, inbox, latest, view, assigned>> /\ busy' = FALSE
  BY DEF Draws
<1>2. CASE UNCHANGED <<selected, order, guesses, drawn, drawer, applied, busy>>
  BY <1>1, <1>2 DEF Fresh, Cached, UpToDate, GuessIsShown, IsVolatile, Leaving
<1>3. CASE Refresh(latest)
  <2>1. /\ order' = order \/ order'.at = Rebuilt(view, latest).at
        /\ IsVolatile => order'.at = Rebuilt(view, latest).at
        /\ order'.generation = latest.generation /\ order'.rows = Len(latest.rows)
    BY <1>3, OrderIsRefreshed
  <2>2. Rebuilt(view, latest).at = Places(assigned, view, latest.rows)
    BY RebuiltIsPlaces
  <2>3. Cached'
    BY <1>1, <2>1, <2>2 DEF Fresh, Cached, IsVolatile, Leaving
  <2>4. /\ drawn' = Overlaid(latest, order'.at, guesses')
        /\ \A k \in DOMAIN drawn' : \E m \in DOMAIN order'.at :
             /\ order'.at[m] \in DOMAIN latest.rows
             /\ drawn'[k] = Guessed(latest.rows[order'.at[m]], guesses')
             /\ ~Gone(latest.rows[order'.at[m]], guesses')
             /\ drawn'[k].id = latest.rows[order'.at[m]].id /\ drawn'[k].hash = latest.rows[order'.at[m]].hash
        /\ \A i \in DOMAIN guesses' : ~guesses'[i].newer
    BY <1>3, RowsAreRefreshed
  <2>5. UpToDate'
    BY <1>1, <2>1, <2>2, <2>4 DEF UpToDate, IsVolatile
  <2>6. ASSUME NEW k \in DOMAIN drawn', drawn'[k].id \in DOMAIN guesses'
        PROVE  /\ guesses'[drawn'[k].id].action = "Paused" => drawn'[k].state = "paused"
               /\ guesses'[drawn'[k].id].action = "Started" => drawn'[k].state # "paused"
               /\ guesses'[drawn'[k].id].action # "Removed"
    <3>1. PICK m \in DOMAIN order'.at :
             /\ order'.at[m] \in DOMAIN latest.rows
             /\ drawn'[k] = Guessed(latest.rows[order'.at[m]], guesses')
             /\ ~Gone(latest.rows[order'.at[m]], guesses')
             /\ drawn'[k].id = latest.rows[order'.at[m]].id
      BY <2>4
    <3> DEFINE r == latest.rows[order'.at[m]]
               g == guesses'
               i == drawn'[k].id
    <3>2. r \in Line
      BY <3>1 DEF Base, Engine, IsList
    <3>3. r.id = i /\ i \in DOMAIN g /\ ~Gone(r, g) /\ drawn'[k] = Guessed(r, g)
      BY <2>6, <3>1
    <3> HIDE DEF r, g, i
    <3>4. g[i].action # "Removed"
      BY <3>3 DEF Gone
    <3>5. g[i].action = "Paused" => drawn'[k].state = "paused"
      BY <3>2, <3>3 DEF Guessed, Line
    <3>6. g[i].action = "Started" => drawn'[k].state # "paused"
      BY <3>2, <3>3 DEF Guessed, Line
    <3> QED BY <3>4, <3>5, <3>6 DEF g, i
  <2>7. GuessIsShown'
    BY <2>6 DEF GuessIsShown, Range
  <2> QED BY <2>3, <2>5, <2>7 DEF Fresh
<1> QED BY <1>2, <1>3 DEF Draws

LEMMA HandKeepsFresh ==
  ASSUME Base, Fresh, Hand
  PROVE  Fresh'
<1>1. UNCHANGED <<session, latest, drawn, applied>> /\ ~busy /\ (busy' \/ UNCHANGED <<busy, selected, order, view, assigned, guesses>>)
  BY DEF Hand
<1>2. UpToDate' /\ GuessIsShown'
  BY <1>1 DEF Fresh, UpToDate, GuessIsShown, IsVolatile
<1>3. Leaving => Leaving'
  BY <1>1 DEF Leaving, Hand, Heard
<1>4. CASE UNCHANGED <<view, order>> /\ assigned' = assigned
  <2>1. Cached'
    BY <1>1, <1>3, <1>4 DEF Fresh, Cached, IsVolatile
  <2> QED BY <1>2, <2>1 DEF Fresh
<1>5. CASE UNCHANGED <<view, order>> /\ Leaving'
  <2>1. ASSUME order.generation = latest.generation, ~IsVolatile, view.shown = "all", ~view.shelf
        PROVE  order.at = Places(assigned', view, latest.rows)
    <3>1. order.at = Places(assigned, view, latest.rows)
      BY <2>1 DEF Fresh, Cached
    <3>2. SameTorrents(latest.rows, latest.rows)
      BY DEF SameTorrents
    <3>3. Places(assigned, view, latest.rows) = Places(assigned', view, latest.rows)
      BY <2>1, <3>2, PlacesAreTheSame DEF IsVolatile
    <3> QED BY <3>1, <3>3
  <2>2. Cached'
    BY <1>1, <1>5, <2>1 DEF Cached, IsVolatile
  <2> QED BY <1>2, <2>2 DEF Fresh
<1>6. CASE order' = Rebuilt(view', latest) /\ assigned' = assigned
  <2>1. order'.at = Places(assigned, view', latest.rows)
    BY <1>6, RebuiltIsPlaces
  <2>2. Cached'
    BY <1>1, <1>6, <2>1 DEF Cached
  <2> QED BY <1>2, <2>2 DEF Fresh
<1> QED BY <1>2, <1>4, <1>5, <1>6 DEF Hand, Fresh

LEMMA StutteringKeepsFresh ==
  ASSUME Fresh, UNCHANGED vars
  PROVE  Fresh'
<1>1. UNCHANGED <<session, inbox, latest, selected, assigned, view, order, guesses, drawn, applied, busy>>
  BY DEF vars, engine, table, window
<1> QED BY <1>1 DEF Fresh, Cached, UpToDate, GuessIsShown, IsVolatile, Leaving

LEMMA InitialFresh ==
  ASSUME Init
  PROVE  Fresh
<1>1. order.at = Places(assigned, view, latest.rows)
  BY InitialRows, RebuiltIsPlaces
<1>2. /\ order.generation = latest.generation /\ order.rows = Len(latest.rows)
      /\ drawn = Overlaid(latest, order.at, guesses)
      /\ DOMAIN guesses = {}
  BY InitialRows
<1> QED BY <1>1, <1>2 DEF Fresh, Cached, UpToDate, GuessIsShown

LEMMA FreshIsDrawnAsAsked ==
  ASSUME Base, Fresh
  PROVE  DrawnAsAsked
<1>1. GuessIsShown
  BY DEF Fresh
<1>2. ASSUME ~busy /\ applied, IsVolatile \/ view.shown = "all",
             view.shelf => \A k \in DOMAIN inbox : inbox[k].do # "remove"
      PROVE  drawn = Overlaid(latest, Rebuilt(view, latest).at, Settle)
  <2>1. /\ order.generation = latest.generation
        /\ IsVolatile => order.at = Places(assigned, view, latest.rows)
        /\ drawn = Overlaid(latest, order.at, guesses)
        /\ \A i \in DOMAIN guesses : ~guesses[i].newer
    BY <1>2 DEF Fresh, UpToDate
  <2>2. order.at = Places(assigned, view, latest.rows)
    BY <1>2, <2>1 DEF Fresh, Cached, Leaving
  <2>3. Settle = guesses
    BY <2>1 DEF Settle, Base, Interface
  <2>4. order.at = Rebuilt(view, latest).at
    BY <2>2, RebuiltIsPlaces
  <2> QED BY <2>1, <2>3, <2>4
<1> QED BY <1>1, <1>2 DEF DrawnAsAsked

(* The cached order never tells: what is drawn is every torrent of the     *)
(* newest snapshot that nothing hides, once, in the order asked for, under *)
(* the guesses of the moment.                                              *)
THEOREM WhatIsDrawnWasAskedFor == Spec => []DrawnAsAsked
<1>1. Init => Base /\ Fresh
  BY InitialBase, InitialFresh
<1>2. Base /\ Fresh /\ [Next]_vars => (Base /\ Fresh)'
  BY BaseIsKept, EveryStep, EngineKeepsFresh, DrawingKeepsFresh, HandKeepsFresh, StutteringKeepsFresh
<1>3. Base /\ Fresh => DrawnAsAsked
  BY FreshIsDrawnAsAsked
<1> QED BY <1>1, <1>2, <1>3, PTL DEF Spec

----------------------------------------------------------------------------
(* What is sent reaches what was seen.                                     *)

LEMMA RowsAreSeen ==
  ASSUME Base, NEW k \in DOMAIN latest.rows
  PROVE  Seen(latest.rows[k].id, latest.rows[k].hash) /\ Safe(latest.rows[k].id)
<1>1. /\ latest.rows[k].id \in DOMAIN session
      /\ session[latest.rows[k].id].hash = latest.rows[k].hash
  BY DEF Base, Engine, Agrees
<1>2. latest.rows[k].id \in IdsOf(latest.rows)
  BY DEF IdsOf
<1> QED BY <1>1, <1>2 DEF Seen, Safe, SeenIn, SafeIn

(* No other torrent takes an id that is remembered.                        *)
LEMMA IdsKeepTheirNames ==
  ASSUME NoIdReturns, Base, EngineMoves, NEW i, Safe(i)
  PROVE  /\ i \in DOMAIN session' => i \in DOMAIN session /\ session'[i].hash = session[i].hash
         /\ SafeIn(session', IdsOf(latest'.rows), world', i)
<1>1. world \in Worlds /\ world' = world /\ IsSession(session')
  BY DEF Base, Engine, EngineMoves
<1>2. ~({"removes", "drops"} \subseteq world)
  BY <1>1 DEF NoIdReturns
<1>3. /\ i \in DOMAIN session => i \in IdsOf(latest.rows)
      /\ "removes" \notin world => i \in DOMAIN session
  BY DEF Safe, SafeIn
<1>4. ASSUME i \in DOMAIN session'
      PROVE  i \in DOMAIN session /\ session'[i].hash = session[i].hash
  <2>1. IF i \in DOMAIN session
        THEN session'[i].hash = session[i].hash \/ {"removes", "drops"} \subseteq world
        ELSE "drops" \in world
    BY <1>4 DEF EngineMoves
  <2>2. i \in DOMAIN session
    BY <1>2, <1>3, <2>1
  <2> QED BY <1>2, <2>1, <2>2
<1>5. "removes" \notin world' => i \in DOMAIN session'
  BY <1>1, <1>3 DEF EngineMoves
<1>6. i \in DOMAIN session' => i \in IdsOf(latest'.rows)
  <2>1. CASE latest' = latest
    BY <1>3, <1>4, <2>1
  <2>2. CASE \E w : Publish(session', generation', w)
    <3>1. IdsOf(latest'.rows) = DOMAIN session'
      BY <1>1, <2>2, Published
    <3> QED BY <3>1
  <2> QED BY <2>1, <2>2 DEF EngineMoves
<1> QED BY <1>4, <1>5, <1>6 DEF SafeIn

LEMMA EngineKeepsMemory ==
  ASSUME NoIdReturns, Base, Memory, EngineMoves
  PROVE  Memory'
<1>1. UNCHANGED <<selected, drawn, dialog>> /\ drawer'.shown = drawer.shown /\ drawer'.lines = drawer.lines
  <2>1. UNCHANGED <<selected, drawn, dialog>> /\ IsSession(session')
    BY DEF EngineMoves, table
  <2>2. CASE drawer' = drawer
    BY <2>1, <2>2
  <2>3. CASE \E w : Publish(session', generation', w)
    BY <2>1, <2>3, Published
  <2> QED BY <2>2, <2>3 DEF EngineMoves
<1>2. \A i : Safe(i) => SafeIn(session', IdsOf(latest'.rows), world', i)
  BY IdsKeepTheirNames
<1>3. ASSUME NEW i, NEW h, Seen(i, h)
      PROVE  SeenIn(session', IdsOf(latest'.rows), world', i, h)
  <2>1. Safe(i) /\ (i \in DOMAIN session => session[i].hash = h)
    BY <1>3 DEF Seen, SeenIn, Safe
  <2> QED BY <2>1, IdsKeepTheirNames DEF SeenIn
<1>4. \A k \in DOMAIN inbox' : \E j \in DOMAIN inbox : inbox'[k] = inbox[j]
  BY DEF EngineMoves
<1>5. \A k \in DOMAIN inbox' : inbox'[k].do # "watch" =>
        SeenIn(session', IdsOf(latest'.rows), world', inbox'[k].id, inbox'[k].about)
  BY <1>3, <1>4 DEF Memory
<1>6. \A i \in selected' : SafeIn(session', IdsOf(latest'.rows), world', i)
  BY <1>1, <1>2 DEF Memory
<1>7. \A k \in DOMAIN drawn' : SeenIn(session', IdsOf(latest'.rows), world', drawn'[k].id, drawn'[k].hash)
  BY <1>1, <1>3 DEF Memory
<1>8. \A i \in DOMAIN dialog'.asks : SeenIn(session', IdsOf(latest'.rows), world', i, dialog'.asks[i])
  BY <1>1, <1>3 DEF Memory
<1>9. \A i \in drawer'.shown :
        /\ SafeIn(session', IdsOf(latest'.rows), world', i)
        /\ \A l \in drawer'.lines : SeenIn(session', IdsOf(latest'.rows), world', i, l.hash)
  BY <1>1, <1>2, <1>3 DEF Memory
<1> QED BY <1>5, <1>6, <1>7, <1>8, <1>9 DEF Memory, Safe, Seen

LEMMA DrawingKeepsMemory ==
  ASSUME Base, Memory, Draws
  PROVE  Memory'
<1>1. UNCHANGED <<world, session, latest, inbox, dialog>>
  BY DEF Draws
<1>2. CASE UNCHANGED <<selected, order, guesses, drawn, drawer, applied, busy>>
  BY <1>1, <1>2 DEF Memory, Safe, Seen
<1>3. CASE Refresh(latest)
  <2>1. selected' \subseteq selected
    BY <1>3 DEF Refresh
  <2>2. \A k \in DOMAIN drawn' : \E m \in DOMAIN latest.rows :
          drawn'[k].id = latest.rows[m].id /\ drawn'[k].hash = latest.rows[m].hash
    BY <1>3, RowsAreRefreshed
  <2>3. \A k \in DOMAIN drawn' : Seen(drawn'[k].id, drawn'[k].hash)
    BY <2>2, RowsAreSeen
  <2>4. \A i \in drawer'.shown : Safe(i) /\ \A l \in drawer'.lines : Seen(i, l.hash)
    <3>1. CASE drawer'.shown = drawer.shown /\ drawer'.lines = drawer.lines
      BY <3>1 DEF Memory
    <3>2. CASE \E d \in latest.details : drawer'.shown = {d.id} /\ \A l \in drawer'.lines : l.hash = d.hash
      <4>1. PICK d \in latest.details : drawer'.shown = {d.id} /\ \A l \in drawer'.lines : l.hash = d.hash
        BY <3>2
      <4>2. d.id \in IdsOf(latest.rows) /\ session[d.id].hash = d.hash
        BY DEF Base, Known
      <4>3. d.id \in DOMAIN session
        BY <4>2 DEF Base, Engine, Agrees, IdsOf
      <4>4. Safe(d.id) /\ Seen(d.id, d.hash)
        BY <4>2, <4>3 DEF Safe, Seen, SafeIn, SeenIn
      <4> QED BY <4>1, <4>4
    <3> QED BY <1>3, <3>1, <3>2, DrawerIsRefreshed
  <2> QED BY <1>1, <2>1, <2>3, <2>4 DEF Memory, Safe, Seen
<1> QED BY <1>2, <1>3 DEF Draws

LEMMA WhatIsNamedWasSeen ==
  ASSUME Base, Memory
  PROVE  /\ \A i \in Pointed : Seen(i, SeenAs(i))
         /\ \A c : Named(c) /\ c.do # "watch" => Seen(c.id, c.about)
<1>1. ASSUME NEW i \in Pointed
      PROVE  Seen(i, SeenAs(i))
  <2>1. Safe(i)
    <3>1. \A k \in DOMAIN drawn : Safe(drawn[k].id)
      BY DEF Memory, Seen, Safe, SeenIn
    <3> QED BY <3>1 DEF Memory, Pointed, IdsOf
  <2>2. CASE \E k \in DOMAIN drawn : drawn[k].id = i /\ SeenAs(i) = drawn[k].hash
    BY <2>2 DEF Memory
  <2>3. CASE \E k \in DOMAIN latest.rows : latest.rows[k].id = i /\ SeenAs(i) = latest.rows[k].hash
    BY <2>3, RowsAreSeen
  <2>4. CASE i \notin IdsOf(latest.rows)
    BY <2>1, <2>4 DEF Seen, Safe, SeenIn, SafeIn
  <2> QED BY <2>2, <2>3, <2>4, SeenAsIsARow
<1>2. ASSUME NEW c, Named(c), c.do # "watch"
      PROVE  Seen(c.id, c.about)
  <2>1. CASE c.id \in Pointed /\ c.about = SeenAs(c.id)
    BY <1>1, <2>1
  <2>2. CASE c.id \in DOMAIN dialog.asks /\ c.about = dialog.asks[c.id]
    BY <2>2 DEF Memory
  <2>3. CASE c.id \in drawer.shown /\ \E l \in drawer.lines : c.about = l.hash
    BY <2>3 DEF Memory
  <2> QED BY <1>2, <2>1, <2>2, <2>3 DEF Named
<1> QED BY <1>1, <1>2

LEMMA HandKeepsMemory ==
  ASSUME Base, Memory, Hand
  PROVE  Memory'
<1>1. UNCHANGED <<world, session, latest, drawn>> /\ drawer'.shown = drawer.shown
  BY DEF Hand
<1>2. \A i \in selected' : Safe(i)
  <2>1. \A k \in DOMAIN drawn : Safe(drawn[k].id)
    BY DEF Memory, Seen, Safe, SeenIn
  <2> QED BY <2>1 DEF Hand, Memory, IdsOf
<1>3. \A i \in DOMAIN dialog'.asks : Seen(i, dialog'.asks[i])
  <2>1. CASE dialog'.asks = dialog.asks
    BY <2>1 DEF Memory
  <2>2. CASE /\ DOMAIN dialog'.asks \subseteq Pointed
             /\ dialog'.asks = [i \in DOMAIN dialog'.asks |-> SeenAs(i)]
    <3>1. \A i \in DOMAIN dialog'.asks : dialog'.asks[i] = SeenAs(i)
      BY <2>2
    <3> QED BY <2>2, <3>1, WhatIsNamedWasSeen
  <2> QED BY <2>1, <2>2 DEF Hand
<1>4. \A i \in drawer'.shown : Safe(i) /\ \A l \in drawer'.lines : Seen(i, l.hash)
  BY <1>1 DEF Hand, Memory
<1>5. \A k \in DOMAIN inbox' : inbox'[k].do # "watch" => Seen(inbox'[k].id, inbox'[k].about)
  BY WhatIsNamedWasSeen DEF Hand, Heard, Memory
<1> QED BY <1>1, <1>2, <1>3, <1>4, <1>5 DEF Memory, Safe, Seen

LEMMA StutteringKeepsMemory ==
  ASSUME Memory, UNCHANGED vars
  PROVE  Memory'
<1>1. UNCHANGED <<world, session, latest, inbox, selected, drawn, dialog, drawer>>
  BY DEF vars, engine, table
<1> QED BY <1>1 DEF Memory, Safe, Seen

LEMMA InitialMemory ==
  ASSUME Init
  PROVE  Memory
<1>1. /\ selected = {} /\ inbox = <<>>
      /\ dialog = [open |-> FALSE, asks |-> <<>>, data |-> FALSE]
      /\ drawer = [open |-> FALSE, shown |-> {}, lines |-> {}, guess |-> FALSE]
  BY DEF Init
<1>2. \A k \in DOMAIN drawn : Seen(drawn[k].id, drawn[k].hash)
  BY InitialBase, InitialRows, RowsAreSeen
<1>3. DOMAIN <<>> = {}
  OBVIOUS
<1> QED BY <1>1, <1>2, <1>3 DEF Memory

(* A command on its way to a torrent reaches the one the user saw, from    *)
(* whichever part of the window it was sent.                               *)
THEOREM CommandsReachWhatWasSeen ==
  ASSUME NoIdReturns
  PROVE  Spec => []ReachesWhatWasSeen
<1>1. Init => Base /\ Memory
  BY InitialBase, InitialMemory
<1>2. Base /\ Memory /\ [Next]_vars => (Base /\ Memory)'
  BY BaseIsKept, EveryStep, EngineKeepsMemory, DrawingKeepsMemory, HandKeepsMemory, StutteringKeepsMemory
<1>3. Base /\ Memory => ReachesWhatWasSeen
  BY DEF Memory, Seen, SeenIn, ReachesWhatWasSeen
<1> QED BY <1>1, <1>2, <1>3, PTL DEF Spec

----------------------------------------------------------------------------
(* What is selected can be seen.                                           *)

LEMMA SameGenerationSameTorrents ==
  ASSUME Base, EngineMoves, order.generation = latest'.generation
  PROVE  order.generation = latest.generation /\ SameTorrents(latest.rows, latest'.rows)
<1>1. /\ latest.generation \in 0 .. generation /\ generation \in Nat
      /\ order.generation \in 0 .. latest.generation
      /\ generation' \in Nat /\ generation <= generation'
      /\ IsSession(session) /\ IsSession(session')
  BY DEF EngineMoves, Base, Engine, Interface
<1>2. CASE latest' = latest
  BY <1>2 DEF SameTorrents
<1>3. CASE \E w : Publish(session', generation', w)
  <2>1. latest'.rows = Rows(session') /\ latest'.generation = generation'
    BY <1>1, <1>3, Published
  <2>2. generation' = generation /\ order.generation = latest.generation /\ latest.generation = generation
    BY <1>1, <2>1
  <2>3. DOMAIN session' = DOMAIN session /\ \A i \in DOMAIN session : session'[i].hash = session[i].hash
    BY <2>2 DEF EngineMoves
  <2>4. SameTorrents(latest.rows, Rows(session)) /\ SameTorrents(Rows(session), Rows(session'))
    BY <1>1, <2>2, <2>3, RowsAreTheSame DEF Base, Engine
  <2> QED BY <2>1, <2>2, <2>4 DEF SameTorrents
<1> QED BY <1>2, <1>3 DEF EngineMoves

LEMMA EngineKeepsMatching ==
  ASSUME NoIdReturns, Base, Memory, Matching, EngineMoves
  PROVE  Matching'
<1>1. UNCHANGED <<world, selected, view, order, drawn, busy>>
  BY DEF EngineMoves, table
<1>2. ASSUME NEW i \in selected, NEW k \in DOMAIN latest'.rows, latest'.rows[k].id = i
      PROVE  latest'.rows[k].hash \in view.text
  <2>1. CASE latest' = latest
    BY <1>2, <2>1 DEF Matching
  <2>2. CASE \E w : Publish(session', generation', w)
    <3>1. i \in DOMAIN session' /\ session'[i].hash = latest'.rows[k].hash
      BY <1>2, <2>2, Published DEF EngineMoves, Agrees
    <3>2. Safe(i)
      BY DEF Memory
    <3>3. i \in DOMAIN session /\ session'[i].hash = session[i].hash /\ i \in IdsOf(latest.rows)
      BY <3>1, <3>2, IdsKeepTheirNames DEF Safe, SafeIn
    <3>4. PICK j \in DOMAIN latest.rows : latest.rows[j].id = i
      BY <3>3 DEF IdsOf
    <3>5. latest.rows[j].hash = session[i].hash
      BY <3>4 DEF Base, Engine, Agrees
    <3> QED BY <3>1, <3>3, <3>4, <3>5 DEF Matching
  <2> QED BY <2>1, <2>2 DEF EngineMoves
<1>3. ASSUME order.generation = latest'.generation, NEW m \in DOMAIN order.at
      PROVE  order.at[m] \in DOMAIN latest'.rows /\ latest'.rows[order.at[m]].hash \in view.text
  BY <1>3, SameGenerationSameTorrents DEF Matching, SameTorrents
<1> QED BY <1>1, <1>2, <1>3 DEF Matching

LEMMA DrawingKeepsMatching ==
  ASSUME Base, Matching, Draws
  PROVE  Matching'
<1>1. UNCHANGED <<world, latest, view>>
  BY DEF Draws
<1>2. CASE UNCHANGED <<selected, order, guesses, drawn, drawer, applied, busy>>
  BY <1>1, <1>2 DEF Matching
<1>3. CASE Refresh(latest)
  <2>1. selected' \subseteq selected
    BY <1>3 DEF Refresh
  <2>2. /\ view \in Views /\ IsList(latest.rows)
    BY DEF Base, Engine, Interface
  <2>3. \A m \in DOMAIN order'.at :
          order'.at[m] \in DOMAIN latest.rows /\ latest.rows[order'.at[m]].hash \in view.text
    <3>1. CASE order'.at = Rebuilt(view, latest).at
      BY <2>2, <3>1, RebuiltIsAll DEF Shows
    <3>2. CASE order' = order /\ order.generation = latest.generation
      BY <3>2 DEF Matching
    <3> QED BY <1>3, <3>1, <3>2, OrderIsRefreshed
  <2>4. \A k \in DOMAIN drawn' : \E m \in DOMAIN order'.at : drawn'[k].hash = latest.rows[order'.at[m]].hash
    BY <1>3, RowsAreRefreshed
  <2>5. \A k \in DOMAIN drawn' : drawn'[k].hash \in view.text
    BY <2>3, <2>4
  <2>6. \A i \in selected', k \in DOMAIN latest.rows : latest.rows[k].id = i => latest.rows[k].hash \in view.text
    BY <2>1 DEF Matching
  <2>7. selected' # {} => world \cap {"selects", "arrows", "menus"} # {}
    BY <2>1 DEF Matching
  <2>8. view.shown # "all" \/ view.shelf => world \cap {"shows", "shelves"} # {}
    BY DEF Matching
  <2> QED BY <1>1, <2>3, <2>5, <2>6, <2>7, <2>8 DEF Matching
<1> QED BY <1>2, <1>3 DEF Draws

LEMMA HandKeepsMatching ==
  ASSUME Base, Memory, Matching, Hand, Picks
  PROVE  Matching'
<1>1. UNCHANGED <<world, session, latest, drawn>> /\ ~busy /\ (busy' \/ UNCHANGED <<busy, selected, order, view, assigned, guesses>>)
  BY DEF Hand
<1>2. /\ selected' # {} => world \cap {"selects", "arrows", "menus"} # {}
      /\ view'.shown # "all" \/ view'.shelf => world \cap {"shows", "shelves"} # {}
  BY DEF Picks, Matching
<1>3. ASSUME NEW i \in selected', NEW k \in DOMAIN latest.rows, latest.rows[k].id = i
      PROVE  latest.rows[k].hash \in view'.text
  <2>1. CASE view'.text = view.text
    <3>1. CASE i \in selected
      BY <1>3, <2>1, <3>1 DEF Matching
    <3>2. CASE i \in IdsOf(drawn)
      <4>1. PICK j \in DOMAIN drawn : drawn[j].id = i
        BY <3>2 DEF IdsOf
      <4>2. i \in DOMAIN session /\ session[i].hash = latest.rows[k].hash
        BY <1>3 DEF Base, Engine, Agrees
      <4>3. drawn[j].hash = session[i].hash
        BY <4>1, <4>2 DEF Memory, Seen, SeenIn
      <4> QED BY <1>1, <2>1, <4>1, <4>2, <4>3 DEF Matching
    <3> QED BY <3>1, <3>2 DEF Hand
  <2>2. CASE view'.text = Hashes
    <3>1. latest.rows[k] \in Line
      BY DEF Base, Engine, IsList
    <3> QED BY <2>2, <3>1 DEF Line
  <2>3. CASE \E j \in DOMAIN latest.rows : latest.rows[j].id = i /\ latest.rows[j].hash \in view'.text
    BY <1>3, <2>3 DEF Base, Engine, IsList
  <2> QED BY <2>1, <2>2, <2>3 DEF Picks
<1>4. ~busy' => \A k \in DOMAIN drawn : drawn[k].hash \in view'.text
  BY <1>1 DEF Matching
<1>5. order'.generation = latest.generation => \A m \in DOMAIN order'.at :
        order'.at[m] \in DOMAIN latest.rows /\ latest.rows[order'.at[m]].hash \in view'.text
  <2>1. CASE UNCHANGED <<view, order>>
    BY <2>1 DEF Matching
  <2>2. CASE order' = Rebuilt(view', latest)
    <3>1. view' \in Views /\ IsList(latest.rows)
      BY DEF Hand, Base, Engine
    <3>2. \A m \in DOMAIN order'.at : order'.at[m] \in DOMAIN latest.rows /\ Shows(view', latest.rows[order'.at[m]])
      BY <2>2, <3>1, RebuiltIsAll
    <3> QED BY <3>2 DEF Shows
  <2> QED BY <2>1, <2>2 DEF Hand
<1> QED BY <1>1, <1>2, <1>3, <1>4, <1>5 DEF Matching

(* A redraw shows what is selected.                                        *)
LEMMA DrawingShowsTheSelected ==
  ASSUME NoOneNarrowsAndSelects, Base, Fresh, Matching, Refresh(latest), NEW i \in selected'
  PROVE  i \in DOMAIN guesses' \/ \E k \in DOMAIN drawn' : drawn'[k].id = i
<1>1. i \in selected /\ i \in IdsOf(latest.rows)
  BY DEF Refresh
<1>2. PICK k \in DOMAIN latest.rows : latest.rows[k].id = i
  BY <1>1 DEF IdsOf
<1>3. view.shown = "all" /\ ~view.shelf
  <2>1. world \in Worlds /\ world \cap {"selects", "arrows", "menus"} # {}
    BY <1>1 DEF Base, Engine, Matching
  <2>2. world \cap {"shows", "shelves"} = {}
    BY <2>1 DEF NoOneNarrowsAndSelects
  <2> QED BY <2>2 DEF Matching
<1>4. Shows(view, latest.rows[k])
  BY <1>1, <1>2, <1>3 DEF Shows, Matching
<1>5. order'.at = Rebuilt(view, latest).at
  <2>1. CASE IsVolatile \/ order.generation # latest.generation
    BY <2>1, OrderIsRefreshed
  <2>2. CASE ~IsVolatile /\ order.generation = latest.generation
    <3>1. order.at = Rebuilt(view, latest).at
      BY <1>3, <2>2, RebuiltIsPlaces DEF Fresh, Cached
    <3> QED BY <3>1, OrderIsRefreshed
  <2> QED BY <2>1, <2>2
<1>6. PICK m \in DOMAIN order'.at : order'.at[m] = k
  <2>1. view \in Views /\ IsList(latest.rows)
    BY DEF Base, Engine, Interface
  <2> QED BY <1>4, <1>5, <2>1, RebuiltIsAll
<1> QED BY <1>2, <1>6, RowsAreRefreshed

LEMMA SelectedStaysDrawn ==
  ASSUME NoOneNarrowsAndSelects, Base, Fresh, Matching, NothingHiddenIsSelected, [Next]_vars
  PROVE  NothingHiddenIsSelected'
<1>1. CASE EngineMoves
  <2>1. UNCHANGED <<selected, drawn, busy>> /\ IsSession(session')
    BY <1>1 DEF EngineMoves, table
  <2>2. DOMAIN guesses' = DOMAIN guesses
    <3>1. CASE guesses' = guesses
      BY <3>1
    <3>2. CASE \E w : Publish(session', generation', w)
      BY <2>1, <3>2, Published
    <3> QED BY <1>1, <3>1, <3>2 DEF EngineMoves
  <2> QED BY <2>1, <2>2 DEF NothingHiddenIsSelected
<1>2. CASE Draws
  <2>1. CASE UNCHANGED <<selected, order, guesses, drawn, drawer, applied, busy>>
    BY <2>1 DEF NothingHiddenIsSelected
  <2>2. CASE Refresh(latest)
    <3>1. \A i \in selected' : i \in DOMAIN guesses' \/ \E k \in DOMAIN drawn' : drawn'[k].id = i
      BY <2>2, DrawingShowsTheSelected
    <3> QED BY <3>1 DEF NothingHiddenIsSelected, Range
  <2> QED BY <1>2, <2>1, <2>2 DEF Draws
<1>3. CASE Hand
  <2>1. drawn' = drawn /\ (busy' \/ UNCHANGED <<busy, selected, guesses>>)
    BY <1>3 DEF Hand
  <2> QED BY <2>1 DEF NothingHiddenIsSelected
<1>4. CASE UNCHANGED vars
  <2>1. UNCHANGED <<selected, drawn, busy, guesses>>
    BY <1>4 DEF vars, table
  <2> QED BY <2>1 DEF NothingHiddenIsSelected
<1> QED BY <1>1, <1>2, <1>3, <1>4, EveryStep

LEMMA StutteringKeepsMatching ==
  ASSUME Matching, UNCHANGED vars
  PROVE  Matching'
<1>1. UNCHANGED <<world, latest, selected, view, order, drawn, busy>>
  BY DEF vars, engine, table
<1> QED BY <1>1 DEF Matching

LEMMA InitialMatching ==
  ASSUME Init
  PROVE  Matching /\ NothingHiddenIsSelected
<1>1. selected = {} /\ view.text = Hashes /\ view.shown = "all" /\ ~view.shelf
  BY DEF Init
<1>2. drawn \in Seq(Line) /\ order.at \in Seq(1 .. Len(latest.rows)) /\ IsList(latest.rows)
  BY InitialRows, InitialSession
<1>3. \A k \in DOMAIN drawn : drawn[k].hash \in Hashes
  <2>1. \A k \in DOMAIN drawn : drawn[k] \in Line
    BY <1>2
  <2> QED BY <2>1 DEF Line
<1>4. \A m \in DOMAIN order.at : order.at[m] \in DOMAIN latest.rows /\ latest.rows[order.at[m]].hash \in Hashes
  <2>1. \A k \in DOMAIN latest.rows : latest.rows[k].hash \in Hashes
    <3>1. \A k \in DOMAIN latest.rows : latest.rows[k] \in Line
      BY <1>2 DEF IsList
    <3> QED BY <3>1 DEF Line
  <2>2. \A m \in DOMAIN order.at : order.at[m] \in DOMAIN latest.rows
    BY <1>2 DEF IsList
  <2> QED BY <2>1, <2>2
<1> QED BY <1>1, <1>3, <1>4 DEF Matching, NothingHiddenIsSelected

(* Typing never leaves a torrent selected that cannot be seen.             *)
THEOREM WhatIsSelectedIsDrawn ==
  ASSUME NoIdReturns, NoOneNarrowsAndSelects
  PROVE  Spec => []NothingHiddenIsSelected
<1> DEFINE Inv == Base /\ Fresh /\ Memory /\ Matching /\ NothingHiddenIsSelected
<1>1. Init => Inv
  BY InitialBase, InitialFresh, InitialMemory, InitialMatching
<1>2. ASSUME Inv, [Next]_vars
      PROVE  Inv'
  <2>1. Base'
    BY <1>2, BaseIsKept
  <2>2. Fresh'
    BY <1>2, EveryStep, EngineKeepsFresh, DrawingKeepsFresh, HandKeepsFresh, StutteringKeepsFresh
  <2>3. Memory'
    BY <1>2, EveryStep, EngineKeepsMemory, DrawingKeepsMemory, HandKeepsMemory, StutteringKeepsMemory
  <2>4. Matching'
    BY <1>2, EveryStep, EngineKeepsMatching, DrawingKeepsMatching, HandKeepsMatching, StutteringKeepsMatching
  <2>5. NothingHiddenIsSelected'
    BY <1>2, SelectedStaysDrawn
  <2> QED BY <2>1, <2>2, <2>3, <2>4, <2>5
<1>3. Inv => NothingHiddenIsSelected
  OBVIOUS
<1> QED BY <1>1, <1>2, <1>3, PTL DEF Spec

----------------------------------------------------------------------------
(* The figures of a row.                                                   *)

(* A finite set of numbers has a greatest one, and any a least one.        *)
LEMMA HasGreatest ==
  ASSUME NEW S \in SUBSET Nat, IsFiniteSet(S), S # {}
  PROVE  \E i \in S : \A j \in S : j <= i
<1> DEFINE Above(i) == {j \in S : j > i}
           T == {Above(i) : i \in S}
<1>1. IsWellFoundedOn(StrictSubsetOrdering(S), FiniteSubsetsOf(S))
  BY FS_StrictSubsetOrderingWellFounded
<1>2. T \subseteq FiniteSubsetsOf(S) /\ T # {}
  <2>1. FiniteSubsetsOf(S) = SUBSET S
    BY FS_FiniteSubsetsOfFinite
  <2>2. \A i \in S : Above(i) \in SUBSET S
    OBVIOUS
  <2>3. PICK i \in S : TRUE
    OBVIOUS
  <2>4. Above(i) \in T
    OBVIOUS
  <2> HIDE DEF Above
  <2> QED BY <2>1, <2>2, <2>4
<1> HIDE DEF T
<1>3. PICK A \in T : \A B \in T : <<B, A>> \notin StrictSubsetOrdering(S)
  BY <1>1, <1>2, WFMin
<1>4. PICK i \in S : A = Above(i)
  BY <1>3 DEF T
<1>5. ASSUME NEW j \in S, j > i
      PROVE  FALSE
  <2>1. Above(j) \in T /\ Above(j) \subseteq S /\ A \subseteq S
    BY <1>4 DEF T
  <2>2. i \in Nat /\ j \in Nat /\ ~(j > j) /\ \A k \in S : k > j => k > i
    BY <1>5
  <2>3. j \in A /\ j \notin Above(j)
    BY <1>4, <1>5, <2>2
  <2>4. Above(j) \subseteq A
    BY <1>4, <2>2
  <2> HIDE DEF Above
  <2>5. <<Above(j), A>> \in StrictSubsetOrdering(S)
    BY <2>1, <2>3, <2>4 DEF StrictSubsetOrdering
  <2> QED BY <2>1, <2>5, <1>3
<1>6. i \in Nat /\ \A j \in S : j \in Nat /\ ~(j > i)
  BY <1>5
<1> QED BY <1>6

LEMMA MaxIsGreatest ==
  ASSUME NEW top \in Nat, NEW S \in SUBSET (0 .. top), S # {}
  PROVE  Max(S) \in S /\ \A j \in S : j <= Max(S)
<1>1. IsFiniteSet(0 .. top)
  BY FS_Interval
<1>2. IsFiniteSet(S) /\ S \in SUBSET Nat
  <2>1. S \subseteq 0 .. top /\ S \in SUBSET Nat
    OBVIOUS
  <2> QED BY <1>1, <2>1, FS_Subset
<1>3. PICK i \in S : \A j \in S : j <= i
  BY <1>2, HasGreatest
<1>4. \A j \in S : i >= j
  BY <1>2, <1>3
<1>5. Max(S) \in S /\ \A j \in S : Max(S) >= j
  BY <1>4 DEF Max
<1> QED BY <1>2, <1>5

LEMMA MinIsLeast ==
  ASSUME NEW top \in Nat, NEW S \in SUBSET (0 .. top), S # {}
  PROVE  Min(S) \in S /\ \A j \in S : Min(S) <= j
<1> DEFINE T == {top - j : j \in S}
<1>1. T \in SUBSET (0 .. top) /\ T # {}
  OBVIOUS
<1>2. Max(T) \in T /\ \A j \in T : j <= Max(T)
  <2> HIDE DEF T
  <2> QED BY <1>1, MaxIsGreatest
<1>3. PICK i \in S : Max(T) = top - i
  BY <1>2
<1>4. \A j \in S : i <= j
  <2> SUFFICES ASSUME NEW j \in S PROVE i <= j
    OBVIOUS
  <2>1. top - j <= top - i
    BY <1>2, <1>3
  <2> QED BY <2>1
<1> QED BY <1>4 DEF Min

LEMMA LesserOfTwo ==
  ASSUME NEW a \in Nat, NEW b \in Nat
  PROVE  Min({a, b}) = IF a <= b THEN a ELSE b
<1>1. Min({a, b}) \in {a, b} /\ Min({a, b}) <= a /\ Min({a, b}) <= b
  <2>1. PICK top \in {a, b} : a <= top /\ b <= top
    OBVIOUS
  <2>2. {a, b} \in SUBSET (0 .. top) /\ top \in Nat
    BY <2>1
  <2> QED BY <2>2, MinIsLeast
<1> QED BY <1>1

LEMMA GreaterOfTwo ==
  ASSUME NEW a \in Nat, NEW b \in Nat
  PROVE  Max({a, b}) = IF a <= b THEN b ELSE a
<1>1. Max({a, b}) \in {a, b} /\ a <= Max({a, b}) /\ b <= Max({a, b})
  <2>1. PICK top \in {a, b} : a <= top /\ b <= top
    OBVIOUS
  <2>2. {a, b} \in SUBSET (0 .. top) /\ top \in Nat
    BY <2>1
  <2> QED BY <2>2, MaxIsGreatest
<1> QED BY <1>1

(* The fastest that may be reported.                                       *)
Ceiling == Max(Rates \cup {1})

LEMMA CeilingIsFastest ==
  Ceiling \in Nat /\ 1 <= Ceiling /\ Rates \subseteq 0 .. Ceiling
<1>1. PICK top \in Rates : \A v \in Rates : v <= top
  BY FiguresAssumption DEF FiguresAssumption
<1>2. Rates \subseteq Nat /\ top \in Nat
  BY FiguresAssumption DEF FiguresAssumption
<1>3. Rates \cup {1} \in SUBSET (0 .. top + 1)
  BY <1>1, <1>2
<1> DEFINE S == Rates \cup {1}
<1>4. S # {} /\ S \in SUBSET (0 .. top + 1) /\ top + 1 \in Nat
  BY <1>2, <1>3
<1>5. Ceiling = Max(S)
  BY DEF Ceiling
<1> HIDE DEF S
<1>6. Max(S) \in S /\ \A v \in S : v <= Max(S)
  BY <1>4, MaxIsGreatest
<1>7. 1 \in S /\ Rates \subseteq S /\ S \subseteq Nat
  BY <1>2 DEF S
<1>8. Max(S) \in Nat /\ 1 <= Max(S)
  BY <1>6, <1>7
<1>9. \A v \in Rates : v \in Nat /\ v <= Max(S)
  BY <1>6, <1>7
<1> QED BY <1>5, <1>8, <1>9

LEMMA FastestIsReported == Max(Rates) \in Rates
<1>1. Ceiling \in Nat /\ Rates \in SUBSET (0 .. Ceiling)
  BY CeilingIsFastest
<1>2. Rates # {}
  BY FiguresAssumption DEF FiguresAssumption
<1> QED BY <1>1, <1>2, MaxIsGreatest

----------------------------------------------------------------------------
(* A rate stays between the least and the most that was reported.          *)
Within(rate, lo, hi) ==
  /\ rate \in [average : Int, shown : Nat]
  /\ lo * Scale <= rate.average /\ rate.average <= hi * Scale
  /\ lo <= rate.shown /\ rate.shown <= hi

LEMMA SmoothedWithin ==
  ASSUME NEW a \in Int, NEW s \in Int, NEW lo \in Int, NEW hi \in Int,
         lo * Scale <= a, a <= hi * Scale, lo <= s, s <= hi,
         a # NoValue
  PROVE  /\ Smoothed(a, s) \in Int
         /\ lo * Scale <= Smoothed(a, s) /\ Smoothed(a, s) <= hi * Scale
<1>1. Smoothed(a, s) = a + (2 * (s * 625 - a)) \div 5
  BY DEF Smoothed, Scale
<1> QED BY <1>1 DEF Scale

LEMMA RoundWithin ==
  ASSUME NEW a \in Int, NEW lo \in Int, NEW hi \in Int, lo * Scale <= a, a <= hi * Scale
  PROVE  Round(a) \in Int /\ lo <= Round(a) /\ Round(a) <= hi
BY DEF Round, Scale

LEMMA FirstSampleIsWhole ==
  ASSUME NEW sample \in Nat \ {0}, NEW lo \in Nat, NEW hi \in Nat, lo <= sample, sample <= hi
  PROVE  Within(Update(AtRest, sample), lo, hi)
<1> DEFINE average == sample * Scale
<1>1. Smoothed(NoValue, sample) = average
  BY DEF Smoothed
<1>2. average \in Nat /\ average > 0 /\ lo * Scale <= average /\ average <= hi * Scale
  BY DEF Scale
<1>3. Distance(average, 0 * Scale) * 20 > 0 * Scale
  BY <1>2 DEF Distance, Scale
<1>4. Round(average) = sample
  BY DEF Round, Scale
<1>5. Update(AtRest, sample) = [average |-> average, shown |-> sample]
  BY <1>1, <1>3, <1>4 DEF Update, AtRest
<1> QED BY <1>2, <1>5 DEF Within

LEMMA NextSampleWithin ==
  ASSUME NEW sample \in Nat \ {0}, NEW lo \in Nat \ {0}, NEW hi \in Nat, lo <= sample, sample <= hi,
         NEW rate, Within(rate, lo, hi)
  PROVE  Within(Update(rate, sample), lo, hi)
<1> DEFINE average == Smoothed(rate.average, sample)
           moved   == Distance(average, rate.shown * Scale) * 20 > rate.shown * Scale
<1>1. /\ rate.average \in Int /\ rate.shown \in Nat
      /\ lo * Scale <= rate.average /\ rate.average <= hi * Scale
      /\ lo <= rate.shown /\ rate.shown <= hi
  BY DEF Within
<1>2. rate.average # NoValue
  BY <1>1 DEF Scale, NoValue
<1>3. average \in Int /\ lo * Scale <= average /\ average <= hi * Scale
  BY <1>1, <1>2, SmoothedWithin
<1>4. Round(average) \in Int /\ lo <= Round(average) /\ Round(average) <= hi
  <2> HIDE DEF average
  <2>1. average \in Int /\ lo \in Nat /\ hi \in Nat
    BY <1>3
  <2> QED BY <1>3, <2>1, RoundWithin
<1>5. Update(rate, sample)
        = [average |-> average, shown |-> IF moved THEN Round(average) ELSE rate.shown]
  BY DEF Update
<1> HIDE DEF average, moved
<1>6. CASE moved
  BY <1>1, <1>3, <1>4, <1>5, <1>6 DEF Within
<1>7. CASE ~moved
  BY <1>1, <1>3, <1>5, <1>7 DEF Within
<1> QED BY <1>6, <1>7

LEMMA NoSampleIsRest == ASSUME NEW rate PROVE Update(rate, 0) = AtRest
BY DEF Update

----------------------------------------------------------------------------
(* What is drawn of a number of bytes.                                     *)

Kilo == 1024
Mega == 1024 * Kilo
Giga == 1024 * Mega
Tera == 1024 * Giga

LEMMA Powers ==
  /\ 10 ^ 0 = 1 /\ 10 ^ 1 = 10 /\ 10 ^ 2 = 100
  /\ 1024 ^ 0 = 1 /\ 1024 ^ 1 = Kilo /\ 1024 ^ 2 = Mega /\ 1024 ^ 3 = Giga
  /\ OneOf(0) = 1 /\ OneOf(1) = Kilo /\ OneOf(2) = Mega /\ OneOf(3) = Giga /\ OneOf(4) = Tera
<1>1. 1024 ^ 0 = 1 /\ 1024 ^ 1 = Kilo /\ 1024 ^ 2 = Mega /\ 1024 ^ 3 = Giga
  BY DEF Kilo, Mega, Giga
<1>2. OneOf(4) = 1024 * 1024 ^ 3
  BY DEF OneOf
<1>3. OneOf(0) = 1024 ^ 0 /\ OneOf(1) = 1024 ^ 1 /\ OneOf(2) = 1024 ^ 2 /\ OneOf(3) = 1024 ^ 3
  BY DEF OneOf
<1> QED BY <1>1, <1>2, <1>3 DEF Tera

LEMMA UnitsArePositive == {Kilo, Mega, Giga, Tera} \subseteq Nat \ {0}
BY DEF Kilo, Mega, Giga, Tera

(* The digits drawn, in hundredths of a unit.                              *)
Hundredths(n) == Reading(n).figure * 10 ^ (2 - Reading(n).decimals)

(* In a unit the digits are those of a fixed number of decimals, rounded.  *)
InUnit(n, one) ==
  IF n < 10 * one THEN Nearest(n * 100, one)
  ELSE IF n < 100 * one THEN Nearest(n * 10, one) * 10
  ELSE Nearest(n * 1, one) * 100

LEMMA Division ==
  ASSUME NEW p \in Nat, NEW q \in Nat \ {0}
  PROVE  /\ p \div q \in Nat /\ p % q \in 0 .. q - 1
         /\ p % q = p - q * (p \div q)
<1>1. p \div q \in Nat
  OBVIOUS
<1>2. p % q \in 0 .. q - 1
  OBVIOUS
<1>3. p % q = p - q * (p \div q)
  OBVIOUS
<1> QED BY <1>1, <1>2, <1>3

LEMMA NearestGrows ==
  ASSUME NEW p \in Nat, NEW r \in Nat, p <= r, NEW q \in Nat \ {0}
  PROVE  Nearest(p, q) \in Nat /\ Nearest(p, q) <= Nearest(r, q)
<1> DEFINE low == p \div q
           top == r \div q
<1>1. /\ low \in Nat /\ top \in Nat /\ p % q \in 0 .. q - 1 /\ r % q \in 0 .. q - 1
      /\ p % q = p - q * low /\ r % q = r - q * top
  BY Division
<1>2. low <= top
  OBVIOUS
<1>3. /\ Nearest(p, q) = IF 2 * (p % q) > q \/ (2 * (p % q) = q /\ low % 2 = 1)
                         THEN low + 1 ELSE low
      /\ Nearest(r, q) = IF 2 * (r % q) > q \/ (2 * (r % q) = q /\ top % 2 = 1)
                         THEN top + 1 ELSE top
  BY DEF Nearest
<1> HIDE DEF low, top
<1>4. CASE low < top
  BY <1>1, <1>3, <1>4
<1>5. CASE low = top
  <2>1. p % q <= r % q
    BY <1>1, <1>5
  <2> QED BY <1>1, <1>3, <1>5, <2>1
<1> QED BY <1>1, <1>2, <1>4, <1>5

LEMMA WholeIsNearest ==
  ASSUME NEW k \in Nat, NEW q \in Nat \ {0}
  PROVE  Nearest(k * q, q) = k
<1>1. (k * q) \div q = k /\ (k * q) % q = 0
  OBVIOUS
<1> QED BY <1>1 DEF Nearest

LEMMA UnitIsOneOfFive ==
  ASSUME NEW n \in Nat
  PROVE  /\ Unit(n) \in {0, 1, 2, 3, 4}
         /\ Unit(n) = 0 <=> n < 1024
         /\ Unit(n) \in {0, 1} <=> n < Mega
         /\ Unit(n) \in {0, 1, 2} <=> n < Giga
         /\ Unit(n) \in {0, 1, 2, 3} <=> n < Tera
<1>1. n \div Kilo < 1024 <=> n < Mega
  BY DEF Kilo, Mega
<1>2. n \div Mega < 1024 <=> n < Giga
  BY DEF Kilo, Mega, Giga
<1>3. n \div Giga < 1024 <=> n < Tera
  BY DEF Kilo, Mega, Giga, Tera
<1>4. Unit(n) = IF n < 1024 THEN 0 ELSE IF n < Mega THEN 1
                ELSE IF n < Giga THEN 2 ELSE IF n < Tera THEN 3 ELSE 4
  <2>1. n \div 1024 < 1024 <=> n < Mega
    BY <1>1 DEF Kilo
  <2> QED BY <2>1, <1>2, <1>3, Powers DEF Unit
<1> QED BY <1>4 DEF Kilo, Mega, Giga, Tera

LEMMA UnitsGrow ==
  ASSUME NEW a \in Nat, NEW b \in Nat, a <= b
  PROVE  Unit(a) < Unit(b) \/ Unit(a) = Unit(b)
<1>1. /\ Unit(a) \in {0, 1, 2, 3, 4} /\ Unit(b) \in {0, 1, 2, 3, 4}
      /\ {Kilo, Mega, Giga, Tera} \subseteq Nat
  BY UnitIsOneOfFive, UnitsArePositive
<1>2. \A u \in {0, 1, 2, 3} : Unit(b) <= u => Unit(a) <= u
  <2>1. Unit(b) <= 0 => Unit(a) <= 0
    BY UnitIsOneOfFive, <1>1
  <2>2. Unit(b) <= 1 => Unit(a) <= 1
    BY UnitIsOneOfFive, <1>1
  <2>3. Unit(b) <= 2 => Unit(a) <= 2
    BY UnitIsOneOfFive, <1>1
  <2>4. Unit(b) <= 3 => Unit(a) <= 3
    BY UnitIsOneOfFive, <1>1
  <2> QED BY <2>1, <2>2, <2>3, <2>4
<1>3. Unit(a) <= Unit(b)
  BY <1>1, <1>2
<1> QED BY <1>1, <1>3

LEMMA DigitsAre ==
  ASSUME NEW n \in Nat
  PROVE  /\ Reading(n).unit = Unit(n)
         /\ Unit(n) = 0 => Hundredths(n) = n * 100
         /\ Unit(n) = 1 => Hundredths(n) = InUnit(n, Kilo)
         /\ Unit(n) = 2 => Hundredths(n) = InUnit(n, Mega)
         /\ Unit(n) = 3 => Hundredths(n) = InUnit(n, Giga)
         /\ Unit(n) = 4 => Hundredths(n) = InUnit(n, Tera)
<1>1. Reading(n) = [unit |-> Unit(n), decimals |-> Decimals(n),
                    figure |-> Nearest(n * 10 ^ Decimals(n), OneOf(Unit(n)))]
  BY DEF Reading
<1>2. Hundredths(n) = Nearest(n * 10 ^ Decimals(n), OneOf(Unit(n))) * 10 ^ (2 - Decimals(n))
  BY <1>1 DEF Hundredths
<1>3. 10 ^ (2 - 0) = 100 /\ 10 ^ (2 - 1) = 10 /\ 10 ^ (2 - 2) = 1
  BY Powers
<1>4. ASSUME NEW u \in {1, 2, 3, 4}, NEW one \in Nat \ {0}, Unit(n) = u, one = OneOf(u)
      PROVE  Hundredths(n) = InUnit(n, one)
  <2>1. Decimals(n) = IF n < 10 * one THEN 2 ELSE IF n < 100 * one THEN 1 ELSE 0
    BY <1>4 DEF Decimals
  <2>2. Hundredths(n) = Nearest(n * 10 ^ Decimals(n), one) * 10 ^ (2 - Decimals(n))
    BY <1>2, <1>4
  <2>3. CASE n < 10 * one
    <3>1. Hundredths(n) = Nearest(n * 100, one) * 1
      BY <2>1, <2>2, <2>3, <1>3, Powers
    <3>2. InUnit(n, one) = Nearest(n * 100, one) /\ InUnit(n, one) \in Int
      BY <2>3, NearestGrows DEF InUnit
    <3> QED BY <3>1, <3>2
  <2>4. CASE ~(n < 10 * one) /\ n < 100 * one
    BY <2>1, <2>2, <2>4, <1>3, Powers DEF InUnit
  <2>5. CASE ~(n < 10 * one) /\ ~(n < 100 * one)
    BY <2>1, <2>2, <2>5, <1>3, Powers DEF InUnit
  <2> QED BY <2>3, <2>4, <2>5
<1>5. Unit(n) = 0 => Hundredths(n) = n * 100
  <2> HAVE Unit(n) = 0
  <2>1. Decimals(n) = 0
    BY DEF Decimals
  <2>2. Hundredths(n) = Nearest(n * 1, 1) * 100
    BY <1>2, <1>3, <2>1, Powers
  <2> QED BY <2>2, WholeIsNearest
<1>6. Unit(n) = 1 => Hundredths(n) = InUnit(n, Kilo)
  BY <1>4, Powers, UnitsArePositive
<1>7. Unit(n) = 2 => Hundredths(n) = InUnit(n, Mega)
  BY <1>4, Powers, UnitsArePositive
<1>8. Unit(n) = 3 => Hundredths(n) = InUnit(n, Giga)
  BY <1>4, Powers, UnitsArePositive
<1>9. Unit(n) = 4 => Hundredths(n) = InUnit(n, Tera)
  BY <1>4, Powers, UnitsArePositive
<1> QED BY <1>1, <1>5, <1>6, <1>7, <1>8, <1>9

LEMMA DigitsGrow ==
  ASSUME NEW a \in Nat, NEW b \in Nat, a <= b,
         NEW one \in {Kilo, Mega, Giga, Tera}
  PROVE  InUnit(a, one) <= InUnit(b, one)
<1>1. one \in Nat \ {0}
  BY UnitsArePositive
<1>2. Nearest(1000 * one, one) = 1000 /\ Nearest(100 * one, one) = 100
  BY <1>1, WholeIsNearest
<1>3. /\ Nearest(a * 100, one) <= Nearest(b * 100, one)
      /\ Nearest(a * 10, one) <= Nearest(b * 10, one)
      /\ Nearest(a * 1, one) <= Nearest(b * 1, one)
      /\ {Nearest(a * 100, one), Nearest(a * 10, one), Nearest(a * 1, one),
          Nearest(b * 100, one), Nearest(b * 10, one), Nearest(b * 1, one)} \subseteq Nat
  BY <1>1, NearestGrows
<1>4. a < 10 * one => Nearest(a * 100, one) <= 1000
  <2> HAVE a < 10 * one
  <2>1. a * 100 \in Nat /\ 1000 * one \in Nat /\ a * 100 <= 1000 * one
    BY <1>1
  <2> QED BY <1>1, <1>2, <2>1, NearestGrows
<1>5. a < 100 * one => Nearest(a * 10, one) <= 1000
  <2> HAVE a < 100 * one
  <2>1. a * 10 \in Nat /\ 1000 * one \in Nat /\ a * 10 <= 1000 * one
    BY <1>1
  <2> QED BY <1>1, <1>2, <2>1, NearestGrows
<1>6. b >= 10 * one => Nearest(b * 10, one) >= 100
  <2> HAVE b >= 10 * one
  <2>1. b * 10 \in Nat /\ 100 * one \in Nat /\ 100 * one <= b * 10
    BY <1>1
  <2> QED BY <1>1, <1>2, <2>1, NearestGrows
<1>7. b >= 100 * one => Nearest(b * 1, one) >= 100
  <2> HAVE b >= 100 * one
  <2>1. b * 1 \in Nat /\ 100 * one \in Nat /\ 100 * one <= b * 1
    BY <1>1
  <2> QED BY <1>1, <1>2, <2>1, NearestGrows
<1> QED BY <1>1, <1>3, <1>4, <1>5, <1>6, <1>7 DEF InUnit

LEMMA MoreReadsAsMore ==
  ASSUME NEW m \in Nat, NEW n \in Nat, m <= n
  PROVE  LET a == Reading(m)
             b == Reading(n)
         IN  \/ a.unit < b.unit
             \/ a.unit = b.unit /\ a.figure * 10 ^ (2 - a.decimals) <= b.figure * 10 ^ (2 - b.decimals)
<1>1. Unit(m) < Unit(n) \/ Unit(m) = Unit(n)
  BY UnitsGrow
<1>2. Unit(m) = Unit(n) => Hundredths(m) <= Hundredths(n)
  <2> HAVE Unit(m) = Unit(n)
  <2>1. Unit(m) \in {0, 1, 2, 3, 4}
    BY UnitIsOneOfFive
  <2>2. CASE Unit(m) = 0
    <3>1. Hundredths(m) = m * 100 /\ Hundredths(n) = n * 100
      BY <2>2, DigitsAre
    <3> QED BY <3>1
  <2>3. CASE Unit(m) = 1
    BY <2>3, DigitsAre, DigitsGrow
  <2>4. CASE Unit(m) = 2
    BY <2>4, DigitsAre, DigitsGrow
  <2>5. CASE Unit(m) = 3
    BY <2>5, DigitsAre, DigitsGrow
  <2>6. CASE Unit(m) = 4
    BY <2>6, DigitsAre, DigitsGrow
  <2> QED BY <2>1, <2>2, <2>3, <2>4, <2>5, <2>6
<1>3. Reading(m).unit = Unit(m) /\ Reading(n).unit = Unit(n)
  BY DigitsAre
<1> QED BY <1>1, <1>2, <1>3 DEF Hundredths

LEMMA PercentIsBelowHundred ==
  ASSUME NEW done \in Nat, NEW size \in Nat, done < size
  PROVE  Percent(done, size) < 100
<1>1. (done * 100) \div size < 100 /\ (done * 100) \div size \in Nat
  OBVIOUS
<1>2. Min({100, (done * 100) \div size}) = (done * 100) \div size
  <2> DEFINE p == (done * 100) \div size
  <2>1. p \in Nat /\ p < 100
    BY <1>1
  <2> HIDE DEF p
  <2>2. Min({100, p}) = p
    BY <2>1, LesserOfTwo
  <2> QED BY <2>2 DEF p
<1> QED BY <1>1, <1>2 DEF Percent

----------------------------------------------------------------------------
(* The minute: a ring of slots read from the oldest on.                    *)
Sample == [down : 0 .. Ceiling, up : 0 .. Ceiling]

IsRing(slots, at, count) ==
  slots \in [0 .. Seconds - 1 -> Sample] /\ at \in 0 .. Seconds - 1 /\ count \in 0 .. Seconds

(* Where the i-th oldest of `count` samples is, the next going to `at`.    *)
SlotOf(at, count, i) == (((at + Seconds - count) % Seconds) + i - 1) % Seconds

LEMMA Wraps ==
  ASSUME NEW w \in Nat \ {0}, NEW x \in 0 .. 2 * w - 1
  PROVE  x % w = IF x < w THEN x ELSE x - w
OBVIOUS

LEMMA SlotIsCounted ==
  ASSUME NEW at \in 0 .. Seconds - 1, NEW count \in 0 .. Seconds, NEW i \in 1 .. count
  PROVE  SlotOf(at, count, i)
           = IF at - count + i - 1 >= 0 THEN at - count + i - 1 ELSE at - count + i - 1 + Seconds
<1>1. Seconds \in Nat \ {0}
  BY FiguresAssumption DEF FiguresAssumption
<1> DEFINE x == at + Seconds - count
           y == (IF x < Seconds THEN x ELSE x - Seconds) + i - 1
<1>2. x \in 0 .. 2 * Seconds - 1
  BY <1>1
<1>3. x % Seconds = IF x < Seconds THEN x ELSE x - Seconds
  <2> HIDE DEF x
  <2> QED BY <1>1, <1>2, Wraps
<1>4. y \in 0 .. 2 * Seconds - 1
  BY <1>1
<1>5. y % Seconds = IF y < Seconds THEN y ELSE y - Seconds
  <2> HIDE DEF y
  <2> QED BY <1>1, <1>4, Wraps
<1>6. SlotOf(at, count, i) = y % Seconds
  BY <1>3 DEF SlotOf
<1> QED BY <1>1, <1>5, <1>6

LEMMA SeriesIsSequence ==
  ASSUME NEW slots, NEW at, NEW count, IsRing(slots, at, count)
  PROVE  /\ Series(slots, at, count) \in Seq(Sample)
         /\ Len(Series(slots, at, count)) = count
         /\ \A i \in 1 .. count : Series(slots, at, count)[i] = slots[SlotOf(at, count, i)]
<1>1. Seconds \in Nat \ {0} /\ count \in 0 .. Seconds /\ at \in 0 .. Seconds - 1
  BY FiguresAssumption DEF FiguresAssumption, IsRing
<1>2. \A i \in 1 .. count : SlotOf(at, count, i) \in 0 .. Seconds - 1
  <2> SUFFICES ASSUME NEW i \in 1 .. count PROVE SlotOf(at, count, i) \in 0 .. Seconds - 1
    OBVIOUS
  <2>1. SlotOf(at, count, i)
          = IF at - count + i - 1 >= 0 THEN at - count + i - 1 ELSE at - count + i - 1 + Seconds
    BY <1>1, SlotIsCounted
  <2> QED BY <1>1, <2>1
<1>3. Series(slots, at, count) = [i \in 1 .. count |-> slots[SlotOf(at, count, i)]]
  BY DEF Series, SlotOf
<1>4. \A i \in 1 .. count : slots[SlotOf(at, count, i)] \in Sample
  BY <1>2 DEF IsRing
<1>5. Series(slots, at, count) \in Seq(Sample) /\ Len(Series(slots, at, count)) = count
  BY <1>1, <1>3, <1>4
<1> QED BY <1>3, <1>5

Written(slots, at, x) == [slots EXCEPT ![at] = x]
After(at)             == (at + 1) % Seconds
More(count)           == Min({count + 1, Seconds})

(* A sample more: the newest takes the place of the oldest once the ring   *)
(* is full.                                                                *)
LEMMA OneMoreSample ==
  ASSUME NEW slots, NEW at, NEW count, IsRing(slots, at, count), NEW x \in Sample
  PROVE  /\ IsRing(Written(slots, at, x), After(at), More(count))
         /\ Series(Written(slots, at, x), After(at), More(count))
              = LastOf(Append(Series(slots, at, count), x))
<1> DEFINE further == [slots EXCEPT ![at] = x]
           after   == (at + 1) % Seconds
           more    == Min({count + 1, Seconds})
           old     == Series(slots, at, count)
           longer  == Append(old, x)
<1>1. /\ Seconds \in Nat \ {0} /\ count \in 0 .. Seconds /\ at \in 0 .. Seconds - 1
      /\ slots \in [0 .. Seconds - 1 -> Sample]
  BY FiguresAssumption DEF FiguresAssumption, IsRing
<1>2. after = IF at + 1 < Seconds THEN at + 1 ELSE 0
  <2> DEFINE y == at + 1
  <2>1. y \in 0 .. 2 * Seconds - 1
    BY <1>1
  <2>2. y % Seconds = IF y < Seconds THEN y ELSE y - Seconds
    <3> HIDE DEF y
    <3> QED BY <1>1, <2>1, Wraps
  <2> QED BY <1>1, <2>2
<1>3. more = IF count < Seconds THEN count + 1 ELSE Seconds
  <2>1. more = IF count + 1 <= Seconds THEN count + 1 ELSE Seconds
    BY <1>1, LesserOfTwo
  <2> QED BY <1>1, <2>1
<1>4. further \in [0 .. Seconds - 1 -> Sample]
  BY <1>1
<1> HIDE DEF further, after, more, old
<1>5. IsRing(further, after, more)
  BY <1>1, <1>2, <1>3, <1>4 DEF IsRing
<1>6. old \in Seq(Sample) /\ Len(old) = count
  BY SeriesIsSequence DEF old
<1>7. \A i \in 1 .. count : old[i] = slots[SlotOf(at, count, i)]
  BY SeriesIsSequence DEF old
<1>8. /\ longer \in Seq(Sample) /\ Len(longer) = count + 1 /\ longer[count + 1] = x
      /\ \A i \in 1 .. count : longer[i] = old[i]
  BY <1>6
<1> DEFINE first == IF count < Seconds THEN 1 ELSE 2
<1>9. LastOf(longer) = SubSeq(longer, first, count + 1)
  <2> HIDE DEF longer
  <2> DEFINE d == Len(longer) - Seconds + 1
  <2>1. Len(longer) = count + 1 /\ d \in Int /\ (count < Seconds => d <= 1) /\ (count = Seconds => d = 2)
    BY <1>1, <1>8
  <2>2. LastOf(longer) = SubSeq(longer, Max({1, d}), Len(longer))
    BY DEF LastOf
  <2> HIDE DEF d
  <2>3. CASE count < Seconds
    <3>1. 1 \in {1, d} /\ \A j \in {1, d} : 1 >= j
      BY <2>1, <2>3
    <3>2. Max({1, d}) \in {1, d} /\ \A j \in {1, d} : Max({1, d}) >= j
      BY <3>1 DEF Max
    <3>3. Max({1, d}) = 1
      BY <2>1, <2>3, <3>2
    <3> QED BY <2>1, <2>2, <2>3, <3>3
  <2>4. CASE count = Seconds
    <3>1. Max({1, 2}) = 2
      BY GreaterOfTwo
    <3> QED BY <1>1, <2>1, <2>2, <2>4, <3>1
  <2> QED BY <1>1, <2>3, <2>4
<1>10. /\ LastOf(longer) \in Seq(Sample) /\ Len(LastOf(longer)) = more
       /\ \A i \in 1 .. more : LastOf(longer)[i] = longer[first + i - 1]
  <2>1. more = count + 1 - first + 1
    BY <1>1, <1>3
  <2>2. SubSeq(longer, first, count + 1) = [i \in 1 .. more |-> longer[first + i - 1]]
    BY <1>1, <1>8, <2>1
  <2>3. \A i \in 1 .. more : first + i - 1 \in 1 .. count + 1
    BY <1>1, <1>3
  <2>4. \A i \in 1 .. more : longer[first + i - 1] \in Sample
    BY <1>8, <2>3
  <2> HIDE DEF longer, first
  <2>5. more \in Nat
    BY <1>1, <1>3
  <2>6. LastOf(longer) = [i \in 1 .. more |-> longer[first + i - 1]]
    BY <1>9, <2>2
  <2>7. LastOf(longer) \in Seq(Sample) /\ Len(LastOf(longer)) = more
    BY <2>4, <2>5, <2>6
  <2> QED BY <2>6, <2>7
<1>11. /\ Series(further, after, more) \in Seq(Sample) /\ Len(Series(further, after, more)) = more
       /\ \A i \in 1 .. more : Series(further, after, more)[i] = further[SlotOf(after, more, i)]
  BY <1>5, SeriesIsSequence
<1>12. ASSUME NEW i \in 1 .. more
       PROVE  further[SlotOf(after, more, i)] = longer[first + i - 1]
  <2>1. after \in 0 .. Seconds - 1 /\ more \in 0 .. Seconds /\ i \in Nat
    BY <1>1, <1>2, <1>3
  <2>2. SlotOf(after, more, i)
          = IF after - more + i - 1 >= 0 THEN after - more + i - 1 ELSE after - more + i - 1 + Seconds
    BY <2>1, SlotIsCounted
  <2>3. CASE i = more
    <3>1. SlotOf(after, more, i) = at
      BY <1>1, <1>2, <2>1, <2>2, <2>3
    <3>2. first + i - 1 = count + 1
      BY <1>1, <1>3, <2>3
    <3> QED BY <1>1, <1>8, <3>1, <3>2 DEF further
  <2>4. CASE i < more
    <3> DEFINE k == first + i - 1
    <3>1. k \in 1 .. count
      BY <1>1, <1>3, <2>1, <2>4
    <3>2. SlotOf(at, count, k)
            = IF at - count + k - 1 >= 0 THEN at - count + k - 1 ELSE at - count + k - 1 + Seconds
      <4> HIDE DEF k
      <4> QED BY <1>1, <3>1, SlotIsCounted
    <3>3. SlotOf(after, more, i) = SlotOf(at, count, k) /\ SlotOf(at, count, k) # at
      BY <1>1, <1>2, <1>3, <2>1, <2>2, <2>4, <3>2
    <3>4. SlotOf(at, count, k) \in 0 .. Seconds - 1
      BY <1>1, <3>1, <3>2
    <3>5. further[SlotOf(after, more, i)] = slots[SlotOf(at, count, k)]
      BY <1>1, <3>3, <3>4 DEF further
    <3> HIDE DEF k, longer
    <3>6. longer[k] = slots[SlotOf(at, count, k)]
      BY <1>7, <1>8, <3>1
    <3> QED BY <3>5, <3>6 DEF k
  <2>5. i = more \/ i < more
    BY <2>1
  <2> QED BY <2>3, <2>4, <2>5
<1>13. Series(further, after, more) = LastOf(longer)
  <2> HIDE DEF longer, first
  <2>1. \A i \in 1 .. more : Series(further, after, more)[i] = LastOf(longer)[i]
    BY <1>10, <1>11, <1>12
  <2> QED BY <1>10, <1>11, <2>1
<1> QED BY <1>5, <1>13 DEF further, after, more, old, Written, After, More

(* The first of a new minute.                                              *)
LEMMA FirstSample ==
  ASSUME NEW x \in Sample
  PROVE  LET slots == [i \in 0 .. Seconds - 1 |-> Silence]
         IN  /\ IsRing(slots, 0, 0)
             /\ LastOf(Append(Series(slots, 0, 0), x)) = <<x>>
<1> DEFINE slots == [i \in 0 .. Seconds - 1 |-> Silence]
<1>1. Seconds \in Nat \ {0}
  BY FiguresAssumption DEF FiguresAssumption
<1>2. Silence \in Sample
  BY CeilingIsFastest DEF Sample, Silence
<1>3. IsRing(slots, 0, 0)
  BY <1>1, <1>2 DEF IsRing
<1>4. Series(slots, 0, 0) = << >>
  BY DEF Series
<1>5. Append(<< >>, x) = <<x>> /\ Len(<<x>>) = 1
  OBVIOUS
<1>6. Max({1, 1 - Seconds + 1}) = 1
  <2>1. 1 \in {1, 1 - Seconds + 1} /\ \A j \in {1, 1 - Seconds + 1} : 1 >= j
    BY <1>1
  <2>2. /\ Max({1, 1 - Seconds + 1}) \in {1, 1 - Seconds + 1}
        /\ \A j \in {1, 1 - Seconds + 1} : Max({1, 1 - Seconds + 1}) >= j
    BY <2>1 DEF Max
  <2> QED BY <1>1, <2>2
<1>7. LastOf(<<x>>) = SubSeq(<<x>>, 1, 1)
  BY <1>5, <1>6 DEF LastOf
<1>8. SubSeq(<<x>>, 1, 1) = <<x>>
  <2> DEFINE s == <<x>>
  <2>1. s \in Seq(Sample) /\ Len(s) = 1
    OBVIOUS
  <2> HIDE DEF s
  <2>2. SubSeq(s, 1, 1) = [i \in 1 .. 1 |-> s[i]]
    BY <2>1
  <2>3. s = [i \in 1 .. 1 |-> s[i]]
    BY <2>1
  <2> QED BY <2>2, <2>3 DEF s
<1> QED BY <1>3, <1>4, <1>5, <1>7, <1>8

----------------------------------------------------------------------------
(* The two lines of the footer.                                            *)

LEMMA LargerIsEither ==
  ASSUME NEW x \in Sample
  PROVE  /\ Larger(x) \in {x.down, x.up} /\ Larger(x) \in 0 .. Ceiling
         /\ x.down \in Nat /\ x.down <= Larger(x) /\ x.up \in Nat /\ x.up <= Larger(x)
<1>1. x.down \in 0 .. Ceiling /\ x.up \in 0 .. Ceiling /\ Ceiling \in Nat
  BY CeilingIsFastest DEF Sample
<1>2. Larger(x) = IF x.down <= x.up THEN x.up ELSE x.down
  BY <1>1, GreaterOfTwo DEF Larger
<1> QED BY <1>1, <1>2

LEMMA PartOfHeight ==
  ASSUME NEW scale \in Nat \ {0}, NEW v \in Nat, v <= scale
  PROVE  /\ Height - (v * Height) \div scale \in 0 .. Height
         /\ v = scale => Height - (v * Height) \div scale = 0
<1>1. (v * 100) \div scale \in 0 .. 100
  <2>1. v * 100 \in Nat /\ v * 100 <= scale * 100
    OBVIOUS
  <2>2. (v * 100) \div scale \in Nat
    BY <2>1
  <2>3. (v * 100) \div scale <= 100
    BY <2>1
  <2> QED BY <2>2, <2>3
<1>2. (scale * 100) \div scale = 100
  OBVIOUS
<1> QED BY <1>1, <1>2 DEF Height

LEMMA LinesFit ==
  ASSUME NEW series \in Seq(Sample), Len(series) <= Seconds
  PROVE  LET spark == Spark(series)
         IN  spark # <<>> =>
               /\ \A i \in DOMAIN spark : {spark[i].down, spark[i].up} \subseteq 0 .. Height
               /\ \E i \in DOMAIN spark : 0 \in {spark[i].down, spark[i].up}
               /\ spark[Len(spark)].x = Seconds - 1 /\ spark[1].x >= 0
<1> DEFINE tops  == {Larger(series[i]) : i \in DOMAIN series}
           scale == IF series = <<>> THEN 0 ELSE Max(tops)
           spark == [i \in DOMAIN series |->
                       [x |-> Seconds - Len(series) + i - 1,
                        down |-> Height - (series[i].down * Height) \div scale,
                        up |-> Height - (series[i].up * Height) \div scale]]
<1>1. CASE Len(series) < 2 \/ scale = 0
  BY <1>1 DEF Spark
<1>2. CASE ~(Len(series) < 2 \/ scale = 0)
  <2>1. Spark(series) = spark
    BY <1>2 DEF Spark
  <2>2. /\ Len(series) \in Nat /\ Len(series) >= 2 /\ DOMAIN series = 1 .. Len(series)
        /\ series # <<>> /\ Seconds \in Nat
    BY <1>2, FiguresAssumption DEF FiguresAssumption
  <2>3. \A i \in DOMAIN series : series[i] \in Sample
    OBVIOUS
  <2>4. scale = Max(tops) /\ scale # 0
    BY <1>2, <2>2
  <2> HIDE DEF scale
  <2>5. tops \in SUBSET (0 .. Ceiling)
    BY <2>3, LargerIsEither
  <2>6. tops # {}
    BY <2>2
  <2>7. Max(tops) \in tops /\ \A j \in tops : j <= Max(tops)
    <3> HIDE DEF tops
    <3> QED BY <2>5, <2>6, MaxIsGreatest, CeilingIsFastest
  <2>8. scale \in Nat \ {0}
    BY <2>4, <2>5, <2>7, CeilingIsFastest
  <2>9. \A i \in DOMAIN series :
          series[i].down \in Nat /\ series[i].down <= scale /\ series[i].up \in Nat /\ series[i].up <= scale
    <3> SUFFICES ASSUME NEW i \in DOMAIN series
                 PROVE  series[i].down \in Nat /\ series[i].down <= scale
                          /\ series[i].up \in Nat /\ series[i].up <= scale
      OBVIOUS
    <3>1. Larger(series[i]) <= scale
      BY <2>4, <2>7
    <3>2. /\ Larger(series[i]) \in 0 .. Ceiling
          /\ series[i].down \in Nat /\ series[i].down <= Larger(series[i])
          /\ series[i].up \in Nat /\ series[i].up <= Larger(series[i])
      BY <2>3, LargerIsEither
    <3> QED BY <2>8, <3>1, <3>2, CeilingIsFastest
  <2>10. PICK k \in DOMAIN series : Larger(series[k]) = scale
    BY <2>4, <2>7
  <2>11. series[k].down = scale \/ series[k].up = scale
    BY <2>3, <2>10, LargerIsEither
  <2>12. /\ DOMAIN spark = DOMAIN series
         /\ \A i \in DOMAIN series :
              /\ spark[i].x = Seconds - Len(series) + i - 1
              /\ spark[i].down = Height - (series[i].down * Height) \div scale
              /\ spark[i].up = Height - (series[i].up * Height) \div scale
    OBVIOUS
  <2>13. Len(spark) = Len(series)
    BY <2>2
  <2> HIDE DEF spark, tops
  <2>14. \A i \in DOMAIN spark : {spark[i].down, spark[i].up} \subseteq 0 .. Height
    <3> SUFFICES ASSUME NEW i \in DOMAIN series
                 PROVE  spark[i].down \in 0 .. Height /\ spark[i].up \in 0 .. Height
      BY <2>12
    <3> QED BY <2>8, <2>9, <2>12, PartOfHeight
  <2>15. spark[k].down = 0 \/ spark[k].up = 0
    BY <2>8, <2>9, <2>11, <2>12, PartOfHeight
  <2>16. spark[Len(spark)].x = Seconds - 1 /\ spark[1].x >= 0
    <3>1. 1 \in DOMAIN series /\ Len(series) \in DOMAIN series
      BY <2>2
    <3>2. spark[Len(series)].x = Seconds - Len(series) + Len(series) - 1
      BY <2>12, <3>1
    <3>3. spark[1].x = Seconds - Len(series) + 1 - 1
      BY <2>12, <3>1
    <3> QED BY <2>2, <2>13, <3>2, <3>3
  <2> QED BY <2>1, <2>12, <2>14, <2>15, <2>16
<1> QED BY <1>1, <1>2

----------------------------------------------------------------------------
(* What the figures rest on.                                               *)

(* Commands do not come while a torrent may stand still: they are turns of *)
(* the loop too.  Who unticks everything has no torrent that stops.        *)
Apart ==
  \A w \in FigureWorlds :
    /\ ~({"commands", "lulls"} \subseteq w)
    /\ ~({"unticks", "states"} \subseteq w)

Report ==
  [state : {"live", "paused", "initializing", "error"}, paused : BOOLEAN, speed : 0 .. Ceiling,
   upload : 0 .. Ceiling, seen : {0, 1}, peers : {0, 1}, size : {0, Size}, done : Nat]

IsReal(s) ==
  /\ s \in Report
  /\ "lulls" \notin ways => s.speed > 0
  /\ "states" \notin ways => s.state = "live"

(* Whatever bounds what was reported bounds what is shown.                 *)
RatesAreTrue ==
  /\ speeds \in SUBSET (1 .. Ceiling)
  /\ speeds = {} => down = AtRest
  /\ speeds # {} =>
       \A lo \in Nat \ {0}, hi \in Nat :
         (\A v \in speeds : lo <= v /\ v <= hi) => Within(down, lo, hi)
  /\ up = AtRest \/ Within(up, 1, Ceiling)

(* The turns counted are the seconds that passed.                          *)
TurnsAreSeconds ==
  /\ still = lull /\ still \in 0 .. Patience
  /\ stats.size = 0 => still = 0

MinuteIsRing ==
  /\ IsRing(ring, next, len) /\ gap \in BOOLEAN
  /\ ~gap => minute = Series(ring, next, len) /\ handed.series = minute

RowStates == {"paused", "checking", "downloading", "seeding", "error", "queued"}

Row ==
  [size : Nat, done : Nat, state : RowStates, down : 0 .. Ceiling, up : 0 .. Ceiling,
   eta : Int, stall : {"none", "metadata", "no peers", "connecting", "idle", "no files"},
   error : BOOLEAN]

HandedIsRow ==
  /\ handed \in [row : Row, series : Seq(Sample), guessed : BOOLEAN]
  /\ Len(handed.series) <= Seconds

WaysAre ==
  /\ ways \in FigureWorlds
  /\ ticked \in BOOLEAN /\ behind \in BOOLEAN /\ hidden \in BOOLEAN
  /\ "unticks" \notin ways => ticked

(* What holds whatever may happen.                                         *)
FiguresAlways ==
  /\ WaysAre /\ IsReal(stats) /\ RatesAreTrue /\ MinuteIsRing /\ HandedIsRow
  /\ still \in 0 .. Patience /\ lull \in 0 .. Patience

(* What commands in a lull and stops without a tick would break.           *)
FiguresInv ==
  /\ FiguresAlways /\ TurnsAreSeconds
  /\ StallIsEarned /\ StillnessIsTold /\ StoppedShowsNothing

LEMMA FiguresBegin == FiguresInit => FiguresInv
<1> SUFFICES ASSUME FiguresInit PROVE FiguresInv
  OBVIOUS
<1>1. /\ Ceiling \in Nat /\ 1 <= Ceiling /\ Seconds \in Nat \ {0} /\ Patience \in Nat \ {0}
      /\ Size \in Nat
  BY CeilingIsFastest, FiguresAssumption DEF FiguresAssumption
<1>2. WaysAre
  BY DEF FiguresInit, WaysAre
<1>3. IsReal(stats)
  BY <1>1 DEF FiguresInit, FirstStats, IsReal, Report
<1>4. RatesAreTrue
  BY DEF FiguresInit, RatesAreTrue
<1>5. TurnsAreSeconds
  BY <1>1 DEF FiguresInit, TurnsAreSeconds
<1>6. MinuteIsRing
  <2>1. Silence \in Sample
    BY CeilingIsFastest DEF Sample, Silence
  <2>2. IsRing(ring, next, len)
    BY <1>1, <2>1 DEF FiguresInit, IsRing
  <2>3. Series(ring, next, len) = << >>
    BY DEF FiguresInit, Series
  <2> QED BY <2>2, <2>3 DEF FiguresInit, MinuteIsRing
<1>7. HandedIsRow
  <2>1. NoRow \in Row
    BY <1>1 DEF NoRow, Row, RowStates, NoValue
  <2> QED BY <1>1, <2>1 DEF FiguresInit, HandedIsRow
<1>8. StallIsEarned /\ StillnessIsTold /\ StoppedShowsNothing
  BY <1>1 DEF FiguresInit, StallIsEarned, StillnessIsTold, StoppedShowsNothing, NoRow, Unmoved,
     StatusKind, IsFault
<1> QED BY <1>2, <1>3, <1>4, <1>5, <1>6, <1>7, <1>8 DEF FiguresInv, FiguresAlways, TurnsAreSeconds

(* What librqbit reports next is as real as what it reported.              *)
LEMMA ReportsAreReal ==
  ASSUME IsReal(stats), NEW s \in Reports
  PROVE  IsReal(s) /\ (s.size = 0 => stats.size = 0)
<1>1. Ceiling \in Nat /\ Rates \subseteq 0 .. Ceiling /\ Max(Rates) \in Rates /\ Amounts \subseteq Nat
  BY CeilingIsFastest, FastestIsReported, FiguresAssumption DEF FiguresAssumption
<1>2. stats \in Report
  BY DEF IsReal
<1>3. \/ s = stats
      \/ s \in May("rates", {Moved(v) : v \in Rates \ {0}})
      \/ s \in May("uploads", {Uploaded(v) : v \in Rates})
      \/ s \in May("lulls", {Moved(v) : v \in {0, Max(Rates)}})
      \/ s \in May("peers", {Met(p) : p \in {0, 1}})
      \/ s \in May("metadata", {Told})
      \/ s \in May("amounts", {Has(n) : n \in Amounts})
      \/ s \in May("states", {Became(x, p) :
                               x \in {"live", "paused", "initializing", "error"}, p \in BOOLEAN})
  BY DEF Reports
<1>4. CASE s = stats
  BY <1>4
<1>5. CASE s \in May("rates", {Moved(v) : v \in Rates \ {0}})
  <2>1. PICK v \in Rates \ {0} : s = Moved(v)
    BY <1>5 DEF May
  <2>2. v \in 0 .. Ceiling /\ v > 0
    BY <1>1
  <2> QED BY <1>2, <2>1, <2>2 DEF IsReal, Report, Moved
<1>6. CASE s \in May("uploads", {Uploaded(v) : v \in Rates})
  <2>1. PICK v \in Rates : s = Uploaded(v)
    BY <1>6 DEF May
  <2>2. v \in 0 .. Ceiling
    BY <1>1
  <2> QED BY <1>2, <2>1, <2>2 DEF IsReal, Report, Uploaded
<1>7. CASE s \in May("lulls", {Moved(v) : v \in {0, Max(Rates)}})
  <2>1. "lulls" \in ways
    BY <1>7 DEF May
  <2>2. PICK v \in {0, Max(Rates)} : s = Moved(v)
    BY <1>7, <2>1 DEF May
  <2>3. v \in 0 .. Ceiling
    BY <1>1, <2>2
  <2> QED BY <1>2, <2>1, <2>2, <2>3 DEF IsReal, Report, Moved
<1>8. CASE s \in May("peers", {Met(p) : p \in {0, 1}})
  <2>1. PICK p \in {0, 1} : s = Met(p)
    BY <1>8 DEF May
  <2> QED BY <1>2, <2>1 DEF IsReal, Report, Met
<1>9. CASE s \in May("metadata", {Told})
  <2>1. s = Told
    BY <1>9 DEF May
  <2> QED BY <1>2, <2>1 DEF IsReal, Report, Told
<1>10. CASE s \in May("amounts", {Has(n) : n \in Amounts})
  <2>1. PICK n \in Amounts : s = Has(n)
    BY <1>10 DEF May
  <2>2. n \in Nat
    BY <1>1
  <2> QED BY <1>2, <2>1, <2>2 DEF IsReal, Report, Has
<1>11. CASE s \in May("states", {Became(x, p) :
                        x \in {"live", "paused", "initializing", "error"}, p \in BOOLEAN})
  <2>1. "states" \in ways
    BY <1>11 DEF May
  <2>2. PICK x \in {"live", "paused", "initializing", "error"}, p \in BOOLEAN : s = Became(x, p)
    BY <1>11, <2>1 DEF May
  <2> QED BY <1>2, <2>1, <2>2 DEF IsReal, Report, Became
<1> QED BY <1>3, <1>4, <1>5, <1>6, <1>7, <1>8, <1>9, <1>10, <1>11

----------------------------------------------------------------------------
(* What a turn of the loop publishes, part by part.                        *)
NewDown(s) == Update(down, IF Live(s) THEN s.speed ELSE 0)
NewUp(s)   == Update(up, IF Live(s) THEN s.upload ELSE 0)
Bare(s)    == ToRow(s, NewDown(s), NewUp(s))
Waited(s)  == Patient(Bare(s), still)
NewRow(s)  == Annotated([Bare(s) EXCEPT !.stall = Stall(Bare(s), Waited(s), s)])

Visible(acted) == ~hidden \/ acted

PublishesSo(s, acted) ==
  /\ stats' = s /\ down' = NewDown(s) /\ up' = NewUp(s) /\ still' = Waited(s)
  /\ gap' = ~Visible(acted)
  /\ speeds' = IF ~Live(s) \/ s.speed = 0 THEN {} ELSE speeds \cup {s.speed}
  /\ lull' = IF ~Standing(NewRow(s)) THEN 0
             ELSE IF acted THEN lull ELSE Min({lull + 1, Patience})
  /\ minute' = IF ~Visible(acted) THEN minute
               ELSE IF gap THEN <<Total(NewRow(s))>>
               ELSE LastOf(Append(minute, Total(NewRow(s))))
  /\ handed' = IF Visible(acted)
               THEN [row |-> NewRow(s), series |-> Series(ring', next', len'), guessed |-> FALSE]
               ELSE handed
  /\ IF Visible(acted) /\ gap
     THEN /\ ring' = [[i \in DOMAIN ring |-> Silence] EXCEPT ![0] = Total(NewRow(s))]
          /\ next' = (0 + 1) % Seconds /\ len' = Min({0 + 1, Seconds})
     ELSE /\ ring' = [ring EXCEPT ![next] = Total(NewRow(s))]
          /\ next' = (next + 1) % Seconds /\ len' = Min({len + 1, Seconds})

LEMMA FiguresArePublished ==
  ASSUME NEW s, NEW acted \in BOOLEAN, PublishFigures(s, acted)
  PROVE  PublishesSo(s, acted)
BY DEF PublishFigures, PublishesSo, NewDown, NewUp, Bare, Waited, NewRow, Visible, Forgets

LEMMA DownStaysTrue ==
  ASSUME RatesAreTrue, NEW s \in Report
  PROVE  LET now == IF ~Live(s) \/ s.speed = 0 THEN {} ELSE speeds \cup {s.speed}
         IN  /\ now \in SUBSET (1 .. Ceiling)
             /\ now = {} => NewDown(s) = AtRest
             /\ now # {} =>
                  \A lo \in Nat \ {0}, hi \in Nat :
                    (\A v \in now : lo <= v /\ v <= hi) => Within(NewDown(s), lo, hi)
<1>1. Ceiling \in Nat /\ 1 <= Ceiling /\ s.speed \in 0 .. Ceiling
  BY CeilingIsFastest DEF Report
<1>2. CASE ~Live(s) \/ s.speed = 0
  <2>1. NewDown(s) = Update(down, 0)
    BY <1>2 DEF NewDown
  <2> QED BY <1>2, <2>1, NoSampleIsRest
<1>3. CASE Live(s) /\ s.speed # 0
  <2> DEFINE now == speeds \cup {s.speed}
  <2>1. NewDown(s) = Update(down, s.speed)
    BY <1>3 DEF NewDown
  <2>2. s.speed \in Nat \ {0} /\ s.speed \in 1 .. Ceiling
    BY <1>1, <1>3
  <2>3. ASSUME NEW lo \in Nat \ {0}, NEW hi \in Nat, \A v \in now : lo <= v /\ v <= hi
        PROVE  Within(Update(down, s.speed), lo, hi)
    <3>1. lo <= s.speed /\ s.speed <= hi
      BY <2>3
    <3>2. CASE speeds = {}
      <4>1. down = AtRest
        BY <3>2 DEF RatesAreTrue
      <4> QED BY <2>2, <3>1, <4>1, FirstSampleIsWhole
    <3>3. CASE speeds # {}
      <4>1. \A v \in speeds : lo <= v /\ v <= hi
        BY <2>3
      <4>2. Within(down, lo, hi)
        BY <3>3, <4>1 DEF RatesAreTrue
      <4> QED BY <2>2, <3>1, <4>2, NextSampleWithin
    <3> QED BY <3>2, <3>3
  <2>4. now \in SUBSET (1 .. Ceiling) /\ now # {}
    BY <2>2 DEF RatesAreTrue
  <2> QED BY <1>3, <2>1, <2>3, <2>4
<1> QED BY <1>2, <1>3

LEMMA DownIsShown ==
  ASSUME RatesAreTrue, NEW s \in Report
  PROVE  /\ NewDown(s).shown \in 0 .. Ceiling
         /\ Live(s) /\ s.speed > 0 => NewDown(s).shown > 0
         /\ ~(Live(s) /\ s.speed > 0) => NewDown(s).shown = 0
<1>1. Ceiling \in Nat /\ 1 <= Ceiling /\ s.speed \in 0 .. Ceiling
  BY CeilingIsFastest DEF Report
<1>2. CASE ~(Live(s) /\ s.speed > 0)
  <2>1. ~Live(s) \/ s.speed = 0
    BY <1>1, <1>2
  <2>2. NewDown(s) = AtRest
    BY <2>1, DownStaysTrue
  <2> QED BY <1>1, <1>2, <2>2 DEF AtRest
<1>3. CASE Live(s) /\ s.speed > 0
  <2> DEFINE now == speeds \cup {s.speed}
  <2>1. \A v \in now : 1 <= v /\ v <= Ceiling
    BY <1>1, <1>3 DEF RatesAreTrue
  <2>2. Within(NewDown(s), 1, Ceiling)
    <3>1. ~(~Live(s) \/ s.speed = 0)
      BY <1>1, <1>3
    <3>2. now # {}
      OBVIOUS
    <3>3. \A lo \in Nat \ {0}, hi \in Nat :
            (\A v \in now : lo <= v /\ v <= hi) => Within(NewDown(s), lo, hi)
      BY <3>1, <3>2, DownStaysTrue
    <3>4. 1 \in Nat \ {0} /\ Ceiling \in Nat
      BY <1>1
    <3> HIDE DEF now
    <3> QED BY <2>1, <3>3, <3>4
  <2> QED BY <1>1, <1>3, <2>2 DEF Within
<1> QED BY <1>2, <1>3

LEMMA UpStaysTrue ==
  ASSUME RatesAreTrue, NEW s \in Report
  PROVE  /\ NewUp(s) = AtRest \/ Within(NewUp(s), 1, Ceiling)
         /\ NewUp(s).shown \in 0 .. Ceiling
         /\ ~Live(s) => NewUp(s).shown = 0
<1>1. Ceiling \in Nat /\ 1 <= Ceiling /\ s.upload \in 0 .. Ceiling
  BY CeilingIsFastest DEF Report
<1>2. CASE ~Live(s) \/ s.upload = 0
  <2>1. NewUp(s) = Update(up, 0)
    BY <1>2 DEF NewUp
  <2> QED BY <1>1, <2>1, NoSampleIsRest DEF AtRest
<1>3. CASE Live(s) /\ s.upload # 0
  <2>1. NewUp(s) = Update(up, s.upload)
    BY <1>3 DEF NewUp
  <2>2. s.upload \in Nat \ {0} /\ 1 <= s.upload /\ s.upload <= Ceiling /\ 1 \in Nat \ {0}
    BY <1>1, <1>3
  <2>3. Within(Update(up, s.upload), 1, Ceiling)
    <3>1. CASE up = AtRest
      BY <1>1, <2>2, <3>1, FirstSampleIsWhole
    <3>2. CASE Within(up, 1, Ceiling)
      BY <1>1, <2>2, <3>2, NextSampleWithin
    <3> QED BY <3>1, <3>2 DEF RatesAreTrue
  <2> QED BY <1>1, <1>3, <2>1, <2>3 DEF Within
<1> QED BY <1>2, <1>3

----------------------------------------------------------------------------
(* The row.                                                                *)
LEMMA BareIs ==
  ASSUME NEW s \in Report, RatesAreTrue
  PROVE  /\ Bare(s).size = s.size /\ Bare(s).done = s.done /\ Bare(s).state = StateOf(s)
         /\ Bare(s).down = NewDown(s).shown /\ Bare(s).up = NewUp(s).shown
         /\ Bare(s).eta \in Int /\ (~Live(s) => Bare(s).eta = NoValue)
         /\ StateOf(s) \in {"error", "paused", "checking", "seeding", "downloading"}
         /\ StateOf(s) \in {"seeding", "downloading"} <=> Live(s)
         /\ StateOf(s) = "downloading" /\ s.size # 0 => s.done < s.size
<1>1. /\ s.size \in Nat /\ s.done \in Nat /\ s.paused \in BOOLEAN
      /\ s.state \in {"live", "paused", "initializing", "error"}
  BY FiguresAssumption DEF Report, FiguresAssumption
<1>2. /\ StateOf(s) \in {"error", "paused", "checking", "seeding", "downloading"}
      /\ StateOf(s) \in {"seeding", "downloading"} <=> Live(s)
      /\ StateOf(s) = "downloading" /\ s.size # 0 => s.done < s.size
  BY <1>1 DEF StateOf, Live
<1>3. NewDown(s).shown \in Nat
  BY DownIsShown, CeilingIsFastest
<1>4. TimeLeft(s.size, s.done, NewDown(s).shown) \in Int /\ NoValue \in Int
  BY <1>1, <1>3 DEF TimeLeft, NoValue
<1>5. /\ Bare(s).size = s.size /\ Bare(s).done = s.done /\ Bare(s).state = StateOf(s)
      /\ Bare(s).down = NewDown(s).shown /\ Bare(s).up = NewUp(s).shown
      /\ Bare(s).eta = IF Live(s) THEN TimeLeft(s.size, s.done, NewDown(s).shown) ELSE NoValue
  BY DEF Bare, ToRow
<1> QED BY <1>2, <1>4, <1>5

Reason(s) == IF ticked THEN Stall(Bare(s), Waited(s), s) ELSE "no files"

LEMMA AnnotatedIs ==
  ASSUME NEW row \in Row
  PROVE  /\ Annotated(row) \in Row
         /\ Annotated(row).size = row.size /\ Annotated(row).done = row.done
         /\ Annotated(row).down = row.down /\ Annotated(row).up = row.up
         /\ Annotated(row).eta = row.eta
         /\ Annotated(row).stall = IF ticked THEN row.stall ELSE "no files"
         /\ Annotated(row).state = IF row.state = "paused" /\ behind THEN "queued" ELSE row.state
<1> DEFINE why == IF ticked THEN row.stall ELSE "no files"
           how == IF row.state = "paused" /\ behind THEN "queued" ELSE row.state
           half == [row EXCEPT !.stall = why]
           full == [half EXCEPT !.state = how]
<1>1. Annotated(row) = full
  BY DEF Annotated
<1>2. /\ why \in {"none", "metadata", "no peers", "connecting", "idle", "no files"}
      /\ how \in RowStates
  BY DEF Row, RowStates
<1> HIDE DEF why, how
<1>3. /\ half \in Row /\ half.size = row.size /\ half.done = row.done /\ half.down = row.down
      /\ half.up = row.up /\ half.eta = row.eta /\ half.stall = why
  BY <1>2 DEF Row
<1> HIDE DEF half
<1>4. /\ full \in Row /\ full.size = half.size /\ full.done = half.done /\ full.down = half.down
      /\ full.up = half.up /\ full.eta = half.eta /\ full.stall = half.stall /\ full.state = how
  BY <1>2, <1>3 DEF Row
<1> HIDE DEF full
<1> QED BY <1>1, <1>3, <1>4 DEF why, how

LEMMA NewRowIs ==
  ASSUME NEW s \in Report, RatesAreTrue
  PROVE  /\ NewRow(s).size = s.size /\ NewRow(s).done = s.done
         /\ NewRow(s).state = IF StateOf(s) = "paused" /\ behind THEN "queued" ELSE StateOf(s)
         /\ NewRow(s).down = NewDown(s).shown /\ NewRow(s).up = NewUp(s).shown
         /\ NewRow(s).eta = Bare(s).eta /\ NewRow(s).stall = Reason(s)
         /\ NewRow(s) \in Row /\ Total(NewRow(s)) \in Sample
<1> DEFINE stall == Stall(Bare(s), Waited(s), s)
           row   == [Bare(s) EXCEPT !.stall = stall]
<1>1. s.size \in Nat /\ s.done \in Nat
  BY FiguresAssumption DEF Report, FiguresAssumption
<1>2. stall \in {"none", "metadata", "no peers", "connecting", "idle"}
  BY DEF Stall
<1>3. Bare(s) \in Row
  <2>1. NewDown(s).shown \in 0 .. Ceiling /\ NewUp(s).shown \in 0 .. Ceiling
    BY DownIsShown, UpStaysTrue
  <2>2. Bare(s).eta \in Int /\ StateOf(s) \in RowStates
    BY BareIs DEF RowStates
  <2> DEFINE failed == s.state = "error"
             left   == Bare(s).eta
  <2>3. failed \in BOOLEAN
    OBVIOUS
  <2>4. Bare(s) = [size |-> s.size, done |-> s.done, state |-> StateOf(s),
                   down |-> NewDown(s).shown, up |-> NewUp(s).shown, eta |-> left,
                   stall |-> "none", error |-> failed]
    BY DEF Bare, ToRow
  <2>5. left \in Int
    BY <2>2
  <2> HIDE DEF failed, left
  <2> QED BY <1>1, <2>1, <2>2, <2>3, <2>4, <2>5 DEF Row
<1>4. /\ Bare(s).size = s.size /\ Bare(s).done = s.done /\ Bare(s).state = StateOf(s)
      /\ Bare(s).down = NewDown(s).shown /\ Bare(s).up = NewUp(s).shown
  BY BareIs
<1>5. /\ row \in Row /\ row.size = s.size /\ row.done = s.done /\ row.state = StateOf(s)
      /\ row.down = NewDown(s).shown /\ row.up = NewUp(s).shown /\ row.eta = Bare(s).eta
      /\ row.stall = stall
  <2> HIDE DEF stall
  <2> QED BY <1>2, <1>3, <1>4 DEF Row
<1>6. NewRow(s) = Annotated(row)
  BY DEF NewRow
<1> HIDE DEF row
<1>7. NewRow(s) \in Row
  BY <1>5, <1>6, AnnotatedIs
<1>8. Total(NewRow(s)) \in Sample
  BY <1>7 DEF Total, Row, Sample
<1>9. /\ NewRow(s).size = row.size /\ NewRow(s).done = row.done
      /\ NewRow(s).down = row.down /\ NewRow(s).up = row.up /\ NewRow(s).eta = row.eta
      /\ NewRow(s).stall = IF ticked THEN row.stall ELSE "no files"
      /\ NewRow(s).state = IF row.state = "paused" /\ behind THEN "queued" ELSE row.state
  <2>1. row \in Row
    BY <1>5
  <2>2. /\ Annotated(row).size = row.size /\ Annotated(row).done = row.done
        /\ Annotated(row).down = row.down /\ Annotated(row).up = row.up
        /\ Annotated(row).eta = row.eta
        /\ Annotated(row).stall = IF ticked THEN row.stall ELSE "no files"
        /\ Annotated(row).state = IF row.state = "paused" /\ behind THEN "queued" ELSE row.state
    BY <2>1, AnnotatedIs
  <2> QED BY <1>6, <2>2
<1>10. NewRow(s).stall = Reason(s)
  BY <1>5, <1>9 DEF Reason
<1> HIDE DEF stall
<1> QED BY <1>5, <1>7, <1>8, <1>9, <1>10

(* "A stopped torrent is not failing to move, it is not trying."           *)
LEMMA StoppedWaitsForNothing ==
  ASSUME NEW s \in Report, RatesAreTrue, TurnsAreSeconds,
         StateOf(s) \in {"paused", "error", "checking", "seeding"}
  PROVE  /\ s.size = 0 /\ IsActive(StateOf(s)) => Waited(s) = still
         /\ ~(s.size = 0 /\ IsActive(StateOf(s))) => Waited(s) = 0
BY BareIs DEF Waited, Patient

LEMMA NewRowStopped ==
  ASSUME NEW s, IsReal(s), RatesAreTrue, TurnsAreSeconds, WaysAre, Apart,
         NewRow(s).state \in {"paused", "queued", "error"}
  PROVE  /\ NewRow(s).down = 0 /\ NewRow(s).up = 0 /\ NewRow(s).eta = NoValue
         /\ StatusKind(NewRow(s)) = NewRow(s).state
<1>1. s \in Report /\ Patience \in Nat \ {0}
  BY FiguresAssumption DEF IsReal, FiguresAssumption
<1>2. StateOf(s) \in {"paused", "error"} /\ ~Live(s)
  BY <1>1, NewRowIs, BareIs
<1>3. NewRow(s).down = 0 /\ NewRow(s).up = 0 /\ NewRow(s).eta = NoValue
  BY <1>1, <1>2, NewRowIs, BareIs, DownIsShown, UpStaysTrue
<1>4. ticked
  BY <1>2 DEF IsReal, Live, WaysAre, Apart
<1>5. Waited(s) = 0
  BY <1>1, <1>2, StoppedWaitsForNothing DEF IsActive
<1>6. Reason(s) = "none"
  BY <1>1, <1>2, <1>4, <1>5, BareIs DEF Reason, Stall, IsActive
<1> QED BY <1>1, <1>3, <1>6, NewRowIs DEF StatusKind, IsFault

(* A turn is a second, but for a command's, when nothing stands still.     *)
LEMMA WaitedIsLull ==
  ASSUME NEW s, IsReal(s), RatesAreTrue, TurnsAreSeconds, WaysAre, Apart,
         s.size = 0 => stats.size = 0,
         NEW acted \in BOOLEAN, acted => "commands" \in ways
  PROVE  LET lulled == IF ~Standing(NewRow(s)) THEN 0
                       ELSE IF acted THEN lull ELSE Min({lull + 1, Patience})
         IN  /\ Waited(s) = lulled /\ Waited(s) \in 0 .. Patience
             /\ s.size = 0 => Waited(s) = 0
             /\ Standing(NewRow(s)) => ~acted
<1>1. s \in Report /\ Patience \in Nat \ {0} /\ s.size \in Nat /\ s.speed \in Nat
  BY FiguresAssumption, CeilingIsFastest DEF IsReal, FiguresAssumption, Report
<1>2. /\ Bare(s).size = s.size /\ Bare(s).state = StateOf(s) /\ Bare(s).down = NewDown(s).shown
      /\ NewDown(s).shown \in Nat
  BY <1>1, BareIs, DownIsShown, CeilingIsFastest
<1>3. Standing(NewRow(s)) <=> StateOf(s) = "downloading" /\ s.size > 0 /\ NewDown(s).shown = 0
  BY <1>1, NewRowIs DEF Standing
<1>4. s.size = 0 => still = 0
  BY DEF TurnsAreSeconds
<1>5. CASE ~Standing(NewRow(s))
  <2>1. StateOf(s) = "downloading" => s.size = 0 \/ NewDown(s).shown > 0
    BY <1>1, <1>2, <1>3, <1>5
  <2>2. Waited(s) = IF s.size = 0 /\ IsActive(StateOf(s)) THEN still
                    ELSE IF StateOf(s) # "downloading" \/ NewDown(s).shown > 0 THEN 0
                    ELSE Min({still + 1, Patience})
    BY <1>2 DEF Waited, Patient
  <2>3. StateOf(s) = "downloading" => IsActive(StateOf(s))
    BY DEF IsActive
  <2>4. Waited(s) = 0
    BY <2>1, <2>2, <2>3, <1>4
  <2> QED BY <1>1, <1>5, <2>4
<1>6. CASE Standing(NewRow(s))
  <2>1. StateOf(s) = "downloading" /\ s.size > 0 /\ NewDown(s).shown = 0
    BY <1>3, <1>6
  <2>2. Waited(s) = Min({still + 1, Patience})
    BY <1>1, <1>2, <2>1 DEF Waited, Patient
  <2>3. Live(s)
    BY <1>1, <2>1, BareIs
  <2>4. ~(s.speed > 0)
    BY <1>1, <2>1, <2>3, DownIsShown
  <2>5. "lulls" \in ways
    BY <2>4 DEF IsReal
  <2>6. ~acted
    BY <2>5 DEF WaysAre, Apart
  <2>7. Min({still + 1, Patience}) \in 0 .. Patience
    <3>1. still \in Nat /\ still + 1 \in Nat
      BY <1>1 DEF TurnsAreSeconds
    <3> QED BY <1>1, <3>1, LesserOfTwo
  <2> QED BY <1>6, <2>1, <2>2, <2>6, <2>7 DEF TurnsAreSeconds
<1> QED BY <1>5, <1>6

----------------------------------------------------------------------------
(* Every step.                                                             *)
LEMMA MinuteGoesOn ==
  ASSUME MinuteIsRing, NEW x \in Sample, NEW watched \in BOOLEAN,
         IF watched /\ gap
         THEN /\ ring' = [[i \in DOMAIN ring |-> Silence] EXCEPT ![0] = x]
              /\ next' = (0 + 1) % Seconds /\ len' = Min({0 + 1, Seconds})
         ELSE /\ ring' = [ring EXCEPT ![next] = x]
              /\ next' = (next + 1) % Seconds /\ len' = Min({len + 1, Seconds})
  PROVE  LET spelled == IF gap THEN <<x>> ELSE LastOf(Append(minute, x))
         IN  /\ IsRing(ring', next', len')
             /\ watched => Series(ring', next', len') = spelled
<1>1. IsRing(ring, next, len) /\ gap \in BOOLEAN /\ DOMAIN ring = 0 .. Seconds - 1
  BY DEF MinuteIsRing, IsRing
<1>2. CASE watched /\ gap
  <2> DEFINE slots == [i \in 0 .. Seconds - 1 |-> Silence]
  <2>1. IsRing(slots, 0, 0) /\ LastOf(Append(Series(slots, 0, 0), x)) = <<x>>
    BY FirstSample
  <2>2. ring' = Written(slots, 0, x) /\ next' = After(0) /\ len' = More(0)
    BY <1>1, <1>2 DEF Written, After, More
  <2> HIDE DEF slots
  <2>3. /\ IsRing(ring', next', len')
        /\ Series(ring', next', len') = LastOf(Append(Series(slots, 0, 0), x))
    BY <2>1, <2>2, OneMoreSample
  <2> QED BY <1>2, <2>1, <2>3
<1>3. CASE ~(watched /\ gap)
  <2>1. ring' = Written(ring, next, x) /\ next' = After(next) /\ len' = More(len)
    BY <1>3 DEF Written, After, More
  <2>2. /\ IsRing(ring', next', len')
        /\ Series(ring', next', len') = LastOf(Append(Series(ring, next, len), x))
    BY <1>1, <2>1, OneMoreSample
  <2>3. watched => ~gap
    BY <1>1, <1>3
  <2> QED BY <2>2, <2>3 DEF MinuteIsRing
<1> QED BY <1>2, <1>3

LEMMA Turned ==
  ASSUME FiguresAlways, NEW acted \in BOOLEAN, Turn(acted)
  PROVE  /\ UNCHANGED <<ways, ticked, behind, hidden>>
         /\ \E s \in Report : IsReal(s) /\ (s.size = 0 => stats.size = 0) /\ PublishesSo(s, acted)
<1>1. PICK s \in Reports : PublishFigures(s, acted)
  BY DEF Turn
<1>2. IsReal(s) /\ s \in Report /\ (s.size = 0 => stats.size = 0)
  BY ReportsAreReal DEF IsReal, FiguresAlways
<1>3. PublishesSo(s, acted)
  BY <1>1, FiguresArePublished
<1>4. UNCHANGED <<ways, ticked, behind, hidden>>
  BY DEF Turn
<1> QED BY <1>2, <1>3, <1>4

LEMMA TurnKeepsAlways ==
  ASSUME FiguresAlways, NEW acted \in BOOLEAN, Turn(acted)
  PROVE  FiguresAlways'
<1>1. PICK s \in Report :
           IsReal(s) /\ (s.size = 0 => stats.size = 0) /\ PublishesSo(s, acted)
  BY Turned
<1>2. UNCHANGED <<ways, ticked, behind, hidden>>
  BY Turned
<1>3. /\ WaysAre /\ IsReal(stats) /\ RatesAreTrue /\ MinuteIsRing /\ HandedIsRow
      /\ still \in 0 .. Patience /\ lull \in 0 .. Patience
  BY DEF FiguresAlways
<1>4. IsReal(s) /\ s \in Report /\ (s.size = 0 => stats.size = 0)
  BY <1>1
<1>5. Visible(acted) \in BOOLEAN /\ Patience \in Nat \ {0} /\ s.size \in Nat
  BY <1>3, <1>4, FiguresAssumption DEF FiguresAssumption, Visible, WaysAre, Report
<1> DEFINE row == NewRow(s)
           watched == Visible(acted)
<1>6. /\ stats' = s /\ down' = NewDown(s) /\ up' = NewUp(s) /\ still' = Waited(s)
      /\ gap' = ~watched
      /\ speeds' = IF ~Live(s) \/ s.speed = 0 THEN {} ELSE speeds \cup {s.speed}
      /\ lull' = IF ~Standing(row) THEN 0 ELSE IF acted THEN lull ELSE Min({lull + 1, Patience})
      /\ minute' = IF ~watched THEN minute
                   ELSE IF gap THEN <<Total(row)>> ELSE LastOf(Append(minute, Total(row)))
      /\ handed' = IF watched
                   THEN [row |-> row, series |-> Series(ring', next', len'), guessed |-> FALSE]
                   ELSE handed
      /\ IF watched /\ gap
         THEN /\ ring' = [[i \in DOMAIN ring |-> Silence] EXCEPT ![0] = Total(row)]
              /\ next' = (0 + 1) % Seconds /\ len' = Min({0 + 1, Seconds})
         ELSE /\ ring' = [ring EXCEPT ![next] = Total(row)]
              /\ next' = (next + 1) % Seconds /\ len' = Min({len + 1, Seconds})
  BY <1>1 DEF PublishesSo
<1>7. row \in Row /\ Total(row) \in Sample
  BY <1>3, <1>4, NewRowIs
<1> HIDE DEF row, watched
<1>8. /\ IsRing(ring', next', len')
      /\ watched => Series(ring', next', len') = IF gap THEN <<Total(row)>>
                                                 ELSE LastOf(Append(minute, Total(row)))
  <2>1. watched \in BOOLEAN
    BY <1>5 DEF watched
  <2> DEFINE x == Total(row)
  <2>2. IF watched /\ gap
        THEN /\ ring' = [[i \in DOMAIN ring |-> Silence] EXCEPT ![0] = x]
             /\ next' = (0 + 1) % Seconds /\ len' = Min({0 + 1, Seconds})
        ELSE /\ ring' = [ring EXCEPT ![next] = x]
             /\ next' = (next + 1) % Seconds /\ len' = Min({len + 1, Seconds})
    BY <1>6
  <2>3. x \in Sample
    BY <1>7
  <2> HIDE DEF x
  <2>4. /\ IsRing(ring', next', len')
        /\ watched => Series(ring', next', len') = IF gap THEN <<x>> ELSE LastOf(Append(minute, x))
    BY <1>3, <2>1, <2>2, <2>3, MinuteGoesOn
  <2> QED BY <2>4 DEF x
<1>9. WaysAre'
  BY <1>2, <1>3 DEF WaysAre
<1>10. IsReal(stats)'
  BY <1>2, <1>4, <1>6 DEF IsReal
<1>11. RatesAreTrue'
  <2>1. /\ speeds' \in SUBSET (1 .. Ceiling)
        /\ speeds' = {} => down' = AtRest
        /\ speeds' # {} =>
             \A lo \in Nat \ {0}, hi \in Nat :
               (\A v \in speeds' : lo <= v /\ v <= hi) => Within(down', lo, hi)
    BY <1>3, <1>4, <1>6, DownStaysTrue
  <2>2. up' = AtRest \/ Within(up', 1, Ceiling)
    BY <1>3, <1>4, <1>6, UpStaysTrue
  <2> QED BY <2>1, <2>2 DEF RatesAreTrue
<1>12. still' \in 0 .. Patience /\ lull' \in 0 .. Patience
  <2>1. \A k \in 0 .. Patience : Min({k + 1, Patience}) \in 0 .. Patience
    BY <1>5, LesserOfTwo
  <2>2. Min({still + 1, Patience}) \in 0 .. Patience /\ Min({lull + 1, Patience}) \in 0 .. Patience
    BY <1>3, <2>1
  <2>3. Waited(s) \in 0 .. Patience
    BY <1>3, <1>5, <2>2 DEF Waited, Patient
  <2>4. lull' \in 0 .. Patience
    BY <1>3, <1>5, <1>6, <2>2
  <2> QED BY <1>6, <2>3, <2>4
<1>13. MinuteIsRing'
  <2>1. gap' \in BOOLEAN /\ (~gap' <=> watched)
    BY <1>5, <1>6 DEF watched
  <2>2. watched => minute' = Series(ring', next', len')
    BY <1>6, <1>8
  <2>3. watched => handed'.series = Series(ring', next', len')
    BY <1>6
  <2> QED BY <1>8, <2>1, <2>2, <2>3 DEF MinuteIsRing
<1>14. HandedIsRow'
  <2>1. Series(ring', next', len') \in Seq(Sample) /\ Len(Series(ring', next', len')) <= Seconds
    <3>1. len' <= Seconds
      BY <1>8, FiguresAssumption DEF IsRing, FiguresAssumption
    <3>2. /\ Series(ring', next', len') \in Seq(Sample)
          /\ Len(Series(ring', next', len')) = len'
      BY <1>8, SeriesIsSequence
    <3> QED BY <3>1, <3>2
  <2>2. CASE watched
    BY <1>6, <1>7, <2>1, <2>2 DEF HandedIsRow
  <2>3. CASE ~watched
    BY <1>3, <1>6, <2>3 DEF HandedIsRow
  <2> QED BY <2>2, <2>3
<1> QED BY <1>9, <1>10, <1>11, <1>12, <1>13, <1>14 DEF FiguresAlways

LEMMA TurnKeeps ==
  ASSUME FiguresInv, Apart, NEW acted \in BOOLEAN, acted => "commands" \in ways, Turn(acted)
  PROVE  FiguresInv'
<1>1. PICK s \in Report :
           IsReal(s) /\ (s.size = 0 => stats.size = 0) /\ PublishesSo(s, acted)
  BY Turned DEF FiguresInv
<1>2. UNCHANGED <<ways, ticked, behind, hidden>>
  BY Turned DEF FiguresInv
<1>3. /\ FiguresAlways /\ WaysAre /\ RatesAreTrue /\ TurnsAreSeconds
      /\ StallIsEarned /\ StillnessIsTold /\ StoppedShowsNothing
  BY DEF FiguresInv, FiguresAlways
<1>4. IsReal(s) /\ s \in Report /\ (s.size = 0 => stats.size = 0)
  BY <1>1
<1>5. Visible(acted) \in BOOLEAN /\ Patience \in Nat \ {0} /\ s.size \in Nat
  BY <1>3, <1>4, FiguresAssumption DEF FiguresAssumption, Visible, WaysAre, Report
<1> DEFINE row == NewRow(s)
           watched == Visible(acted)
<1>6. /\ stats' = s /\ still' = Waited(s) /\ gap' = ~watched
      /\ lull' = IF ~Standing(row) THEN 0 ELSE IF acted THEN lull ELSE Min({lull + 1, Patience})
      /\ handed' = IF watched
                   THEN [row |-> row, series |-> Series(ring', next', len'), guessed |-> FALSE]
                   ELSE handed
  BY <1>1 DEF PublishesSo
<1> HIDE DEF row, watched
<1>7. FiguresAlways'
  BY <1>3, TurnKeepsAlways
<1>8. /\ still' = lull' /\ still' \in 0 .. Patience /\ (s.size = 0 => still' = 0)
      /\ Standing(row) => ~acted
  <2>1. /\ Waited(s) = IF ~Standing(NewRow(s)) THEN 0
                       ELSE IF acted THEN lull ELSE Min({lull + 1, Patience})
        /\ Waited(s) \in 0 .. Patience
        /\ s.size = 0 => Waited(s) = 0
        /\ Standing(NewRow(s)) => ~acted
    BY <1>3, <1>4, WaitedIsLull
  <2> QED BY <1>6, <2>1 DEF row
<1>9. TurnsAreSeconds'
  BY <1>6, <1>8 DEF TurnsAreSeconds
<1>10. watched => handed'.row = row /\ handed'.guessed = FALSE
  BY <1>6
<1>11. Standing(row) <=> StateOf(s) = "downloading" /\ s.size > 0 /\ NewDown(s).shown = 0
  BY <1>3, <1>4, NewRowIs DEF Standing, row
<1>12. row.stall = IF ticked THEN Stall(Bare(s), still', s) ELSE "no files"
  BY <1>3, <1>4, <1>6, NewRowIs DEF row, Reason
<1>13. /\ Bare(s).size = s.size /\ Bare(s).state = StateOf(s)
  BY <1>3, <1>4, BareIs
<1>14. StallIsEarned'
  <2> SUFFICES ASSUME watched, row.stall \in Unmoved PROVE lull' = Patience
    BY <1>5, <1>6, <1>10 DEF StallIsEarned, watched
  <2>1. Stall(Bare(s), still', s) \in Unmoved
    BY <1>12 DEF Unmoved
  <2>2. ~(still' < Patience)
    BY <2>1 DEF Stall, Unmoved
  <2> QED BY <1>5, <1>8, <2>2
<1>15. StillnessIsTold'
  <2> SUFFICES ASSUME watched, lull' = Patience PROVE row.stall \in Unmoved \cup {"no files"}
    BY <1>5, <1>6, <1>10 DEF StillnessIsTold, watched
  <2>1. Standing(row)
    BY <1>5, <1>6
  <2>2. Bare(s).size # 0 /\ ~(still' < Patience)
    BY <1>5, <1>8, <1>11, <1>13, <2>1
  <2>3. Stall(Bare(s), still', s) \in Unmoved
    BY <2>2 DEF Stall, Unmoved
  <2> QED BY <1>12, <2>3
<1>16. StoppedShowsNothing'
  <2>1. CASE watched
    <3>1. row.state \in {"paused", "queued", "error"} =>
            /\ row.down = 0 /\ row.up = 0 /\ row.eta = NoValue
            /\ StatusKind(row) = row.state
      BY <1>3, <1>4, NewRowStopped DEF row
    <3> QED BY <1>10, <2>1, <3>1 DEF StoppedShowsNothing
  <2>2. CASE ~watched
    BY <1>3, <1>6, <2>2 DEF StoppedShowsNothing
  <2> QED BY <2>1, <2>2
<1> QED BY <1>7, <1>9, <1>14, <1>15, <1>16 DEF FiguresInv

(* What a step that reports nothing leaves alone.                          *)
LEMMA NothingReported ==
  ASSUME UNCHANGED <<ways, stats, trend, history, seen>>, WaysAre'
  PROVE  /\ FiguresAlways => FiguresAlways'
         /\ FiguresInv => FiguresInv'
<1>1. /\ ways' = ways /\ stats' = stats /\ down' = down /\ up' = up /\ still' = still
      /\ ring' = ring /\ next' = next /\ len' = len /\ gap' = gap
      /\ handed' = handed /\ speeds' = speeds /\ lull' = lull /\ minute' = minute
  BY DEF trend, history, seen
<1>2. IsReal(stats) => IsReal(stats)'
  BY <1>1 DEF IsReal
<1>3. RatesAreTrue => RatesAreTrue'
  BY <1>1 DEF RatesAreTrue
<1>4. TurnsAreSeconds => TurnsAreSeconds'
  BY <1>1 DEF TurnsAreSeconds
<1>5. MinuteIsRing => MinuteIsRing'
  BY <1>1 DEF MinuteIsRing
<1>6. HandedIsRow => HandedIsRow'
  BY <1>1 DEF HandedIsRow
<1>7. /\ StallIsEarned => StallIsEarned'
      /\ StillnessIsTold => StillnessIsTold'
      /\ StoppedShowsNothing => StoppedShowsNothing'
  BY <1>1 DEF StallIsEarned, StillnessIsTold, StoppedShowsNothing
<1>8. FiguresAlways => FiguresAlways'
  BY <1>1, <1>2, <1>3, <1>5, <1>6 DEF FiguresAlways
<1> QED BY <1>4, <1>7, <1>8 DEF FiguresInv

LEMMA BesideKeeps ==
  ASSUME Beside
  PROVE  /\ FiguresAlways => FiguresAlways'
         /\ FiguresInv => FiguresInv'
<1>1. UNCHANGED <<ways, stats, trend, history, seen>>
  BY DEF Beside
<1>2. WaysAre => WaysAre'
  <2>1. ways' = ways
    BY <1>1
  <2>2. CASE Hide
    <3>1. hidden' \in BOOLEAN /\ ticked' = ticked /\ behind' = behind
      BY <2>2 DEF Hide
    <3> QED BY <2>1, <3>1 DEF WaysAre
  <2>3. CASE Untick
    <3>1. "unticks" \in ways /\ ticked' \in BOOLEAN /\ hidden' = hidden /\ behind' = behind
      BY <2>3 DEF Untick
    <3> QED BY <2>1, <3>1 DEF WaysAre
  <2>4. CASE Queue
    <3>1. behind' \in BOOLEAN /\ ticked' = ticked /\ hidden' = hidden
      BY <2>4 DEF Queue
    <3> QED BY <2>1, <3>1 DEF WaysAre
  <2> QED BY <2>2, <2>3, <2>4 DEF Beside
<1>3. WaysAre' => (FiguresAlways => FiguresAlways') /\ (FiguresInv => FiguresInv')
  BY <1>1, NothingReported
<1>4. FiguresInv => FiguresAlways
  BY DEF FiguresInv
<1>5. FiguresAlways => WaysAre
  BY DEF FiguresAlways
<1> QED BY <1>2, <1>3, <1>4, <1>5

LEMMA GuessedIsRow ==
  ASSUME NEW row \in Row
  PROVE  /\ Pause(row) \in Row /\ Pause(row).state = "paused" /\ Pause(row).stall = "none"
         /\ Pause(row).down = 0 /\ Pause(row).up = 0 /\ Pause(row).eta = NoValue
         /\ Resume(row) \in Row /\ Resume(row).state \in {"seeding", "downloading"}
         /\ Resume(row).stall = row.stall
         /\ Pause(row).done = row.done /\ Resume(row).done = row.done
<1>1. 0 \in 0 .. Ceiling /\ NoValue \in Int
  BY CeilingIsFastest DEF NoValue
<1>2. /\ Pause(row) \in Row /\ Pause(row).state = "paused" /\ Pause(row).stall = "none"
      /\ Pause(row).down = 0 /\ Pause(row).up = 0 /\ Pause(row).eta = NoValue
      /\ Pause(row).done = row.done
  <2> DEFINE one   == [row EXCEPT !.state = "paused"]
             two   == [one EXCEPT !.down = 0]
             three == [two EXCEPT !.up = 0]
             four  == [three EXCEPT !.eta = NoValue]
             five  == [four EXCEPT !.error = FALSE]
             six   == [five EXCEPT !.stall = "none"]
  <2>1. Pause(row) = six
    BY DEF Pause
  <2>2. one \in Row /\ one.state = "paused" /\ one.done = row.done
    BY DEF Row, RowStates
  <2> HIDE DEF one
  <2>3. two \in Row /\ two.state = "paused" /\ two.down = 0 /\ two.done = row.done
    BY <1>1, <2>2 DEF Row
  <2> HIDE DEF two
  <2>4. /\ three \in Row /\ three.state = "paused" /\ three.down = 0 /\ three.up = 0
        /\ three.done = row.done
    BY <1>1, <2>3 DEF Row
  <2> HIDE DEF three
  <2>5. /\ four \in Row /\ four.state = "paused" /\ four.down = 0 /\ four.up = 0
        /\ four.eta = NoValue /\ four.done = row.done
    BY <1>1, <2>4 DEF Row
  <2> HIDE DEF four
  <2>6. /\ five \in Row /\ five.state = "paused" /\ five.down = 0 /\ five.up = 0
        /\ five.eta = NoValue /\ five.done = row.done
    BY <2>5 DEF Row
  <2> HIDE DEF five
  <2>7. /\ six \in Row /\ six.state = "paused" /\ six.down = 0 /\ six.up = 0
        /\ six.eta = NoValue /\ six.stall = "none" /\ six.done = row.done
    BY <2>6 DEF Row
  <2> HIDE DEF six
  <2> QED BY <2>1, <2>7
<1>3. /\ Resume(row) \in Row /\ Resume(row).state \in {"seeding", "downloading"}
      /\ Resume(row).stall = row.stall /\ Resume(row).done = row.done
  <2> DEFINE now  == IF IsComplete(row) THEN "seeding" ELSE "downloading"
             half == [row EXCEPT !.state = now]
             full == [half EXCEPT !.error = FALSE]
  <2>1. now \in {"seeding", "downloading"} /\ Resume(row) = full
    BY DEF Resume
  <2> HIDE DEF now
  <2>2. half \in Row /\ half.state = now /\ half.stall = row.stall /\ half.done = row.done
    BY <2>1 DEF Row, RowStates
  <2> HIDE DEF half
  <2>3. full \in Row /\ full.state = now /\ full.stall = row.stall /\ full.done = row.done
    BY <2>2 DEF Row
  <2> HIDE DEF full
  <2> QED BY <2>1, <2>3
<1> QED BY <1>2, <1>3

LEMMA GuessKeeps ==
  ASSUME FiguresAlways, GuessRow
  PROVE  /\ FiguresAlways'
         /\ FiguresInv => FiguresInv'
<1>1. /\ UNCHANGED <<ways, stats, ticked, behind, hidden, down, up, still, ring, next, len, gap>>
      /\ UNCHANGED <<speeds, lull, minute>>
  BY DEF GuessRow, trend, history
<1> DEFINE now == IF IsActive(handed.row.state) THEN Pause(handed.row) ELSE Resume(handed.row)
<1>2. /\ handed \in [row : Row, series : Seq(Sample), guessed : BOOLEAN]
      /\ WaysAre /\ IsReal(stats) /\ RatesAreTrue /\ MinuteIsRing /\ HandedIsRow
      /\ still \in 0 .. Patience /\ lull \in 0 .. Patience
  BY DEF FiguresAlways, HandedIsRow
<1>3. /\ now \in Row
      /\ now.stall = "none" \/ now.stall = handed.row.stall
      /\ now.state \in {"paused", "queued", "error"} =>
           /\ now.down = 0 /\ now.up = 0 /\ now.eta = NoValue
           /\ StatusKind(now) = now.state
  <2>1. handed.row \in Row
    BY <1>2
  <2>2. CASE IsActive(handed.row.state)
    BY <2>1, <2>2, GuessedIsRow DEF StatusKind, IsFault
  <2>3. CASE ~IsActive(handed.row.state)
    BY <2>1, <2>3, GuessedIsRow
  <2> QED BY <2>2, <2>3
<1>4. handed' = [handed EXCEPT !.guessed = TRUE, !.row = now]
  BY DEF GuessRow
<1> HIDE DEF now
<1>5. /\ handed' \in [row : Row, series : Seq(Sample), guessed : BOOLEAN]
      /\ handed'.row = now /\ handed'.series = handed.series /\ handed'.guessed = TRUE
  <2> DEFINE half == [handed EXCEPT !.guessed = TRUE]
  <2>1. handed' = [half EXCEPT !.row = now]
    BY <1>4
  <2>2. /\ half \in [row : Row, series : Seq(Sample), guessed : BOOLEAN]
        /\ half.series = handed.series /\ half.guessed = TRUE
    BY <1>2
  <2> HIDE DEF half
  <2> QED BY <1>3, <2>1, <2>2
<1>6. WaysAre' /\ IsReal(stats)' /\ RatesAreTrue'
  BY <1>1, <1>2 DEF WaysAre, IsReal, RatesAreTrue
<1>7. MinuteIsRing' /\ HandedIsRow'
  BY <1>1, <1>2, <1>5 DEF MinuteIsRing, HandedIsRow
<1>8. still' \in 0 .. Patience /\ lull' \in 0 .. Patience
  BY <1>1, <1>2
<1>9. FiguresAlways'
  BY <1>6, <1>7, <1>8 DEF FiguresAlways
<1>10. ASSUME TurnsAreSeconds, StallIsEarned, StillnessIsTold, StoppedShowsNothing
       PROVE  /\ TurnsAreSeconds'
              /\ StallIsEarned' /\ StillnessIsTold' /\ StoppedShowsNothing'
  <2>1. TurnsAreSeconds'
    BY <1>1, <1>10 DEF TurnsAreSeconds
  <2>2. StallIsEarned' /\ StillnessIsTold' /\ StoppedShowsNothing'
    BY <1>1, <1>3, <1>5, <1>10 DEF StallIsEarned, StillnessIsTold, StoppedShowsNothing, Unmoved
  <2> QED BY <2>1, <2>2
<1> QED BY <1>9, <1>10 DEF FiguresInv

LEMMA StepKeepsAlways ==
  ASSUME FiguresAlways, [FiguresNext]_figureVars
  PROVE  FiguresAlways'
<1>1. CASE Second
  BY <1>1, TurnKeepsAlways DEF Second
<1>2. CASE CommandTurn
  BY <1>2, TurnKeepsAlways DEF CommandTurn
<1>3. CASE Beside
  BY <1>3, BesideKeeps
<1>4. CASE GuessRow
  BY <1>4, GuessKeeps
<1>5. CASE UNCHANGED figureVars
  <2>1. UNCHANGED <<ways, stats, trend, history, seen>> /\ UNCHANGED <<ticked, behind, hidden>>
    BY <1>5 DEF figureVars
  <2>2. WaysAre'
    BY <2>1 DEF FiguresAlways, WaysAre
  <2> QED BY <2>1, <2>2, NothingReported
<1> QED BY <1>1, <1>2, <1>3, <1>4, <1>5 DEF FiguresNext

LEMMA FiguresStep ==
  ASSUME FiguresInv, Apart, [FiguresNext]_figureVars
  PROVE  FiguresInv'
<1>1. CASE Second
  BY <1>1, TurnKeeps DEF Second
<1>2. CASE CommandTurn
  BY <1>2, TurnKeeps DEF CommandTurn
<1>3. CASE Beside
  BY <1>3, BesideKeeps
<1>4. CASE GuessRow
  BY <1>4, GuessKeeps DEF FiguresInv
<1>5. CASE UNCHANGED figureVars
  <2>1. UNCHANGED <<ways, stats, trend, history, seen>> /\ UNCHANGED <<ticked, behind, hidden>>
    BY <1>5 DEF figureVars
  <2>2. WaysAre'
    BY <2>1 DEF FiguresInv, FiguresAlways, WaysAre
  <2> QED BY <2>1, <2>2, NothingReported
<1> QED BY <1>1, <1>2, <1>3, <1>4, <1>5 DEF FiguresNext

EarnedAlways ==
  FiguresTypeOK /\ RateIsHonest /\ HundredMeansDone /\ FooterIsTheLastMinute /\ SparkFits

LEMMA AlwaysIsEarned == FiguresAlways => EarnedAlways
<1> SUFFICES ASSUME FiguresAlways PROVE EarnedAlways
  OBVIOUS
<1>1. /\ WaysAre /\ IsReal(stats) /\ RatesAreTrue /\ MinuteIsRing /\ HandedIsRow
      /\ still \in 0 .. Patience /\ lull \in 0 .. Patience
  BY DEF FiguresAlways
<1>2. /\ Ceiling \in Nat /\ 1 <= Ceiling /\ Patience \in Nat \ {0} /\ Seconds \in Nat \ {0}
  BY CeilingIsFastest, FiguresAssumption DEF FiguresAssumption
<1>3. speeds = {} \/ Within(down, 1, Ceiling)
  <2> SUFFICES ASSUME speeds # {} PROVE Within(down, 1, Ceiling)
    OBVIOUS
  <2>1. \A v \in speeds : 1 <= v /\ v <= Ceiling
    BY <1>1, <1>2 DEF RatesAreTrue
  <2> QED BY <1>1, <1>2, <2>1 DEF RatesAreTrue
<1>4. FiguresTypeOK
  <2>1. down.average >= NoValue /\ down.shown \in Nat
    <3>1. CASE speeds = {}
      BY <1>1, <3>1 DEF RatesAreTrue, AtRest, NoValue
    <3>2. CASE Within(down, 1, Ceiling)
      BY <1>2, <3>2 DEF Within, Scale, NoValue
    <3> QED BY <1>3, <3>1, <3>2
  <2>2. up.shown \in Nat
    BY <1>1, <1>2 DEF RatesAreTrue, AtRest, Within
  <2>3. handed.row \in Row /\ handed.guessed \in BOOLEAN
    BY <1>1 DEF HandedIsRow
  <2>4. handed.row.state \in {"paused", "checking", "downloading", "seeding", "error", "queued"}
    BY <2>3 DEF Row, RowStates
  <2>5. {ticked, behind, hidden, gap, handed.guessed} \subseteq BOOLEAN
    BY <1>1, <2>3 DEF WaysAre, MinuteIsRing
  <2>6. /\ still \in 0 .. Patience /\ lull \in 0 .. Patience
        /\ next \in 0 .. Seconds - 1 /\ len \in 0 .. Seconds
    BY <1>1 DEF MinuteIsRing, IsRing
  <2> QED BY <1>1, <2>1, <2>2, <2>4, <2>5, <2>6 DEF FiguresTypeOK, WaysAre
<1>5. RateIsHonest
  <2>1. CASE speeds = {}
    BY <1>1, <2>1 DEF RateIsHonest, RatesAreTrue, AtRest
  <2>2. CASE speeds # {}
    <3>1. speeds \in SUBSET (1 .. Ceiling) /\ speeds \in SUBSET (0 .. Ceiling)
      BY <1>1, <1>2 DEF RatesAreTrue
    <3>2. /\ Min(speeds) \in speeds /\ \A v \in speeds : Min(speeds) <= v
          /\ Max(speeds) \in speeds /\ \A v \in speeds : v <= Max(speeds)
      BY <1>2, <2>2, <3>1, MinIsLeast, MaxIsGreatest
    <3>3. Min(speeds) \in Nat \ {0} /\ Max(speeds) \in Nat
      <4>1. Min(speeds) \in 1 .. Ceiling /\ Max(speeds) \in 1 .. Ceiling
        BY <3>1, <3>2
      <4> QED BY <1>2, <4>1
    <3>4. Within(down, Min(speeds), Max(speeds))
      BY <1>1, <2>2, <3>2, <3>3 DEF RatesAreTrue
    <3>5. down.shown \in Min(speeds) .. Max(speeds)
      BY <3>3, <3>4 DEF Within
    <3> QED BY <2>2, <3>5 DEF RateIsHonest
  <2> QED BY <2>1, <2>2
<1>6. HundredMeansDone
  <2>1. handed.row.done \in Nat /\ handed.row.size \in Nat
    BY <1>1 DEF HandedIsRow, Row
  <2>2. CASE handed.row.done >= handed.row.size
    <3>1. Progress(handed.row.done, handed.row.size) = <<Reading(handed.row.size)>>
      BY <2>2 DEF Progress
    <3>2. Len(<<Reading(handed.row.size)>>) = 1
      OBVIOUS
    <3> QED BY <3>1, <3>2 DEF HundredMeansDone
  <2>3. CASE ~(handed.row.done >= handed.row.size)
    <3>1. handed.row.done < handed.row.size
      BY <2>1, <2>3
    <3>2. Percent(handed.row.done, handed.row.size) < 100
      BY <2>1, <3>1, PercentIsBelowHundred
    <3>3. Progress(handed.row.done, handed.row.size)[3] = Percent(handed.row.done, handed.row.size)
      BY <2>3 DEF Progress
    <3> QED BY <3>1, <3>2, <3>3 DEF HundredMeansDone
  <2> QED BY <2>2, <2>3
<1>7. FooterIsTheLastMinute
  BY <1>1 DEF FooterIsTheLastMinute, MinuteIsRing
<1>8. SparkFits
  <2>1. handed.series \in Seq(Sample) /\ Len(handed.series) <= Seconds
    BY <1>1 DEF HandedIsRow
  <2> QED BY <2>1, LinesFit DEF SparkFits
<1> QED BY <1>4, <1>5, <1>6, <1>7, <1>8 DEF EarnedAlways

ReadsAsMore ==
  handed'.row.done >= handed.row.done =>
    LET a == Reading(handed.row.done)
        b == Reading(handed'.row.done)
    IN  \/ a.unit < b.unit
        \/ a.unit = b.unit /\ a.figure * 10 ^ (2 - a.decimals) <= b.figure * 10 ^ (2 - b.decimals)

LEMMA GrowingReadsAsMore ==
  ASSUME FiguresAlways, FiguresAlways'
  PROVE  ReadsAsMore
<1>1. handed.row.done \in Nat /\ handed'.row.done \in Nat
  BY DEF FiguresAlways, HandedIsRow, Row
<1> DEFINE m == handed.row.done
           n == handed'.row.done
<1>2. m \in Nat /\ n \in Nat
  BY <1>1
<1> SUFFICES ASSUME n >= m
             PROVE  LET a == Reading(m)
                        b == Reading(n)
                    IN  \/ a.unit < b.unit
                        \/ /\ a.unit = b.unit
                           /\ a.figure * 10 ^ (2 - a.decimals) <= b.figure * 10 ^ (2 - b.decimals)
  BY DEF ReadsAsMore
<1> HIDE DEF m, n
<1> QED BY <1>2, MoreReadsAsMore

(* In every world a rate shown lies within what was reported, a hundred    *)
(* per cent is the last byte, the footer draws the last minute inside its  *)
(* box, and bytes that grow never read as fewer, whatever is reported,     *)
(* hidden and guessed (rate.rs, history.rs, fmt.rs).                       *)
THEOREM FiguresAreEarned ==
  FiguresSpec =>
    /\ [](FiguresTypeOK /\ RateIsHonest /\ HundredMeansDone /\ FooterIsTheLastMinute /\ SparkFits)
    /\ ReadsInOrder
<1>1. FiguresInit => FiguresAlways
  BY FiguresBegin DEF FiguresInv
<1>2. FiguresAlways /\ [FiguresNext]_figureVars => FiguresAlways'
  BY StepKeepsAlways
<1>3. FiguresSpec => []FiguresAlways
  BY <1>1, <1>2, PTL DEF FiguresSpec
<1>4. FiguresAlways /\ FiguresAlways' => [ReadsAsMore]_figureVars
  BY GrowingReadsAsMore
<1>5. []FiguresAlways => [][ReadsAsMore]_figureVars
  BY <1>4, PTL
<1>6. []FiguresAlways => []EarnedAlways
  BY AlwaysIsEarned, PTL
<1> QED BY <1>3, <1>5, <1>6, PTL DEF EarnedAlways, ReadsInOrder, ReadsAsMore

(* Nor is a stall named before its time, or kept silent, nor does a        *)
(* stopped torrent show anything (map.rs, torrent.rs): as long as no       *)
(* command comes while a torrent may stand still and nobody who unticks    *)
(* everything has a torrent that stops.                                    *)
THEOREM FiguresTellTheTruth ==
  ASSUME Apart
  PROVE  FiguresSpec => FiguresAreHonest
<1>1. FiguresInv /\ [FiguresNext]_figureVars => FiguresInv'
  BY FiguresStep
<1>2. FiguresSpec => []FiguresInv
  BY FiguresBegin, <1>1, PTL DEF FiguresSpec
<1>3. FiguresInv => StallIsEarned /\ StillnessIsTold /\ StoppedShowsNothing
  BY DEF FiguresInv
<1>4. []FiguresInv => [](StallIsEarned /\ StillnessIsTold /\ StoppedShowsNothing)
  BY <1>3, PTL
<1> QED BY <1>2, <1>4, FiguresAreEarned, PTL DEF FiguresAreHonest
=============================================================================
