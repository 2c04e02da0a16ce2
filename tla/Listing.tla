------------------------------ MODULE Listing ------------------------------
(***************************************************************************)
(* What the table lists, and in which order: the columns it is sorted by   *)
(* (zerem-core/sort.rs), the words typed over it (filter.rs), the shelves  *)
(* of the rail (category.rs, with who is on them in src/state.rs), and the *)
(* kind of content a row is drawn with (content.rs).                       *)
(*                                                                         *)
(* A name is where it sorts and which of the words it contains; a shelf is *)
(* typed as a key, which is what its spellings have in common, and one of  *)
(* the spellings.  Of the columns whose values move, the one here stands   *)
(* for state, rates, peers and ratio.  What happens between two snapshots  *)
(* is Window's.                                                            *)
(***************************************************************************)
EXTENDS Integers, FiniteSets, Sequences, FiniteSetsExt

CONSTANTS
  Catalogue,     \* the torrents: [name |-> [at, has], files |-> <<[kind, len], ...>>]
  TypedShelves,  \* the shelves that may be typed, [key, as]; no key is no shelf
  ShelfFolders,
  Queries,       \* what may be typed over the table, each a set of words
  Speeds,
  MaxGestures,   \* bound: how often something happens
  TableWorlds    \* what may happen: one of these sets in a behaviour

VARIABLES
  habit,
  table, generation,       \* the newest snapshot
  known, content, speed,   \* of each torrent: its metadata is here, Entry.content, its rate
  categories, stored,      \* the settings: folders of the shelves, and who is on them
  assigned,                \* who is on them, as the window has it
  sort, query, picked,     \* what narrows and orders the table
  order, built,            \* the rows it lists, and the snapshot that was built for
  late,        \* metadata came since then
  homes,       \* what each shelf was called first, and where it was last put
  meant,       \* the shelf each torrent was put on when it was last added
  gestures

session == <<table, generation, known, content, speed>>
shelves == <<categories, stored, assigned, homes, meant>>
view    == <<sort, query, picked>>
drawn   == <<order, built, late>>
tableVars == <<habit, session, shelves, view, drawn, gestures>>

Entries == DOMAIN Catalogue
None     == -1

----------------------------------------------------------------------------
(* zerem-core/content.rs                                                   *)
Named == {"video", "audio", "image", "archive", "disc", "document"}

Bytes(files) == FoldSet(LAMBDA i, sum : sum + files[i].len, 0, DOMAIN files)
HeldOf(files, kind) ==
  FoldSet(LAMBDA i, sum : sum + IF files[i].kind = kind THEN files[i].len ELSE 0, 0, DOMAIN files)

(* The kind that holds two thirds of the bytes.                            *)
Of(files) ==
  LET most == CHOOSE k \in Named : \A other \in Named : HeldOf(files, other) <= HeldOf(files, k)
  IN  IF Bytes(files) = 0 THEN "unknown"
      ELSE IF HeldOf(files, most) * 3 >= Bytes(files) * 2 THEN most ELSE "mixed"

(* resolve_content(): that there is nothing to look at yet is not kept.    *)
Resolved(t) ==
  IF content[t] \notin {"none", "unknown"} THEN content[t]
  ELSE IF t \in known' THEN Of(Catalogue[t].files) ELSE "unknown"

(* The infohash is all there is of a magnet before its metadata.           *)
Name(t) == IF t \in known' THEN Catalogue[t].name ELSE [at |-> 100 + t, has |-> {"hash"}]
SizeOf(t) == IF t \in known' THEN Bytes(Catalogue[t].files) ELSE 0
Eta(t)  == IF speed'[t] = 0 \/ SizeOf(t) = 0 THEN None ELSE SizeOf(t) \div speed'[t]

(* publish(), of these entries.                                            *)
PublishRows(ids) ==
  /\ content' = [t \in Entries |->
       IF \E i \in DOMAIN ids : ids[i] = t THEN Resolved(t) ELSE "none"]
  /\ table' = [i \in DOMAIN ids |->
       [id |-> ids[i], name |-> Name(ids[i]), size |-> SizeOf(ids[i]),
        moves |-> speed'[ids[i]], eta |-> Eta(ids[i]), content |-> content'[ids[i]]]]

(* Nothing is longer than no estimate (u32::MAX); an estimate is less.     *)
Longest == 1000

ASSUME CatalogueAssumption ==
  /\ Entries \subseteq Nat
  /\ \A t \in Entries :
       /\ Catalogue[t].name.at \in Nat
       /\ Bytes(Catalogue[t].files) \in 0 .. Longest - 1
       /\ \A kind \in Named : HeldOf(Catalogue[t].files, kind) \in Nat
  /\ Speeds \subseteq Nat /\ MaxGestures \in Nat

(* A spelling has one key.                                                 *)
ASSUME SpellingAssumption == \A m, n \in TypedShelves : m.as = n.as => m.key = n.key

----------------------------------------------------------------------------
(* zerem-core/category.rs                                                  *)
Key(spelling) == (CHOOSE n \in TypedShelves : n.as = spelling).key

(* canonical(): the name under which a shelf is kept, if there is one.     *)
Spelled(n) == {s \in DOMAIN categories : Key(s) = n.key}

Canonical(n) == IF Spelled(n) = {} THEN n.as ELSE CHOOSE s \in Spelled(n) : TRUE

(* Typing a name again with a different folder moves the shelf.            *)
Remember(n, folder) ==
  [s \in DOMAIN categories \cup {Canonical(n)} |->
     IF s = Canonical(n) THEN folder ELSE categories[s]]

Without(map, ids) == [t \in DOMAIN map \ ids |-> map[t]]
With(map, t, to)  == [u \in DOMAIN map \cup {t} |-> IF u = t THEN to ELSE map[u]]

On(key) == {t \in DOMAIN assigned : Key(assigned[t]) = key}

(* counts(): the number the rail draws beside a shelf.                     *)
Count(key) == Cardinality({i \in DOMAIN table : table[i].id \in On(key)})

----------------------------------------------------------------------------
(* zerem-core/sort.rs                                                      *)
Columns == {"name", "size", "moves", "eta"}

FirstClick(col) == [col |-> col, desc |-> col # "name"]

Clicked(col) == IF sort.col = col THEN [sort EXCEPT !.desc = ~@] ELSE FirstClick(col)

IsVolatile(col) == col \notin {"name", "size"}

Value(row, col) ==
  CASE col = "name" -> row.name.at [] col = "size" -> row.size [] col = "moves" -> row.moves
    [] col = "eta" -> IF row.eta = None THEN Longest ELSE row.eta

(* Equal rows keep the order of their numbers, downwards too.              *)
Precedes(a, b, by) ==
  LET x == Value(a, by.col)
      y == Value(b, by.col)
  IN  \/ IF by.desc THEN x > y ELSE x < y
      \/ x = y /\ a.id < b.id

(* Mutant: what is typed narrows nothing.                                  *)
Matches_All(row, words) == TRUE

(* zerem-core/filter.rs: every word is somewhere in the name.              *)
Matches(row, words) == words \subseteq row.name.has

IsOn(row, key) == key # "" => row.id \in DOMAIN assigned' /\ Key(assigned'[row.id]) = key

Rebuild ==
  LET kept == {i \in DOMAIN table' : IsOn(table'[i], picked') /\ Matches(table'[i], query')}
  IN  /\ \E listed \in [1 .. Cardinality(kept) -> kept] :
           /\ \A i \in DOMAIN listed : \A j \in i + 1 .. Len(listed) :
                listed[i] # listed[j] /\ Precedes(table'[listed[i]], table'[listed[j]], sort')
           /\ order' = listed
      /\ built' = [generation |-> generation', rows |-> Len(table')]
      /\ late' = FALSE

(* Mutant: the number of rows tells.                                       *)
Outdated_ByCount == Len(table') # built.rows \/ IsVolatile(sort'.col)

Outdated ==
  \/ generation' # built.generation \/ Len(table') # built.rows
  \/ IsVolatile(sort'.col)

(* refresh_order().                                                        *)
Refresh(arrived) ==
  IF Outdated THEN Rebuild ELSE UNCHANGED <<order, built>> /\ late' = (late \/ arrived)

----------------------------------------------------------------------------
TableInit ==
  /\ habit \in TableWorlds
  /\ table = <<>> /\ generation = 1
  /\ known = {} /\ content = [t \in Entries |-> "none"] /\ speed = [t \in Entries |-> 0]
  /\ categories = <<>> /\ stored = <<>> /\ assigned = <<>> /\ homes = <<>> /\ meant = <<>>
  /\ sort = FirstClick("name") /\ query = {} /\ picked = ""
  /\ order = <<>> /\ built = [generation |-> 0, rows |-> 0] /\ late = FALSE
  /\ gestures = 0

Ids == [i \in DOMAIN table |-> table[i].id]

Happens(what) ==
  /\ what \in habit
  /\ gestures < MaxGestures
  /\ gestures' = gestures + 1
  /\ UNCHANGED habit

Steady == UNCHANGED view

(* on_confirm(): a name is all it takes to make a shelf, and the torrent   *)
(* of the dialog is on it.                                                 *)
Shelve(t, n, folder) ==
  IF n.key = ""
    THEN UNCHANGED <<categories, stored, assigned, homes>> /\ meant' = Without(meant, {t})
    ELSE /\ categories' = Remember(n, folder)
         /\ stored' = With(stored, t, Canonical(n))
         /\ assigned' = stored'
         /\ meant' = With(meant, t, n.key)
         /\ homes' = With(homes, n.key,
              [as |-> IF n.key \in DOMAIN homes THEN homes[n.key].as ELSE n.as, folder |-> folder])

Joins(t) ==
  /\ \E k \in IF "magnets" \in habit THEN BOOLEAN ELSE {TRUE} :
       known' = IF k THEN known \cup {t} ELSE known
  /\ generation' = generation + 1 /\ UNCHANGED speed
  /\ PublishRows(Append(Ids, t))
  /\ Refresh(FALSE)

Add(t, n, folder) ==
  /\ Happens("adds")
  /\ \A i \in DOMAIN table : table[i].id # t
  /\ "shelves" \in habit \/ n.key = ""
  /\ Shelve(t, n, folder)
  /\ Steady /\ Joins(t)

(* The engine refuses what was confirmed.                                  *)
Refused(t, n, folder) ==
  /\ Happens("refusals")
  /\ \A i \in DOMAIN table : table[i].id # t
  /\ n.key # ""
  /\ Shelve(t, n, folder) /\ UNCHANGED <<session, view, drawn>>

(* forget_assigned(), before the engine is told.                           *)
Forget(t) == assigned' = Without(assigned, {t}) /\ stored' = Without(stored, {t})

RemoveRow(i) ==
  /\ Happens("removes")
  /\ Forget(table[i].id)
  /\ meant' = Without(meant, {table[i].id})
  /\ known' = known \ {table[i].id} /\ speed' = [speed EXCEPT ![table[i].id] = 0]
  /\ generation' = generation + 1
  /\ UNCHANGED <<categories, homes>> /\ Steady
  /\ PublishRows([j \in 1 .. Len(table) - 1 |-> Ids[IF j < i THEN j ELSE j + 1]])
  /\ Refresh(FALSE)

(* A removal and an addition within a second: one snapshot.                *)
Swap(i, t) ==
  /\ Happens("swaps")
  /\ \A j \in DOMAIN table : table[j].id # t
  /\ Forget(table[i].id)
  /\ meant' = Without(meant, {table[i].id, t})
  /\ known' = (known \ {table[i].id}) \cup {t} /\ speed' = [speed EXCEPT ![table[i].id] = 0]
  /\ generation' = generation + 2
  /\ UNCHANGED <<categories, homes>> /\ Steady
  /\ PublishRows(Append([j \in 1 .. Len(table) - 1 |-> Ids[IF j < i THEN j ELSE j + 1]], t))
  /\ Refresh(FALSE)

(* Nothing says that the name and the size came.                           *)
Learn(i) ==
  /\ Happens("magnets")
  /\ table[i].id \notin known
  /\ known' = known \cup {table[i].id}
  /\ UNCHANGED <<speed, generation, shelves>> /\ Steady
  /\ PublishRows(Ids) /\ Refresh(TRUE)

Move(i, v) ==
  /\ Happens("moves")
  /\ speed' = [speed EXCEPT ![table[i].id] = v]
  /\ UNCHANGED <<known, generation, shelves>> /\ Steady
  /\ PublishRows(Ids) /\ Refresh(FALSE)

(* set_sort(), set_filter(), set_category(), show_all(): at once.          *)
Narrow(by, words, key) ==
  /\ sort' = by /\ query' = words /\ picked' = key
  /\ UNCHANGED <<session, shelves>>
  /\ Rebuild

Click(col) == Happens("clicks") /\ Narrow(Clicked(col), query, picked)
Type(words) == Happens("types") /\ Narrow(sort, words, picked)
Pick(key) == Happens("shelves") /\ Narrow(sort, query, key)
ShowAll == Happens("types") /\ Narrow(sort, {}, "")

TableNext ==
  \/ \E t \in Entries : \E n \in TypedShelves : \E folder \in ShelfFolders :
       Add(t, n, folder) \/ Refused(t, n, folder)
  \/ \E i \in DOMAIN table :
       \/ RemoveRow(i) \/ Learn(i)
       \/ \E t \in Entries : Swap(i, t)
       \/ \E v \in Speeds : Move(i, v)
  \/ \E col \in Columns : Click(col)
  \/ \E words \in Queries : Type(words)
  \/ \E s \in DOMAIN categories : Pick(Key(s))
  \/ Pick("") \/ ShowAll

TableSpec == TableInit /\ [][TableNext]_tableVars

----------------------------------------------------------------------------
TableTypeOK ==
  /\ habit \in TableWorlds /\ generation \in Nat /\ known \subseteq Entries
  /\ \A i \in DOMAIN table : table[i].id \in Entries /\ table[i].size \in Nat
                            /\ table[i].content \in Named \cup {"unknown", "mixed"}
  /\ DOMAIN stored \subseteq Entries /\ DOMAIN assigned \subseteq Entries
  /\ sort \in [col : Columns, desc : BOOLEAN] /\ query \in Queries \cup {{}}
  /\ \A i \in DOMAIN order : order[i] \in DOMAIN table
  /\ late \in BOOLEAN /\ gestures \in 0 .. MaxGestures

(* "One shelf however it is typed": a key has one shelf, under the         *)
(* spelling it was typed with first, and with the folder typed last.       *)
OneShelfPerName ==
  /\ {Key(s) : s \in DOMAIN categories} = DOMAIN homes
  /\ \A s \in DOMAIN categories : homes[Key(s)] = [as |-> s, folder |-> categories[s]]

(* A torrent added again does not "silently reappear on a shelf somebody   *)
(* had removed it from": those listed are on the shelf they were added to. *)
OnItsOwnShelf ==
  \A i \in DOMAIN table :
    LET t == table[i].id IN
      /\ (t \in DOMAIN assigned) = (t \in DOMAIN meant)
      /\ t \in DOMAIN meant => Key(assigned[t]) = meant[t] /\ assigned[t] \in DOMAIN categories

Listed == {table[order[i]].id : i \in DOMAIN order}
Place(t) == CHOOSE i \in DOMAIN order : table[order[i]].id = t

(* A word that was typed is in the name of the torrent, or in the infohash *)
(* that stands for it.                                                     *)
IsNamed(t, word) == IF t \in known THEN word \in Catalogue[t].name.has ELSE word = "hash"

(* Listed are, once each, the torrents whose name has every word that was  *)
(* typed and that were put on the shelf that is picked.  (Metadata that    *)
(* comes late brings in no row, nor takes one out, until something else    *)
(* does.)                                                                  *)
RowsAreThoseLeft ==
  /\ ~late \/ query = {} =>
       Listed = {table[i].id : i \in {k \in DOMAIN table :
         /\ \A word \in query : IsNamed(table[k].id, word)
         /\ picked # "" => table[k].id \in DOMAIN meant /\ meant[table[k].id] = picked}}
  /\ \A i, j \in DOMAIN order : table[order[i]].id = table[order[j]].id => i = j

(* The number beside a shelf is how many rows there are when it is picked. *)
CountIsWhatShows == picked # "" /\ query = {} => Len(order) = Count(picked)

(* The rows are in the order of the column, whichever snapshot came last;  *)
(* "no estimate belongs at the bottom of an ascending sort".  (Metadata    *)
(* that comes late moves no row until something else does.)                *)
RowsAreInOrder ==
  ~late => \A i \in DOMAIN order : \A j \in i + 1 .. Len(order) :
    LET a == table[IF sort.desc THEN order[j] ELSE order[i]]
        b == table[IF sort.desc THEN order[i] ELSE order[j]]
    IN  CASE sort.col = "name"  -> a.name.at <= b.name.at
          [] sort.col = "size"  -> a.size <= b.size
          [] sort.col = "moves" -> a.moves <= b.moves
          [] sort.col = "eta"   -> b.eta = None \/ (a.eta # None /\ a.eta <= b.eta)

(* Rows with equal keys do not "trade places between ticks": two rows that *)
(* did not change keep their order from one snapshot to the next.          *)
StillRowsStay ==
  [][sort' = sort =>
       \A t \in Listed \cap Listed' : \A u \in Listed \cap Listed' :
         /\ ~late /\ t # u
         /\ table[order[Place(t)]] = table'[order'[Place(t)']]
         /\ table[order[Place(u)]] = table'[order'[Place(u)']]
         => (Place(t) < Place(u)) = (Place(t)' < Place(u)')]_tableVars

(* Typing one more word never brings a row back, and the order is of rows  *)
(* that are there.                                                         *)
NarrowingOnlyHides ==
  [][query \subseteq query' /\ picked' = picked /\ table' = table /\ ~late
       => Listed' \subseteq Listed]_tableVars

(* A kind "has to hold two thirds of the bytes to name the whole torrent", *)
(* and a row is not frozen on the placeholder once its files are known.    *)
ContentIsEarned ==
  \A i \in DOMAIN table :
    LET files == Catalogue[table[i].id].files
        rest(k) == Bytes(files) - HeldOf(files, k)
    IN  IF table[i].id \notin known \/ Bytes(files) = 0 THEN table[i].content = "unknown"
        ELSE IF table[i].content = "mixed" THEN \A k \in Named : 2 * rest(k) > HeldOf(files, k)
        ELSE /\ table[i].content \in Named
             /\ 2 * rest(table[i].content) <= HeldOf(files, table[i].content)

(* The rows are those the search and the shelf leave, in the order of the  *)
(* column, with the shelves their torrents were added to (both until a     *)
(* magnet's metadata comes, and again once something rebuilds the order);  *)
(* those that did not change do not move, and one more word brings none    *)
(* back (sort.rs, filter.rs, category.rs, content.rs, state.rs).           *)
TableIsRight ==
  /\ [](/\ TableTypeOK
        /\ OneShelfPerName /\ OnItsOwnShelf /\ RowsAreThoseLeft /\ CountIsWhatShows
        /\ RowsAreInOrder /\ ContentIsEarned)
  /\ StillRowsStay /\ NarrowingOnlyHides
=============================================================================
