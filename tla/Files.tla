------------------------------- MODULE Files -------------------------------
(***************************************************************************)
(* The list of files in the panel: a tree folded out of the paths          *)
(* (zerem-core/tree.rs), its ticks and pins drawn before the engine has    *)
(* answered (src/bridge/detail.rs), and what a press on a row acts on.     *)
(*                                                                         *)
(* A path is a sequence of names and a name a sequence of letters, which   *)
(* are numbers in the order they sort in.  Files and rows are counted from *)
(* one; zero is no file, and no torrent.                                   *)
(***************************************************************************)
EXTENDS Integers, FiniteSets, SequencesExt, FiniteSetsExt

CONSTANTS
  Library,     \* the paths of each torrent, in the order they were added
  MaxActs,     \* bound: how often the user presses something
  Habits       \* which presses and events: one of these sets in a behaviour

VARIABLES
  world,
  truth,       \* what the session records of each torrent
  inbox,       \* the commands sent
  watching,    \* the torrent whose insides are built
  latest,      \* the insides in the newest snapshot; none at first
  guess,       \* no snapshot has been published since the last press
  shown, ticks, pins, shut, rows,  \* Models, the rows as they are drawn
  menu,        \* the file the menu was opened on, [id, at]
  opened,      \* what the last press opened: [how, asked, got]
  stale,       \* a tick was drawn since the rows were built
  caught,      \* which came last: a press, a snapshot, or its drawing
  acts

models == <<shown, ticks, pins, shut, rows, guess, stale, caught>>
panelVars   == <<world, truth, inbox, watching, latest, models, menu, opened, acts>>

(* There is a torrent, and every file has a path.                          *)
IsLibrary == Library \in Seq(Seq(Seq(Seq(Nat)))) /\ Library # <<>>

Torrents == DOMAIN Library
At(t)    == DOMAIN Library[t]
Nothing  == [id |-> 0, at |-> 0]
Unopened == [how |-> "none", asked |-> Nothing, got |-> Nothing]

----------------------------------------------------------------------------
(* The first place two sequences differ at.                                *)
Differ(a, b) == Min({i \in 1 .. Len(a) + 1 : i > Len(b) \/ i > Len(a) \/ a[i] # b[i]})

Alphabetical(a, b) ==
  LET i == Differ(a, b) IN i <= Len(b) /\ (i > Len(a) \/ a[i] < b[i])

(* Folders before files at every level, then by name.                      *)
SortsBefore(a, b) ==
  LET i == Differ(a, b)
      inner == Len(a) > i
  IN  /\ i <= Len(b)
      /\ \/ i > Len(a)
         \/ inner /\ Len(b) = i
         \/ inner = (Len(b) > i) /\ Alphabetical(a[i], b[i])

Folder(path, depth) == SubSeq(path, 1, depth)
FoldersOf(path) == {Folder(path, d) : d \in 1 .. Len(path) - 1}

(* What a folder is, given what one more of its files is.                  *)
And(sofar, ticked) ==
  IF sofar = (IF ticked THEN "all" ELSE "none") THEN sofar ELSE "part"

Tick(ticked) == IF ticked THEN "all" ELSE "none"

(* What a folder's files add up to, each of them as `list` has it.         *)
Sum(list, folder) ==
  LET inside == SelectSeq(list, LAMBDA f : folder \in FoldersOf(f.path))
      ticked[n \in DOMAIN inside] ==
        IF n = 1 THEN Tick(inside[1].ticked) ELSE And(ticked[n - 1], inside[n].ticked)
  IN  [at |-> 0, path |-> folder,
       ticked |-> ticked[Len(inside)],
       first |-> \E i \in DOMAIN inside : inside[i].first,
       complete |-> \A i \in DOMAIN inside : inside[i].complete]

Leaf(f) == [f EXCEPT !.ticked = Tick(@)]

(* How much of the folders above the last file this one is still inside.   *)
Same(stack, path) == Min({Differ(stack, path) - 1, Len(path) - 1})

Row(at, path) == [at |-> at, path |-> path]

(* The rows one more file adds: the folders it is the first of, as far as  *)
(* the outermost one that is shut, and its own when none is.               *)
Unfold(closed, stack, f) ==
  LET same  == Same(stack, f.path)
      above == Len(f.path) - 1
      shuts == {d \in 1 .. above : Folder(f.path, d) \in closed}
      last  == Min(shuts \cup {above})
  IN  [i \in 1 .. last - same |-> Row(0, Folder(f.path, same + i))]
      \o (IF shuts = {} THEN <<f>> ELSE <<>>)

Flatten(t, closed) ==
  LET order == SortSeq([f \in At(t) |-> Row(f, Library[t][f])],
                       LAMBDA f, g : SortsBefore(f.path, g.path))
  IN  FlattenSeq([n \in DOMAIN order |->
        Unfold(closed, IF n = 1 THEN <<>> ELSE Front(order[n - 1].path), order[n])])

FoldersIn(t) == UNION {FoldersOf(Library[t][f]) : f \in At(t)}

(* The tree of each torrent, with any of the folders shut.                 *)
Tree == [t \in Torrents |-> [closed \in SUBSET FoldersIn(t) |-> Flatten(t, closed)]]

----------------------------------------------------------------------------
(* The engine: a command, and a snapshot.                                  *)
Fresh(t) == [ticks |-> [f \in At(t) |-> TRUE], first |-> [f \in At(t) |-> FALSE], done |-> {}]

PanelInit ==
  /\ world \in Habits
  /\ truth = [t \in Torrents |-> Fresh(t)]
  /\ inbox = <<>> /\ watching = 1 /\ latest = <<>>
  /\ guess = FALSE /\ shown = 0 /\ ticks = <<>> /\ pins = <<>> /\ shut = {} /\ rows = <<>>
  /\ menu = Nothing /\ opened = Unopened /\ stale = FALSE /\ acts = 0
  /\ caught = "drawn"

(* Mutant: a file that is no longer ticked stays pinned.                   *)
SetWanted_KeepsPin(entry, files, ticked) ==
  [entry EXCEPT !.ticks = [f \in DOMAIN @ |-> IF f \in files THEN ticked ELSE @[f]]]

(* Un-ticking a file drops its pin with it.                                *)
SetWanted(entry, files, ticked) ==
  LET next == [f \in DOMAIN entry.ticks |-> IF f \in files THEN ticked ELSE entry.ticks[f]]
  IN  [entry EXCEPT !.ticks = next, !.first = [f \in DOMAIN next |-> @[f] /\ next[f]]]

SetFirst(entry, f, first) ==
  IF first /\ ~entry.ticks[f] THEN entry ELSE [entry EXCEPT !.first[f] = first]

Take ==
  /\ inbox # <<>>
  /\ inbox' = Tail(inbox)
  /\ LET c == Head(inbox) IN
       /\ watching' = IF c.do = "watch" THEN c.id ELSE watching
       /\ truth' = CASE c.do = "watch" -> truth
                     [] c.do = "wanted" ->
                          [truth EXCEPT ![c.id] = SetWanted(@, c.files, c.on)]
                     [] c.do = "first" ->
                          [truth EXCEPT ![c.id] = SetFirst(@, Min(c.files), c.on)]
  /\ UNCHANGED <<world, latest, models, menu, opened, acts>>

(* A pin that has landed has done its job.                                 *)
Reconciled(entry) ==
  [entry EXCEPT !.first = [f \in DOMAIN @ |-> @[f] /\ f \notin entry.done]]

Publish ==
  /\ truth' = [t \in Torrents |-> Reconciled(truth[t])]
  /\ latest' = <<[id |-> watching, of |-> truth'[watching]]>>
  /\ guess' = FALSE
  /\ caught' = "published"
  /\ UNCHANGED <<world, inbox, watching, shown, ticks, pins, shut, rows, stale, menu, opened, acts>>

(* Bound: one file lands.                                                  *)
Land(t, f) ==
  /\ "lands" \in world
  /\ \A u \in Torrents : truth[u].done = {}
  /\ truth[t].ticks[f]
  /\ truth' = [truth EXCEPT ![t].done = @ \cup {f}]
  /\ UNCHANGED <<world, inbox, watching, latest, models, menu, opened, acts>>

----------------------------------------------------------------------------
(* The tree with what the drawer believes of the files, over what the      *)
(* snapshot says is there.                                                 *)
BuildFiles(t, closed, chosen, pinned, done) ==
  LET list == [f \in At(t) |-> [at |-> f, path |-> Library[t][f], ticked |-> chosen[f],
                                first |-> pinned[f], complete |-> f \in done]]
      tree == Tree[t][closed \cap FoldersIn(t)]
  IN  [i \in DOMAIN tree |->
         IF tree[i].at \in At(t) THEN Leaf(list[tree[i].at]) ELSE Sum(list, tree[i].path)]

(* A snapshot that was on its way when the click happened knows nothing    *)
(* about it; another torrent drops the guess whatever its sequence says.   *)
InFlight(details) == shown = details.id /\ guess /\ Len(ticks) = Len(details.of.ticks)

(* Drawing the newest snapshot, with these folders shut.                   *)
Redraw(closed) ==
  IF latest = <<>> THEN UNCHANGED <<shown, ticks, pins, rows, guess, stale, caught>>
  ELSE LET details == latest[1]
           kept    == InFlight(details)
           chosen  == IF kept THEN ticks ELSE details.of.ticks
           pinned  == IF kept THEN pins ELSE details.of.first
       IN  /\ shown' = details.id
           /\ guess' = kept
           /\ ticks' = chosen /\ pins' = pinned
           /\ rows' = BuildFiles(details.id, closed, chosen, pinned, details.of.done)
           /\ stale' = FALSE
           /\ caught' = IF caught = "published" \/ shown # details.id THEN "drawn" ELSE caught

Draw == Redraw(shut) /\ UNCHANGED <<world, truth, inbox, watching, latest, shut, menu, opened, acts>>

----------------------------------------------------------------------------
(* What the user does.                                                     *)
Presses(kind) ==
  /\ kind \in world
  /\ acts < MaxActs
  /\ acts' = acts + 1
  /\ opened' = Unopened
  /\ UNCHANGED <<world, truth, watching, latest>>

(* The menu covers the window; the keys still reach the table.             *)
Uncovered == menu = Nothing /\ UNCHANGED menu

Send(command) == inbox' = Append(inbox, command)
Command(do, t, files, on) == [do |-> do, id |-> t, files |-> files, on |-> on]

(* The rows of files follow their ticks; the folders wait for a snapshot.  *)
MarkTicks(chosen) ==
  rows' = [i \in DOMAIN rows |->
             IF rows[i].at = 0 THEN rows[i]
             ELSE [rows[i] EXCEPT !.ticked = Tick(chosen[rows[i].at])]]

Ticked(files, on) == [f \in DOMAIN ticks |-> IF f \in files THEN on ELSE ticks[f]]

SetTicks(files, on) ==
  /\ guess' = TRUE /\ stale' = TRUE /\ caught' = "pressed"
  /\ ticks' = Ticked(files, on)
  /\ MarkTicks(ticks')
  /\ Send(Command("wanted", shown, files, on))
  /\ UNCHANGED <<shown, pins, shut>>

ToggleFile(f) == f \in DOMAIN ticks /\ SetTicks({f}, ~ticks[f])

PressTick(i) == Presses("ticks") /\ rows[i].at # 0 /\ ToggleFile(rows[i].at) /\ Uncovered

PressAll(on) ==
  /\ Presses("ticks") /\ shown # 0
  /\ SetTicks(DOMAIN ticks, on)
  /\ Uncovered

(* A path as it is written, its separators the number that is no letter.   *)
Written(path) == Tail(FoldLeft(LAMBDA text, name : text \o <<-1>> \o name, <<>>, path))

(* Mutant: the separator is not looked for.                                *)
FilesUnder_AnyPrefix(folder) ==
  {f \in DOMAIN ticks : IsStrictPrefix(Written(folder), Written(Library[shown][f]))}

(* Without the separator `Disc 1` claims the files of `Disc 10`.           *)
FilesUnder(folder) ==
  {f \in DOMAIN ticks : IsPrefix(Append(Written(folder), -1), Written(Library[shown][f]))}

(* A folder that is partly wanted ticks whole.                             *)
PressFolderTick(i) ==
  /\ Presses("folders") /\ rows[i].at = 0
  /\ LET under == FilesUnder(rows[i].path) IN
       under # {} /\ SetTicks(under, \E f \in under : ~ticks[f])
  /\ Uncovered

(* Nothing is sent, and the list is rebuilt at once.                       *)
PressChevron(i) ==
  /\ Presses("folders") /\ rows[i].at = 0
  /\ shut' = SymDiff(shut, {rows[i].path})
  /\ Redraw(shut')
  /\ UNCHANGED inbox /\ Uncovered

(* set_first(): the pin is the file's, and the row lit is that number's.   *)
ToggleFirst(f) ==
  /\ f \in DOMAIN pins
  /\ guess' = TRUE /\ stale' = TRUE /\ caught' = "pressed"
  /\ pins' = [pins EXCEPT ![f] = ~@]
  /\ rows' = IF f \in DOMAIN rows THEN [rows EXCEPT ![f].first = pins'[f]] ELSE rows
  /\ Send(Command("first", shown, {f}, pins'[f]))
  /\ UNCHANGED <<shown, ticks, shut>>

PressPin(i) == Presses("pins") /\ rows[i].at # 0 /\ ToggleFirst(rows[i].at) /\ Uncovered

(* A row of the table: the panel follows the selection.                    *)
Select(t) ==
  /\ Presses("switches")
  /\ Send(Command("watch", t, {}, TRUE))
  /\ UNCHANGED <<models, menu>>

Here(f) == [id |-> shown, at |-> f]

(* path_of() and is_complete(): the number is looked up among the rows.    *)
OpenFile(f, asked) ==
  /\ opened' = [how |-> "open", asked |-> asked,
                got |-> IF f \in DOMAIN rows /\ rows[f].complete THEN [id |-> shown, at |-> rows[f].at]
                        ELSE Nothing]
  /\ UNCHANGED <<inbox, models>>

(* A number the torrent does not have is the player's to be refused.       *)
PlayFile(f, asked) ==
  /\ opened' = [how |-> "play", asked |-> asked,
                got |-> IF f \in At(shown) THEN Here(f) ELSE Nothing]
  /\ UNCHANGED <<inbox, models>>

Opens ==
  /\ "opens" \in world
  /\ acts < MaxActs
  /\ acts' = acts + 1
  /\ UNCHANGED <<world, truth, watching, latest>>

DoubleClick(i) == Opens /\ rows[i].at # 0 /\ OpenFile(rows[i].at, Here(rows[i].at)) /\ Uncovered

OpenMenu(i) ==
  /\ "menu" \in world
  /\ rows[i].at # 0
  /\ menu = Nothing
  /\ menu' = Here(rows[i].at)
  /\ UNCHANGED <<world, truth, inbox, watching, latest, models, opened, acts>>

(* The line is grey when the row with the file's number is not complete.   *)
MenuOpens ==
  /\ Opens /\ menu # Nothing
  /\ menu.at \in DOMAIN rows /\ rows[menu.at].complete
  /\ OpenFile(menu.at, menu)
  /\ menu' = Nothing

MenuPlays == Opens /\ menu # Nothing /\ PlayFile(menu.at, menu) /\ menu' = Nothing

MenuTicks == Presses("ticks") /\ menu # Nothing /\ ToggleFile(menu.at) /\ menu' = Nothing

Press ==
  \/ \E i \in DOMAIN rows : \/ PressTick(i) \/ PressPin(i) \/ PressFolderTick(i) \/ PressChevron(i)
                            \/ DoubleClick(i) \/ OpenMenu(i)
  \/ \E on \in BOOLEAN : PressAll(on)
  \/ \E t \in Torrents : Select(t)
  \/ MenuOpens \/ MenuPlays \/ MenuTicks

PanelNext ==
  \/ Take \/ Publish \/ Draw \/ Press
  \/ \E t \in Torrents : \E f \in At(t) : Land(t, f)

PanelSpec == PanelInit /\ [][PanelNext]_panelVars

----------------------------------------------------------------------------
PanelTypeOK ==
  /\ world \in Habits /\ watching \in Torrents /\ shown \in Torrents \cup {0}
  /\ \A t \in Torrents : /\ truth[t].ticks \in [At(t) -> BOOLEAN]
                          /\ truth[t].first \in [At(t) -> BOOLEAN]
                          /\ truth[t].done \subseteq At(t)
  /\ shown # 0 => ticks \in [At(shown) -> BOOLEAN] /\ pins \in [At(shown) -> BOOLEAN]
  /\ \A i \in DOMAIN rows : /\ rows[i].at \in {0} \cup At(shown)
                            /\ rows[i].ticked \in {"all", "part", "none"}
  /\ {guess, stale} \subseteq BOOLEAN
  /\ acts \in 0 .. MaxActs

Below(folder, path) == Len(path) > Len(folder) /\ Folder(path, Len(folder)) = folder

Hidden(path) == \E folder \in shut : Below(folder, path)

Paths == {Library[shown][f] : f \in At(shown)}

(* "A shut folder still draws; what it hides is everything under it": the  *)
(* rows are every folder and file that no shut folder is above, once each, *)
(* right after the folder it is in, folders first and then by name.        *)
TreeIsWhole ==
  shown # 0 =>
    LET drawn(path, leaf) == {i \in DOMAIN rows : rows[i].path = path /\ (rows[i].at # 0) = leaf}
        shows(path, leaf) == Cardinality(drawn(path, leaf)) = IF Hidden(path) THEN 0 ELSE 1
        siblings(i, j)    == Front(rows[i].path) = Front(rows[j].path)
    IN  /\ \A path \in Paths : shows(path, TRUE)
        /\ \A folder \in UNION {FoldersOf(path) : path \in Paths} : shows(folder, FALSE)
        /\ \A i \in DOMAIN rows : \A j \in DOMAIN rows :
             /\ rows[i].at = 0 /\ Below(rows[i].path, rows[j].path) =>
                  i < j /\ \A k \in i + 1 .. j : Below(rows[i].path, rows[k].path)
             /\ i < j /\ siblings(i, j) =>
                  \/ rows[i].at = 0 /\ rows[j].at # 0
                  \/ (rows[i].at = 0) = (rows[j].at = 0)
                     /\ Alphabetical(Last(rows[i].path), Last(rows[j].path))

(* A folder "where two of eleven tracks are wanted is neither ticked nor   *)
(* empty": it says all, nothing or some of what is ticked under it, shut   *)
(* or not, but for the moment before it catches up with a press.           *)
FoldersAddUp ==
  ~stale => \A i \in DOMAIN rows : rows[i].at = 0 =>
    LET under == {f \in At(shown) : Below(rows[i].path, Library[shown][f])}
    IN  rows[i].ticked = IF \A f \in under : ticks[f] THEN "all"
                         ELSE IF \E f \in under : ticks[f] THEN "part" ELSE "none"

(* A press on a folder's box ticks every file below it, or unticks them if *)
(* all were ticked, and no file of a folder whose name begins with its.    *)
FolderTicksItsFiles ==
  [][\A i \in DOMAIN rows : inbox' # inbox /\ PressFolderTick(i) =>
       LET under == {f \in At(shown) : Below(rows[i].path, Library[shown][f])}
       IN  ticks' = [f \in At(shown) |-> IF f \in under THEN \E g \in under : ~ticks[g]
                                         ELSE ticks[f]]]_panelVars

(* A pin the panel is shown holds the other files back: the engine drops   *)
(* it with the tick, and when the file has landed.                         *)
PinsHoldBack ==
  latest # <<>> =>
    LET of == latest[1].of
    IN  \A f \in DOMAIN of.first : of.first[f] => of.ticks[f] /\ f \notin of.done

(* A player is given the file whose row was pressed.                       *)
PlaysWhatWasClicked == opened.how = "play" => opened.got = opened.asked

(* "A file's index is not its row any more": a press on a row opens the    *)
(* file of that row, or none.                                              *)
OpensWhatWasClicked ==
  opened.how = "open" /\ opened.got # Nothing => opened.got = opened.asked

(* "The next snapshot is the truth": a panel that was drawn since the last *)
(* press on its torrent was published, or for the first time, shows the    *)
(* ticks and the pins the session records, unless those changed since.     *)
PanelIsTruth ==
  /\ caught = "drawn" /\ inbox = <<>> /\ shown # 0
  /\ latest = <<[id |-> shown, of |-> truth[shown]]>>
  => /\ ticks = truth[shown].ticks /\ pins = truth[shown].first
       /\ \A i \in DOMAIN rows : rows[i].at # 0 =>
            /\ rows[i].ticked = Tick(ticks[rows[i].at])
            /\ rows[i].first = pins[rows[i].at]

(* A panel that was drawn since the last press was answered shows what the *)
(* session records; a pin holds the others back; and a player is given the *)
(* file whose row was pressed (detail.rs adopt, on_play; session.rs).      *)
PanelIsRight == PanelIsTruth /\ PinsHoldBack /\ PlaysWhatWasClicked
=============================================================================
