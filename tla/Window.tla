------------------------------- MODULE Window -------------------------------
(***************************************************************************)
(* The window over a running engine: the engine's loop publishes snapshots *)
(* and takes commands (zerem-engine/lib.rs, session.rs), the one UI thread *)
(* polls, draws and answers clicks (src/state.rs, src/model.rs, bridge/).  *)
(*                                                                         *)
(* A callback acts first and redraws afterwards, and a snapshot may be     *)
(* published in between: `busy` is a callback in that gap.  Sequence       *)
(* numbers are only ever compared with the newest one, so what is kept of  *)
(* one is whether a snapshot has been published since.  The key and the    *)
(* name of a torrent are one number; an option is a set of at most one.    *)
(***************************************************************************)
EXTENDS Integers, Sequences, FiniteSets, SequencesExt

CONSTANTS
  Library,    \* the names in the session at first, in the order of their ids
  Strays,     \* the torrent files the watched folder may bring
  Files,      \* the files of a torrent
  MaxActs,    \* how many gestures the user has
  Worlds      \* which gestures and events: one of these sets in a behaviour

ASSUME LibraryAssumption == Library \in Seq(Nat \ {0}) /\ Strays \subseteq Nat \ {0}
ASSUME ActsAssumption    == MaxActs \in Nat

VARIABLES
  world,
  \* the engine
  session,    \* id -> [hash, paused, complete, ticks]
  generation, \* bumped when a torrent comes or goes
  inbox,      \* the commands sent
  watching,   \* whose insides are built
  asleep,     \* set_paused
  landed,     \* finished since the last snapshot was built
  latest,     \* the snapshot in the lock
  folder,     \* what is still to be dropped in the watched folder
  \* the table
  selected, anchor, focused, assigned,
  view,       \* [col, desc, text, shown, shelf]: the sort and what hides rows
  order,      \* [at, generation, rows]: the cached order
  guesses,    \* id -> [action, newer]
  drawn,      \* the rows of the model
  told,       \* which endings the status bar announced
  \* the dialogs, the drawer, the window
  dialog,     \* [open, asks, data]; asks: id -> what the question was about
  drawer,     \* [open, shown, lines, guess]
  clicked,    \* the torrent of a plain click, until the next gesture
  prefs, visible, was,
  applied,    \* the poll has drawn the newest snapshot
  busy,
  acts

engine == <<session, generation, watching, asleep, landed, latest, folder>>
table  == <<selected, anchor, focused, assigned, view, order>>
window == <<prefs, visible, was, applied>>
vars   == <<world, engine, inbox, table, guesses, drawn, told, dialog, drawer, clicked,
            window, busy, acts>>

Hashes == {Library[i] : i \in DOMAIN Library} \cup Strays
Ids    == 0 .. (Len(Library) + Cardinality(Strays))

----------------------------------------------------------------------------
(* The engine.                                                             *)

State(e) == IF e.paused THEN "paused" ELSE IF e.complete THEN "seeding" ELSE "downloading"

RowOf(s, i) == [id |-> i, hash |-> s[i].hash, state |-> State(s[i]), complete |-> s[i].complete]

(* The members of a set one after the other: ahead[x] are those before x.  *)
InRow(S, ahead) ==
  [n \in 1 .. Cardinality(S) |-> CHOOSE x \in S : Cardinality(ahead[x]) = n - 1]

Ascending(S) == InRow(S, [i \in S |-> {j \in S : j < i}])

(* The rows are sorted by id.                                              *)
Rows(s) == LET ids == Ascending(DOMAIN s) IN [k \in DOMAIN ids |-> RowOf(s, ids[k])]

Details(s, w) ==
  {[id |-> i, hash |-> s[i].hash, ticks |-> s[i].ticks] : i \in w \cap DOMAIN s}

Snapshot(s, g, w, ended) ==
  [rows |-> Rows(s), generation |-> g, details |-> Details(s, w), finished |-> ended]

(* A snapshot is in the lock: every number noted before is an older one.   *)
Publish(s, g, w) ==
  /\ latest' = Snapshot(s, g, w, landed)
  /\ landed' = {}
  /\ applied' = FALSE
  /\ guesses' = [i \in DOMAIN guesses |-> [guesses[i] EXCEPT !.newer = TRUE]]
  /\ drawer' = [drawer EXCEPT !.guess = FALSE]

(* The file in the watched folder is added under the next id.              *)
Added(s, h) ==
  LET next == IF DOMAIN s = {} THEN 0 ELSE 1 + CHOOSE i \in DOMAIN s : \A j \in DOMAIN s : j <= i
  IN  [i \in DOMAIN s \cup {next} |->
         IF i = next THEN [hash |-> h, paused |-> FALSE, complete |-> FALSE, ticks |-> Files]
                     ELSE s[i]]

(* The end of every turn: the watched folder, then the snapshot, which is  *)
(* built and dropped when nobody looks and no command came.                *)
EndTurn(s, g, w, acted) ==
  \E drop \in {{}} \cup {{h} : h \in folder} :
    LET news == {h \in drop : \A i \in DOMAIN s : s[i].hash # h}
        s2   == IF news = {} THEN s ELSE Added(s, CHOOSE h \in news : TRUE)
        g2   == g + Cardinality(news)
    IN  /\ folder' = folder \ drop
        /\ session' = s2
        /\ generation' = g2
        /\ watching' = w
        /\ IF asleep /\ ~acted
           THEN landed' = {} /\ UNCHANGED <<latest, applied, guesses, drawer>>
           ELSE Publish(s2, g2, w)

Tick ==
  /\ EndTurn(session, generation, watching, FALSE)
  /\ UNCHANGED <<world, inbox, asleep, table, drawn, told, dialog, clicked, prefs, visible, was, busy, acts>>

Command(do, i, files, on, about) ==
  [do |-> do, id |-> i, files |-> files, on |-> on, about |-> about]

(* apply(): an id that is not there is only worth a notice.                *)
Carried(s, c) ==
  IF c.id \notin DOMAIN s THEN s
  ELSE CASE c.do = "start"  -> [s EXCEPT ![c.id].paused = FALSE]
         [] c.do = "pause"  -> [s EXCEPT ![c.id].paused = TRUE]
         [] c.do = "want"   -> [s EXCEPT ![c.id].ticks = IF c.on THEN @ \cup c.files ELSE @ \ c.files]
         [] c.do = "remove" -> [i \in DOMAIN s \ {c.id} |-> s[i]]
         [] OTHER           -> s

Take ==
  /\ inbox # <<>>
  /\ LET c == Head(inbox)
         s == Carried(session, c)
     IN  EndTurn(s, IF DOMAIN s = DOMAIN session THEN generation ELSE generation + 1,
                 IF c.do = "watch" THEN c.files ELSE watching, TRUE)
  /\ inbox' = Tail(inbox)
  /\ UNCHANGED <<world, asleep, table, drawn, told, dialog, clicked, prefs, visible, was, busy, acts>>

(* A download ends; the next snapshot built notices it.                    *)
Finish(i) ==
  /\ "ends" \in world
  /\ ~session[i].paused /\ ~session[i].complete
  /\ session' = [session EXCEPT ![i].complete = TRUE]
  /\ landed' = landed \cup {session[i].hash}
  /\ UNCHANGED <<world, generation, inbox, watching, asleep, latest, folder, table, guesses, drawn,
                 told, dialog, drawer, clicked, window, busy, acts>>

----------------------------------------------------------------------------
(* Drawing.                                                                *)

IdsOf(rows) == {rows[k].id : k \in DOMAIN rows}

IsVolatile == view.col # "name"

Kind(state) == CASE state = "paused" -> 0 [] state = "downloading" -> 1 [] OTHER -> 2

(* The key, then the id, ascending under either direction.                 *)
Before(v, r, t) ==
  LET key(x) == IF v.col = "name" THEN x.hash ELSE Kind(x.state)
  IN  IF key(r) = key(t) THEN r.id < t.id
      ELSE IF v.desc THEN key(r) > key(t) ELSE key(r) < key(t)

Shows(v, r) ==
  /\ v.shown \in {"all", r.state}
  /\ v.shelf => r.hash \in assigned
  /\ r.hash \in v.text

(* rebuild_order: everything sorted, then what is hidden dropped; no two   *)
(* rows are equal, so what is left is sorted as it would be alone.         *)
Rebuilt(v, snap) ==
  LET left == {k \in DOMAIN snap.rows : Shows(v, snap.rows[k])}
  IN  [at |-> InRow(left, [k \in left |-> {j \in left : Before(v, snap.rows[j], snap.rows[k])}]),
       generation |-> snap.generation,
       rows |-> Len(snap.rows)]

Stale(snap) == order.generation # snap.generation \/ order.rows # Len(snap.rows)

(* Mutant: a sort by state is taken for one that does not move.            *)
RefreshOrder_OnlyStale(snap) == order' = IF Stale(snap) THEN Rebuilt(view, snap) ELSE order

RefreshOrder(snap) == order' = IF Stale(snap) \/ IsVolatile THEN Rebuilt(view, snap) ELSE order

Settle == [i \in {j \in DOMAIN guesses : ~guesses[j].newer} |-> guesses[i]]

(* A row under a guess.                                                    *)
Guessed(r, gs) ==
  IF r.id \notin DOMAIN gs THEN r
  ELSE CASE gs[r.id].action = "Paused"  -> [r EXCEPT !.state = "paused"]
         [] gs[r.id].action = "Started" -> [r EXCEPT !.state = IF r.complete THEN "seeding" ELSE "downloading"]
         [] OTHER                       -> r

Gone(r, gs) == r.id \in DOMAIN gs /\ gs[r.id].action = "Removed"

(* Removals are taken out of the order, never out of the rows: the other   *)
(* indices still point where they did.                                     *)
Overlaid(snap, at, gs) ==
  LET rows == [k \in DOMAIN snap.rows |-> Guessed(snap.rows[k], gs)]
      left == Ascending({n \in DOMAIN at : ~Gone(rows[at[n]], gs)})
  IN  [n \in DOMAIN left |-> rows[at[left[n]]]]

(* The drawer: shut when its torrent is gone, and a guess holds until the  *)
(* first newer snapshot or another torrent.                                *)
RefreshDrawer(snap) ==
  drawer' =
    IF ~drawer.open THEN drawer
    ELSE IF ~(drawer.shown \subseteq IdsOf(snap.rows)) THEN [drawer EXCEPT !.open = FALSE]
    ELSE IF snap.details = {} THEN drawer
    ELSE LET d        == CHOOSE d \in snap.details : TRUE
             inFlight == drawer.shown = {d.id} /\ drawer.guess
         IN  [open  |-> TRUE,
              shown |-> {d.id},
              guess |-> inFlight,
              lines |-> {[hash |-> d.hash, ticks |-> IF inFlight THEN l.ticks ELSE d.ticks] :
                           l \in IF inFlight THEN drawer.lines ELSE {d}}]

(* refresh(): the only way anything reaches the screen.                    *)
Refresh(snap) ==
  /\ told' = told \cup snap.finished
  /\ selected' = selected \cap IdsOf(snap.rows)
  /\ RefreshOrder(snap)
  /\ guesses' = Settle
  /\ drawn' = Overlaid(snap, order'.at, guesses')
  /\ RefreshDrawer(snap)
  /\ UNCHANGED <<anchor, focused, assigned, view>>

Redraw ==
  /\ busy
  /\ Refresh(latest)
  /\ busy' = FALSE
  /\ UNCHANGED <<world, engine, inbox, dialog, clicked, window, acts>>

Covered == prefs \/ dialog.open

(* Mutant: the engine is put to sleep and never woken.                     *)
Poll_NeverWakes ==
  /\ ~busy
  /\ visible # was \/ (~Covered /\ ~applied)
  /\ was' = visible
  /\ asleep' = (asleep \/ ~visible)
  /\ IF Covered \/ applied
     THEN UNCHANGED <<table, guesses, drawn, told, drawer, applied>>
     ELSE Refresh(latest) /\ applied' = TRUE
  /\ UNCHANGED <<world, session, generation, inbox, watching, landed, latest, folder, dialog, clicked,
                 prefs, visible, busy, acts>>

(* The timer of the UI thread.                                             *)
Poll ==
  /\ ~busy
  /\ visible # was \/ (~Covered /\ ~applied)
  /\ was' = visible
  /\ asleep' = ~visible
  /\ IF Covered \/ applied
     THEN UNCHANGED <<table, guesses, drawn, told, drawer, applied>>
     ELSE Refresh(latest) /\ applied' = TRUE
  /\ UNCHANGED <<world, session, generation, inbox, watching, landed, latest, folder, dialog, clicked,
                 prefs, visible, busy, acts>>

----------------------------------------------------------------------------
(* Gestures: each acts on what is drawn, and a redraw is owed.             *)

Free == visible /\ ~busy /\ acts > 0 /\ ~prefs

(* Something the user does with no dialog in the way.                      *)
Gesture(kind) ==
  /\ Free /\ ~dialog.open
  /\ kind \in world
  /\ acts' = acts - 1
  /\ busy' = TRUE

Rest  == <<world, engine, drawn, told, window>>
Quiet == UNCHANGED <<assigned, view, order>>

TopSelected(sel) ==
  LET at == {k \in DOMAIN drawn : drawn[k].id \in sel}
  IN  {drawn[k].id : k \in {j \in at : \A m \in at : j <= m}}

(* follow_selection: watch the topmost selected row while the drawer is    *)
(* open.                                                                   *)
Watch(sel, open) == Command("watch", 0, IF open THEN TopSelected(sel) ELSE {}, FALSE, 0)

Follow == inbox' = Append(inbox, Watch(selected', drawer'.open))

Between(j, k) == IF j < k THEN j .. k ELSE k .. j

(* select(): shift takes the run from the anchor, ctrl one more or less.   *)
Select(k, how) ==
  LET id == drawn[k].id
  IN  /\ selected' = CASE how = "shift" -> {drawn[j].id : j \in Between(anchor, k) \cap DOMAIN drawn}
                      [] how = "ctrl"  -> IF id \in selected THEN selected \ {id} ELSE selected \cup {id}
                      [] OTHER         -> {id}
      /\ focused' = IF how = "shift" THEN focused ELSE {id}
      /\ anchor' = IF how = "shift" THEN anchor ELSE k

(* A plain click opens the drawer too.                                     *)
Click(k, how) ==
  /\ Gesture("selects")
  /\ Select(k, how)
  /\ drawer' = [drawer EXCEPT !.open = @ \/ how = "plain"]
  /\ clicked' = IF how = "plain" THEN {drawn[k].id} ELSE {}
  /\ Follow
  /\ Quiet /\ UNCHANGED <<Rest, guesses, dialog>>

(* A right click on a row not selected selects it first.                   *)
OpenMenu(k) ==
  /\ Gesture("menus")
  /\ UNCHANGED drawer
  /\ IF drawn[k].id \in selected
     THEN UNCHANGED <<selected, anchor, focused, inbox>>
     ELSE Select(k, "plain") /\ Follow
  /\ clicked' = {}
  /\ Quiet /\ UNCHANGED <<Rest, guesses, dialog>>

SelectAll ==
  /\ Gesture("selects")
  /\ selected' = {drawn[k].id : k \in DOMAIN drawn}
  /\ UNCHANGED <<anchor, focused, drawer>>
  /\ clicked' = {}
  /\ Follow
  /\ Quiet /\ UNCHANGED <<Rest, guesses, dialog>>

FocusRow == {k \in DOMAIN drawn : drawn[k].id \in focused}

(* The arrows start at the top, step by one and stop at the ends; Home and *)
(* End jump; with shift the run from the anchor is selected.               *)
Arrow(step, extend) ==
  /\ Gesture("arrows")
  /\ drawn # <<>>
  /\ LET last == Len(drawn)
         from == CHOOSE k \in FocusRow : TRUE
         row  == CASE step = "Home" -> 1
                   [] step = "End"  -> last
                   [] OTHER         -> IF FocusRow = {} THEN 1
                                       ELSE IF step = "Up" THEN IF from = 1 THEN 1 ELSE from - 1
                                       ELSE IF from = last THEN last ELSE from + 1
         id   == drawn[row].id
     IN  /\ selected' = IF extend THEN {drawn[j].id : j \in Between(anchor, row) \cap DOMAIN drawn} ELSE {id}
         /\ anchor' = IF extend THEN anchor ELSE row
         /\ focused' = {id}
  /\ UNCHANGED drawer
  /\ clicked' = {}
  /\ Follow
  /\ Quiet /\ UNCHANGED <<Rest, guesses, dialog>>

(* A sort or a narrowing rebuilds the order from the snapshot of the       *)
(* moment; the redraw may use another.                                     *)
Narrow(v) ==
  /\ view' = v
  /\ order' = Rebuilt(v, latest)
  /\ clicked' = {}
  /\ UNCHANGED <<assigned, anchor, focused, drawer, Rest, guesses, dialog>>

Clicked(col) ==
  IF view.col = col THEN [view EXCEPT !.desc = ~@]
                    ELSE [view EXCEPT !.col = col, !.desc = col # "name"]

SortBy(col) ==
  /\ Gesture("sorts")
  /\ Narrow(Clicked(col))
  /\ UNCHANGED <<selected, inbox>>

(* Mutant: the selection is not cut down.                                  *)
Type_KeepsSelection(names) ==
  /\ Gesture("types")
  /\ Narrow([view EXCEPT !.text = names])
  /\ UNCHANGED selected
  /\ Follow

(* Typing cuts the selection down to what is left showing.                 *)
Type(names) ==
  /\ Gesture("types")
  /\ Narrow([view EXCEPT !.text = names])
  /\ selected' = selected \cap {latest.rows[order'.at[k]].id : k \in DOMAIN order'.at}
  /\ Follow

ShowState(state) ==
  /\ Gesture("shows")
  /\ Narrow([view EXCEPT !.shown = state])
  /\ UNCHANGED selected
  /\ Follow

ShowShelf(on) ==
  /\ Gesture("shelves")
  /\ Narrow([view EXCEPT !.shelf = on])
  /\ UNCHANGED selected
  /\ Follow

ShowAll ==
  /\ \E kind \in {"types", "shows", "shelves"} : Gesture(kind)
  /\ Narrow([view EXCEPT !.text = Hashes, !.shown = "all", !.shelf = FALSE])
  /\ UNCHANGED <<selected, inbox>>

----------------------------------------------------------------------------
(* Commands: sent, and what they should do drawn at once.                  *)

RowsOf(ids) == {drawn[k] : k \in {j \in DOMAIN drawn : drawn[j].id \in ids}}

(* What the user takes a torrent for: the row, or else the last snapshot.  *)
SeenAs(i) ==
  LET known == {r \in Range(latest.rows) : r.id = i}
      seen  == IF RowsOf({i}) # {} THEN RowsOf({i}) ELSE known
  IN  IF seen = {} THEN 0 ELSE (CHOOSE r \in seen : TRUE).hash

Expect(ids, action) ==
  guesses' = [i \in DOMAIN guesses \cup ids |->
                IF i \in ids THEN [action |-> action, newer |-> FALSE] ELSE guesses[i]]

Send(cs) == inbox' = inbox \o SetToSeq(cs)

Run(ids, start) ==
  /\ Send({Command(IF start THEN "start" ELSE "pause", i, {}, FALSE, SeenAs(i)) : i \in ids})
  /\ Expect(ids, IF start THEN "Started" ELSE "Paused")
  /\ clicked' = {}
  /\ UNCHANGED <<table, drawer, Rest, dialog>>

(* The toolbar offers pause when every selected row drawn is running.      *)
AllRunning == selected # {} /\ \A r \in RowsOf(selected) : r.state # "paused"

ToggleSelected ==
  /\ Gesture("runs")
  /\ selected # {}
  /\ Run(selected, ~AllRunning)

(* The button on a row, whatever is selected.                              *)
ToggleRow(k) ==
  /\ Gesture("runs")
  /\ Run({drawn[k].id}, drawn[k].state = "paused")

(* The drawer's button is about the torrent it shows, by the last snapshot.*)
ToggleShown ==
  /\ Gesture("runs")
  /\ drawer.open
  /\ \E r \in Range(latest.rows) : r.id \in drawer.shown /\ Run({r.id}, r.state = "paused")

(* confirm_remove: the question is about these, and asks afresh about the  *)
(* data.                                                                   *)
Confirm(ids) ==
  /\ Free /\ ~dialog.open
  /\ "removes" \in world
  /\ ids # {}
  /\ acts' = acts - 1
  /\ dialog' = [open |-> TRUE, asks |-> [i \in ids |-> SeenAs(i)], data |-> FALSE]
  /\ clicked' = {}
  /\ UNCHANGED <<inbox, table, guesses, drawer, Rest, busy>>

AskToRemove ==
  \/ Confirm(selected)
  \/ \E k \in DOMAIN drawn : Confirm({drawn[k].id})
  \/ drawer.open /\ Confirm(drawer.shown)

TickData ==
  /\ dialog.open /\ ~busy /\ visible
  /\ ~dialog.data
  /\ dialog' = [dialog EXCEPT !.data = TRUE]
  /\ UNCHANGED <<inbox, table, guesses, drawer, clicked, Rest, busy, acts>>

Cancel ==
  /\ dialog.open /\ ~busy /\ visible
  /\ dialog' = [dialog EXCEPT !.open = FALSE]
  /\ UNCHANGED <<inbox, table, guesses, drawer, clicked, Rest, busy, acts>>

AskedAs(i) == IF i \in DOMAIN dialog.asks THEN dialog.asks[i] ELSE 0

(* Mutant: the selection is read back when the dialog is answered.         *)
Accept_Selection ==
  /\ dialog.open /\ ~busy /\ visible
  /\ assigned' = assigned \ {r.hash : r \in {q \in Range(latest.rows) : q.id \in selected}}
  /\ Send({Command("remove", i, {}, dialog.data, AskedAs(i)) : i \in selected})
  /\ Expect(selected, "Removed")
  /\ dialog' = [dialog EXCEPT !.open = FALSE]
  /\ busy' = TRUE
  /\ UNCHANGED <<selected, anchor, focused, view, order, drawer, clicked, Rest, acts>>

(* What the dialog was opened about goes, and its places on the shelves.   *)
Accept ==
  /\ dialog.open /\ ~busy /\ visible
  /\ LET targets == DOMAIN dialog.asks
     IN  /\ assigned' = assigned \ {r.hash : r \in {q \in Range(latest.rows) : q.id \in targets}}
         /\ Send({Command("remove", i, {}, dialog.data, AskedAs(i)) : i \in targets})
         /\ Expect(targets, "Removed")
  /\ dialog' = [dialog EXCEPT !.open = FALSE]
  /\ busy' = TRUE
  /\ UNCHANGED <<selected, anchor, focused, view, order, drawer, clicked, Rest, acts>>

----------------------------------------------------------------------------
(* The drawer.                                                             *)

OpenDrawer ==
  /\ Gesture("drawer")
  /\ drawer' = [drawer EXCEPT !.open = ~@]
  /\ UNCHANGED <<table, Rest, guesses, dialog>>
  /\ clicked' = {}
  /\ Follow

CloseDrawer ==
  /\ Free /\ ~dialog.open /\ "drawer" \in world /\ drawer.open
  /\ acts' = acts - 1
  /\ drawer' = [drawer EXCEPT !.open = FALSE]
  /\ inbox' = Append(inbox, Watch({}, FALSE))
  /\ clicked' = {}
  /\ UNCHANGED <<table, Rest, guesses, dialog, busy>>

(* A tick, or all of them, moves on the click; no redraw.  The command     *)
(* names the files and the answer, for the torrent whose lines are shown.  *)
Want(files, on) ==
  /\ drawer' = [drawer EXCEPT !.guess = TRUE,
                              !.lines = {[l EXCEPT !.ticks = IF on THEN @ \cup files ELSE @ \ files] : l \in @}]
  /\ Send({Command("want", i, files, on, l.hash) : i \in drawer.shown, l \in drawer.lines})

ToggleFiles(files) ==
  /\ Free /\ ~dialog.open /\ "ticks" \in world /\ drawer.open /\ drawer.lines # {}
  /\ acts' = acts - 1
  /\ Want(files, ~\A l \in drawer.lines : files \subseteq l.ticks)
  /\ clicked' = {}
  /\ UNCHANGED <<table, Rest, guesses, dialog, busy>>

----------------------------------------------------------------------------
(* The preferences, the tray.                                              *)

OpenPrefs ==
  /\ Free /\ ~dialog.open /\ "covers" \in world
  /\ prefs' = TRUE
  /\ acts' = acts - 1
  /\ UNCHANGED <<world, engine, inbox, table, guesses, drawn, told, dialog, drawer, clicked, visible,
                 was, applied, busy>>

ClosePrefs ==
  /\ prefs /\ ~busy
  /\ prefs' = FALSE
  /\ UNCHANGED <<world, engine, inbox, table, guesses, drawn, told, dialog, drawer, clicked, visible,
                 was, applied, busy, acts>>

(* A click on the tray icon, whatever is on screen.                        *)
TrayClick ==
  /\ ~busy /\ acts > 0 /\ "hides" \in world
  /\ visible' = ~visible
  /\ acts' = acts - 1
  /\ UNCHANGED <<world, engine, inbox, table, guesses, drawn, told, dialog, drawer, clicked, prefs,
                 was, applied, busy>>

----------------------------------------------------------------------------
Init ==
  /\ world \in Worlds
  /\ session = [i \in 0 .. (Len(Library) - 1) |->
                 [hash |-> Library[i + 1], paused |-> FALSE, complete |-> FALSE, ticks |-> Files]]
  /\ generation = 0
  /\ inbox = <<>>
  /\ watching = {}
  /\ asleep = FALSE
  /\ landed = {}
  /\ latest = Snapshot(session, 0, {}, {})
  /\ folder = IF "drops" \in world THEN Strays ELSE {}
  /\ selected = {} /\ anchor = 1 /\ focused = {}
  /\ assigned = {Library[1]}
  /\ view = [col |-> "name", desc |-> FALSE, text |-> Hashes, shown |-> "all", shelf |-> FALSE]
  /\ order = Rebuilt(view, latest)
  /\ guesses = <<>>
  /\ drawn = Overlaid(latest, order.at, <<>>)
  /\ told = {}
  /\ dialog = [open |-> FALSE, asks |-> <<>>, data |-> FALSE]
  /\ drawer = [open |-> FALSE, shown |-> {}, lines |-> {}, guess |-> FALSE]
  /\ clicked = {}
  /\ prefs = FALSE /\ visible = TRUE /\ was = TRUE
  /\ applied = TRUE
  /\ busy = FALSE
  /\ acts = MaxActs

AtRow(k) ==
  \/ \E how \in {"plain", "ctrl", "shift"} : Click(k, how)
  \/ OpenMenu(k)
  \/ ToggleRow(k)

Next ==
  \/ Tick \/ Take
  \/ \E i \in DOMAIN session : Finish(i)
  \/ Redraw \/ Poll
  \/ \E k \in DOMAIN drawn : AtRow(k)
  \/ SelectAll
  \/ \E step \in {"Up", "Down", "Home", "End"}, extend \in BOOLEAN : Arrow(step, extend)
  \/ \E col \in {"name", "state"} : SortBy(col)
  \/ \E names \in {Hashes} \cup {{h} : h \in Hashes} : Type(names)
  \/ \E state \in {"all", "downloading", "paused"} : ShowState(state)
  \/ \E on \in BOOLEAN : ShowShelf(on)
  \/ ShowAll
  \/ ToggleSelected \/ ToggleShown
  \/ AskToRemove \/ TickData \/ Cancel \/ Accept
  \/ OpenDrawer \/ CloseDrawer
  \/ \E files \in {Files} \cup {{f} : f \in Files} : ToggleFiles(files)
  \/ OpenPrefs \/ ClosePrefs \/ TrayClick

Spec ==
  /\ Init /\ [][Next]_vars
  /\ WF_vars(Tick) /\ WF_vars(Take) /\ WF_vars(Redraw) /\ WF_vars(Poll)

----------------------------------------------------------------------------
Actions == {"watch", "start", "pause", "remove", "want"}

TypeOK ==
  /\ world \in Worlds
  /\ DOMAIN session \subseteq Ids
  /\ \A i \in DOMAIN session : session[i].hash \in Hashes /\ session[i].ticks \subseteq Files
  /\ \A k \in DOMAIN inbox : inbox[k].do \in Actions
  /\ watching \subseteq Ids /\ Cardinality(watching) <= 1
  /\ selected \subseteq Ids
  /\ anchor \in Nat
  /\ Range(order.at) \subseteq 1 .. order.rows
  /\ DOMAIN guesses \subseteq Ids
  /\ Cardinality(drawer.shown) <= 1 /\ Cardinality(drawer.lines) <= 1
  /\ landed \cup told \subseteq Hashes
  /\ acts \in 0 .. MaxActs

(* Until a newer snapshot answers, a row shows what the click asked for.   *)
GuessIsShown ==
  ~busy => \A r \in Range(drawn) : r.id \in DOMAIN guesses /\ ~guesses[r.id].newer =>
             /\ guesses[r.id].action = "Paused" => r.state = "paused"
             /\ guesses[r.id].action = "Started" => r.state # "paused"
             /\ guesses[r.id].action # "Removed"

(* The order is cached and the snapshots move on: what is drawn is still   *)
(* every torrent of the newest snapshot that nothing hides, once, in the   *)
(* order asked for, under the guesses of the moment.  (A name and a size   *)
(* never change; a state does, and then the cached order of a list that is *)
(* narrowed by state is only rebuilt when the sort is by state too; what   *)
(* is to be removed leaves its shelf before it leaves the list.)           *)
DrawnAsAsked ==
  /\ GuessIsShown
  /\ /\ ~busy /\ applied
     /\ IsVolatile \/ view.shown = "all"
     /\ view.shelf => \A k \in DOMAIN inbox : inbox[k].do # "remove"
     => drawn = Overlaid(latest, Rebuilt(view, latest).at, Settle)

(* state.rs, set_shown: "Narrow the view to one state".                    *)
ShownIsCurrent ==
  ~busy /\ applied /\ view.shown # "all" =>
    \A r \in Range(drawn) : r.id \notin DOMAIN Settle => r.state = view.shown

(* A command on its way to a torrent, from whichever part of the window,   *)
(* reaches the one the user saw there: a dialog that was answered after    *)
(* the selection moved, a tick in a drawer that lags behind the selection. *)
ReachesWhatWasSeen ==
  \A k \in DOMAIN inbox : inbox[k].do # "watch" /\ inbox[k].id \in DOMAIN session =>
    session[inbox[k].id].hash = inbox[k].about

(* Typing never leaves a torrent selected that cannot be seen.             *)
NothingHiddenIsSelected ==
  ~busy => \A i \in selected : i \in DOMAIN guesses \/ \E r \in Range(drawn) : r.id = i

(* torrents.rs, on_select: "A plain click opens the drawer on what was     *)
(* clicked".                                                               *)
ClickOpensDrawer ==
  ~busy /\ clicked # {} /\ clicked \subseteq IdsOf(latest.rows) => drawer.open

(* Once nobody clicks and nothing covers the window, it comes to show what *)
(* the engine holds: every guess gave way, no removed torrent is selected, *)
(* and the drawer has the ticks of a torrent that is selected.             *)
Calm == visible /\ ~Covered

ShowsTheTruth ==
  /\ inbox = <<>>
  /\ \A r \in Range(drawn) : r.id \in DOMAIN session /\ r = RowOf(session, r.id)
  /\ IsVolatile \/ view.shown = "all" =>
       Len(drawn) = Cardinality({i \in DOMAIN session : Shows(view, RowOf(session, i))})
  /\ selected \subseteq DOMAIN session
  /\ drawer.open /\ selected # {} =>
       /\ drawer.shown \subseteq selected
       /\ \A i \in drawer.shown, l \in drawer.lines :
            l.hash = session[i].hash /\ l.ticks = session[i].ticks

CatchesUp == <>[]Calm => <>[]ShowsTheTruth

(* The endings of torrents are announced.                                  *)
FinishIsTold == \A h \in Hashes :
  (\E i \in DOMAIN session : session[i].hash = h /\ session[i].complete) ~> (h \in told)
=============================================================================
