-------------------------------- MODULE Intake -------------------------------
(***************************************************************************)
(* How a torrent gets into the list: the add dialog, which reads it, asks  *)
(* and confirms; another launch of the program, which hands it over; and   *)
(* the watched folder, whose files are added and renamed to say how that   *)
(* went (zerem-engine session.rs, lib.rs, watch.rs; src/bridge/add.rs).    *)
(*                                                                         *)
(* The window and the engine are two threads.  Commands go one way through *)
(* a queue; the other way there is only the latest snapshot, which the     *)
(* window looks at when its own timer says so.  A read runs on a task of   *)
(* its own, between any two steps of both.                                 *)
(***************************************************************************)
EXTENDS Integers, Sequences, FiniteSets

CONSTANTS
  Torrents,
  Rows,        \* the files of each
  Links,       \* what a user can paste or pick
  Files,       \* the names a file in the watched folder can have
  Of,          \* the torrent behind each link, or None for one that is broken
  None, Broken,
  Every,       \* turns of the loop between two sweeps of the folder
  Worlds,      \* which users, disks and swarms there are in a behaviour
  MaxAsks,     \* bound: how many links and files are handed in
  MaxClicks    \* bound: how many clicks the dialog gets

ASSUME LinkAssumption  ==
  Of \in [Links -> Torrents \cup {None}] /\ {None, Broken} \cap Torrents = {} /\ None # Broken
ASSUME BoundAssumption == MaxAsks \in Nat
ASSUME RowAssumption   == Rows \in [Torrents -> Nat \ {0}]
ASSUME EveryAssumption == Every \in Nat \ {0}
ASSUME WorldAssumption ==
  \A w \in Worlds : w \subseteq {"pastes", "overlaps", "again", "launches", "drops",
                                 "locked", "unseeded", "stops"}

VARIABLES
  habits,
  (* The engine. *)
  at,         \* where its loop is
  inbox,      \* commands sent and not taken
  pending,    \* TorrentSession.pending
  bytes,      \* pending_bytes, as the torrent they are of
  task,       \* the link being read, or None
  reads,      \* answers of such tasks, on their way
  adding,     \* the link add() waits for
  list,       \* entries, with what librqbit was told for each
  since,      \* since_sweep
  names,      \* the rest of the listing a sweep is going through
  (* The watched folder. *)
  waiting, added, failed,   \* the content of NAME, NAME.added and NAME.failed
  (* The window. *)
  published,  \* `pending` of the latest snapshot
  news,       \* the window has not drawn that snapshot
  dialog,     \* what is on screen: AddState and Choice
  assigned,   \* the torrents put on the shelf that was typed
  (* Bookkeeping of the model. *)
  meant,      \* the torrents the user saw when typing it
  handed,     \* the torrents handed in so far
  asks, clicks

engine == <<at, inbox, pending, bytes, task, reads, adding, list, since, names>>
folder == <<waiting, added, failed>>
window == <<published, news, dialog, assigned, meant>>
vars == <<habits, engine, folder, window, handed, asks, clicks>>

RowsOf(t) == 1 .. Rows[t]

(* A torrent of several files has a folder of its own (subfolder()).       *)
Own(t) == IF Rows[t] > 1 THEN t ELSE None

(* `q` numbers the questions, for the model: the code has no such number.  *)
NoPending == [link |-> None, st |-> "none", q |-> 0]
Fetching(l, q) == [link |-> l, st |-> "fetching", q |-> q]

(* The torrent a snapshot can tell of: its files are there once read.      *)
Known(p) == IF p.st = "ready" THEN Of[p.link] ELSE None
Count(p) == IF Known(p) = None THEN 0 ELSE Rows[Known(p)]

Absent == [in |-> FALSE, only |-> {}, folder |-> None, stopped |-> FALSE,
           shown |-> None, ticked |-> {}]

NoDialog == [open |-> FALSE, link |-> None, rows |-> 0, ticks |-> {}, st |-> "none", q |-> 0]

Init ==
  /\ habits \in Worlds
  /\ at = "select" /\ inbox = <<>>
  /\ pending = NoPending /\ bytes = None /\ task = None /\ reads = <<>> /\ adding = None
  /\ list = [t \in Torrents |-> Absent]
  /\ since = 0 /\ names = {}
  /\ waiting = [n \in Files |-> None] /\ added = waiting /\ failed = waiting
  /\ published = NoPending /\ news = FALSE /\ dialog = NoDialog
  /\ assigned = {} /\ meant = {}
  /\ handed = {} /\ asks = 0 /\ clicks = 0

-----------------------------------------------------------------------------
(* The window.                                                             *)

Plain(c, l) == [cmd |-> c, link |-> l, ticks |-> {}, all |-> FALSE, q |-> 0]
Inspect(l)  == [Plain("inspect", l) EXCEPT !.q = asks + 1]

(* add::refresh(): open or close the dialog after a snapshot, and start    *)
(* over when the link, or the number of rows, is not the one on screen.    *)
Drawn(d, p) ==
  IF p.st = "none" THEN [d EXCEPT !.open = FALSE]
  ELSE IF d.link # p.link \/ d.rows # Count(p)
  THEN [open |-> TRUE, link |-> p.link, rows |-> Count(p), ticks |-> 1 .. Count(p), st |-> p.st, q |-> p.q]
  ELSE [d EXCEPT !.open = TRUE, !.st = p.st, !.q = p.q]

(* A torrent that is handed in again, and a link while another is being    *)
(* asked about, are left to the behaviours that are about them.            *)
Fresh(t) == "again" \in habits \/ t \notin handed
Free ==
  \/ "overlaps" \in habits
  \/ ~dialog.open /\ pending = NoPending /\ published = NoPending /\ inbox = <<>>

HandIn(t) == asks < MaxAsks /\ asks' = asks + 1 /\ Fresh(t) /\ handed' = handed \cup ({t} \cap Torrents)

(* A link from the clipboard, which redraws; or a file that was picked.    *)
Ask(l) ==
  /\ "pastes" \in habits /\ Free /\ HandIn(Of[l])
  /\ inbox' = Append(inbox, Inspect(l))
  /\ dialog' = Drawn(dialog, published) \/ UNCHANGED dialog
  /\ UNCHANGED <<habits, at, pending, bytes, task, reads, adding, list, since, names,
                 folder, published, news, assigned, meant, clicks>>

Launch(l) ==
  /\ "launches" \in habits /\ HandIn(Of[l])
  /\ inbox' = Append(inbox, Plain("add", l))
  /\ UNCHANGED <<habits, at, pending, bytes, task, reads, adding, list, since, names,
                 folder, window, clicks>>

Drop(n, t) ==
  /\ "drops" \in habits /\ waiting[n] = None /\ HandIn(t)
  /\ waiting' = [waiting EXCEPT ![n] = t]
  /\ UNCHANGED <<habits, engine, added, failed, window, clicks>>

Click == clicks < MaxClicks /\ clicks' = clicks + 1

Toggle(i) ==
  /\ dialog.open /\ i \in 1 .. dialog.rows /\ Click
  /\ dialog' = [dialog EXCEPT !.ticks = IF i \in @ THEN @ \ {i} ELSE @ \cup {i}]
  /\ UNCHANGED <<habits, engine, folder, published, news, assigned, meant, handed, asks>>

(* on_confirm(): the shelf takes the torrent of the latest snapshot; the   *)
(* command takes the ticks, and no word of which torrent they are about.   *)
(* `link` tells the model what was on screen.                              *)
Confirm(shelf) ==
  /\ dialog.open /\ dialog.st = "ready" /\ dialog.ticks # {} /\ Click
  /\ inbox' = Append(inbox, [Plain("confirm", dialog.link) EXCEPT !.ticks = dialog.ticks,
                                            !.all = (dialog.ticks = 1 .. dialog.rows)])
  /\ assigned' = IF shelf THEN assigned \cup ({Known(published)} \ {None}) ELSE assigned
  /\ meant' = IF shelf THEN meant \cup {Of[dialog.link]} ELSE meant
  /\ dialog' = Drawn([dialog EXCEPT !.open = FALSE], published)
  /\ UNCHANGED <<habits, at, pending, bytes, task, reads, adding, list, since, names,
                 folder, published, news, handed, asks>>

Cancel ==
  /\ dialog.open /\ Click
  /\ inbox' = Append(inbox, Plain("cancel", None))
  /\ dialog' = [dialog EXCEPT !.open = FALSE]
  /\ UNCHANGED <<habits, at, pending, bytes, task, reads, adding, list, since, names,
                 folder, published, news, assigned, meant, handed, asks>>

PressStop(t) ==
  /\ "stops" \in habits /\ list[t].in /\ Click
  /\ inbox' = Append(inbox, Plain("stop", t))
  /\ UNCHANGED <<habits, at, pending, bytes, task, reads, adding, list, since, names,
                 folder, window, handed, asks>>

(* The timer of start_tick().                                              *)
Draw ==
  /\ news
  /\ news' = FALSE
  /\ dialog' = Drawn(dialog, published)
  /\ UNCHANGED <<habits, engine, folder, published, assigned, meant, handed, asks, clicks>>

-----------------------------------------------------------------------------
(* The read, on its task: the swarm answers, or PATIENCE runs out.         *)
Answer ==
  /\ task # None
  /\ \E ok \in BOOLEAN :
       /\ ok => Of[task] # None /\ "unseeded" \notin habits
       /\ reads' = Append(reads, [link |-> task, ok |-> ok])
  /\ task' = None
  /\ UNCHANGED <<habits, at, inbox, pending, bytes, adding, list, since, names,
                 folder, window, handed, asks, clicks>>

-----------------------------------------------------------------------------
(* The engine's loop.                                                      *)
TickTurn ==
  /\ at = "select" /\ at' = "sweep"
  /\ UNCHANGED <<habits, inbox, pending, bytes, task, reads, adding, list, since, names,
                 folder, window, handed, asks, clicks>>

(* Mutants: any answer; only a good one.                                   *)
Adopts_Any(r)      == pending.st # "none"
Adopts_OnlyGood(r) == pending.st # "none" /\ pending.link = r.link /\ r.ok

(* adopt_read(): only the answer to what is being asked.                   *)
Adopts(r) == pending.st # "none" /\ pending.link = r.link

TakeRead ==
  /\ at = "select" /\ reads # <<>>
  /\ LET r == Head(reads) IN
       IF Adopts(r)
       THEN /\ bytes' = IF r.ok THEN Of[r.link] ELSE None
            /\ pending' = [pending EXCEPT !.st = IF r.ok THEN "ready" ELSE "failed"]
       ELSE UNCHANGED <<bytes, pending>>
  /\ reads' = Tail(reads)
  /\ at' = "sweep"
  /\ UNCHANGED <<habits, inbox, task, adding, list, since, names,
                 folder, window, handed, asks, clicks>>

(* Session::add_torrent and entries.insert().  librqbit hands back what it *)
(* has already, as it is; the entry is a new one all the same.             *)
Entered(t, only, where, shown, ticked) ==
  [in |-> TRUE, stopped |-> FALSE, shown |-> shown, ticked |-> ticked,
   only   |-> IF list[t].in THEN list[t].only ELSE only,
   folder |-> IF list[t].in THEN list[t].folder ELSE where]

Takes(cmd) == at = "select" /\ inbox # <<>> /\ Head(inbox).cmd = cmd /\ inbox' = Tail(inbox)

(* begin_inspect(), and the snapshot apply() publishes at once.            *)
TakeInspect ==
  /\ Takes("inspect")
  /\ task' = Head(inbox).link
  /\ pending' = Fetching(Head(inbox).link, Head(inbox).q)
  /\ published' = pending' /\ news' = TRUE
  /\ at' = "sweep"
  /\ UNCHANGED <<habits, bytes, reads, adding, list, since, names, folder,
                 dialog, assigned, meant, handed, asks, clicks>>

(* Mutant: the torrent as a whole, whatever is ticked.                     *)
TakeConfirm_Everything ==
  /\ Takes("confirm")
  /\ IF bytes = None THEN UNCHANGED <<bytes, pending, list>>
     ELSE /\ bytes' = None /\ pending' = NoPending
          /\ list' = [list EXCEPT ![bytes] = Entered(bytes, RowsOf(bytes), Own(bytes),
                                                     Of[Head(inbox).link], Head(inbox).ticks)]
  /\ at' = "sweep"
  /\ UNCHANGED <<habits, task, reads, adding, since, names, folder, window, handed, asks, clicks>>

(* confirm_add()                                                           *)
TakeConfirm ==
  /\ Takes("confirm")
  /\ LET c == Head(inbox)
         t == bytes
     IN IF t = None THEN UNCHANGED <<bytes, pending, list>>
        ELSE /\ bytes' = None /\ pending' = NoPending
             /\ IF pending = NoPending \/ ~(c.all \/ c.ticks \subseteq RowsOf(t))
                THEN UNCHANGED list
                ELSE list' = [list EXCEPT ![t] =
                       Entered(t, IF c.all THEN RowsOf(t) ELSE c.ticks,
                               IF Count(pending) > 1 THEN Known(pending) ELSE None,
                               Of[c.link], c.ticks)]
  /\ at' = "sweep"
  /\ UNCHANGED <<habits, task, reads, adding, since, names, folder, window, handed, asks, clicks>>

TakeCancel ==
  /\ Takes("cancel")
  /\ task' = None /\ pending' = NoPending /\ bytes' = None
  /\ at' = "sweep"
  /\ UNCHANGED <<habits, reads, adding, list, since, names, folder, window, handed, asks, clicks>>

TakeStop ==
  /\ Takes("stop")
  /\ list' = [list EXCEPT ![Head(inbox).link].stopped = TRUE]
  /\ at' = "sweep"
  /\ UNCHANGED <<habits, pending, bytes, task, reads, adding, since, names,
                 folder, window, handed, asks, clicks>>

(* add() is awaited where it stands.                                       *)
TakeAdd ==
  /\ Takes("add")
  /\ adding' = Head(inbox).link
  /\ at' = "adding"
  /\ UNCHANGED <<habits, pending, bytes, task, reads, list, since, names,
                 folder, window, handed, asks, clicks>>

AfterAdd(t) == IF t \in Torrents THEN [list EXCEPT ![t] = Entered(t, RowsOf(t), Own(t), None, {})] ELSE list

(* Nobody in the swarm has its metadata, and nothing here runs out.        *)
Stuck == at = "adding" /\ "unseeded" \in habits /\ Of[adding] # None

Added ==
  /\ at = "adding" /\ ~Stuck
  /\ list' = AfterAdd(Of[adding])
  /\ adding' = None
  /\ at' = "sweep"
  /\ UNCHANGED <<habits, inbox, pending, bytes, task, reads, since, names,
                 folder, window, handed, asks, clicks>>

(* sweep_watch()                                                           *)
Sweep ==
  /\ at = "sweep"
  /\ since' = (since + 1) % Every
  /\ IF since + 1 = Every
     THEN names' = {n \in Files : waiting[n] # None} /\ at' = "names"
     ELSE at' = "publish" /\ UNCHANGED names
  /\ UNCHANGED <<habits, inbox, pending, bytes, task, reads, adding, list,
                 folder, window, handed, asks, clicks>>

(* Mutants: every file is recorded as added; a broken one stays.           *)
Park_AllAdded(n) ==
  /\ waiting' = [waiting EXCEPT ![n] = None]
  /\ added' = IF added[n] = None THEN [added EXCEPT ![n] = waiting[n]] ELSE added
  /\ UNCHANGED failed

Park_OnlyGood(n) ==
  IF waiting[n] = Broken THEN UNCHANGED folder
  ELSE /\ waiting' = [waiting EXCEPT ![n] = None]
       /\ added' = IF added[n] = None THEN [added EXCEPT ![n] = waiting[n]] ELSE added
       /\ UNCHANGED failed

(* park(): under a record's name if that is free, and removed if it is     *)
(* not; a file that is open elsewhere stays.                               *)
Park(n) ==
  LET ok   == waiting[n] # Broken
      free == IF ok THEN added[n] = None ELSE failed[n] = None
  IN \/ /\ waiting' = [waiting EXCEPT ![n] = None]
        /\ added'  = IF free /\ ok  THEN [added EXCEPT ![n] = waiting[n]] ELSE added
        /\ failed' = IF free /\ ~ok THEN [failed EXCEPT ![n] = waiting[n]] ELSE failed
     \/ "locked" \in habits /\ UNCHANGED folder

SweepOne ==
  /\ at = "names"
  /\ \E n \in names :
       /\ names' = names \ {n}
       /\ list' = AfterAdd(waiting[n])
       /\ Park(n)
  /\ UNCHANGED <<habits, at, inbox, pending, bytes, task, reads, adding, since,
                 window, handed, asks, clicks>>

Swept ==
  /\ at = "names" /\ names = {} /\ at' = "publish"
  /\ UNCHANGED <<habits, inbox, pending, bytes, task, reads, adding, list, since, names,
                 folder, window, handed, asks, clicks>>

Publish ==
  /\ at = "publish" /\ at' = "select"
  /\ published' = pending /\ news' = TRUE
  /\ UNCHANGED <<habits, inbox, pending, bytes, task, reads, adding, list, since, names,
                 folder, dialog, assigned, meant, handed, asks, clicks>>

Command == TakeInspect \/ TakeConfirm \/ TakeCancel \/ TakeStop \/ TakeAdd
Rest == Added \/ Sweep \/ SweepOne \/ Swept \/ Publish

User ==
  \/ \E l \in Links : Ask(l) \/ Launch(l)
  \/ \E n \in Files, t \in Torrents \cup {Broken} : Drop(n, t)
  \/ \E t \in Torrents : (\E i \in RowsOf(t) : Toggle(i)) \/ PressStop(t)
  \/ \E shelf \in BOOLEAN : Confirm(shelf)
  \/ Cancel

Next == User \/ Draw \/ Answer \/ TickTurn \/ TakeRead \/ Command \/ Rest

(* The loop goes on; select! takes a ready branch at random, so one that   *)
(* is ready again and again is taken; a read ends within PATIENCE.         *)
Fairness ==
  /\ WF_vars(Rest) /\ SF_vars(TickTurn) /\ SF_vars(Command) /\ SF_vars(TakeRead)
  /\ WF_vars(Answer) /\ WF_vars(Draw)

Spec == Init /\ [][Next]_vars /\ Fairness
-----------------------------------------------------------------------------
Pendings == [link : Links \cup {None}, st : {"none", "fetching", "ready", "failed"}, q : 0 .. MaxAsks]
Commands == {"inspect", "add", "confirm", "cancel", "stop"}

TypeOK ==
  /\ at \in {"select", "adding", "sweep", "names", "publish"}
  /\ \A i \in 1 .. Len(inbox) : inbox[i].cmd \in Commands
  /\ {pending, published} \subseteq Pendings
  /\ {bytes} \cup assigned \subseteq Torrents \cup {None}
  /\ {task, adding} \subseteq Links \cup {None}
  /\ \A i \in 1 .. Len(reads) : reads[i] \in [link : Links, ok : BOOLEAN]
  /\ \A t \in Torrents : list[t].in \in BOOLEAN /\ list[t].only \subseteq RowsOf(t)
  /\ since \in 0 .. Every - 1
  /\ names \subseteq Files
  /\ {waiting, added, failed} \subseteq [Files -> Torrents \cup {None, Broken}]
  /\ news \in BOOLEAN
  /\ dialog.open \in BOOLEAN /\ dialog.ticks \subseteq 1 .. dialog.rows

(* The bytes kept are those of the link being asked about: an answer that  *)
(* comes late, or twice, never stands behind another link (session.rs      *)
(* "one without the other is meaningless").                                *)
AnswersItsQuestion ==
  /\ pending.st = "ready"  => bytes = Of[pending.link]
  /\ pending.st = "failed" => bytes = None

(* What the dialog showed when Add was pressed is what the list gets: that *)
(* torrent, the files that were ticked, in a folder of its own, although   *)
(* the command says neither which torrent nor which question it answers.   *)
ConfirmedAsShown ==
  habits \cap {"overlaps", "again"} = {} =>
    \A t \in Torrents : list[t].in /\ list[t].shown # None =>
      list[t].shown = t /\ list[t].only = list[t].ticked /\ list[t].folder = Own(t)

(* A shelf gets the torrent that was on screen when its name was typed.    *)
ShelvedAsSeen == "overlaps" \notin habits => assigned \subseteq meant

(* A file recorded as added is in the list, and one recorded as failed     *)
(* could not be.                                                           *)
RecordTellsTruth ==
  \A n \in Files : /\ added[n] # Broken
                   /\ added[n] \in Torrents => list[added[n]].in
                   /\ failed[n] \notin Torrents

(* A torrent that is in the list already is not added a second time: what  *)
(* its user told it stays (session.rs add: "nothing is added twice").      *)
NothingAddedTwice == [][\A t \in Torrents : list[t].stopped => list'[t].stopped]_vars

(* A dialog begins with everything ticked (pending.rs: "Everything is on   *)
(* to start with").                                                        *)
StartsTicked ==
  [][dialog'.open /\ dialog'.q # dialog.q => dialog'.ticks = 1 .. dialog'.rows]_vars

(* Renamed and never deleted (watch.rs park).                              *)
NeverDeleted ==
  [][\A n \in Files : waiting[n] # None /\ waiting'[n] = None =>
       (IF waiting[n] = Broken THEN failed'[n] # failed[n] ELSE added'[n] # added[n])]_vars

(* The dialog is open exactly while the engine has something to ask, and   *)
(* asks what the engine would add.                                         *)
Shows == (dialog.open <=> pending # NoPending)
         /\ (dialog.open => dialog.st = pending.st /\ dialog.link = pending.link)

(* Every command is taken in the end, a link handed in gets an answer, and *)
(* the dialog comes to show what the engine has (lib.rs run, session.rs    *)
(* take_reads, bridge/add.rs refresh), with one way out: add() waits for   *)
(* the swarm inside the loop, and for a magnet from the command line that  *)
(* nobody seeds it waits for ever, and everything else with it.  A link in *)
(* the dialog is read on a task of its own and stops nothing.              *)
CommandsAreTaken ==
  /\ inbox # <<>> ~> inbox = <<>> \/ Stuck
  /\ pending.st = "fetching" ~> pending.st # "fetching" \/ Stuck
  /\ <>[](Shows \/ Stuck)

(* A file dropped in the watched folder is taken up, once: it never waits  *)
(* for ever.                                                               *)
DroppedIsParked ==
  \A n \in Files : waiting[n] # None /\ "locked" \notin habits ~> waiting[n] = None
=============================================================================
