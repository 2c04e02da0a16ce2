# Zerem: a verification project

Zerem is a BitTorrent client for the desktop: a window (Slint), an engine on a
thread of its own, and a copy of librqbit under `vendor/` that Zerem has changed
(`vendor/CHANGES.md`). This directory holds TLA+ models of its control: the life
of a torrent inside librqbit, the queue of active downloads the engine lays over
it, the choice of files that pins narrow and the journal gives back, how
torrents get in (dialog, other launches, watched folder), the move of a finished
torrent and the file system calls under it, the window that draws and guesses
over a running engine, the settings, the self-update, the launches that meet at
one pipe, and the encrypted handshake. TLC checks the models on small instances;
TLAPS proves the properties that matter most for every instance. `PROJECT.json`
maps every definition to the lines it stands for.

Paths below are relative to the repository. `E/` is `crates/zerem-engine/src/`,
`C/` is `crates/zerem-core/src/`, `H/` is `crates/zerem-shell/src/` and `L/` is
`vendor/librqbit/src/`.

Contents: 1 the system, 2 the models, 3 the runs, 4 bounds and fairness, 5 the
proofs, 6 what the code says and does not keep, 7 what is not modelled, 8 the
plan, 9 how to run it.

## 1. The system

### Who runs where

- The **window** runs on the main thread. It reads the latest snapshot (a
  `RwLock<Arc<Snapshot>>`), shows guesses of what its commands will do, and
  sends commands over an unbounded channel.
- The **engine loop** (`E/lib.rs`) runs on one thread. A turn of it is: one
  event (a tick of one second, a command, or the answer of a read), then
  `reconcile`, `enforce_queue`, `relocate_arrived`, `sweep_watch`, and a
  snapshot. It awaits librqbit in the middle of most of these steps, and what
  librqbit's tasks do meanwhile is what makes the loop hard.
- **librqbit's tasks**: one for each initial check, at most
  `concurrent_init_limit` of them at a time; one for each torrent that waits for
  a fatal error of its live state; peers, trackers and the DHT.
- The **carrier** (`E/relocate.rs`) moves files on a blocking task; the
  **streaming server** serves ranges of a file on the loopback.
- On **disk**: librqbit's `session.json` (which torrents, paused or not, which
  files, where) and its bitfields; the engine's `queued.txt` (the roster of
  torrents the queue holds back) and `narrowed.txt` (the ticks behind a pinned
  selection); the window's `settings.json`.

### Components

**A torrent in librqbit** (`L/torrent_state/mod.rs`, `initializing.rs`). State:
initializing, paused, live or error, behind a lock, with a paused flag, and on
each initializing object two flags, `pause_requested` and `check_running`.
Operations: `add_torrent`, `start`, `pause`, `delete`, the end of a check, a
fatal error. Hard: the check runs outside the lock, its end takes the lock
again, and starts, pauses and errors arrive between; a fatal error crosses a
channel and may be received in another state than it was sent from. Correct: one
check at a time on one object; no torrent hangs in its check; a paused torrent
does not transfer.

**The queue rule** (`C/queue.rs`). A pure function: of the torrents that are
wanted, in the order of position and id, the complete ones run and as many
downloads as the limit has places for. Hard: zero is no limit, ties. Correct:
never more than the limit, no place left empty.

**The engine's queue** (`E/session.rs`, `E/journal.rs`). State: an `Entry` per
torrent (`wanted_running`, `position`), `next_front`, `max_active`, the roster.
Operations: `set_running`, `set_max_active`, `confirm_add`, `remove`,
`enforce_queue` (at the end of every turn), `adopt_queue` (once, at the start).
It talks to librqbit by `pause` and `unpause` and reads `stats`. Hard: a pass
reads all torrents first and then acts on one after another, while they
complete, fail and end their checks; the roster and `session.json` are two
files; after a restart the queue has to tell its own pauses from the user's.
Correct: the limit and the line are respected; every wanted torrent gets its
turn; the queue comes to rest; it starts nothing its user stopped.

**The choice of files** (`E/session.rs`, `C/choice.rs`, `E/journal.rs`). State:
`Entry.wanted` (ticks), `Entry.first` (pins), librqbit's `only_files`, the
journal. Operations: `set_file_wanted`, `set_file_first`, `apply_choice`,
`reconcile`, `restore_narrowed`, a recheck, a removal. A pin narrows what
librqbit fetches to the pinned files until they land. Hard: the narrowing is in
`session.json`, so the ticks behind it are written down first; the two files can
be cut apart by a crash; librqbit refuses a change during a check; the ticks are
read from librqbit only when first needed. Correct: the ticks can be found again
whenever the process dies; nothing is fetched that was not ticked; what is
ticked arrives.

**Arrival and recheck** (`E/arrival.rs`, `E/relocate.rs`, `C/relocate.rs`).
State: `arrived`, `moving`, `Entry.was_complete`, `keep_dir`, the files.
Operations: `publish` notices who has become complete; `start_move` pauses a
torrent and hands its files to the carrier; `finish_move` drops the torrent from
librqbit and adds it again at the new place (`rebuild`); `recheck` is a rebuild
where it is. Hard: minutes pass between the start and the end of a move, with
commands, the queue, checks and crashes in between; librqbit hands ids out
again; between `forget` and `add_torrent` the torrent is in no list. Correct: no
file is lost; no torrent goes from the list; nothing is dropped before its files
are at the far end; whoever arrived is taken up.

**The files of a move** (`E/relocate.rs`, `C/relocate.rs`). A plan of steps, one
for each file; `carry` renames them all or, if one will not, takes the renames
back, copies everything, compares lengths, deletes the originals and prunes the
folders they emptied. Hard: each call may fail or be the last; of some the
result is thrown away. Correct: every file is somewhere in full at every moment,
at the far end on success, where it was on a fault, and nobody else's file is
replaced.

**Intake** (`E/session.rs` 497-680, `E/watch.rs`, `C/pending.rs`,
`src/bridge/add.rs`). State: the question (`pending`) and the bytes behind it,
the read in flight, the dialog in the window, the watched folder's files.
Operations: `begin_inspect`, `adopt_read`, `confirm_add`, `cancel_add`, `add`
for other launches, `sweep_watch` with its adding and parking. Hard: answers in
another order than the questions; a confirmation that names neither torrent nor
question; `add` waits for the swarm inside the loop; adding and renaming fail
one without the other. Correct: what is confirmed is what was shown; every link
and every dropped file is dealt with; the record tells the truth.

**The loop and the snapshot** (`E/lib.rs`, `snapshot.rs`, `map.rs`). State: the
published snapshot, `seq`, the notices and names of finished torrents that ride
on it, the paused view. It has no module of its own: each module has the part of
a turn it is about.

**The window** (`src/state.rs`, `src/model.rs`, `src/bridge/`). State: the
cached order, the selection with its anchor, the filter, the guesses that stand
until the next snapshot, the drawer, the dialogs. Hard: a snapshot is published
between a click and its redraw; a guess outlives or falls short of its answer;
ids are handed out again. Correct: what is drawn is the newest snapshot as asked
for; a command reaches the torrent the user saw.

**The table and the panel** (`C/sort.rs`, `C/filter.rs`, `C/category.rs`,
`C/content.rs`, `C/tree.rs`, `C/choice.rs`, `C/rate.rs`, `C/history.rs`,
`C/fmt.rs`, `C/torrent.rs`, `E/map.rs`). Columns and shelves; the tree of files
with its ticks and pins; rates, stalls, the minute of history, units. Pure
functions with a little state each (a filter's average, a ring, a cache).
Correct: see `TableIsRight`, `TreeIsRight`, `PanelIsRight`, `FiguresAreHonest`.

**Settings** (`src/settings.rs`, `src/bridge/prefs.rs`): a file written after a
debounce, flushed at exit, put aside when it cannot be read. Hard: kills between
the calls of a write, edits by hand, writes that fail, a reset. Correct: file,
window and engine all have what was last chosen.

**Self-update** (`src/update.rs`, `H/update.rs`, `src/bridge/updates.rs`):
check, download, verify, swap, relaunch, each on a thread that reports to one
button.

**Single instance** (`H/single_instance.rs`, `H/launch.rs`, `src/main.rs`): the
first launch owns a named pipe, a later one hands its argument over or, after a
timeout, ends the owner and takes its place. Correct: one process; no link lost;
every launch ends.

**MSE** (`crates/zerem-mse/`, `L/encryption.rs`): two ends that scan for each
other's marker over padding of unknown length, agree on a method and decipher
from the right place on, or fall back to plain text where both allow it.

**Streaming** (`E/stream.rs`): range requests over librqbit's file stream; no
state of its own. **librqbit's swarm side**: peers, pieces, uploads, DHT,
trackers. **Operating system, texts, tools**: see section 7.

### Hazards

`PROJECT.json` lists what a test of this code would hardly reach, each at its
line, with the property that would catch it or the reason none does. In short: a
check that ends across a start or a pause; a pass of the queue that acts on what
it read before an await; two files written one after the other; what is read
before it is known (completeness during a check, ticks before `resolve_files`);
a plan made minutes before it is carried out (`rebuild`); ids handed out again;
a failure halfway through a sequence; a guess that meets a snapshot made before
the command; a row's index that is not its file's; a timeout that runs out on a
live process.


## 2. The models

| Module | What it is | Uses |
|---|---|---|
| `ManagedTorrent` | the record behind a torrent's lock and what each locked section does to it | |
| `Lifecycle` | one torrent driven in every order | `ManagedTorrent` |
| `Admit`, `AdmitLoop` | the rule of the queue, and the loop of `admit` | |
| `Queue` | the engine's queue over librqbit's session, with restarts | `ManagedTorrent`, `Admit` |
| `Selection` | ticks, pins, the journal, `only_files` | |
| `Arrival` | the mover, the recheck and the files on disk | `ManagedTorrent` |
| `Move` | what the mover is promised of the files it carries | |
| `Carry` | the calls of `carry` on the file system | `Move`, which it implements |
| `Intake` | the add dialog, other launches, the watched folder | |
| `Handshake` | the two ends of the encrypted handshake | |
| `Window` | snapshots, clicks and redraws; selection, guesses, drawer, dialogs | |
| `Files` | the panel's tree of files, its ticks and pins | |
| `Figures` | rates, stalls, history and units of a row | |
| `Listing` | columns, search, shelves, kinds of content | |
| `Preferences` | the settings file, the panel, what the engine is told | |
| `Updates` | the update row and the files behind it | |
| `Instance` | launches that meet at the pipe | |
| `LifeProofs`, `ManagedTorrentProofs`, `QueueProofs`, `FileProofs`, `ArrivalProofs`, `IntakeProofs`, `ProcessProofs`, `WindowProofs` | the theorems | their module; `LifeProofs` those of `Lifecycle`, `Handshake`, `Files` and `Listing`, `WindowProofs` of `Window` and `Figures`, `ProcessProofs` those of `Instance`, `Updates` and `Preferences`, `QueueProofs` also of `AdmitLoop`, `FileProofs` of `Selection` and `Carry` |
| `MCSelection`, `MCIntake`, `MCWindow` | values for one module | their module |
| `MCLife`, `MCParts`, `MCProcess` | several modules that share no state, one of them at a time | see below |

The last three instantiate their modules with values and choose at the start
which one runs (`part`); the others stay in an initial state. A run of one of
them is the sum of the runs of its parts. `MCLife` has `Lifecycle`, `Queue` with
fairness, and `Handshake`; `MCProcess` has `Instance`, `Updates` and
`Preferences`; `MCParts` has `AdmitLoop`, `Carry`, `Files`, `Figures` and
`Listing`.

Many modules have a constant `Worlds` (or `Users`): sets of what may happen in
one behaviour, such as `{"launches", "pastes"}`. A behaviour has one of them,
chosen at the start. That keeps the product of everything with everything out of
the run and says, where a property fails, what it takes.

A definition whose name has an underscore in it (`SetRunning_Upwards`) is a
mutant: the definition that follows it with a plausible bug. No specification
uses it; it is there to show that a property can fail. (`File_`, `User_` and
`Next_` only avoid a name that is taken.)

**ManagedTorrent.** The states and the `paused` flag are `ManagedTorrentLocked`
(`L/torrent_state/mod.rs`). Every `TorrentStateInitializing` has flags of its
own, so objects are numbered and the flags are sets of numbers: `req`
(`pause_requested`), `running` (`check_running`). A check is a record in
`tasks`, with the `start_paused` it captured when it was spawned (`sp`): the
code looks at that copy, not at the torrent, and much of what is hard comes from
it. `Added`, `Started`, `Paused`, `Checked`, `FinishedCheck`, `Settled` and
`Stopped` are the locked sections. The pieces a check reads are abstracted to
its outcome: verified, failed, or cut short, which needs a pause request. Peers
are left out: live is live.

**Lifecycle** makes actions of them: `Start`, `Pause`, the three steps of a
check's end (out of its loop, `finish_check`, the lock), `FatalError` and
`ReceiveFatal`, with the semaphore of `concurrent_init_limit`.

**Admit** is what the queue should let in, said without an order of evaluation:
a wanted torrent is admitted if it is complete, or there is no limit, or fewer
downloads than the limit stand before it. **AdmitLoop** is the code, one torrent
at a time. `Queue` uses `Admitted`, which the theorem `AdmitIsCorrect` entitles
it to.

**Queue.** `entries`, `wanted`, `position`, `nextFront`, `limit` are
`TorrentSession` and `Entry`; `stored` and `diskPaused` are `session.json`,
`queued` the roster. A pass of `enforce_queue` is three kinds of steps, as the
code awaits in between: `Decide` reads all torrents into `plan`, `GiveTurn` and
`HoldBack` act on one torrent each in any order (a `HashMap` is iterated),
`KeepRoster` writes the roster and ends the pass. `passes` counts the passes
this turn still owes: `set_running` and `set_max_active` end with one of their
own, before the one of the loop. `Background` is what librqbit's tasks do
between any two of these steps. `Crash`, `Load` and `Adopt` are the death of the
process, `Session::new_with_opts` and `adopt_queue`. `asked` is not in the code:
it remembers what the user last said of each torrent, to compare what the queue
does with what it was told. A torrent and its info hash are one thing; ids are
reused as `next_id` reuses them.

There are three specifications: `Spec` from a start, with every check still to
run; `SettledSpec` from a session whose checks are over; `UnservedSpec`, from a
start, in which a download need not complete.

**Selection** has one torrent, as torrents share nothing here but the journal's
file. `Apply` is `apply_choice` up to its first await, `Ask` is
`update_only_files`, which refuses a torrent being checked, `Keep` the write to
`session.json`. `Recheck` and `AddBack` are the two ends of `rebuild`, `Restore`
and `Flush` those of `restore_narrowed`. `ticks`, `entries`, `stored` and
`narrowed` hold no choice or one, and are sets of at most one set of files.
`chosen` is the model's memory of what the user ticked. A world says what this
user does besides ticking in calm (editing ticks while a file is pinned or
checked, rechecking, removing) and how often the process dies.

**Arrival.** `phase` is the place in the turn of the loop: a command or a tick,
the queue (here with room for all, so that it starts whoever is wanted and
paused, or with no limit, so that it does nothing), `finish_move`, `start_move`,
the snapshot; `rebuild` is cut at its two awaits (`Forget`, `AddBack`). `disk`
says how much of each torrent is at each of two places; `at` is the output
folder librqbit has. `Carry` is the other task: a rename, or a copy that begins,
passes or fails, and drops its sources; a copy has what was there when it was
made. `Publish` is where an arrival is noticed, by what a row shows
(`SeenComplete`), which during a check is how much was read. `Foldered` torrents
have a folder of their own inside the destination: `gather` compares the
torrent's folder with the destination and does not see that such a torrent is
there. The files of a torrent move as one; `Carry` has them one by one.

**Carry.** One action is one call on the file system, in the order the code
makes them: `Check` (nothing of anybody else's is at a destination), `Folders`,
`Rename`, `Undo`, `Copy`, `Verify`, `Uncopy`, `Delete`, `Prune`. Any call whose
result the code looks at may fail, the process may die between two calls, and
the plan is carried out again. `Mishaps` are failures of calls whose result is
thrown away. `Promise` is the refinement mapping to `Move`: a file is where it
is in full.

**Intake.** `pending` and `bytes` are the question and what stands behind it;
`task` and `reads` the read in flight and its answers; `inbox` the channel;
`published`, `news` and `dialog` the snapshot, the window's timer and what is on
screen. `at` is the place in the loop: `select!` (`TickTurn`, `TakeRead`, the
commands), `add` waiting for the swarm (`TakeAdd`, `Added`), the sweep of the
folder one file at a time, `Publish`. `waiting`, `added` and `failed` are the
content of the names a dropped file can have. `q` numbers the questions for the
model; the code has no such number.

**Handshake.** The wire carries marks: a marker of twenty or eight bytes is one,
so is each byte of a padding. What is enciphered carries its keystream and the
place in it, and whoever reads at another place reads noise: being one byte off
is visible. Each end is a machine with one step per read; `Choose` is the
answering end's choice of a method, `SettleA` what the dialling end accepts,
`GivesUp` the second attempt in the clear.

**Window.** `Tick` and `Take` are turns of the engine's loop; a gesture acts,
sends its command and leaves `busy` up; `Redraw` is the end of the callback,
`Poll` the timer's. A snapshot may come at each of those gaps. `order` is the
cached order with what it was built for, `guesses` the pending ones with whether
a snapshot has come since (`newer`), `drawn` what is on screen. A command
remembers what the user saw at that row (`about`), for `ReachesWhatWasSeen`.

**Files, Figures, Listing.** Each translates the pure functions as operators
(`SortsBefore`, `Flatten`, `Smoothed`, `Reading`, `Precedes`, `Of`) and puts them
into the little machine the code puts them into: presses that cross snapshots,
turns of a loop, a cache that is rebuilt when something says so. The properties
say independently of the functions what has to come out.

**Preferences.** A field stands for all that travel as it does (section 4).
`current` is the store, `shown` the panel, `told` the engine, `disk` the file,
the file a write makes first, and the one put aside. `TimerFires`, `Create`,
`Write`, `Rename` are the calls of a save, with a kill possible between two.

**Updates.** A check and an install are threads; `panel` is the row's state,
from which the button is drawn; `staged` and `program` are the two files.

**Instance.** `at` says how far a launch is in `acquire` and `main`; `line` is
the one instance of the pipe, `serving` the owner's thread, `engine` what each
engine was given. `Step(p)` is the launch's own code, `Server` the owner's,
`Release` the operating system letting go of a dead owner's pipe, `User` what is
done to a process.

## 3. The runs

| Run | Module and instance | What it shows |
|---|---|---|
| `life` | `MCLife`: one torrent with 2 objects and 2 permits; three torrents under limits 0 to 2; two peers with paddings up to 2 | One check at a time on one object (`OneCheckPerInit`); a torrent started and not paused since leaves its check (`NoHungCheck`). Every wanted torrent gets its turn and the queue comes to rest (`TurnComes`). Two ends read what was said and keep to what is demanded (`Agreement`); those whose settings allow it meet, and nobody waits for ever (`TheyMeet`). |
| `queue_changes` | `Queue`, `SettledSpec`, 3 torrents, limits 0 and 1 | When a pass is over no more than the limit download with its leave (`LimitRespected`); nobody runs ahead of one held back (`LineRespected`); the roster has only wanted torrents (`RosterIsWanted`); between two turns `session.json` and the roster together know every torrent its user wants running (`WishIsOnDisk`), so that a death there loses no wish. Nothing dies in this run: the last two are about what a death would find. |
| `queue_restart` | `Queue`, `UnservedSpec`, 2 torrents, one may fail, one crash | The limit across a restart with all checks running; a torrent that slipped past its pause at the end of its check is held back by a later pass (`LimitRecovers`). |
| `selection` | `MCSelection`, 3 files; two crashes, or edits under a pin, rechecks and removals | Until the first death the disk has the ticks at every moment (`NarrowedIsRecoverable`); nothing is ever fetched that was not ticked (`NothingUnticked`); what is ticked arrives (`TickedArrives`). |
| `arrival` | `Arrival`, 2 torrents, 4 ids, a queue, errors, copies that fail | No torrent goes from the list or from its files (`NobodyVanishes`), no files are lost (`NothingIsLost`), whoever arrived is taken up (`ArrivedIsTakenUp`). |
| `arrival_ids` | `Arrival`, 2 torrents, 3 ids, 3 commands, one crash | With torrents removed, added, rechecked and started during a move, ids handed out again and an add refused, a torrent is dropped only for a place where its files are (`MovedFirst`). |
| `intake` | `MCIntake`, 2 torrents and a broken link, 2 names in the folder, six worlds | The bytes kept answer the question asked (`AnswersItsQuestion`); what was shown is what is added (`ConfirmedAsShown`); the folder's record is true (`RecordTellsTruth`); links, commands and files are dealt with (`CommandsAreTaken`, `DroppedIsParked`), unless a launch brings a magnet that nobody seeds: one world has such magnets, and `add` waiting for one is the only thing that holds the loop up. |
| `window` | `MCWindow`, 2 torrents and a dropped one, 3 gestures, twelve worlds | What is drawn is the newest snapshot as asked for, under the guesses of the moment (`DrawnAsAsked`); a command reaches the torrent the user saw (`ReachesWhatWasSeen`); typing leaves nothing selected that is hidden (`NothingHiddenIsSelected`); window and engine come to agree (`CatchesUp`). |
| `window_reopen` | the same, removals only; violation | After the torrent in the drawer is removed, clicking another row leaves the drawer shut (`ClickOpensDrawer`). |
| `process` | `MCProcess`: 3 launches in nine worlds; 3 checks and 2 installs; 3 edits and 2 launches by seven users | Launches one at a time, with nothing overrunning a timeout, leave one process (`OneProcessWhenCalm`); a launch that was acknowledged has its first link in an engine (`LinksAreHandedOver`); launches, checks, installs and writes end, but for a launch whose argument does not fit in the pipe of a process that is stuck (`EveryWaitEnds`); only a whole, signed download takes the program's place, and none stays beside it unless its removal failed (`UpdateIsSafe`); file, window and engine have what was last chosen (`SettingsAreKept`). |
| `process_twice` | `MCProcess`, launches together; violation | Two launches while the program runs: the second meets a busy pipe and runs beside the owner (`OneProcess`). |
| `parts` | `MCParts`: every line of up to 3 torrents; 3 nested files with six mishaps; trees, rows, shelves | `AdmitIsRight`, `MoveIsSafe` and `LeavesNothing`, `TreeIsRight` and `PanelIsRight`, `FiguresAreHonest`; `TableIsRight`, of which the first part is that the rows are those the search and the shelf leave (`RowsAreThoseLeft`), also with words typed while a shelf is picked. |

The two violations are the findings of `PROJECT.json`:

- `window_reopen`: `refresh` (`src/bridge/detail.rs:628`) shuts the drawer when
  the torrent in `shown` is not in the snapshot, and only `adopt`, further down,
  changes `shown`. Once that torrent is gone, every later plain click opens the
  drawer and its redraw shuts it. `src/bridge/torrents.rs:42` promises "A plain
  click opens the drawer on what was clicked".
- `process_twice`: the pipe has one instance; while its owner serves one launch,
  opening it fails as busy, which `forward` (`H/single_instance.rs:168`) answers
  like a pipe that is gone. `acquire` then claims a pipe a live process holds
  and, its attempts over, goes on unguarded. Line 1 of the file: "One process,
  however many times it is launched".

What a run says of several modules is a conjunction of properties those modules
state one by one, each under a comment of its own; `MCLife`, `MCParts` and
`MCProcess` show which. Every property of a passing run has a mutant in
`PROJECT.json`: a change of one mapped definition under which TLC finds the
property violated.

## 4. Bounds and fairness

Bounds, all of them constants:

- `MaxInits`: initializing objects one torrent gets. Two objects meet every
  crossing of a late check of an old object with a new one; the guard stops
  errors on the last object, so the bound cuts behaviours short and adds none.
- `Permits`: checks that hold a permit. One or two are enough for a check to
  wait for another.
- `Ids`: 2 or 3 torrents in `Queue`. Two are the least that compete, three let
  one stand between; a removal and an addition reuse an id. 3 or 4 ids in
  `Arrival`, as every rebuild takes one; commands that would leave none for a
  move are not given (`IdsLeft`).
- `MaxStarts`: jumps to the head of the line in one run. `MaxCommands`: what the
  user does in `Arrival`. A crash count: a second one meets the restart of the
  first.
- `Files`: 3 in `Selection`: a pinned one, one it holds up, one not ticked.
  `LastStep` = 3 steps in `Carry`: one done, one at work, one not yet; `MaxTries` =
  2, so that a second attempt meets what the first left.
- `Intake`: 2 asks and 2 clicks; a question, another over it, and their
  confirmation. `Every` is 2 turns between sweeps for 5 seconds.
- `Window`: 3 gestures from one state: select, act, act on what is no longer
  there. The twelve worlds pair the gestures that meet in the code.
- `Handshake`: paddings of 0 to 2 for 0 to 512. The code never looks at a length
  but to compare it with the longest; `MaxPad + 1` is the lie. `EndsAgree` holds
  for every length.
- `Instance`: 3 launches (an owner, one being served, one that finds it busy)
  and two attempts to claim: one that fails, and the last. Two links stand for
  several, the first and another.
- `Preferences`: 3 edits, 2 launches; a field for each way a value travels:
  `limits` and `quiet` the two pairs and `alt` the switch between them, `port`
  what waits for the next launch, `view` what the window remembers by itself,
  `shelves` the lists.
- `Figures`: 5 turns, with the patience and the minute cut to 3; amounts about
  where a unit, a figure or a per cent ends. TLC's integers end below 2^31, so it
  reads amounts in B, KB and MB; the theorem is about all five units. `Scale`
  keeps the average exact for as many samples. `Listing`: 5 happenings, `Files`: 2 presses.
- The queue's limit is 0 (none) or 1 in `queue_changes`, up to 2 in `life`, up
  to 3 in `parts`.

Fairness says what the code's scheduling does without anybody asking:

- the loop turns and finishes its pass (`WF` of `Tick`, `Enforce`, `Loop`,
  `Reconcile`, of `Rest` in `Intake`, of `Tick` and `Take` in `Window`);
- `select!` picks at random among what is ready: in `Intake` each of its
  branches is strongly fair (`TickTurn`, `Command`, `TakeRead`). Nothing says
  that the swarm answers `add` where the world has `unseeded`;
- a spawned check ends, lets go and takes its lock; the receiver of a fatal
  error receives it; a read on its own task answers (librqbit gives up on it in
  the end);
- the carrier ends; a start loads and adopts;
- the window's timers fire and a callback redraws (`WF` of `Draw`, `Redraw`,
  `Poll`); while it is hidden or covered nothing is promised;
- both ends of a connection go on reading while there is something to read or
  the connection is gone (`StepA`, `StepB`); the code has a timeout around both;
- a launch goes on in its code, the owner's thread serves, the system lets go of
  a dead process's pipe (`Step`, `Server`, `Release`); a process that sticks is
  never fair;
- a worker of the updater ends, the feed answers or does not (`Feed`); the
  settings' timer fires and a write goes on to its end or its failure (`Save`,
  `Exit`);
- in `Selection`, `SF` of the end of a check and of a file landing: a torrent
  that fails and is retried again and again gets through a check once;
- where a property needs the swarm to have every piece (`TurnComes`,
  `ArrivedIsTakenUp`), `WF` of `Complete`; `LimitRecovers` is checked without.

No command, no crash, no error and no mishap is ever assumed to happen.

`CHECK_DEADLOCK FALSE` is in the runs whose bounded users and connections come
to an end, and in none of `Queue`, `Selection`, `Arrival` and `Window`, where
the engine's loop always has a step.

## 5. The proofs

Checked by TLAPS, for all values of the constants the assumptions allow.

**LifeProofs**, of one torrent: `TypeCorrect`, `OneCheckAtATime`. The property
is inductive with the type once it says that `check_running` is up exactly for
the objects with a check on them (`OneCheck`). The lemmas of
`ManagedTorrentProofs` give type and `OneCheck` for each locked section, and are
used again in `QueueProofs`.

Of two peers: `EndsAgree`, which is `Agreement` for paddings of any length
(`Bounded`: `MaxPad` is a natural number), any two policies, and any client at
the other end. The code reads paddings whose length it does not know, looks for
marks among them, and switches two ciphers on at different moments; what one end
hears is what the other said only if no byte is lost or read twice on the way.
The property says this of the end of the handshake alone. The invariant `Inv`
says it of every step:

- `InStepA`, `InStepB`: there is a padding of `k` bytes such that every mark on
  the wire is the one that belongs at its place (`PlacesA`, `PlacesB`); the
  marks lie at consecutive places (`Lies`), from the one the reader is at
  (`ReaderB`, `ReaderA`) to the one the writer is at (`WriterA`, `WriterB`).
  Whoever has switched his cipher on counts the same places in his keystream.
  The part is dropped when there is no reader left;
- `Plain`: of the second attempt, in the clear, what is on the wire and what has
  been heard make up what was said;
- `Kept`: between clients like this one, the second mark of a keystream offers
  both methods or chooses RC4. That is what keeps an end from being talked out
  of its ciphers, as `settle` asks no policy; with another client it is not so,
  and section 6 has the behaviours;
- `Typed`: the types, the places within their bounds, and what each end has read
  of the other's lengths.

Liveness is no part of it: `TheyMeet` is checked, not proved.

Of the list of files: `PanelTellsTheTruth`, which is `PanelIsRight`, for any
torrents with any paths (`IsLibrary`; the run evaluates it), any presses and
worlds. The invariant `PanelInv` says that a list that counts as drawn is the
newest snapshot's, with no guess left (`DrawnIsLatest`), that a pinned file is
ticked whichever command comes first (`PinsAreTicked`), and that every command
on its way is about files of its torrent (`Messages`). What a player is given
needs `NoSwitchUnderMenu`: the menu keeps the index of a file and not its
torrent (section 6).

Of the table: `TableTellsTheTruth`, which is all of `TableIsRight`, for any
torrents with any names and files, any shelves in any spellings (as long as one
spelling has one key, `SpellingAssumption`), any words and any speeds. It needs
that the engine refuses nothing that was put on a shelf (`NothingRefused`):
section 6 has what happens otherwise. The invariant `TableInv` has four parts:

- `EntriesAreTrue`: a kind of content that is kept is the kind of the files,
  and none is kept of a torrent that is not listed;
- `RowsAreTrue`: each row is the row of its torrent as it is, and no torrent
  has two;
- `OrderIsTrue`: the order lists rows of the table, none twice (`Once`), and as
  many of those that search and shelf leave as there are, unless metadata came
  since (`late`) and something is typed; unless it came, each precedes the next.
  The order is built for a generation that has been;
- `ShelvesAreTrue`: who is on a shelf is listed, is on the one it was meant for,
  and the settings say the same as the window.

A step either builds the order again (`RebuiltOrder`) or leaves it over the same
torrents, with the names, sizes and shelves that it was built from
(`StaysAsItWas`, `StayingOrder`). That the second is enough whenever the code
does not do the first is the argument of `is_volatile`: generation and number of
rows tell of every addition and removal (`GrownIsRebuilt`), also of both within
one snapshot, and a column that moves is always built again (`SameIsKept`). An
order that is one to one into the rows that are kept, and as long as they are
many, has them all (`OrderIsWhole`). So the rows are those whose torrents say
what was typed and were put on the shelf that is picked (`RowsFollow`): the
window's own tests, on the rows, come to the same as what the catalogue and the
clicks say of the torrents (`KeptAreThoseLeft`). The two action properties are
about pairs of states: rows stay in place because of two rows not each can
precede the other (`PrecedesOneWay`), before and after; and one more word brings
none back because nobody who was left out by fewer words is kept by more.

**QueueProofs**: `TypeCorrect`, `LimitIsRespected`, `LineIsRespected`,
`RosterIsTheUsers`, for any number of torrents, any limits, crashes and faults,
from a start and from a settled session. The limit is not inductive: it says
nothing of the middle of a pass. The invariant `Inv` adds what the pass relies
on: a plan is inside a pass and touches only wanted torrents (`PlanKept`); what
is not wanted is at rest, which is paused or asked to be (`UnwantedRest`); so is
what the plan holds back and has got to (`HeldRest`); those the plan lets in fit
the limit and stand before those it does not (`PlanFits`), which stays true
while torrents complete, as completing only takes one out; between turns the
same of the roster (`RosterFits`). `DecisionFits` is the step from `Admitted` to
`PlanFits`. The safety part alone is used, so the theorems hold for all three
specifications' steps; they are stated for the two initial states.

`StartsOnlyWhatIsAsked` says who may be blamed when the queue starts a torrent
its user stopped. The plan starts wanted torrents only, so the property follows
from `WantedAreAsked`, and two steps can break that: `adopt_queue` when it takes
a torrent being checked for one that runs, and an addition of a stopped torrent
(`TellsPausesApart`, `AddsRunning` say that they do not; both are in section 6).
The theorem is that there is no third way, with passes cut into by anything. Where
a torrent is added stopped the code does start it, so no run checks the property
(section 6).

`WishesSurvive` is `WishIsOnDisk`, from a settled session and up to the first
death. The two files are written at different moments: a pause or a start is in
`session.json` at once, the roster follows at the end of the pass, and the check
of a torrent ends when it likes. `WishInv` says of every torrent stored as paused
that it is paused in its check, or is stored rightly (`StoredRight`): not live,
no check on it that would leave it running, and, if its user wants it running,
on the roster or about to get on it in this pass or the next (`Accounted`). The
property has the exemptions the code needs, which section 6 lists.

The same module has the rule of the queue. `AdmitIsAlwaysRight` is
`AdmitIsRight` for every finite line and every limit: the loop of `admit`
returns what the declarative `Admitted` names, is within the limit at every
turn, and leaves nobody waiting while there is a place. The invariant: who was
seen stands before who is left (`InOrder`); the counter is the number of
downloads seen, up to the limit (`Counted`); the list has those of the seen that
`Admitted` lets in (`SoFar`). When the next is taken, the downloads ahead of him
are the downloads seen (`AheadOfFirst`), so that comparing the counter is
comparing his place. For the places, the counter is also the number of downloads
in the list (`CountsDownloads`), and whoever was left out has a full list before
him (`Filled`).

**FileProofs**, of the files that are fetched: `PinsLoseNothing` and
`OnlyWhatIsTicked`, for any number of files and any worlds. What they say is
about behaviours whose world has no habits (and, for the first, before any
crash): a user who leaves the ticks alone while a file is pinned or checked.
With other habits the code does not keep them (section 6). `JInv` says in which
of journal, session and ticks the choice is at each step of a change; `NInv`
that everything anybody may apply is within what is ticked.

Of the files that move: `CarryIsSafe` and `CarryTypeCorrect`, for a plan of any
number of files at any depths, any failures and any number of attempts
(`CarryAssumption`). The first is a refinement, `CarrySpec => Promise!Spec`: the
calls of `carry` implement the abstract `Move`. The invariant says where every
file is at every call: those before the one at work are at the far end and those
after it at home (`RenamesInOrder`), or copied and checked with the original
still there (`CopiesInOrder`); what is ours at a destination was made by this
attempt (`NothingOfOurs`); nothing that was there is nowhere (`NothingLost`);
once the deleting begins all is at the far end (`Arrived`); and what a fault
takes back gives `before` again, as long as no call fails that nobody looks at
(`Undoable`). There is a lemma for each call that says it keeps the invariant,
and one that says which step of `Move` it is: one file that moves (`ShiftMaps`),
a refusal (`RefuseMaps`), or none.

`RefusalLeavesNothing` and `NothingIsLeft` are about what a move leaves behind.
`Tidied` has two parts as the property is about the end only: until the
deletions begin, what is ours at the far end is on the list of what a fault
takes away or was there before. `PrunedSoFar` says that a folder `prune` has
been to and not removed is on the way to a file that stayed. The second theorem
assumes `NoGaps`, that every folder has a file of its own in it; without it the
code does leave folders (section 6), and `CarryAssumption` does not imply it.

**ArrivalProofs**: `TypeCorrect` and `FilesMoveFirst`, for any torrents, ids,
commands, failures and crashes. `MovedFirst` is about two steps of the loop; the
invariant says what the carrier has made sure of at each of its stages
(`Carried`: while it copies there is something at both ends, and once every copy
is checked, or the rename is done, there is something at the far end), that no
other move is on while one is completed (`Completing`), and that an id without a
torrent has nothing that runs (`Absent`). `QuietStep` covers every step but two:
nobody but the carrier takes files away. `TaskStep` is the carrier's,
`MoveThroughInv` the step from one to the other.

`NobodyIsMissing` and `DataIsSafe` are `NobodyVanishes` and `NothingIsLost`
while nobody disturbs a move (`Undisturbed`): no crash, no recheck, no add that
librqbit refuses, nothing removed and added again, and no start of a torrent
that failed. Section 6 shows what each of them does; the theorems say that there
is nothing else, with stops, starts, removals, errors, failed moves, a limit and
a switch of the setting at any moment, for any number of each. The invariant is
`Calm`. No torrent is in the session twice (`OneEach`), and the table has the
session and at most the one being rebuilt besides (`Tabled`). No torrent at home
is being checked, so a row that shows it complete tells the truth (`AtHome`,
`Arrivals`): this is what a restart, a recheck and a second start break, as a
torrent counts as complete once its check has read it all. What is carried is
all there until every copy is checked, and at the far end from then on
(`Moves`). The files of a torrent being rebuilt are where it will be added
(`Rebuilding`), and whoever is in the list is in the session or on the way back
(`Present`).

**IntakeProofs**: `TypeCorrect`, `AnswersOnlyItsQuestion`, `RecordIsTrue`,
`WhatIsConfirmedIsShown`, for any links, torrents, files and worlds. The first
three need that every message is one its reader can make sense of (`Sensible`: a
confirmation ticks rows of a torrent that was read; `Readable`: what counts as
read has a torrent) and that only files of the torrent are selected (`Picked`).
The last one is about the calm, in which questions do not overlap and nothing is
handed in twice: the command names neither torrent nor question, so `Quiet` ties
the question in the engine, in the snapshot, in the window and in every message
under way to one link (`SameQuestion`), with a new question alone in the channel
(`OneQuestion`), bytes only behind an answered question (`BytesAreRead`), and
nobody else bringing the same torrent into the list (`AskedIsNew`, `HandedIn`);
`AsShown` is then inductive.

**ProcessProofs**: `LinksAreAlwaysHandedOver` and `OneProcessAtATime`, for any
number of launches, attempts and kills. The first holds in every world. Its
invariant follows one client through the pipe: what has been written, read and
acknowledged at each stage of the owner's thread (`LineIsClean`,
`ClientIsKnown`), that the first link of an acknowledged argument is in an engine
(`ArgumentIsTaken`), that whoever was called had found its place (`OwnerRuns`,
`PeerRan`), and that a client gives up only on a process that cannot answer, in
a slow world, or where several links do not fit in the pipe (`GaveUp`,
`Overfull`). It does not say that the other links arrive, nor that the engine
lives on. The second is about the calm worlds: whoever runs
owns the pipe (`OnlyOwnerRuns`), which a takeover keeps because a launch on its
way finds the pipe open or its owner gone (`WayIsFree`), because it is the only
one on its way (`Alone`) and the pipe reads as busy only while somebody is in it
(`FreeIsOpen`, `DeafWaits`, `ClientInFlight`).

`UpdatesAreSafe`, of `Updates`, for any number of checks and installs. The claim
that a second install never writes what the first is about to swap in holds for
a user who waits for the quiet check of the start: the invariant has at most one
thread at work, which the panel names (`OneThread`), because the timer fires
before anything else happens (`Untouched`). So who is about to swap finds its
own download, whole (`StagedIsWhole`). That a verified binary has an install
which will remove it, or has tried to (`SomebodyRemoves`), needs no such user;
`src/update.rs:174` discards the failure of that removal, so no more than that can
be said.

`SettingsAreTheUsers`, of `Preferences`, for any number of edits and launches,
whatever each user touches and may suffer (`EditsAssumption`). The invariant
joins five places. Memory and file agree, unless a change waits, a write is on
its way or the last one failed (`OnDisk`); what is renamed over the file is what
is in memory (`WritesWhole`), so a kill leaves an old file or a new one; what was
edited by hand is read, or put aside before anything is written over it
(`HandEditsAreThere`); engine and window are told in the step that changes the
memory (`TellsIsEnough`, `ChangeInv`), which for a switch between two pairs of
limits means the pair in force; and nobody who uses only the controls ever has a
value none of them makes (`NoNonsense`). `FolderStep` is the action property: of
all actions only the picker changes the download folder.

**WindowProofs**: `WhatIsDrawnWasAskedFor`, `CommandsReachWhatWasSeen`,
`WhatIsSelectedIsDrawn`, for any library, any files dropped in the folder, any
number of gestures and, for the first, any worlds. The second needs that no
world has both removals and dropped files (`NoIdReturns`), since the id of a
removed torrent is handed out again; the third besides that nobody who selects
narrows by state or shelf (`NoOneNarrowsAndSelects`), which the code does
without looking at the selection. Section 6 has the behaviours; the worlds of
the run keep to both.

- `Base` ties the engine to the table: the rows are the session's at the time
  they were published, in the order of their ids, and a generation says which
  torrents there are (`Engine`); a cached order is that of its rows, and unless
  it is stale the same list (`Interface`, `Known`).
- `Fresh` is the cache: an order that has the newest generation and length, and
  is not by something that changes, is the order of the newest snapshot too
  (`Cached`), whatever the rows say by now of rates and states. This is the
  argument of the code's comment at `E/session.rs:1050`, with the guesses laid
  over it (`GuessIsShown`, `UpToDate`).
- `Memory` is for the second: every id that is kept anywhere (selected, drawn,
  asked about in a dialog, shown in the drawer, on its way in a command) is that
  of the torrent that was seen under it or of none, and stays so while ids do
  not return (`IdsKeepTheirNames`).
- `Matching` is for the third: what is selected matches what was typed, or is
  outside what can be redrawn.

Every step is one of four kinds (`EveryStep`): the engine moves, the window
draws, a hand picks something and asks for a redraw, or nothing happens. Each
part of the invariant has one lemma for each kind. The rows are sorted sets, so
that most of the module is about sorting without recursion: `InRow` counts who
stands before, and the lemmas on it give an enumeration that is one to one, in
order and the only one.

`FiguresAreEarned` and `FiguresTellTheTruth`, of `Figures`, for any rates and
amounts, any patience, any length of the footer and any number of turns. What
holds in every world is in the first (`FiguresAlways`); the second assumes
`Apart`, that no world has commands beside lulls, nor somebody who unticks
everything beside torrents that stop. Section 6 has what happens in such worlds
(`StallIsEarned`, `StoppedShowsNothing`); those of the run keep to it.

- A rate that is shown lies within any bounds that what was reported lies within
  (`RatesAreTrue`). Said of the fastest and the slowest it would not be inductive
  where a rate starts again; said of all bounds, a step takes a weighted mean of
  two numbers that keep them (`SmoothedWithin`, `NextSampleWithin`).
- The seconds the loop counts are those that passed (`TurnsAreSeconds`,
  `WaitedIsLull`), which needs `Apart`: then the patience is used up when the
  lull is (`StallIsEarned`, `StillnessIsTold`).
- The ring is the last minute: a sample more takes the place of the oldest once
  it is full, which is what dropping the first of a sequence does
  (`OneMoreSample`), and a window that was away begins with an empty one
  (`FirstSample`).
- More bytes read as more because the nearest figure grows with the number
  (`NearestGrows`, and ties, which Rust gives to the even figure, do not spoil
  it) and where the decimals become fewer the last figure before is at most the
  first one after (`DigitsGrow`).

Only model-checked: liveness, which rests on fairness and ENABLED
(`NoHungCheck`, `TurnComes`, `LimitRecovers`, `TickedArrives`,
`ArrivedIsTakenUp`, `TheyMeet`, `CommandsAreTaken`, `DroppedIsParked`,
`CatchesUp`, `EveryWaitEnds`); of `Files`, what is under a folder
(`TreeIsRight`), which is folded out of paths and would need induction over
them.

## 6. What the code says and does not keep

Each line is a property stated in its module, mostly quoting a comment, that TLC
refutes with the constants given. The runs keep two that no passing run comes
near; the rest are here so that whoever repairs one can add the run. "Without
its exemption" means that the module's property names the case and leaves it
out, and that TLC refutes it without. Where the table gives no value: in
`Queue`, `Ids = {0, 1}`, `Limits = {0, 1}`, `AddPaused = {FALSE}`, `Permits =
1`, `MaxStarts = 1`, `MaxCrashes = 0`, `Faulty = {}`, `Changing = FALSE`,
`MaxInits = 1`; in `Selection`, two files and a world of no habits and no crash;
in `Arrival`, `Torrents = {t1}`, `Foldered = {t1}`, `Kept = {}`, `Ids = {0, 1}`,
`Limited = FALSE`, `Habits = {}`, `MaxCommands = 1`, `MaxCrashes = 0`, `MaxInits
= 1`; elsewhere the values of the module's run.

| Property | Constants that show it | What happens |
|---|---|---|
| `Lifecycle!PausedIsNotLive` | `MaxInits = 1`, `Permits = 2` | A pause after the check last looked for one (`mod.rs:393`): the check's task goes by the copy of `start_paused` it has and makes the torrent live, with `paused` up. |
| `Lifecycle!StartedRuns` | the same | A start while the check of a torrent added stopped runs: it loses `try_start_check`, and the running task ends paused. |
| `Lifecycle!NoFatalAfterPausing` | the same | An error sent before a pause is received after it and overwrites the paused state. |
| `Queue!TurnComes` | `Spec` | `enforce_queue` (`E/session.rs:958`) starts again only what is `Paused`. A torrent held back during its check stays `Initializing` with its check aborted, is let in by a later pass, fills its place and does not run. |
| `Queue!LimitIsHard` | `Spec` | The first of these, seen from the queue: the pass is over with one download too many. `LimitRecovers` says that it does not last. |
| `Queue!StoppedStops` | `UnservedSpec`, `Ids = {0}`, `Limits = {0}` | The same with a torrent its user stopped: no pass looks at it, so it runs on. |
| `Queue!SeedsNotQueued` | `Spec` | `stats.finished` is false until the check is over: finished torrents are held back after a start. |
| `Queue!RestartKeepsPauses` | `Spec` | `adopt_queue` looks for the state `Paused`, which a torrent being checked does not have: what the user stopped before the restart is wanted again. |
| `Queue!RestartKnowsOwnPauses` | `Spec`, `MaxCrashes = 1` | `session.json` has the queue's pause and the roster has not. |
| `Queue!StartsOnlyAsked` | `SettledSpec`, `AddPaused = {TRUE}`, `Changing = TRUE` | `Entry::new` wants every torrent running, also one added stopped. |
| `Queue!WishIsOnDisk` | `SettledSpec`, `Changing = TRUE`, without its exemption | A torrent added and held back during its check is let in by a later pass, which takes it off the roster and starts only what is `Paused`: `session.json` has it as paused, and neither file knows that it is wanted. |
| `Queue!WishIsOnDisk` | `Spec` | The same with one that was held back before the restart and is in its check after it. |
| `Queue!StartGoesToHead` | `SettledSpec`, `MaxStarts = 2` | `next_front` begins at 0, the place of the first restored torrent, and the tie goes to the smaller id. |
| `Queue!AddedGoesLast` | `SettledSpec`, `Ids = {0, 1, 2}`, `MaxStarts = 0`, `Changing = TRUE` | `next_back` is never read: a new torrent has position 0. |
| `Queue!RetriesAreAsked` | `SettledSpec`, `Faulty = {0, 1}`, `MaxInits = 2` | A torrent paused when read and failed when reached is unpaused, which retries it. |
| `Selection!RemovedOnceRestored` | | When the choice widens the journal's line goes before `session.json` has it; a death in between loses the ticks. |
| `Selection!JournalAgrees` | world `{"edits pinned"}` | `apply_choice` returns early when the target is what is fetched, though the ticks behind it changed. |
| `Selection!RestartRestores` | one crash | `restore_narrowed` asks while the torrent is checked, is refused, and has removed the line. |
| `Selection!RecheckKeepsChoice` | world `{"rechecks"}` | `recheck` (`E/arrival.rs:245`) takes `all` of the ticks for every file; before `resolve_files` the list is empty, and `all` of nothing is true: every file is switched on. |
| `Selection!JournalIsForPins` | world `{"removes"}` | A removal leaves the line for the next torrent with that hash. |
| `Arrival!OnlyCompleteMoves` | `MaxCrashes = 1` | A torrent whose check has read everything shows as complete and is moved unfinished. |
| `Arrival!NothingIsLost` | `MaxCrashes = 1` | Such a torrent goes live beside the copy; what it writes after the copy goes with the sources. |
| `Arrival!StillWhileMoving` | `Limited = TRUE` | The queue starts the torrent that was paused to be carried. |
| `Arrival!AnnouncedOnce`, `NeverOntoItself` | | A moved torrent is seen unfinished while it is checked, arrives a second time and is paused for a move onto itself that is refused. |
| `Arrival!PauseIsUndone` | `Torrents = {t1, t2}`, `Kept = {t2}`, `Ids = {0, 1, 2}` | `adopt_moved` (`E/session.rs:467`) marks the new entry as complete, and the snapshot of the same turn sees a check at its beginning and unmarks it. It arrives again, is paused, and without a limit no pass ever starts it. |
| `Arrival!PauseIsUndone` | `Foldered = {}`, `Habits = {"fails"}` | After a failed move only the wish to run is put back. |
| `Arrival!StopIsKept` | `Habits = {"stops"}` | `rebuild` adds back with the wish `gather` read minutes before. |
| `Arrival!NobodyVanishes` | `MaxCrashes = 1` | A death between the carrying and the rebuild, or between `forget` and `add_torrent`. |
| `Arrival!NobodyVanishes` | `Habits = {"rechecks"}`, `Ids = {0, 1, 2}` | A recheck gives the torrent another id during its move, and the move forgets the old one. |
| `Arrival!NobodyVanishes` | `Torrents = {t1, t2}`, `Foldered = {}`, `Kept = {t2}`, `Ids = {0, 1, 2}`, `Habits = {"removes", "adds"}`, `MaxCommands = 3` | The id of the torrent being moved is handed to another one, which the rebuild forgets in its place. (The first conjunct; the second also fails when a torrent is removed and added again, as it begins at home and its files stay where they were kept.) |
| `Arrival!NobodyVanishes` | `Habits = {"refuses"}` | `rebuild` (`E/arrival.rs:264`) has forgotten the torrent when librqbit refuses to add it back: its row stays, and the session does not have it. |
| `Arrival!NothingIsLost` | `Habits = {"starts", "errors"}`, `MaxInits = 2` | A torrent that failed and is started again is checked: it shows as complete, is moved unfinished, goes live beside the copy, and what it writes then goes with the sources. |
| `Arrival!NothingIsLost` | `Habits = {"rechecks"}` | The same with a recheck. |
| `Carry!NoEmptyFolder` | `Mishaps = {}`, `Depth = <<1, 1, 2>>` | `prune` tries the folders that are some file's parent: one that held nothing but folders is nobody's parent and stays. |
| `Carry!MoveIsSafe` | `Promise` with `clean <- TRUE` | A rename that cannot be undone, or a copy that cannot be taken away, and a refused move leaves files at both places: the fault says that nothing changed. |
| `Handshake!RequiredIsKept` | worlds `{"offers"}`, `{"chooses"}`, without their exemption | `settle` (`handshake.rs:374`) knows no policy: an end that demands encryption talks in the clear after the handshake with a client that offers or chooses nothing else. |
| `Handshake!TheyMeet` | world `{"0x13"}`, without its exemption | A public value that begins with 0x13 is taken for a plain greeting, once in 256 connections. |
| `Intake!NothingAddedTwice` | world `{"again", "drops", "pastes", "stops"}` | `confirm_add` (`E/session.rs:581`) inserts a new `Entry` for a torrent already in the list: ticks, pins and the wish to be stopped are gone. |
| `Intake!StartsTicked` | world `{"again", "pastes"}` | The window keys the dialog's ticks by the source: the same link asked for again begins with the ticks it was left with. |
| `Intake!NeverDeleted` | world `{"drops"}` | `park` (`E/watch.rs:79`) keeps the record that is there and deletes the second file of that name, under a comment that says "Renamed and never deleted". |
| `Intake!CommandsAreTaken` | world `{"unseeded", "launches", "pastes"}`, without `Stuck` | `add` (`E/session.rs:634`) awaits the metadata inside the loop: a magnet nobody seeds, from the command line, stops the engine. One asked about in the dialog is read on a task of its own and does not. |
| `Intake!ConfirmedAsShown`, `ShelvedAsSeen` | world `{"overlaps", "pastes"}`, without their exemption | A confirmation names no question: asked over, it confirms the one that came after. |
| `Intake!ConfirmedAsShown` | worlds `{"again", "pastes", "drops"}`, `{"again", "pastes", "launches"}`, without its exemption | A torrent that comes in by another way while its dialog is open is in librqbit with all its files; the confirmation inserts a new `Entry` and librqbit ignores the ticks. |
| `Window!ShownIsCurrent` | world `{"shows", "runs"}` | A list narrowed by state is rebuilt only when generation, length or a volatile column says so (`src/state.rs:226`): a torrent that was paused stays in the list of those downloading. |
| `Window!FinishIsTold` | world `{"selects", "ends"}` | The names of the finished ride on one snapshot; one published before the window polled takes its place. |
| `Window!ReachesWhatWasSeen` | world `{"selects", "removes", "drops"}` | A torrent is removed and its id handed to a dropped one while a dialog or a redraw is on its way. |
| `Window!NothingHiddenIsSelected` | worlds `{"shows", "selects"}`, `{"shelves", "selects"}` | `set_shown` and `set_category` (`src/state.rs:339`) leave the selection alone, as `set_filter` does not. |
| `Instance!OneProcess` | worlds `{"slow start", "together"}`, `{"midway", "sticks"}`, `{"dies", "together"}`, `{"slow release", "sticks"}` | Beside the finding: an owner slow to serve while another launch takes the pipe; one stuck in the middle of serving, which reads as busy; a pipe that outlives the attempts. |
| `Instance!OnlyTheWedgedAreEnded` | worlds `{"late"}`, `{"slow start"}`, without its exemption | The acknowledgement is written before the client reads, and is dropped with the connection: a live owner that took the argument is ended. |
| `Instance!OnlyTheWedgedAreEnded` | world `{"long", "several"}`, without `Overfull` | The owner reads one line and hangs up; the client is still writing the rest, takes the broken pipe for an owner that does not answer and ends it, with the first link in its engine. |
| `Instance!EveryLinkIsHandedOver` | world `{"several"}` | Links are handed over with a line feed between them (`src/main.rs:77`), and the owner reads up to the first line feed: the others are acknowledged and lost. |
| `Instance!EveryLaunchIsAnswered` | world `{"long", "sticks"}`, without `HeldUp` | `write_all` (`H/single_instance.rs:174`) has no timeout: an argument that does not fit in the pipe of a stuck owner holds its launch for ever. |
| `Instance!HungIsReplaced` | world `{"hangs"}` | A window that hangs leaves the pipe's thread alive, which acknowledges every launch: no window appears, against lines 12 to 15 of the file. |
| `Instance!UpdateComesUp` | world `{"slow exit", "relaunches"}`, without `~Calm` | The replaced program outlives its patience, acknowledges the new build's launch and exits: no window. |
| `Preferences!HandEditsSurvive` | users with `"foreign"` or `"renames"`, without their exemption | A file that is not UTF-8 counts as none and is overwritten; so is one that cannot be put aside. |
| `Preferences!ShownAsKept` | users who reset, with `NotRedrawn` empty | A reset does not redraw the density, nor what the window remembers (sort, columns, drawer, shelves). |
| `Updates!NothingToPressWhileWorking`, `SignedOnly` | `early = TRUE`, without their exemption | A press before the quiet check of the start has answered: its answer enables the button under an install, and two installs write one file. |
| `Updates!NothingStaysStaged` | without its exemption | `remove_file` after a swap (`src/update.rs:174`) may fail, and its failure is discarded: the verified binary stays in the temp directory. |
| `Files!OpensWhatWasClicked` | world `{"opens", "menu", "lands"}` | `path_of` and `is_complete` (`src/bridge/detail.rs:252`) take the file's number for the number of a row, which folders come before: another file is opened, or none. |
| `Files!PlaysWhatWasClicked` | world `{"switches", "menu", "opens"}` | The menu keeps the index and not the torrent. |
| `Figures!StallIsEarned` | world `{"commands", "lulls"}` | Patience counts turns of the loop, and a command is one: ten commands are ten seconds. |
| `Figures!StoppedShowsNothing` | world `{"unticks", "states"}` | `publish` (`E/session.rs:1030`) sets "no files" over a stopped torrent's stall. |
| `Listing!RowsAreInOrder`, `RowsAreThoseLeft` | world `{"adds", "magnets", "clicks", "types"}`, without `~late` | Metadata that comes late changes name and size, and neither generation nor length: the order by name, and who is left by a search, stay as they were until something else rebuilds them. |
| `Listing!OnItsOwnShelf` | world `{"refusals", "adds", "shelves"}` | The window puts a torrent on its shelf before the engine has taken it; a refused one stays there and has it when it is added elsewhere. |

Smaller things met while modelling, without a property: `refresh_now` after a
click announces again what the last snapshot announced; neither a click on the
scrim (`ui/main.slint:320`) nor the drawer's own closing
(`src/bridge/detail.rs:630`) tells the engine to stop building details; no
control removes a shelf (`category::forget` is never called); a settings write
that failed is not tried again until the next change; a second settings file
that cannot be read replaces the first one put aside; a value past its ceiling
in a settings file edited by hand is shown as it is; a pin is lit on the row
that has the file's number, whichever file that is, until the next snapshot; a
file of no bytes never counts as complete; the names of torrents that finish
while the view is paused are dropped with the snapshot that is not published;
"10.00 GB" and "1024 KB" can be read where "10.0" and "1.00 MB" are meant.

## 7. What is not modelled

- The bytes: pieces, hashes, peers and their protocol past the handshake,
  trackers, the DHT, rate limits. A download completes or does not; a check has
  an outcome. `chunk_tracker.rs` and `piece_tracker.rs` belong to librqbit and
  nothing in Zerem but `update_only_files` reaches them.
- The failure of a write of the journal, the roster or `session.json`: the code
  logs it and goes on with what is in memory.
- The steps of a locked section of librqbit that fail on the way: the errors
  `Started` and `Paused` return (`L/torrent_state/mod.rs:428`, 444, 487).
- Three pairs of steps are one: `Settled` looks whether a pause was asked for
  (`mod.rs:406`) and takes the lock (413), so a pause between the two is not
  told from one after it; `Arrival`'s `Fail` sends a fatal error and receives it
  (`Lifecycle` and `Queue` have both apart); `SweepOne` awaits the add of a
  dropped file and parks it (the loop does nothing between, and no process dies
  in `Intake`).
- `Figures` takes a torrent for finished when what it has reached its size, for
  `stats.finished`.
- A settings file that is good and cannot be read for a moment at the start
  (`src/settings.rs:203`): `Preferences` has the file nobody can read
  (`"foreign"`), which comes to the same and is excepted there.
- What a failed write of an update leaves in the temp directory
  (`src/update.rs:170`) is in the model, but nothing is claimed of it.
- What a removal with its data deletes, and the bin: `Selection` has the loss of
  the files, `Queue` and `Arrival` do not look at it.
- Which files are wanted in `Arrival`, and how many there are: `Selection` has
  the first, `Carry` the second.
- The streaming server: each request is on its own; which pieces come first for
  it is librqbit's.
- The engine's configuration, texts, translations, icons, geography, layout, the
  tables of peers and trackers: no state that another actor changes.
- Operating-system calls (`crates/zerem-shell/` but for the pipe and the swap),
  sockets, build-time tools and spikes: input and output with no protocol.

## 8. The plan

Done: all modules of section 2, in this order: `ManagedTorrent`, `Lifecycle`,
`Admit`, `AdmitLoop`, `Queue`, `Selection`, `Arrival` and their proofs; `Move`,
`Carry` and the proof of the refinement; `Intake`, `Handshake`, `Window`,
`Instance`, `Updates`, `Preferences`, `Files`, `Figures`, `Listing`.

Next, in order of what a mistake would cost:

1. `Queue` as an implementation of `Lifecycle`: every torrent of the session,
   between its addition and its removal, steps as `Lifecycle` says (`INSTANCE
   Lifecycle WITH mt <- tor[i]`), checked and then proved.
2. `Arrival`'s carrier as a use of `Move`.
3. Failing writes in `Selection` and `Queue`.
4. librqbit's chunk and piece trackers under `update_only_files`.

Theorems to come: `NarrowedIsRecoverable` for any number of crashes; the step
simulation of item 1.
The runs are kept few, each with a question of its own.

## 9. How to run it

In this directory:

    tlc -workers 2 -config Queue_changes.cfg Queue
    tlapm QueueProofs.tla

Each run of `PROJECT.json` names its module and configuration. On two workers
the longest takes two and a half minutes; the proofs take some minutes.
