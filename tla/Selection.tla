------------------------------ MODULE Selection ------------------------------
(***************************************************************************)
(* Which files of a torrent are fetched: the ticks and the pins the engine *)
(* keeps (zerem-engine/src/session.rs, zerem-core/src/choice.rs), the set  *)
(* librqbit is told to fetch, and the two files they are written to:       *)
(* session.json has librqbit's set, narrowed.txt the ticks behind a set    *)
(* that a pin has narrowed (zerem-engine/src/journal.rs).                  *)
(*                                                                         *)
(* The torrents share nothing here but the journal's file, so one is       *)
(* enough.  The engine's loop awaits librqbit in the middle of a change;   *)
(* files land, checks end and errors arrive on other tasks meanwhile, and  *)
(* the process may die between any two steps.                              *)
(***************************************************************************)
EXTENDS Naturals, FiniteSets

CONSTANTS
  Files,        \* the files of the torrent
  Worlds        \* the users to check: their habits, and how often (bound)
                \* the process dies on them

(* What a user does besides ticking and pinning in calm.                   *)
(* "edits pinned": changes ticks while a file is pinned; "edits checking": *)
(* ticks and pins while the torrent is checked.                            *)
AllHabits == {"edits pinned", "edits checking", "rechecks", "removes"}

ASSUME SelectionAssumption ==
  /\ IsFiniteSet(Files)
  /\ Worlds \subseteq [habits : SUBSET AllHabits, crashes : Nat]

VARIABLES
  (* On disk. *)
  stored,       \* only_files of the torrent in session.json, if it is there
  narrowed,     \* the torrent's line in narrowed.txt, if it has one
  have,         \* the files that are there
  (* The process. *)
  up,           \* "down", "starting", "restoring" or "up"
  st,           \* librqbit's torrent: "gone", "checking", "ready" or "failed"
  only,         \* ManagedTorrent.only_files
  ticks,        \* Entry.wanted, once resolve_files has read it
  pins,         \* Entry.first
  entries,      \* the torrent's line in Journal.entries, if it has one
  op,           \* what the engine's loop is in the middle of
  (* Bookkeeping of the model. *)
  chosen,       \* the user's ticks, by the last command carried through
  crashes,
  world         \* the user of this behaviour

disk == <<stored, narrowed, have>>
vars == <<stored, narrowed, have, up, st, only, ticks, pins, entries, op,
          chosen, crashes, world>>

NoOp == [kind |-> "none", files |-> {}]

(* A choice of files that may be missing: no set of files, or one.         *)
Maybe == {{}} \union {{files} : files \in SUBSET Files}

The(choice) == CHOOSE files \in SUBSET Files : files \in choice

Resolved == ticks # {}

TypeOK ==
  /\ stored \in Maybe
  /\ narrowed \in Maybe
  /\ have \subseteq Files
  /\ up \in {"down", "starting", "restoring", "up"}
  /\ st \in {"gone", "checking", "ready", "failed"}
  /\ only \subseteq Files
  /\ ticks \in Maybe
  /\ pins \subseteq IF Resolved THEN The(ticks) ELSE {}
  /\ entries \in Maybe
  /\ op \in [kind : {"none", "ask", "keep", "rebuild"}, files : SUBSET Files]
  /\ chosen \subseteq Files
  /\ crashes \in Nat

(* A session that is up, with a torrent whose check is over.               *)
Init ==
  /\ chosen \in SUBSET Files
  /\ stored = {chosen}
  /\ narrowed = {}
  /\ have \in SUBSET Files
  /\ up = "up"
  /\ st = "ready"
  /\ only = chosen
  /\ ticks = {}
  /\ pins = {}
  /\ entries = {}
  /\ op = NoOp
  /\ crashes = 0
  /\ world \in Worlds

----------------------------------------------------------------------------
(* What to fetch.  A set of all files stands for "no restriction".         *)

Hurried(t, p, held) == (t \intersect p) \ held

(* Mutant: a pin is all there is, and without one everything is fetched.   *)
ToFetch_Everything(t, p, held) ==
  IF Hurried(t, p, held) # {} THEN Hurried(t, p, held) ELSE Files

ToFetch(t, p, held) ==
  IF Hurried(t, p, held) # {} THEN Hurried(t, p, held) ELSE t

(* stats() knows which files are complete once the check is over.          *)
Seen == IF st = "ready" THEN have ELSE {}

(* resolve_files: the ticks, read off the torrent when first needed.       *)
Ticks == IF Resolved THEN The(ticks) ELSE only

Calm == up = "up" /\ op = NoOp /\ st # "gone"

(* Mutant: what is written down is the narrowed set.                       *)
Apply_WritesTarget(t, p) ==
  /\ ticks' = {t}
  /\ pins' = p
  /\ IF ToFetch(t, p, Seen) = only
     THEN UNCHANGED <<narrowed, entries, op>>
     ELSE /\ entries' = IF Hurried(t, p, Seen) # {} THEN {ToFetch(t, p, Seen)} ELSE {}
          /\ narrowed' = entries'
          /\ op' = [kind |-> "ask", files |-> ToFetch(t, p, Seen)]

(* apply_choice, up to the write of the journal: nothing is done when the  *)
(* torrent fetches just that already.                                      *)
Apply(t, p) ==
  /\ ticks' = {t}
  /\ pins' = p
  /\ IF ToFetch(t, p, Seen) = only
     THEN UNCHANGED <<narrowed, entries, op>>
     ELSE /\ entries' = IF Hurried(t, p, Seen) # {} THEN {t} ELSE {}
          /\ narrowed' = entries'
          /\ op' = [kind |-> "ask", files |-> ToFetch(t, p, Seen)]

(* update_only_files refuses a torrent that is being checked.              *)
Ask ==
  /\ op.kind = "ask"
  /\ IF st = "checking"
     THEN op' = NoOp /\ UNCHANGED only
     ELSE op' = [op EXCEPT !.kind = "keep"] /\ only' = op.files
  /\ UNCHANGED <<disk, up, st, ticks, pins, entries, chosen, crashes>>

(* ... and its new set is written to session.json.                         *)
Keep ==
  /\ op.kind = "keep"
  /\ stored' = {only}
  /\ op' = NoOp
  /\ chosen' = IF up = "up" THEN Ticks ELSE chosen
  /\ UNCHANGED <<narrowed, have, up, st, only, ticks, pins, entries, crashes>>

----------------------------------------------------------------------------
(* The commands.                                                           *)

MayEdit == st # "checking" \/ "edits checking" \in world.habits

SetFileWanted(files, wanted) ==
  LET t == IF wanted THEN Ticks \union files ELSE Ticks \ files
  IN  /\ Calm
      /\ MayEdit
      /\ pins = {} \/ "edits pinned" \in world.habits
      /\ Apply(t, pins \intersect t)
      /\ chosen' = IF op' = NoOp THEN t ELSE chosen
      /\ UNCHANGED <<stored, have, up, st, only, crashes>>

(* A file that is not ticked is not pinned.                                *)
SetFileFirst(file, first) ==
  /\ Calm
  /\ MayEdit
  /\ IF first /\ file \notin Ticks
     THEN ticks' = {Ticks} /\ UNCHANGED <<narrowed, pins, entries, op>>
     ELSE Apply(Ticks, IF first THEN pins \union {file} ELSE pins \ {file})
  /\ UNCHANGED <<stored, have, up, st, only, chosen, crashes>>

(* Mutant: it forgets the pin and leaves the rest to somebody else.        *)
Reconcile_NoApply ==
  /\ Calm
  /\ pins # {}
  /\ pins' = pins \ Seen
  /\ UNCHANGED <<disk, up, st, only, ticks, entries, op, chosen, crashes>>

(* reconcile, at the end of every turn of the loop.                        *)
Reconcile ==
  /\ Calm
  /\ pins # {}
  /\ Apply(Ticks, pins \ Seen)
  /\ UNCHANGED <<stored, have, up, st, only, chosen, crashes>>

(* Start, on a torrent that has failed.                                    *)
Retry ==
  /\ Calm
  /\ st = "failed"
  /\ st' = "checking"
  /\ UNCHANGED <<disk, up, only, ticks, pins, entries, op, chosen, crashes>>

(* recheck, and the end of a move: the torrent leaves the session ...      *)
Recheck ==
  /\ Calm
  /\ "rechecks" \in world.habits
  /\ op' = [kind |-> "rebuild", files |-> IF Resolved THEN Ticks ELSE Files]
  /\ stored' = {}
  /\ st' = "gone"
  /\ UNCHANGED <<narrowed, have, up, only, ticks, pins, entries, chosen, crashes>>

(* ... and is added back, under an entry that has read no ticks yet.       *)
AddBack ==
  /\ op.kind = "rebuild"
  /\ stored' = {op.files}
  /\ only' = op.files
  /\ st' = "checking"
  /\ ticks' = {}
  /\ pins' = {}
  /\ op' = NoOp
  /\ UNCHANGED <<narrowed, have, up, entries, chosen, crashes>>

Remove(deleteData) ==
  /\ Calm
  /\ "removes" \in world.habits
  /\ stored' = {}
  /\ have' = IF deleteData THEN {} ELSE have
  /\ st' = "gone"
  /\ only' = {}
  /\ ticks' = {}
  /\ pins' = {}
  /\ chosen' = {}
  /\ UNCHANGED <<narrowed, up, entries, op, crashes>>

(* confirm_add: the dialog takes no empty choice.                          *)
Add(files) ==
  /\ up = "up" /\ op = NoOp /\ st = "gone"
  /\ files # {}
  /\ stored' = {files}
  /\ only' = files
  /\ st' = "checking"
  /\ chosen' = files
  /\ UNCHANGED <<narrowed, have, up, ticks, pins, entries, op, crashes>>

Command ==
  \/ \E files \in SUBSET Files, wanted \in BOOLEAN : SetFileWanted(files, wanted)
  \/ \E file \in Files, first \in BOOLEAN : SetFileFirst(file, first)
  \/ \E deleteData \in BOOLEAN : Remove(deleteData)
  \/ \E files \in SUBSET Files : Add(files)
  \/ Retry
  \/ Recheck

----------------------------------------------------------------------------
(* The torrent's own life.                                                 *)

CheckDone ==
  /\ st = "checking"
  /\ st' = "ready"
  /\ UNCHANGED <<disk, up, only, ticks, pins, entries, op, chosen, crashes>>

Fail ==
  /\ st \in {"checking", "ready"}
  /\ st' = "failed"
  /\ UNCHANGED <<disk, up, only, ticks, pins, entries, op, chosen, crashes>>

Land(file) ==
  /\ st = "ready"
  /\ file \in only \ have
  /\ have' = have \union {file}
  /\ UNCHANGED <<stored, narrowed, up, st, only, ticks, pins, entries, op, chosen, crashes>>

----------------------------------------------------------------------------
(* The process dies, and another one starts.                               *)

Crash ==
  /\ up # "down"
  /\ crashes < world.crashes
  /\ crashes' = crashes + 1
  /\ up' = "down"
  /\ st' = "gone"
  /\ only' = {}
  /\ ticks' = {}
  /\ pins' = {}
  /\ entries' = {}
  /\ op' = NoOp
  /\ UNCHANGED <<disk, chosen>>

Load ==
  /\ up = "down"
  /\ up' = "starting"
  /\ IF stored = {} THEN UNCHANGED <<st, only>>
                    ELSE st' = "checking" /\ only' = The(stored)
  /\ entries' = narrowed
  /\ UNCHANGED <<disk, ticks, pins, op, chosen, crashes>>

NothingToRestore ==
  /\ up = "starting"
  /\ entries = {} \/ st = "gone"
  /\ up' = "up"
  /\ UNCHANGED <<disk, st, only, ticks, pins, entries, op, chosen, crashes>>

(* restore_narrowed takes the line out of memory and applies it ...        *)
Restore ==
  /\ up = "starting"
  /\ entries # {} /\ st # "gone"
  /\ up' = "restoring"
  /\ ticks' = entries
  /\ pins' = {}
  /\ entries' = {}
  /\ IF The(entries) = only
     THEN UNCHANGED <<narrowed, op>>
     ELSE /\ narrowed' = {}
          /\ op' = [kind |-> "ask", files |-> The(entries)]
  /\ UNCHANGED <<stored, have, st, only, chosen, crashes>>

(* ... and writes what is left of the journal, whatever came of it.        *)
Flush ==
  /\ up = "restoring"
  /\ op = NoOp
  /\ up' = "up"
  /\ narrowed' = entries
  /\ UNCHANGED <<stored, have, st, only, ticks, pins, entries, op, chosen, crashes>>

Start == Load \/ NothingToRestore \/ Restore \/ Flush

----------------------------------------------------------------------------
Next ==
  /\ \/ Command \/ Reconcile \/ Ask \/ Keep \/ AddBack
     \/ CheckDone \/ Fail \/ \E file \in Files : Land(file)
     \/ Crash \/ Start
  /\ UNCHANGED world

(* The loop turns and a call to librqbit returns; checks end and what is   *)
(* asked for arrives in the end.                                           *)
InWorld(step) == step /\ UNCHANGED world

Fairness ==
  /\ WF_vars(InWorld(Reconcile)) /\ WF_vars(InWorld(Ask)) /\ WF_vars(InWorld(Keep))
  /\ WF_vars(InWorld(AddBack)) /\ WF_vars(InWorld(Start)) /\ SF_vars(InWorld(CheckDone))
  /\ \A file \in Files : SF_vars(InWorld(Land(file)))

Spec == Init /\ [][Next]_vars /\ Fairness

----------------------------------------------------------------------------
(* What a run that starts now would give the user back.                    *)
Recoverable == IF narrowed # {} THEN narrowed ELSE stored

(* A change that gives back what a pin had narrowed, not yet written down. *)
Widening == op.kind \in {"ask", "keep"} /\ entries = {}

(* At every moment a pin is put on, live, or has landed, a process that    *)
(* dies can be told which files were ticked, through failures and checks   *)
(* of the torrent (journal.rs, "written down before it is narrowed").  It  *)
(* is the first death that is meant: what a restart puts back it puts back *)
(* in steps that another death may cut short.  And it is a user who leaves *)
(* the ticks alone while a file is pinned and while the torrent is checked.*)
NarrowedIsRecoverable ==
  world.habits = {} /\ crashes = 0 /\ stored # {} /\ ~Widening
    => Recoverable = {chosen}

(* No file is fetched that the user did not tick, not after a crash in the *)
(* middle of a change either: a pin "narrows; it never widens" (to_fetch). *)
(* The same user is meant.                                                 *)
NothingUnticked ==
  world.habits = {} /\ up = "up" /\ op = NoOp => only \subseteq chosen

(* "Everything else stops and resumes the moment it lands": what is ticked *)
(* arrives, whatever was pinned before it and whatever the user does       *)
(* besides, unless the torrent fails; in a process that lives.             *)
TickedArrives ==
  world.crashes = 0 =>
    \A file \in Files :
      (Resolved /\ file \in Ticks)
      ~> (file \in have \/ ~Resolved \/ file \notin Ticks \/ st = "failed")

(* "Written down before it is narrowed and removed once it is restored":   *)
(* the line goes only when session.json holds what it says.                *)
RemovedOnceRestored ==
  [][narrowed # {} /\ narrowed' = {} => stored' = narrowed]_vars

(* "The journal and the session can never end up disagreeing about what    *)
(* was narrowed": between two changes they make up what the user ticked.   *)
JournalAgrees == Calm => Recoverable = {chosen}

(* "Every wanted file is asked for, pins or no", and no other: a recheck   *)
(* leaves the choice of files as it was.                                   *)
RecheckKeepsChoice == [][op.kind = "rebuild" /\ op' = NoOp /\ up' = up => stored' = {chosen}]_vars

(* "A process killed while a file is pinned would come back having quietly *)
(* forgotten which files the user had actually ticked": once a start has   *)
(* restored the selection, it is what is fetched.                          *)
RestartRestores == [][up = "restoring" /\ up' = "up" => ticks = {only}]_vars

(* "It exists for the minutes a pin is live."                              *)
JournalIsForPins == Calm /\ narrowed # {} => pins # {}
=============================================================================
