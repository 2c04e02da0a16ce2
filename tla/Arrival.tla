------------------------------- MODULE Arrival ------------------------------
(***************************************************************************)
(* What happens to a torrent that has arrived (zerem-engine/arrival.rs):   *)
(* its files are carried to the folder where finished downloads are kept,  *)
(* on a task of their own, and when they are there the torrent is dropped  *)
(* from librqbit's session and added back at the new place.  A recheck is  *)
(* the same without the carrying.                                          *)
(*                                                                         *)
(* One turn of the engine's loop is a command or a tick, the queue, the    *)
(* mover and the snapshot, in that order; the snapshot is also where an    *)
(* arrival is noticed.  The carrying, the checks and the swarm go on       *)
(* between any two steps of it, and the process may die.                   *)
(*                                                                         *)
(* A torrent's files are one thing here, that is at two places in part, in *)
(* full or not at all.  Ids are handed out again, as librqbit does.        *)
(***************************************************************************)
EXTENDS ManagedTorrent

CONSTANTS
  Torrents,     \* the info hashes
  Foldered,     \* those of several files, with a folder of their own
  Kept,         \* those that have arrived before: complete and moved
  Ids,          \* bound: the ids librqbit may hand out, 0 .. n
  Limited,      \* a limit of active downloads is set, large enough for all
  Habits,       \* what users, disks and the swarm do in this instance
  MaxCommands,  \* bound: how many commands the user gives
  MaxCrashes    \* bound: how often the process dies

ASSUME ArrivalAssumption ==
  /\ IsFiniteSet(Torrents)
  /\ Foldered \subseteq Torrents
  /\ Kept \subseteq Torrents
  /\ Ids \subseteq Nat /\ IsFiniteSet(Ids)
  /\ Limited \in BOOLEAN
  /\ Habits \subseteq {"starts", "stops", "rechecks", "removes", "adds", "switches",
                       "errors", "fails", "refuses"}
  /\ MaxCommands \in Nat
  /\ MaxCrashes \in Nat

(* The list the session begins with: an id for every torrent, and those    *)
(* that were moved, and so added again, have the last ones.                *)
Loaded == 0 .. Cardinality(Torrents) - 1

Listing(f) ==
  \A i, j \in Loaded : i < j => f[i] # f[j] /\ ~(f[i] \in Kept /\ f[j] \notin Kept)

ASSUME ListAssumption ==
  /\ 0 \in Loaded /\ Loaded \subseteq Ids
  /\ \E f \in [Ids -> Torrents] : Listing(f)

Places == {"home", "keep"}

(* The step of the loop that comes next; "forget" and "add" are inside     *)
(* rebuild().                                                              *)
Phases == {"down", "loading", "idle", "queue", "finish", "forget", "add", "start", "publish"}

VARIABLES
  (* On disk. *)
  disk,         \* how much of each torrent is at each place
  session,      \* the ids in librqbit's session, and in session.json
  what, at,     \* the torrent behind each id and its output folder
  diskPaused,   \* the ids stored with is_paused
  (* The process. *)
  tor,          \* librqbit's torrent behind each id
  have,         \* the ids whose chunk tracker has every piece
  entries,      \* the ids in TorrentSession.entries
  wanted,       \* those with wanted_running
  was,          \* Entry.was_complete
  arrived,      \* TorrentSession.arrived, without its order
  keeping,      \* keep_dir is set
  moving,       \* the move in flight
  rebuild,      \* what rebuild() was called with
  phase,
  (* Bookkeeping of the model. *)
  listed,       \* the torrents the user has added and not removed
  commands,
  crashes

vars == <<disk, session, what, at, diskPaused, tor, have, entries, wanted, was,
          arrived, keeping, moving, rebuild, phase, listed, commands, crashes>>

stored == <<disk, session, what, at, diskPaused>>

Nobody == [st |-> "error", paused |-> TRUE, init |-> 1, req |-> {},
           running |-> {}, tasks |-> {}, fatal |-> FALSE]

(* carry() on its task: not looked at yet, copying, every copy checked;    *)
(* `src` is what there was to copy when the copying began.                 *)
Carrying == {"begun", "copying", "copied", "moved", "failed"}

NoMove    == [on |-> FALSE, id |-> 0, what |-> CHOOSE t \in Torrents : TRUE,
              run |-> FALSE, task |-> "failed", from |-> "home", src |-> "none"]
NoRebuild == [id |-> 0, what |-> CHOOSE t \in Torrents : TRUE, at |-> "home",
              run |-> FALSE, then |-> "start"]

TypeOK ==
  /\ disk \in [Torrents -> [Places -> {"none", "part", "all"}]]
  /\ session \subseteq Ids
  /\ what \in [Ids -> Torrents]
  /\ at \in [Ids -> Places]
  /\ diskPaused \subseteq session
  /\ tor \in [Ids -> Torrent]
  /\ have \subseteq Ids
  /\ entries \subseteq Ids
  /\ wanted \subseteq entries
  /\ was \in [Ids -> {"unseen", "no", "yes"}]
  /\ arrived \subseteq Ids
  /\ keeping \in BOOLEAN
  /\ moving \in [on : BOOLEAN, id : Ids, what : Torrents, run : BOOLEAN, task : Carrying,
                 from : Places, src : {"none", "part", "all"}]
  /\ rebuild \in [id : Ids, what : Torrents, at : Places, run : BOOLEAN,
                  then : {"queue", "start"}]
  /\ phase \in Phases
  /\ listed \subseteq Torrents
  /\ commands \in 0 .. MaxCommands
  /\ crashes \in 0 .. MaxCrashes

(* Files that are at one place and not at the other.                       *)
OnlyAt(p, d) == [q \in Places |-> IF q = p THEN d ELSE "none"]

(* A session that has been up for a while: the torrents are downloading at *)
(* home and have been seen unfinished by a snapshot, or seed where they    *)
(* are kept.                                                               *)
Init ==
  /\ disk = [t \in Torrents |-> IF t \in Kept THEN OnlyAt("keep", "all")
                                ELSE OnlyAt("home", "part")]
  /\ session = Loaded
  /\ what = CHOOSE f \in [Ids -> Torrents] : Listing(f)
  /\ have = {i \in session : what[i] \in Kept}
  /\ at = [i \in Ids |-> IF i \in have THEN "keep" ELSE "home"]
  /\ diskPaused = {}
  /\ tor = [i \in Ids |-> IF i \in session
                          THEN [Nobody EXCEPT !.st = "live", !.paused = FALSE] ELSE Nobody]
  /\ entries = session
  /\ wanted = session
  /\ was = [i \in Ids |-> IF i \in have THEN "yes" ELSE IF i \in session THEN "no" ELSE "unseen"]
  /\ arrived = {}
  /\ keeping \in BOOLEAN
  /\ keeping \/ "switches" \in Habits
  /\ moving = NoMove
  /\ rebuild = NoRebuild
  /\ phase = "idle"
  /\ listed = Torrents
  /\ commands = 0
  /\ crashes = 0

----------------------------------------------------------------------------
(* librqbit.                                                               *)

Unpaused(i) ==
  /\ tor[i].st = "error" => tor[i].init < MaxInits
  /\ tor' = IF i \in session THEN [tor EXCEPT ![i] = Started(@, FALSE)] ELSE tor
  /\ diskPaused' = IF StartFails(tor[i]) THEN diskPaused ELSE diskPaused \ {i}

Stop(i) ==
  /\ tor' = [tor EXCEPT ![i] = Paused(@)]
  /\ diskPaused' = IF PauseFails(tor[i]) THEN diskPaused ELSE diskPaused \union {i}

NextAfter(ids) == IF ids = {} THEN 0 ELSE 1 + CHOOSE i \in ids : \A j \in ids : j <= i

NextId == NextAfter(session)

(* Bound: the ids left are enough for one more torrent than `ids` and for  *)
(* the moves of those that are still at home.                              *)
IdsLeft(ids, new) ==
  NextAfter(ids) + new + Cardinality({i \in session : at[i] = "home"}) \in Ids

(* add_torrent() of t at a place; the files are created when it is opened. *)
AddAt(t, p, stopped) ==
  /\ NextId \in Ids
  /\ session' = session \union {NextId}
  /\ what' = [what EXCEPT ![NextId] = t]
  /\ at' = [at EXCEPT ![NextId] = p]
  /\ tor' = [tor EXCEPT ![NextId] = Added(stopped)]
  /\ diskPaused' = IF stopped THEN diskPaused \union {NextId} ELSE diskPaused
  /\ have' = have \ {NextId}
  /\ disk' = [disk EXCEPT ![t][p] = IF @ = "none" THEN "part" ELSE @]

Deleted(i) ==
  /\ session' = session \ {i}
  /\ diskPaused' = diskPaused \ {i}
  /\ tor' = [tor EXCEPT ![i] = Nobody]
  /\ have' = have \ {i}

(* What the row of a torrent says.  While it is checked, progress_bytes is *)
(* how much has been read; in an error it is nothing.                      *)

SeenComplete(i) ==
  CASE tor[i].st = "initializing"     -> \E k \in tor[i].tasks : k.result = "passed"
    [] tor[i].st \in {"paused", "live"} -> i \in have
    [] OTHER                          -> FALSE

----------------------------------------------------------------------------
(* Commands.                                                               *)

Turn == phase = "idle" /\ phase' = "queue"

(* A command of a kind this instance has.                                  *)
Given(habit) ==
  /\ habit \in Habits
  /\ commands < MaxCommands
  /\ commands' = commands + 1

SetRunning(i) ==
  /\ Given("starts")
  /\ Turn
  /\ i \in entries
  /\ wanted' = wanted \union {i}
  /\ Unpaused(i)
  /\ UNCHANGED <<disk, session, what, at, have, entries, was, arrived, keeping,
                 moving, rebuild, listed, crashes>>

SetStopped(i) ==
  /\ Given("stops")
  /\ Turn
  /\ i \in entries
  /\ wanted' = wanted \ {i}
  /\ Stop(i)
  /\ UNCHANGED <<disk, session, what, at, have, entries, was, arrived, keeping,
                 moving, rebuild, listed, crashes>>

SetKeepDir ==
  /\ Given("switches")
  /\ Turn
  /\ keeping' = ~keeping
  /\ UNCHANGED <<stored, tor, have, entries, wanted, was, arrived, moving, rebuild,
                 listed, crashes>>

Add(t) ==
  /\ Given("adds")
  /\ Turn
  /\ t \notin {what[i] : i \in session}
  /\ IdsLeft(session, 1)
  /\ AddAt(t, "home", FALSE)
  /\ entries' = entries \union {NextId}
  /\ wanted' = wanted \union {NextId}
  /\ was' = [was EXCEPT ![NextId] = "unseen"]
  /\ listed' = listed \union {t}
  /\ UNCHANGED <<arrived, keeping, moving, rebuild, crashes>>

(* Removing keeps the files: with the bin it would be one step more.       *)
Remove(i) ==
  /\ Given("removes")
  /\ Turn
  /\ i \in entries
  /\ entries' = entries \ {i}
  /\ wanted' = wanted \ {i}
  /\ Deleted(i)
  /\ listed' = listed \ {what[i]}
  /\ was' = [was EXCEPT ![i] = "unseen"]
  /\ UNCHANGED <<disk, what, at, arrived, keeping, moving, rebuild, crashes>>

Recheck(i) ==
  /\ Given("rechecks")
  /\ phase = "idle"
  /\ i \in entries
  /\ IdsLeft(session \ {i}, 0)
  /\ rebuild' = [id |-> i, what |-> what[i], at |-> at[i], run |-> i \in wanted,
                 then |-> "queue"]
  /\ phase' = "forget"
  /\ UNCHANGED <<stored, tor, have, entries, wanted, was, arrived, keeping, moving,
                 listed, crashes>>

Tick ==
  /\ Turn
  /\ UNCHANGED <<stored, tor, have, entries, wanted, was, arrived, keeping, moving,
                 rebuild, listed, commands, crashes>>

----------------------------------------------------------------------------
(* The queue.  With a limit that all torrents fit in it starts whoever is  *)
(* wanted and paused; with none it does nothing (Queue has it in full).    *)

Startable == IF Limited THEN {i \in wanted : tor[i].st = "paused"} ELSE {}

GiveTurn(i) ==
  /\ phase = "queue"
  /\ i \in Startable
  /\ Unpaused(i)
  /\ UNCHANGED <<disk, session, what, at, have, entries, wanted, was, arrived,
                 keeping, moving, rebuild, phase, listed, commands, crashes>>

QueueDone ==
  /\ phase = "queue"
  /\ Startable = {}
  /\ phase' = "finish"
  /\ UNCHANGED <<stored, tor, have, entries, wanted, was, arrived, keeping, moving,
                 rebuild, listed, commands, crashes>>

----------------------------------------------------------------------------
(* The mover: finish_move, then start_move.                                *)

NotFinished ==
  /\ phase = "finish"
  /\ moving.on => moving.task \notin {"moved", "failed"}
  /\ phase' = "start"
  /\ UNCHANGED <<stored, tor, have, entries, wanted, was, arrived, keeping, moving,
                 rebuild, listed, commands, crashes>>

(* Mutant: the move that failed is put back as if it still ran.            *)
MoveFailed_PutBack ==
  /\ phase = "finish"
  /\ moving.on /\ moving.task = "failed"
  /\ phase' = "start"
  /\ UNCHANGED <<stored, tor, have, entries, wanted, was, arrived, keeping, moving,
                 rebuild, listed, commands, crashes>>

(* after_failure(): only the wish to run is put back.                      *)
MoveFailed ==
  /\ phase = "finish"
  /\ moving.on /\ moving.task = "failed"
  /\ moving' = NoMove
  /\ wanted' = IF moving.run /\ moving.id \in entries
               THEN wanted \union {moving.id} ELSE wanted
  /\ phase' = "start"
  /\ UNCHANGED <<stored, tor, have, entries, was, arrived, keeping, rebuild, listed,
                 commands, crashes>>

(* Mutant: nobody asks how the carrying ended.                             *)
MoveThrough_Unasked ==
  /\ phase = "finish"
  /\ moving.on /\ moving.task \in {"moved", "failed"}
  /\ moving' = NoMove
  /\ rebuild' = [id |-> moving.id, what |-> moving.what, at |-> "keep",
                 run |-> moving.run, then |-> "start"]
  /\ phase' = "forget"
  /\ UNCHANGED <<stored, tor, have, entries, wanted, was, arrived, keeping, listed,
                 commands, crashes>>

MoveThrough ==
  /\ phase = "finish"
  /\ moving.on /\ moving.task = "moved"
  /\ moving' = NoMove
  /\ rebuild' = [id |-> moving.id, what |-> moving.what, at |-> "keep",
                 run |-> moving.run, then |-> "start"]
  /\ phase' = "forget"
  /\ UNCHANGED <<stored, tor, have, entries, wanted, was, arrived, keeping, listed,
                 commands, crashes>>

(* rebuild(): forget(), add_torrent(), adopt_moved().  The entry stays in  *)
(* the table until the new torrent takes its place.                        *)
Forget ==
  /\ phase = "forget"
  /\ rebuild.id \in session
  /\ Deleted(rebuild.id)
  /\ phase' = "add"
  /\ UNCHANGED <<disk, what, at, entries, wanted, was, arrived, keeping, moving,
                 rebuild, listed, commands, crashes>>

NothingToForget ==
  /\ phase = "forget"
  /\ rebuild.id \notin session
  /\ phase' = rebuild.then
  /\ rebuild' = NoRebuild
  /\ UNCHANGED <<stored, tor, have, entries, wanted, was, arrived, keeping, moving,
                 listed, commands, crashes>>

(* Mutant: the new torrent is put under the old id.                        *)
Adopted_OldKey(id) ==
  /\ entries' = entries \union {rebuild.id}
  /\ wanted' = wanted
  /\ was' = [was EXCEPT ![rebuild.id] = "yes"]
  /\ phase' = rebuild.then
  /\ rebuild' = NoRebuild

(* Mutant: the wish to run of a torrent that is gone stays behind.         *)
Adopted_KeepsWish(id) ==
  /\ entries' = (entries \ {rebuild.id}) \union {id}
  /\ wanted' = wanted \union {id}
  /\ was' = [was EXCEPT ![id] = "yes"]
  /\ phase' = rebuild.then
  /\ rebuild' = NoRebuild

(* The old entry, if there is one, gives the new one its wish to run, and  *)
(* the new one is complete.                                                *)
Adopted(id) ==
  LET old == rebuild.id
  IN  /\ entries' = (entries \ {old}) \union {id}
      /\ wanted' = IF old \in entries \ wanted THEN wanted \ {id}
                   ELSE (wanted \ {old}) \union {id}
      /\ was' = [was EXCEPT ![old] = "unseen",
                            ![id] = IF old \in entries THEN "yes" ELSE "unseen"]
      /\ phase' = rebuild.then
      /\ rebuild' = NoRebuild

AddBack ==
  /\ phase = "add"
  /\ \A i \in session : what[i] # rebuild.what
  /\ AddAt(rebuild.what, rebuild.at, ~rebuild.run)
  /\ Adopted(NextId)
  /\ UNCHANGED <<arrived, keeping, moving, listed, commands, crashes>>

(* librqbit answers with the torrent that is already there.                *)
AlreadyBack ==
  /\ phase = "add"
  /\ \E i \in session :
       /\ what[i] = rebuild.what
       /\ Adopted(i)
       /\ UNCHANGED <<stored, tor, have, arrived, keeping, moving, listed, commands, crashes>>

(* The add fails: the entry is left with a torrent that is gone.           *)
AddRefused ==
  /\ phase = "add"
  /\ "refuses" \in Habits
  /\ phase' = rebuild.then
  /\ rebuild' = NoRebuild
  /\ UNCHANGED <<stored, tor, have, entries, wanted, was, arrived, keeping, moving,
                 listed, commands, crashes>>

NothingToStart ==
  /\ phase = "start"
  /\ ~keeping \/ moving.on \/ arrived = {}
  /\ arrived' = IF keeping THEN arrived ELSE {}
  /\ phase' = "publish"
  /\ UNCHANGED <<stored, tor, have, entries, wanted, was, keeping, moving, rebuild,
                 listed, commands, crashes>>

Mover == phase = "start" /\ keeping /\ ~moving.on

(* gather() has nothing for it: gone, or where it belongs already.  It     *)
(* compares the torrent's folder with the destination, so a torrent with a *)
(* folder of its own inside the destination is not there yet.              *)
Skip(i) ==
  /\ Mover
  /\ i \in arrived
  /\ i \notin entries \/ (at[i] = "keep" /\ what[i] \notin Foldered)
  /\ arrived' = arrived \ {i}
  /\ UNCHANGED <<stored, tor, have, entries, wanted, was, keeping, moving, rebuild,
                 phase, listed, commands, crashes>>

StartMove(i) ==
  /\ Mover
  /\ i \in arrived
  /\ i \in entries /\ (at[i] = "home" \/ what[i] \in Foldered)
  /\ arrived' = arrived \ {i}
  /\ Stop(i)
  /\ moving' = [on |-> TRUE, id |-> i, what |-> what[i], run |-> i \in wanted,
                task |-> "begun", from |-> at[i], src |-> "none"]
  /\ phase' = "publish"
  /\ UNCHANGED <<disk, session, what, at, have, entries, wanted, was, keeping,
                 rebuild, listed, commands, crashes>>

----------------------------------------------------------------------------
(* publish(): the rows, and who has crossed since the last one.            *)

Crossed == {i \in entries : was[i] = "no" /\ SeenComplete(i)}

Publish ==
  /\ phase = "publish"
  /\ was' = [i \in Ids |-> IF i \notin entries THEN was[i]
                           ELSE IF SeenComplete(i) THEN "yes" ELSE "no"]
  /\ arrived' = arrived \union Crossed
  /\ phase' = "idle"
  /\ UNCHANGED <<stored, tor, have, entries, wanted, keeping, moving, rebuild, listed,
                 commands, crashes>>

----------------------------------------------------------------------------
(* carry(), on its own thread.                                             *)

Source == disk[moving.what]["home"]
Target == disk[moving.what]["keep"]

Task(from, to, d) ==
  /\ moving.on /\ moving.task = from
  /\ moving' = [moving EXCEPT !.task = to, !.src = IF to = "copying" THEN Source ELSE "none"]
  /\ disk' = [disk EXCEPT ![moving.what] = d]
  /\ UNCHANGED <<session, what, at, diskPaused, tor, have, entries, wanted, was,
                 arrived, keeping, rebuild, phase, listed, commands, crashes>>

(* Both ends are there, or they are the same, or there is nothing to move. *)
Refused == (Source = "none") = (Target = "none") \/ moving.from = "keep"

Renames == /\ ~Refused /\ Source # "none"
           /\ Task("begun", "moved", OnlyAt("keep", Source))

(* Every file is where it was going: a move resumed.                       *)
Resumes == ~Refused /\ Source = "none" /\ Task("begun", "moved", disk[moving.what])

Refuses == Refused /\ Task("begun", "failed", disk[moving.what])

CopiesSome == /\ ~Refused /\ Source # "none"
              /\ Task("begun", "copying", [disk[moving.what] EXCEPT !["keep"] = "part"])

(* Mutant: a copy that came out short passes for a whole one.              *)
CopiesAll_Short == Task("copying", "copied", disk[moving.what])

(* The copy has what was there when it passed, not what was written after. *)
CopiesAll == \E copied \in {moving.src, Source} :
               Task("copying", "copied", [disk[moving.what] EXCEPT !["keep"] = copied])

(* A copy that failed takes back what was made.                            *)
CopyFails == /\ "fails" \in Habits
             /\ Task("copying", "failed", [disk[moving.what] EXCEPT !["keep"] = "none"])

(* The sources go once every copy is checked; one that is open may stay.   *)
Drops == \E left \in {"none", Source} :
           Task("copied", "moved", [disk[moving.what] EXCEPT !["home"] = left])

Carry == \/ Renames \/ Resumes \/ Refuses
         \/ CopiesSome \/ CopiesAll \/ CopyFails \/ Drops

----------------------------------------------------------------------------
(* The torrents on their own tasks.                                        *)

(* The check of a torrent finds what is on the disk at its place.          *)
CheckEnds(i) ==
  \E k \in tor[i].tasks :
    /\ k.result = "scanning"
    /\ \E result \in Outcomes(tor[i], k) \ (IF "errors" \in Habits /\ tor[i].init < MaxInits
                                           THEN {} ELSE {"failed"}) :
         /\ tor' = [tor EXCEPT ![i] = Checked(@, k, result)]
         /\ have' = IF result # "passed" THEN have
                    ELSE IF disk[what[i]][at[i]] = "all" THEN have \union {i} ELSE have \ {i}
    /\ UNCHANGED <<stored, entries, wanted, was, arrived, keeping, moving, rebuild,
                   phase, listed, commands, crashes>>

(* finish_check() and the lock it takes next are one step here.            *)
Settle(i) ==
  /\ \E k \in tor[i].tasks :
       /\ k.result # "scanning"
       /\ tor' = [tor EXCEPT ![i] =
                    Settled(FinishedCheck(@, k), [k EXCEPT !.fin = TRUE])]
  /\ UNCHANGED <<stored, have, entries, wanted, was, arrived, keeping, moving,
                 rebuild, phase, listed, commands, crashes>>

(* The last piece is written where the torrent has its files open: at its  *)
(* place, or, when they were renamed under it, at the other; a write into  *)
(* files that were copied and dropped is lost.                             *)
Complete(i) ==
  /\ tor[i].st = "live" /\ i \notin have
  /\ have' = have \union {i}
  /\ IF disk[what[i]][at[i]] # "none"
     THEN disk' = [disk EXCEPT ![what[i]][at[i]] = "all"]
     ELSE \E d \in {disk[what[i]], [p \in Places |-> IF p = at[i] THEN "none" ELSE "all"]} :
            disk' = [disk EXCEPT ![what[i]] = d]
  /\ UNCHANGED <<session, what, at, diskPaused, tor, entries, wanted, was, arrived,
                 keeping, moving, rebuild, phase, listed, commands, crashes>>

Fail(i) ==
  /\ "errors" \in Habits
  /\ tor[i].st = "live" /\ tor[i].init < MaxInits
  /\ tor' = [tor EXCEPT ![i] = Stopped(@)]
  /\ UNCHANGED <<stored, have, entries, wanted, was, arrived, keeping, moving,
                 rebuild, phase, listed, commands, crashes>>

----------------------------------------------------------------------------
Crash ==
  /\ phase # "down"
  /\ crashes < MaxCrashes
  /\ crashes' = crashes + 1
  /\ phase' = "down"
  /\ tor' = [i \in Ids |-> Nobody]
  /\ have' = {}
  /\ entries' = {}
  /\ wanted' = {}
  /\ was' = [i \in Ids |-> "unseen"]
  /\ arrived' = {}
  /\ moving' = NoMove
  /\ rebuild' = NoRebuild
  /\ UNCHANGED <<stored, keeping, listed, commands>>

(* The torrents of session.json are added back and begin their checks;     *)
(* then adopt_queue looks at them.  The first snapshot comes before the    *)
(* first turn.                                                             *)
Load ==
  /\ phase = "down"
  /\ phase' = "loading"
  /\ tor' = [i \in Ids |-> IF i \in session THEN Added(i \in diskPaused) ELSE Nobody]
  /\ disk' = [t \in Torrents |-> [p \in Places |->
                IF disk[t][p] = "none" /\ \E i \in session : what[i] = t /\ at[i] = p
                THEN "part" ELSE disk[t][p]]]
  /\ UNCHANGED <<session, what, at, diskPaused, have, entries, wanted, was, arrived,
                 keeping, moving, rebuild, listed, commands, crashes>>

Adopt ==
  /\ phase = "loading"
  /\ phase' = "publish"
  /\ entries' = session
  /\ wanted' = {i \in session : tor[i].st # "paused"}
  /\ UNCHANGED <<stored, tor, have, was, arrived, keeping, moving, rebuild, listed,
                 commands, crashes>>

----------------------------------------------------------------------------
Command ==
  \/ \E i \in Ids : SetRunning(i) \/ SetStopped(i) \/ Remove(i) \/ Recheck(i)
  \/ \E t \in Torrents : Add(t)
  \/ SetKeepDir

Loop ==
  \/ Tick
  \/ \E i \in Ids : GiveTurn(i)
  \/ QueueDone
  \/ NotFinished \/ MoveFailed \/ MoveThrough
  \/ Forget \/ NothingToForget \/ AddBack \/ AlreadyBack \/ AddRefused
  \/ NothingToStart
  \/ \E i \in Ids : Skip(i) \/ StartMove(i)
  \/ Publish

Next ==
  \/ Command
  \/ Loop
  \/ Carry
  \/ \E i \in Ids : CheckEnds(i) \/ Settle(i) \/ Complete(i) \/ Fail(i)
  \/ Crash \/ Load \/ Adopt

(* The loop turns, the carrying and the checks come to an end, and the     *)
(* swarm has every piece.                                                  *)
Fairness ==
  /\ WF_vars(Loop) /\ WF_vars(Carry) /\ WF_vars(Load) /\ WF_vars(Adopt)
  /\ \A i \in Ids : WF_vars(CheckEnds(i) \/ Settle(i)) /\ WF_vars(Complete(i))

Spec == Init /\ [][Next]_vars /\ Fairness

----------------------------------------------------------------------------
(* What the mover promises.                                                *)

Of(t) == {i \in session \intersect entries : what[i] = t}

(* "Still knows where its files are": a torrent whose files are all there  *)
(* at some place is the torrent of that place, unless it is on its way.    *)
Whereabouts ==
  \A t \in listed :
    (\E p \in Places : disk[t][p] = "all") =>
      \/ \E i \in Of(t) : disk[t][at[i]] = "all"
      \/ moving.on /\ moving.what = t
      \/ phase \in {"forget", "add"} /\ rebuild.what = t

(* "A torrent that is still in the list, still knows where its files are": *)
(* no torrent its user has added is gone when the turn of the loop is      *)
(* over, or has lost its files, whichever way its move went.               *)
NobodyVanishes ==
  /\ phase = "idle" => \A t \in listed : Of(t) # {}
  /\ Whereabouts

(* "The only one that can lose data, so it is the one that undoes itself": *)
(* files that were all there are all there, at one place or the other,     *)
(* after any step of the carrying and of anything that runs beside it.     *)
NothingIsLost ==
  [][\A t \in Torrents :
        (\E p \in Places : disk[t][p] = "all") => \E p \in Places : disk'[t][p] = "all"]_vars

(* "Nothing is dropped until the data is already at the far end": when a   *)
(* torrent is about to be added at a place its files are there.            *)
MovedFirst ==
  phase \in {"forget", "add"} /\ rebuild.then = "start" =>
    disk[rebuild.what][rebuild.at] # "none"

(* A torrent that arrived does not stay in the list for ever: it is moved, *)
(* or there is no need, whatever happened to the move before it.           *)
ArrivedIsTakenUp == \A i \in Ids : i \in arrived ~> i \notin arrived

(* "Every file is complete, which is what 'arrived' means": only a torrent *)
(* that has all its files is set moving.                                   *)
OnlyCompleteMoves ==
  [][~moving.on /\ moving'.on => disk[moving'.what][moving'.from] = "all"]_vars

(* "Pause it, so nothing is writing while the files move": the torrent     *)
(* whose files are being carried does not run.                             *)
StillWhileMoving ==
  moving.on /\ moving.task \in {"copying", "copied"} /\ what[moving.id] = moving.what
    => tor[moving.id].st # "live"

(* "It has just been verified as complete, so it is complete": a torrent   *)
(* that was moved does not announce itself a second time.                  *)
AnnouncedOnce == [][\A i \in arrived' \ arrived : at[i] = "home"]_vars

(* "Moving to where the files already are" is a move that "should not be   *)
(* started": the mover leaves alone what is kept already.                  *)
NeverOntoItself == moving.on => moving.from = "home"

(* "Only the pause has to be undone": a torrent its user wants running     *)
(* does not stay paused, whatever the mover paused it for.                 *)
PauseIsUndone ==
  \A i \in Ids : (i \in wanted /\ tor[i].st = "paused") ~> (tor[i].st # "paused" \/ i \notin wanted)

(* A torrent its user has stopped is not started by the mover.             *)
StopIsKept ==
  phase = "idle" => \A i \in session \intersect entries : ~tor[i].paused => i \in wanted
=============================================================================
