------------------------------- MODULE Queue --------------------------------
(***************************************************************************)
(* Zerem's queue (zerem-engine/src/session.rs) over librqbit's session.    *)
(*                                                                         *)
(* librqbit has no queue, so the engine pauses and unpauses torrents on    *)
(* the user's behalf, once per turn of its loop, and writes down which     *)
(* ones it holds back (queued.txt) so that a restart can tell its pauses   *)
(* from the user's.  The torrents live their own life meanwhile: checks    *)
(* end, downloads complete and errors arrive on other tasks, also between  *)
(* two steps of a pass of the queue.  The process may die anywhere.        *)
(*                                                                         *)
(* A torrent and its info hash are one thing here, its id.                 *)
(***************************************************************************)
EXTENDS ManagedTorrent, Admit

CONSTANTS
  Ids,          \* the ids a torrent may have, 0 .. n
  Limits,       \* what the setting "active downloads" may be
  AddPaused,    \* what the setting "add torrents stopped" may be
  Permits,      \* concurrent_initialize_semaphore
  MaxStarts,    \* bound: jumps to the head of the queue in one run
  MaxCrashes,   \* bound: how often the process dies
  Faulty,       \* the torrents that may meet a fatal error or a failed check
  Changing      \* whether torrents are added and removed

ASSUME QueueAssumption ==
  /\ Ids \subseteq Nat /\ IsFiniteSet(Ids)
  /\ Limits \subseteq Nat
  /\ AddPaused \subseteq BOOLEAN
  /\ Permits \in Nat \ {0}
  /\ MaxStarts \in Nat
  /\ MaxCrashes \in Nat
  /\ Faulty \subseteq Ids
  /\ Changing \in BOOLEAN

VARIABLES
  (* On disk. *)
  stored,       \* the torrents in session.json
  diskPaused,   \* those stored with is_paused
  queued,       \* the Roster: in memory and in queued.txt, written together
  complete,     \* the torrents whose selected pieces are all there
  (* The process. *)
  up,           \* "down", "loading" (inside Session::new_with_opts) or "up"
  entries,      \* the torrents in TorrentSession.entries
  tor,          \* the librqbit torrent behind each
  wanted,       \* those with wanted_running
  position,
  nextFront,
  limit,
  passes,       \* calls of enforce_queue left in this turn of the loop
  plan,         \* what the pass in progress has decided and not done yet
  (* Bookkeeping of the model. *)
  asked,        \* the torrents whose user last said they should run
  crashes

disk == <<stored, diskPaused, queued, complete>>
vars == <<stored, diskPaused, queued, complete, up, entries, tor, wanted,
          position, nextFront, limit, passes, plan, asked, crashes>>

NoPlan == [on |-> FALSE, start |-> {}, stop |-> {}, held |-> {}]

(* What stands for the handle of a torrent that is not in the session.     *)
Nobody == [st |-> "error", paused |-> TRUE, init |-> 1, req |-> {},
           running |-> {}, tasks |-> {}, fatal |-> FALSE]

Positions == -MaxStarts .. Cardinality(Ids)

TypeOK ==
  /\ stored \subseteq Ids
  /\ diskPaused \subseteq stored
  /\ queued \subseteq Ids
  /\ complete \subseteq Ids
  /\ up \in {"down", "loading", "up"}
  /\ entries \subseteq stored
  /\ tor \in [Ids -> Torrent]
  /\ wanted \subseteq entries
  /\ position \in [Ids -> Positions]
  /\ nextFront \in -MaxStarts .. 0
  /\ limit \in Limits
  /\ passes \in 0 .. 2
  /\ plan \in [on : BOOLEAN, start : SUBSET Ids, stop : SUBSET Ids, held : SUBSET Ids]
  /\ asked \subseteq stored
  /\ crashes \in 0 .. MaxCrashes

(* Where adopt_queue puts a restored torrent: by id.                       *)
Place(i, ids) == Cardinality({j \in ids : j < i})

(* A clean exit: whatever was held back was written down.                  *)
Init ==
  /\ stored \in SUBSET Ids
  /\ asked \in SUBSET stored
  /\ queued \in SUBSET asked
  /\ diskPaused = (stored \ asked) \union queued
  /\ complete \in SUBSET stored
  /\ up = "down"
  /\ entries = {}
  /\ tor = [i \in Ids |-> Nobody]
  /\ wanted = {}
  /\ position = [i \in Ids |-> 0]
  /\ nextFront = 0
  /\ limit \in Limits
  /\ passes = 0
  /\ plan = NoPlan
  /\ crashes = 0

(* The same list in a session that has been up for a while: every check is *)
(* over, and the queue has made its first pass or is about to.             *)
InitSettled ==
  /\ stored \in SUBSET Ids
  /\ asked \in SUBSET stored
  /\ queued \in SUBSET asked
  /\ diskPaused = (stored \ asked) \union queued
  /\ complete \in SUBSET stored
  /\ up = "up"
  /\ entries = stored
  /\ tor = [i \in Ids |->
             IF i \in stored \ diskPaused
             THEN [Nobody EXCEPT !.st = "live", !.paused = FALSE]
             ELSE IF i \in diskPaused THEN [Nobody EXCEPT !.st = "paused"] ELSE Nobody]
  /\ wanted = asked
  /\ position = [i \in Ids |-> IF i \in stored THEN Place(i, stored) ELSE 0]
  /\ nextFront = 0
  /\ limit \in Limits
  /\ passes = 1
  /\ plan = NoPlan
  /\ crashes = 0

----------------------------------------------------------------------------
(* Session::pause and Session::unpause, each followed by the write of the  *)
(* torrent's paused flag to session.json unless the call was refused.      *)

Unpause(i) ==
  /\ tor[i].st = "error" => tor[i].init < MaxInits
  /\ tor' = [tor EXCEPT ![i] = Started(@, FALSE)]
  /\ diskPaused' = IF StartFails(tor[i]) THEN diskPaused ELSE diskPaused \ {i}

PauseNow(i) ==
  /\ tor' = [tor EXCEPT ![i] = Paused(@)]
  /\ diskPaused' = IF PauseFails(tor[i]) THEN diskPaused ELSE diskPaused \union {i}

Idle == up = "up" /\ passes = 0

(* The commands.  set_running ends with a pass of its own, before the one  *)
(* that ends the turn, unless librqbit refused the call.                   *)

SetRunning(i) ==
  /\ Idle
  /\ i \in entries
  /\ nextFront > -MaxStarts
  /\ wanted' = wanted \union {i}
  /\ position' = [position EXCEPT ![i] = nextFront]
  /\ nextFront' = nextFront - 1
  /\ Unpause(i)
  /\ passes' = IF StartFails(tor[i]) THEN 1 ELSE 2
  /\ asked' = asked \union {i}
  /\ UNCHANGED <<stored, queued, complete, up, entries, limit, plan, crashes>>

SetStopped(i) ==
  /\ Idle
  /\ i \in entries
  /\ wanted' = wanted \ {i}
  /\ PauseNow(i)
  /\ passes' = IF PauseFails(tor[i]) THEN 1 ELSE 2
  /\ asked' = asked \ {i}
  /\ UNCHANGED <<stored, queued, complete, up, entries, position, nextFront,
                 limit, plan, crashes>>

SetMaxActive(n) ==
  /\ Idle
  /\ limit' = n
  /\ passes' = 2
  /\ UNCHANGED <<disk, up, entries, tor, wanted, position, nextFront, plan,
                 asked, crashes>>

(* confirm_add and add: next_id() is one more than the largest id stored.  *)
NextId == IF stored = {} THEN 0 ELSE 1 + CHOOSE i \in stored : \A j \in stored : j <= i

AddTorrent(stopped) ==
  LET i == NextId
  IN  /\ Idle
      /\ Changing
      /\ i \in Ids
      /\ stored' = stored \union {i}
      /\ diskPaused' = IF stopped THEN diskPaused \union {i} ELSE diskPaused
      /\ queued' = queued \ {i}         \* another torrent, whatever had the id
      /\ complete' = complete \ {i}
      /\ entries' = entries \union {i}
      /\ tor' = [tor EXCEPT ![i] = Added(stopped)]
      /\ wanted' = wanted \union {i}
      /\ position' = [position EXCEPT ![i] = 0]
      /\ passes' = 1
      /\ asked' = IF stopped THEN asked ELSE asked \union {i}
      /\ UNCHANGED <<up, nextFront, limit, plan, crashes>>

Remove(i) ==
  /\ Idle
  /\ Changing
  /\ i \in entries
  /\ entries' = entries \ {i}
  /\ wanted' = wanted \ {i}
  /\ tor' = [tor EXCEPT ![i] = Nobody]
  /\ stored' = stored \ {i}
  /\ diskPaused' = diskPaused \ {i}
  /\ complete' = complete \ {i}
  /\ position' = [position EXCEPT ![i] = 0]
  /\ passes' = 1
  /\ asked' = asked \ {i}
  /\ UNCHANGED <<queued, up, nextFront, limit, plan, crashes>>

Tick ==
  /\ Idle
  /\ passes' = 1
  /\ UNCHANGED <<disk, up, entries, tor, wanted, position, nextFront, limit,
                 plan, asked, crashes>>

----------------------------------------------------------------------------
(* enforce_queue.  It reads every torrent first and acts afterwards, one   *)
(* torrent at a time and in the order of a hash map, awaiting in between.  *)

SeenComplete(i) == tor[i].st \in {"paused", "live"} /\ i \in complete

(* Mutant: it forgets the jumps to the head of the line.                   *)
Line_ById == {[id |-> i, position |-> 0, wanted |-> i \in wanted,
               complete |-> SeenComplete(i)] : i \in entries}

Line == {[id |-> i, position |-> position[i], wanted |-> i \in wanted,
          complete |-> SeenComplete(i)] : i \in entries}

(* Mutant: no limit, nothing to do, whatever is still held back.           *)
NothingToDecide_NoRoster ==
  /\ up = "up" /\ passes > 0 /\ ~plan.on
  /\ limit = 0
  /\ passes' = passes - 1
  /\ UNCHANGED <<disk, up, entries, tor, wanted, position, nextFront, limit,
                 plan, asked, crashes>>

NothingToDecide ==
  /\ up = "up" /\ passes > 0 /\ ~plan.on
  /\ limit = 0 /\ queued = {}
  /\ passes' = passes - 1
  /\ UNCHANGED <<disk, up, entries, tor, wanted, position, nextFront, limit,
                 plan, asked, crashes>>

(* Mutants: a torrent the user stopped is written down as held back; only  *)
(* those this pass pauses are; one that is still being checked is not held *)
(* back; one on the roster is taken to be paused.                          *)
Decision_HoldsStopped(admitted) ==
  LET stopped == {i \in entries : tor[i].st = "paused"}
  IN  [on    |-> TRUE,
       start |-> admitted \intersect stopped,
       stop  |-> {i \in wanted : tor[i].st # "error"} \ (admitted \union stopped),
       held  |-> entries \ admitted]

Decision_HoldsNewOnly(admitted) ==
  LET stop == {i \in wanted \ admitted : tor[i].st \notin {"error", "paused"}}
  IN  [on    |-> TRUE,
       start |-> {i \in admitted : tor[i].st = "paused"},
       stop  |-> stop,
       held  |-> stop]

Decision_LetsChecksBe(admitted) ==
  [on    |-> TRUE,
   start |-> {i \in admitted : tor[i].st = "paused"},
   stop  |-> {i \in wanted \ admitted : tor[i].st = "live"},
   held  |-> wanted \ admitted]

Decision_TrustsRoster(admitted) ==
  [on    |-> TRUE,
   start |-> {i \in admitted : tor[i].st = "paused"},
   stop  |-> {i \in wanted \ (admitted \union queued) : tor[i].st \notin {"error", "paused"}},
   held  |-> wanted \ admitted]

(* What a pass does to the torrents it has read.                           *)
Decision(admitted) ==
  LET sound == {i \in entries : tor[i].st # "error"}
      stopped == {i \in entries : tor[i].st = "paused"}
  IN  [on    |-> TRUE,
       start |-> admitted \intersect sound \intersect stopped,
       stop  |-> (wanted \intersect sound) \ (admitted \union stopped),
       held  |-> wanted \ admitted]

Decide ==
  /\ up = "up" /\ passes > 0 /\ ~plan.on
  /\ limit # 0 \/ queued # {}
  /\ plan' = Decision(Admitted(Line, limit))
  /\ UNCHANGED <<disk, up, entries, tor, wanted, position, nextFront, limit,
                 passes, asked, crashes>>

GiveTurn(i) ==
  /\ i \in plan.start
  /\ Unpause(i)
  /\ plan' = [plan EXCEPT !.start = @ \ {i}]
  /\ UNCHANGED <<stored, queued, complete, up, entries, wanted, position,
                 nextFront, limit, passes, asked, crashes>>

HoldBack(i) ==
  /\ i \in plan.stop
  /\ PauseNow(i)
  /\ plan' = [plan EXCEPT !.stop = @ \ {i}]
  /\ UNCHANGED <<stored, queued, complete, up, entries, wanted, position,
                 nextFront, limit, passes, asked, crashes>>

(* queued.keep(held), the last line of the pass.                           *)
KeepRoster ==
  /\ plan.on /\ plan.start = {} /\ plan.stop = {}
  /\ queued' = plan.held
  /\ plan' = NoPlan
  /\ passes' = passes - 1
  /\ UNCHANGED <<stored, diskPaused, complete, up, entries, tor, wanted,
                 position, nextFront, limit, asked, crashes>>

Enforce ==
  \/ NothingToDecide
  \/ Decide
  \/ \E i \in Ids : GiveTurn(i) \/ HoldBack(i)
  \/ KeepRoster

----------------------------------------------------------------------------
(* What happens to the torrents on other tasks.  A torrent on its last     *)
(* initializing object (MaxInits) meets no more errors.                    *)

Becomes(i, r) ==
  /\ tor' = [tor EXCEPT ![i] = r]
  /\ UNCHANGED <<disk, up, entries, wanted, position, nextFront, limit, passes,
                 plan, asked, crashes>>

(* The checks that are over and whose task is not: each has a permit.      *)
PermitsTaken ==
  Cardinality(UNION {{<<i, k>> : k \in {l \in tor[i].tasks : l.result # "scanning"}}
                     : i \in Ids})

MayFail(i) == i \in Faulty /\ tor[i].init < MaxInits

CheckEnds(i) ==
  \E k \in tor[i].tasks :
    /\ k.result = "scanning"
    /\ PermitsTaken < Permits
    /\ \E result \in Outcomes(tor[i], k) \ (IF MayFail(i) THEN {} ELSE {"failed"}) :
         Becomes(i, Checked(tor[i], k, result))

FinishCheck(i) ==
  \E k \in tor[i].tasks :
    /\ k.result # "scanning" /\ ~k.fin
    /\ Becomes(i, FinishedCheck(tor[i], k))

Settle(i) ==
  \E k \in tor[i].tasks : k.fin /\ Becomes(i, Settled(tor[i], k))

FatalError(i) ==
  /\ MayFail(i)
  /\ tor[i].st = "live"
  /\ ~tor[i].fatal
  /\ Becomes(i, [tor[i] EXCEPT !.fatal = TRUE])

ReceiveFatal(i) == tor[i].fatal /\ Becomes(i, Stopped(tor[i]))

(* The last wanted piece of a live torrent is written.                     *)
Complete(i) ==
  /\ tor[i].st = "live"
  /\ i \notin complete
  /\ complete' = complete \union {i}
  /\ UNCHANGED <<stored, diskPaused, queued, up, entries, tor, wanted, position,
                 nextFront, limit, passes, plan, asked, crashes>>

Background(i) ==
  \/ CheckEnds(i) \/ FinishCheck(i) \/ Settle(i)
  \/ FatalError(i) \/ ReceiveFatal(i) \/ Complete(i)

----------------------------------------------------------------------------
(* The process dies, and another one starts.                               *)

Crash ==
  /\ up # "down"
  /\ crashes < MaxCrashes
  /\ crashes' = crashes + 1
  /\ up' = "down"
  /\ entries' = {}
  /\ tor' = [i \in Ids |-> Nobody]
  /\ wanted' = {}
  /\ position' = [i \in Ids |-> 0]
  /\ nextFront' = 0
  /\ passes' = 0
  /\ plan' = NoPlan
  /\ UNCHANGED <<disk, limit, asked>>

(* Session::new_with_opts re-adds what session.json holds, each torrent    *)
(* with the paused flag it was stored with; the checks start at once.      *)
Load ==
  /\ up = "down"
  /\ up' = "loading"
  /\ entries' = stored
  /\ tor' = [i \in Ids |-> IF i \in stored THEN Added(i \in diskPaused) ELSE Nobody]
  /\ UNCHANGED <<disk, wanted, position, nextFront, limit, passes, plan, asked, crashes>>

(* adopt_queue, and the first tick, which comes at once.                   *)
Adopt ==
  /\ up = "loading"
  /\ up' = "up"
  /\ wanted' = {i \in entries : tor[i].st # "paused" \/ i \in queued}
  /\ position' = [i \in Ids |-> IF i \in entries THEN Place(i, entries) ELSE 0]
  /\ passes' = 1
  /\ UNCHANGED <<disk, entries, tor, nextFront, limit, plan, asked, crashes>>

----------------------------------------------------------------------------
Command ==
  \/ \E i \in Ids : SetRunning(i) \/ SetStopped(i) \/ Remove(i)
  \/ \E n \in Limits : SetMaxActive(n)
  \/ \E stopped \in AddPaused : AddTorrent(stopped)

Next ==
  \/ Command
  \/ Tick
  \/ Enforce
  \/ \E i \in Ids : Background(i)
  \/ Crash
  \/ Load
  \/ Adopt

(* The loop ticks and finishes the pass it is in, and checks come to an    *)
(* end.  Nobody has to give commands.                                      *)
LoopFairness ==
  /\ WF_vars(Tick) /\ WF_vars(Enforce) /\ WF_vars(Load) /\ WF_vars(Adopt)
  /\ \A i \in Ids :
       /\ WF_vars(CheckEnds(i) \/ FinishCheck(i) \/ Settle(i))
       /\ WF_vars(ReceiveFatal(i))

(* And the swarm has every piece: a live torrent completes in the end.     *)
Fairness == LoopFairness /\ \A i \in Ids : WF_vars(Complete(i))

Spec == Init /\ [][Next]_vars /\ Fairness

SettledSpec == InitSettled /\ [][Next]_vars /\ Fairness

(* Downloads that may take for ever.                                       *)
UnservedSpec == Init /\ [][Next]_vars /\ LoopFairness

----------------------------------------------------------------------------
(* What the queue promises.                                                *)

(* A pass of enforce_queue has done all it decided, or none is owed.       *)
PassDone ==
  /\ up = "up"
  /\ limit # 0
  /\ passes = 0 \/ (plan.on /\ plan.start = {} /\ plan.stop = {})

Downloading == {i \in entries : tor[i].st = "live" /\ i \notin complete}

(* Those that download with the leave of the queue or the user: without    *)
(* the ones whose pause came too late to stop their check (Lifecycle).     *)
Allowed == {i \in Downloading : ~tor[i].paused}

(* However torrents ended, failed or completed while a pass was acting on  *)
(* what it had read, no more than the limit are allowed to download when   *)
(* it is over, and until the next command.                                 *)
LimitRespected == PassDone => Cardinality(Allowed) <= limit

(* "How many torrents may download at once": the same of all that do.      *)
LimitIsHard == PassDone => Cardinality(Downloading) <= limit

(* A limit that was exceeded is respected again, and not by waiting for a  *)
(* download to complete (UnservedSpec): the next pass sees the torrent     *)
(* that slipped past its pause.  It looks away from those the user has     *)
(* stopped, so one of them that slipped past runs on (StoppedStops).       *)
LimitRecovers ==
  LET Over == limit # 0 /\ Cardinality(Downloading \intersect wanted) > limit
  IN  (up = "up" /\ Over) ~> (up # "up" \/ ~Over)

(* "Start or stop a torrent, on the user's say-so, applied straight away": *)
(* what the user stopped comes to a stop.                                  *)
StoppedStops ==
  \A i \in Ids : (i \in entries \ wanted) ~> (tor[i].st # "live" \/ i \notin entries \ wanted)

(* Nobody downloads ahead of his place: whoever runs stands before whoever *)
(* is held back (zerem-core/src/queue.rs, "by position, then by id").      *)
LineRespected ==
  LET place(i) == [id |-> i, position |-> position[i]]
      held == IF plan.on THEN plan.held ELSE queued
  IN  PassDone => \A i \in Allowed, j \in held : Before(place(i), place(j))

(* The roster names only torrents the user wants running, once the turn of *)
(* the loop is over: a torrent he stopped or removed is off it, so that no *)
(* restart takes his pause for the queue's (journal.rs, Roster).           *)
RosterIsWanted == Idle => queued \subseteq wanted

(* "A run that comes back finds its own work rather than mistaking it for  *)
(* the user's": between two turns of the loop session.json and queued.txt  *)
(* say of every torrent its user wants that it runs or is held back, so a  *)
(* death there loses no wish.  Not of one that has failed; nor of one that *)
(* was paused during its check and is paused still or has slipped past:    *)
(* that one is stored as paused and may be off the roster.  And until the  *)
(* first death only: a torrent restored in its check is taken to run.      *)
WishIsOnDisk ==
  crashes = 0 /\ Idle =>
    \A i \in asked :
      \/ tor[i].st = "error"
      \/ tor[i].init \in tor[i].req
      \/ i \in (stored \ diskPaused) \union queued

(* "Starting it is a retry the user asks for rather than something a queue *)
(* should do behind their back": a failed torrent is only started by a     *)
(* command, never by a pass.                                               *)
RetriesAreAsked ==
  [][\A i \in Ids :
        (up = "up" /\ i \in entries \intersect entries' /\ tor[i].st = "error"
           /\ tor'[i].st # "error")
        => Idle]_vars

(* The queue starts no torrent whose user last said stop.                  *)
StartsOnlyAsked == plan.start \subseteq asked

(* "Gives the next torrent its turn when one finishes or is stopped": a    *)
(* torrent its user wants running gets to run, as long as those before it  *)
(* complete.                                                               *)
TurnComes ==
  \A i \in Ids : i \in wanted ~> (i \notin wanted \/ tor[i].st = "live")

(* "The steady state is no change at all": once the user has given his     *)
(* last command and the checks are over, the queue touches nothing.        *)
EventuallyQuiet == <>[](plan.start = {} /\ plan.stop = {})

(* "Seeding is never queued": no torrent with every piece it wants is on   *)
(* the list of those held back when a pass decides.                        *)
SeedsNotQueued ==
  [][~plan.on /\ plan'.on => plan'.held \intersect complete = {}]_vars

(* "Work out which of them the queue stopped rather than the user": after  *)
(* a restart a torrent the user stopped is not one the queue may start.    *)
RestartKeepsPauses == up = "up" => wanted \subseteq asked

(* "A run that comes back finds its own work rather than mistaking it for  *)
(* the user's": after a restart a torrent the user started is still one he *)
(* wants running.                                                          *)
RestartKnowsOwnPauses == up = "up" => asked \subseteq wanted

Place2(i, pos) == [id |-> i, position |-> pos[i]]

(* "Start also means now: it goes to the head of the queue."               *)
StartGoesToHead ==
  [][\A i \in Ids :
        (up = "up" /\ entries' = entries /\ position'[i] # position[i])
        => \A j \in entries \ {i} : Before(Place2(i, position'), Place2(j, position'))]_vars

(* "The next position handed to a torrent added": a torrent that is added  *)
(* takes its place behind those already in line.                           *)
AddedGoesLast ==
  [][up = "up" =>
        \A i \in entries' \ entries, j \in entries :
           Before(Place2(j, position'), Place2(i, position'))]_vars
=============================================================================
