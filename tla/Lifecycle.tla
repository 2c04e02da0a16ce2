----------------------------- MODULE Lifecycle ------------------------------
(***************************************************************************)
(* The life of one torrent in librqbit: start and pause called at any time *)
(* by whoever drives the session, initial checks ending on their own       *)
(* tasks, fatal errors crossing a channel.                                 *)
(***************************************************************************)
EXTENDS ManagedTorrent

CONSTANT Permits   \* concurrent_initialize_semaphore: three, by default

ASSUME PermitsAssumption == Permits \in Nat \ {0}

VARIABLE mt      \* the torrent

TypeOK == mt \in Torrent

Init == \E sp \in BOOLEAN : mt = Added(sp)

(* Session::unpause, the only caller of start() on a torrent in the list.  *)
Start == /\ mt.st = "error" => mt.init < MaxInits
         /\ mt' = Started(mt, FALSE)

Pause == mt' = Paused(mt)

(* A check comes to its end, one way or another.  A task keeps its permit  *)
(* until it is over, also while it waits for the torrent's lock.           *)
CheckEnds(k) ==
  /\ k.result = "scanning"
  /\ Cardinality({j \in mt.tasks : j.result # "scanning"}) < Permits
  /\ \E result \in Outcomes(mt, k) : mt' = Checked(mt, k, result)

(* finish_check(): the flag goes down before the task has the lock.        *)
FinishCheck(k) ==
  /\ k.result # "scanning"
  /\ ~k.fin
  /\ mt' = FinishedCheck(mt, k)

Settle(k) ==
  /\ k.fin
  /\ mt' = Settled(mt, k)

(* on_fatal_error(): the live state gives up its sender and uses it once.  *)
(* Bound: one error is on its way at a time.                               *)
FatalError ==
  /\ mt.st = "live"
  /\ ~mt.fatal
  /\ mt' = [mt EXCEPT !.fatal = TRUE]

(* spawn_fatal_errors_receiver: the other end of that channel.             *)
ReceiveFatal ==
  /\ mt.fatal
  /\ mt' = Stopped(mt)

TaskStep == \E k \in mt.tasks : CheckEnds(k) \/ FinishCheck(k) \/ Settle(k)

Next == Start \/ Pause \/ TaskStep \/ FatalError \/ ReceiveFatal

vars == <<mt>>

(* A spawned task is run to its end by the runtime, and so is the one that *)
(* waits for a fatal error; nobody has to call start, pause, or fail.      *)
Fairness ==
  /\ \A i \in Inits :
       WF_vars(\E k \in mt.tasks : k.init = i /\ (CheckEnds(k) \/ FinishCheck(k)))
  /\ \A i \in Inits : WF_vars(\E k \in mt.tasks : k.init = i /\ Settle(k))
  /\ WF_vars(ReceiveFatal)

Spec == Init /\ [][Next]_vars /\ Fairness

----------------------------------------------------------------------------
(* try_start_check() and finish_check() keep one check at a time on one    *)
(* initializing object: two of them would take each other's files away.    *)
(* This is about initializing.rs's check_running compare-and-swap.         *)
OneCheckPerInit == OneCheck(mt)

(* A torrent that was started, and not paused since, does not hang in its  *)
(* check: start() takes back the pause request and, when the aborted check *)
(* has let go of the object, begins another.                               *)
NoHungCheck ==
  (mt.st = "initializing" /\ ~mt.paused) ~> (mt.st # "initializing" \/ mt.paused)

(* "The torrent might not be in paused state technically, but the          *)
(* intention might be for it to stay paused": so a torrent whose flag is   *)
(* up is not transferring.                                                 *)
PausedIsNotLive == mt.paused => mt.st # "live"

(* "It should be impossible to make a fatal error after pausing": a paused *)
(* torrent is not put in error by an error of the live state it left.  The *)
(* transitions drawn above ManagedTorrentState have no such arrow.         *)
NoFatalAfterPausing ==
  [][mt.st = "paused" => mt'.st # "error"]_vars

(* "Start also means now": a torrent that was started and not paused since *)
(* ends up running, or failed.                                             *)
StartedRuns ==
  ~mt.paused ~> (mt.st \in {"live", "error"} \/ mt.paused)
=============================================================================
