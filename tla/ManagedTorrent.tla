--------------------------- MODULE ManagedTorrent ---------------------------
(***************************************************************************)
(* One torrent as librqbit holds it: the record behind the torrent's write *)
(* lock, the initial checks running for it on tasks of their own, and the  *)
(* fatal error its live state may have sent.  The operators give what each *)
(* locked section of torrent_state/mod.rs does to that record; Lifecycle   *)
(* and Queue turn them into actions.                                       *)
(*                                                                         *)
(* Every TorrentStateInitializing object has its own pause_requested and   *)
(* check_running flags.  The objects are numbered; `init` is the one the   *)
(* state machine holds (or held last), and the two flags are the sets of   *)
(* objects for which they are up.                                          *)
(***************************************************************************)
EXTENDS Naturals, FiniteSets

CONSTANT MaxInits   \* bound: how many initializing objects one torrent gets

ASSUME MaxInitsAssumption == MaxInits \in Nat \ {0}

Inits == 1 .. MaxInits

States == {"initializing", "paused", "live", "error"}

(* What init.check() came to: still reading, cut short by a pause request, *)
(* failed on the disk, or verified.                                        *)
Results == {"scanning", "aborted", "failed", "passed"}

(* A task spawned by start().  `sp` is the start_paused it captured, `fin` *)
(* says that finish_check() ran, so only taking the lock is left; `nth`    *)
(* tells the tasks of one object apart: up to three have ended and hold a  *)
(* permit, and one more may be running.                                    *)
Nths == 0 .. 3

Tasks == [init : Inits, nth : Nths, result : Results, sp : BOOLEAN, fin : BOOLEAN]

Torrent == [st      : States,
            paused  : BOOLEAN,          \* ManagedTorrentLocked.paused
            init    : Inits,
            req     : SUBSET Inits,     \* pause_requested
            running : SUBSET Inits,     \* check_running
            tasks   : SUBSET Tasks,
            fatal   : BOOLEAN]          \* an error sent and not received yet

NewTask(r, sp) ==
  [init   |-> r.init,
   nth    |-> CHOOSE n \in Nths :
                n = 3 \/ \A k \in r.tasks : k.init = r.init => k.nth # n,
   result |-> "scanning", sp |-> sp, fin |-> FALSE]

----------------------------------------------------------------------------
(* Mutants: try_start_check() always wins; the pause request stands.       *)
BeginCheck_NoFlag(r, sp) ==
  [r EXCEPT !.req = @ \ {r.init}, !.running = @ \union {r.init},
            !.tasks = @ \union {NewTask(r, sp)}]

BeginCheck_KeepsRequest(r, sp) ==
  IF r.init \in r.running THEN r
  ELSE [r EXCEPT !.running = @ \union {r.init},
                 !.tasks = @ \union {NewTask(r, sp)}]

(* start(): the branch for a torrent that is initializing.                 *)
BeginCheck(r, sp) ==
  LET asked == [r EXCEPT !.req = @ \ {r.init}]
  IN  IF r.init \in r.running
      THEN asked                        \* try_start_check() lost
      ELSE [asked EXCEPT !.running = @ \union {r.init},
                         !.tasks = @ \union {NewTask(r, sp)}]

(* A torrent just added: start() on a fresh initializing object.           *)
Added(sp) ==
  BeginCheck([st |-> "initializing", paused |-> sp, init |-> 1, req |-> {},
              running |-> {}, tasks |-> {}, fatal |-> FALSE], sp)

StartFails(r) == r.st = "live"

(* start(): the paused flag is written before the state is looked at, so   *)
(* it changes even when the call is refused.                               *)
Started(r, sp) ==
  LET s == [r EXCEPT !.paused = sp]
  IN  CASE r.st = "live"         -> s
        [] r.st = "initializing" -> BeginCheck(s, sp)
        [] r.st = "paused"       -> IF sp THEN s ELSE [s EXCEPT !.st = "live"]
        [] r.st = "error"        ->
             BeginCheck([s EXCEPT !.st = "initializing", !.init = @ + 1], sp)

PauseFails(r) == r.st \in {"paused", "error"}

(* pause(): a live torrent stops now, an initializing one is asked to.     *)
Paused(r) ==
  CASE r.st = "live"         -> [r EXCEPT !.st = "paused", !.paused = TRUE]
    [] r.st = "initializing" -> [r EXCEPT !.paused = TRUE, !.req = @ \union {r.init}]
    [] OTHER                 -> r

----------------------------------------------------------------------------
Replace(r, k, new) == [r EXCEPT !.tasks = (@ \ {k}) \union {new}]

(* What the check of task k may come to.  It looks at pause_requested once *)
(* per piece, and not at all when it resumes from a stored bitfield.       *)
Outcomes(r, k) ==
  {"passed", "failed"} \union (IF k.init \in r.req THEN {"aborted"} ELSE {})

Checked(r, k, result) == Replace(r, k, [k EXCEPT !.result = result])

FinishedCheck(r, k) ==
  [Replace(r, k, [k EXCEPT !.fin = TRUE]) EXCEPT !.running = @ \ {k.init}]

(* The task takes the lock: a verified torrent becomes paused and then     *)
(* live unless it was started paused; a check that ended in an error is    *)
(* let go if a pause is still being asked for, and otherwise fails the     *)
(* torrent, whatever state it has reached meanwhile.                       *)
Settled(r, k) ==
  LET done == [r EXCEPT !.tasks = @ \ {k}]
  IN  IF k.result = "passed"
      THEN IF r.st # "initializing" THEN done
           ELSE [done EXCEPT !.st = IF k.sp THEN "paused" ELSE "live"]
      ELSE IF k.init \in r.req THEN done
           ELSE [done EXCEPT !.st = "error"]

(* stop_with_error(): whatever the state, it is an error now.              *)
Stopped(r) == [r EXCEPT !.st = "error", !.fatal = FALSE]

(* check_running is up exactly for the objects a check is running on, and  *)
(* no object has two.                                                      *)
Busy(r, i) == {k \in r.tasks : k.init = i /\ ~k.fin}

OneCheck(r) ==
  \A i \in Inits :
    /\ i \in r.running <=> Busy(r, i) # {}
    /\ \A j, k \in Busy(r, i) : j = k
=============================================================================
