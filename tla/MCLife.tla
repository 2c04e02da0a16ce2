------------------------------- MODULE MCLife -------------------------------
(* One torrent alone, with whatever may happen to it; or three of them in  *)
(* a session that lasts, with its queue: their checks are over, nothing    *)
(* fails or dies, and the swarm has every piece; or two peers that shake   *)
(* hands.                                                                  *)
EXTENDS Lifecycle, Handshake

VARIABLES
  part,         \* which of the three
  stored, diskPaused, queued, complete, up, entries, tor, wanted, position,
  nextFront, limit, passes, plan, asked, crashes

session == <<stored, diskPaused, queued, complete, up, entries, tor, wanted,
             position, nextFront, limit, passes, plan, asked, crashes>>
all     == <<part, mt, session, peers>>

Lasting == INSTANCE Queue WITH
  Ids <- {0, 1, 2}, Limits <- {0, 1, 2}, AddPaused <- {FALSE}, Permits <- 1, MaxStarts <- 1,
  MaxCrashes <- 0, Faulty <- {}, Changing <- FALSE, MaxInits <- 1

(* The parts that are not checked start in one of their states and stay.   *)
MCInit ==
  /\ part \in {"torrent", "session", "peers"}
  /\ Init
  /\ part # "torrent" => mt = Added(TRUE)
  /\ Lasting!InitSettled
  /\ part # "session" => stored = {} /\ limit = 0
  /\ ShakeInit
  /\ part # "peers" => policy = [e \in {"a", "b"} |-> "off"] /\ habits = {}

Alone(step)    == part = "torrent" /\ step /\ UNCHANGED <<part, session, peers>>
Together(step) == part = "session" /\ step /\ UNCHANGED <<part, mt, peers>>
Shaking(step)  == part = "peers" /\ step /\ UNCHANGED <<part, mt, session>>

MCNext == Alone(Next) \/ Together(Lasting!Next) \/ Shaking(ShakeNext)

MCFairness ==
  /\ \A i \in Inits :
       /\ WF_all(Alone(\E k \in mt.tasks : k.init = i /\ (CheckEnds(k) \/ FinishCheck(k))))
       /\ WF_all(Alone(\E k \in mt.tasks : k.init = i /\ Settle(k)))
  /\ WF_all(Alone(ReceiveFatal))
  /\ WF_all(Together(Lasting!Tick)) /\ WF_all(Together(Lasting!Enforce))
  /\ \A i \in {0, 1, 2} : WF_all(Together(Lasting!Complete(i)))
  /\ WF_all(Shaking(StepA)) /\ WF_all(Shaking(StepB))

MCSpec == MCInit /\ [][MCNext]_all /\ MCFairness

(* "Gives the next torrent its turn when one finishes or is stopped": a    *)
(* torrent its user wants running gets to run, as long as those before it  *)
(* complete (zerem-core/queue.rs); and "the steady state is no change at   *)
(* all" once the user has given his last command and the checks are over   *)
(* (session.rs enforce_queue).                                             *)
TurnComes == Lasting!TurnComes /\ Lasting!EventuallyQuiet

(* Two clients whose settings allow it end up connected, and no handshake  *)
(* waits for ever.                                                         *)
TheyMeet ==
  /\ part = "peers" => EndsMeet
  /\ part = "peers" => NobodyWaits
=============================================================================
