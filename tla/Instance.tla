------------------------------ MODULE Instance ------------------------------
(***************************************************************************)
(* One process, however many times it is launched (single_instance.rs of   *)
(* zerem-shell), the relaunch after an update (update.rs of zerem-shell)   *)
(* and the part of main() they stand in.                                   *)
(*                                                                         *)
(* The first launch owns a named pipe; a later one connects to it, writes  *)
(* what it was launched with, waits for the owner's acknowledgement and    *)
(* exits.  Without one it ends the owner and takes the pipe.               *)
(***************************************************************************)
EXTENDS Integers, FiniteSets

CONSTANTS
  MaxLaunches,   \* bound: how often the program is launched
  ClaimAttempts, \* CLAIM_ATTEMPTS
  Worlds         \* what may happen in each behaviour: sets of the habits below

(* together: a launch may begin while another has not found its place yet; *)
(* late: a client's reading thread may start after the acknowledgement is  *)
(* written; slow start: an owner may take longer than ACK_TIMEOUT to reach *)
(* server.run; slow exit: the replaced program may outlive PATIENCE; slow  *)
(* release: a dead owner's pipe may outlive the attempts to claim it;      *)
(* sticks: a process may stop for good, with nobody being served unless    *)
(* midway; hangs: its window may; quits, relaunches: what the user does    *)
(* with it; dies: a launch may be killed; several: a launch is given more  *)
(* than one link; long: its argument does not fit in the pipe              *)
Habits == {"together", "late", "slow start", "slow exit", "slow release",
           "sticks", "midway", "hangs", "quits", "relaunches", "dies", "several", "long"}

ASSUME InstanceAssumption ==
  /\ MaxLaunches \in Nat
  /\ ClaimAttempts \in Nat \ {0}
  /\ Worlds \subseteq SUBSET Habits

Procs == 1 .. MaxLaunches
Nobody == 0

(* The links of a launch: the first and the rest.                          *)
Links == {1, 2}

VARIABLES
  at,        \* where each process is between its launch and its end
  after,     \* HANDOFF: the process each was told to outlive
  owner,     \* the process whose handle to the pipe is not closed yet
  line,      \* the pipe: whether a client may open it, who did, whether an EOM
             \* and whether an ACK has been written to it
  serving,   \* where the owner's server thread is
  peer,      \* the pid a client read off the pipe it opened
  tries,     \* claims of the pipe that failed
  engine,    \* the links each engine was sent, with the launch they are of
  secondary, \* launches that ended because another process had taken theirs
  ended,     \* processes a launch terminated, with what they could not do
  hung,      \* nothing, the window or the whole process
  world

vars == <<at, after, owner, line, serving, peer, tries, engine, secondary, ended, hung, world>>

(* `calling` to `listening` are forward(), `claiming` is claim(), `opening` *)
(* is main() from the guard to server.run, `leaving` what comes after the   *)
(* event loop.                                                              *)
Phases == {"none", "settling", "asking", "calling", "writing", "wrote", "listening", "ending",
           "claiming", "opening", "up", "leaving", "gone"}
Running == {"opening", "up", "leaving"}
InFlight == {"settling", "asking", "calling", "writing", "wrote", "listening", "ending", "claiming"}

Fresh == [open |-> TRUE, client |-> Nobody, sent |-> FALSE, acked |-> FALSE]

TypeOK ==
  /\ at \in [Procs -> Phases]
  /\ after \in [Procs -> Procs \cup {Nobody}]
  /\ owner \in Procs \cup {Nobody}
  /\ line \in [open : BOOLEAN, client : Procs \cup {Nobody}, sent : BOOLEAN, acked : BOOLEAN]
  /\ serving \in {"off", "waiting", "reading", "acking", "parting", "between"}
  /\ peer \in [Procs -> Procs \cup {Nobody}]
  /\ tries \in [Procs -> 0 .. ClaimAttempts]
  /\ engine \in [Procs -> SUBSET (Procs \X Links)]
  /\ secondary \subseteq Procs
  /\ ended \subseteq Procs \X {"deaf", "starting", "serving"}
  /\ hung \in [Procs -> {"no", "window", "all"}]
  /\ world \in Worlds
  /\ line.client # Nobody => at[line.client] \notin {"none", "settling", "asking", "calling"}
  /\ line.open => owner # Nobody

Init ==
  /\ at = [p \in Procs |-> "none"]
  /\ after = [p \in Procs |-> Nobody]
  /\ owner = Nobody /\ line = [Fresh EXCEPT !.open = FALSE] /\ serving = "off"
  /\ peer = [p \in Procs |-> Nobody]
  /\ tries = [p \in Procs |-> 0]
  /\ engine = [p \in Procs |-> {}]
  /\ secondary = {} /\ ended = {}
  /\ hung = [p \in Procs |-> "no"]
  /\ world \in Worlds

May(habit) == habit \in world
Go(p, phase) == at' = [at EXCEPT ![p] = phase]
Alive(p) == p # Nobody /\ at[p] \notin {"none", "gone"} /\ hung[p] # "all"

(* The owner's server thread runs.                                         *)
Serves == owner # Nobody /\ at[owner] \in {"up", "leaving"} /\ Alive(owner)

(***************************************************************************)
(* The user, who launches the program and ends it.                         *)
(***************************************************************************)
Next_(p) == at[p] = "none" /\ \A q \in Procs : q < p => at[q] # "none"

(* One launch at a time: the one before has found its place, and its       *)
(* owner awaits the next.                                                  *)
MayBegin ==
  \/ May("together")
  \/ /\ \A q \in Procs : at[q] \notin InFlight
     /\ serving \in {"off", "waiting"} \/ ~Alive(owner)

Launch(p) ==
  /\ Next_(p)
  /\ MayBegin
  /\ Go(p, "asking")
  /\ UNCHANGED <<after, owner, line, serving, peer, tries, engine, secondary, ended, hung, world>>

(* "Restart now": the replacement is started and told whom to outlive; the *)
(* event loop is then ended by name.                                       *)
Relaunch(old, p) ==
  /\ May("relaunches")
  /\ at[old] = "up" /\ hung[old] = "no" /\ Next_(p)
  /\ MayBegin
  /\ at' = [at EXCEPT ![old] = "leaving", ![p] = "settling"]
  /\ after' = [after EXCEPT ![p] = old]
  /\ UNCHANGED <<owner, line, serving, peer, tries, engine, secondary, ended, hung, world>>

Quit(p) ==
  /\ May("quits") /\ at[p] = "up" /\ hung[p] = "no"
  /\ Go(p, "leaving")
  /\ UNCHANGED <<after, owner, line, serving, peer, tries, engine, secondary, ended, hung, world>>

Hang(p, what) ==
  /\ \/ /\ what = "all" /\ May("sticks") /\ at[p] \in Running
        /\ May("midway") \/ serving \in {"off", "waiting"}
     \/ what = "window" /\ May("hangs") /\ at[p] = "up"
  /\ hung[p] = "no"
  /\ hung' = [hung EXCEPT ![p] = what]
  /\ UNCHANGED <<at, after, owner, line, serving, peer, tries, engine, secondary, ended, world>>

(* A launch killed on its way: its end of the pipe closes.  A server that  *)
(* has not met it yet never will: ConnectNamedPipe keeps failing, and the  *)
(* loop of ServerImpl::run goes round without a disconnection.             *)
Die(p) ==
  /\ May("dies") /\ at[p] \in InFlight
  /\ Go(p, "gone")
  /\ line' = IF line.client = p THEN [line EXCEPT !.client = Nobody] ELSE line
  /\ UNCHANGED <<after, owner, serving, peer, tries, engine, secondary, ended, hung, world>>

(***************************************************************************)
(* A launch, up to its window or its end.                                  *)
(***************************************************************************)
(* Mutant: settle() finds no variable.                                     *)
Outlived_Always(p) == TRUE

(* What settle() waits for, and for PATIENCE at the longest.               *)
Outlived(p) == at[after[p]] = "gone" \/ May("slow exit")

Settle(p) ==
  /\ at[p] = "settling" /\ Outlived(p)
  /\ Go(p, "asking")
  /\ UNCHANGED <<after, owner, line, serving, peer, tries, engine, secondary, ended, hung, world>>

Take(p) ==
  /\ owner' = p
  /\ line' = Fresh
  /\ serving' = "off"
  /\ Go(p, "opening")

Acquire(p) ==
  /\ at[p] = "asking"
  /\ \/ owner = Nobody /\ Take(p)
     \/ owner # Nobody /\ Go(p, "calling") /\ UNCHANGED <<owner, line, serving>>
  /\ UNCHANGED <<after, peer, tries, engine, secondary, ended, hung, world>>

(* A pipe that is gone, or one with a client in it or none awaited, cannot *)
(* be opened: Err(None), without a pid to terminate.                       *)
Open(p) ==
  /\ at[p] = "calling"
  /\ \/ /\ line.open
        /\ line' = [line EXCEPT !.open = FALSE, !.client = p]
        /\ peer' = [peer EXCEPT ![p] = owner]
        /\ Go(p, "writing")
     \/ ~line.open /\ Go(p, "claiming") /\ UNCHANGED <<line, peer>>
  /\ UNCHANGED <<after, owner, serving, tries, engine, secondary, ended, hung, world>>

(* The argument, its links with a line feed between them, and the byte     *)
(* that ends it, which is a line feed too.  write_all has no timeout: what *)
(* does not fit in the pipe waits for the owner to read.  Where there are  *)
(* several links the first line feed may be in the pipe and the rest not.  *)
Write(p) ==
  /\ at[p] = "writing" /\ line.client = p
  /\ line' = [line EXCEPT !.sent = TRUE]
  /\ \/ (May("long") => Serves /\ serving = "reading") /\ Go(p, "wrote")
     \/ May("long") /\ May("several") /\ ~line.sent /\ UNCHANGED at
  /\ UNCHANGED <<after, owner, serving, peer, tries, engine, secondary, ended, hung, world>>

Handed(p) ==
  /\ Go(p, "gone")
  /\ secondary' = secondary \cup {p}
  /\ line' = [line EXCEPT !.client = Nobody]

(* The thread that reads the acknowledgement has started.                  *)
Listen(p) ==
  /\ at[p] = "wrote" /\ line.client = p
  /\ IF line.acked THEN Handed(p)
     ELSE Go(p, "listening") /\ UNCHANGED <<line, secondary>>
  /\ UNCHANGED <<after, owner, serving, peer, tries, engine, ended, hung, world>>

(* "A healthy owner answers in milliseconds": ACK_TIMEOUT ends only with   *)
(* one that is stuck, still starting, or reading what does not come.       *)
Unanswering ==
  \/ ~Alive(owner)
  \/ May("slow start") /\ at[owner] = "opening"
  \/ serving = "reading" /\ ~line.sent

(* The other end is closed, or ACK_TIMEOUT is over: the thread that reads  *)
(* keeps its end open.                                                     *)
GiveUp(p) ==
  /\ \/ at[p] \in {"writing", "wrote", "listening"} /\ line.client # p
     \/ /\ at[p] \in {"wrote", "listening"} /\ line.client = p
        /\ Unanswering
  /\ Go(p, "ending")
  /\ UNCHANGED <<after, owner, line, serving, peer, tries, engine, secondary, ended, hung, world>>

(* What a process that is terminated could not do.                         *)
Excuse(q) ==
  CASE hung[q] = "all" -> "deaf"
    [] hung[q] # "all" /\ at[q] = "opening" -> "starting"
    [] OTHER -> "serving"

(* Mutant: a wedged owner is left running.                                 *)
Terminate_Spares(p) ==
  /\ at[p] = "ending"
  /\ Go(p, "claiming")
  /\ UNCHANGED <<after, owner, line, serving, peer, tries, engine, secondary, ended, hung, world>>

Terminate(p) ==
  /\ at[p] = "ending"
  /\ LET victim == peer[p] IN
       IF at[victim] = "gone"
         THEN Go(p, "claiming") /\ UNCHANGED ended
         ELSE /\ at' = [at EXCEPT ![p] = "claiming", ![victim] = "gone"]
              /\ ended' = ended \cup {<<victim, Excuse(victim)>>}
  /\ UNCHANGED <<after, owner, line, serving, peer, tries, engine, secondary, hung, world>>

(* CLAIM_ATTEMPTS, between which the system closes a dead owner's handle;  *)
(* after the last one this copy runs without the guard.                    *)
Claim(p) ==
  /\ at[p] = "claiming"
  /\ \/ owner = Nobody /\ Take(p) /\ UNCHANGED tries
     \/ /\ owner # Nobody /\ (at[owner] # "gone" \/ May("slow release"))
        /\ UNCHANGED <<owner, line, serving>>
        /\ IF tries[p] + 1 < ClaimAttempts
             THEN tries' = [tries EXCEPT ![p] = @ + 1] /\ UNCHANGED at
             ELSE Go(p, "opening") /\ UNCHANGED tries
  /\ UNCHANGED <<after, peer, engine, secondary, ended, hung, world>>

Given == IF May("several") THEN Links ELSE {1}

(* The engine starts and is sent what this process was launched with; the  *)
(* server thread starts, if there is a pipe.                               *)
Start(p) ==
  /\ at[p] = "opening" /\ Alive(p)
  /\ Go(p, "up")
  /\ engine' = [engine EXCEPT ![p] = @ \cup {p} \X Given]
  /\ serving' = IF owner = p THEN "waiting" ELSE serving
  /\ UNCHANGED <<after, owner, line, peer, tries, secondary, ended, hung, world>>

(* save_view and flush, and the end of the process with its threads.       *)
Leave(p) ==
  /\ at[p] = "leaving" /\ Alive(p)
  /\ Go(p, "gone")
  /\ UNCHANGED <<after, owner, line, serving, peer, tries, engine, secondary, ended, hung, world>>

(* The system closes the handles of a process that is gone.                *)
Release ==
  /\ owner # Nobody /\ at[owner] = "gone"
  /\ owner' = Nobody /\ line' = [Fresh EXCEPT !.open = FALSE] /\ serving' = "off"
  /\ UNCHANGED <<at, after, peer, tries, engine, secondary, ended, hung, world>>

(***************************************************************************)
(* The server thread, which runs until the process ends.                   *)
(***************************************************************************)
(* Also the client that was faster than the first call.                    *)
Connect ==
  /\ Serves /\ serving = "waiting" /\ line.client # Nobody
  /\ serving' = "reading"
  /\ UNCHANGED <<at, after, owner, line, peer, tries, engine, secondary, ended, hung, world>>

(* serve_one reads up to the first line feed, or until the client's end is *)
(* closed: of several links that is the first.                             *)
Arrived == line.sent \/ line.client = Nobody

(* on_arg: the links go to the engine, whatever the window does.           *)
Receive ==
  /\ Serves /\ serving = "reading" /\ Arrived
  /\ engine' = IF line.sent /\ line.client # Nobody
                 THEN [engine EXCEPT ![owner] = @ \cup {<<line.client, 1>>}] ELSE engine
  /\ serving' = "acking"
  /\ UNCHANGED <<at, after, owner, line, peer, tries, secondary, ended, hung, world>>

(* Mutant: the acknowledgement is written before the argument is taken.    *)
Acknowledges_First == serving \in {"reading", "acking"}

Acknowledges == serving = "acking"

(* A read that waits has its byte at once; otherwise it stays in the pipe. *)
Acknowledge ==
  /\ Serves /\ Acknowledges
  /\ LET c == line.client IN
       IF c # Nobody /\ at[c] = "listening" THEN Handed(c)
       ELSE /\ c # Nobody /\ at[c] = "wrote" => May("late")
            /\ line' = [line EXCEPT !.acked = TRUE]
            /\ UNCHANGED <<at, secondary>>
  /\ serving' = "parting"
  /\ UNCHANGED <<after, owner, peer, tries, engine, ended, hung, world>>

(* DisconnectNamedPipe, which drops what the client has not read.          *)
Disconnect ==
  /\ Serves /\ serving = "parting"
  /\ line' = [Fresh EXCEPT !.open = FALSE]
  /\ serving' = "between"
  /\ UNCHANGED <<at, after, owner, peer, tries, engine, secondary, ended, hung, world>>

Await ==
  /\ Serves /\ serving = "between"
  /\ line' = [line EXCEPT !.open = TRUE]
  /\ serving' = "waiting"
  /\ UNCHANGED <<at, after, owner, peer, tries, engine, secondary, ended, hung, world>>

Server == Connect \/ Receive \/ Acknowledge \/ Disconnect \/ Await

Step(p) ==
  \/ Settle(p) \/ Acquire(p) \/ Open(p) \/ Write(p) \/ Listen(p) \/ GiveUp(p)
  \/ Terminate(p) \/ Claim(p) \/ Start(p) \/ Leave(p)

User(p) ==
  \/ Launch(p) \/ Quit(p) \/ Die(p)
  \/ \E old \in Procs : Relaunch(old, p)
  \/ \E what \in {"window", "all"} : Hang(p, what)

Next == Release \/ Server \/ \E p \in Procs : Step(p) \/ User(p)

(* The system runs the threads of a process and closes the handles of a    *)
(* dead one; the timeouts of forward(), claim() and settle() end.          *)
Fairness == WF_vars(Release) /\ WF_vars(Server) /\ \A p \in Procs : WF_vars(Step(p))

Spec == Init /\ [][Next]_vars /\ Fairness

-----------------------------------------------------------------------------
Calm == world \cap {"together", "late", "slow start", "slow exit", "slow release", "midway", "dies"} = {}

(* "One process, however many times it is launched": two copies would      *)
(* write the same session and the same files.                              *)
OneProcess == Cardinality({p \in Procs : at[p] \in Running}) <= 1

(* It holds as long as launches come one at a time and nothing overruns a  *)
(* timeout: through takeovers, relaunches and exits.                       *)
OneProcessWhenCalm == Calm => OneProcess

(* A launch that ends because its argument was taken leaves it in an       *)
(* engine: the acknowledgement says "actually taken".  The engine may be   *)
(* that of a process on its way out, and of several links only the first   *)
(* is sure (EveryLinkIsHandedOver).                                        *)
HandedOver == \A p \in secondary : \E q \in Procs : <<p, 1>> \in engine[q]

(* "for source in arg.split('\n')" (main.rs): all its links.               *)
EveryLinkIsHandedOver ==
  \A p \in secondary, l \in Given : \E q \in Procs : <<p, l>> \in engine[q]

(* "The cost of guessing wrong is killing a live instance": a process that *)
(* serves is never terminated, unless its acknowledgement came late or was *)
(* dropped, or several links were more than the pipe holds: the owner      *)
(* reads the first and hangs up on the rest.                               *)
Overfull == {"long", "several"} \subseteq world

OnlyTheWedgedAreEnded ==
  \A e \in ended : e[2] = "serving" => world \cap {"late", "slow start"} # {} \/ Overfull

(* A launch that ends because its argument was taken leaves its first link *)
(* in an engine, and no process that serves is ended for it but in the     *)
(* worlds OnlyTheWedgedAreEnded names.                                     *)
LinksAreHandedOver == TypeOK /\ HandedOver /\ OnlyTheWedgedAreEnded

(* Every launch ends with a window of its own or with its argument taken,  *)
(* except one whose argument does not fit in the pipe of an owner that is  *)
(* stuck: write_all waits there for ever.  It is not said that a window    *)
(* appears: the thread that takes an argument lives on where the window    *)
(* hangs (HungIsReplaced).                                                 *)
HeldUp(p) == at[p] = "writing" /\ May("long") /\ line.client = p /\ hung[owner] = "all"

EveryLaunchIsAnswered ==
  \A p \in Procs : at[p] = "asking" ~> \/ at[p] = "up" \/ p \in secondary \/ hung[p] = "all"
                                       \/ HeldUp(p)
                                       \/ ~Calm /\ at[p] = "gone"

(* "Without that probe a hung process makes the app unlaunchable": with it *)
(* a launch comes to a window that works.                                  *)
HungIsReplaced ==
  \A p \in Procs : at[p] = "asking" ~> \E q \in Procs : at[q] = "up" /\ hung[q] = "no"

(* The build that replaced another one comes up: it is not sent away by    *)
(* the one it replaces.                                                    *)
UpdateComesUp ==
  \A p \in Procs : at[p] = "settling" ~> \/ at[p] = "up" \/ ~Calm
                                         \/ \E q \in Procs : q \in {p, after[p]} /\ hung[q] = "all"
=============================================================================
