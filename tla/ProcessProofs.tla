---------------------------- MODULE ProcessProofs ----------------------------
(***************************************************************************)
(* The process around the engine: its launches, its updates, its settings. *)
(*                                                                         *)
(* One process at a time, and no link lost on the way to it, for every     *)
(* number of launches, of attempts to take the pipe over, and whatever     *)
(* their world does to them.  Inv relates the pipe, the thread that serves *)
(* it and the client in it in every world.  CalmInv is what holds besides  *)
(* while launches come one at a time and nothing overruns a timeout:       *)
(* whoever runs has the pipe, and who is on the way to its place finds the *)
(* pipe open, or its owner gone.  UpdatesInv is of the button and the file *)
(* an update is staged in; SettingsInv of the memory, the file, the engine *)
(* and the window, which have the same settings.                           *)
(***************************************************************************)
EXTENDS Instance, Updates, Preferences, FiniteSetTheorems, TLAPS

(* A client that has opened the pipe.                                      *)
Called == {"writing", "wrote", "listening"}
(* The pipe that cannot be opened.                                         *)
Closed == [Fresh EXCEPT !.open = FALSE]
(* Some engine has the first link of the client.                           *)
Taken == \E q \in Procs : <<line.client, 1>> \in engine[q]

(* The pipe belongs to a process that has found its place; when nobody has *)
(* it, it is closed and nobody is served.                                  *)
OwnerRuns ==
  /\ owner # Nobody => at[owner] \in Running \cup {"gone"}
  /\ owner = Nobody => line = Closed /\ serving = "off"
  /\ owner # Nobody /\ at[owner] = "opening" => serving = "off"

(* A pipe that can be opened has nothing of an earlier client in it.       *)
LineIsClean ==
  /\ line.open => line = Fresh /\ serving \in {"off", "waiting"}
  /\ serving = "between" => line = Closed
  /\ line.acked => serving = "parting"
  /\ serving = "parting" /\ line.client # Nobody => line.acked
  /\ serving \in {"acking", "parting"} /\ line.client # Nobody => line.sent

ArgumentIsTaken ==
  serving \in {"acking", "parting"} /\ line.client # Nobody => Taken

(* What a client in the pipe has done, and whom it has read off it.  It    *)
(* is still writing after the first line only where there are several that *)
(* do not fit.                                                             *)
ClientIsKnown ==
  \A p \in Procs : line.client = p /\ at[p] \in Called =>
    /\ peer[p] = owner
    /\ at[p] # "writing" => line.sent
    /\ at[p] = "writing" /\ line.sent => Overfull
    /\ serving = "parting" => at[p] = "writing" \/ (at[p] = "wrote" /\ "late" \in world)
    /\ at[p] = "listening" => ~line.acked

PeerRan ==
  \A p \in Procs :
    /\ peer[p] # Nobody => at[peer[p]] \in Running \cup {"gone"}
    /\ at[p] \in Called \cup {"ending"} => peer[p] # Nobody

(* What excuses a client that gives up: the process it called cannot       *)
(* answer, its world is slow, or it was hung up on while it wrote.         *)
Wedged(p) ==
  \/ at[peer[p]] = "gone" \/ hung[peer[p]] = "all"
  \/ world \cap {"late", "slow start"} # {} \/ Overfull

GaveUp ==
  \A p \in Procs : at[p] = "ending" \/ (at[p] \in Called /\ line.client # p) => Wedged(p)

----------------------------------------------------------------------------
(* One launch at a time is on the way to its place.                        *)
Alone == \A p, q \in Procs : at[p] \in InFlight /\ at[q] \in InFlight => p = q
(* Whoever has found its place has the pipe.                               *)
OnlyOwnerRuns == \A p \in Procs : at[p] \in Running => owner = p
(* The client in the pipe has not found its place yet.                     *)
ClientInFlight == line.client # Nobody => at[line.client] \in Called \cup {"ending", "claiming"}
(* A process that sticks does so between two clients.                      *)
DeafWaits == owner # Nobody /\ hung[owner] = "all" => serving \in {"off", "waiting"}
(* A pipe that is served and free can be opened.                           *)
FreeIsOpen == owner # Nobody /\ serving \in {"off", "waiting"} /\ line.client = Nobody => line.open
(* Nobody has the pipe, or one whose handles are closed next.              *)
NoOwner == owner = Nobody \/ at[owner] = "gone"
(* A launch that asks, calls or is about to claim finds nobody in its way  *)
(* who would answer it.                                                    *)
WayIsFree ==
  \A p \in Procs :
    /\ at[p] \in {"settling", "asking", "calling"} => NoOwner \/ line.open
    /\ at[p] \in Called \cup {"ending"} => owner \in {Nobody, peer[p]}
    /\ at[p] = "claiming" => NoOwner
(* The inductive invariant of the calm worlds.                             *)
CalmInv == Calm => Alone /\ OnlyOwnerRuns /\ ClientInFlight /\ DeafWaits /\ FreeIsOpen /\ WayIsFree

(* The inductive invariant of every world; its last two parts are the      *)
(* property itself.                                                        *)
Inv ==
  /\ TypeOK /\ OwnerRuns /\ LineIsClean /\ ArgumentIsTaken /\ ClientIsKnown
  /\ PeerRan /\ GaveUp /\ HandedOver /\ OnlyTheWedgedAreEnded

----------------------------------------------------------------------------
(* Nobody is no process: processes are numbered from one.                  *)
LEMMA NobodyIsNone == Nobody \notin Procs
BY DEF Nobody, Procs

USE DEF Overfull

(* One attempt more, below the bound, stays within it.                     *)
LEMMA OneMore ==
  ASSUME NEW n \in Nat, NEW k \in 0 .. n, k + 1 < n
  PROVE  k + 1 \in 0 .. n
OBVIOUS

----------------------------------------------------------------------------
(* Taking a pipe that nobody has keeps the invariant: it is fresh, and no  *)
(* client is in it.                                                        *)
LEMMA TakeInv ==
  ASSUME Inv, NEW p \in Procs, at[p] \in {"asking", "claiming"}, owner = Nobody, Take(p),
         UNCHANGED <<after, peer, tries, engine, secondary, ended, hung, world>>
  PROVE  Inv'
<1> USE NobodyIsNone DEF Take, Go
<1>1. TypeOK'
  BY DEF Inv, TypeOK, Phases, Fresh
<1>2. OwnerRuns'
  BY DEF Inv, TypeOK, OwnerRuns, Running, Closed, Fresh
<1>3. LineIsClean'
  BY DEF Inv, TypeOK, LineIsClean, Closed, Fresh
<1>4. ArgumentIsTaken'
  BY DEF Inv, TypeOK, ArgumentIsTaken, Taken
<1>5. ClientIsKnown'
  BY DEF Inv, TypeOK, ClientIsKnown, Called, Running, Fresh, Closed, May
<1>6. PeerRan'
  BY DEF Inv, TypeOK, PeerRan, Called, Running
<1>7. GaveUp'
  <2> SUFFICES ASSUME NEW q \in Procs,
                      at'[q] = "ending" \/ (at'[q] \in Called /\ line'.client # q)
               PROVE  Wedged(q)'
    BY DEF GaveUp
  <2>1. line.client = Nobody
    BY DEF Inv, OwnerRuns, Closed, Fresh
  <2>2. /\ \A r \in Procs : at[r] = "gone" => at'[r] = "gone"
        /\ peer'[q] = peer[q] /\ world' = world /\ hung' = hung
    BY DEF Inv, TypeOK
  <2>3. q # p /\ at'[q] = at[q]
    BY DEF Inv, TypeOK, Called
  <2>4. Wedged(q) /\ peer[q] \in Procs
    BY <2>1, <2>3 DEF Inv, TypeOK, GaveUp, PeerRan, Called
  <2> QED BY <2>2, <2>4 DEF Wedged
<1>8. HandedOver'
  BY DEF Inv, TypeOK, HandedOver
<1>9. OnlyTheWedgedAreEnded'
  BY DEF Inv, TypeOK, OnlyTheWedgedAreEnded
<1> QED BY <1>1, <1>2, <1>3, <1>4, <1>5, <1>6, <1>7, <1>8, <1>9 DEF Inv

(* So does finding it taken.                                               *)
LEMMA AcquireTakenInv == ASSUME Inv, NEW p \in Procs, Acquire(p), owner # Nobody PROVE Inv'
<1> USE NobodyIsNone DEF Acquire, Go
<1>1. TypeOK'
  BY DEF Inv, TypeOK, Phases, Fresh
<1>2. OwnerRuns'
  BY DEF Inv, TypeOK, OwnerRuns, Running, Closed, Fresh
<1>3. LineIsClean'
  BY DEF Inv, TypeOK, LineIsClean
<1>4. ArgumentIsTaken'
  BY DEF Inv, TypeOK, ArgumentIsTaken, Taken
<1>5. ClientIsKnown'
  BY DEF Inv, TypeOK, ClientIsKnown
<1>6. PeerRan'
  BY DEF Inv, TypeOK, PeerRan, Called, Running
<1>7. GaveUp'
  <2> SUFFICES ASSUME NEW q \in Procs,
                      at'[q] = "ending" \/ (at'[q] \in Called /\ line'.client # q)
               PROVE  Wedged(q)'
    BY DEF GaveUp
  <2>1. /\ \A r \in Procs : at[r] = "gone" => at'[r] = "gone"
        /\ \A r \in Procs : hung[r] = "all" => hung'[r] = "all"
        /\ peer'[q] = peer[q] /\ world' = world
    BY DEF Inv, TypeOK
  <2>2. Wedged(q) /\ peer[q] \in Procs
    BY DEF Inv, TypeOK, GaveUp, PeerRan, Called
  <2> QED BY <2>1, <2>2 DEF Wedged
<1>8. HandedOver'
  BY DEF Inv, TypeOK, HandedOver
<1>9. OnlyTheWedgedAreEnded'
  BY DEF Inv, TypeOK, OnlyTheWedgedAreEnded
<1> QED BY <1>1, <1>2, <1>3, <1>4, <1>5, <1>6, <1>7, <1>8, <1>9 DEF Inv

(* So does acquire.                                                        *)
LEMMA AcquireInv == ASSUME Inv, NEW p \in Procs, Acquire(p) PROVE Inv'
<1>1. CASE owner = Nobody
  BY <1>1, TakeInv DEF Acquire
<1>2. CASE owner # Nobody
  BY <1>2, AcquireTakenInv
<1> QED BY <1>1, <1>2

(* So does an attempt to claim it that fails, and the last of them, after  *)
(* which the process runs without it.                                      *)
LEMMA ClaimTakenInv == ASSUME Inv, NEW p \in Procs, Claim(p), owner # Nobody PROVE Inv'
<1> USE NobodyIsNone DEF Claim, Go
<1>1. TypeOK'
  <2>1. /\ at' \in [Procs -> Phases]
        /\ \A q \in Procs : at'[q] # at[q] => at'[q] = "opening"
    BY DEF Inv, TypeOK, Phases
  <2>2. tries' \in [Procs -> 0 .. ClaimAttempts]
    <3>1. tries[p] \in 0 .. ClaimAttempts /\ ClaimAttempts \in Nat
      BY InstanceAssumption DEF Inv, TypeOK
    <3>2. tries[p] + 1 < ClaimAttempts => tries[p] + 1 \in 0 .. ClaimAttempts
      BY <3>1, OneMore
    <3>3. \/ tries' = tries
          \/ tries[p] + 1 < ClaimAttempts /\ tries' = [tries EXCEPT ![p] = tries[p] + 1]
      OBVIOUS
    <3> QED BY <3>2, <3>3 DEF Inv, TypeOK
  <2>3. line'.client # Nobody => at'[line'.client] \notin {"none", "settling", "asking", "calling"}
    BY <2>1 DEF Inv, TypeOK
  <2>4. /\ UNCHANGED <<after, owner, line, serving, peer, engine, secondary, ended, hung, world>>
    OBVIOUS
  <2> QED BY <2>1, <2>2, <2>3, <2>4 DEF Inv, TypeOK
<1>2. OwnerRuns'
  <2>1. owner # p
    BY DEF Inv, TypeOK, OwnerRuns, Running
  <2>2. owner \in Procs /\ at'[owner] = at[owner]
    BY <2>1 DEF Inv, TypeOK
  <2>3. owner' = owner /\ line' = line /\ serving' = serving
    OBVIOUS
  <2> QED BY <2>2, <2>3 DEF Inv, OwnerRuns
<1>3. LineIsClean' /\ OnlyTheWedgedAreEnded'
  BY DEF Inv, TypeOK, LineIsClean, OnlyTheWedgedAreEnded
<1>4. ArgumentIsTaken'
  BY DEF Inv, TypeOK, ArgumentIsTaken, Taken
<1>5. ClientIsKnown'
  BY DEF Inv, TypeOK, ClientIsKnown, Called, Running, Fresh, Closed, May
<1>6. PeerRan'
  BY DEF Inv, TypeOK, PeerRan, Called, Running
<1>7. GaveUp'
  <2> SUFFICES ASSUME NEW q \in Procs,
                      at'[q] = "ending" \/ (at'[q] \in Called /\ line'.client # q)
               PROVE  Wedged(q)'
    BY DEF GaveUp
  <2>1. /\ \A r \in Procs : at[r] = "gone" => at'[r] = "gone"
        /\ \A r \in Procs : hung[r] = "all" => hung'[r] = "all"
        /\ peer'[q] = peer[q] /\ world' = world
    BY DEF Inv, TypeOK
  <2>2. Wedged(q) /\ peer[q] \in Procs
    BY DEF Inv, TypeOK, GaveUp, PeerRan, Called
  <2> QED BY <2>1, <2>2 DEF Wedged
<1>8. HandedOver'
  BY DEF Inv, TypeOK, HandedOver
<1> QED BY <1>1, <1>2, <1>3, <1>4, <1>5, <1>6, <1>7, <1>8 DEF Inv

(* So does claim.                                                          *)
LEMMA ClaimInv == ASSUME Inv, NEW p \in Procs, Claim(p) PROVE Inv'
<1>1. CASE owner = Nobody
  BY <1>1, TakeInv DEF Claim
<1>2. CASE owner # Nobody
  BY <1>2, ClaimTakenInv
<1> QED BY <1>1, <1>2

----------------------------------------------------------------------------
(* So does a launch.                                                       *)
LEMMA LaunchInv == ASSUME Inv, NEW p \in Procs, Launch(p) PROVE Inv'
<1> USE NobodyIsNone DEF Launch, Go, Next_, InFlight
<1>1. TypeOK'
  BY DEF Inv, TypeOK, Phases, Fresh
<1>2. OwnerRuns'
  BY DEF Inv, TypeOK, OwnerRuns, Running, Closed, Fresh
<1>3. LineIsClean' /\ ClientIsKnown' /\ OnlyTheWedgedAreEnded'
  BY DEF Inv, TypeOK, LineIsClean, ClientIsKnown, OnlyTheWedgedAreEnded
<1>4. ArgumentIsTaken'
  BY DEF Inv, TypeOK, ArgumentIsTaken, Taken
<1>5. PeerRan'
  BY DEF Inv, TypeOK, PeerRan, Called, Running
<1>6. GaveUp'
  BY DEF Inv, TypeOK, OwnerRuns, LineIsClean, ClientIsKnown, PeerRan, GaveUp, Wedged, Called,
     Running, Fresh, Closed, May
<1>7. HandedOver'
  BY DEF Inv, TypeOK, HandedOver
<1> QED BY <1>1, <1>2, <1>3, <1>4, <1>5, <1>6, <1>7 DEF Inv

(* So does a replacement that is started.                                  *)
LEMMA RelaunchInv == ASSUME Inv, NEW old \in Procs, NEW p \in Procs, Relaunch(old, p) PROVE Inv'
<1> USE NobodyIsNone DEF Relaunch, Next_
<1>1. TypeOK'
  BY DEF Inv, TypeOK, Phases, Fresh
<1>2. OwnerRuns'
  BY DEF Inv, TypeOK, OwnerRuns, Running, Closed, Fresh
<1>3. LineIsClean' /\ OnlyTheWedgedAreEnded'
  BY DEF Inv, TypeOK, LineIsClean, OnlyTheWedgedAreEnded
<1>4. ArgumentIsTaken'
  BY DEF Inv, TypeOK, ArgumentIsTaken, Taken
<1>5. ClientIsKnown'
  BY DEF Inv, TypeOK, ClientIsKnown, Called, Running, Fresh, Closed, May
<1>6. PeerRan'
  BY DEF Inv, TypeOK, PeerRan, Called, Running
<1>7. GaveUp'
  <2> SUFFICES ASSUME NEW q \in Procs,
                      at'[q] = "ending" \/ (at'[q] \in Called /\ line'.client # q)
               PROVE  Wedged(q)'
    BY DEF GaveUp
  <2>1. /\ \A r \in Procs : at[r] = "gone" => at'[r] = "gone"
        /\ \A r \in Procs : hung[r] = "all" => hung'[r] = "all"
        /\ peer'[q] = peer[q] /\ world' = world
    BY DEF Inv, TypeOK
  <2>2. Wedged(q) /\ peer[q] \in Procs
    BY DEF Inv, TypeOK, GaveUp, PeerRan, Called
  <2> QED BY <2>1, <2>2 DEF Wedged
<1>8. HandedOver'
  BY DEF Inv, TypeOK, HandedOver
<1> QED BY <1>1, <1>2, <1>3, <1>4, <1>5, <1>6, <1>7, <1>8 DEF Inv

(* So does the end of the event loop.                                      *)
LEMMA QuitInv == ASSUME Inv, NEW p \in Procs, Quit(p) PROVE Inv'
<1> USE NobodyIsNone DEF Quit, Go
<1>1. TypeOK'
  BY DEF Inv, TypeOK, Phases, Fresh
<1>2. OwnerRuns'
  BY DEF Inv, TypeOK, OwnerRuns, Running, Closed, Fresh
<1>3. LineIsClean' /\ OnlyTheWedgedAreEnded'
  BY DEF Inv, TypeOK, LineIsClean, OnlyTheWedgedAreEnded
<1>4. ArgumentIsTaken'
  BY DEF Inv, TypeOK, ArgumentIsTaken, Taken
<1>5. ClientIsKnown'
  BY DEF Inv, TypeOK, ClientIsKnown, Called, Running, Fresh, Closed, May
<1>6. PeerRan'
  BY DEF Inv, TypeOK, PeerRan, Called, Running
<1>7. GaveUp'
  BY DEF Inv, TypeOK, OwnerRuns, LineIsClean, ClientIsKnown, PeerRan, GaveUp, Wedged, Called,
     Running, Fresh, Closed, May
<1>8. HandedOver'
  BY DEF Inv, TypeOK, HandedOver
<1> QED BY <1>1, <1>2, <1>3, <1>4, <1>5, <1>6, <1>7, <1>8 DEF Inv

(* So does a process that sticks.                                          *)
LEMMA HangInv == ASSUME Inv, NEW p \in Procs, NEW what \in {"window", "all"}, Hang(p, what) PROVE Inv'
<1> USE NobodyIsNone DEF Hang, Running
<1>1. TypeOK'
  BY DEF Inv, TypeOK
<1>2. /\ OwnerRuns' /\ LineIsClean' /\ ClientIsKnown' /\ PeerRan'
      /\ OnlyTheWedgedAreEnded'
  BY DEF Inv, TypeOK, OwnerRuns, LineIsClean, ClientIsKnown, PeerRan, OnlyTheWedgedAreEnded
<1>3. ArgumentIsTaken'
  BY DEF Inv, TypeOK, ArgumentIsTaken, Taken
<1>4. GaveUp'
  BY DEF Inv, TypeOK, OwnerRuns, LineIsClean, ClientIsKnown, PeerRan, GaveUp, Wedged, Called,
     Running, Fresh, Closed, May
<1>5. HandedOver'
  BY DEF Inv, TypeOK, HandedOver
<1> QED BY <1>1, <1>2, <1>3, <1>4, <1>5 DEF Inv

(* So does a launch that is killed: its end of the pipe closes.            *)
LEMMA DieInv == ASSUME Inv, NEW p \in Procs, Die(p) PROVE Inv'
<1> USE NobodyIsNone DEF Die, Go, InFlight
<1>1. TypeOK'
  BY DEF Inv, TypeOK, Phases, Fresh
<1>2. OwnerRuns'
  BY DEF Inv, TypeOK, OwnerRuns, Running, Closed, Fresh
<1>3. LineIsClean'
  <2>1. CASE line.client = p
    <3>1. /\ line' = [line EXCEPT !.client = Nobody] /\ ~line.open
          /\ serving # "between"
      BY <2>1 DEF Inv, LineIsClean, Fresh, Closed
    <3> QED BY <3>1 DEF Inv, TypeOK, LineIsClean
  <2>2. CASE line.client # p
    BY <2>2 DEF Inv, LineIsClean
  <2> QED BY <2>1, <2>2
<1>4. ArgumentIsTaken'
  BY DEF Inv, TypeOK, ArgumentIsTaken, Taken
<1>5. ClientIsKnown' /\ OnlyTheWedgedAreEnded'
  BY DEF Inv, TypeOK, ClientIsKnown, OnlyTheWedgedAreEnded
<1>6. PeerRan'
  BY DEF Inv, TypeOK, PeerRan, Called, Running
<1>7. GaveUp'
  BY DEF Inv, TypeOK, OwnerRuns, LineIsClean, ClientIsKnown, PeerRan, GaveUp, Wedged, Called,
     Running, Fresh, Closed, May
<1>8. HandedOver'
  BY DEF Inv, TypeOK, HandedOver
<1> QED BY <1>1, <1>2, <1>3, <1>4, <1>5, <1>6, <1>7, <1>8 DEF Inv

(* So does a replacement that outlived the one before, or its patience.    *)
LEMMA SettleInv == ASSUME Inv, NEW p \in Procs, Settle(p) PROVE Inv'
<1> USE NobodyIsNone DEF Settle, Go
<1>1. TypeOK'
  BY DEF Inv, TypeOK, Phases, Fresh
<1>2. OwnerRuns'
  BY DEF Inv, TypeOK, OwnerRuns, Running, Closed, Fresh
<1>3. LineIsClean' /\ ClientIsKnown' /\ OnlyTheWedgedAreEnded'
  BY DEF Inv, TypeOK, LineIsClean, ClientIsKnown, OnlyTheWedgedAreEnded
<1>4. ArgumentIsTaken'
  BY DEF Inv, TypeOK, ArgumentIsTaken, Taken
<1>5. PeerRan'
  BY DEF Inv, TypeOK, PeerRan, Called, Running
<1>6. GaveUp'
  BY DEF Inv, TypeOK, OwnerRuns, LineIsClean, ClientIsKnown, PeerRan, GaveUp, Wedged, Called,
     Running, Fresh, Closed, May
<1>7. HandedOver'
  BY DEF Inv, TypeOK, HandedOver
<1> QED BY <1>1, <1>2, <1>3, <1>4, <1>5, <1>6, <1>7 DEF Inv

----------------------------------------------------------------------------
(* So does a call: the pipe that is open is fresh, so nothing of an        *)
(* earlier client is in it.                                                *)
LEMMA OpenInv == ASSUME Inv, NEW p \in Procs, Open(p) PROVE Inv'
<1> USE NobodyIsNone DEF Open, Go
<1>1. TypeOK'
  <2>1. at' \in [Procs -> Phases]
    BY DEF Inv, TypeOK, Phases
  <2>2. /\ line' \in [open : BOOLEAN, client : Procs \cup {Nobody}, sent : BOOLEAN, acked : BOOLEAN]
        /\ line'.open => owner' # Nobody
    BY DEF Inv, TypeOK
  <2>3. peer' \in [Procs -> Procs \cup {Nobody}]
    BY DEF Inv, TypeOK
  <2>4. line'.client # Nobody => at'[line'.client] \notin {"none", "settling", "asking", "calling"}
    BY <2>1 DEF Inv, TypeOK
  <2> QED BY <2>1, <2>2, <2>3, <2>4 DEF Inv, TypeOK
<1>2. OwnerRuns'
  BY DEF Inv, TypeOK, OwnerRuns, Running, Closed, Fresh
<1>3. LineIsClean' /\ OnlyTheWedgedAreEnded'
  BY DEF Inv, TypeOK, LineIsClean, OnlyTheWedgedAreEnded
<1>4. ArgumentIsTaken'
  BY DEF Inv, TypeOK, LineIsClean, OwnerRuns, ArgumentIsTaken, Taken, Fresh, Closed
<1>5. ClientIsKnown'
  <2>1. CASE line.open
    <3>1. /\ line = Fresh /\ serving \in {"off", "waiting"}
      BY <2>1 DEF Inv, LineIsClean
    <3>2. /\ line' = [Fresh EXCEPT !.open = FALSE, !.client = p]
          /\ peer' = [peer EXCEPT ![p] = owner]
          /\ at' = [at EXCEPT ![p] = "writing"]
          /\ serving' = serving /\ owner' = owner
      BY <2>1, <3>1
    <3>3. line'.client = p /\ ~line'.sent /\ ~line'.acked
      BY <3>2 DEF Fresh
    <3>4. at'[p] = "writing" /\ peer'[p] = owner /\ serving' # "parting"
      BY <3>1, <3>2 DEF Inv, TypeOK
    <3> QED BY <3>2, <3>3, <3>4 DEF ClientIsKnown
  <2>2. CASE ~line.open
    <3>1. /\ at' = [at EXCEPT ![p] = "claiming"] /\ UNCHANGED <<line, peer, owner, serving, world>>
      BY <2>2
    <3> QED BY <3>1 DEF Inv, TypeOK, ClientIsKnown, Called
  <2> QED BY <2>1, <2>2
<1>6. PeerRan'
  BY DEF Inv, TypeOK, OwnerRuns, PeerRan, Called, Running
<1>7. GaveUp'
  <2> SUFFICES ASSUME NEW q \in Procs,
                      at'[q] = "ending" \/ (at'[q] \in Called /\ line'.client # q)
               PROVE  Wedged(q)'
    BY DEF GaveUp
  <2>1. /\ q # p /\ at'[q] = at[q] /\ peer'[q] = peer[q]
        /\ hung' = hung /\ world' = world
    <3>1. at'[p] = "claiming" \/ (at'[p] = "writing" /\ line'.client = p)
      BY DEF Inv, TypeOK
    <3>2. q # p
      BY <3>1 DEF Called
    <3> QED BY <3>2 DEF Inv, TypeOK
  <2>2. line.open => line.client = Nobody
    BY DEF Inv, LineIsClean, Fresh
  <2>3. Wedged(q) /\ peer[q] \in Procs
    BY <2>1, <2>2 DEF Inv, TypeOK, GaveUp, PeerRan
  <2>4. at'[peer[q]] = at[peer[q]]
    BY <2>1, <2>3 DEF Inv, TypeOK, PeerRan, Running
  <2> QED BY <2>1, <2>3, <2>4 DEF Wedged
<1>8. HandedOver'
  BY DEF Inv, TypeOK, HandedOver
<1> QED BY <1>1, <1>2, <1>3, <1>4, <1>5, <1>6, <1>7, <1>8 DEF Inv

(* So does the argument.                                                   *)
LEMMA WriteInv == ASSUME Inv, NEW p \in Procs, Write(p) PROVE Inv'
<1> USE NobodyIsNone DEF Write, Go
<1>1. TypeOK'
  BY DEF Inv, TypeOK, Phases, Fresh
<1>2. OwnerRuns'
  BY DEF Inv, TypeOK, OwnerRuns, Running, Closed, Fresh
<1>3. LineIsClean'
  BY DEF Inv, TypeOK, LineIsClean, Closed, Fresh
<1>4. ArgumentIsTaken'
  BY DEF Inv, TypeOK, ArgumentIsTaken, Taken
<1>5. ClientIsKnown'
  <2>1. /\ line'.client = p /\ line'.sent /\ line'.acked = line.acked
        /\ peer'[p] = owner' /\ serving' = serving
    BY DEF Inv, TypeOK, ClientIsKnown, Called
  <2>2. serving # "parting"
    <3>1. serving = "parting" => line.sent /\ Overfull
      BY DEF Inv, LineIsClean, ClientIsKnown, Called
    <3> QED BY <3>1 DEF May
  <2>3. ~line.acked
    BY <2>2 DEF Inv, LineIsClean
  <2>4. at'[p] = "wrote" \/ (at'[p] = "writing" /\ Overfull')
    BY DEF Inv, TypeOK, May
  <2> QED BY <2>1, <2>2, <2>3, <2>4 DEF ClientIsKnown
<1>6. PeerRan'
  BY DEF Inv, TypeOK, PeerRan, Called, Running
<1>7. GaveUp'
  <2> SUFFICES ASSUME NEW q \in Procs,
                      at'[q] = "ending" \/ (at'[q] \in Called /\ line'.client # q)
               PROVE  Wedged(q)'
    BY DEF GaveUp
  <2>1. /\ \A r \in Procs : at[r] = "gone" => at'[r] = "gone"
        /\ \A r \in Procs : hung[r] = "all" => hung'[r] = "all"
        /\ peer'[q] = peer[q] /\ world' = world
    BY DEF Inv, TypeOK
  <2>2. Wedged(q) /\ peer[q] \in Procs
    BY DEF Inv, TypeOK, GaveUp, PeerRan, Called
  <2> QED BY <2>1, <2>2 DEF Wedged
<1>8. HandedOver'
  BY DEF Inv, TypeOK, HandedOver
<1>9. OnlyTheWedgedAreEnded'
  BY DEF Inv, TypeOK, OnlyTheWedgedAreEnded
<1> QED BY <1>1, <1>2, <1>3, <1>4, <1>5, <1>6, <1>7, <1>8, <1>9 DEF Inv

(* So does the wait for the acknowledgement: where it is there already,    *)
(* the argument was taken before.                                          *)
LEMMA ListenInv == ASSUME Inv, NEW p \in Procs, Listen(p) PROVE Inv'
<1> USE NobodyIsNone DEF Listen, Go, Handed
<1>1. TypeOK'
  BY DEF Inv, TypeOK, Phases, Fresh
<1>2. OwnerRuns'
  BY DEF Inv, TypeOK, OwnerRuns, Running, Closed, Fresh
<1>3. LineIsClean' /\ OnlyTheWedgedAreEnded'
  BY DEF Inv, TypeOK, LineIsClean, OnlyTheWedgedAreEnded
<1>4. ArgumentIsTaken'
  BY DEF Inv, TypeOK, ArgumentIsTaken, Taken
<1>5. ClientIsKnown'
  BY DEF Inv, TypeOK, OwnerRuns, LineIsClean, ClientIsKnown, Called, Running, Fresh, Closed, May
<1>6. PeerRan'
  BY DEF Inv, TypeOK, PeerRan, Called, Running
<1>7. GaveUp'
  <2> SUFFICES ASSUME NEW q \in Procs,
                      at'[q] = "ending" \/ (at'[q] \in Called /\ line'.client # q)
               PROVE  Wedged(q)'
    BY DEF GaveUp
  <2>1. /\ \A r \in Procs : at[r] = "gone" => at'[r] = "gone"
        /\ \A r \in Procs : hung[r] = "all" => hung'[r] = "all"
        /\ peer'[q] = peer[q] /\ world' = world
    BY DEF Inv, TypeOK
  <2>2. Wedged(q) /\ peer[q] \in Procs
    BY DEF Inv, TypeOK, GaveUp, PeerRan, Called, Called
  <2> QED BY <2>1, <2>2 DEF Wedged
<1>8. HandedOver'
  BY DEF Inv, TypeOK, LineIsClean, ArgumentIsTaken, Taken, HandedOver
<1> QED BY <1>1, <1>2, <1>3, <1>4, <1>5, <1>6, <1>7, <1>8 DEF Inv

(* So does giving up: the owner cannot answer, or its world is slow.       *)
LEMMA GiveUpInv == ASSUME Inv, NEW p \in Procs, GiveUp(p) PROVE Inv'
<1> USE NobodyIsNone DEF GiveUp, Go, Unanswering, Alive
<1>1. TypeOK'
  BY DEF Inv, TypeOK, Phases, Fresh
<1>2. OwnerRuns'
  BY DEF Inv, TypeOK, OwnerRuns, Running, Closed, Fresh
<1>3. LineIsClean' /\ OnlyTheWedgedAreEnded'
  BY DEF Inv, TypeOK, LineIsClean, OnlyTheWedgedAreEnded
<1>4. ArgumentIsTaken'
  BY DEF Inv, TypeOK, ArgumentIsTaken, Taken
<1>5. ClientIsKnown'
  BY DEF Inv, TypeOK, ClientIsKnown, Called, Running, Fresh, Closed, May
<1>6. PeerRan'
  BY DEF Inv, TypeOK, PeerRan, Called, Running
<1>7. GaveUp'
  <2> SUFFICES ASSUME NEW q \in Procs,
                      at'[q] = "ending" \/ (at'[q] \in Called /\ line'.client # q)
               PROVE  Wedged(q)'
    BY DEF GaveUp
  <2>1. /\ \A r \in Procs : at[r] = "gone" => at'[r] = "gone"
        /\ hung' = hung /\ peer' = peer /\ world' = world
    BY DEF Inv, TypeOK
  <2>2. at[q] \in Called \cup {"ending"} /\ peer[q] \in Procs
    BY DEF Inv, TypeOK, PeerRan, Called
  <2>3. CASE at[q] = "ending" \/ line.client # q
    <3>1. Wedged(q)
      BY <2>2, <2>3 DEF Inv, GaveUp
    <3> QED BY <2>1, <2>2, <3>1 DEF Wedged
  <2>4. CASE at[q] # "ending" /\ line.client = q
    <3>1. q = p /\ at[p] \in {"wrote", "listening"} /\ Unanswering /\ at[p] \in Called
      BY <2>2, <2>4 DEF Inv, TypeOK, Called
    <3>2. peer[q] = owner /\ line.sent
      BY <2>4, <3>1 DEF Inv, ClientIsKnown
    <3>3. at[owner] \in Running \cup {"gone"} /\ owner # Nobody
      BY <2>2, <3>2 DEF Inv, OwnerRuns, TypeOK
    <3>4. Wedged(q)
      BY <3>1, <3>2, <3>3 DEF Wedged, Running, May
    <3> QED BY <2>1, <2>2, <3>4 DEF Wedged
  <2> QED BY <2>3, <2>4
<1>8. HandedOver'
  BY DEF Inv, TypeOK, HandedOver
<1> QED BY <1>1, <1>2, <1>3, <1>4, <1>5, <1>6, <1>7, <1>8 DEF Inv

(* So does the termination of the process that did not answer: what        *)
(* excuses it is what made the client give up.                             *)
LEMMA TerminateInv == ASSUME Inv, NEW p \in Procs, Terminate(p) PROVE Inv'
<1> USE NobodyIsNone DEF Terminate, Go
<1>1. TypeOK'
  <2>1. peer[p] \in Procs /\ peer[p] # p
    BY DEF Inv, TypeOK, PeerRan, Running
  <2>2. at' \in [Procs -> Phases]
    BY <2>1 DEF Inv, TypeOK, Phases
  <2>3. ended' \subseteq Procs \X {"deaf", "starting", "serving"}
    BY <2>1 DEF Inv, TypeOK, Excuse
  <2>4. line.client # Nobody => at'[line.client] \notin {"none", "settling", "asking", "calling"}
    BY <2>1 DEF Inv, TypeOK
  <2> QED BY <2>2, <2>3, <2>4 DEF Inv, TypeOK
<1>2. OwnerRuns'
  BY DEF Inv, TypeOK, OwnerRuns, Running, Closed, Fresh
<1>3. LineIsClean'
  BY DEF Inv, TypeOK, LineIsClean
<1>4. ArgumentIsTaken'
  BY DEF Inv, TypeOK, ArgumentIsTaken, Taken
<1>5. ClientIsKnown'
  BY DEF Inv, TypeOK, ClientIsKnown, Called, Running, Fresh, Closed, May
<1>6. PeerRan'
  BY DEF Inv, TypeOK, PeerRan, Called, Running
<1>7. GaveUp'
  <2> SUFFICES ASSUME NEW q \in Procs,
                      at'[q] = "ending" \/ (at'[q] \in Called /\ line'.client # q)
               PROVE  Wedged(q)'
    BY DEF GaveUp
  <2>1. /\ \A r \in Procs : at[r] = "gone" => at'[r] = "gone"
        /\ \A r \in Procs : hung[r] = "all" => hung'[r] = "all"
        /\ peer'[q] = peer[q] /\ world' = world
    BY DEF Inv, TypeOK
  <2>2. Wedged(q) /\ peer[q] \in Procs
    BY DEF Inv, TypeOK, GaveUp, PeerRan, Called
  <2> QED BY <2>1, <2>2 DEF Wedged
<1>8. HandedOver'
  BY DEF Inv, TypeOK, HandedOver
<1>9. OnlyTheWedgedAreEnded'
  <2>1. peer[p] \in Procs /\ Wedged(p)
    BY DEF Inv, TypeOK, PeerRan, GaveUp
  <2>2. at[peer[p]] # "gone" /\ world \cap {"late", "slow start"} = {} /\ ~Overfull
          => Excuse(peer[p]) = "deaf"
    BY <2>1 DEF Wedged, Excuse
  <2>3. world' = world /\ (ended' = ended \/ (at[peer[p]] # "gone" /\ ended' = ended \cup {<<peer[p], Excuse(peer[p])>>}))
    OBVIOUS
  <2>4. \A e \in ended : e[2] = "serving" => world \cap {"late", "slow start"} # {} \/ Overfull
    BY DEF Inv, OnlyTheWedgedAreEnded
  <2>5. at[peer[p]] # "gone" /\ <<peer[p], Excuse(peer[p])>>[2] = "serving"
          => world \cap {"late", "slow start"} # {} \/ Overfull
    BY <2>2
  <2> QED BY <2>3, <2>4, <2>5 DEF OnlyTheWedgedAreEnded
<1> QED BY <1>1, <1>2, <1>3, <1>4, <1>5, <1>6, <1>7, <1>8, <1>9 DEF Inv

(* So does the start of the engine and of the server thread.               *)
LEMMA StartInv == ASSUME Inv, NEW p \in Procs, Start(p) PROVE Inv'
<1> USE NobodyIsNone DEF Start, Go, Given, Links
<1>1. TypeOK'
  BY DEF Inv, TypeOK, Phases, Fresh
<1>2. OwnerRuns'
  BY DEF Inv, TypeOK, OwnerRuns, Running, Closed, Fresh
<1>3. LineIsClean'
  BY DEF Inv, TypeOK, OwnerRuns, LineIsClean, Closed, Fresh
<1>4. ArgumentIsTaken'
  BY DEF Inv, TypeOK, ArgumentIsTaken, Taken
<1>5. ClientIsKnown'
  BY DEF Inv, TypeOK, ClientIsKnown, Called, Running, Fresh, Closed, May
<1>6. PeerRan'
  BY DEF Inv, TypeOK, PeerRan, Called, Running
<1>7. GaveUp'
  BY DEF Inv, TypeOK, OwnerRuns, LineIsClean, ClientIsKnown, PeerRan, GaveUp, Wedged, Called,
     Running, Fresh, Closed, May
<1>8. HandedOver'
  BY DEF Inv, TypeOK, HandedOver
<1>9. OnlyTheWedgedAreEnded'
  BY DEF Inv, TypeOK, OnlyTheWedgedAreEnded
<1> QED BY <1>1, <1>2, <1>3, <1>4, <1>5, <1>6, <1>7, <1>8, <1>9 DEF Inv

(* So does the end of a process.                                           *)
LEMMA LeaveInv == ASSUME Inv, NEW p \in Procs, Leave(p) PROVE Inv'
<1> USE NobodyIsNone DEF Leave, Go
<1>1. TypeOK'
  BY DEF Inv, TypeOK, Phases, Fresh
<1>2. OwnerRuns' /\ LineIsClean' /\ OnlyTheWedgedAreEnded'
  BY DEF Inv, TypeOK, OwnerRuns, LineIsClean, OnlyTheWedgedAreEnded
<1>3. ArgumentIsTaken'
  BY DEF Inv, TypeOK, ArgumentIsTaken, Taken
<1>4. ClientIsKnown'
  BY DEF Inv, TypeOK, ClientIsKnown, Called, Running, Fresh, Closed, May
<1>5. PeerRan'
  BY DEF Inv, TypeOK, PeerRan, Called, Running
<1>6. GaveUp'
  BY DEF Inv, TypeOK, OwnerRuns, LineIsClean, ClientIsKnown, PeerRan, GaveUp, Wedged, Called,
     Running, Fresh, Closed, May
<1>7. HandedOver'
  BY DEF Inv, TypeOK, HandedOver
<1> QED BY <1>1, <1>2, <1>3, <1>4, <1>5, <1>6, <1>7 DEF Inv

----------------------------------------------------------------------------
(* So does the system, which closes the handles of one that is gone.       *)
LEMMA ReleaseInv == ASSUME Inv, Release PROVE Inv'
<1> USE NobodyIsNone DEF Release
<1>1. TypeOK'
  BY DEF Inv, TypeOK, Phases, Fresh
<1>2. OwnerRuns'
  BY DEF Inv, TypeOK, OwnerRuns, Running, Closed, Fresh
<1>3. LineIsClean'
  BY DEF Inv, TypeOK, LineIsClean, Closed, Fresh
<1>4. ArgumentIsTaken'
  BY DEF Inv, TypeOK, ArgumentIsTaken, Taken
<1>5. ClientIsKnown'
  BY DEF Inv, TypeOK, ClientIsKnown, Called, Running, Fresh, Closed, May
<1>6. PeerRan' /\ OnlyTheWedgedAreEnded'
  BY DEF Inv, TypeOK, PeerRan, OnlyTheWedgedAreEnded
<1>7. GaveUp'
  BY DEF Inv, TypeOK, OwnerRuns, LineIsClean, ClientIsKnown, PeerRan, GaveUp, Wedged, Called,
     Running, Fresh, Closed, May
<1>8. HandedOver'
  BY DEF Inv, TypeOK, HandedOver
<1> QED BY <1>1, <1>2, <1>3, <1>4, <1>5, <1>6, <1>7, <1>8 DEF Inv

(* So does a client that is met.                                           *)
LEMMA ConnectInv == ASSUME Inv, Connect PROVE Inv'
<1> USE NobodyIsNone DEF Connect, Serves
<1>1. TypeOK'
  BY DEF Inv, TypeOK
<1>2. OwnerRuns' /\ ClientIsKnown' /\ PeerRan' /\ OnlyTheWedgedAreEnded'
  BY DEF Inv, TypeOK, OwnerRuns, ClientIsKnown, PeerRan, OnlyTheWedgedAreEnded
<1>3. LineIsClean'
  BY DEF Inv, TypeOK, LineIsClean, Closed, Fresh
<1>4. ArgumentIsTaken'
  BY DEF Inv, TypeOK, ArgumentIsTaken, Taken
<1>5. GaveUp'
  BY DEF Inv, TypeOK, GaveUp, Wedged
<1>6. HandedOver'
  BY DEF Inv, TypeOK, HandedOver
<1> QED BY <1>1, <1>2, <1>3, <1>4, <1>5, <1>6 DEF Inv

(* So does its argument, which goes to the engine before anything is       *)
(* acknowledged.                                                           *)
LEMMA ReceiveInv == ASSUME Inv, Receive PROVE Inv'
<1> USE NobodyIsNone DEF Receive, Serves, Arrived, Links
<1>1. TypeOK'
  BY DEF Inv, TypeOK
<1>2. /\ OwnerRuns' /\ LineIsClean' /\ ClientIsKnown' /\ PeerRan'
      /\ OnlyTheWedgedAreEnded'
  BY DEF Inv, TypeOK, OwnerRuns, LineIsClean, ClientIsKnown, PeerRan, OnlyTheWedgedAreEnded
<1>3. ArgumentIsTaken'
  BY DEF Inv, TypeOK, ArgumentIsTaken, Taken
<1>4. GaveUp'
  BY DEF Inv, TypeOK, GaveUp, Wedged
<1>5. HandedOver'
  BY DEF Inv, TypeOK, HandedOver
<1> QED BY <1>1, <1>2, <1>3, <1>4, <1>5 DEF Inv

(* So does the acknowledgement: a client that hears it has its argument    *)
(* in an engine.                                                           *)
LEMMA AcknowledgeInv == ASSUME Inv, Acknowledge PROVE Inv'
<1> USE NobodyIsNone DEF Acknowledge, Go, Serves, Acknowledges, Handed
<1>1. TypeOK'
  <2>1. /\ at' \in [Procs -> Phases]
        /\ \A q \in Procs : at'[q] # at[q] => at'[q] = "gone"
    BY DEF Inv, TypeOK, Phases
  <2>2. /\ line' \in [open : BOOLEAN, client : Procs \cup {Nobody}, sent : BOOLEAN, acked : BOOLEAN]
        /\ line'.open = line.open /\ line'.client \in {line.client, Nobody}
    <3>1. line' \in {[line EXCEPT !.client = Nobody], [line EXCEPT !.acked = TRUE]}
      BY DEF Handed
    <3>2. line \in [open : BOOLEAN, client : Procs \cup {Nobody}, sent : BOOLEAN, acked : BOOLEAN]
      BY DEF Inv, TypeOK
    <3> HIDE DEF Acknowledge
    <3> QED BY <3>1, <3>2
  <2>3. line'.client # Nobody => at'[line'.client] \notin {"none", "settling", "asking", "calling"}
    BY <2>1, <2>2 DEF Inv, TypeOK
  <2>4. secondary' \subseteq Procs /\ serving' = "parting"
    BY DEF Inv, TypeOK
  <2> QED BY <2>1, <2>2, <2>3, <2>4 DEF Inv, TypeOK
<1>2. OwnerRuns' /\ LineIsClean' /\ OnlyTheWedgedAreEnded'
  BY DEF Inv, TypeOK, OwnerRuns, LineIsClean, OnlyTheWedgedAreEnded
<1>3. ArgumentIsTaken'
  BY DEF Inv, TypeOK, ArgumentIsTaken, Taken
<1>4. ClientIsKnown'
  BY DEF Inv, TypeOK, OwnerRuns, LineIsClean, ClientIsKnown, Called, Running, Fresh, Closed, May
<1>5. PeerRan'
  BY DEF Inv, TypeOK, PeerRan, Called, Running
<1>6. GaveUp'
  <2> SUFFICES ASSUME NEW q \in Procs,
                      at'[q] = "ending" \/ (at'[q] \in Called /\ line'.client # q)
               PROVE  Wedged(q)'
    BY DEF GaveUp
  <2>1. /\ \A r \in Procs : at[r] = "gone" => at'[r] = "gone"
        /\ \A r \in Procs : hung[r] = "all" => hung'[r] = "all"
        /\ peer'[q] = peer[q] /\ world' = world
    BY DEF Inv, TypeOK
  <2>2. Wedged(q) /\ peer[q] \in Procs
    BY DEF Inv, TypeOK, GaveUp, PeerRan, Called, Serves
  <2> QED BY <2>1, <2>2 DEF Wedged
<1>7. HandedOver'
  BY DEF Inv, TypeOK, LineIsClean, ArgumentIsTaken, Taken, HandedOver
<1> QED BY <1>1, <1>2, <1>3, <1>4, <1>5, <1>6, <1>7 DEF Inv

(* So does the end of the conversation.                                    *)
LEMMA DisconnectInv == ASSUME Inv, Disconnect PROVE Inv'
<1> USE NobodyIsNone DEF Disconnect, Serves
<1>1. TypeOK'
  BY DEF Inv, TypeOK, Phases, Fresh
<1>2. OwnerRuns' /\ PeerRan' /\ OnlyTheWedgedAreEnded'
  BY DEF Inv, TypeOK, OwnerRuns, PeerRan, OnlyTheWedgedAreEnded
<1>3. LineIsClean'
  BY DEF Inv, TypeOK, LineIsClean, Closed, Fresh
<1>4. ArgumentIsTaken'
  BY DEF Inv, TypeOK, ArgumentIsTaken, Taken
<1>5. ClientIsKnown'
  BY DEF Inv, TypeOK, ClientIsKnown, Called, Running, Fresh, Closed, May
<1>6. GaveUp'
  <2> SUFFICES ASSUME NEW q \in Procs, at[q] \in Called \cup {"ending"} PROVE Wedged(q)
    BY DEF GaveUp, Wedged, Called
  <2>1. CASE at[q] = "ending" \/ line.client # q
    BY <2>1 DEF Inv, GaveUp
  <2>2. CASE at[q] # "ending" /\ line.client = q
    <3>1. line.sent /\ at[q] \in Called
      BY <2>2 DEF Inv, LineIsClean
    <3>2. "late" \in world \/ Overfull
      BY <2>2, <3>1 DEF Inv, ClientIsKnown
    <3> QED BY <3>2 DEF Wedged
  <2> QED BY <2>1, <2>2
<1>7. HandedOver'
  BY DEF Inv, TypeOK, HandedOver
<1> QED BY <1>1, <1>2, <1>3, <1>4, <1>5, <1>6, <1>7 DEF Inv

(* So does the wait for the next.                                          *)
LEMMA AwaitInv == ASSUME Inv, Await PROVE Inv'
<1> USE NobodyIsNone DEF Await, Serves
<1>1. TypeOK'
  BY DEF Inv, TypeOK
<1>2. OwnerRuns' /\ ClientIsKnown' /\ PeerRan' /\ OnlyTheWedgedAreEnded'
  BY DEF Inv, TypeOK, OwnerRuns, ClientIsKnown, PeerRan, OnlyTheWedgedAreEnded
<1>3. LineIsClean'
  BY DEF Inv, TypeOK, LineIsClean, Closed, Fresh
<1>4. ArgumentIsTaken'
  BY DEF Inv, TypeOK, ArgumentIsTaken, Taken
<1>5. GaveUp'
  BY DEF Inv, TypeOK, GaveUp, Wedged
<1>6. HandedOver'
  BY DEF Inv, TypeOK, HandedOver
<1> QED BY <1>1, <1>2, <1>3, <1>4, <1>5, <1>6 DEF Inv

----------------------------------------------------------------------------
(* Every step keeps the invariant.                                         *)
LEMMA StepInv == ASSUME Inv, Next PROVE Inv'
<1>1. CASE Release
  BY <1>1, ReleaseInv
<1>2. CASE Server
  BY <1>2, ConnectInv, ReceiveInv, AcknowledgeInv, DisconnectInv, AwaitInv DEF Server
<1>3. ASSUME NEW p \in Procs, Step(p) PROVE Inv'
  BY <1>3, SettleInv, AcquireInv, OpenInv, WriteInv, ListenInv, GiveUpInv, TerminateInv,
     ClaimInv, StartInv, LeaveInv DEF Step
<1>4. ASSUME NEW p \in Procs, User(p) PROVE Inv'
  BY <1>4, LaunchInv, QuitInv, DieInv, RelaunchInv, HangInv DEF User
<1> QED BY <1>1, <1>2, <1>3, <1>4 DEF Next

(* And so does a step that changes nothing.                                *)
LEMMA StutterInv == ASSUME Inv, UNCHANGED vars PROVE Inv'
<1> USE DEF vars
<1>1. TypeOK'
  BY DEF Inv, TypeOK
<1>2. /\ OwnerRuns' /\ LineIsClean' /\ ClientIsKnown' /\ PeerRan'
      /\ OnlyTheWedgedAreEnded'
  BY DEF Inv, OwnerRuns, Closed, LineIsClean, ClientIsKnown, PeerRan, OnlyTheWedgedAreEnded
<1>3. ArgumentIsTaken'
  BY DEF Inv, ArgumentIsTaken, Taken
<1>4. GaveUp'
  BY DEF Inv, GaveUp, Wedged
<1>5. HandedOver'
  BY DEF Inv, HandedOver
<1> QED BY <1>1, <1>2, <1>3, <1>4, <1>5 DEF Inv

(* It holds at the start, with no process and no pipe.                     *)
LEMMA InitInv == ASSUME Init PROVE Inv
<1> USE NobodyIsNone DEF Init
<1>1. TypeOK
    <2>1. at \in [Procs -> Phases] /\ tries \in [Procs -> 0 .. ClaimAttempts]
    BY InstanceAssumption DEF Phases
  <2>2. /\ line \in [open : BOOLEAN, client : Procs \cup {Nobody}, sent : BOOLEAN, acked : BOOLEAN]
        /\ line.client = Nobody /\ ~line.open
    BY DEF Fresh
  <2> QED BY <2>1, <2>2 DEF TypeOK
<1>2. OwnerRuns
  BY DEF OwnerRuns, Closed, Fresh
<1>3. LineIsClean
  BY DEF LineIsClean, Fresh, Closed
<1>4. ArgumentIsTaken
  BY DEF ArgumentIsTaken, Taken
<1>5. ClientIsKnown
  BY DEF ClientIsKnown, Fresh, Called
<1>6. PeerRan
  BY DEF PeerRan, Called
<1>7. GaveUp
  BY DEF GaveUp, Wedged, Called
<1>8. HandedOver
  BY DEF HandedOver
<1>9. OnlyTheWedgedAreEnded
  BY DEF OnlyTheWedgedAreEnded
<1> QED BY <1>1, <1>2, <1>3, <1>4, <1>5, <1>6, <1>7, <1>8, <1>9 DEF Inv

(* The invariant holds throughout every behaviour of the launches          *)
(* (single_instance.rs).                                                   *)
THEOREM Invariance == Spec => []Inv
<1>1. Init => Inv
  BY InitInv
<1>2. Inv /\ [Next]_vars => Inv'
  BY StepInv, StutterInv
<1> QED BY <1>1, <1>2, PTL DEF Spec

(* Whatever the world does: a launch that ends because its argument was    *)
(* taken left its first link in an engine, and a process that serves is    *)
(* terminated only where an acknowledgement or a start may be late, or     *)
(* where several links do not fit in the pipe (single_instance.rs forward, *)
(* ServerImpl::run).                                                       *)
THEOREM LinksAreAlwaysHandedOver == Spec => []LinksAreHandedOver
<1>1. Inv => LinksAreHandedOver
  BY DEF Inv, LinksAreHandedOver
<1> QED BY <1>1, Invariance, PTL

----------------------------------------------------------------------------
(* What a calm world does not do.                                          *)
LEMMA CalmMeans ==
  ASSUME Calm
  PROVE  /\ ~May("together") /\ ~May("late") /\ ~May("slow start") /\ ~May("slow exit")
         /\ ~May("slow release") /\ ~May("midway") /\ ~May("dies")
BY DEF Calm, May

(* A launch begins when nobody else is on the way, and the pipe is free    *)
(* or its owner gone.                                                      *)
LEMMA LaunchCalm == ASSUME Inv, Calm, CalmInv, NEW p \in Procs, Launch(p) PROVE CalmInv'
<1> USE NobodyIsNone, CalmMeans DEF Launch, Go, Next_, InFlight, MayBegin, Alive
<1>1. Alone' /\ ClientInFlight' /\ DeafWaits' /\ FreeIsOpen'
  BY DEF Inv, TypeOK, CalmInv, Alone, ClientInFlight, DeafWaits, FreeIsOpen
<1>2. OnlyOwnerRuns'
  BY DEF Inv, TypeOK, CalmInv, OnlyOwnerRuns, Running, InFlight, Called
<1>3. WayIsFree'
  <2>1. \A q \in Procs : at[q] \notin InFlight
    OBVIOUS
  <2>2. NoOwner \/ line.open
    <3>1. CASE serving \in {"off", "waiting"}
      <4>1. line.client = Nobody
        BY <2>1 DEF Inv, TypeOK, CalmInv, ClientInFlight, Called, InFlight
      <4> QED BY <3>1, <4>1 DEF CalmInv, FreeIsOpen, NoOwner
    <3>2. CASE ~Alive(owner) /\ owner # Nobody
      <4>1. at[owner] = "gone" \/ hung[owner] = "all"
        BY <3>2 DEF Inv, TypeOK, OwnerRuns, Running, Alive
      <4> QED BY <3>1, <3>2, <4>1 DEF CalmInv, DeafWaits, NoOwner
    <3> QED BY <3>1, <3>2 DEF NoOwner
  <2>3. NoOwner' \/ line'.open
    BY <2>2 DEF Inv, TypeOK, NoOwner
  <2>4. \A q \in Procs : at'[q] \in InFlight => q = p /\ at'[q] \in {"asking", "settling"}
    BY <2>1 DEF Inv, TypeOK, InFlight
  <2> QED BY <2>3, <2>4 DEF WayIsFree, InFlight, Called
<1> QED BY <1>1, <1>2, <1>3 DEF CalmInv

(* So does a replacement.                                                  *)
LEMMA RelaunchCalm == ASSUME Inv, Calm, CalmInv, NEW old \in Procs, NEW p \in Procs, Relaunch(old, p) PROVE CalmInv'
<1> USE NobodyIsNone, CalmMeans DEF Relaunch, Next_, MayBegin, InFlight
<1>1. Alone'
  <2>1. \A q \in Procs : at[q] \notin InFlight
    OBVIOUS
  <2>2. \A q \in Procs : at'[q] \in InFlight => q = p
    BY <2>1 DEF Inv, TypeOK
  <2> QED BY <2>2 DEF Alone
<1>2. OnlyOwnerRuns'
  BY DEF Inv, TypeOK, CalmInv, OnlyOwnerRuns, Running, InFlight, Called
<1>3. ClientInFlight'
  BY DEF Inv, TypeOK, CalmInv, ClientInFlight, Called, Fresh, Running
<1>4. DeafWaits' /\ FreeIsOpen'
  BY DEF Inv, TypeOK, CalmInv, DeafWaits, FreeIsOpen
<1>5. WayIsFree'
  <2>1. \A q \in Procs : at[q] \notin InFlight
    OBVIOUS
  <2>2. NoOwner \/ line.open
    <3>1. CASE serving \in {"off", "waiting"}
      <4>1. line.client = Nobody
        BY <2>1 DEF Inv, TypeOK, CalmInv, ClientInFlight, Called, InFlight
      <4> QED BY <3>1, <4>1 DEF CalmInv, FreeIsOpen, NoOwner
    <3>2. CASE ~Alive(owner) /\ owner # Nobody
      <4>1. at[owner] = "gone" \/ hung[owner] = "all"
        BY <3>2 DEF Inv, TypeOK, OwnerRuns, Running, Alive
      <4> QED BY <3>1, <3>2, <4>1 DEF CalmInv, DeafWaits, NoOwner
    <3> QED BY <3>1, <3>2 DEF NoOwner
  <2>3. NoOwner' \/ line'.open
    BY <2>2 DEF Inv, TypeOK, NoOwner
  <2>4. \A q \in Procs : at'[q] \in InFlight => q = p /\ at'[q] \in {"asking", "settling"}
    BY <2>1 DEF Inv, TypeOK, InFlight
  <2> QED BY <2>3, <2>4 DEF WayIsFree, InFlight, Called
<1> QED BY <1>1, <1>2, <1>3, <1>4, <1>5 DEF CalmInv

(* A process that leaves keeps the pipe until it is gone.                  *)
LEMMA QuitCalm == ASSUME Inv, Calm, CalmInv, NEW p \in Procs, Quit(p) PROVE CalmInv'
<1> USE NobodyIsNone, CalmMeans DEF Quit, Go
<1>1. Alone' /\ DeafWaits' /\ FreeIsOpen'
  BY DEF Inv, TypeOK, CalmInv, Alone, InFlight, DeafWaits, FreeIsOpen
<1>2. OnlyOwnerRuns'
  BY DEF Inv, TypeOK, CalmInv, OnlyOwnerRuns, Running, InFlight, Called
<1>3. ClientInFlight'
  BY DEF Inv, TypeOK, CalmInv, ClientInFlight, Called, Fresh, Running
<1>4. WayIsFree'
  BY DEF Inv, TypeOK, OwnerRuns, ClientIsKnown, PeerRan, CalmInv, WayIsFree, Alone,
     OnlyOwnerRuns, NoOwner, Called, InFlight, Running
<1> QED BY <1>1, <1>2, <1>3, <1>4 DEF CalmInv

(* One that sticks does so between two clients, and goes deaf with the     *)
(* pipe open.                                                              *)
LEMMA HangCalm == ASSUME Inv, Calm, CalmInv, NEW p \in Procs, NEW what \in {"window", "all"}, Hang(p, what) PROVE CalmInv'
<1> USE NobodyIsNone, CalmMeans DEF Hang, Running
<1>1. Alone' /\ OnlyOwnerRuns' /\ ClientInFlight' /\ DeafWaits' /\ FreeIsOpen'
  BY DEF Inv, TypeOK, CalmInv, Alone, OnlyOwnerRuns, ClientInFlight, DeafWaits, FreeIsOpen
<1>2. WayIsFree'
  BY DEF Inv, TypeOK, OwnerRuns, ClientIsKnown, PeerRan, CalmInv, WayIsFree, Alone,
     OnlyOwnerRuns, NoOwner, Called, InFlight, Running
<1> QED BY <1>1, <1>2 DEF CalmInv

(* No launch is killed in a calm world.                                    *)
LEMMA DieCalm == ASSUME Inv, Calm, CalmInv, NEW p \in Procs, Die(p) PROVE CalmInv'
<1> USE NobodyIsNone, CalmMeans DEF Die, Go, InFlight
<1>1. /\ Alone' /\ OnlyOwnerRuns' /\ ClientInFlight' /\ DeafWaits' /\ FreeIsOpen'
      /\ WayIsFree'
  BY DEF Inv, TypeOK, CalmInv, Alone, OnlyOwnerRuns, ClientInFlight, DeafWaits, FreeIsOpen,
         WayIsFree
<1> QED BY <1>1 DEF CalmInv

(* A replacement goes on when the one before is gone.                      *)
LEMMA SettleCalm == ASSUME Inv, Calm, CalmInv, NEW p \in Procs, Settle(p) PROVE CalmInv'
<1> USE NobodyIsNone, CalmMeans DEF Settle, Go, Outlived
<1>1. Alone'
  <2>1. \A q \in Procs : at'[q] \in InFlight => at[q] \in InFlight
    BY DEF Inv, TypeOK, InFlight
  <2> QED BY <2>1 DEF CalmInv, Alone
<1>2. OnlyOwnerRuns'
  BY DEF Inv, TypeOK, CalmInv, OnlyOwnerRuns, Running, InFlight, Called
<1>3. ClientInFlight' /\ DeafWaits' /\ FreeIsOpen'
  BY DEF Inv, TypeOK, CalmInv, ClientInFlight, DeafWaits, FreeIsOpen
<1>4. WayIsFree'
  <2>1. \A q \in Procs \ {p} : at'[q] \notin InFlight
    BY DEF Inv, TypeOK, CalmInv, Alone, InFlight, PeerRan, Running
  <2>2. at'[p] = "asking" /\ (NoOwner' \/ line'.open)
    BY DEF Inv, TypeOK, CalmInv, WayIsFree, NoOwner
  <2> QED BY <2>1, <2>2 DEF WayIsFree, InFlight, Called
<1> QED BY <1>1, <1>2, <1>3, <1>4 DEF CalmInv

(* Whoever finds no owner has the pipe, and with it the place.             *)
LEMMA AcquireCalm == ASSUME Inv, Calm, CalmInv, NEW p \in Procs, Acquire(p) PROVE CalmInv'
<1> USE NobodyIsNone, CalmMeans DEF Acquire, Go, Take
<1>1. Alone'
  <2>1. \A q \in Procs : at'[q] \in InFlight => at[q] \in InFlight
    BY DEF Inv, TypeOK, InFlight
  <2> QED BY <2>1 DEF CalmInv, Alone
<1>2. OnlyOwnerRuns'
  BY DEF Inv, TypeOK, OwnerRuns, CalmInv, OnlyOwnerRuns, Running, InFlight, WayIsFree, NoOwner,
     Called
<1>3. ClientInFlight'
  <2>1. CASE owner = Nobody
    <3>1. line' = Fresh
      BY <2>1
    <3> QED BY <3>1 DEF ClientInFlight, Fresh
  <2>2. CASE owner # Nobody
    <3>1. line' = line /\ at' = [at EXCEPT ![p] = "calling"]
      BY <2>2
    <3> QED BY <3>1 DEF Inv, TypeOK, CalmInv, ClientInFlight
  <2> QED BY <2>1, <2>2
<1>4. DeafWaits'
  BY DEF Inv, TypeOK, CalmInv, DeafWaits
<1>5. FreeIsOpen'
  <2>1. CASE owner = Nobody
    <3>1. line' = Fresh
      BY <2>1
    <3> QED BY <3>1 DEF FreeIsOpen, Fresh
  <2>2. CASE owner # Nobody
    BY <2>2 DEF CalmInv, FreeIsOpen
  <2> QED BY <2>1, <2>2
<1>6. WayIsFree'
  <2>1. \A q \in Procs \ {p} : at'[q] \notin InFlight
    BY DEF Inv, TypeOK, CalmInv, Alone, InFlight, PeerRan, Running
  <2>2. at'[p] = "opening" \/ (at'[p] = "calling" /\ (NoOwner' \/ line'.open))
    <3>1. CASE owner = Nobody
      BY <3>1 DEF Inv, TypeOK
    <3>2. CASE owner # Nobody
      <4>1. NoOwner \/ line.open
        BY DEF CalmInv, WayIsFree
      <4>2. line' = line /\ owner' = owner /\ at' = [at EXCEPT ![p] = "calling"]
        BY <3>2
      <4>3. at[p] # "gone" /\ at \in [Procs -> Phases] /\ owner \in Procs
        BY <3>2 DEF Inv, TypeOK
      <4> QED BY <4>1, <4>2, <4>3 DEF NoOwner
    <3> QED BY <3>1, <3>2
  <2> QED BY <2>1, <2>2 DEF WayIsFree, InFlight, Called
<1> QED BY <1>1, <1>2, <1>3, <1>4, <1>5, <1>6 DEF CalmInv

(* Whoever calls finds the pipe open, or its owner gone.                   *)
LEMMA OpenCalm == ASSUME Inv, Calm, CalmInv, NEW p \in Procs, Open(p) PROVE CalmInv'
<1> USE NobodyIsNone, CalmMeans DEF Open, Go
<1>1. Alone'
  <2>1. \A q \in Procs : at'[q] \in InFlight => at[q] \in InFlight
    BY DEF Inv, TypeOK, InFlight
  <2> QED BY <2>1 DEF CalmInv, Alone
<1>2. OnlyOwnerRuns'
  BY DEF Inv, TypeOK, CalmInv, OnlyOwnerRuns, Running, InFlight, Called
<1>3. ClientInFlight'
  <2>1. CASE line.open
    <3>1. line'.client = p /\ at'[p] = "writing"
      BY <2>1 DEF Inv, TypeOK
    <3> QED BY <3>1 DEF ClientInFlight, Called
  <2>2. CASE ~line.open
    <3>1. line' = line /\ at' = [at EXCEPT ![p] = "claiming"]
      BY <2>2
    <3> QED BY <3>1 DEF Inv, TypeOK, CalmInv, ClientInFlight
  <2> QED BY <2>1, <2>2
<1>4. DeafWaits'
  BY DEF Inv, TypeOK, CalmInv, DeafWaits
<1>5. FreeIsOpen'
  <2>1. line'.client = p \/ UNCHANGED <<owner, line, serving>>
    BY DEF Inv, TypeOK
  <2>2. p # Nobody /\ owner' = owner /\ serving' = serving
    OBVIOUS
  <2> QED BY <2>1, <2>2 DEF CalmInv, FreeIsOpen
<1>6. WayIsFree'
  <2>1. \A q \in Procs \ {p} : at'[q] \notin InFlight
    BY DEF Inv, TypeOK, CalmInv, Alone, InFlight, PeerRan, Running
  <2>2. (at'[p] = "writing" /\ owner' = peer'[p]) \/ (at'[p] = "claiming" /\ NoOwner')
    <3>1. CASE line.open
      BY <3>1 DEF Inv, TypeOK
    <3>2. CASE ~line.open
      <4>1. NoOwner /\ at' = [at EXCEPT ![p] = "claiming"] /\ owner' = owner
        BY <3>2 DEF CalmInv, WayIsFree
      <4>2. at[p] # "gone" /\ at \in [Procs -> Phases] /\ owner \in Procs \cup {Nobody}
        BY DEF Inv, TypeOK
      <4>3. NoOwner'
        BY <4>1, <4>2 DEF NoOwner
      <4> QED BY <4>1, <4>2, <4>3
    <3> QED BY <3>1, <3>2
  <2> QED BY <2>1, <2>2 DEF WayIsFree, InFlight, Called
<1> QED BY <1>1, <1>2, <1>3, <1>4, <1>5, <1>6 DEF CalmInv

(* The argument changes nobody's place.                                    *)
LEMMA WriteCalm == ASSUME Inv, Calm, CalmInv, NEW p \in Procs, Write(p) PROVE CalmInv'
<1> USE NobodyIsNone, CalmMeans DEF Write, Go
<1>0. /\ at' \in {at, [at EXCEPT ![p] = "wrote"]} /\ at[p] = "writing"
      /\ at \in [Procs -> Phases]
      /\ line'.client = line.client /\ line'.open = line.open
      /\ UNCHANGED <<owner, serving, peer, hung>>
  BY DEF Inv, TypeOK
<1>1. Alone' /\ DeafWaits' /\ FreeIsOpen'
  <2>1. \A q \in Procs : at'[q] \in InFlight <=> at[q] \in InFlight
    BY <1>0 DEF InFlight
  <2> HIDE DEF Write
  <2> QED BY <1>0, <2>1 DEF CalmInv, Alone, DeafWaits, FreeIsOpen
<1>2. OnlyOwnerRuns'
  BY DEF Inv, TypeOK, CalmInv, OnlyOwnerRuns, Running, InFlight, Called
<1>3. ClientInFlight'
  BY DEF Inv, TypeOK, CalmInv, ClientInFlight, Called, Fresh, Running
<1>4. WayIsFree'
  <2>1. \A q \in Procs : at'[q] = at[q] \/ (at[q] = "writing" /\ at'[q] = "wrote")
    BY <1>0
  <2>2. \A q \in Procs : at'[q] = "gone" <=> at[q] = "gone"
    BY <2>1
  <2>3. (NoOwner => NoOwner') /\ line'.open = line.open
    BY <1>0, <2>2 DEF Inv, TypeOK, NoOwner
  <2> HIDE DEF Write
  <2> QED BY <1>0, <2>1, <2>3 DEF CalmInv, WayIsFree, Called
<1> QED BY <1>1, <1>2, <1>3, <1>4 DEF CalmInv

(* A launch that is answered is gone.                                      *)
LEMMA ListenCalm == ASSUME Inv, Calm, CalmInv, NEW p \in Procs, Listen(p) PROVE CalmInv'
<1> USE NobodyIsNone, CalmMeans DEF Listen, Go, Handed
<1>1. Alone'
  <2>1. \A q \in Procs : at'[q] \in InFlight => at[q] \in InFlight
    BY DEF Inv, TypeOK, InFlight
  <2> QED BY <2>1 DEF CalmInv, Alone
<1>2. OnlyOwnerRuns'
  BY DEF Inv, TypeOK, CalmInv, OnlyOwnerRuns, Running, InFlight, Called
<1>3. ClientInFlight'
  <2>1. CASE line.acked
    <3>1. line'.client = Nobody
      BY <2>1 DEF Inv, TypeOK
    <3> QED BY <3>1 DEF ClientInFlight
  <2>2. CASE ~line.acked
    <3>1. line' = line /\ at' = [at EXCEPT ![p] = "listening"]
      BY <2>2
    <3> QED BY <3>1 DEF Inv, TypeOK, CalmInv, ClientInFlight, Called
  <2> QED BY <2>1, <2>2
<1>4. DeafWaits'
  BY DEF Inv, TypeOK, CalmInv, DeafWaits
<1>5. FreeIsOpen'
  BY DEF Inv, TypeOK, OwnerRuns, LineIsClean, CalmInv, FreeIsOpen, Fresh, Closed
<1>6. WayIsFree'
  <2>1. \A q \in Procs \ {p} : at'[q] \notin InFlight
    BY DEF Inv, TypeOK, CalmInv, Alone, InFlight, PeerRan, Running
  <2>2. at'[p] = "gone" \/ (at'[p] = "listening" /\ owner' \in {Nobody, peer'[p]})
    <3>1. owner \in {Nobody, peer[p]} /\ owner' = owner /\ peer' = peer
      BY DEF CalmInv, WayIsFree, Called
    <3>2. at'[p] \in {"gone", "listening"}
      <4>1. at' \in {[at EXCEPT ![p] = "gone"], [at EXCEPT ![p] = "listening"]}
        OBVIOUS
      <4>2. at \in [Procs -> Phases]
        BY DEF Inv, TypeOK
      <4> QED BY <4>1, <4>2
    <3> QED BY <3>1, <3>2
  <2> QED BY <2>1, <2>2 DEF WayIsFree, InFlight, Called
<1> QED BY <1>1, <1>2, <1>3, <1>4, <1>5, <1>6 DEF CalmInv

(* One that gives up has called the process that has the pipe.             *)
LEMMA GiveUpCalm == ASSUME Inv, Calm, CalmInv, NEW p \in Procs, GiveUp(p) PROVE CalmInv'
<1> USE NobodyIsNone, CalmMeans DEF GiveUp, Go, Unanswering, Alive
<1>1. Alone' /\ ClientInFlight' /\ DeafWaits' /\ FreeIsOpen'
  BY DEF Inv, TypeOK, CalmInv, Alone, InFlight, ClientInFlight, DeafWaits, FreeIsOpen
<1>2. OnlyOwnerRuns'
  BY DEF Inv, TypeOK, CalmInv, OnlyOwnerRuns, Running, InFlight, Called
<1>3. WayIsFree'
  BY DEF Inv, TypeOK, OwnerRuns, ClientIsKnown, PeerRan, CalmInv, WayIsFree, Alone,
     OnlyOwnerRuns, NoOwner, Called, InFlight, Running
<1> QED BY <1>1, <1>2, <1>3 DEF CalmInv

(* The process that is terminated is the one that has the pipe, so the     *)
(* way is free.                                                            *)
LEMMA TerminateCalm == ASSUME Inv, Calm, CalmInv, NEW p \in Procs, Terminate(p) PROVE CalmInv'
<1> USE NobodyIsNone, CalmMeans DEF Terminate, Go
<1>1. Alone'
  <2>1. \A q \in Procs : at'[q] \in InFlight => at[q] \in InFlight
    BY DEF Inv, TypeOK, InFlight, PeerRan, Running
  <2> QED BY <2>1 DEF CalmInv, Alone
<1>2. OnlyOwnerRuns'
  BY DEF Inv, TypeOK, CalmInv, OnlyOwnerRuns, Running, InFlight, Called
<1>3. ClientInFlight'
  <2>1. at[peer[p]] \in Running \cup {"gone"} /\ peer[p] \in Procs
    BY DEF Inv, TypeOK, PeerRan
  <2>2. line' = line /\ at'[p] = "claiming" /\ \A q \in Procs \ {p, peer[p]} : at'[q] = at[q]
    BY <2>1 DEF Inv, TypeOK, Running
  <2>3. line.client # Nobody => line.client \in Procs /\ at[line.client] \in Called \cup {"ending", "claiming"}
    BY DEF Inv, TypeOK, CalmInv, ClientInFlight
  <2>4. line.client # peer[p]
    BY <2>1, <2>3 DEF Called, Running
  <2> QED BY <2>2, <2>3, <2>4 DEF ClientInFlight
<1>4. DeafWaits' /\ FreeIsOpen'
  BY DEF Inv, TypeOK, CalmInv, DeafWaits, FreeIsOpen
<1>5. WayIsFree'
  <2>1. \A q \in Procs \ {p} : at'[q] \notin InFlight
    BY DEF Inv, TypeOK, CalmInv, Alone, InFlight, PeerRan, Running
  <2>2. at'[p] = "claiming" /\ NoOwner'
    <3>1. owner \in {Nobody, peer[p]} /\ peer[p] \in Procs /\ at[peer[p]] \in Running \cup {"gone"}
      BY DEF CalmInv, WayIsFree, Inv, TypeOK, PeerRan
    <3>2. at'[p] = "claiming" /\ at'[peer[p]] = "gone" /\ owner' = owner
      BY <3>1 DEF Inv, TypeOK, Running
    <3> QED BY <3>1, <3>2 DEF NoOwner
  <2> QED BY <2>1, <2>2 DEF WayIsFree, InFlight, Called
<1> QED BY <1>1, <1>2, <1>3, <1>4, <1>5 DEF CalmInv

(* A claim fails in a calm world only if somebody lives who has the pipe,  *)
(* and there is none.                                                      *)
LEMMA ClaimCalm == ASSUME Inv, Calm, CalmInv, NEW p \in Procs, Claim(p) PROVE CalmInv'
<1> USE NobodyIsNone, CalmMeans DEF Claim, Go, Take
<1>1. Alone' /\ DeafWaits'
  BY DEF Inv, TypeOK, CalmInv, Alone, InFlight, DeafWaits
<1>2. OnlyOwnerRuns'
  BY DEF Inv, TypeOK, OwnerRuns, CalmInv, OnlyOwnerRuns, Running, InFlight, WayIsFree, NoOwner,
     Called
<1>3. ClientInFlight'
  <2>1. owner = Nobody /\ line' = Fresh
    BY DEF CalmInv, WayIsFree, NoOwner, Inv, OwnerRuns, TypeOK
  <2> QED BY <2>1 DEF ClientInFlight, Fresh
<1>4. FreeIsOpen'
  <2>1. owner = Nobody /\ line' = Fresh
    BY DEF CalmInv, WayIsFree, NoOwner, Inv, OwnerRuns, TypeOK
  <2> QED BY <2>1 DEF FreeIsOpen, Fresh
<1>5. WayIsFree'
  <2>1. \A q \in Procs \ {p} : at'[q] \notin InFlight
    BY DEF Inv, TypeOK, CalmInv, Alone, InFlight, PeerRan, Running
  <2>2. at'[p] = "opening"
    BY DEF Inv, TypeOK, OwnerRuns, CalmInv, WayIsFree, NoOwner
  <2> QED BY <2>1, <2>2 DEF WayIsFree, InFlight, Called
<1> QED BY <1>1, <1>2, <1>3, <1>4, <1>5 DEF CalmInv

(* The process that starts has the pipe.                                   *)
LEMMA StartCalm == ASSUME Inv, Calm, CalmInv, NEW p \in Procs, Start(p) PROVE CalmInv'
<1> USE NobodyIsNone, CalmMeans DEF Start, Go
<1>1. Alone' /\ DeafWaits'
  BY DEF Inv, TypeOK, CalmInv, Alone, InFlight, DeafWaits
<1>2. OnlyOwnerRuns'
  BY DEF Inv, TypeOK, CalmInv, OnlyOwnerRuns, Running, InFlight, Called
<1>3. ClientInFlight'
  BY DEF Inv, TypeOK, CalmInv, ClientInFlight, Called, Fresh, Running
<1>4. FreeIsOpen'
  BY DEF Inv, TypeOK, OwnerRuns, LineIsClean, CalmInv, FreeIsOpen, Fresh, Closed
<1>5. WayIsFree'
  BY DEF Inv, TypeOK, OwnerRuns, ClientIsKnown, PeerRan, CalmInv, WayIsFree, Alone,
     OnlyOwnerRuns, NoOwner, Called, InFlight, Running
<1> QED BY <1>1, <1>2, <1>3, <1>4, <1>5 DEF CalmInv

(* The one that ends leaves the way free.                                  *)
LEMMA LeaveCalm == ASSUME Inv, Calm, CalmInv, NEW p \in Procs, Leave(p) PROVE CalmInv'
<1> USE NobodyIsNone, CalmMeans DEF Leave, Go
<1>1. Alone' /\ DeafWaits' /\ FreeIsOpen'
  BY DEF Inv, TypeOK, CalmInv, Alone, InFlight, DeafWaits, FreeIsOpen
<1>2. OnlyOwnerRuns'
  BY DEF Inv, TypeOK, CalmInv, OnlyOwnerRuns, Running, InFlight, Called
<1>3. ClientInFlight'
  BY DEF Inv, TypeOK, CalmInv, ClientInFlight, Called, Fresh, Running
<1>4. WayIsFree'
  BY DEF Inv, TypeOK, OwnerRuns, ClientIsKnown, PeerRan, CalmInv, WayIsFree, Alone,
     OnlyOwnerRuns, NoOwner, Called, InFlight, Running
<1> QED BY <1>1, <1>2, <1>3, <1>4 DEF CalmInv

(* The pipe of one that is gone is closed.                                 *)
LEMMA ReleaseCalm == ASSUME Inv, Calm, CalmInv, Release PROVE CalmInv'
<1> USE NobodyIsNone, CalmMeans DEF Release
<1>1. Alone' /\ DeafWaits' /\ FreeIsOpen'
  BY DEF Inv, TypeOK, CalmInv, Alone, DeafWaits, FreeIsOpen
<1>2. OnlyOwnerRuns'
  BY DEF Inv, TypeOK, CalmInv, OnlyOwnerRuns, Running, InFlight, Called
<1>3. ClientInFlight'
  BY DEF Inv, TypeOK, CalmInv, ClientInFlight, Called, Fresh, Running
<1>4. WayIsFree'
  BY DEF Inv, TypeOK, OwnerRuns, ClientIsKnown, PeerRan, CalmInv, WayIsFree, Alone,
     OnlyOwnerRuns, NoOwner, Called, InFlight, Running
<1> QED BY <1>1, <1>2, <1>3, <1>4 DEF CalmInv

(* Meeting a client changes nobody's place.                                *)
LEMMA ConnectCalm == ASSUME Inv, Calm, CalmInv, Connect PROVE CalmInv'
<1> USE NobodyIsNone, CalmMeans DEF Connect, Serves
<1>1. Alone' /\ OnlyOwnerRuns' /\ ClientInFlight' /\ FreeIsOpen'
  BY DEF Inv, TypeOK, CalmInv, Alone, OnlyOwnerRuns, ClientInFlight, FreeIsOpen
<1>2. DeafWaits'
  <2>1. hung[owner] # "all"
    BY DEF Alive
  <2> QED BY <2>1 DEF DeafWaits
<1>3. WayIsFree'
  BY DEF Inv, TypeOK, OwnerRuns, ClientIsKnown, PeerRan, CalmInv, WayIsFree, Alone,
     OnlyOwnerRuns, NoOwner, Called, InFlight, Running
<1> QED BY <1>1, <1>2, <1>3 DEF CalmInv

(* Nor does its argument.                                                  *)
LEMMA ReceiveCalm == ASSUME Inv, Calm, CalmInv, Receive PROVE CalmInv'
<1> USE NobodyIsNone, CalmMeans DEF Receive, Serves, Arrived
<1>1. Alone' /\ OnlyOwnerRuns' /\ ClientInFlight' /\ DeafWaits' /\ FreeIsOpen'
  BY DEF Inv, TypeOK, CalmInv, Alone, OnlyOwnerRuns, ClientInFlight, DeafWaits, FreeIsOpen
<1>2. WayIsFree'
  BY DEF Inv, TypeOK, OwnerRuns, ClientIsKnown, PeerRan, CalmInv, WayIsFree, Alone,
     OnlyOwnerRuns, NoOwner, Called, InFlight, Running
<1> QED BY <1>1, <1>2 DEF CalmInv

(* A client that is acknowledged is gone.                                  *)
LEMMA AcknowledgeCalm == ASSUME Inv, Calm, CalmInv, Acknowledge PROVE CalmInv'
<1> USE NobodyIsNone, CalmMeans DEF Acknowledge, Go, Serves, Acknowledges, Handed
<1>1. Alone'
  <2>1. \A q \in Procs : at'[q] \in InFlight => at[q] \in InFlight
    BY DEF Inv, TypeOK, InFlight
  <2> QED BY <2>1 DEF CalmInv, Alone
<1>2. OnlyOwnerRuns'
  BY DEF Inv, TypeOK, CalmInv, OnlyOwnerRuns, Running, InFlight, Called
<1>3. ClientInFlight' /\ DeafWaits' /\ FreeIsOpen'
  BY DEF Inv, TypeOK, CalmInv, ClientInFlight, DeafWaits, FreeIsOpen
<1>4. WayIsFree'
  <2>1. at[owner] \in {"up", "leaving"} /\ owner # Nobody /\ ~line.open
    BY DEF Inv, LineIsClean
  <2>2. \A q \in Procs : at[q] \notin {"settling", "asking", "calling", "claiming"}
    BY <2>1 DEF CalmInv, WayIsFree, NoOwner
  <2>3. /\ \A q \in Procs : at'[q] # at[q] => at'[q] = "gone"
        /\ peer' = peer /\ owner' = owner
    BY DEF Inv, TypeOK
  <2> QED BY <2>2, <2>3 DEF CalmInv, WayIsFree, Called
<1> QED BY <1>1, <1>2, <1>3, <1>4 DEF CalmInv

(* The pipe is closed between two clients.                                 *)
LEMMA DisconnectCalm == ASSUME Inv, Calm, CalmInv, Disconnect PROVE CalmInv'
<1> USE NobodyIsNone, CalmMeans DEF Disconnect, Serves
<1>1. Alone' /\ OnlyOwnerRuns' /\ DeafWaits' /\ FreeIsOpen'
  BY DEF Inv, TypeOK, CalmInv, Alone, OnlyOwnerRuns, DeafWaits, FreeIsOpen
<1>2. ClientInFlight'
  BY DEF Inv, TypeOK, CalmInv, ClientInFlight, Called, Fresh, Running
<1>3. WayIsFree'
  <2>1. at[owner] \in {"up", "leaving"} /\ owner # Nobody /\ ~line.open
    BY DEF Inv, LineIsClean
  <2>2. \A q \in Procs : at[q] \notin {"settling", "asking", "calling", "claiming"}
    BY <2>1 DEF CalmInv, WayIsFree, NoOwner
  <2>3. /\ \A q \in Procs : at'[q] # at[q] => at'[q] = "gone"
        /\ peer' = peer /\ owner' = owner
    BY DEF Inv, TypeOK
  <2> QED BY <2>2, <2>3 DEF CalmInv, WayIsFree, Called
<1> QED BY <1>1, <1>2, <1>3 DEF CalmInv

(* And open again for the next.                                            *)
LEMMA AwaitCalm == ASSUME Inv, Calm, CalmInv, Await PROVE CalmInv'
<1> USE NobodyIsNone, CalmMeans DEF Await, Serves
<1>1. Alone' /\ OnlyOwnerRuns' /\ ClientInFlight' /\ DeafWaits' /\ FreeIsOpen'
  BY DEF Inv, TypeOK, CalmInv, Alone, OnlyOwnerRuns, ClientInFlight, DeafWaits, FreeIsOpen
<1>2. WayIsFree'
  BY DEF Inv, TypeOK, OwnerRuns, ClientIsKnown, PeerRan, CalmInv, WayIsFree, Alone,
     OnlyOwnerRuns, NoOwner, Called, InFlight, Running
<1> QED BY <1>1, <1>2 DEF CalmInv

----------------------------------------------------------------------------
(* Every step keeps what the calm worlds add.                              *)
LEMMA CalmStep == ASSUME Inv, CalmInv, Next PROVE CalmInv'
<1> SUFFICES ASSUME Calm' PROVE CalmInv'
  BY DEF CalmInv
<1>1. world' = world
  BY DEF Next, Server, Step, User, Release, Launch, Relaunch, Quit, Hang, Die, Settle, Acquire,
     Open, Write, Listen, GiveUp, Terminate, Claim, Start, Leave, Connect, Receive,
     Acknowledge, Disconnect, Await, Go, Take, Handed
<1>2. Calm
  BY <1>1 DEF Inv, TypeOK, Calm
<1>3. CASE Release
  BY <1>2, <1>3, ReleaseCalm
<1>4. CASE Server
  BY <1>2, <1>4, ConnectCalm, ReceiveCalm, AcknowledgeCalm, DisconnectCalm, AwaitCalm DEF Server
<1>5. ASSUME NEW p \in Procs, Step(p) PROVE CalmInv'
  BY <1>2, <1>5, SettleCalm, AcquireCalm, OpenCalm, WriteCalm, ListenCalm, GiveUpCalm,
     TerminateCalm, ClaimCalm, StartCalm, LeaveCalm DEF Step
<1>6. ASSUME NEW p \in Procs, User(p) PROVE CalmInv'
  BY <1>2, <1>6, LaunchCalm, QuitCalm, DieCalm, RelaunchCalm, HangCalm DEF User
<1> QED BY <1>3, <1>4, <1>5, <1>6 DEF Next

(* What the calm worlds add holds throughout every behaviour of the        *)
(* launches.                                                               *)
THEOREM CalmInvariance == Spec => []CalmInv
<1>1. Init => CalmInv
  BY NobodyIsNone DEF Init, CalmInv, Alone, OnlyOwnerRuns, ClientInFlight, DeafWaits,
     FreeIsOpen, WayIsFree,
        InFlight, Running, Called, Fresh
<1>2. Inv /\ CalmInv /\ [Next]_vars => CalmInv'
  <2>1. ASSUME CalmInv, UNCHANGED vars PROVE CalmInv'
    BY <2>1 DEF vars, CalmInv, Calm, Alone, OnlyOwnerRuns, ClientInFlight, DeafWaits,
       FreeIsOpen, WayIsFree, NoOwner
  <2> QED BY <2>1, CalmStep
<1> QED BY <1>1, <1>2, Invariance, PTL DEF Spec

(* While launches come one at a time and nothing overruns a timeout, at    *)
(* most one process runs, through takeovers, relaunches and exits          *)
(* (single_instance.rs acquire, claim; "one process, however many times it *)
(* is launched").                                                          *)
THEOREM OneProcessAtATime == Spec => []OneProcessWhenCalm
<1>1. Inv /\ CalmInv => OneProcessWhenCalm
  <2> SUFFICES ASSUME Inv, CalmInv, Calm PROVE Cardinality({p \in Procs : at[p] \in Running}) <= 1
    BY DEF OneProcessWhenCalm, OneProcess
  <2> DEFINE R == {p \in Procs : at[p] \in Running}
  <2>1. R \subseteq {owner}
    BY DEF CalmInv, OnlyOwnerRuns
  <2>2. IsFiniteSet({owner}) /\ Cardinality({owner}) = 1
    BY FS_Singleton
  <2>3. Cardinality(R) <= 1
    BY <2>1, <2>2, FS_Subset
  <2> QED BY <2>3
<1> QED BY <1>1, Invariance, CalmInvariance, PTL
-----------------------------------------------------------------------------
(* The updates.  Somebody who waits for the quiet check before he presses  *)
(* has one thread at work at a time: the panel says which, and the press   *)
(* that would begin another is not there.                                  *)
Pending(c) == check[c] \in {"user", "timer"}
AtWork(i)  == install[i] \notin {"none", "over", "littered"}

(* Nothing has happened as long as the timer of the start has not fired.   *)
Untouched ==
  /\ panel = "idle" /\ ~found
  /\ \A c \in Checks : check[c] = "none"
  /\ \A i \in Installs : install[i] = "none"

OneThread ==
  /\ quiet = "armed" => Untouched
  /\ \A c \in Checks : Pending(c) => panel = "checking"
  /\ \A c, d \in Checks : Pending(c) /\ Pending(d) => c = d
  /\ \A i \in Installs : AtWork(i) => panel = "installing"
  /\ \A i, j \in Installs : AtWork(i) /\ AtWork(j) => i = j

(* Who is about to swap finds its own download, whole.                     *)
StagedIsWhole ==
  /\ \A i \in Installs : install[i] = "swapping" => staged = "new"
  /\ program \in {"old", "new"}

(* A verified binary has an install that will try to remove it, or tried.  *)
SomebodyRemoves ==
  staged = "new" =>
    \E i \in Installs : install[i] \in {"swapping", "swapped", "refused", "littered"}

UpdatesInv ==
  /\ UpdatesTypeOK
  /\ ~early => OneThread /\ StagedIsWhole
  /\ SomebodyRemoves

LEMMA UpdatesInitInv == UpdatesInit => UpdatesInv
BY DEF UpdatesInit, UpdatesInv, UpdatesTypeOK, OneThread, Untouched, Pending, AtWork,
       StagedIsWhole, SomebodyRemoves, Panels, Files

(* Asking the feed does nothing to the installs.                           *)
LEMMA AskKeeps ==
  ASSUME UpdatesInv, NEW who \in {"user", "timer"}, Ask(who),
         quiet' \in {"fired", "off"} \/ (early /\ quiet' = quiet),
         ~early => \A c \in Checks : ~Pending(c),
         ~early => \A i \in Installs : ~AtWork(i),
         UNCHANGED <<found, install, staged, program, self, early>>
  PROVE  UpdatesInv'
<1>1. PICK c \in Checks : check' = [check EXCEPT ![c] = who]
  BY DEF Ask
<1>2. panel' = "checking"
  BY DEF Ask
<1>3. UpdatesTypeOK'
  BY <1>1, <1>2 DEF UpdatesInv, UpdatesTypeOK, Panels
<1>4. ASSUME ~early' PROVE OneThread' /\ StagedIsWhole'
  BY <1>1, <1>2, <1>4 DEF UpdatesInv, UpdatesTypeOK, OneThread, StagedIsWhole, Pending, AtWork
<1>5. SomebodyRemoves'
  BY DEF UpdatesInv, SomebodyRemoves
<1> QED
  BY <1>3, <1>4, <1>5 DEF UpdatesInv

LEMMA PressCheckInv == ASSUME UpdatesInv, PressCheck PROVE UpdatesInv'
<1>1. ASSUME ~early
      PROVE  /\ quiet # "armed"
             /\ \A c \in Checks : ~Pending(c)
             /\ \A i \in Installs : ~AtWork(i)
  BY <1>1 DEF UpdatesInv, OneThread, PressCheck, Enabled
<1>2. quiet' \in {"fired", "off"} \/ (early /\ quiet' = quiet)
  BY <1>1 DEF UpdatesInv, UpdatesTypeOK, PressCheck
<1> QED
  BY <1>1, <1>2, AskKeeps DEF PressCheck

LEMMA TimerFiresInv == ASSUME UpdatesInv, TimerFires PROVE UpdatesInv'
<1>1. ~early => Untouched
  BY DEF UpdatesInv, OneThread, TimerFires
<1> QED
  BY <1>1, AskKeeps DEF TimerFires, Untouched, Pending, AtWork

(* A check that ends leaves the panel to the next press.                   *)
LEMMA FeedInv == ASSUME UpdatesInv, Feed PROVE UpdatesInv'
<1>1. PICK c \in Checks : NoAnswer(c) \/ \E v \in Offers : Answer(c, v)
  BY DEF Feed
<1>2. /\ Pending(c) /\ check' = [check EXCEPT ![c] = "over"]
      /\ panel' \in {"available", "current", "failed", "idle"}
      /\ panel' = "available" => found'
      /\ found' \in {found, TRUE}
      /\ UNCHANGED <<quiet, install, staged, program, self, early>>
  BY <1>1 DEF NoAnswer, Answer, Over, Pending
<1>3. UpdatesTypeOK'
  BY <1>2 DEF UpdatesInv, UpdatesTypeOK, Panels
<1>4. ASSUME ~early' PROVE OneThread' /\ StagedIsWhole'
  <2>1. panel = "checking" /\ quiet # "armed"
    BY <1>2, <1>4 DEF UpdatesInv, OneThread, Untouched, Pending
  <2> QED
    BY <1>2, <1>4, <2>1
    DEF UpdatesInv, UpdatesTypeOK, OneThread, StagedIsWhole, Pending, AtWork
<1>5. SomebodyRemoves'
  BY <1>2 DEF UpdatesInv, SomebodyRemoves
<1> QED
  BY <1>3, <1>4, <1>5 DEF UpdatesInv

LEMMA PressInstallInv == ASSUME UpdatesInv, PressInstall PROVE UpdatesInv'
<1>1. PICK i \in Installs : install[i] = "none" /\ install' = [install EXCEPT ![i] = "fetching"]
  BY DEF PressInstall, At
<1>2. UpdatesTypeOK'
  BY <1>1 DEF UpdatesInv, UpdatesTypeOK, PressInstall, Panels
<1>3. ASSUME ~early' PROVE OneThread' /\ StagedIsWhole'
  BY <1>1, <1>3
  DEF UpdatesInv, UpdatesTypeOK, OneThread, Untouched, StagedIsWhole, Pending, AtWork, PressInstall
<1>4. SomebodyRemoves'
  BY <1>1 DEF UpdatesInv, UpdatesTypeOK, SomebodyRemoves, PressInstall
<1> QED
  BY <1>2, <1>3, <1>4 DEF UpdatesInv

(* A step of an install but its last: the panel stays as it is.            *)
LEMMA WorkerKeepsPanel ==
  ASSUME UpdatesInv, NEW i \in Installs, NEW to,
         to \in {"verifying", "failing", "writing", "swapping", "swapped", "refused"},
         AtWork(i), At(i, to),
         UNCHANGED <<panel, found, quiet, check, self, early>>
  PROVE  ~early' => OneThread'
BY DEF UpdatesInv, UpdatesTypeOK, OneThread, Untouched, Pending, AtWork, At

LEMMA FetchInv == ASSUME UpdatesInv, NEW i \in Installs, Fetch(i) PROVE UpdatesInv'
<1>1. PICK to \in {"verifying", "failing"} : At(i, to)
  BY DEF Fetch
<1>2. ~early' => OneThread'
  BY <1>1, WorkerKeepsPanel DEF Fetch, AtWork
<1> QED
  BY <1>1, <1>2 DEF UpdatesInv, UpdatesTypeOK, StagedIsWhole, SomebodyRemoves, Fetch, At

LEMMA VerifyInv == ASSUME UpdatesInv, NEW i \in Installs, Verify(i) PROVE UpdatesInv'
<1>1. ~early' => OneThread'
  BY WorkerKeepsPanel DEF Verify, AtWork
<1>2. ASSUME ~early' PROVE StagedIsWhole'
  <2>1. \A j \in Installs \ {i} : install[j] # "swapping"
    BY <1>2 DEF UpdatesInv, OneThread, AtWork, Verify
  <2> QED
    BY <1>2, <2>1 DEF UpdatesInv, UpdatesTypeOK, StagedIsWhole, Verify, At
<1>3. UpdatesTypeOK' /\ SomebodyRemoves'
  BY DEF UpdatesInv, UpdatesTypeOK, SomebodyRemoves, Verify, At, Files
<1> QED
  BY <1>1, <1>2, <1>3 DEF UpdatesInv

LEMMA WriteStagedInv == ASSUME UpdatesInv, NEW i \in Installs, WriteStaged(i) PROVE UpdatesInv'
<1>1. ~early' => OneThread'
  BY WorkerKeepsPanel DEF WriteStaged, AtWork
<1>2. /\ \/ staged' = "new" /\ At(i, "swapping")
         \/ UNCHANGED staged /\ At(i, "failing")
      /\ install[i] = "writing"
      /\ UNCHANGED <<panel, found, quiet, check, program, self, early>>
  BY DEF WriteStaged, Verdicts
<1>3. ~early' => StagedIsWhole'
  BY <1>2 DEF UpdatesInv, UpdatesTypeOK, StagedIsWhole, At
<1>4. UpdatesTypeOK' /\ SomebodyRemoves'
  BY <1>2 DEF UpdatesInv, UpdatesTypeOK, SomebodyRemoves, At, Files
<1> QED
  BY <1>1, <1>3, <1>4 DEF UpdatesInv

LEMMA SwapInv ==
  ASSUME UpdatesInv, NEW i \in Installs, Swap(i) \/ SwapFails(i) PROVE UpdatesInv'
<1>1. ~early' => OneThread'
  BY WorkerKeepsPanel DEF Swap, SwapFails, AtWork
<1>2. ~early' => StagedIsWhole'
  BY DEF UpdatesInv, UpdatesTypeOK, StagedIsWhole, Swap, SwapFails, At
<1>3. UpdatesTypeOK' /\ SomebodyRemoves'
  BY DEF UpdatesInv, UpdatesTypeOK, SomebodyRemoves, Swap, SwapFails, At
<1> QED
  BY <1>1, <1>2, <1>3 DEF UpdatesInv

LEMMA TellInv == ASSUME UpdatesInv, NEW i \in Installs, Tell(i) PROVE UpdatesInv'
<1>1. ASSUME ~early' PROVE OneThread' /\ StagedIsWhole'
  <2>1. /\ panel = "installing" /\ quiet # "armed"
        /\ \A j \in Installs \ {i} : ~AtWork(j)
        /\ \A c \in Checks : ~Pending(c)
    BY <1>1 DEF UpdatesInv, OneThread, Untouched, AtWork, Tell
  <2> QED
    BY <1>1, <2>1
    DEF UpdatesInv, UpdatesTypeOK, OneThread, StagedIsWhole, Pending, AtWork, Tell, At
<1>2. UpdatesTypeOK' /\ SomebodyRemoves'
  BY DEF UpdatesInv, UpdatesTypeOK, SomebodyRemoves, Tell, Cleans, At, Panels, Files
<1> QED
  BY <1>1, <1>2 DEF UpdatesInv

(* However many checks and installs there are, what takes the program's    *)
(* place is a whole download signed with the key, one install at a time,   *)
(* for somebody who waits for the quiet check; and a verified binary stays *)
(* in the temp directory only where its removal failed.                    *)
THEOREM UpdatesAreSafe == UpdatesSpec => []UpdateIsSafe
<1>1. UpdatesInv /\ [UpdatesNext]_updateVars => UpdatesInv'
  <2> SUFFICES ASSUME UpdatesInv, [UpdatesNext]_updateVars PROVE UpdatesInv'
    OBVIOUS
  <2>1. CASE PressCheck
    BY <2>1, PressCheckInv
  <2>2. CASE TimerFires
    BY <2>2, TimerFiresInv
  <2>3. CASE PressInstall
    BY <2>3, PressInstallInv
  <2>4. CASE Feed
    BY <2>4, FeedInv
  <2>5. CASE \E i \in Installs : Worker(i)
    BY <2>5, FetchInv, VerifyInv, WriteStagedInv, SwapInv, TellInv DEF Worker
  <2>6. CASE UNCHANGED updateVars
    BY <2>6 DEF updateVars, UpdatesInv, UpdatesTypeOK, OneThread, Untouched, Pending, AtWork,
                StagedIsWhole, SomebodyRemoves
  <2> QED
    BY <2>1, <2>2, <2>3, <2>4, <2>5, <2>6 DEF UpdatesNext
<1>2. UpdatesInv => UpdateIsSafe
  <2> SUFFICES ASSUME UpdatesInv PROVE UpdateIsSafe
    OBVIOUS
  <2>1. SignedOnly /\ UpdatesTypeOK
    BY DEF UpdatesInv, StagedIsWhole, SignedOnly
  <2>2. NothingStaysStaged
    BY DEF UpdatesInv, SomebodyRemoves, NothingStaysStaged, Working
  <2>3. NothingToPressWhileWorking
    BY DEF UpdatesInv, OneThread, AtWork, NothingToPressWhileWorking, Working, Enabled
  <2> QED
    BY <2>1, <2>2, <2>3 DEF UpdateIsSafe
<1> QED
  BY UpdatesInitInv, <1>1, <1>2, PTL DEF UpdatesSpec
-----------------------------------------------------------------------------
(* The settings.  What is in memory is on the disk, unless a change waits, *)
(* a write is on its way or the last one failed; what somebody wrote by    *)
(* hand was read or put aside before anything is written over it; and the  *)
(* engine and the window are told in the step that changes the memory.     *)
InCharge == process \in {"on", "leaving"}

(* Who does not edit the file by hand never has a value no control makes;  *)
(* and the view is never drawn with one.                                   *)
NoNonsense ==
  /\ ~Might("hands") =>
       \A f \in Fields : current[f] # Nonsense /\ disk.file.has[f] # Nonsense
  /\ shown["view"] # Nonsense

(* Only a running process writes, and renames what it has in memory; no    *)
(* timer outlives its window.                                              *)
WritesWhole ==
  /\ saving # "no" => InCharge
  /\ pending => process = "on"
  /\ saving = "rename" => disk.temp = Good(current)
  /\ disk.file.kind = "foreign" => unheeded = "foreign"

OnDisk ==
  /\ InCharge /\ saving = "no" /\ ~pending /\ ~failed
  /\ unheeded # "foreign" /\ ~Might("renames")
  => disk.file = Good(current)

(* Where the last edit by hand is.                                         *)
HandEditsAreThere ==
  /\ unheeded = "good" => ~InCharge /\ disk.file.kind = "good"
  /\ unheeded = "broken" /\ ~Might("renames") =>
       \/ ~InCharge /\ disk.file.kind = "broken"
       \/ disk.aside.kind = "broken"

DiskInv == NeverTorn /\ WritesWhole /\ OnDisk /\ HandEditsAreThere

SettingsInv ==
  SettingsTypeOK /\ NoNonsense /\ DiskInv /\ EngineIsTold /\ ShownAsKept

LEMMA FieldsAndValues ==
  /\ Engine \subseteq Fields /\ Folders \subseteq Fields
  /\ {"limits", "quiet", "alt", "port", "view", "language", "download"} \subseteq Fields
  /\ Default \in Values /\ Nonsense \in Values /\ Default # Nonsense /\ 1 # Nonsense /\ 1 \in Values
BY DEF Engine, Fields, Folders, Typed, Switches, Chosen, Values, Default, Nonsense

LEMMA DefaultsAreSettings == Defaults \in Settings
BY FieldsAndValues DEF Defaults, Settings

LEMMA ConfigType ==
  ASSUME NEW s \in Settings
  PROVE  /\ Config(s) \in [Engine -> Values]
         /\ (\A f \in Fields : s[f] # Nonsense) => \A f \in Engine : Config(s)[f] # Nonsense
BY FieldsAndValues DEF Config, InForce, Settings

LEMMA DrawnType == ASSUME NEW f \in Fields, NEW v \in Values PROVE Drawn(f, v) \in Values
BY FieldsAndValues DEF Drawn

LEMMA ViewIsPlain == ASSUME NEW v PROVE Drawn("view", v) # Nonsense
BY DEF Drawn, Default, Nonsense

LEMMA DrawnPlain == ASSUME NEW f, NEW v, v # Nonsense PROVE Drawn(f, v) = v
BY DEF Drawn

LEMMA KeptType == ASSUME NEW f \in Fields, NEW v \in Values PROVE Kept(f, v) \in Values \ {Nonsense}
BY FieldsAndValues DEF Kept

LEMMA DiskTypes ==
  ASSUME SettingsTypeOK
  PROVE  /\ disk = [file |-> disk.file, temp |-> disk.temp, aside |-> disk.aside]
         /\ disk.file \in File /\ disk.temp \in File /\ disk.aside \in File
         /\ disk.file = [kind |-> disk.file.kind, has |-> disk.file.has]
         /\ disk.file.has \in Settings
         /\ disk.file.kind \in {"none", "good", "broken", "foreign", "partial"}
BY DEF SettingsTypeOK, File

LEMMA FileTypes ==
  /\ \A kind \in {"none", "good", "broken", "foreign", "partial"} : File_(kind) \in File
  /\ \A s \in Settings : Good(s) \in File
BY DefaultsAreSettings DEF File_, Good, File

LEMMA SettingsInitInv == SettingsInit => SettingsInv
<1> SUFFICES ASSUME SettingsInit PROVE SettingsInv
  OBVIOUS
<1>1. SettingsTypeOK
  <2>1. /\ disk \in [file : File, temp : File, aside : File]
        /\ shown \in Settings /\ current \in Settings
        /\ edits \in 0 .. MaxEdits /\ launches \in 0 .. MaxBegins
    BY DefaultsAreSettings, FileTypes, EditsAssumption DEF SettingsInit
  <2>2. /\ told \in [Engine -> Values] /\ titles \in Values
        /\ \A f \in Engine : told[f] # Nonsense
    BY FieldsAndValues DEF SettingsInit
  <2> QED
    BY <2>1, <2>2 DEF SettingsInit, SettingsTypeOK
<1>2. NoNonsense
  <2>1. \A f \in Fields : Defaults[f] # Nonsense
    BY FieldsAndValues DEF Defaults
  <2>2. disk.file.has = Defaults
    BY DEF SettingsInit, File_
  <2> QED
    BY <2>1, <2>2, FieldsAndValues DEF SettingsInit, NoNonsense
<1>3. DiskInv
  BY DEF SettingsInit, DiskInv, NeverTorn, WritesWhole, OnDisk, HandEditsAreThere, InCharge, File_
<1>4. EngineIsTold /\ ShownAsKept
  BY DEF SettingsInit, EngineIsTold, ShownAsKept
<1> QED
  BY <1>1, <1>2, <1>3, <1>4 DEF SettingsInv

(* A call of a write: nothing that anybody sees changes.                   *)
LEMMA SavedKeepsFront ==
  ASSUME SettingsInv, NEW step, Saved(step)
  PROVE  EngineIsTold' /\ ShownAsKept'
BY DEF SettingsInv, EngineIsTold, ShownAsKept, Saved, Might

LEMMA SaveInv == ASSUME SettingsInv, Save PROVE SettingsInv'
<1>1. CASE StoreTimerFires
  <2>1. DiskInv'
    BY <1>1 DEF SettingsInv, DiskInv, NeverTorn, WritesWhole, OnDisk, HandEditsAreThere, InCharge,
                StoreTimerFires, Idle, Might
  <2>2. SettingsTypeOK' /\ NoNonsense'
    BY <1>1 DEF SettingsInv, SettingsTypeOK, NoNonsense, StoreTimerFires, Might
  <2>3. EngineIsTold' /\ ShownAsKept'
    BY <1>1 DEF SettingsInv, EngineIsTold, ShownAsKept, StoreTimerFires
  <2> QED
    BY <2>1, <2>2, <2>3 DEF SettingsInv
<1>2. CASE Create
  <2>1. disk'.file = disk.file /\ disk'.aside = disk.aside /\ disk' \in [file : File, temp : File, aside : File]
    BY <1>2, FileTypes DEF Create, SettingsInv, SettingsTypeOK
  <2>2. DiskInv'
    BY <1>2, <2>1 DEF SettingsInv, DiskInv, NeverTorn, WritesWhole, OnDisk, HandEditsAreThere, InCharge,
                Create, Saved, Might
  <2>3. SettingsTypeOK' /\ NoNonsense'
    BY <1>2, <2>1 DEF SettingsInv, SettingsTypeOK, NoNonsense, Create, Saved, Might
  <2> QED
    BY <1>2, <2>2, <2>3, SavedKeepsFront DEF SettingsInv, Create
<1>3. CASE WriteTemp
  <2>1. /\ disk'.file = disk.file /\ disk'.aside = disk.aside /\ disk'.temp = Good(current)
        /\ disk' \in [file : File, temp : File, aside : File]
    BY <1>3, FileTypes DEF WriteTemp, SettingsInv, SettingsTypeOK
  <2>2. DiskInv'
    BY <1>3, <2>1 DEF SettingsInv, DiskInv, NeverTorn, WritesWhole, OnDisk, HandEditsAreThere, InCharge,
                WriteTemp, Saved, Might, Good
  <2>3. SettingsTypeOK' /\ NoNonsense'
    BY <1>3, <2>1 DEF SettingsInv, SettingsTypeOK, NoNonsense, WriteTemp, Saved, Might
  <2> QED
    BY <1>3, <2>2, <2>3, SavedKeepsFront DEF SettingsInv, WriteTemp
<1>4. CASE Rename
  <2>1. /\ disk'.file = Good(current) /\ disk'.aside = disk.aside
        /\ disk' \in [file : File, temp : File, aside : File]
    BY <1>4, FileTypes DEF Rename, SettingsInv, SettingsTypeOK, DiskInv, WritesWhole
  <2>2. disk'.file.kind = "good" /\ disk'.file.has = current
    BY <2>1 DEF Good
  <2>3. DiskInv'
    BY <1>4, <2>1, <2>2 DEF SettingsInv, DiskInv, NeverTorn, WritesWhole, OnDisk, HandEditsAreThere,
                InCharge, Rename, Saved, Might, Good
  <2>4. SettingsTypeOK' /\ NoNonsense'
    BY <1>4, <2>1, <2>2 DEF SettingsInv, SettingsTypeOK, NoNonsense, Rename, Saved, Might
  <2> QED
    BY <1>4, <2>3, <2>4, SavedKeepsFront DEF SettingsInv, Rename
<1>5. CASE SaveFails
  <2>1. DiskInv'
    BY <1>5 DEF SettingsInv, DiskInv, NeverTorn, WritesWhole, OnDisk, HandEditsAreThere, InCharge,
                SaveFails, Saved, Might
  <2>2. SettingsTypeOK' /\ NoNonsense'
    BY <1>5 DEF SettingsInv, SettingsTypeOK, NoNonsense, SaveFails, Saved, Might
  <2> QED
    BY <1>5, <2>1, <2>2, SavedKeepsFront DEF SettingsInv, SaveFails
<1> QED
  BY <1>1, <1>2, <1>3, <1>4, <1>5 DEF Save

(* What load() leaves of the files, and what it makes of them.             *)
LEMMA LoadedIsRead ==
  ASSUME SettingsInv
  PROVE  /\ Loaded \in Settings /\ Reads \in [file : File, temp : File, aside : File]
         /\ ~Might("hands") => \A f \in Fields : Loaded[f] # Nonsense /\ Reads.file.has[f] # Nonsense
         /\ Reads.file.kind # "partial"
         /\ Reads.file.kind = "good" => Reads.file = Good(Loaded) /\ disk.file.kind = "good"
         /\ Reads.file.kind = "broken" => Might("renames")
         /\ Reads.file.kind = "foreign" => disk.file.kind = "foreign"
         /\ ~Might("renames") /\ disk.file.kind = "broken" => Reads.aside.kind = "broken"
         /\ Reads.aside = disk.aside \/ Reads.aside.kind = "broken"
         /\ ~Might("renames") /\ disk.file.kind = "good" => Reads = disk
<1>1. disk.file.kind # "partial"
  BY DEF SettingsInv, DiskInv, NeverTorn
<1>2. /\ Loaded \in Settings
      /\ Loaded = IF disk.file.kind = "good" THEN disk.file.has ELSE Defaults
  BY DiskTypes, DefaultsAreSettings DEF SettingsInv, Loaded
<1>3. CASE disk.file.kind = "broken" /\ ~Might("renames")
  <2>1. Reads = [disk EXCEPT !.aside = disk.file, !.file = File_("none")]
    BY <1>3 DEF Reads
  <2>2. /\ Reads.file = File_("none") /\ Reads.aside = disk.file
        /\ Reads \in [file : File, temp : File, aside : File]
    BY <2>1, FileTypes, DiskTypes DEF SettingsInv, SettingsTypeOK
  <2> QED
    BY <1>2, <1>3, <2>2, FieldsAndValues DEF File_, Defaults
<1>4. CASE ~(disk.file.kind = "broken" /\ ~Might("renames"))
  <2>1. Reads = disk
    BY <1>1, <1>4 DEF Reads
  <2>2. disk.file.kind = "good" => disk.file = Good(Loaded)
    BY <1>2, DiskTypes DEF Good, SettingsInv
  <2>3. ~Might("hands") => \A f \in Fields : Loaded[f] # Nonsense /\ disk.file.has[f] # Nonsense
    BY <1>2, FieldsAndValues DEF SettingsInv, NoNonsense, Defaults
  <2> QED
    BY <1>1, <1>2, <1>4, <2>1, <2>2, <2>3 DEF SettingsInv, SettingsTypeOK
<1> QED
  BY <1>3, <1>4

LEMMA BeginInv == ASSUME SettingsInv, Begin PROVE SettingsInv'
<1>1. PICK written \in {TRUE, ~Might("writes")} :
        /\ disk' = IF Reads.file.kind = "none" /\ written
                     THEN [Reads EXCEPT !.file = Good(Loaded)] ELSE Reads
        /\ failed' = (Reads.file.kind = "none" /\ ~written)
  BY DEF Begin
<1>2. /\ disk' \in [file : File, temp : File, aside : File]
      /\ disk'.aside = Reads.aside
      /\ disk'.file = Reads.file \/ disk'.file = Good(Loaded)
      /\ Reads.file.kind = "none" => failed' \/ disk'.file = Good(Loaded)
      /\ Reads.file.kind # "none" => disk'.file = Reads.file
  BY <1>1, LoadedIsRead, FileTypes DEF Might
<1>3. failed' \in BOOLEAN
  BY <1>1
<1>4. /\ process' = "on" /\ saving' = "no" /\ pending' = FALSE /\ current' = Loaded
      /\ unheeded' = IF disk.file.kind = "good" THEN "none" ELSE unheeded
      /\ ~InCharge /\ user' = user
  BY DEF Begin, InCharge
<1>5. DiskInv'
  <2>1. NeverTorn' /\ WritesWhole'
    <3>1. disk'.file.kind \in {"good", Reads.file.kind}
      BY <1>2 DEF Good
    <3> QED
      BY <1>4, <3>1, LoadedIsRead DEF NeverTorn, WritesWhole, InCharge, SettingsInv, DiskInv
  <2>2. OnDisk'
    <3> SUFFICES ASSUME ~failed', unheeded' # "foreign", ~Might("renames")
                 PROVE  disk'.file = Good(Loaded)
      BY <1>4 DEF OnDisk, Might
    <3>1. Reads.file.kind \in {"none", "good", "broken", "foreign", "partial"}
      BY LoadedIsRead DEF File
    <3>2. Reads.file.kind \in {"none", "good"}
      BY <1>4, <3>1, LoadedIsRead DEF SettingsInv, DiskInv, WritesWhole
    <3> QED
      BY <1>2, <3>2, LoadedIsRead
  <2>3. HandEditsAreThere'
    <3>1. unheeded' # "good"
      BY <1>4 DEF SettingsInv, DiskInv, HandEditsAreThere
    <3>2. ASSUME unheeded' = "broken", ~Might("renames") PROVE disk'.aside.kind = "broken"
      <4>1. unheeded = "broken"
        BY <1>4, <3>2
      <4>2. disk.file.kind = "broken" \/ disk.aside.kind = "broken"
        BY <3>2, <4>1 DEF SettingsInv, DiskInv, HandEditsAreThere
      <4> QED
        BY <1>2, <3>2, <4>2, LoadedIsRead
    <3> QED
      BY <1>4, <3>1, <3>2 DEF HandEditsAreThere, Might
  <2> QED
    BY <2>1, <2>2, <2>3 DEF DiskInv
<1>6. NoNonsense'
  <2>1. shown'["view"] = Drawn("view", Loaded["view"])
    BY FieldsAndValues DEF Begin
  <2>2. disk'.file.has = Reads.file.has \/ disk'.file.has = Loaded
    BY <1>2 DEF Good
  <2> QED
    BY <1>4, <2>1, <2>2, LoadedIsRead, ViewIsPlain DEF NoNonsense, Might
<1>7. SettingsTypeOK'
  <2>1. told' \in [Engine -> Values] /\ (~Might("hands")' => \A f \in Engine : told'[f] # Nonsense)
    BY <1>4, LoadedIsRead, ConfigType DEF Begin, Might
  <2>2. shown' \in Settings /\ titles' \in Values
    BY LoadedIsRead, DrawnType, FieldsAndValues DEF Begin, Settings
  <2> QED
    <3>1. /\ unheeded' \in {"none", "good", "broken", "foreign"}
          /\ asking' \subseteq Folders
          /\ edits' \in 0 .. MaxEdits /\ user' \in Users
      BY <1>4 DEF Begin, SettingsInv, SettingsTypeOK
    <3>2. launches' \in 0 .. MaxBegins
      BY EditsAssumption DEF Begin, SettingsInv, SettingsTypeOK
    <3> QED
      BY <1>2, <1>3, <1>4, <2>1, <2>2, <3>1, <3>2, LoadedIsRead DEF SettingsTypeOK
<1>8. EngineIsTold' /\ ShownAsKept'
  <2>1. told' = Config(current')
    BY <1>4 DEF Begin
  <2>2. \A f \in Fields : shown'[f] = Drawn(f, current'[f])
    BY <1>4 DEF Begin
  <2>3. titles' = Drawn("language", current'["language"])
    BY <1>4 DEF Begin
  <2> QED
    BY <2>1, <2>2, <2>3 DEF EngineIsTold, ShownAsKept
<1> QED
  BY <1>5, <1>6, <1>7, <1>8 DEF SettingsInv

LEMMA EndInv == ASSUME SettingsInv, Close \/ Exit \/ Kill PROVE SettingsInv'
<1>1. EngineIsTold' /\ ShownAsKept'
  BY DEF Close, Exit, Kill, EngineIsTold, ShownAsKept
<1>2. CASE Close
  <2> DEFINE last == [current EXCEPT !["view"] = shown["view"]]
  <2>1. /\ current' = last /\ last \in Settings
        /\ saving' \in {"no", "create"} /\ (saving' = "no" => ~pending /\ last = current)
        /\ pending' = FALSE /\ asking' = {}
    BY <1>2, FieldsAndValues DEF Close, Flush, SettingsInv, SettingsTypeOK, Settings
  <2>2. DiskInv'
    BY <1>2, <2>1 DEF Close, Idle, SettingsInv, DiskInv, NeverTorn, WritesWhole, OnDisk, HandEditsAreThere,
                InCharge, Might
  <2>3. NoNonsense'
    BY <1>2, <2>1, FieldsAndValues DEF Close, SettingsInv, SettingsTypeOK, Settings, NoNonsense, Might
  <2>4. SettingsTypeOK'
    BY <1>2, <2>1 DEF Close, SettingsInv, SettingsTypeOK, Might
  <2> QED
    BY <1>1, <2>2, <2>3, <2>4 DEF SettingsInv
<1>3. CASE Exit \/ Kill
  <2>1. DiskInv'
    BY <1>3 DEF Exit, Kill, SettingsInv, DiskInv, NeverTorn, WritesWhole, OnDisk, HandEditsAreThere,
                InCharge, Might
  <2>2. SettingsTypeOK' /\ NoNonsense'
    BY <1>3 DEF Exit, Kill, SettingsInv, SettingsTypeOK, NoNonsense, Might
  <2> QED
    BY <1>1, <2>1, <2>2 DEF SettingsInv
<1> QED
  BY <1>2, <1>3

(* Somebody edits the file, or spoils it, while nothing runs.              *)
LEMMA EditFileInv == ASSUME SettingsInv, EditFile PROVE SettingsInv'
<1>1. /\ disk' \in [file : File, temp : File, aside : File]
      /\ disk'.file.kind \in {"good", "broken", "foreign"}
      /\ unheeded' = disk'.file.kind
      /\ disk'.temp = disk.temp /\ disk'.aside = disk.aside
  <2>1. CASE \E f \in user.touches, v \in Values :
               disk' = [disk EXCEPT !.file = Good([disk.file.has EXCEPT ![f] = v])]
    <3>1. PICK f \in user.touches, v \in Values :
            disk' = [disk EXCEPT !.file = Good([disk.file.has EXCEPT ![f] = v])]
      BY <2>1
    <3>2. [disk.file.has EXCEPT ![f] = v] \in Settings
      BY DiskTypes DEF SettingsInv, Settings
    <3>3. Good([disk.file.has EXCEPT ![f] = v]) \in File
      BY <3>2, FileTypes
    <3> QED
      BY <3>1, <3>3 DEF EditFile, SettingsInv, SettingsTypeOK, Good
  <2>2. CASE disk' = [disk EXCEPT !.file = File_("broken")]
    BY <2>2, FileTypes DEF EditFile, SettingsInv, SettingsTypeOK, File_
  <2>3. CASE disk' = [disk EXCEPT !.file = File_("foreign")]
    BY <2>3, FileTypes DEF EditFile, SettingsInv, SettingsTypeOK, File_
  <2> QED
    BY <2>1, <2>2, <2>3 DEF EditFile
<1>2. Might("hands") /\ ~InCharge /\ ~InCharge'
  BY DEF EditFile, InCharge
<1>3. DiskInv'
  BY <1>1, <1>2 DEF EditFile, SettingsInv, DiskInv, NeverTorn, WritesWhole, OnDisk, HandEditsAreThere,
                    InCharge
<1>4. SettingsTypeOK'
  BY <1>1, <1>2, EditsAssumption DEF EditFile, SettingsInv, SettingsTypeOK, Might
<1>5. NoNonsense'
  BY <1>2 DEF EditFile, SettingsInv, NoNonsense, Might
<1>6. EngineIsTold' /\ ShownAsKept'
  BY <1>2 DEF EngineIsTold, ShownAsKept, InCharge
<1> QED
  BY <1>3, <1>4, <1>5, <1>6 DEF SettingsInv

-----------------------------------------------------------------------------
(* The panel.  A change goes to the memory with the timer started, and     *)
(* leaves the files alone.                                                 *)
LEMMA UpdateKeepsDisk ==
  ASSUME SettingsInv, Idle, NEW s \in Settings, Update(s),
         UNCHANGED <<process, saving, disk, failed, unheeded, user>>
  PROVE  DiskInv' /\ current' \in Settings /\ pending' \in BOOLEAN
BY DEF SettingsInv, SettingsTypeOK, DiskInv, NeverTorn, WritesWhole, OnDisk, HandEditsAreThere,
       InCharge, Idle, Update, Might

LEMMA SameKeepsDisk ==
  ASSUME SettingsInv, UNCHANGED <<process, current, pending, saving, disk, failed, unheeded, user>>
  PROVE  DiskInv'
BY DEF SettingsInv, DiskInv, NeverTorn, WritesWhole, OnDisk, HandEditsAreThere, InCharge, Might

(* One field changes: the rest of what the engine is told is as it was.    *)
LEMMA TellsIsEnough ==
  ASSUME SettingsInv, process = "on",
         NEW f \in Fields, NEW v \in Values,
         Tells(f, [current EXCEPT ![f] = v])
  PROVE  /\ told' \in [Engine -> Values]
         /\ \A g \in Engine \ {"port"} : told'[g] = Config([current EXCEPT ![f] = v])[g]
         /\ ~Might("hands") /\ v # Nonsense => \A g \in Engine : told'[g] # Nonsense
<1> DEFINE s == [current EXCEPT ![f] = v]
<1>1. s \in Settings /\ s[f] = v /\ \A g \in Fields \ {f} : s[g] = current[g]
  BY DEF SettingsInv, SettingsTypeOK, Settings
<1>2. Config(s) \in [Engine -> Values]
  BY <1>1, ConfigType
<1>3. /\ told \in [Engine -> Values]
      /\ \A g \in Engine \ {"port"} : told[g] = Config(current)[g]
      /\ ~Might("hands") => \A g \in Engine : told[g] # Nonsense
  BY DEF SettingsInv, SettingsTypeOK, EngineIsTold
<1>4. /\ InForce(s) \in Values
      /\ \A g \in Engine : Config(s)[g] = IF g = "limits" THEN InForce(s) ELSE s[g]
      /\ \A g \in Engine : Config(current)[g] = IF g = "limits" THEN InForce(current) ELSE current[g]
  BY <1>1, FieldsAndValues DEF Config, InForce, Settings
<1>5. ~Might("hands") /\ v # Nonsense => InForce(s) # Nonsense /\ \A g \in Fields : s[g] # Nonsense
  BY <1>1, FieldsAndValues DEF SettingsInv, NoNonsense, InForce
<1>6. CASE f \in {"limits", "quiet", "alt"}
  <2>1. told' = [told EXCEPT !["limits"] = InForce(s)]
    BY <1>6 DEF Tells
  <2>2. \A g \in Engine \ {"limits"} : s[g] = current[g] \/ g = "port"
    BY <1>1, <1>6, FieldsAndValues DEF Engine
  <2> QED
    BY <1>3, <1>4, <1>5, <2>1, <2>2
<1>7. CASE f \notin {"limits", "quiet", "alt"}
  <2>1. InForce(s) = InForce(current)
    BY <1>1, <1>7, FieldsAndValues DEF InForce
  <2>2. told' = IF f \in Engine \ {"port"} THEN [told EXCEPT ![f] = s[f]] ELSE told
    BY <1>7 DEF Tells
  <2>3. \A g \in Engine : told'[g] = IF g = f /\ g # "port" THEN v ELSE told[g]
    BY <1>1, <1>3, <2>2
  <2>4. told' \in [Engine -> Values]
    BY <1>1, <1>3, <2>2
  <2>5. \A g \in Engine \ {"port"} : told'[g] = Config(s)[g]
    <3> SUFFICES ASSUME NEW g \in Engine \ {"port"} PROVE told'[g] = Config(s)[g]
      OBVIOUS
    <3>1. g \in Fields /\ told'[g] = IF g = f THEN v ELSE Config(current)[g]
      BY <1>3, <2>3, FieldsAndValues
    <3>2. /\ Config(current)[g] = IF g = "limits" THEN InForce(current) ELSE current[g]
          /\ Config(s)[g] = IF g = "limits" THEN InForce(s) ELSE s[g]
      BY <1>4
    <3> HIDE DEF s
    <3> QED
      BY <1>1, <1>7, <2>1, <3>1, <3>2
  <2>6. ~Might("hands") /\ v # Nonsense => \A g \in Engine : told'[g] # Nonsense
    BY <1>3, <2>3
  <2> QED
    BY <2>4, <2>5, <2>6
<1> QED
  BY <1>6, <1>7

(* A change of one field, kept, told and drawn in one step.                *)
LEMMA ChangeInv ==
  ASSUME SettingsInv, Idle,
         NEW f \in Fields, NEW v \in Values \ {Nonsense},
         Update([current EXCEPT ![f] = v]), Tells(f, [current EXCEPT ![f] = v]),
         shown' = [shown EXCEPT ![f] = v],
         titles' = IF f = "language" THEN v ELSE titles,
         asking' \subseteq Folders, edits' \in 0 .. MaxEdits,
         UNCHANGED <<process, saving, disk, failed, unheeded, launches, user>>
  PROVE  SettingsInv'
<1> DEFINE s == [current EXCEPT ![f] = v]
<1>1. s \in Settings /\ s[f] = v /\ \A g \in Fields \ {f} : s[g] = current[g]
  BY DEF SettingsInv, SettingsTypeOK, Settings
<1>2. current' = s
  BY DEF Update
<1>3. DiskInv' /\ pending' \in BOOLEAN
  BY <1>1, UpdateKeepsDisk
<1>4. /\ told' \in [Engine -> Values] /\ EngineIsTold'
      /\ ~Might("hands") => \A g \in Engine : told'[g] # Nonsense
  BY <1>2, TellsIsEnough DEF EngineIsTold, Idle
<1>5. shown' \in Settings /\ \A g \in Fields : shown'[g] = IF g = f THEN v ELSE shown[g]
  BY DEF SettingsInv, SettingsTypeOK, Settings
<1>6. NoNonsense'
  BY <1>1, <1>2, <1>5, FieldsAndValues DEF SettingsInv, NoNonsense, Might
<1>7. ShownAsKept'
  <2>1. Drawn(f, v) = v
    BY DrawnPlain
  <2> QED
    BY <1>1, <1>2, <1>5, <2>1, FieldsAndValues DEF SettingsInv, ShownAsKept, Idle
<1>8. SettingsTypeOK'
  BY <1>1, <1>2, <1>3, <1>4, <1>5 DEF SettingsInv, SettingsTypeOK, Might
<1> QED
  BY <1>3, <1>4, <1>6, <1>7, <1>8 DEF SettingsInv

(* Nothing but a dialog that opens or closes.                              *)
LEMMA DialogInv ==
  ASSUME SettingsInv, asking' \subseteq Folders, edits' \in 0 .. MaxEdits,
         UNCHANGED <<process, current, pending, saving, disk, shown, titles, told, failed, unheeded,
                     launches, user>>
  PROVE  SettingsInv'
BY SameKeepsDisk
DEF SettingsInv, SettingsTypeOK, NoNonsense, EngineIsTold, ShownAsKept, Might

LEMMA EditsGrow == ASSUME SettingsInv, edits < MaxEdits, edits' = edits + 1 PROVE edits' \in 0 .. MaxEdits
BY EditsAssumption DEF SettingsInv, SettingsTypeOK

LEMMA SetInv ==
  ASSUME SettingsInv, NEW f \in Fields, NEW v \in Values, Set(f, v) PROVE SettingsInv'
<1>1. Kept(f, v) \in Values \ {Nonsense}
  BY KeptType
<1>2. [current EXCEPT ![f] = Kept(f, v)][f] = Kept(f, v)
  BY DEF SettingsInv, SettingsTypeOK, Settings
<1>3. edits' \in 0 .. MaxEdits
  BY EditsGrow DEF Set, Handles
<1>4. asking' \subseteq Folders
  BY DEF Set, SettingsInv, SettingsTypeOK
<1> QED
  BY <1>1, <1>2, <1>3, <1>4, ChangeInv DEF Set, Handles

LEMMA PickedInv ==
  ASSUME SettingsInv, NEW f \in Fields, NEW v \in Values, Picked(f, v) PROVE SettingsInv'
<1>1. asking' \subseteq Folders /\ edits' \in 0 .. MaxEdits
  BY DEF Picked, SettingsInv, SettingsTypeOK
<1>2. CASE v = current[f]
  BY <1>1, <1>2, DialogInv DEF Picked
<1>3. CASE v # current[f]
  <2>1. f # "language"
    BY DEF Picked, SettingsInv, SettingsTypeOK, Folders
  <2> QED
    BY <1>1, <1>3, <2>1, ChangeInv DEF Picked
<1> QED
  BY <1>2, <1>3

LEMMA ClearInv == ASSUME SettingsInv, NEW f \in Fields, Clear(f) PROVE SettingsInv'
<1>1. f # "language" /\ asking' \subseteq Folders
  BY DEF Clear, SettingsInv, SettingsTypeOK
<1>2. edits' \in 0 .. MaxEdits
  BY EditsGrow DEF Clear, Handles
<1> QED
  BY <1>1, <1>2, FieldsAndValues, ChangeInv DEF Clear, Handles

LEMMA ArrangeInv ==
  ASSUME SettingsInv, NEW f \in Fields, NEW v \in Values, Arrange(f, v) PROVE SettingsInv'
<1>1. f # "language" /\ asking' \subseteq Folders
  BY DEF Arrange, SettingsInv, SettingsTypeOK
<1>2. edits' \in 0 .. MaxEdits
  BY EditsGrow DEF Arrange, Handles
<1>3. Tells(f, [current EXCEPT ![f] = v])
  BY DEF Arrange, Tells, Engine
<1> QED
  BY <1>1, <1>2, <1>3, ChangeInv DEF Arrange, Handles

(* A reset tells the engine all that it holds, and the window all but what *)
(* it leaves as it was.                                                    *)
LEMMA ResetAllInv == ASSUME SettingsInv, ResetAll PROVE SettingsInv'
<1> DEFINE s == Reset(current)
<1>1. /\ s \in Settings /\ s["download"] = current["download"]
      /\ \A f \in Fields \ {"download"} : s[f] = Default
  BY DefaultsAreSettings, FieldsAndValues DEF Reset, Defaults, Settings, SettingsInv, SettingsTypeOK
<1>2. /\ current' = s /\ process = "on" /\ user.resets
      /\ UNCHANGED <<process, saving, disk, failed, unheeded, titles, asking, launches, user>>
  BY DEF ResetAll, Update, Idle
<1>3. DiskInv' /\ pending' \in BOOLEAN
  BY <1>1, UpdateKeepsDisk DEF ResetAll
<1>4. told \in [Engine -> Values] /\ shown \in Settings /\ current \in Settings
  BY DEF SettingsInv, SettingsTypeOK
<1>5. InForce(s) = Default
  BY <1>1, FieldsAndValues DEF InForce
<1>6. /\ told' \in [Engine -> Values]
      /\ \A f \in Engine \ {"port"} : told'[f] = IF f = "download" THEN told[f] ELSE Default
      /\ told'["port"] = told["port"]
  BY <1>1, <1>4, <1>5, FieldsAndValues DEF ResetAll, ToldAgain, Engine
<1>7. EngineIsTold'
  <2>1. told["download"] = current["download"]
    BY <1>2 DEF SettingsInv, EngineIsTold, Config, Engine
  <2>2. \A f \in Engine : Config(s)[f] = IF f = "download" THEN current[f] ELSE Default
    BY <1>1, <1>5, FieldsAndValues DEF Config
  <2> QED
    BY <1>2, <1>6, <2>1, <2>2 DEF EngineIsTold
<1>8. shown' \in Settings /\ \A f \in Fields : shown'[f] = IF f \in NotRedrawn THEN shown[f] ELSE s[f]
  BY <1>1, <1>4 DEF ResetAll, Settings
<1>9. ShownAsKept'
  <2>1. \A f \in Fields \ NotRedrawn : s[f] = Drawn(f, s[f])
    <3>1. Drawn("download", s["download"]) = s["download"]
      BY DEF Drawn
    <3> QED
      BY <1>1, <3>1, DrawnPlain, FieldsAndValues
  <2> QED
    BY <1>2, <1>8, <2>1 DEF ShownAsKept
<1>10. NoNonsense'
  <2>1. "view" \in NotRedrawn
    BY DEF NotRedrawn
  <2> QED
    BY <1>1, <1>2, <1>8, <2>1, FieldsAndValues DEF SettingsInv, NoNonsense, Might
<1>11. SettingsTypeOK'
  <2>1. edits' \in 0 .. MaxEdits
    BY EditsGrow DEF ResetAll
  <2>2. ~Might("hands") => \A f \in Engine : told'[f] # Nonsense
    BY <1>6, FieldsAndValues DEF SettingsInv, SettingsTypeOK
  <2> QED
    BY <1>1, <1>2, <1>3, <1>6, <1>8, <2>1, <2>2 DEF SettingsInv, SettingsTypeOK, Might
<1> QED
  BY <1>3, <1>7, <1>9, <1>10, <1>11 DEF SettingsInv

LEMMA PanelInv == ASSUME SettingsInv, Panel PROVE SettingsInv'
<1>1. ASSUME NEW f \in Fields, AskFolder(f) PROVE SettingsInv'
  <2>1. edits' \in 0 .. MaxEdits
    BY <1>1, EditsGrow DEF AskFolder, Handles
  <2>2. asking' \subseteq Folders
    BY <1>1 DEF AskFolder, SettingsInv, SettingsTypeOK
  <2> QED
    BY <1>1, <2>1, <2>2, DialogInv DEF AskFolder, Handles
<1>2. ASSUME NEW f \in Fields, Dismissed(f) PROVE SettingsInv'
  <2>1. asking' \subseteq Folders /\ edits' \in 0 .. MaxEdits
    BY <1>2 DEF Dismissed, SettingsInv, SettingsTypeOK
  <2> QED
    BY <1>2, <2>1, DialogInv DEF Dismissed
<1> QED
  BY <1>1, <1>2, SetInv, PickedInv, ArrangeInv, ClearInv, ResetAllInv DEF Panel

(* The download folder is changed by nothing but its picker.               *)
LEMMA FolderStep ==
  ASSUME SettingsInv, SettingsNext,
         process = "on", process' = "on", current'["download"] # current["download"]
  PROVE  "download" \in asking \ asking'
<1>1. current \in Settings
  BY DEF SettingsInv, SettingsTypeOK
<1>2. \A f \in Fields \ {"download"}, v \in Values :
        [current EXCEPT ![f] = v]["download"] = current["download"]
  BY <1>1, FieldsAndValues DEF Settings
<1>3. ~(Begin \/ Save \/ Close \/ Exit \/ Kill \/ EditFile)
  BY DEF Begin, Save, StoreTimerFires, Create, WriteTemp, Rename, SaveFails, Saved, Close, Exit, Kill,
         EditFile
<1>4. ASSUME NEW f \in Fields, AskFolder(f) \/ Dismissed(f) \/ Clear(f) PROVE FALSE
  BY <1>2, <1>4, FieldsAndValues DEF AskFolder, Dismissed, Clear, Handles, Update
<1>5. ASSUME NEW f \in Fields, NEW v \in Values, Set(f, v) \/ Arrange(f, v) PROVE FALSE
  <2>1. f # "download" /\ Kept(f, v) \in Values
    BY <1>5, KeptType DEF Set, Arrange, Typed, Switches, Chosen
  <2>2. CASE Set(f, v)
    BY <1>2, <2>1, <2>2 DEF Set, Update
  <2>3. CASE Arrange(f, v)
    BY <1>2, <2>1, <2>3 DEF Arrange, Update
  <2> QED
    BY <1>5, <2>2, <2>3
<1>6. ~ResetAll
  BY <1>1, FieldsAndValues DEF ResetAll, Update, Reset, Defaults
<1>7. PICK f \in Fields, v \in Values : Picked(f, v)
  BY <1>3, <1>4, <1>5, <1>6 DEF SettingsNext, Panel
<1>8. f = "download"
  BY <1>2, <1>7 DEF Picked, Update
<1> QED
  BY <1>7, <1>8 DEF Picked

(* The file, the window and the engine all have the settings as they were  *)
(* last changed, and a reset leaves the download folder, for any number of *)
(* edits and launches and whatever the user touches.                       *)
THEOREM SettingsAreTheUsers == SettingsSpec => SettingsAreKept
<1>1. SettingsInv /\ [SettingsNext]_settingVars => SettingsInv'
  <2> SUFFICES ASSUME SettingsInv, [SettingsNext]_settingVars PROVE SettingsInv'
    OBVIOUS
  <2>1. CASE UNCHANGED settingVars
    BY <2>1, SameKeepsDisk
    DEF settingVars, SettingsInv, SettingsTypeOK, NoNonsense, EngineIsTold, ShownAsKept, Might
  <2> QED
    BY <2>1, BeginInv, SaveInv, EndInv, EditFileInv, PanelInv DEF SettingsNext
<1>2. SettingsInv =>
        /\ SettingsTypeOK /\ NeverTorn /\ NothingLostOnTheWayOut /\ HandEditsSurvive
        /\ EngineIsTold /\ ShownAsKept
  <2> SUFFICES ASSUME SettingsInv PROVE NothingLostOnTheWayOut /\ HandEditsSurvive
    BY DEF SettingsInv, DiskInv
  <2>1. NothingLostOnTheWayOut
    BY DEF SettingsInv, DiskInv, WritesWhole, OnDisk, InCharge, NothingLostOnTheWayOut
  <2>2. HandEditsSurvive
    BY DEF SettingsInv, DiskInv, HandEditsAreThere, HandEditsSurvive
  <2> QED
    BY <2>1, <2>2
<1>3. SettingsInv /\ [SettingsNext]_settingVars =>
        [process = "on" /\ process' = "on" /\ current'["download"] # current["download"]
           => "download" \in asking \ asking']_settingVars
  BY FolderStep
<1> QED
  BY SettingsInitInv, <1>1, <1>2, <1>3, PTL DEF SettingsSpec, SettingsAreKept, FolderStays
=============================================================================
