--------------------------- MODULE ArrivalProofs ----------------------------
(***************************************************************************)
(* A torrent is never dropped from the session for a place where its files *)
(* are not: for any torrents, commands, failures and crashes.              *)
(***************************************************************************)
EXTENDS Arrival, ManagedTorrentProofs, FiniteSetTheorems

(* What the carrying has made sure of when it gets to each of its stages.  *)
Carried ==
  moving.on =>
    /\ moving.task = "copying" => Source # "none" /\ Target # "none" /\ moving.src # "none"
    /\ moving.task \in {"copied", "moved"} => Target # "none"

(* While a move is being completed no other one has begun.                 *)
Completing ==
  phase \in {"forget", "add"} /\ rebuild.then = "start" =>
    ~moving.on /\ disk[rebuild.what][rebuild.at] # "none"

(* An id without a torrent behind it has nothing that could run.           *)
Absent == \A i \in Ids \ session : tor[i] = Nobody

Inv == TypeOK /\ Absent /\ Carried /\ Completing

(* Nobody but the carrier takes files away.                                *)
Grows == \A t \in Torrents, p \in Places : disk[t][p] # "none" => disk'[t][p] # "none"

(* A step that leaves files where they are, and begins at most a move that *)
(* has done nothing yet.                                                   *)
LEMMA QuietStep ==
  ASSUME Inv, TypeOK', Absent', Grows,
         moving' = moving \/ ~moving'.on \/ moving'.task = "begun",
         phase' \in {"forget", "add"} /\ rebuild'.then = "start" =>
           phase \in {"forget", "add"} /\ rebuild' = rebuild /\ moving' = moving
  PROVE  Inv'
<1>1. moving.what \in Torrents /\ rebuild.what \in Torrents /\ rebuild.at \in Places
  BY DEF Inv, TypeOK
<1>2. Carried'
  BY <1>1 DEF Inv, Carried, Grows, Source, Target, Places
<1>3. Completing'
  BY <1>1 DEF Inv, Completing, Grows
<1> QED BY <1>2, <1>3 DEF Inv

----------------------------------------------------------------------------
LEMMA NobodyType == Nobody \in Torrent
BY MaxInitsAssumption DEF Nobody, Torrent, States, Inits

(* No move and no rebuild are a move and a rebuild.                        *)
LEMMA NothingType ==
  /\ NoMove \in [on : BOOLEAN, id : Ids, what : Torrents, run : BOOLEAN, task : Carrying,
                 from : Places, src : {"none", "part", "all"}]
  /\ NoRebuild \in [id : Ids, what : Torrents, at : Places, run : BOOLEAN,
                    then : {"queue", "start"}]
  /\ NoMove.on = FALSE
<1>1. 0 \in Ids /\ (CHOOSE t \in Torrents : TRUE) \in Torrents
  BY ListAssumption
<1> QED BY <1>1 DEF NoMove, NoRebuild, Places, Carrying

LEMMA InitInv == Init => Inv
<1> SUFFICES ASSUME Init
             PROVE  Inv
  OBVIOUS
<1>1. disk \in [Torrents -> [Places -> {"none", "part", "all"}]]
  BY DEF Init, OnlyAt
<1>2. session \subseteq Ids /\ what \in [Ids -> Torrents] /\ have \subseteq session
  BY ListAssumption DEF Init
<1>3. at \in [Ids -> Places] /\ was \in [Ids -> {"unseen", "no", "yes"}]
  BY DEF Init, Places
<1>4. tor \in [Ids -> Torrent]
  BY NobodyType DEF Init, Nobody, Torrent, States
<1>5. /\ diskPaused = {} /\ entries = session /\ wanted = session /\ arrived = {}
      /\ keeping \in BOOLEAN /\ moving = NoMove /\ rebuild = NoRebuild
      /\ phase = "idle" /\ listed = Torrents /\ commands = 0 /\ crashes = 0
  BY DEF Init
<1>6. TypeOK
  BY <1>1, <1>2, <1>3, <1>4, <1>5, NothingType, ArrivalAssumption DEF TypeOK, Phases
<1>7. Absent
  BY DEF Init, Absent
<1>8. Carried /\ Completing
  BY <1>5, NothingType DEF Carried, Completing
<1> QED BY <1>6, <1>7, <1>8 DEF Inv

----------------------------------------------------------------------------
(* The commands.                                                           *)

LEMMA UnpausedType ==
  ASSUME TypeOK, Absent, NEW i \in Ids, Unpaused(i), session' = session
  PROVE  tor' \in [Ids -> Torrent] /\ diskPaused' \subseteq session /\ Absent'
<1>1. CASE i \in session
  <2>1. Started(tor[i], FALSE) \in Torrent
    BY StartedType DEF TypeOK, Unpaused
  <2>2. tor' = [tor EXCEPT ![i] = Started(tor[i], FALSE)]
    BY <1>1 DEF Unpaused
  <2>3. tor \in [Ids -> Torrent]
    BY DEF TypeOK
  <2>5. tor' \in [Ids -> Torrent]
    BY <2>1, <2>2, <2>3
  <2>6. Absent'
    BY <1>1, <2>2, <2>3 DEF Absent
  <2>4. diskPaused' \subseteq session
    BY DEF TypeOK, Unpaused
  <2> QED BY <2>4, <2>5, <2>6
<1>2. CASE i \notin session
  BY <1>2 DEF TypeOK, Unpaused, Absent
<1> QED BY <1>1, <1>2

LEMMA StopType ==
  ASSUME TypeOK, Absent, NEW i \in Ids, Stop(i), session' = session
  PROVE  tor' \in [Ids -> Torrent] /\ diskPaused' \subseteq session /\ Absent'
<1>1. Paused(tor[i]) \in Torrent
  BY PausedType DEF TypeOK
<1>2. CASE i \in session
  BY <1>1, <1>2 DEF TypeOK, Stop, Absent
<1>3. CASE i \notin session
  <2>1. tor[i] = Nobody
    BY <1>3 DEF Absent
  <2>2. Paused(Nobody) = Nobody /\ PauseFails(Nobody)
    BY DEF Nobody, Paused, PauseFails
  <2> QED BY <1>1, <1>3, <2>1, <2>2 DEF TypeOK, Stop, Absent
<1> QED BY <1>2, <1>3

LEMMA DeletedType ==
  ASSUME TypeOK, Absent, NEW i \in Ids, Deleted(i)
  PROVE  /\ session' \subseteq Ids /\ diskPaused' \subseteq session'
         /\ tor' \in [Ids -> Torrent] /\ have' \subseteq Ids /\ Absent'
BY NobodyType DEF TypeOK, Deleted, Absent

LEMMA AddAtType ==
  ASSUME TypeOK, Absent, NEW t \in Torrents, NEW p \in Places, NEW stopped \in BOOLEAN,
         AddAt(t, p, stopped)
  PROVE  /\ NextId \in Ids
         /\ session' \subseteq Ids /\ what' \in [Ids -> Torrents] /\ at' \in [Ids -> Places]
         /\ disk' \in [Torrents -> [Places -> {"none", "part", "all"}]] /\ Grows
         /\ diskPaused' \subseteq session' /\ tor' \in [Ids -> Torrent]
         /\ have' \subseteq Ids /\ Absent'
<1>1. Added(stopped) \in Torrent
  BY AddedType
<1> HIDE DEF NextId
<1>2. NextId \in Ids /\ session' = session \union {NextId}
  BY DEF AddAt
<1>3. /\ disk' \in [Torrents -> [Places -> {"none", "part", "all"}]]
      /\ Grows
  BY DEF AddAt, TypeOK, Grows
<1>4. what' \in [Ids -> Torrents] /\ at' \in [Ids -> Places] /\ have' \subseteq Ids
  BY <1>2 DEF AddAt, TypeOK
<1>5. tor' \in [Ids -> Torrent] /\ diskPaused' \subseteq session' /\ Absent'
  BY <1>1, <1>2 DEF AddAt, TypeOK, Absent
<1> QED BY <1>2, <1>3, <1>4, <1>5 DEF TypeOK

LEMMA GivenType ==
  ASSUME TypeOK, NEW habit, Given(habit)
  PROVE  commands' \in 0 .. MaxCommands
BY ArrivalAssumption DEF TypeOK, Given

LEMMA CommandInv ==
  ASSUME Inv, Command
  PROVE  Inv'
<1> USE DEF Inv
<1>1. ASSUME NEW i \in Ids, SetRunning(i)
      PROVE  Inv'
  <2>1. tor' \in [Ids -> Torrent] /\ diskPaused' \subseteq session /\ Absent'
    BY <1>1, UnpausedType DEF SetRunning
  <2>2. commands' \in 0 .. MaxCommands
    BY <1>1, GivenType DEF SetRunning
  <2>3. TypeOK'
    BY <1>1, <2>1, <2>2 DEF SetRunning, Turn, Phases, TypeOK
  <2> QED BY <1>1, <2>1, <2>3, QuietStep DEF SetRunning, Turn, Grows
<1>2. ASSUME NEW i \in Ids, SetStopped(i)
      PROVE  Inv'
  <2>1. tor' \in [Ids -> Torrent] /\ diskPaused' \subseteq session /\ Absent'
    BY <1>2, StopType DEF SetStopped
  <2>2. commands' \in 0 .. MaxCommands
    BY <1>2, GivenType DEF SetStopped
  <2>3. TypeOK'
    BY <1>2, <2>1, <2>2 DEF SetStopped, Turn, Phases, TypeOK
  <2> QED BY <1>2, <2>1, <2>3, QuietStep DEF SetStopped, Turn, Grows
<1>3. ASSUME NEW i \in Ids, Remove(i)
      PROVE  Inv'
  <2>1. /\ session' \subseteq Ids /\ diskPaused' \subseteq session'
        /\ tor' \in [Ids -> Torrent] /\ have' \subseteq Ids /\ Absent'
    BY <1>3, DeletedType DEF Remove
  <2>2. commands' \in 0 .. MaxCommands
    BY <1>3, GivenType DEF Remove
  <2>3. TypeOK'
    BY <1>3, <2>1, <2>2 DEF Remove, Turn, Phases, TypeOK
  <2> QED BY <1>3, <2>1, <2>3, QuietStep DEF Remove, Turn, Grows
<1>4. ASSUME NEW i \in Ids, Recheck(i)
      PROVE  Inv'
  <2>1. commands' \in 0 .. MaxCommands
    BY <1>4, GivenType DEF Recheck
  <2>2. rebuild'.then = "queue" /\ phase' = "forget"
    BY <1>4 DEF Recheck
  <2>3. TypeOK'
    BY <1>4, <2>1 DEF Recheck, stored, Phases, TypeOK
  <2>4. Absent' /\ Grows /\ moving' = moving
    BY <1>4 DEF Recheck, stored, Absent, Grows
  <2> QED BY <2>2, <2>3, <2>4, QuietStep
<1>5. ASSUME NEW t \in Torrents, Add(t)
      PROVE  Inv'
  <2>1. /\ NextId \in Ids
        /\ session' \subseteq Ids /\ what' \in [Ids -> Torrents] /\ at' \in [Ids -> Places]
        /\ disk' \in [Torrents -> [Places -> {"none", "part", "all"}]] /\ Grows
        /\ diskPaused' \subseteq session' /\ tor' \in [Ids -> Torrent]
        /\ have' \subseteq Ids /\ Absent'
    BY <1>5, AddAtType DEF Add, Places
  <2>2. commands' \in 0 .. MaxCommands
    BY <1>5, GivenType DEF Add
  <2> HIDE DEF NextId
  <2>3. TypeOK'
    BY <1>5, <2>1, <2>2 DEF Add, Turn, Phases, TypeOK
  <2> QED BY <1>5, <2>1, <2>3, QuietStep DEF Add, Turn
<1>6. CASE SetKeepDir
  <2>1. commands' \in 0 .. MaxCommands
    BY <1>6, GivenType DEF SetKeepDir
  <2>2. TypeOK' /\ Absent' /\ Grows
    BY <1>6, <2>1 DEF SetKeepDir, Turn, Phases, TypeOK, stored, Absent, Grows
  <2> QED BY <1>6, <2>2, QuietStep DEF SetKeepDir, Turn
<1> QED BY <1>1, <1>2, <1>3, <1>4, <1>5, <1>6 DEF Command

----------------------------------------------------------------------------
(* The turn of the loop.                                                   *)

(* A step that touches neither the torrents nor the disk.                  *)
LEMMA IdleStep ==
  ASSUME Inv, UNCHANGED <<disk, session, tor>>, TypeOK',
         moving' = moving \/ ~moving'.on,
         phase' \in {"forget", "add"} => phase \in {"forget", "add"} /\ rebuild' = rebuild
                                         /\ moving' = moving
  PROVE  Inv'
<1>1. Absent' /\ Grows
  BY DEF Inv, Absent, Grows
<1> QED BY <1>1, QuietStep

LEMMA QueueInv ==
  ASSUME Inv, Tick \/ QueueDone \/ \E i \in Ids : GiveTurn(i)
  PROVE  Inv'
<1> USE DEF Inv
<1>1. CASE Tick \/ QueueDone
  <2>1. TypeOK'
    BY <1>1 DEF Tick, QueueDone, Turn, stored, Phases, TypeOK
  <2> QED BY <1>1, <2>1, IdleStep DEF Tick, QueueDone, Turn, stored
<1>2. ASSUME NEW i \in Ids, GiveTurn(i)
      PROVE  Inv'
  <2>1. tor' \in [Ids -> Torrent] /\ diskPaused' \subseteq session /\ Absent'
    BY <1>2, UnpausedType DEF GiveTurn
  <2>2. TypeOK'
    BY <1>2, <2>1 DEF GiveTurn, TypeOK
  <2> QED BY <1>2, <2>1, <2>2, QuietStep DEF GiveTurn, Grows
<1> QED BY <1>1, <1>2

(* The only step that begins to complete a move: the carrying is over, so  *)
(* the files are where the torrent goes.                                   *)
LEMMA MoveThroughInv ==
  ASSUME Inv, MoveThrough
  PROVE  Inv'
<1> USE DEF Inv
<1>1. /\ moving.on /\ moving.task = "moved" /\ moving' = NoMove /\ phase' = "forget"
      /\ rebuild' = [id |-> moving.id, what |-> moving.what, at |-> "keep",
                     run |-> moving.run, then |-> "start"]
      /\ UNCHANGED <<disk, session, tor>>
  BY DEF MoveThrough, stored
<1>2. rebuild'.what = moving.what /\ rebuild'.at = "keep"
  BY <1>1
<1>3. Target # "none"
  BY <1>1 DEF Carried
<1>4. ~moving'.on
  BY <1>1, NothingType
<1>5. rebuild' \in [id : Ids, what : Torrents, at : Places, run : BOOLEAN,
                    then : {"queue", "start"}]
  BY <1>1 DEF TypeOK, Places
<1>6. TypeOK'
  BY <1>1, <1>5, NothingType DEF MoveThrough, stored, Phases, TypeOK
<1>7. Absent'
  BY <1>1 DEF Absent
<1>8. Carried' /\ Completing'
  BY <1>1, <1>2, <1>3, <1>4 DEF Carried, Completing, Target
<1> QED BY <1>6, <1>7, <1>8

LEMMA FinishInv ==
  ASSUME Inv, NotFinished \/ MoveFailed
  PROVE  Inv'
<1> USE DEF Inv
<1>1. CASE NotFinished
  <2>1. TypeOK'
    BY <1>1 DEF NotFinished, stored, Phases, TypeOK
  <2> QED BY <1>1, <2>1, IdleStep DEF NotFinished, stored
<1>2. CASE MoveFailed
  <2>1. TypeOK'
    BY <1>2, NothingType DEF MoveFailed, stored, Phases, TypeOK
  <2> QED BY <1>2, <2>1, NothingType, IdleStep DEF MoveFailed, stored
<1> QED BY <1>1, <1>2

(* adopt_moved() puts a torrent that is in the session into the table.     *)
LEMMA AdoptedType ==
  ASSUME TypeOK, NEW id \in Ids, Adopted(id)
  PROVE  /\ entries' \subseteq Ids /\ wanted' \subseteq entries'
         /\ was' \in [Ids -> {"unseen", "no", "yes"}]
         /\ phase' \in {"queue", "start"}
         /\ rebuild' \in [id : Ids, what : Torrents, at : Places, run : BOOLEAN,
                          then : {"queue", "start"}]
<1>1. rebuild.id \in Ids /\ rebuild.then \in {"queue", "start"}
  BY DEF TypeOK
<1>2. entries' \subseteq Ids /\ wanted' \subseteq entries'
  BY <1>1 DEF Adopted, TypeOK
<1>3. was' \in [Ids -> {"unseen", "no", "yes"}]
  BY <1>1 DEF Adopted, TypeOK
<1> QED BY <1>1, <1>2, <1>3, NothingType DEF Adopted

LEMMA RebuildInv ==
  ASSUME Inv, \/ Forget \/ NothingToForget
              \/ AddBack \/ AlreadyBack \/ AddRefused
  PROVE  Inv'
<1> USE DEF Inv
<1>1. CASE Forget
  <2>1. rebuild.id \in Ids
    BY DEF TypeOK
  <2>2. /\ session' \subseteq Ids /\ diskPaused' \subseteq session'
        /\ tor' \in [Ids -> Torrent] /\ have' \subseteq Ids /\ Absent'
    BY <1>1, <2>1, DeletedType DEF Forget
  <2>3. TypeOK'
    BY <1>1, <2>2 DEF Forget, Phases, TypeOK
  <2> QED BY <1>1, <2>2, <2>3, QuietStep DEF Forget, Grows
<1>2. CASE NothingToForget \/ AddRefused
  <2>1. phase' \in {"queue", "start"}
    BY <1>2 DEF NothingToForget, AddRefused, TypeOK
  <2>2. TypeOK'
    BY <1>2, <2>1, NothingType DEF NothingToForget, AddRefused, stored, Phases, TypeOK
  <2> QED BY <1>2, <2>1, <2>2, IdleStep DEF NothingToForget, AddRefused, stored
<1>3. CASE AddBack
  <2>1. rebuild.what \in Torrents /\ rebuild.at \in Places /\ (~rebuild.run) \in BOOLEAN
    BY DEF TypeOK
  <2>2. /\ NextId \in Ids
        /\ session' \subseteq Ids /\ what' \in [Ids -> Torrents] /\ at' \in [Ids -> Places]
        /\ disk' \in [Torrents -> [Places -> {"none", "part", "all"}]] /\ Grows
        /\ diskPaused' \subseteq session' /\ tor' \in [Ids -> Torrent]
        /\ have' \subseteq Ids /\ Absent'
    BY <1>3, <2>1, AddAtType DEF AddBack
  <2> HIDE DEF NextId
  <2>3. /\ entries' \subseteq Ids /\ wanted' \subseteq entries'
        /\ was' \in [Ids -> {"unseen", "no", "yes"}]
        /\ phase' \in {"queue", "start"}
        /\ rebuild' \in [id : Ids, what : Torrents, at : Places, run : BOOLEAN,
                         then : {"queue", "start"}]
    BY <1>3, <2>2, AdoptedType DEF AddBack
  <2>4. TypeOK'
    BY <1>3, <2>2, <2>3 DEF AddBack, Phases, TypeOK
  <2> QED BY <1>3, <2>2, <2>3, <2>4, QuietStep DEF AddBack
<1>4. CASE AlreadyBack
  <2>1. PICK i \in session :
          /\ Adopted(i)
          /\ UNCHANGED <<stored, tor, have, arrived, keeping, moving, listed, commands, crashes>>
    BY <1>4 DEF AlreadyBack
  <2>2. i \in Ids
    BY DEF TypeOK
  <2>3. /\ entries' \subseteq Ids /\ wanted' \subseteq entries'
        /\ was' \in [Ids -> {"unseen", "no", "yes"}]
        /\ phase' \in {"queue", "start"}
        /\ rebuild' \in [id : Ids, what : Torrents, at : Places, run : BOOLEAN,
                         then : {"queue", "start"}]
    BY <2>1, <2>2, AdoptedType
  <2>4. TypeOK'
    BY <2>1, <2>3 DEF stored, Phases, TypeOK
  <2> QED BY <2>1, <2>3, <2>4, IdleStep DEF stored
<1> QED BY <1>1, <1>2, <1>3, <1>4

LEMMA MoverInv ==
  ASSUME Inv, NothingToStart \/ Publish \/ \E i \in Ids : Skip(i) \/ StartMove(i)
  PROVE  Inv'
<1> USE DEF Inv
<1>1. CASE NothingToStart
  <2>1. TypeOK'
    BY <1>1 DEF NothingToStart, stored, Phases, TypeOK
  <2> QED BY <1>1, <2>1, IdleStep DEF NothingToStart, stored
<1>2. CASE Publish
  <2>1. was' \in [Ids -> {"unseen", "no", "yes"}] /\ arrived' \subseteq Ids
    BY <1>2 DEF Publish, Crossed, TypeOK
  <2>2. TypeOK'
    BY <1>2, <2>1 DEF Publish, stored, Phases, TypeOK
  <2> QED BY <1>2, <2>2, IdleStep DEF Publish, stored
<1>3. ASSUME NEW i \in Ids, Skip(i)
      PROVE  Inv'
  <2>1. TypeOK'
    BY <1>3 DEF Skip, Mover, stored, TypeOK
  <2> QED BY <1>3, <2>1, IdleStep DEF Skip, Mover, stored
<1>4. ASSUME NEW i \in Ids, StartMove(i)
      PROVE  Inv'
  <2>1. tor' \in [Ids -> Torrent] /\ diskPaused' \subseteq session /\ Absent'
    BY <1>4, StopType DEF StartMove
  <2>2. /\ moving' \in [on : BOOLEAN, id : Ids, what : Torrents, run : BOOLEAN, task : Carrying,
                        from : Places, src : {"none", "part", "all"}]
        /\ moving'.task = "begun"
    BY <1>4 DEF StartMove, Carrying, TypeOK
  <2>3. TypeOK'
    BY <1>4, <2>1, <2>2 DEF StartMove, Phases, TypeOK
  <2> QED BY <1>4, <2>1, <2>2, <2>3, QuietStep DEF StartMove, Grows
<1> QED BY <1>1, <1>2, <1>3, <1>4

LEMMA LoopInv ==
  ASSUME Inv, Loop
  PROVE  Inv'
BY QueueInv, MoveThroughInv, FinishInv, RebuildInv, MoverInv DEF Loop

----------------------------------------------------------------------------
(* The carrying.                                                           *)

(* A step of the task leaves a move, and what it says of the disk.         *)
LEMMA TaskStep ==
  ASSUME Inv, NEW from \in Carrying, NEW to \in Carrying,
         NEW d \in [Places -> {"none", "part", "all"}], Task(from, to, d),
         to = "copying" => Source # "none" /\ d["home"] # "none" /\ d["keep"] # "none",
         to \in {"copied", "moved"} => d["keep"] # "none"
  PROVE  Inv'
<1> USE DEF Inv
<1>1. /\ moving.on /\ moving.what \in Torrents /\ Source \in {"none", "part", "all"}
  BY DEF Task, TypeOK, Source, Places
<1>2. /\ moving' \in [on : BOOLEAN, id : Ids, what : Torrents, run : BOOLEAN, task : Carrying,
                      from : Places, src : {"none", "part", "all"}]
      /\ moving'.on = moving.on /\ moving'.what = moving.what /\ moving'.task = to
      /\ to = "copying" => moving'.src = Source
  BY <1>1 DEF Task, TypeOK
<1>3. /\ disk' \in [Torrents -> [Places -> {"none", "part", "all"}]]
      /\ disk'[moving.what] = d
  BY <1>1 DEF Task, TypeOK
<1>4. TypeOK'
  BY <1>2, <1>3 DEF Task, TypeOK
<1>5. Absent' /\ phase' = phase /\ rebuild' = rebuild
  BY DEF Task, Absent
<1>6. Carried'
  BY <1>2, <1>3 DEF Carried, Source, Target
<1>7. Completing'
  BY <1>1, <1>5 DEF Completing
<1> QED BY <1>4, <1>5, <1>6, <1>7

LEMMA CarryInv ==
  ASSUME Inv, Carry
  PROVE  Inv'
<1> USE DEF Inv
<1> DEFINE Much == {"none", "part", "all"}
<1>1. moving.on
  BY DEF Carry, Renames, Resumes, Refuses, CopiesSome, CopiesAll, CopyFails, Drops, Task
<1>2. disk[moving.what] \in [Places -> Much] /\ Source \in Much /\ Target \in Much
      /\ moving.src \in Much
  BY DEF TypeOK, Source, Target, Places
<1>3. "home" \in Places /\ "keep" \in Places
  BY DEF Places
<1>4. CASE Renames
  <2>1. OnlyAt("keep", Source) \in [Places -> Much] /\ OnlyAt("keep", Source)["keep"] = Source
    BY <1>2, <1>3 DEF OnlyAt
  <2> QED BY <1>4, <2>1, TaskStep DEF Renames, Carrying
<1>5. CASE Resumes
  <2>1. Target # "none"
    BY <1>5 DEF Resumes, Refused
  <2> QED BY <1>2, <1>5, <2>1, TaskStep DEF Resumes, Carrying, Target
<1>6. CASE Refuses
  BY <1>2, <1>6, TaskStep DEF Refuses, Carrying
<1>7. CASE CopiesSome
  <2> DEFINE d == [disk[moving.what] EXCEPT !["keep"] = "part"]
  <2>1. d \in [Places -> Much] /\ d["home"] = Source /\ d["keep"] = "part"
    BY <1>2, <1>3 DEF Source
  <2>2. Source # "none" /\ Task("begun", "copying", d)
    BY <1>7 DEF CopiesSome
  <2> HIDE DEF d
  <2> QED BY <2>1, <2>2, TaskStep DEF Carrying
<1>8. CASE CopiesAll
  <2>1. PICK copied \in {moving.src, Source} :
          Task("copying", "copied", [disk[moving.what] EXCEPT !["keep"] = copied])
    BY <1>8 DEF CopiesAll
  <2> DEFINE d == [disk[moving.what] EXCEPT !["keep"] = copied]
  <2>2. copied \in Much /\ copied # "none"
    BY <1>1, <1>2, <2>1 DEF Task, Carried
  <2>3. d \in [Places -> Much] /\ d["keep"] = copied
    BY <1>2, <1>3, <2>2
  <2>4. Task("copying", "copied", d)
    BY <2>1
  <2> HIDE DEF d
  <2> QED BY <2>2, <2>3, <2>4, TaskStep DEF Carrying
<1>9. CASE CopyFails
  <2> DEFINE d == [disk[moving.what] EXCEPT !["keep"] = "none"]
  <2>1. d \in [Places -> Much] /\ Task("copying", "failed", d)
    BY <1>2, <1>3, <1>9 DEF CopyFails
  <2> HIDE DEF d
  <2> QED BY <2>1, TaskStep DEF Carrying
<1>10. CASE Drops
  <2>1. PICK left \in {"none", Source} :
          Task("copied", "moved", [disk[moving.what] EXCEPT !["home"] = left])
    BY <1>10 DEF Drops
  <2> DEFINE d == [disk[moving.what] EXCEPT !["home"] = left]
  <2>2. d \in [Places -> Much] /\ d["keep"] = Target
    BY <1>2, <1>3 DEF Target
  <2>3. Target # "none" /\ Task("copied", "moved", d)
    BY <1>1, <2>1 DEF Task, Carried
  <2> HIDE DEF d
  <2> QED BY <2>2, <2>3, TaskStep DEF Carrying
<1> QED BY <1>4, <1>5, <1>6, <1>7, <1>8, <1>9, <1>10 DEF Carry

----------------------------------------------------------------------------
(* The torrents, and the process.                                          *)

LEMMA LifeInv ==
  ASSUME Inv, NEW i \in Ids, CheckEnds(i) \/ Settle(i) \/ Complete(i) \/ Fail(i)
  PROVE  Inv'
<1> USE DEF Inv
<1>1. tor \in [Ids -> Torrent] /\ tor[i] \in Torrent
  BY DEF TypeOK
(* A torrent that takes a step of its own is there.                        *)
<1>2. ASSUME tor[i].tasks # {} \/ tor[i].st = "live"
      PROVE  tor[i] # Nobody
  BY <1>2 DEF Nobody
<1>3. ASSUME NEW r \in Torrent, tor' = [tor EXCEPT ![i] = r], tor[i] # Nobody,
             session' = session
      PROVE  tor' \in [Ids -> Torrent] /\ Absent'
  BY <1>1, <1>3 DEF Absent
<1>4. CASE CheckEnds(i)
  <2>1. PICK k \in tor[i].tasks :
          \E result \in Outcomes(tor[i], k) : tor' = [tor EXCEPT ![i] = Checked(tor[i], k, result)]
    BY <1>4 DEF CheckEnds
  <2>2. PICK result \in Outcomes(tor[i], k) : tor' = [tor EXCEPT ![i] = Checked(tor[i], k, result)]
    BY <2>1
  <2>3. Checked(tor[i], k, result) \in Torrent
    BY <1>1, TaskType DEF Outcomes, Results
  <2>4. have' \subseteq Ids
    BY <1>4 DEF CheckEnds, TypeOK
  <2>5. UNCHANGED <<stored, entries, wanted, was, arrived, keeping, moving, rebuild,
                    phase, listed, commands, crashes>>
    BY <1>4 DEF CheckEnds
  <2>6. tor' \in [Ids -> Torrent] /\ Absent'
    BY <1>2, <1>3, <2>2, <2>3, <2>5 DEF stored
  <2>7. TypeOK'
    BY <2>4, <2>5, <2>6 DEF TypeOK, stored
  <2> QED BY <2>5, <2>6, <2>7, QuietStep DEF Grows, stored
<1>5. CASE Settle(i)
  <2>1. PICK k \in tor[i].tasks :
          tor' = [tor EXCEPT ![i] = Settled(FinishedCheck(tor[i], k), [k EXCEPT !.fin = TRUE])]
    BY <1>5 DEF Settle
  <2> DEFINE f == FinishedCheck(tor[i], k)
  <2>2. f \in Torrent
    BY <1>1, TaskType
  <2>3. [k EXCEPT !.fin = TRUE] \in f.tasks
    BY <1>1 DEF FinishedCheck, Replace, Torrent
  <2>4. Settled(f, [k EXCEPT !.fin = TRUE]) \in Torrent
    BY <2>2, <2>3, TaskType
  <2>5. UNCHANGED <<stored, have, entries, wanted, was, arrived, keeping, moving,
                    rebuild, phase, listed, commands, crashes>>
    BY <1>5 DEF Settle
  <2>6. tor' \in [Ids -> Torrent] /\ Absent'
    BY <1>2, <1>3, <2>1, <2>4, <2>5 DEF stored
  <2>7. TypeOK'
    BY <2>5, <2>6 DEF TypeOK, stored
  <2> QED BY <2>5, <2>6, <2>7, QuietStep DEF Grows, stored
<1>6. CASE Complete(i)
  <2>1. what[i] \in Torrents /\ at[i] \in Places
    BY DEF TypeOK
  <2>2. /\ disk' \in [Torrents -> [Places -> {"none", "part", "all"}]]
        /\ Grows
    <3> DEFINE now == disk[what[i]]
               written == [now EXCEPT ![at[i]] = "all"]
               elsewhere == [p \in Places |-> IF p = at[i] THEN "none" ELSE "all"]
    <3>1. disk \in [Torrents -> [Places -> {"none", "part", "all"}]]
          /\ now \in [Places -> {"none", "part", "all"}]
      BY <2>1 DEF TypeOK
    <3>2. PICK d \in {now, written, elsewhere} :
            /\ disk' = [disk EXCEPT ![what[i]] = d]
            /\ d = elsewhere => now[at[i]] = "none"
      BY <1>6, <2>1, <3>1 DEF Complete
    <3>3. /\ d \in [Places -> {"none", "part", "all"}]
          /\ \A p \in Places : now[p] # "none" => d[p] # "none"
      BY <2>1, <3>1, <3>2
    <3> HIDE DEF written, elsewhere
    <3> QED BY <2>1, <3>1, <3>2, <3>3 DEF Grows
  <2>3. TypeOK' /\ Absent'
    BY <1>6, <2>2 DEF Complete, TypeOK, Absent
  <2> QED BY <1>6, <2>2, <2>3, QuietStep DEF Complete
<1>7. CASE Fail(i)
  <2>1. Stopped(tor[i]) \in Torrent /\ tor' = [tor EXCEPT ![i] = Stopped(tor[i])]
    BY <1>1, <1>7, StoppedType DEF Fail
  <2>2. UNCHANGED <<stored, have, entries, wanted, was, arrived, keeping, moving,
                    rebuild, phase, listed, commands, crashes>> /\ tor[i].st = "live"
    BY <1>7 DEF Fail
  <2>3. tor' \in [Ids -> Torrent] /\ Absent'
    BY <1>2, <1>3, <2>1, <2>2 DEF stored
  <2>4. TypeOK'
    BY <2>2, <2>3 DEF TypeOK, stored
  <2> QED BY <2>2, <2>3, <2>4, QuietStep DEF Grows, stored
<1> QED BY <1>4, <1>5, <1>6, <1>7

LEMMA ProcessInv ==
  ASSUME Inv, Crash \/ Load \/ Adopt
  PROVE  Inv'
<1> USE DEF Inv
<1>1. CASE Crash
  <2>1. TypeOK'
    BY <1>1, NobodyType, NothingType, ArrivalAssumption DEF Crash, stored, Phases, TypeOK
  <2>2. Absent' /\ Grows
    BY <1>1 DEF Crash, stored, Absent, Grows, TypeOK
  <2> QED BY <1>1, <2>1, <2>2, NothingType, QuietStep DEF Crash
<1>2. CASE Load
  <2>1. ASSUME NEW i \in Ids
        PROVE  Added(i \in diskPaused) \in Torrent
    <3>1. (i \in diskPaused) \in BOOLEAN
      OBVIOUS
    <3> QED BY <3>1, AddedType
  <2>2. tor' \in [Ids -> Torrent] /\ Absent'
    BY <1>2, <2>1, NobodyType DEF Load, Absent
  <2>3. disk' \in [Torrents -> [Places -> {"none", "part", "all"}]] /\ Grows
    BY <1>2 DEF Load, Grows, TypeOK
  <2>4. TypeOK'
    BY <1>2, <2>2, <2>3 DEF Load, Phases, TypeOK
  <2> QED BY <1>2, <2>2, <2>3, <2>4, QuietStep DEF Load
<1>3. CASE Adopt
  <2>1. TypeOK'
    BY <1>3 DEF Adopt, stored, Phases, TypeOK
  <2> QED BY <1>3, <2>1, IdleStep DEF Adopt, stored
<1> QED BY <1>1, <1>2, <1>3

LEMMA StepInv == Inv /\ [Next]_vars => Inv'
<1> SUFFICES ASSUME Inv, [Next]_vars
             PROVE  Inv'
  OBVIOUS
<1>1. CASE Next
  BY <1>1, CommandInv, LoopInv, CarryInv, LifeInv, ProcessInv DEF Next
<1>2. CASE UNCHANGED vars
  BY <1>2 DEF vars, Inv, TypeOK, Absent, Carried, Completing, Source, Target
<1> QED BY <1>1, <1>2

----------------------------------------------------------------------------
(* The mover's variables keep their types, whatever the user, the disks    *)
(* and the swarm do.                                                       *)
THEOREM TypeCorrect == Spec => []TypeOK
<1>1. Inv => TypeOK
  BY DEF Inv
<1> QED BY <1>1, InitInv, StepInv, PTL DEF Spec

(* When rebuild() drops a torrent that has been moved, its files are at    *)
(* the place it is about to be added at, and they are when it is added:    *)
(* through failed copies, resumed moves, writes of the session, commands   *)
(* that come between, and crashes.                                         *)
THEOREM FilesMoveFirst == Spec => []MovedFirst
<1>1. Inv => MovedFirst
  BY DEF Inv, Completing, MovedFirst
<1> QED BY <1>1, InitInv, StepInv, PTL DEF Spec

----------------------------------------------------------------------------
(* The id librqbit hands out is above those it has.                        *)
LEMMA FreshId ==
  ASSUME session \subseteq Ids
  PROVE  NextId \notin session
<1>1. session \subseteq Nat /\ IsFiniteSet(session)
  BY ArrivalAssumption, FS_Subset
<1>2. CASE session # {}
  <2>1. \E i \in session : \A j \in session : j <= i
    BY <1>1, <1>2, Greatest
  <2> DEFINE top == CHOOSE i \in session : \A j \in session : j <= i
  <2>2. top \in session /\ \A j \in session : j <= top
    BY <2>1
  <2>3. NextId = 1 + top
    BY <1>2 DEF NextId, NextAfter
  <2> HIDE DEF top
  <2>4. 1 + top \notin session
    BY <1>1, <2>2
  <2> QED BY <2>3, <2>4
<1> QED BY <1>2

(* What the promise needs: that nobody disturbs a move.  README.md lists   *)
(* how a crash, a recheck, a refused add, a torrent added during a move    *)
(* and one restarted after an error break it.                              *)
Undisturbed ==
  /\ MaxCrashes = 0
  /\ Habits \intersect {"adds", "rechecks", "refuses"} = {}
  /\ ~({"starts", "errors"} \subseteq Habits)

Full(t, p) == disk[t][p] = "all"

Up == phase \notin {"down", "loading"}

OneEach == \A i, j \in session : what[i] = what[j] => i = j

(* The table has the session, and the entry being rebuilt besides.         *)
Tabled ==
  /\ session \subseteq entries
  /\ \A i \in entries \ session : phase = "add" /\ i = rebuild.id

AtKeep == \A i \in session : at[i] = "keep" => Full(what[i], "keep")

(* Files nobody has carried yet, and those of a torrent that has arrived:  *)
(* at home, or at the far end with the torrent about to follow.            *)
Unmoved(i) == disk[what[i]]["home"] = "part" /\ disk[what[i]]["keep"] = "none"

Followed(i) ==
  \/ Full(what[i], "home")
  \/ /\ Full(what[i], "keep")
     /\ \/ moving.on /\ moving.id = i /\ moving.task = "moved"
        \/ phase = "forget" /\ rebuild.id = i

(* No torrent at home is being checked, so what its row says is true.      *)
Settling(r) == r.tasks = {} /\ r.st # "initializing" /\ (r.st = "error" => "starts" \notin Habits)

AtHome ==
  \A i \in session : at[i] = "home" =>
    /\ Settling(tor[i])
    /\ i \in have => Followed(i)
    /\ i \notin have => Unmoved(i)

Arrivals == \A i \in arrived \intersect session : at[i] = "home" => i \in have

Moves ==
  moving.on =>
    /\ \A i \in session : what[i] = moving.what => i = moving.id
    /\ moving.id \in session => what[moving.id] = moving.what /\ at[moving.id] = moving.from
    /\ moving.id \in session /\ moving.from = "home" => moving.id \in have
    /\ moving.from = "keep" => moving.task \in {"begun", "failed"}
    /\ moving.from = "home" =>
         /\ moving.task # "moved" => Full(moving.what, "home")
         /\ moving.task \in {"copied", "moved"} => Full(moving.what, "keep")
         /\ moving.task = "copying" => moving.src = "all"

Rebuilding ==
  phase \in {"forget", "add"} =>
    /\ rebuild.then = "start" /\ rebuild.at = "keep" /\ ~moving.on
    /\ Full(rebuild.what, "keep")
    /\ \A i \in session : what[i] = rebuild.what => phase = "forget" /\ i = rebuild.id
    /\ rebuild.id \in session => phase = "forget" /\ what[rebuild.id] = rebuild.what

(* Whoever the user has added is there, or is just being added back.       *)
Present ==
  \A t \in listed : (\E i \in session : what[i] = t) \/ (phase = "add" /\ rebuild.what = t)

Calm == /\ Up /\ OneEach /\ Tabled /\ AtKeep /\ AtHome /\ Arrivals
        /\ Moves /\ Rebuilding /\ Present

(* Files that are all at a place are all there after the step.             *)
Lasting == \A t \in Torrents, p \in Places : Full(t, p) => disk'[t][p] = "all"

LEMMA InitCalm == Init => Calm
<1> SUFFICES ASSUME Init
             PROVE  Calm
  OBVIOUS
<1>1. PICK f \in [Ids -> Torrents] : Listing(f)
  BY ListAssumption
<1>2. what \in [Ids -> Torrents] /\ Listing(what) /\ session = Loaded
  BY <1>1 DEF Init
<1>3. session \subseteq Ids /\ session \subseteq Nat
  BY <1>2, ListAssumption, ArrivalAssumption
<1>4. /\ phase = "idle" /\ ~moving.on /\ entries = session /\ arrived = {}
      /\ listed = Torrents
  BY NothingType DEF Init
<1>5. OneEach
  <2> SUFFICES ASSUME NEW i \in session, NEW j \in session, i # j
               PROVE  what[i] # what[j]
    BY DEF OneEach
  <2>1. CASE i < j
    BY <1>2, <2>1 DEF Listing
  <2>2. CASE j < i
    BY <1>2, <2>2 DEF Listing
  <2> QED BY <1>3, <2>1, <2>2
<1>6. ASSUME NEW i \in session
      PROVE  /\ what[i] \in Torrents
             /\ at[i] = IF i \in have THEN "keep" ELSE "home"
             /\ i \in have => disk[what[i]] = OnlyAt("keep", "all")
             /\ i \notin have => disk[what[i]] = OnlyAt("home", "part")
             /\ tor[i].tasks = {} /\ tor[i].st = "live"
  BY <1>2, <1>3 DEF Init, Nobody
<1>7. /\ OnlyAt("keep", "all")["keep"] = "all"
      /\ OnlyAt("home", "part")["home"] = "part" /\ OnlyAt("home", "part")["keep"] = "none"
  BY DEF OnlyAt, Places
<1>8. AtKeep
  BY <1>6, <1>7 DEF AtKeep, Full
<1>9. AtHome
  BY <1>6, <1>7 DEF AtHome, Settling, Unmoved
<1>10. Present
  <2> SUFFICES ASSUME NEW t \in Torrents
               PROVE  \E i \in session : what[i] = t
    BY <1>4 DEF Present
  <2> DEFINE shown == [i \in Loaded |-> what[i]]
  <2>1. shown \in [Loaded -> Torrents]
    BY <1>2, <1>3
  <2>2. \A i, j \in Loaded : shown[i] = shown[j] => i = j
    BY <1>2, <1>5 DEF OneEach
  <2>3. shown \in Injection(Loaded, Torrents)
    BY <2>1, <2>2 DEF Injection, IsInjective
  <2>4. Cardinality(Torrents) \in Nat
    BY ArrivalAssumption, FS_CardinalityType
  <2>5. Cardinality(Loaded) = Cardinality(Torrents)
    BY <2>4, FS_Interval, 0 > Cardinality(Torrents) - 1 <=> Cardinality(Torrents) = 0 DEF Loaded
  <2>6. shown \in Surjection(Loaded, Torrents)
    BY <2>3, <2>5, ArrivalAssumption, FS_Injection
  <2> QED BY <1>2, <2>6 DEF Surjection
<1> QED BY <1>4, <1>5, <1>8, <1>9, <1>10 DEF Calm, Up, Tabled, Arrivals, Moves, Rebuilding

(* A step that leaves the files, the list and the move alone, outside      *)
(* rebuild().                                                              *)
LEMMA AsideCalm ==
  ASSUME Calm, phase \notin {"forget", "add"},
         phase' \notin {"forget", "add", "down", "loading"},
         UNCHANGED <<disk, session, what, at, entries, moving, listed>>,
         \A i \in session : at[i] = "home" => (i \in have' <=> i \in have) /\ Settling(tor[i])',
         \A i \in arrived' \intersect session : at[i] = "home" => i \in have
  PROVE  Calm' /\ Lasting
<1>1. Up' /\ OneEach' /\ Tabled' /\ AtKeep' /\ Rebuilding'
  BY DEF Calm, Up, OneEach, Tabled, AtKeep, Rebuilding, Full
<1>2. Arrivals' /\ Present' /\ Lasting
  BY DEF Calm, Arrivals, Present, Lasting, Full
<1>3. AtHome'
  BY DEF Calm, AtHome, Followed, Unmoved, Full
<1>4. Moves'
  <2> SUFFICES ASSUME moving.on
               PROVE  Moves'
    BY DEF Moves
  <2>1. moving.id \in session /\ moving.from = "home" => moving.id \in have'
    BY DEF Calm, Moves
  <2> QED BY <2>1 DEF Calm, Moves, Full
<1> QED BY <1>1, <1>2, <1>3, <1>4 DEF Calm

(* What the commands and the loop do to a torrent at home.                 *)
LEMMA UnpausedSettling ==
  ASSUME TypeOK, NEW i \in Ids, Unpaused(i),
         \A j \in session : at[j] = "home" => Settling(tor[j]),
         tor[i].st = "error" => "starts" \in Habits
  PROVE  \A j \in session : at[j] = "home" => Settling(tor'[j])
<1> SUFFICES ASSUME NEW j \in session, at[j] = "home"
             PROVE  Settling(tor'[j])
  OBVIOUS
<1>1. tor \in [Ids -> Torrent] /\ j \in Ids /\ Settling(tor[j])
  BY DEF TypeOK
<1>2. CASE j = i
  <2>1. tor'[i] = Started(tor[i], FALSE)
    BY <1>1, <1>2 DEF Unpaused
  <2>2. tor[i].st \in {"live", "paused"} /\ tor[i].tasks = {} /\ tor[i] \in Torrent
    BY <1>1, <1>2 DEF Settling, Torrent, States
  <2>3. Started(tor[i], FALSE).st = "live" /\ Started(tor[i], FALSE).tasks = {}
    BY <2>2 DEF Started, Torrent
  <2> QED BY <1>2, <2>1, <2>3 DEF Settling
<1>3. CASE j # i
  BY <1>1, <1>3 DEF Unpaused
<1> QED BY <1>2, <1>3

LEMMA StopSettling ==
  ASSUME TypeOK, NEW i \in Ids, Stop(i),
         \A j \in session : at[j] = "home" => Settling(tor[j])
  PROVE  \A j \in session : at[j] = "home" => Settling(tor'[j])
<1> SUFFICES ASSUME NEW j \in session, at[j] = "home"
             PROVE  Settling(tor'[j])
  OBVIOUS
<1>1. tor \in [Ids -> Torrent] /\ j \in Ids /\ Settling(tor[j])
  BY DEF TypeOK
<1>2. CASE j = i
  <2>1. tor'[i] = Paused(tor[i]) /\ tor[i] \in Torrent
    BY <1>1, <1>2 DEF Stop
  <2>2. Settling(Paused(tor[i]))
    BY <1>1, <1>2, <2>1 DEF Settling, Paused, Torrent
  <2> QED BY <1>2, <2>1, <2>2
<1>3. CASE j # i
  BY <1>1, <1>3 DEF Stop
<1> QED BY <1>2, <1>3

LEMMA CommandCalm ==
  ASSUME Undisturbed, TypeOK, Calm, Command
  PROVE  Calm' /\ Lasting
<1>1. /\ phase = "idle"
      /\ \A j \in session : at[j] = "home" => Settling(tor[j])
      /\ \A i \in arrived \intersect session : at[i] = "home" => i \in have
      /\ session \subseteq Ids
  BY DEF Command, SetRunning, SetStopped, Remove, Recheck, Add, SetKeepDir, Turn,
         Calm, AtHome, Arrivals, TypeOK
<1>2. ASSUME NEW i \in Ids, SetRunning(i)
      PROVE  Calm' /\ Lasting
  <2>1. "starts" \in Habits /\ phase' = "queue" /\ Unpaused(i)
    BY <1>2 DEF SetRunning, Given, Turn
  <2>2. UNCHANGED <<disk, session, what, at, have, entries, moving, listed, arrived>>
    BY <1>2 DEF SetRunning
  <2>3. \A j \in session : at[j] = "home" => Settling(tor'[j])
    BY <1>1, <2>1, UnpausedSettling
  <2>4. \A j \in session : at[j] = "home" => Settling(tor[j])'
    BY <2>3 DEF Settling
  <2> QED BY <1>1, <2>1, <2>2, <2>4, AsideCalm
<1>3. ASSUME NEW i \in Ids, SetStopped(i)
      PROVE  Calm' /\ Lasting
  <2>1. phase' = "queue" /\ Stop(i)
    BY <1>3 DEF SetStopped, Turn
  <2>2. UNCHANGED <<disk, session, what, at, have, entries, moving, listed, arrived>>
    BY <1>3 DEF SetStopped
  <2>3. \A j \in session : at[j] = "home" => Settling(tor'[j])
    BY <1>1, <2>1, StopSettling
  <2>4. \A j \in session : at[j] = "home" => Settling(tor[j])'
    BY <2>3 DEF Settling
  <2> QED BY <1>1, <2>1, <2>2, <2>4, AsideCalm
<1>4. CASE SetKeepDir
  <2>1. phase' = "queue" /\ UNCHANGED <<stored, tor, have, entries, moving, listed, arrived>>
    BY <1>4 DEF SetKeepDir, Turn
  <2>2. \A j \in session : at[j] = "home" => Settling(tor[j])'
    BY <1>1, <2>1 DEF Settling
  <2> QED BY <1>1, <2>1, <2>2, AsideCalm DEF stored
<1>5. ASSUME NEW i \in Ids, Remove(i)
      PROVE  Calm' /\ Lasting
  <2>1. /\ phase' = "queue" /\ i \in entries /\ i \in session
        /\ entries' = entries \ {i} /\ session' = session \ {i} /\ have' = have \ {i}
        /\ tor' = [tor EXCEPT ![i] = Nobody] /\ listed' = listed \ {what[i]}
        /\ UNCHANGED <<disk, what, at, arrived, moving, rebuild>>
    BY <1>1, <1>5 DEF Remove, Deleted, Turn, Calm, Tabled
  <2>2. \A j \in session' : tor'[j] = tor[j] /\ (j \in have' <=> j \in have)
    BY <1>1, <2>1 DEF TypeOK
  <2>3. Up' /\ OneEach' /\ Tabled' /\ AtKeep' /\ Rebuilding'
    BY <1>1, <2>1 DEF Calm, Up, OneEach, Tabled, AtKeep, Rebuilding, Full
  <2>4. Arrivals' /\ Present' /\ Lasting
    BY <1>1, <2>1, <2>2 DEF Calm, Arrivals, Present, Lasting, Full
  <2>5. AtHome'
    BY <1>1, <2>1, <2>2 DEF Calm, AtHome, Followed, Unmoved, Full, Settling
  <2>6. Moves'
    BY <2>1, <2>2 DEF Calm, Moves, Full
  <2> QED BY <2>3, <2>4, <2>5, <2>6 DEF Calm
<1>6. ASSUME NEW i \in Ids, Recheck(i)
      PROVE  FALSE
  BY <1>6 DEF Recheck, Given, Undisturbed
<1>7. ASSUME NEW t \in Torrents, Add(t)
      PROVE  FALSE
  BY <1>7 DEF Add, Given, Undisturbed
<1> QED BY <1>2, <1>3, <1>4, <1>5, <1>6, <1>7 DEF Command

LEMMA QueueCalm ==
  ASSUME TypeOK, Calm, Tick \/ QueueDone \/ \E i \in Ids : GiveTurn(i)
  PROVE  Calm' /\ Lasting
<1>1. /\ \A j \in session : at[j] = "home" => Settling(tor[j])
      /\ \A i \in arrived \intersect session : at[i] = "home" => i \in have
  BY DEF Calm, AtHome, Arrivals
<1>2. CASE Tick \/ QueueDone
  <2>1. /\ phase \in {"idle", "queue"} /\ phase' \in {"queue", "finish"}
        /\ UNCHANGED <<stored, tor, have, entries, moving, listed, arrived>>
    BY <1>2 DEF Tick, QueueDone, Turn
  <2>2. \A j \in session : at[j] = "home" => Settling(tor[j])'
    BY <1>1, <2>1 DEF Settling
  <2> QED BY <1>1, <2>1, <2>2, AsideCalm DEF stored
<1>3. ASSUME NEW i \in Ids, GiveTurn(i)
      PROVE  Calm' /\ Lasting
  <2>1. /\ phase = "queue" /\ phase' = "queue" /\ Unpaused(i) /\ tor[i].st = "paused"
        /\ UNCHANGED <<disk, session, what, at, have, entries, moving, listed, arrived>>
    BY <1>3 DEF GiveTurn, Startable
  <2>2. \A j \in session : at[j] = "home" => Settling(tor'[j])
    BY <1>1, <2>1, UnpausedSettling
  <2>3. \A j \in session : at[j] = "home" => Settling(tor[j])'
    BY <2>2 DEF Settling
  <2> QED BY <1>1, <2>1, <2>3, AsideCalm
<1> QED BY <1>2, <1>3

LEMMA FinishCalm ==
  ASSUME TypeOK, Calm, NotFinished \/ MoveFailed
  PROVE  Calm' /\ Lasting
<1>1. /\ \A j \in session : at[j] = "home" => Settling(tor[j])
      /\ \A i \in arrived \intersect session : at[i] = "home" => i \in have
  BY DEF Calm, AtHome, Arrivals
<1>2. CASE NotFinished
  <2>1. /\ phase = "finish" /\ phase' = "start"
        /\ UNCHANGED <<stored, tor, have, entries, moving, listed, arrived>>
    BY <1>2 DEF NotFinished
  <2>2. \A j \in session : at[j] = "home" => Settling(tor[j])'
    BY <1>1, <2>1 DEF Settling
  <2> QED BY <1>1, <2>1, <2>2, AsideCalm DEF stored
<1>3. CASE MoveFailed
  <2>1. /\ phase = "finish" /\ phase' = "start" /\ moving.task = "failed" /\ ~moving'.on
        /\ UNCHANGED <<disk, session, what, at, tor, have, entries, listed, arrived>>
    BY <1>3, NothingType DEF MoveFailed, stored
  <2>2. Up' /\ OneEach' /\ Tabled' /\ AtKeep' /\ Rebuilding' /\ Moves'
    BY <2>1 DEF Calm, Up, OneEach, Tabled, AtKeep, Rebuilding, Moves, Full
  <2>3. Arrivals' /\ Present' /\ Lasting
    BY <2>1 DEF Calm, Arrivals, Present, Lasting, Full
  <2>4. AtHome'
    BY <2>1 DEF Calm, AtHome, Followed, Unmoved, Full, Settling
  <2> QED BY <2>2, <2>3, <2>4 DEF Calm
<1> QED BY <1>2, <1>3

LEMMA MoveThroughCalm ==
  ASSUME TypeOK, Calm, MoveThrough
  PROVE  Calm' /\ Lasting
<1>1. /\ phase = "finish" /\ phase' = "forget"
      /\ moving.on /\ moving.task = "moved" /\ ~moving'.on
      /\ rebuild' = [id |-> moving.id, what |-> moving.what, at |-> "keep",
                     run |-> moving.run, then |-> "start"]
      /\ UNCHANGED <<disk, session, what, at, tor, have, entries, listed, arrived>>
  BY NothingType DEF MoveThrough, stored
<1>2. /\ rebuild'.id = moving.id /\ rebuild'.what = moving.what
      /\ rebuild'.at = "keep" /\ rebuild'.then = "start"
  BY <1>1
<1>3. Full(moving.what, "keep") /\ moving.from = "home"
  BY <1>1 DEF Calm, Moves, TypeOK, Places
<1>4. Up' /\ OneEach' /\ Tabled' /\ AtKeep' /\ Moves'
  BY <1>1 DEF Calm, Up, OneEach, Tabled, AtKeep, Moves, Full
<1>5. Rebuilding'
  BY <1>1, <1>2, <1>3 DEF Calm, Moves, Rebuilding, Full
<1>6. Arrivals' /\ Present' /\ Lasting
  BY <1>1 DEF Calm, Arrivals, Present, Lasting, Full
<1>7. AtHome'
  BY <1>1, <1>2 DEF Calm, AtHome, Followed, Unmoved, Full, Settling
<1> QED BY <1>4, <1>5, <1>6, <1>7 DEF Calm

(* rebuild(): the torrent leaves the list and comes back complete.         *)
LEMMA ForgetCalm ==
  ASSUME TypeOK, Calm, Forget
  PROVE  Calm' /\ Lasting
<1>1. /\ phase = "forget" /\ phase' = "add" /\ rebuild.id \in session
      /\ session' = session \ {rebuild.id} /\ have' = have \ {rebuild.id}
      /\ tor' = [tor EXCEPT ![rebuild.id] = Nobody]
      /\ UNCHANGED <<disk, what, at, entries, arrived, moving, rebuild, listed>>
  BY DEF Forget, Deleted
<1>2. \A j \in session' : j \in session /\ tor'[j] = tor[j] /\ (j \in have' <=> j \in have)
  BY <1>1 DEF TypeOK
<1>3. ~moving.on /\ what[rebuild.id] = rebuild.what
  BY <1>1 DEF Calm, Rebuilding
<1>4. Up' /\ OneEach' /\ Tabled' /\ AtKeep' /\ Rebuilding' /\ Moves'
  BY <1>1, <1>3 DEF Calm, Up, OneEach, Tabled, AtKeep, Rebuilding, Moves, Full
<1>5. Arrivals' /\ Present' /\ Lasting
  BY <1>1, <1>2, <1>3 DEF Calm, Arrivals, Present, Lasting, Full
<1>6. AtHome'
  BY <1>1, <1>2, <1>3 DEF Calm, AtHome, Followed, Unmoved, Full, Settling
<1> QED BY <1>4, <1>5, <1>6 DEF Calm

LEMMA NothingToForgetCalm ==
  ASSUME TypeOK, Calm, NothingToForget
  PROVE  Calm' /\ Lasting
<1>1. /\ phase = "forget" /\ rebuild.id \notin session /\ phase' = "start" /\ ~moving.on
      /\ UNCHANGED <<disk, session, what, at, tor, have, entries, arrived, moving, listed>>
  BY DEF NothingToForget, stored, Calm, Rebuilding
<1>2. Up' /\ OneEach' /\ Tabled' /\ AtKeep' /\ Rebuilding' /\ Moves'
  BY <1>1 DEF Calm, Up, OneEach, Tabled, AtKeep, Rebuilding, Moves, Full
<1>3. Arrivals' /\ Present' /\ Lasting
  BY <1>1 DEF Calm, Arrivals, Present, Lasting, Full
<1>4. AtHome'
  BY <1>1 DEF Calm, AtHome, Followed, Unmoved, Full, Settling
<1> QED BY <1>2, <1>3, <1>4 DEF Calm

LEMMA AddBackCalm ==
  ASSUME TypeOK, Calm, AddBack
  PROVE  Calm' /\ Lasting
<1> DEFINE id == NextId
<1>1. id \notin session /\ id \in Ids
  BY FreshId DEF TypeOK, AddBack, AddAt
<1>2. /\ phase = "add" /\ rebuild.then = "start" /\ rebuild.at = "keep" /\ ~moving.on
      /\ Full(rebuild.what, "keep") /\ rebuild.id \notin session
      /\ \A i \in session : what[i] # rebuild.what
  BY DEF AddBack, Calm, Rebuilding
<1> HIDE DEF id
<1>3. /\ session' = session \union {id}
      /\ what' = [what EXCEPT ![id] = rebuild.what]
      /\ at' = [at EXCEPT ![id] = "keep"]
      /\ have' = have \ {id}
      /\ entries' = (entries \ {rebuild.id}) \union {id}
      /\ phase' = "start"
      /\ UNCHANGED <<arrived, moving, listed>>
  BY <1>2 DEF AddBack, AddAt, Adopted, id
<1>4. disk' = disk
  <2>1. disk' = [disk EXCEPT ![rebuild.what]["keep"] =
                   IF @ = "none" THEN "part" ELSE @]
    BY <1>2 DEF AddBack, AddAt
  <2>2. disk \in [Torrents -> [Places -> {"none", "part", "all"}]]
        /\ rebuild.what \in Torrents /\ disk[rebuild.what]["keep"] = "all"
    BY <1>2 DEF TypeOK, Full
  <2> QED BY <2>1, <2>2
<1>5. \E new : tor' = [tor EXCEPT ![id] = new]
  BY DEF AddBack, AddAt, id
<1>6. /\ what'[id] = rebuild.what /\ at'[id] = "keep"
      /\ \A i \in session : /\ what'[i] = what[i] /\ at'[i] = at[i] /\ tor'[i] = tor[i]
                            /\ i \in have' <=> i \in have
  BY <1>1, <1>3, <1>5 DEF TypeOK
<1>7. Up' /\ OneEach' /\ Rebuilding' /\ Moves'
  BY <1>2, <1>3, <1>6 DEF Calm, Up, OneEach, Rebuilding, Moves
<1>8. Tabled'
  BY <1>2, <1>3 DEF Calm, Tabled
<1>9. AtKeep' /\ Present' /\ Lasting
  BY <1>2, <1>3, <1>4, <1>6 DEF Calm, AtKeep, Present, Lasting, Full
<1>10. Arrivals'
  BY <1>3, <1>6 DEF Calm, Arrivals
<1>11. AtHome'
  BY <1>2, <1>3, <1>4, <1>6 DEF Calm, AtHome, Followed, Unmoved, Full, Settling
<1> QED BY <1>7, <1>8, <1>9, <1>10, <1>11 DEF Calm

LEMMA RebuildCalm ==
  ASSUME Undisturbed, TypeOK, Calm,
         \/ Forget \/ NothingToForget
         \/ AddBack \/ AlreadyBack \/ AddRefused
  PROVE  Calm' /\ Lasting
<1>1. ~AddRefused
  BY DEF AddRefused, Undisturbed
<1>2. ~AlreadyBack
  BY DEF AlreadyBack, Calm, Rebuilding
<1> QED BY <1>1, <1>2, ForgetCalm, NothingToForgetCalm, AddBackCalm

LEMMA MoverCalm ==
  ASSUME TypeOK, Calm, NothingToStart \/ Publish \/ \E i \in Ids : Skip(i) \/ StartMove(i)
  PROVE  Calm' /\ Lasting
<1>1. /\ \A j \in session : at[j] = "home" => Settling(tor[j])
      /\ \A i \in arrived \intersect session : at[i] = "home" => i \in have
      /\ session \subseteq Ids
  BY DEF Calm, AtHome, Arrivals, TypeOK
<1>2. CASE NothingToStart \/ \E i \in Ids : Skip(i)
  <2>1. /\ phase = "start" /\ phase' \in {"start", "publish"} /\ arrived' \subseteq arrived
        /\ UNCHANGED <<stored, tor, have, entries, moving, listed>>
    BY <1>2 DEF NothingToStart, Skip, Mover
  <2>2. \A j \in session : at[j] = "home" => Settling(tor[j])'
    BY <1>1, <2>1 DEF Settling
  <2> QED BY <1>1, <2>1, <2>2, AsideCalm DEF stored
<1>3. CASE Publish
  <2>1. /\ phase = "publish" /\ phase' = "idle" /\ arrived' = arrived \union Crossed
        /\ UNCHANGED <<stored, tor, have, entries, moving, listed>>
    BY <1>3 DEF Publish
  <2>2. \A j \in session : at[j] = "home" => Settling(tor[j])'
    BY <1>1, <2>1 DEF Settling
  (* A torrent at home is not being checked: its row says what it has.     *)
  <2>3. \A i \in Crossed \intersect session : at[i] = "home" => i \in have
    BY <1>1 DEF Crossed, SeenComplete, Settling
  <2> QED BY <1>1, <2>1, <2>2, <2>3, AsideCalm DEF stored
<1>4. ASSUME NEW i \in Ids, StartMove(i)
      PROVE  Calm' /\ Lasting
  <2>1. /\ phase = "start" /\ phase' = "publish" /\ ~moving.on /\ i \in arrived /\ i \in entries
        /\ moving' = [on |-> TRUE, id |-> i, what |-> what[i], run |-> i \in wanted,
                      task |-> "begun", from |-> at[i], src |-> "none"]
        /\ Stop(i) /\ arrived' \subseteq arrived
        /\ UNCHANGED <<disk, session, what, at, have, entries, listed>>
    BY <1>4 DEF StartMove, Mover
  <2>2. i \in session
    BY <2>1 DEF Calm, Tabled
  <2>3. /\ moving'.on /\ moving'.id = i /\ moving'.what = what[i]
        /\ moving'.task = "begun" /\ moving'.from = at[i]
    BY <2>1
  <2>4. \A j \in session : at[j] = "home" => Settling(tor'[j])
    BY <1>1, <2>1, StopSettling
  <2>5. at[i] = "home" => i \in have /\ Full(what[i], "home")
    BY <1>1, <2>1, <2>2 DEF Calm, AtHome, Followed
  <2>6. Up' /\ OneEach' /\ Tabled' /\ AtKeep' /\ Rebuilding'
    BY <2>1 DEF Calm, Up, OneEach, Tabled, AtKeep, Rebuilding, Full
  <2>7. Arrivals' /\ Present' /\ Lasting
    BY <2>1 DEF Calm, Arrivals, Present, Lasting, Full
  <2>8. AtHome'
    BY <2>1, <2>4 DEF Calm, AtHome, Followed, Unmoved, Full, Settling
  <2>9. Moves'
    BY <2>1, <2>2, <2>3, <2>5 DEF Calm, OneEach, Moves, Full
  <2> QED BY <2>6, <2>7, <2>8, <2>9 DEF Calm
<1> QED BY <1>2, <1>3, <1>4

----------------------------------------------------------------------------
(* The carrying of files that are all at home.                             *)
LEMMA TaskCalm ==
  ASSUME TypeOK, Calm, NEW from \in Carrying, NEW to \in Carrying \ {"begun"},
         NEW d \in [Places -> {"none", "part", "all"}], Task(from, to, d),
         moving.from = "home", from # "moved",
         to # "moved" => d["home"] = "all",
         to \in {"copied", "moved"} => d["keep"] = "all"
  PROVE  Calm' /\ \E p \in Places : disk'[moving.what][p] = "all"
<1>1. /\ moving.on /\ moving.task = from /\ moving.what \in Torrents /\ Full(moving.what, "home")
      /\ moving.id \in Ids
  BY DEF Task, Calm, Moves, TypeOK
<1>2. /\ moving'.on /\ moving'.id = moving.id /\ moving'.what = moving.what
      /\ moving'.from = "home" /\ moving'.task = to
      /\ to = "copying" => moving'.src = "all"
  BY <1>1 DEF Task, TypeOK, Source, Full
<1>3. /\ disk'[moving.what] = d
      /\ \A t \in Torrents \ {moving.what} : disk'[t] = disk[t]
  BY <1>1 DEF Task, TypeOK
<1>4. UNCHANGED <<session, what, at, tor, have, entries, arrived, rebuild, phase, listed>>
  BY DEF Task
<1>5. phase \notin {"forget", "add"}
  BY <1>1 DEF Calm, Rebuilding
<1>6. \A i \in session : /\ what[i] \in Torrents
                         /\ what[i] = moving.what => i = moving.id /\ at[i] = "home" /\ i \in have
  BY <1>1 DEF Calm, Moves, TypeOK
<1>7. Up' /\ OneEach' /\ Tabled' /\ Rebuilding' /\ Arrivals' /\ Present'
  BY <1>4, <1>5 DEF Calm, Up, OneEach, Tabled, Rebuilding, Arrivals, Present
<1>8. AtKeep'
  BY <1>3, <1>4, <1>6 DEF Calm, AtKeep, Full
<1>9. AtHome'
  <2> SUFFICES ASSUME NEW i \in session, at[i] = "home"
               PROVE  (/\ Settling(tor[i])
                       /\ i \in have => Followed(i)
                       /\ i \notin have => Unmoved(i))'
    BY <1>4 DEF AtHome
  <2>1. CASE what[i] = moving.what
    BY <1>2, <1>3, <1>4, <1>6, <2>1 DEF Calm, AtHome, Settling, Followed, Full
  <2>2. CASE what[i] # moving.what
    <3>1. disk'[what[i]] = disk[what[i]]
      BY <1>3, <1>6, <2>2
    <3>2. i # moving.id
      BY <1>1, <2>2 DEF Calm, Moves
    <3> QED BY <1>4, <1>5, <3>1, <3>2 DEF Calm, AtHome, Settling, Followed, Unmoved, Full
  <2> QED BY <2>1, <2>2
<1>10. Moves'
  <2>1. moving.from # "keep"
    OBVIOUS
  <2> QED BY <1>1, <1>2, <1>3, <1>4, <2>1 DEF Calm, Moves, Full
<1> QED BY <1>3, <1>7, <1>8, <1>9, <1>10 DEF Calm, Places

LEMMA CarryCalm ==
  ASSUME TypeOK, Calm, Carry
  PROVE  Calm' /\ \A t \in Torrents :
                    (\E p \in Places : Full(t, p)) => \E p \in Places : disk'[t][p] = "all"
<1> DEFINE Much == {"none", "part", "all"}
<1>1. /\ moving.on /\ moving.what \in Torrents
      /\ \A t \in Torrents \ {moving.what} : disk'[t] = disk[t]
  BY DEF Carry, Renames, Resumes, Refuses, CopiesSome, CopiesAll, CopyFails, Drops, Task, TypeOK
<1>2. disk[moving.what] \in [Places -> Much] /\ moving.from \in Places
  BY DEF TypeOK
<1>3. "home" \in Places /\ "keep" \in Places
  BY DEF Places
<1>4. SUFFICES Calm' /\ ((\E p \in Places : Full(moving.what, p)) =>
                            \E p \in Places : disk'[moving.what][p] = "all")
  BY <1>1 DEF Full
<1>5. CASE moving.from = "keep"
  <2>1. Refuses
    BY <1>1, <1>5 DEF Calm, Moves, Carry, Renames, Resumes, Refuses, CopiesSome, CopiesAll,
                      CopyFails, Drops, Task, Refused
  <2>2. /\ disk' = disk
        /\ UNCHANGED <<session, what, at, tor, have, entries, arrived, rebuild, phase, listed>>
        /\ moving.task = "begun"
    BY <2>1 DEF Refuses, Task, TypeOK
  <2>3. /\ moving'.id = moving.id /\ moving'.what = moving.what /\ moving'.on
        /\ moving'.from = "keep" /\ moving'.task = "failed"
    BY <1>1, <1>5, <2>1 DEF Refuses, Task, TypeOK
  <2>4. Up' /\ OneEach' /\ Tabled' /\ Rebuilding' /\ Arrivals' /\ Present' /\ AtKeep'
    BY <1>1, <2>2 DEF Calm, Up, OneEach, Tabled, Rebuilding, Arrivals, Present, AtKeep, Full
  <2>5. AtHome'
    BY <2>2, <2>3 DEF Calm, AtHome, Settling, Followed, Unmoved, Full
  <2>6. Moves'
    BY <1>1, <1>5, <2>2, <2>3 DEF Calm, Moves, Full
  <2> QED BY <2>2, <2>4, <2>5, <2>6 DEF Calm, Full
<1>6. CASE moving.from = "home"
  <2>1. moving.task # "moved" => Source = "all"
    BY <1>1, <1>6 DEF Calm, Moves, Full, Source
  <2>2. CASE Renames
    <3>1. OnlyAt("keep", Source) \in [Places -> Much] /\ OnlyAt("keep", Source)["keep"] = "all"
      BY <1>3, <2>1, <2>2 DEF OnlyAt, Renames, Task
    <3> QED BY <1>6, <2>2, <3>1, TaskCalm DEF Renames, Carrying
  <2>3. CASE Resumes
    BY <2>1, <2>3 DEF Resumes, Task
  <2>4. CASE Refuses
    <3>1. disk[moving.what]["home"] = "all" /\ Task("begun", "failed", disk[moving.what])
      BY <2>1, <2>4 DEF Refuses, Task, Source
    <3> QED BY <1>2, <1>6, <3>1, TaskCalm DEF Carrying
  <2>5. CASE CopiesSome
    <3> DEFINE d == [disk[moving.what] EXCEPT !["keep"] = "part"]
    <3>1. Task("begun", "copying", d)
      BY <2>5 DEF CopiesSome
    <3>2. d \in [Places -> Much] /\ d["home"] = "all"
      BY <1>2, <1>3, <2>1, <3>1 DEF Task, Source
    <3> HIDE DEF d
    <3> QED BY <1>6, <3>1, <3>2, TaskCalm DEF Carrying
  <2>6. CASE CopiesAll
    <3>1. PICK copied \in {moving.src, Source} :
            Task("copying", "copied", [disk[moving.what] EXCEPT !["keep"] = copied])
      BY <2>6 DEF CopiesAll
    <3>2. copied = "all" /\ Source = "all"
      BY <1>1, <1>6, <2>1, <3>1 DEF Calm, Moves, Task
    <3> DEFINE d == [disk[moving.what] EXCEPT !["keep"] = copied]
    <3>3. d \in [Places -> Much] /\ d["home"] = "all" /\ d["keep"] = "all"
      BY <1>2, <1>3, <3>2 DEF Source
    <3>4. Task("copying", "copied", d)
      BY <3>1
    <3> HIDE DEF d
    <3> QED BY <1>6, <3>3, <3>4, TaskCalm DEF Carrying
  <2>7. CASE CopyFails
    <3> DEFINE d == [disk[moving.what] EXCEPT !["keep"] = "none"]
    <3>1. Task("copying", "failed", d)
      BY <2>7 DEF CopyFails
    <3>2. d \in [Places -> Much] /\ d["home"] = "all"
      BY <1>2, <1>3, <2>1, <3>1 DEF Task, Source
    <3> HIDE DEF d
    <3> QED BY <1>6, <3>1, <3>2, TaskCalm DEF Carrying
  <2>8. CASE Drops
    <3>1. PICK left \in {"none", Source} :
            Task("copied", "moved", [disk[moving.what] EXCEPT !["home"] = left])
      BY <2>8 DEF Drops
    <3>2. disk[moving.what]["keep"] = "all" /\ left \in Much
      BY <1>1, <1>6, <2>1, <3>1 DEF Calm, Moves, Task, Full
    <3> DEFINE d == [disk[moving.what] EXCEPT !["home"] = left]
    <3>3. d \in [Places -> Much] /\ d["keep"] = "all"
      BY <1>2, <1>3, <3>2
    <3>4. Task("copied", "moved", d)
      BY <3>1
    <3> HIDE DEF d
    <3> QED BY <1>6, <3>3, <3>4, TaskCalm DEF Carrying
  <2> QED BY <2>2, <2>3, <2>4, <2>5, <2>6, <2>7, <2>8 DEF Carry
<1> QED BY <1>2, <1>5, <1>6 DEF Places

----------------------------------------------------------------------------
(* The torrents.                                                           *)

LEMMA CheckCalm ==
  ASSUME TypeOK, Absent, Calm, NEW i \in Ids, CheckEnds(i) \/ Settle(i)
  PROVE  Calm' /\ Lasting
<1>1. tor[i].tasks # {} /\ \E new : tor' = [tor EXCEPT ![i] = new]
  BY DEF CheckEnds, Settle
<1>2. \A j \in Ids \ {i} : tor'[j] = tor[j] /\ (j \in have' <=> j \in have)
  <2>1. \A j \in Ids \ {i} : tor'[j] = tor[j]
    BY <1>1 DEF TypeOK
  <2>2. have' \in {have, have \union {i}, have \ {i}}
    BY DEF CheckEnds, Settle
  <2> QED BY <2>1, <2>2
<1>3. UNCHANGED <<disk, session, what, at, entries, moving, rebuild, phase, listed, arrived>>
  BY DEF CheckEnds, Settle, stored
<1>4. \A j \in session : at[j] = "home" => j \in Ids \ {i}
  BY <1>1 DEF Calm, AtHome, Settling, TypeOK
<1>5. Up' /\ OneEach' /\ Tabled' /\ AtKeep' /\ Rebuilding' /\ Present' /\ Lasting
  BY <1>3 DEF Calm, Up, OneEach, Tabled, AtKeep, Rebuilding, Present, Lasting, Full
<1>6. Arrivals'
  BY <1>2, <1>3, <1>4 DEF Calm, Arrivals
<1>7. AtHome'
  BY <1>2, <1>3, <1>4 DEF Calm, AtHome, Settling, Followed, Unmoved, Full
<1>8. Moves'
  BY <1>2, <1>3, <1>4 DEF Calm, Moves, Full
<1> QED BY <1>5, <1>6, <1>7, <1>8 DEF Calm

(* The swarm's last piece goes into files that nobody has carried.         *)
LEMMA CompleteCalm ==
  ASSUME TypeOK, Absent, Calm, NEW i \in Ids, Complete(i)
  PROVE  Calm' /\ Lasting
<1>1. i \in session
  BY DEF Complete, Absent, Nobody
<1>2. /\ i \notin have /\ have' = have \union {i} /\ what[i] \in Torrents /\ at[i] \in Places
      /\ UNCHANGED <<session, what, at, tor, entries, arrived, moving, rebuild, phase, listed>>
  BY DEF Complete, TypeOK
<1>3. at[i] = "keep" => Full(what[i], "keep")
  BY <1>1 DEF Calm, AtKeep
<1>4. at[i] = "home" => disk[what[i]]["home"] = "part" /\ disk[what[i]]["keep"] = "none"
  BY <1>1, <1>2 DEF Calm, AtHome, Unmoved
<1>5. disk' = [disk EXCEPT ![what[i]][at[i]] = "all"]
  BY <1>2, <1>3, <1>4 DEF Complete, Full, Places
<1>6. /\ disk'[what[i]][at[i]] = "all"
      /\ \A t \in Torrents, p \in Places : t # what[i] \/ p # at[i] => disk'[t][p] = disk[t][p]
  BY <1>2, <1>5 DEF TypeOK
<1>7. Lasting
  BY <1>6 DEF Lasting, Full
<1>8. Up' /\ OneEach' /\ Tabled' /\ Present' /\ Arrivals'
  BY <1>2 DEF Calm, Up, OneEach, Tabled, Present, Arrivals
<1>9. AtKeep'
  BY <1>2, <1>7 DEF Calm, AtKeep, Full, Lasting, Places, TypeOK
<1>10. Rebuilding'
  BY <1>2, <1>7 DEF Calm, Rebuilding, Full, Lasting, Places, TypeOK
<1>11. Moves'
  <2>1. moving.what \in Torrents
    BY DEF TypeOK
  <2>2. \A p \in Places : Full(moving.what, p) => Full(moving.what, p)'
    BY <1>2, <1>7, <2>1 DEF Lasting, Full
  <2> QED BY <1>2, <2>2 DEF Calm, Moves, Places
<1>12. AtHome'
  <2> SUFFICES ASSUME NEW j \in session, at[j] = "home"
               PROVE  (/\ Settling(tor[j])
                       /\ j \in have => Followed(j)
                       /\ j \notin have => Unmoved(j))'
    BY <1>2 DEF AtHome
  <2>1. CASE j = i
    BY <1>2, <1>6, <2>1 DEF Calm, AtHome, Settling, Followed, Full
  <2>2. CASE j # i
    <3>1. what[j] # what[i] /\ what[j] \in Torrents
      BY <1>1, <2>2 DEF Calm, OneEach, TypeOK
    <3>2. \A p \in Places : disk'[what[j]][p] = disk[what[j]][p]
      BY <1>6, <3>1
    <3> QED BY <1>2, <2>2, <3>2 DEF Calm, AtHome, Settling, Followed, Unmoved, Full, Places
  <2> QED BY <2>1, <2>2
<1> QED BY <1>7, <1>8, <1>9, <1>10, <1>11, <1>12 DEF Calm

LEMMA FailCalm ==
  ASSUME Undisturbed, TypeOK, Calm, NEW i \in Ids, Fail(i)
  PROVE  Calm' /\ Lasting
<1>1. "starts" \notin Habits
  BY DEF Undisturbed, Fail
<1>2. /\ tor' = [tor EXCEPT ![i] = Stopped(tor[i])]
      /\ UNCHANGED <<disk, session, what, at, have, entries, moving, rebuild, phase, listed, arrived>>
  BY DEF Fail, stored
<1>3. tor \in [Ids -> Torrent] /\ session \subseteq Ids
  BY DEF TypeOK
<1>4. \A j \in session : at[j] = "home" => Settling(tor'[j])
  <2> SUFFICES ASSUME NEW j \in session, at[j] = "home"
               PROVE  Settling(tor'[j])
    OBVIOUS
  <2>1. Settling(tor[j])
    BY DEF Calm, AtHome
  <2>2. CASE j = i
    BY <1>1, <1>2, <1>3, <2>1, <2>2 DEF Settling, Stopped, Torrent
  <2> QED BY <1>2, <1>3, <2>1, <2>2
<1>5. Up' /\ OneEach' /\ Tabled' /\ AtKeep' /\ Rebuilding' /\ Present' /\ Lasting
  BY <1>2 DEF Calm, Up, OneEach, Tabled, AtKeep, Rebuilding, Present, Lasting, Full
<1>6. Arrivals' /\ Moves'
  BY <1>2 DEF Calm, Arrivals, Moves, Full
<1>7. AtHome'
  BY <1>2, <1>4 DEF Calm, AtHome, Settling, Followed, Unmoved, Full
<1> QED BY <1>5, <1>6, <1>7 DEF Calm

(* What NothingIsLost says of one step.                                    *)
Preserved ==
  \A t \in Torrents :
    (\E p \in Places : disk[t][p] = "all") => \E p \in Places : disk'[t][p] = "all"

LEMMA StepCalm ==
  ASSUME Undisturbed, Inv, Calm, [Next]_vars
  PROVE  Calm' /\ Preserved
<1>1. TypeOK /\ Absent
  BY DEF Inv
<1>2. Lasting => Preserved
  BY DEF Lasting, Preserved, Full
<1>3. CASE Command
  BY <1>1, <1>2, <1>3, CommandCalm
<1>4. CASE Loop
  BY <1>1, <1>2, <1>4, QueueCalm, FinishCalm, MoveThroughCalm, RebuildCalm, MoverCalm DEF Loop
<1>5. CASE Carry
  BY <1>1, <1>5, CarryCalm DEF Preserved, Full
<1>6. CASE \E i \in Ids : CheckEnds(i) \/ Settle(i) \/ Complete(i) \/ Fail(i)
  BY <1>1, <1>2, <1>6, CheckCalm, CompleteCalm, FailCalm
<1>7. ~Crash
  BY <1>1 DEF Crash, Undisturbed, TypeOK
<1>8. ~(Load \/ Adopt)
  BY DEF Load, Adopt, Calm, Up
<1>9. CASE UNCHANGED vars
  <2>1. Up' /\ OneEach' /\ Tabled' /\ AtKeep' /\ Rebuilding' /\ Present' /\ Lasting
    BY <1>9 DEF vars, Calm, Up, OneEach, Tabled, AtKeep, Rebuilding, Present, Lasting, Full
  <2>2. Arrivals' /\ Moves' /\ AtHome'
    BY <1>9 DEF vars, Calm, Arrivals, Moves, AtHome, Settling, Followed, Unmoved, Full
  <2> QED BY <1>2, <2>1, <2>2 DEF Calm
<1> QED BY <1>3, <1>4, <1>5, <1>6, <1>7, <1>8, <1>9 DEF Next

(* With the entry and the torrent behind it in step, nobody is missing.    *)
LEMMA CalmPromise ==
  ASSUME TypeOK, Calm
  PROVE  NobodyVanishes
<1>1. ASSUME NEW t \in listed, NEW i \in session, what[i] = t
      PROVE  i \in Of(t)
  BY <1>1 DEF Of, Calm, Tabled
<1>2. phase = "idle" => \A t \in listed : Of(t) # {}
  BY <1>1 DEF Calm, Present
<1>3. Whereabouts
  <2> SUFFICES ASSUME NEW t \in listed, NEW p \in Places, disk[t][p] = "all"
               PROVE  \/ \E i \in Of(t) : disk[t][at[i]] = "all"
                      \/ moving.on /\ moving.what = t
                      \/ phase \in {"forget", "add"} /\ rebuild.what = t
    BY DEF Whereabouts
  <2>1. CASE phase = "add" /\ rebuild.what = t
    BY <2>1
  <2>2. ASSUME NEW i \in session, what[i] = t
        PROVE  \/ disk[t][at[i]] = "all"
               \/ moving.on /\ moving.what = t
               \/ phase \in {"forget", "add"} /\ rebuild.what = t
    <3>1. CASE at[i] = "keep"
      BY <2>2, <3>1 DEF Calm, AtKeep, Full
    <3>2. CASE at[i] = "home"
      <4>1. i \in have
        BY <2>2, <3>2 DEF Calm, AtHome, Unmoved, Places
      <4>2. Followed(i)
        BY <3>2, <4>1 DEF Calm, AtHome
      <4> QED BY <2>2, <3>2, <4>2 DEF Followed, Full, Calm, Moves, Rebuilding
    <3> QED BY <3>1, <3>2 DEF TypeOK, Places
  <2> QED BY <1>1, <2>1, <2>2 DEF Calm, Present
<1> QED BY <1>2, <1>3 DEF NobodyVanishes

(* No torrent of the list is gone, and none has lost its files, whatever   *)
(* becomes of its move, as long as nobody disturbs the moves.              *)
THEOREM NobodyIsMissing == ASSUME Undisturbed
                           PROVE  Spec => []NobodyVanishes
<1>1. Init => Inv /\ Calm
  BY InitInv, InitCalm
<1>2. (Inv /\ Calm) /\ [Next]_vars => (Inv /\ Calm)'
  BY StepInv, StepCalm
<1>3. Inv /\ Calm => NobodyVanishes
  BY CalmPromise DEF Inv
<1> QED BY <1>1, <1>2, <1>3, PTL DEF Spec

(* The mover "is the only one that can lose data": files that are all at a *)
(* place are all at a place after every step of it, and of whatever runs   *)
(* beside it.                                                              *)
THEOREM DataIsSafe == ASSUME Undisturbed
                      PROVE  Spec => NothingIsLost
<1>1. Init => Inv /\ Calm
  BY InitInv, InitCalm
<1>2. (Inv /\ Calm) /\ [Next]_vars => (Inv /\ Calm)'
  BY StepInv, StepCalm
<1>3. (Inv /\ Calm) /\ [Next]_vars => [Preserved]_vars
  BY StepCalm
<1>4. Spec => [][Preserved]_vars
  BY <1>1, <1>2, <1>3, PTL DEF Spec
<1> QED BY <1>4, PTL DEF NothingIsLost, Preserved
=============================================================================
