----------------------------- MODULE QueueProofs ----------------------------
(***************************************************************************)
(* The queue keeps its limit, its line and its roster, for any number of   *)
(* torrents, limits, crashes and failures, whether the session has just    *)
(* been started or has been up for a while. The end of the module proves   *)
(* that the loop of `admit` computes the set by which the queue decides.   *)
(***************************************************************************)
EXTENDS Queue, AdmitLoop, ManagedTorrentProofs, FiniteSetTheorems

(* A torrent at rest: the queue or the user wants it stopped and knows it, *)
(* or it is in no state to run.                                            *)
AtRest(r) == r.paused \/ r.st \in {"paused", "error"}

(* A plan is carried out inside a pass; what it starts, stops and holds    *)
(* back is wanted, and it starts nothing that it holds back.               *)
PlanKept ==
  /\ plan.on => up = "up" /\ passes > 0
  /\ ~plan.on => plan = NoPlan
  /\ plan.start \subseteq wanted \ plan.held
  /\ plan.stop \subseteq plan.held
  /\ plan.held \subseteq wanted

(* Before adopt_queue there is nothing to want.                            *)
Asleep == up # "up" => wanted = {}

(* Whatever the user does not want running is at rest.                     *)
UnwantedRest == up = "up" => \A i \in entries \ wanted : AtRest(tor[i])

(* What has been held back is at rest.                                     *)
HeldRest == plan.on => \A i \in plan.held \ plan.stop : AtRest(tor[i])

(* Those that are let in fit under the limit, and stand before those that  *)
(* are held back.                                                          *)
LetIn(held) == (wanted \ held) \ complete

PlaceOf(i) == [id |-> i, position |-> position[i]]

Fits(held) ==
  /\ Cardinality(LetIn(held)) <= limit
  /\ \A i \in LetIn(held), j \in held : Before(PlaceOf(i), PlaceOf(j))

PlanFits == plan.on /\ limit # 0 => Fits(plan.held)

(* Between two turns of the loop the roster says who is held back.         *)
RosterFits ==
  Idle /\ limit # 0 => Fits(queued) /\ \A i \in queued : AtRest(tor[i])

Inv ==
  /\ TypeOK /\ PlanKept /\ Asleep /\ UnwantedRest /\ HeldRest /\ PlanFits
  /\ RosterFits /\ RosterIsWanted

----------------------------------------------------------------------------
(* The line and its limit.                                                 *)

(* Two torrents with different ids have an order.                          *)
LEMMA BeforeTotal ==
  ASSUME NEW v \in Waiting, NEW w \in Waiting, v.id # w.id
  PROVE  Before(v, w) \/ Before(w, v)
BY DEF Before, Waiting

(* Who comes later has more downloads before him.                          *)
LEMMA AheadGrows ==
  ASSUME NEW ws \in SUBSET Waiting, IsFiniteSet(ws),
         NEW v \in ws, NEW w \in ws,
         v.wanted, ~v.complete, Before(v, w)
  PROVE  /\ Cardinality(Ahead(v, ws)) \in Nat
         /\ Cardinality(Ahead(w, ws)) \in Nat
         /\ Cardinality(Ahead(v, ws)) < Cardinality(Ahead(w, ws))
<1> DEFINE A == Ahead(v, ws)
           B == Ahead(w, ws)
<1>1. A \subseteq B
  BY DEF Ahead, Before, Waiting
<1>2. v \in B /\ v \notin A
  BY DEF Ahead, Before, Waiting
<1>3. IsFiniteSet(A) /\ IsFiniteSet(B)
  BY FS_Subset DEF Ahead
<1> HIDE DEF A, B
<1>4. Cardinality(A) \in Nat /\ Cardinality(B) \in Nat
  BY <1>3, FS_CardinalityType
<1>5. Cardinality(A) <= Cardinality(B) /\ Cardinality(A) # Cardinality(B)
  BY <1>1, <1>2, <1>3, FS_Subset
<1> QED BY <1>4, <1>5 DEF A, B

(* The line as a pass reads it is a finite line of torrents, one per id.   *)
Row(i) == [id |-> i, position |-> position[i], wanted |-> i \in wanted,
           complete |-> SeenComplete(i)]

LEMMA LineType ==
  ASSUME TypeOK
  PROVE  /\ Line \subseteq Waiting
         /\ IsFiniteSet(Line)
         /\ \A i \in entries : Row(i) \in Line
         /\ \A w \in Line : \E i \in entries : w = Row(i)
<1>1. IsFiniteSet(entries) /\ entries \subseteq Ids /\ Ids \subseteq Nat
  BY QueueAssumption, FS_Subset DEF TypeOK
<1>2. Line = {Row(i) : i \in entries}
  BY DEF Line, Row
<1>3. IsFiniteSet(Line)
  <2> DEFINE f == [i \in entries |-> Row(i)]
  <2>1. f \in Surjection(entries, Line)
    BY <1>2 DEF Surjection
  <2> QED BY <1>1, <2>1, FS_Surjection
<1>4. Positions \subseteq Int
  BY QueueAssumption, FS_CardinalityType DEF Positions
<1>5. ASSUME NEW i \in entries
      PROVE  Row(i) \in Waiting
  <2>1. i \in Nat /\ position[i] \in Int
    BY <1>1, <1>4 DEF TypeOK
  <2>2. SeenComplete(i) \in BOOLEAN /\ (i \in wanted) \in BOOLEAN
    BY DEF SeenComplete
  <2> QED BY <2>1, <2>2 DEF Row, Waiting
<1> QED BY <1>2, <1>3, <1>5

(* Whoever a pass decides to let in fits under the limit, and stands     *)
(* before everybody it holds back.                                         *)
LEMMA DecisionFits ==
  ASSUME TypeOK, limit # 0
  PROVE  Fits(wanted \ Admitted(Line, limit))
<1> DEFINE held == wanted \ Admitted(Line, limit)
           D == LetIn(held)
           n(i) == Cardinality(Ahead(Row(i), Line))
<1>1. limit \in Nat
  BY QueueAssumption DEF TypeOK
<1>2. ASSUME NEW i \in D
      PROVE  i \in entries /\ i \in wanted /\ ~SeenComplete(i) /\ n(i) < limit
  <2>1. i \in wanted /\ i \in entries /\ i \notin complete
        /\ i \in Admitted(Line, limit)
    BY DEF LetIn, TypeOK
  <2>2. ~SeenComplete(i)
    BY <2>1 DEF SeenComplete
  <2>3. PICK w \in Line : w.id = i /\ (w.complete \/ limit = 0
                            \/ Cardinality(Ahead(w, Line)) < limit)
    BY <2>1 DEF Admitted
  <2>4. w = Row(i)
    BY <2>3, LineType DEF Row
  <2>5. ~w.complete
    BY <2>2, <2>4 DEF Row
  <2> QED BY <2>1, <2>2, <2>3, <2>4, <2>5
<1>3. ASSUME NEW j \in held
      PROVE  j \in entries /\ j \in wanted /\ ~SeenComplete(j) /\ ~(n(j) < limit)
  <2>1. j \in wanted /\ j \in entries /\ j \notin Admitted(Line, limit)
    BY DEF TypeOK
  <2>2. Row(j) \in Line /\ Row(j).id = j /\ Row(j).wanted
    BY <2>1, LineType DEF Row
  <2>3. ~(Row(j).complete \/ limit = 0 \/ Cardinality(Ahead(Row(j), Line)) < limit)
    BY <2>1, <2>2 DEF Admitted
  <2> QED BY <2>1, <2>3 DEF Row
<1>4. ASSUME NEW i \in entries
      PROVE  n(i) \in Nat
  <2>1. Ahead(Row(i), Line) \subseteq Line
    BY DEF Ahead
  <2> QED BY <2>1, LineType, FS_Subset, FS_CardinalityType
<1>5. ASSUME NEW i \in entries, NEW j \in entries, i # j,
             i \in wanted, ~SeenComplete(i), j \in wanted, ~SeenComplete(j)
      PROVE  \/ n(i) < n(j) /\ Before(Row(i), Row(j))
             \/ n(j) < n(i) /\ Before(Row(j), Row(i))
  <2>1. /\ Row(i) \in Line /\ Row(j) \in Line
        /\ Row(i) \in Waiting /\ Row(j) \in Waiting
    BY LineType
  <2>2. /\ Row(i).id # Row(j).id
        /\ Row(i).wanted /\ ~Row(i).complete /\ Row(j).wanted /\ ~Row(j).complete
    BY <1>5 DEF Row
  <2>3. Before(Row(i), Row(j)) \/ Before(Row(j), Row(i))
    BY <2>1, <2>2, BeforeTotal
  <2> QED BY <2>1, <2>2, <2>3, LineType, AheadGrows
<1>6. Cardinality(D) <= limit
  <2> DEFINE f == [i \in D |-> n(i)]
  <2>1. f \in [D -> 0 .. limit - 1]
    BY <1>1, <1>2, <1>4
  <2>2. ASSUME NEW i \in D, NEW j \in D, f[i] = f[j]
        PROVE  i = j
    BY <1>2, <1>4, <1>5, <2>2
  <2>3. f \in Injection(D, 0 .. limit - 1)
    BY <2>1, <2>2 DEF Injection, IsInjective
  <2>4. IsFiniteSet(0 .. limit - 1) /\ Cardinality(0 .. limit - 1) = limit
    BY <1>1, FS_Interval
  <2> QED BY <2>3, <2>4, FS_Injection
<1>7. ASSUME NEW i \in D, NEW j \in held
      PROVE  Before(PlaceOf(i), PlaceOf(j))
  <2>1. i # j
    BY <1>7 DEF LetIn
  <2>2. ~(n(j) < n(i))
    BY <1>1, <1>2, <1>3, <1>4
  <2>3. Before(Row(i), Row(j))
    BY <1>2, <1>3, <1>5, <2>1, <2>2
  <2> QED BY <2>3 DEF Before, Row, PlaceOf
<1> QED BY <1>6, <1>7 DEF Fits

----------------------------------------------------------------------------
(* The invariant holds at the start.                                       *)

(* The handle that stands for no torrent is one.                           *)
LEMMA NobodyType == Nobody \in Torrent
BY MaxInitsAssumption DEF Nobody, Torrent, States, Inits

(* adopt_queue's places are positions.                                     *)
LEMMA PlaceType ==
  ASSUME NEW ids \in SUBSET Ids, NEW i
  PROVE  Place(i, ids) \in Positions
<1> DEFINE T == {j \in ids : j < i}
<1>1. T \subseteq Ids /\ IsFiniteSet(Ids) /\ IsFiniteSet(T)
  BY QueueAssumption, FS_Subset
<1>2. /\ Cardinality(T) \in Nat /\ Cardinality(Ids) \in Nat
      /\ Cardinality(T) <= Cardinality(Ids)
  BY <1>1, FS_Subset, FS_CardinalityType
<1> QED BY <1>2, QueueAssumption DEF Place, Positions

LEMMA ZeroType == 0 \in Positions /\ 0 \in -MaxStarts .. 0
BY QueueAssumption, FS_CardinalityType DEF Positions

(* A session that is about to start.                                       *)
LEMMA InitInv == Init => Inv
<1> SUFFICES ASSUME Init
             PROVE  Inv
  OBVIOUS
<1>1. TypeOK
  <2>1. tor \in [Ids -> Torrent]
    BY NobodyType DEF Init
  <2>2. position \in [Ids -> Positions] /\ nextFront \in -MaxStarts .. 0
    BY ZeroType DEF Init
  <2>3. plan \in [on : BOOLEAN, start : SUBSET Ids, stop : SUBSET Ids, held : SUBSET Ids]
    BY DEF Init, NoPlan
  <2> QED BY <2>1, <2>2, <2>3, QueueAssumption DEF Init, TypeOK
<1>2. /\ PlanKept /\ Asleep /\ UnwantedRest /\ HeldRest /\ PlanFits
      /\ RosterFits /\ RosterIsWanted
  BY DEF Init, NoPlan, PlanKept, Asleep, UnwantedRest, HeldRest, PlanFits,
         RosterFits, RosterIsWanted, Idle
<1> QED BY <1>1, <1>2 DEF Inv

(* A session that has been up for a while.                                 *)
LEMMA InitSettledInv == InitSettled => Inv
<1> SUFFICES ASSUME InitSettled
             PROVE  Inv
  OBVIOUS
<1> DEFINE Live == [Nobody EXCEPT !.st = "live", !.paused = FALSE]
           Still == [Nobody EXCEPT !.st = "paused"]
<1>1. Live \in Torrent /\ Still \in Torrent /\ AtRest(Still)
  BY NobodyType DEF Torrent, States, AtRest
<1>2. \A i \in Ids : tor[i] = IF i \in stored \ diskPaused THEN Live
                             ELSE IF i \in diskPaused THEN Still ELSE Nobody
  BY DEF InitSettled
<1> HIDE DEF Live, Still
<1>3. TypeOK
  <2>1. tor \in [Ids -> Torrent]
    BY <1>1, <1>2, NobodyType DEF InitSettled
  <2>2. position \in [Ids -> Positions] /\ nextFront \in -MaxStarts .. 0
    BY PlaceType, ZeroType DEF InitSettled
  <2>3. plan \in [on : BOOLEAN, start : SUBSET Ids, stop : SUBSET Ids, held : SUBSET Ids]
    BY DEF InitSettled, NoPlan
  <2> QED BY <2>1, <2>2, <2>3, QueueAssumption DEF InitSettled, TypeOK
<1>4. UnwantedRest
  <2>1. ASSUME NEW i \in entries \ wanted
        PROVE  i \in Ids /\ i \in diskPaused
    BY <2>1 DEF InitSettled
  <2> QED BY <1>1, <1>2, <2>1 DEF UnwantedRest, InitSettled
<1>5. /\ PlanKept /\ Asleep /\ HeldRest /\ PlanFits /\ RosterFits /\ RosterIsWanted
  BY DEF InitSettled, NoPlan, PlanKept, Asleep, HeldRest, PlanFits,
         RosterFits, RosterIsWanted, Idle
<1> QED BY <1>3, <1>4, <1>5 DEF Inv

----------------------------------------------------------------------------
(* The commands.                                                           *)

(* Session::unpause changes the one torrent it is about.                   *)
LEMMA UnpauseEffect ==
  ASSUME TypeOK, NEW i \in Ids, Unpause(i)
  PROVE  /\ tor' \in [Ids -> Torrent]
         /\ \A j \in Ids \ {i} : tor'[j] = tor[j]
         /\ diskPaused' \subseteq diskPaused
<1>1. Started(tor[i], FALSE) \in Torrent
  BY StartedType DEF Unpause, TypeOK
<1> QED BY <1>1 DEF Unpause, TypeOK

(* Session::pause leaves its torrent at rest, and the others alone.        *)
LEMMA PauseEffect ==
  ASSUME TypeOK, NEW i \in Ids, PauseNow(i)
  PROVE  /\ tor' \in [Ids -> Torrent]
         /\ \A j \in Ids \ {i} : tor'[j] = tor[j]
         /\ AtRest(tor'[i])
         /\ diskPaused' \subseteq diskPaused \union {i}
<1>1. tor[i] \in Torrent /\ tor' = [tor EXCEPT ![i] = Paused(tor[i])]
  BY DEF PauseNow, TypeOK
<1>2. Paused(tor[i]) \in Torrent
  BY <1>1, PausedType
<1>3. AtRest(Paused(tor[i]))
  BY <1>1 DEF AtRest, Paused, Torrent, States
<1> QED BY <1>1, <1>2, <1>3 DEF PauseNow, TypeOK

(* Whatever a command did, a pass is owed, and nothing has to be said of   *)
(* the roster until it is over.                                            *)
LEMMA PassOwed ==
  ASSUME Inv, Idle, TypeOK', UnwantedRest', up' = up, passes' \in {1, 2},
         plan' = plan
  PROVE  Inv'
<1>1. ~plan.on /\ plan = NoPlan /\ up' = "up"
  BY DEF Inv, PlanKept, Idle
<1>2. ~Idle'
  BY DEF Idle
<1> QED
  BY <1>1, <1>2 DEF Inv, PlanKept, NoPlan, Asleep, HeldRest, PlanFits, RosterFits,
                    RosterIsWanted

LEMMA SetRunningInv ==
  ASSUME Inv, NEW i \in Ids, SetRunning(i)
  PROVE  Inv'
<1>1. TypeOK /\ UnwantedRest /\ up = "up" /\ Idle
  BY DEF Inv, SetRunning, Idle
<1>2. /\ tor' \in [Ids -> Torrent]
      /\ \A j \in Ids \ {i} : tor'[j] = tor[j]
      /\ diskPaused' \subseteq diskPaused
  BY <1>1, UnpauseEffect DEF SetRunning
<1>3. nextFront \in Positions /\ nextFront' \in -MaxStarts .. 0
  BY <1>1, QueueAssumption, FS_CardinalityType DEF SetRunning, TypeOK, Positions
<1>4. TypeOK'
  BY <1>1, <1>2, <1>3 DEF SetRunning, TypeOK
<1>5. UnwantedRest'
  BY <1>1, <1>2 DEF SetRunning, UnwantedRest, TypeOK
<1> QED BY <1>1, <1>4, <1>5, PassOwed DEF SetRunning

LEMMA SetStoppedInv ==
  ASSUME Inv, NEW i \in Ids, SetStopped(i)
  PROVE  Inv'
<1>1. TypeOK /\ UnwantedRest /\ up = "up" /\ Idle
  BY DEF Inv, SetStopped, Idle
<1>2. /\ tor' \in [Ids -> Torrent]
      /\ \A j \in Ids \ {i} : tor'[j] = tor[j]
      /\ AtRest(tor'[i])
      /\ diskPaused' \subseteq diskPaused \union {i}
  BY <1>1, PauseEffect DEF SetStopped
<1>3. TypeOK'
  BY <1>1, <1>2 DEF SetStopped, TypeOK
<1>4. UnwantedRest'
  BY <1>1, <1>2 DEF SetStopped, UnwantedRest, TypeOK
<1> QED BY <1>1, <1>3, <1>4, PassOwed DEF SetStopped

LEMMA SetMaxActiveInv ==
  ASSUME Inv, NEW n \in Limits, SetMaxActive(n)
  PROVE  Inv'
<1>1. TypeOK /\ UnwantedRest /\ Idle
  BY DEF Inv, SetMaxActive
<1>2. TypeOK' /\ UnwantedRest'
  BY <1>1 DEF SetMaxActive, disk, TypeOK, UnwantedRest
<1> QED BY <1>1, <1>2, PassOwed DEF SetMaxActive

LEMMA AddTorrentInv ==
  ASSUME Inv, NEW stopped \in AddPaused, AddTorrent(stopped)
  PROVE  Inv'
<1> DEFINE i == NextId
<1>1. TypeOK /\ UnwantedRest /\ up = "up" /\ Idle /\ i \in Ids
  BY DEF Inv, AddTorrent, Idle
<1>2. Added(stopped) \in Torrent
  BY QueueAssumption, AddedType
<1> HIDE DEF i
<1>3. tor' = [tor EXCEPT ![i] = Added(stopped)]
  BY DEF AddTorrent, i
<1>4. tor' \in [Ids -> Torrent] /\ \A j \in Ids \ {i} : tor'[j] = tor[j]
  BY <1>1, <1>2, <1>3 DEF TypeOK
<1>5. position' \in [Ids -> Positions]
  BY <1>1, ZeroType DEF AddTorrent, TypeOK, i
<1>6. /\ stored' = stored \union {i} /\ entries' = entries \union {i}
      /\ wanted' = wanted \union {i} /\ queued' = queued \ {i}
      /\ complete' = complete \ {i} /\ diskPaused' \subseteq diskPaused \union {i}
      /\ asked' \subseteq asked \union {i}
      /\ passes' = 1 /\ up' = up /\ plan' = plan
      /\ nextFront' = nextFront /\ limit' = limit /\ crashes' = crashes
  BY DEF AddTorrent, i
<1>7. TypeOK'
  BY <1>1, <1>4, <1>5, <1>6 DEF TypeOK
<1>8. UnwantedRest'
  BY <1>1, <1>4, <1>6 DEF UnwantedRest, TypeOK
<1> QED BY <1>1, <1>6, <1>7, <1>8, PassOwed

LEMMA RemoveInv ==
  ASSUME Inv, NEW i \in Ids, Remove(i)
  PROVE  Inv'
<1>1. TypeOK /\ UnwantedRest /\ up = "up" /\ Idle
  BY DEF Inv, Remove, Idle
<1>2. tor' \in [Ids -> Torrent] /\ \A j \in Ids \ {i} : tor'[j] = tor[j]
  BY <1>1, NobodyType DEF Remove, TypeOK
<1>3. position' \in [Ids -> Positions]
  BY <1>1, ZeroType DEF Remove, TypeOK
<1>4. TypeOK'
  BY <1>1, <1>2, <1>3 DEF Remove, TypeOK
<1>5. UnwantedRest'
  BY <1>1, <1>2 DEF Remove, UnwantedRest, TypeOK
<1> QED BY <1>1, <1>4, <1>5, PassOwed DEF Remove

LEMMA TickInv ==
  ASSUME Inv, Tick
  PROVE  Inv'
<1>1. TypeOK /\ UnwantedRest /\ Idle
  BY DEF Inv, Tick
<1>2. TypeOK' /\ UnwantedRest'
  BY <1>1 DEF Tick, disk, TypeOK, UnwantedRest
<1> QED BY <1>1, <1>2, PassOwed DEF Tick

----------------------------------------------------------------------------
(* A pass of the queue.                                                    *)

LEMMA NothingToDecideInv ==
  ASSUME Inv, NothingToDecide
  PROVE  Inv'
<1> USE DEF Inv
<1>1. TypeOK'
  BY DEF NothingToDecide, disk, TypeOK
<1>2. PlanKept' /\ Asleep' /\ UnwantedRest'
  BY DEF NothingToDecide, disk, PlanKept, Asleep, UnwantedRest
<1>3. HeldRest' /\ PlanFits'
  BY DEF NothingToDecide, HeldRest, PlanFits
<1>4. RosterFits' /\ RosterIsWanted'
  BY DEF NothingToDecide, disk, RosterFits, RosterIsWanted, Idle
<1> QED BY <1>1, <1>2, <1>3, <1>4

LEMMA DecideInv ==
  ASSUME Inv, Decide
  PROVE  Inv'
<1> DEFINE permitted == Admitted(Line, limit)
<1>1. TypeOK /\ up = "up" /\ passes > 0 /\ plan' = Decision(permitted)
  BY DEF Inv, Decide
<1>2. /\ plan'.on = TRUE
      /\ plan'.held = wanted \ permitted
      /\ plan'.start \subseteq permitted \intersect entries
      /\ plan'.start \subseteq {j \in entries : tor[j].st = "paused"}
      /\ plan'.stop = {j \in wanted \ permitted :
                          j \in entries /\ tor[j].st \notin {"error", "paused"}}
  <2>1. wanted \subseteq entries
    BY <1>1 DEF TypeOK
  <2> HIDE DEF permitted
  <2> QED BY <1>1, <2>1 DEF Decision
<1>3. permitted \subseteq wanted
  <2> SUFFICES ASSUME NEW i \in permitted
               PROVE  i \in wanted
    OBVIOUS
  <2>1. PICK w \in Line : w.wanted /\ i = w.id
    BY DEF Admitted
  <2>2. PICK j \in entries : w = Row(j)
    BY <1>1, LineType
  <2> QED BY <2>1, <2>2 DEF Row
<1>4. wanted \subseteq entries /\ entries \subseteq Ids
  BY <1>1 DEF TypeOK
<1>5. UNCHANGED <<stored, diskPaused, queued, complete, up, entries, tor, wanted,
                  position, nextFront, limit, passes, asked, crashes>>
  BY DEF Decide, disk
<1>6. plan' \in [on : BOOLEAN, start : SUBSET Ids, stop : SUBSET Ids, held : SUBSET Ids]
  <2> HIDE DEF permitted
  <2> QED BY <1>1, <1>2, <1>4 DEF Decision
<1>7. TypeOK'
  BY <1>1, <1>5, <1>6 DEF TypeOK
<1>8. PlanKept'
  BY <1>1, <1>2, <1>3, <1>5 DEF PlanKept
<1>9. HeldRest'
  <2>1. \A j \in Ids : tor[j] \in Torrent
    BY <1>1 DEF TypeOK
  <2> HIDE DEF permitted
  <2> QED BY <1>2, <1>4, <1>5, <2>1 DEF HeldRest, AtRest
<1>10. PlanFits'
  <2>1. limit # 0 => Fits(wanted \ permitted)
    BY <1>1, DecisionFits
  <2> HIDE DEF permitted
  <2>2. ASSUME NEW H
        PROVE  Fits(H)' <=> Fits(H)
    BY <1>5 DEF Fits, LetIn, PlaceOf
  <2> QED BY <1>2, <1>5, <2>1, <2>2 DEF PlanFits, Fits, LetIn, PlaceOf
<1>11. Asleep' /\ UnwantedRest'
  BY <1>5 DEF Inv, Asleep, UnwantedRest
<1>12. RosterFits' /\ RosterIsWanted'
  BY <1>1, <1>5 DEF RosterFits, RosterIsWanted, Idle
<1> QED BY <1>7, <1>8, <1>9, <1>10, <1>11, <1>12 DEF Inv

(* Acting on one torrent of the plan: only that torrent changes.           *)
LEMMA ActInv ==
  ASSUME Inv, NEW i \in wanted, up = "up", passes > 0, plan.on,
         tor' \in [Ids -> Torrent],
         \A j \in Ids \ {i} : tor'[j] = tor[j],
         diskPaused' \subseteq diskPaused \union {i},
         UNCHANGED <<stored, queued, complete, up, entries, wanted, position,
                     nextFront, limit, passes, asked, crashes>>,
         \/ i \in plan.start /\ plan' = [plan EXCEPT !.start = @ \ {i}]
         \/ AtRest(tor'[i]) /\ plan' = [plan EXCEPT !.stop = @ \ {i}]
  PROVE  Inv'
<1> USE DEF Inv
<1>1. /\ plan' \in [on : BOOLEAN, start : SUBSET Ids, stop : SUBSET Ids, held : SUBSET Ids]
      /\ plan'.on = plan.on /\ plan'.held = plan.held
      /\ plan'.start \subseteq plan.start
      /\ plan'.stop \subseteq plan.stop
      /\ plan.stop \ plan'.stop \subseteq {i}
  BY DEF TypeOK
<1>2. TypeOK'
  BY <1>1 DEF TypeOK
<1>3. PlanKept' /\ Asleep'
  BY <1>1 DEF PlanKept, Asleep
<1>4. UnwantedRest'
  BY DEF UnwantedRest, TypeOK
<1>5. HeldRest'
  <2> SUFFICES ASSUME NEW j \in plan'.held \ plan'.stop
               PROVE  AtRest(tor'[j])
    BY DEF HeldRest
  <2>1. j \in Ids /\ j \in plan.held
    BY <1>1 DEF TypeOK
  <2>2. CASE j = i
    <3>1. i \notin plan.start
      BY <2>1, <2>2 DEF PlanKept
    <3> QED BY <2>2, <3>1
  <2>3. CASE j # i
    <3>1. j \notin plan.stop
      BY <1>1, <2>1, <2>3
    <3> QED BY <2>1, <2>3, <3>1 DEF HeldRest
  <2> QED BY <2>2, <2>3
<1>6. PlanFits'
  BY <1>1 DEF PlanFits, Fits, LetIn, PlaceOf
<1>7. RosterFits' /\ RosterIsWanted'
  BY DEF RosterFits, RosterIsWanted, Idle
<1> QED BY <1>2, <1>3, <1>4, <1>5, <1>6, <1>7

LEMMA GiveTurnInv ==
  ASSUME Inv, NEW i \in Ids, GiveTurn(i)
  PROVE  Inv'
<1>1. i \in wanted /\ plan.on /\ up = "up" /\ passes > 0 /\ i \in plan.start
  BY DEF Inv, PlanKept, GiveTurn, NoPlan
<1>2. /\ tor' \in [Ids -> Torrent]
      /\ \A j \in Ids \ {i} : tor'[j] = tor[j]
      /\ diskPaused' \subseteq diskPaused
  BY UnpauseEffect DEF Inv, GiveTurn
<1> QED BY <1>1, <1>2, ActInv DEF GiveTurn

LEMMA HoldBackInv ==
  ASSUME Inv, NEW i \in Ids, HoldBack(i)
  PROVE  Inv'
<1>1. i \in wanted /\ plan.on /\ up = "up" /\ passes > 0
  BY DEF Inv, PlanKept, HoldBack, NoPlan
<1>2. /\ tor' \in [Ids -> Torrent]
      /\ \A j \in Ids \ {i} : tor'[j] = tor[j]
      /\ AtRest(tor'[i])
      /\ diskPaused' \subseteq diskPaused \union {i}
  BY PauseEffect DEF Inv, HoldBack
<1> QED BY <1>1, <1>2, ActInv DEF HoldBack

LEMMA KeepRosterInv ==
  ASSUME Inv, KeepRoster
  PROVE  Inv'
<1> USE DEF Inv
<1>1. /\ plan.on /\ plan.start = {} /\ plan.stop = {} /\ up = "up" /\ passes > 0
      /\ queued' = plan.held /\ plan' = NoPlan /\ passes' = passes - 1
      /\ UNCHANGED <<stored, diskPaused, complete, up, entries, tor, wanted,
                     position, nextFront, limit, asked, crashes>>
  BY DEF KeepRoster, PlanKept
<1>2. TypeOK'
  <2>1. plan' \in [on : BOOLEAN, start : SUBSET Ids, stop : SUBSET Ids, held : SUBSET Ids]
    BY <1>1 DEF NoPlan
  <2> QED BY <1>1, <2>1 DEF TypeOK
<1>3. PlanKept' /\ Asleep' /\ UnwantedRest' /\ HeldRest' /\ PlanFits'
  BY <1>1 DEF PlanKept, NoPlan, Asleep, UnwantedRest, HeldRest, PlanFits
<1>4. RosterIsWanted'
  BY <1>1 DEF PlanKept, RosterIsWanted
<1>5. RosterFits'
  BY <1>1 DEF PlanFits, HeldRest, RosterFits, Fits, LetIn, PlaceOf, Idle
<1> QED BY <1>2, <1>3, <1>4, <1>5

----------------------------------------------------------------------------
(* The torrents' own steps.                                                *)

(* A torrent that moves on its own stays a torrent, and at rest if it was. *)
LEMMA BecomesInv ==
  ASSUME Inv, NEW i \in Ids, NEW r \in Torrent, AtRest(tor[i]) => AtRest(r),
         Becomes(i, r)
  PROVE  Inv'
<1> USE DEF Inv
<1>1. /\ tor' \in [Ids -> Torrent]
      /\ \A j \in Ids : AtRest(tor[j]) => AtRest(tor'[j])
      /\ UNCHANGED <<stored, diskPaused, queued, complete, up, entries, wanted,
                     position, nextFront, limit, passes, plan, asked, crashes>>
  BY DEF Becomes, disk, TypeOK
<1>2. TypeOK'
  BY <1>1 DEF TypeOK
<1>3. entries \subseteq Ids /\ plan.held \subseteq Ids /\ queued \subseteq Ids
  BY DEF TypeOK
<1>4. PlanKept' /\ Asleep' /\ UnwantedRest' /\ HeldRest'
  BY <1>1, <1>3 DEF PlanKept, Asleep, UnwantedRest, HeldRest
<1>5. PlanFits' /\ RosterFits' /\ RosterIsWanted'
  BY <1>1, <1>3 DEF PlanFits, RosterFits, RosterIsWanted, Fits, LetIn, PlaceOf, Idle
<1> QED BY <1>2, <1>4, <1>5

(* A torrent that completes leaves more room.                              *)
LEMMA CompleteInv ==
  ASSUME Inv, NEW i \in Ids, Complete(i)
  PROVE  Inv'
<1> USE DEF Inv
<1>1. complete' = complete \union {i}
      /\ UNCHANGED <<stored, diskPaused, queued, up, entries, tor, wanted, position,
                     nextFront, limit, passes, plan, asked, crashes>>
  BY DEF Complete
<1>2. TypeOK'
  BY <1>1 DEF TypeOK
<1>3. PlanKept' /\ Asleep' /\ UnwantedRest' /\ HeldRest' /\ RosterIsWanted'
  BY <1>1 DEF PlanKept, Asleep, UnwantedRest, HeldRest, RosterIsWanted, Idle
<1>4. ASSUME NEW H, Cardinality((wanted \ H) \ complete) <= limit
      PROVE  Cardinality((wanted \ H) \ complete') <= limit
  <2> DEFINE A == (wanted \ H) \ complete'
             B == (wanted \ H) \ complete
  <2>1. A \subseteq B
    BY <1>1
  <2>2. IsFiniteSet(B)
    <3>1. B \subseteq Ids
      BY DEF TypeOK
    <3> QED BY <3>1, QueueAssumption, FS_Subset
  <2>3. limit \in Nat
    BY QueueAssumption DEF TypeOK
  <2>4. Cardinality(B) <= limit
    BY <1>4
  <2> HIDE DEF A, B
  <2>5. Cardinality(A) <= Cardinality(B) /\ Cardinality(A) \in Nat /\ Cardinality(B) \in Nat
    BY <2>1, <2>2, FS_Subset, FS_CardinalityType
  <2>6. Cardinality(A) <= limit
    BY <2>3, <2>4, <2>5
  <2> QED BY <2>6 DEF A
<1>5. PlanFits'
  <2> SUFFICES ASSUME plan.on, limit # 0
               PROVE  Fits(plan.held)'
    BY <1>1 DEF PlanFits
  <2>1. Fits(plan.held)
    BY DEF PlanFits
  <2>2. Cardinality((wanted \ plan.held) \ complete') <= limit
    BY <1>4, <2>1 DEF Fits, LetIn
  <2> QED BY <1>1, <2>1, <2>2 DEF Fits, LetIn, PlaceOf
<1>6. RosterFits'
  <2> SUFFICES ASSUME Idle, limit # 0
               PROVE  Fits(queued)' /\ \A j \in queued : AtRest(tor[j])
    BY <1>1 DEF RosterFits, Idle
  <2>1. Fits(queued) /\ \A j \in queued : AtRest(tor[j])
    BY DEF RosterFits
  <2>2. Cardinality((wanted \ queued) \ complete') <= limit
    BY <1>4, <2>1 DEF Fits, LetIn
  <2> QED BY <1>1, <2>1, <2>2 DEF Fits, LetIn, PlaceOf
<1> QED BY <1>2, <1>3, <1>5, <1>6

LEMMA BackgroundInv ==
  ASSUME Inv, NEW i \in Ids, Background(i)
  PROVE  Inv'
<1>1. tor[i] \in Torrent
  BY DEF Inv, TypeOK
<1>2. CASE CheckEnds(i)
  <2>1. PICK k \in tor[i].tasks :
          \E result \in Outcomes(tor[i], k) : Becomes(i, Checked(tor[i], k, result))
    BY <1>2 DEF CheckEnds
  <2>2. PICK result \in Outcomes(tor[i], k) : Becomes(i, Checked(tor[i], k, result))
    BY <2>1
  <2>3. result \in Results
    BY DEF Outcomes, Results
  <2>4. Checked(tor[i], k, result) \in Torrent
    BY <1>1, <2>3, TaskType
  <2>5. AtRest(tor[i]) => AtRest(Checked(tor[i], k, result))
    BY <1>1 DEF AtRest, Checked, Replace, Torrent
  <2> QED BY <2>2, <2>4, <2>5, BecomesInv
<1>3. CASE FinishCheck(i)
  <2>1. PICK k \in tor[i].tasks : Becomes(i, FinishedCheck(tor[i], k))
    BY <1>3 DEF FinishCheck
  <2>2. FinishedCheck(tor[i], k) \in Torrent
    BY <1>1, <2>1, TaskType
  <2>3. AtRest(tor[i]) => AtRest(FinishedCheck(tor[i], k))
    BY <1>1 DEF AtRest, FinishedCheck, Replace, Torrent
  <2> QED BY <2>1, <2>2, <2>3, BecomesInv
<1>4. CASE Settle(i)
  <2>1. PICK k \in tor[i].tasks : Becomes(i, Settled(tor[i], k))
    BY <1>4 DEF Settle
  <2>2. Settled(tor[i], k) \in Torrent
    BY <1>1, <2>1, TaskType
  <2>3. AtRest(tor[i]) => AtRest(Settled(tor[i], k))
    BY <1>1 DEF AtRest, Settled, Torrent
  <2> QED BY <2>1, <2>2, <2>3, BecomesInv
<1>5. CASE FatalError(i)
  <2> DEFINE r == [tor[i] EXCEPT !.fatal = TRUE]
  <2>1. r \in Torrent /\ (AtRest(tor[i]) => AtRest(r))
    BY <1>1 DEF AtRest, Torrent
  <2>2. Becomes(i, r)
    BY <1>5 DEF FatalError
  <2> HIDE DEF r
  <2> QED BY <2>1, <2>2, BecomesInv
<1>6. CASE ReceiveFatal(i)
  <2>1. Stopped(tor[i]) \in Torrent /\ AtRest(Stopped(tor[i]))
    BY <1>1, StoppedType DEF AtRest, Stopped, Torrent
  <2> QED BY <1>6, <2>1, BecomesInv DEF ReceiveFatal
<1>7. CASE Complete(i)
  BY <1>7, CompleteInv
<1> QED BY <1>2, <1>3, <1>4, <1>5, <1>6, <1>7 DEF Background

----------------------------------------------------------------------------
(* The process.                                                            *)

LEMMA CrashInv ==
  ASSUME Inv, Crash
  PROVE  Inv'
<1>1. TypeOK'
  <2>1. tor' \in [Ids -> Torrent]
    BY NobodyType DEF Crash
  <2>2. position' \in [Ids -> Positions] /\ nextFront' \in -MaxStarts .. 0
    BY ZeroType DEF Crash
  <2>3. plan' \in [on : BOOLEAN, start : SUBSET Ids, stop : SUBSET Ids, held : SUBSET Ids]
    BY DEF Crash, NoPlan
  <2>4. crashes' \in 0 .. MaxCrashes
    BY QueueAssumption DEF Inv, TypeOK, Crash
  <2> QED BY <2>1, <2>2, <2>3, <2>4 DEF Inv, TypeOK, Crash, disk
<1>2. /\ PlanKept' /\ Asleep' /\ UnwantedRest' /\ HeldRest' /\ PlanFits'
      /\ RosterFits' /\ RosterIsWanted'
  BY DEF Crash, NoPlan, PlanKept, Asleep, UnwantedRest, HeldRest, PlanFits,
         RosterFits, RosterIsWanted, Idle
<1> QED BY <1>1, <1>2 DEF Inv

LEMMA LoadInv ==
  ASSUME Inv, Load
  PROVE  Inv'
<1>1. wanted = {} /\ ~plan.on /\ plan = NoPlan
  BY DEF Inv, Asleep, PlanKept, Load
<1>2. TypeOK'
  <2>1. ASSUME NEW i \in Ids
        PROVE  Added(i \in diskPaused) \in Torrent
    <3>1. (i \in diskPaused) \in BOOLEAN
      OBVIOUS
    <3> QED BY <3>1, AddedType
  <2>2. tor' \in [Ids -> Torrent]
    BY <2>1, NobodyType DEF Load
  <2> QED BY <1>1, <2>2 DEF Inv, TypeOK, Load, disk
<1>3. /\ PlanKept' /\ Asleep' /\ UnwantedRest' /\ HeldRest' /\ PlanFits'
      /\ RosterFits' /\ RosterIsWanted'
  BY <1>1 DEF Load, NoPlan, PlanKept, Asleep, UnwantedRest, HeldRest, PlanFits,
              RosterFits, RosterIsWanted, Idle
<1> QED BY <1>2, <1>3 DEF Inv

LEMMA AdoptInv ==
  ASSUME Inv, Adopt
  PROVE  Inv'
<1>1. ~plan.on /\ plan = NoPlan
  BY DEF Inv, PlanKept, Adopt
<1>2. TypeOK'
  <2>1. entries \subseteq Ids
    BY DEF Inv, TypeOK
  <2>2. position' \in [Ids -> Positions]
    BY <2>1, PlaceType, ZeroType DEF Adopt
  <2> QED BY <2>2 DEF Inv, TypeOK, Adopt, disk
<1>3. UnwantedRest'
  BY DEF Adopt, UnwantedRest, AtRest
<1>4. /\ PlanKept' /\ Asleep' /\ HeldRest' /\ PlanFits'
      /\ RosterFits' /\ RosterIsWanted'
  BY <1>1 DEF Adopt, NoPlan, PlanKept, Asleep, HeldRest, PlanFits,
              RosterFits, RosterIsWanted, Idle
<1> QED BY <1>2, <1>3, <1>4 DEF Inv

----------------------------------------------------------------------------
(* Every step keeps the invariant.                                         *)
LEMMA StepInv == Inv /\ [Next]_vars => Inv'
<1> SUFFICES ASSUME Inv, [Next]_vars
             PROVE  Inv'
  OBVIOUS
<1>1. CASE Command
  BY <1>1, SetRunningInv, SetStoppedInv, RemoveInv, SetMaxActiveInv, AddTorrentInv
     DEF Command
<1>2. CASE Enforce
  BY <1>2, NothingToDecideInv, DecideInv, GiveTurnInv, HoldBackInv, KeepRosterInv
     DEF Enforce
<1>3. CASE \E i \in Ids : Background(i)
  BY <1>3, BackgroundInv
<1>4. CASE UNCHANGED vars
  BY <1>4 DEF vars, Inv, TypeOK, PlanKept, Asleep, UnwantedRest, HeldRest, PlanFits,
              RosterFits, RosterIsWanted, Fits, LetIn, PlaceOf, Idle
<1> QED BY <1>1, <1>2, <1>3, <1>4, TickInv, CrashInv, LoadInv, AdoptInv DEF Next

LEMMA Invariance == (Init \/ InitSettled) /\ [][Next]_vars => []Inv
BY InitInv, InitSettledInv, StepInv, PTL

----------------------------------------------------------------------------
(* What follows of the properties.                                         *)

(* When a pass is done, whoever downloads with leave was let in by it, and*)
(* is not one it held back.                                                *)
HeldNow == IF plan.on THEN plan.held ELSE queued

LEMMA AllowedAreLetIn ==
  ASSUME Inv, PassDone
  PROVE  Allowed \subseteq LetIn(HeldNow) /\ Fits(HeldNow)
<1> USE DEF Inv
<1>1. up = "up" /\ limit # 0
  BY DEF PassDone
<1>2. Fits(HeldNow) /\ \A j \in HeldNow : AtRest(tor[j])
  BY <1>1 DEF PassDone, HeldNow, PlanKept, PlanFits, HeldRest, RosterFits, Idle
<1>3. ASSUME NEW i \in Allowed
      PROVE  i \in LetIn(HeldNow)
  <2>1. i \in entries /\ i \notin complete /\ ~AtRest(tor[i])
    BY DEF Allowed, Downloading, AtRest
  <2>2. i \in wanted
    BY <1>1, <2>1 DEF UnwantedRest
  <2> QED BY <1>2, <2>1, <2>2 DEF LetIn
<1> QED BY <1>2, <1>3

LEMMA InvImpliesLimit == Inv => LimitRespected
<1> SUFFICES ASSUME Inv, PassDone
             PROVE  Cardinality(Allowed) <= limit
  BY DEF LimitRespected
<1> DEFINE L == LetIn(HeldNow)
<1>1. Allowed \subseteq L /\ Cardinality(L) <= limit
  BY AllowedAreLetIn DEF Fits
<1>2. limit \in Nat
  BY QueueAssumption DEF Inv, TypeOK
<1>3. IsFiniteSet(L)
  <2>1. L \subseteq Ids
    BY DEF LetIn, Inv, TypeOK
  <2> QED BY <2>1, QueueAssumption, FS_Subset
<1> HIDE DEF L
<1>4. /\ Cardinality(Allowed) <= Cardinality(L)
      /\ Cardinality(Allowed) \in Nat /\ Cardinality(L) \in Nat
  BY <1>1, <1>3, FS_Subset, FS_CardinalityType
<1> QED BY <1>1, <1>2, <1>4

LEMMA InvImpliesLine == Inv => LineRespected
<1> SUFFICES ASSUME Inv, PassDone, NEW i \in Allowed, NEW j \in HeldNow
             PROVE  Before(PlaceOf(i), PlaceOf(j))
  BY DEF LineRespected, PlaceOf, HeldNow
<1> QED BY AllowedAreLetIn DEF Fits

(* The variables of the queue keep their types, in a session that starts   *)
(* and in one that has been up for a while.                                *)
THEOREM TypeCorrect == (Spec => []TypeOK) /\ (SettledSpec => []TypeOK)
<1>1. Inv => TypeOK
  BY DEF Inv
<1> QED BY <1>1, Invariance, PTL DEF Spec, SettledSpec

(* enforce_queue keeps the limit on active downloads: whatever happened to *)
(* the torrents between its reading them and its acting on them, when it   *)
(* is done no more than the limit download with its leave.                 *)
THEOREM LimitIsRespected ==
  (Spec => []LimitRespected) /\ (SettledSpec => []LimitRespected)
BY InvImpliesLimit, Invariance, PTL DEF Spec, SettledSpec

(* Nobody downloads ahead of a torrent that stands before him in the line  *)
(* and is held back.                                                       *)
THEOREM LineIsRespected ==
  (Spec => []LineRespected) /\ (SettledSpec => []LineRespected)
BY InvImpliesLine, Invariance, PTL DEF Spec, SettledSpec

(* The roster in queued.txt never outlives a turn of the loop with a       *)
(* torrent on it whose user does not want it running.                      *)
THEOREM RosterIsTheUsers ==
  (Spec => []RosterIsWanted) /\ (SettledSpec => []RosterIsWanted)
<1>1. Inv => RosterIsWanted
  BY DEF Inv
<1> QED BY <1>1, Invariance, PTL DEF Spec, SettledSpec

----------------------------------------------------------------------------
(* What the queue starts.                                                  *)

(* Nobody is wanted whose user last said stop.                             *)
WantedAreAsked == wanted \subseteq asked

(* The two ways in which the engine comes to want a torrent its user does  *)
(* not: adopt_queue takes a torrent that is still being checked for one    *)
(* that runs (RestartKeepsPauses), and Entry::new wants what the user adds *)
(* stopped.                                                                *)
TellsPausesApart == Adopt => wanted' \subseteq asked

AddsRunning == \A stopped \in AddPaused : AddTorrent(stopped) => ~stopped

(* Every other step keeps the wish and the user's word together.           *)
LEMMA WantedAreAskedStep ==
  ASSUME Inv, WantedAreAsked, [Next]_vars, [TellsPausesApart]_vars, [AddsRunning]_vars
  PROVE  WantedAreAsked'
<1> USE DEF WantedAreAsked
<1>1. CASE UNCHANGED vars
  BY <1>1 DEF vars
<1>2. CASE ~ UNCHANGED vars
  <2> USE <1>2
  <2>1. ASSUME NEW i \in Ids, SetRunning(i) \/ SetStopped(i) \/ Remove(i)
        PROVE  WantedAreAsked'
    BY <2>1 DEF SetRunning, SetStopped, Remove
  <2>2. ASSUME NEW stopped \in AddPaused, AddTorrent(stopped)
        PROVE  WantedAreAsked'
    <3>1. ~stopped
      BY <2>2 DEF AddsRunning
    <3> QED BY <2>2, <3>1 DEF AddTorrent
  <2>3. CASE Adopt
    BY <2>3 DEF Adopt, TellsPausesApart
  <2>4. CASE Crash
    BY <2>4 DEF Crash
  <2>5. CASE Enforce \/ Tick \/ Load \/ \E n \in Limits : SetMaxActive(n)
    BY <2>5 DEF Enforce, NothingToDecide, Decide, GiveTurn, HoldBack, KeepRoster,
                Tick, Load, SetMaxActive
  <2>6. CASE \E i \in Ids : Background(i)
    BY <2>6 DEF Background, CheckEnds, FinishCheck, Settle, FatalError, ReceiveFatal,
                Complete, Becomes
  <2> QED BY <2>1, <2>2, <2>3, <2>4, <2>5, <2>6 DEF Next, Command
<1> QED BY <1>1, <1>2

LEMMA StartsFromWanted == Inv /\ WantedAreAsked => StartsOnlyAsked
BY DEF Inv, PlanKept, WantedAreAsked, StartsOnlyAsked

LEMMA WantedAreAskedAtStart == Init \/ InitSettled => WantedAreAsked
BY DEF Init, InitSettled, WantedAreAsked

(* The queue starts no torrent whose user last said stop, however its      *)
(* passes are cut into by commands, failures and deaths of the process,    *)
(* unless adopt_queue or Entry::new has wanted that torrent against its    *)
(* user's word: there is no third way.                                     *)
THEOREM StartsOnlyWhatIsAsked ==
  /\ Spec /\ [][TellsPausesApart]_vars /\ [][AddsRunning]_vars => []StartsOnlyAsked
  /\ SettledSpec /\ [][TellsPausesApart]_vars /\ [][AddsRunning]_vars => []StartsOnlyAsked
BY Invariance, WantedAreAskedAtStart, WantedAreAskedStep, StartsFromWanted, PTL
   DEF Spec, SettledSpec

----------------------------------------------------------------------------
(* What a death between two turns of the loop leaves behind.               *)

(* A torrent stored as paused does not run, unless it was paused in its    *)
(* check. In its check it was added stopped, and comes to be paused; and   *)
(* once it is paused, the plan or the roster knows of it if its user wants *)
(* it to run.                                                              *)
Accounted(i) ==
  IF plan.on THEN i \in plan.held \union plan.start ELSE i \in queued

StoredRight(i) ==
  /\ tor[i].st # "live"
  /\ tor[i].st = "initializing" => i \notin asked /\ \A k \in tor[i].tasks : k.sp
  /\ tor[i].st = "paused" /\ i \in asked => Accounted(i)

PausedInCheck(i) == tor[i].init \in tor[i].req

WishInv ==
  /\ crashes = 0 => up = "up" /\ asked \subseteq wanted
  /\ crashes = 0 => \A i \in diskPaused \intersect entries :
                       PausedInCheck(i) \/ StoredRight(i)

LEMMA WishAtStart == InitSettled => WishInv
<1> SUFFICES ASSUME InitSettled
             PROVE  WishInv
  OBVIOUS
<1>1. ASSUME NEW i \in diskPaused \intersect entries
      PROVE  StoredRight(i)
  <2>1. i \in Ids /\ tor[i] = [Nobody EXCEPT !.st = "paused"]
    BY DEF InitSettled
  <2>2. tor[i].st = "paused" /\ ~plan.on
    BY <2>1 DEF InitSettled, Nobody, NoPlan
  <2> QED BY <2>2 DEF StoredRight, Accounted, InitSettled
<1> QED BY <1>1 DEF WishInv, InitSettled

(* Session::unpause stores its torrent as running; one that runs already   *)
(* is left as it was.                                                      *)
LEMMA UnpauseStores ==
  ASSUME TypeOK, WishInv, crashes = 0, NEW i \in entries, Unpause(i),
         i \in diskPaused'
  PROVE  tor'[i].init \in tor'[i].req
<1>1. i \in Ids /\ tor[i] \in Torrent
  BY DEF TypeOK
<1>2. tor[i].st = "live" /\ i \in diskPaused
  BY DEF Unpause, StartFails
<1>3. tor[i].init \in tor[i].req
  BY <1>2 DEF WishInv, StoredRight, PausedInCheck
<1>4. tor'[i] = [tor[i] EXCEPT !.paused = FALSE]
  BY <1>1, <1>2 DEF Unpause, Started, TypeOK
<1> QED BY <1>1, <1>3, <1>4 DEF Torrent

(* Session::pause leaves its torrent paused, failed or asked to be.        *)
LEMMA PauseStores ==
  ASSUME TypeOK, NEW i \in Ids, PauseNow(i)
  PROVE  \/ tor[i].st = "live" /\ tor'[i].st = "paused"
         \/ tor'[i].init \in tor'[i].req
         \/ /\ tor[i].st \in {"paused", "error"} /\ tor'[i] = tor[i]
            /\ diskPaused' = diskPaused
<1>1. tor[i] \in Torrent /\ tor'[i] = Paused(tor[i])
  BY DEF PauseNow, TypeOK
<1>2. CASE tor[i].st = "live"
  BY <1>1, <1>2 DEF Paused, Torrent
<1>3. CASE tor[i].st = "initializing"
  <2>1. tor'[i] = [tor[i] EXCEPT !.paused = TRUE, !.req = @ \union {tor[i].init}]
    BY <1>1, <1>3 DEF Paused
  <2>2. tor'[i].init = tor[i].init /\ tor'[i].req = tor[i].req \union {tor[i].init}
    BY <1>1, <2>1 DEF Torrent
  <2> QED BY <2>2
<1>4. CASE tor[i].st \in {"paused", "error"}
  BY <1>1, <1>4 DEF Paused, PauseNow, PauseFails
<1> QED BY <1>1, <1>2, <1>3, <1>4 DEF Torrent, States

(* The commands.                                                           *)
LEMMA WishCommand ==
  ASSUME Inv, WishInv, Command
  PROVE  WishInv'
<1> SUFFICES ASSUME crashes' = 0
             PROVE  /\ up' = "up" /\ asked' \subseteq wanted'
                    /\ \A j \in diskPaused' \intersect entries' :
                          PausedInCheck(j)' \/ StoredRight(j)'
  BY DEF WishInv
<1>1. /\ TypeOK /\ ~plan.on /\ plan' = plan /\ crashes = 0 /\ up = "up" /\ up' = up
      /\ asked \subseteq wanted
      /\ \A j \in diskPaused \intersect entries : PausedInCheck(j) \/ StoredRight(j)
  BY DEF Inv, PlanKept, WishInv, Idle, Command, SetRunning, SetStopped, Remove,
         SetMaxActive, AddTorrent
<1> DEFINE Same(j) == j \in diskPaused \intersect entries /\ tor'[j] = tor[j]
                      /\ (j \in asked' <=> j \in asked) /\ (j \in queued' <=> j \in queued)
<1>2. ASSUME NEW j, Same(j)
      PROVE  PausedInCheck(j)' \/ StoredRight(j)'
  BY <1>1, <1>2 DEF PausedInCheck, StoredRight, Accounted
<1> HIDE DEF Same
<1>3. ASSUME NEW i \in Ids, SetRunning(i)
      PROVE  \A j \in diskPaused' \intersect entries' : PausedInCheck(j)' \/ StoredRight(j)'
  <2> TAKE j \in diskPaused' \intersect entries'
  <2>1. Unpause(i) /\ entries' = entries /\ queued' = queued /\ asked' = asked \union {i}
        /\ i \in entries
    BY <1>3 DEF SetRunning
  <2>2. CASE j = i
    BY <1>1, <2>1, <2>2, UnpauseStores DEF PausedInCheck
  <2>3. CASE j # i
    <3>1. j \in Ids /\ tor'[j] = tor[j] /\ j \in diskPaused
      BY <1>1, <2>1, <2>3, UnpauseEffect DEF TypeOK
    <3> QED BY <1>2, <2>1, <2>3, <3>1 DEF Same
  <2> QED BY <2>2, <2>3
<1>4. ASSUME NEW i \in Ids, SetStopped(i)
      PROVE  \A j \in diskPaused' \intersect entries' : PausedInCheck(j)' \/ StoredRight(j)'
  <2> TAKE j \in diskPaused' \intersect entries'
  <2>1. PauseNow(i) /\ entries' = entries /\ queued' = queued /\ asked' = asked \ {i}
    BY <1>4 DEF SetStopped
  <2>2. CASE j = i
    <3>1. CASE tor'[i].st = "paused"
      BY <2>1, <2>2, <3>1 DEF StoredRight
    <3>2. CASE tor'[i].init \in tor'[i].req
      BY <2>2, <3>2 DEF PausedInCheck
    <3>3. CASE tor[i].st \in {"paused", "error"} /\ tor'[i] = tor[i]
      BY <2>1, <2>2, <3>3 DEF StoredRight
    <3> QED BY <1>1, <2>1, <3>1, <3>2, <3>3, PauseStores
  <2>3. CASE j # i
    <3>1. j \in Ids /\ tor'[j] = tor[j] /\ j \in diskPaused
      BY <1>1, <2>1, <2>3, PauseEffect DEF TypeOK
    <3> QED BY <1>2, <2>1, <2>3, <3>1 DEF Same
  <2> QED BY <2>2, <2>3
<1>5. ASSUME NEW i \in Ids, Remove(i)
      PROVE  \A j \in diskPaused' \intersect entries' : PausedInCheck(j)' \/ StoredRight(j)'
  <2> TAKE j \in diskPaused' \intersect entries'
  <2>1. j # i /\ j \in diskPaused \intersect entries
    BY <1>5 DEF Remove
  <2>2. tor'[j] = tor[j] /\ queued' = queued /\ (j \in asked' <=> j \in asked)
    BY <1>1, <1>5, <2>1 DEF Remove, TypeOK
  <2> QED BY <1>2, <2>1, <2>2 DEF Same
<1>6. ASSUME NEW n \in Limits, SetMaxActive(n)
      PROVE  \A j \in diskPaused' \intersect entries' : PausedInCheck(j)' \/ StoredRight(j)'
  BY <1>2, <1>6 DEF SetMaxActive, disk, Same
<1>7. ASSUME NEW stopped \in AddPaused, AddTorrent(stopped)
      PROVE  \A j \in diskPaused' \intersect entries' : PausedInCheck(j)' \/ StoredRight(j)'
  <2> DEFINE i == NextId
  <2>1. i \notin stored
    <3>1. CASE stored = {}
      BY <3>1
    <3>2. CASE stored # {}
      <4>1. IsFiniteSet(stored) /\ stored \subseteq Nat
        BY <1>1, QueueAssumption, FS_Subset DEF TypeOK
      <4>2. \E m \in stored : \A j \in stored : j <= m
        BY <3>2, <4>1, Greatest
      <4> DEFINE m == CHOOSE m \in stored : \A j \in stored : j <= m
      <4>3. m \in stored /\ \A j \in stored : j <= m
        BY <4>2
      <4>4. i = 1 + m
        BY <3>2 DEF NextId
      <4> HIDE DEF m, i
      <4> QED BY <4>1, <4>3, <4>4
    <3> QED BY <3>1, <3>2
  <2> HIDE DEF i
  <2>2. /\ i \in Ids /\ tor' = [tor EXCEPT ![i] = Added(stopped)]
        /\ entries' = entries \union {i} /\ queued' = queued \ {i}
        /\ diskPaused' = IF stopped THEN diskPaused \union {i} ELSE diskPaused
        /\ asked' = IF stopped THEN asked ELSE asked \union {i}
    BY <1>7 DEF AddTorrent, i
  <2> TAKE j \in diskPaused' \intersect entries'
  <2>3. CASE j = i
    <3>1. stopped = TRUE /\ i \notin asked'
      BY <1>1, <2>1, <2>2, <2>3, QueueAssumption DEF TypeOK
    <3>2. tor'[i] = Added(TRUE)
      BY <1>1, <2>2, <3>1 DEF TypeOK
    <3>3. Added(TRUE).st = "initializing" /\ \A k \in Added(TRUE).tasks : k.sp
      BY DEF Added, BeginCheck, NewTask
    <3> QED BY <2>3, <3>1, <3>2, <3>3 DEF StoredRight
  <2>4. CASE j # i
    <3>1. j \in Ids /\ tor'[j] = tor[j] /\ j \in diskPaused \intersect entries
      BY <1>1, <2>2, <2>4 DEF TypeOK
    <3> QED BY <1>2, <2>2, <2>4, <3>1 DEF Same
  <2> QED BY <2>3, <2>4
<1>8. asked' \subseteq wanted'
  BY <1>1 DEF Command, SetRunning, SetStopped, Remove, SetMaxActive, AddTorrent
<1> QED BY <1>1, <1>3, <1>4, <1>5, <1>6, <1>7, <1>8 DEF Command

(* A pass of the queue: what it holds back ends up on the roster, what it  *)
(* starts is stored as running.                                            *)
LEMMA WishEnforce ==
  ASSUME Inv, WishInv, Enforce
  PROVE  WishInv'
<1> SUFFICES ASSUME crashes' = 0
             PROVE  /\ up' = "up" /\ asked' \subseteq wanted'
                    /\ \A j \in diskPaused' \intersect entries' :
                          PausedInCheck(j)' \/ StoredRight(j)'
  BY DEF WishInv
<1>1. UNCHANGED <<up, entries, wanted, asked, crashes>>
  BY DEF Enforce, NothingToDecide, Decide, GiveTurn, HoldBack, KeepRoster, disk
<1>2. /\ TypeOK /\ crashes = 0 /\ up = "up" /\ asked \subseteq wanted
      /\ \A j \in diskPaused \intersect entries : PausedInCheck(j) \/ StoredRight(j)
  BY <1>1 DEF Inv, WishInv
<1>3. CASE NothingToDecide
  BY <1>1, <1>2, <1>3 DEF NothingToDecide, disk, PausedInCheck, StoredRight, Accounted
<1>4. CASE Decide
  <2> DEFINE permitted == Admitted(Line, limit)
  <2>1. /\ plan' = Decision(permitted) /\ ~plan.on
        /\ UNCHANGED <<diskPaused, queued, tor>>
    BY <1>4 DEF Decide, disk
  <2> HIDE DEF permitted
  <2>2. /\ plan'.on /\ plan'.held = wanted \ permitted
        /\ plan'.start = permitted \intersect {j \in entries : tor[j].st # "error"}
                                  \intersect {j \in entries : tor[j].st = "paused"}
    BY <2>1 DEF Decision
  <2> SUFFICES ASSUME NEW j \in diskPaused \intersect entries
               PROVE  PausedInCheck(j)' \/ StoredRight(j)'
    BY <1>1, <1>2, <2>1
  <2>3. tor[j].st = "paused" /\ j \in asked => j \in plan'.held \union plan'.start
    BY <1>2, <2>2
  <2> QED BY <1>1, <1>2, <2>1, <2>2, <2>3 DEF PausedInCheck, StoredRight, Accounted
<1>5. ASSUME NEW i \in Ids, GiveTurn(i)
      PROVE  \A j \in diskPaused' \intersect entries' : PausedInCheck(j)' \/ StoredRight(j)'
  <2> TAKE j \in diskPaused' \intersect entries'
  <2>1. /\ Unpause(i) /\ i \in plan.start /\ queued' = queued
        /\ plan' = [plan EXCEPT !.start = @ \ {i}]
    BY <1>5 DEF GiveTurn
  <2>2. i \in entries
    BY <1>2, <2>1 DEF Inv, PlanKept, TypeOK
  <2>3. CASE j = i
    BY <1>2, <2>1, <2>2, <2>3, UnpauseStores DEF PausedInCheck
  <2>4. CASE j # i
    <3>1. tor'[j] = tor[j] /\ j \in diskPaused \intersect entries
      BY <1>1, <1>2, <2>1, <2>4, UnpauseEffect DEF TypeOK
    <3>2. /\ plan'.on = plan.on /\ plan'.held = plan.held
          /\ plan'.start = plan.start \ {i}
      BY <1>2, <2>1 DEF TypeOK
    <3>3. Accounted(j) => Accounted(j)'
      BY <2>1, <2>4, <3>2 DEF Accounted
    <3> QED BY <1>1, <1>2, <3>1, <3>3 DEF PausedInCheck, StoredRight
  <2> QED BY <2>3, <2>4
<1>6. ASSUME NEW i \in Ids, HoldBack(i)
      PROVE  \A j \in diskPaused' \intersect entries' : PausedInCheck(j)' \/ StoredRight(j)'
  <2> TAKE j \in diskPaused' \intersect entries'
  <2>1. /\ PauseNow(i) /\ i \in plan.stop /\ queued' = queued
        /\ plan' = [plan EXCEPT !.stop = @ \ {i}]
    BY <1>6 DEF HoldBack
  <2>2. plan.on /\ i \in plan.held
    BY <2>1 DEF Inv, PlanKept, NoPlan
  <2>3. plan'.on = plan.on /\ plan'.held = plan.held /\ plan'.start = plan.start
    BY <1>2, <2>1 DEF TypeOK
  <2>4. \A k : Accounted(k) => Accounted(k)'
    BY <2>1, <2>3 DEF Accounted
  <2>5. CASE j = i
    <3>1. CASE tor'[i].st = "paused"
      BY <2>2, <2>3, <2>5, <3>1 DEF StoredRight, Accounted
    <3>2. CASE tor'[i].init \in tor'[i].req
      BY <2>5, <3>2 DEF PausedInCheck
    <3>3. CASE tor[i].st = "error" /\ tor'[i] = tor[i]
      BY <2>5, <3>3 DEF StoredRight
    <3> QED BY <1>2, <2>1, <3>1, <3>2, <3>3, PauseStores
  <2>6. CASE j # i
    <3>1. tor'[j] = tor[j] /\ j \in diskPaused \intersect entries
      BY <1>1, <1>2, <2>1, <2>6, PauseEffect DEF TypeOK
    <3> QED BY <1>1, <1>2, <2>4, <3>1 DEF PausedInCheck, StoredRight
  <2> QED BY <2>5, <2>6
<1>7. CASE KeepRoster
  <2>1. /\ plan.on /\ plan.start = {} /\ queued' = plan.held /\ ~plan'.on
        /\ UNCHANGED <<diskPaused, tor>>
    BY <1>7 DEF KeepRoster, NoPlan
  <2> QED BY <1>1, <1>2, <2>1 DEF PausedInCheck, StoredRight, Accounted
<1> QED BY <1>1, <1>2, <1>3, <1>4, <1>5, <1>6, <1>7 DEF Enforce

(* A torrent that moves on its own: one that was added stopped comes to be *)
(* paused, and no other starts or stops by itself.                         *)
LEMMA WishBackground ==
  ASSUME Inv, WishInv, NEW i \in Ids, Background(i)
  PROVE  WishInv'
<1>1. UNCHANGED <<stored, diskPaused, queued, up, entries, wanted, plan, asked, crashes>>
  BY DEF Background, CheckEnds, FinishCheck, Settle, FatalError, ReceiveFatal,
         Complete, Becomes, disk
<1> SUFFICES ASSUME crashes = 0, NEW j \in diskPaused \intersect entries
             PROVE  PausedInCheck(j)' \/ StoredRight(j)'
  BY <1>1 DEF WishInv
<1>2. /\ j \in Ids /\ tor[j] \in Torrent /\ tor[i] \in Torrent
      /\ PausedInCheck(j) \/ StoredRight(j)
  BY DEF Inv, TypeOK, WishInv
<1>3. Accounted(j)' <=> Accounted(j)
  BY <1>1 DEF Accounted
<1>4. CASE tor'[j] = tor[j]
  BY <1>1, <1>2, <1>3, <1>4 DEF PausedInCheck, StoredRight
<1>5. ASSUME NEW r \in Torrent, Becomes(i, r), r.init = tor[i].init, r.req = tor[i].req,
             \/ /\ r.st = tor[i].st
                /\ (\A k \in tor[i].tasks : k.sp) => \A k \in r.tasks : k.sp
             \/ r.st = "error"
             \/ /\ tor[i].st = "initializing"
                /\ (\A k \in tor[i].tasks : k.sp) => r.st = "paused"
      PROVE  PausedInCheck(j)' \/ StoredRight(j)'
  <2>1. CASE j = i
    <3>1. tor'[i] = r
      BY <1>5 DEF Inv, TypeOK, Becomes
    <3>2. CASE PausedInCheck(i)
      BY <1>5, <2>1, <3>1, <3>2 DEF PausedInCheck
    <3>3. CASE StoredRight(i)
      BY <1>1, <1>3, <1>5, <2>1, <3>1, <3>3 DEF StoredRight
    <3> QED BY <1>2, <2>1, <3>2, <3>3
  <2>2. CASE j # i
    BY <1>2, <1>4, <1>5, <2>2 DEF Inv, TypeOK, Becomes
  <2> QED BY <2>1, <2>2
<1>6. CASE CheckEnds(i)
  <2>1. PICK k \in tor[i].tasks :
          \E result \in Outcomes(tor[i], k) : Becomes(i, Checked(tor[i], k, result))
    BY <1>6 DEF CheckEnds
  <2>2. PICK result \in Outcomes(tor[i], k) : Becomes(i, Checked(tor[i], k, result))
    BY <2>1
  <2> DEFINE r == Checked(tor[i], k, result)
  <2>3. r \in Torrent /\ k \in Tasks
    BY <1>2, <2>2, TaskType DEF Outcomes, Results, Torrent
  <2>4. /\ r.init = tor[i].init /\ r.req = tor[i].req /\ r.st = tor[i].st
        /\ (\A t \in tor[i].tasks : t.sp) => \A t \in r.tasks : t.sp
    BY <1>2, <2>3 DEF Checked, Replace, Torrent, Tasks
  <2> HIDE DEF r
  <2> QED BY <1>5, <2>2, <2>3, <2>4 DEF r
<1>7. CASE FinishCheck(i)
  <2>1. PICK k \in tor[i].tasks : Becomes(i, FinishedCheck(tor[i], k))
    BY <1>7 DEF FinishCheck
  <2> DEFINE r == FinishedCheck(tor[i], k)
  <2>2. r \in Torrent /\ k \in Tasks
    BY <1>2, <2>1, TaskType DEF Torrent
  <2>3. /\ r.init = tor[i].init /\ r.req = tor[i].req /\ r.st = tor[i].st
        /\ (\A t \in tor[i].tasks : t.sp) => \A t \in r.tasks : t.sp
    BY <1>2, <2>2 DEF FinishedCheck, Replace, Torrent, Tasks
  <2> HIDE DEF r
  <2> QED BY <1>5, <2>1, <2>2, <2>3 DEF r
<1>8. CASE Settle(i)
  <2>1. PICK k \in tor[i].tasks : Becomes(i, Settled(tor[i], k))
    BY <1>8 DEF Settle
  <2> DEFINE r == Settled(tor[i], k)
  <2>2. r \in Torrent
    BY <1>2, <2>1, TaskType
  <2>3. /\ r.init = tor[i].init /\ r.req = tor[i].req
        /\ \/ /\ r.st = tor[i].st
              /\ (\A t \in tor[i].tasks : t.sp) => \A t \in r.tasks : t.sp
           \/ r.st = "error"
           \/ /\ tor[i].st = "initializing"
              /\ (\A t \in tor[i].tasks : t.sp) => r.st = "paused"
    BY <1>2, <2>1 DEF Settled, Torrent
  <2> HIDE DEF r
  <2> QED BY <1>5, <2>1, <2>2, <2>3 DEF r
<1>9. CASE FatalError(i)
  <2> DEFINE r == [tor[i] EXCEPT !.fatal = TRUE]
  <2>1. /\ r \in Torrent /\ r.init = tor[i].init /\ r.req = tor[i].req
        /\ r.st = tor[i].st /\ r.tasks = tor[i].tasks
    BY <1>2 DEF Torrent
  <2>2. Becomes(i, r)
    BY <1>9 DEF FatalError
  <2> HIDE DEF r
  <2> QED BY <1>5, <2>1, <2>2
<1>10. CASE ReceiveFatal(i)
  <2> DEFINE r == Stopped(tor[i])
  <2>1. r \in Torrent /\ r.init = tor[i].init /\ r.req = tor[i].req /\ r.st = "error"
    BY <1>2, StoppedType DEF Stopped, Torrent
  <2>2. Becomes(i, r)
    BY <1>10 DEF ReceiveFatal
  <2> HIDE DEF r
  <2> QED BY <1>5, <2>1, <2>2
<1>11. CASE Complete(i)
  BY <1>4, <1>11 DEF Complete
<1> QED BY <1>6, <1>7, <1>8, <1>9, <1>10, <1>11 DEF Background

LEMMA WishStep ==
  ASSUME Inv, WishInv, [Next]_vars
  PROVE  WishInv'
<1>1. CASE UNCHANGED vars
  BY <1>1 DEF vars, WishInv, PausedInCheck, StoredRight, Accounted
<1>2. CASE Tick
  BY <1>2 DEF Tick, disk, WishInv, PausedInCheck, StoredRight, Accounted
<1>3. CASE Crash
  BY <1>3 DEF Crash, WishInv, Inv, TypeOK
<1>4. CASE Load \/ Adopt
  BY <1>4 DEF Load, Adopt, WishInv
<1>5. CASE \E i \in Ids : Background(i)
  BY <1>5, WishBackground
<1> QED BY <1>1, <1>2, <1>3, <1>4, <1>5, WishCommand, WishEnforce DEF Next

LEMMA WishInvImplies == Inv /\ WishInv => WishIsOnDisk
<1> SUFFICES ASSUME Inv, WishInv, crashes = 0, Idle, NEW i \in asked
             PROVE  \/ tor[i].st = "error"
                    \/ tor[i].init \in tor[i].req
                    \/ i \in (stored \ diskPaused) \union queued
  BY DEF WishIsOnDisk
<1>1. i \in entries /\ i \in stored /\ i \in Ids /\ tor[i].st \in States
  BY DEF Inv, TypeOK, WishInv, Torrent
<1>2. ~plan.on
  BY DEF Inv, PlanKept, Idle
<1>3. CASE i \in diskPaused /\ StoredRight(i)
  BY <1>1, <1>2, <1>3 DEF StoredRight, Accounted, States
<1> QED BY <1>1, <1>3 DEF WishInv, PausedInCheck

(* A death between two turns of the loop loses no wish of the user's: the  *)
(* paused flags of session.json and the roster, written at different       *)
(* moments of a pass, together say of every torrent he wants running that  *)
(* it runs or is held back, however starts, stops, pauses and the ends of  *)
(* checks were interleaved; with the exceptions WishIsOnDisk names.        *)
THEOREM WishesSurvive == SettledSpec => []WishIsOnDisk
BY Invariance, WishAtStart, WishStep, WishInvImplies, PTL DEF SettledSpec
----------------------------------------------------------------------------
(* The rule itself: the loop of `admit`, on any line of torrents.          *)

(* The torrents the loop has seen, and the downloads among them.           *)
Seen == Wanted \ rest
SeenDownloads == {v \in Seen : ~v.complete}

(* Everyone seen stands before everyone left.                              *)
InOrder == \A v \in Seen, w \in rest : Before(v, w)

(* The counter counts the downloads seen, up to the limit.                 *)
Counted ==
  LET n == Cardinality(SeenDownloads)
  IN  downloading = IF most = 0 \/ n <= most THEN n ELSE most

Takes(v) == v.complete \/ most = 0 \/ Cardinality(Ahead(v, waiting)) < most

(* The list holds those that Admitted lets in, of the ones seen.           *)
SoFar == admitted = {v.id : v \in {w \in Seen : Takes(w)}}

(* The counter is the number of downloads let in.                        *)
CountsDownloads == downloading = Cardinality(Downloads)

LoopInv == LoopTypeOK /\ InOrder /\ Counted /\ SoFar

----------------------------------------------------------------------------
(* Before is a strict order on the torrents of a line.                     *)
LEMMA BeforeOrder ==
  ASSUME NEW v \in Waiting, NEW w \in Waiting
  PROVE  /\ ~(Before(v, w) /\ Before(w, v))
         /\ ~Before(v, v)
BY DEF Before, Waiting

(* The sets that are counted are finite.                                   *)
LEMMA LoopFinite ==
  ASSUME LoopTypeOK
  PROVE  /\ IsFiniteSet(SeenDownloads) /\ Cardinality(SeenDownloads) \in Nat
         /\ IsFiniteSet(Downloads) /\ Cardinality(Downloads) \in Nat
<1>1. IsFiniteSet(waiting)
  BY DEF LoopTypeOK, IsLine
<1>2. SeenDownloads \subseteq waiting /\ Downloads \subseteq waiting
  BY DEF SeenDownloads, Seen, Wanted, Downloads
<1> QED BY <1>1, <1>2, FS_Subset, FS_CardinalityType

(* When a torrent comes first, the downloads before it are those seen.     *)
LEMMA AheadOfFirst ==
  ASSUME LoopTypeOK, InOrder, NEW w, First(w)
  PROVE  Ahead(w, waiting) = SeenDownloads
<1>1. waiting \subseteq Waiting /\ rest \subseteq waiting /\ w \in rest
  BY DEF LoopTypeOK, IsLine, First, Wanted
<1>2. ASSUME NEW v \in Ahead(w, waiting)
      PROVE  v \in SeenDownloads
  <2>1. v \in waiting /\ v.wanted /\ ~v.complete /\ Before(v, w)
    BY DEF Ahead
  <2>2. v \notin rest
    BY <1>1, <2>1, BeforeOrder DEF First
  <2> QED BY <2>1, <2>2 DEF SeenDownloads, Seen, Wanted
<1>3. ASSUME NEW v \in SeenDownloads
      PROVE  v \in Ahead(w, waiting)
  BY <1>1, <1>3 DEF SeenDownloads, Seen, Wanted, InOrder, Ahead
<1> QED BY <1>2, <1>3

(* Taking the first torrent keeps the order.                               *)
LEMMA OrderKept ==
  ASSUME LoopTypeOK, InOrder, NEW w, First(w), waiting' = waiting,
         rest' = rest \ {w}
  PROVE  /\ rest' \subseteq Wanted'
         /\ Seen' = Seen \union {w}
         /\ w \notin Seen
         /\ InOrder'
<1>1. w \in rest /\ rest \subseteq Wanted /\ Wanted' = Wanted
  BY DEF LoopTypeOK, First, Wanted
<1>2. Seen' = Seen \union {w} /\ w \notin Seen
  BY <1>1 DEF Seen
<1>3. InOrder'
  BY <1>1, <1>2 DEF InOrder, First
<1> QED BY <1>1, <1>2, <1>3

----------------------------------------------------------------------------
(* The loop starts with nobody seen and nobody let in.                   *)
LEMMA LoopStarts == LoopInit => LoopInv
<1> SUFFICES ASSUME LoopInit
             PROVE  LoopInv
  OBVIOUS
<1>1. Seen = {} /\ SeenDownloads = {}
  BY DEF LoopInit, Seen, SeenDownloads
<1>2. LoopTypeOK
  BY DEF LoopInit, LoopTypeOK
<1>3. Counted
  BY <1>1, FS_EmptySet DEF LoopInit, Counted
<1>4. InOrder /\ SoFar
  BY <1>1 DEF LoopInit, InOrder, SoFar
<1> QED BY <1>2, <1>3, <1>4 DEF LoopInv

(* Every turn of the loop keeps the invariant.                             *)
LEMMA LoopStep == LoopInv /\ [LoopNext]_(loopVars) => LoopInv'
<1> SUFFICES ASSUME LoopInv, [LoopNext]_(loopVars)
             PROVE  LoopInv'
  OBVIOUS
<1> USE DEF LoopInv
<1>1. ASSUME NEW w \in rest, TakeComplete(w)
      PROVE  LoopInv'
  <2>1. First(w) /\ w.complete /\ waiting' = waiting /\ most' = most
        /\ rest' = rest \ {w} /\ downloading' = downloading
        /\ admitted' = admitted \union {w.id}
    BY <1>1 DEF TakeComplete
  <2>2. /\ rest' \subseteq Wanted' /\ InOrder'
        /\ Seen' = Seen \union {w} /\ w \notin Seen
    BY <2>1, OrderKept
  <2>3. SeenDownloads' = SeenDownloads
    BY <2>1, <2>2 DEF SeenDownloads
  <2>4. Counted'
    BY <2>1, <2>3 DEF Counted
  <2>5. SoFar'
    <3>1. \A v : Takes(v)' <=> Takes(v)
      BY <2>1 DEF Takes, Ahead
    <3>2. Takes(w)
      BY <2>1 DEF Takes
    <3> QED BY <2>1, <2>2, <3>1, <3>2 DEF SoFar
  <2>6. LoopTypeOK'
    BY <2>1, <2>2 DEF LoopTypeOK, Wanted
  <2> QED BY <2>2, <2>4, <2>5, <2>6
<1>2. ASSUME NEW w \in rest, TakeDownload(w)
      PROVE  LoopInv'
  <2>1. First(w) /\ ~w.complete /\ waiting' = waiting /\ most' = most
        /\ rest' = rest \ {w}
    BY <1>2 DEF TakeDownload
  <2>2. /\ rest' \subseteq Wanted' /\ InOrder'
        /\ Seen' = Seen \union {w} /\ w \notin Seen
    BY <2>1, OrderKept
  <2>3. SeenDownloads' = SeenDownloads \union {w} /\ w \notin SeenDownloads
    BY <2>1, <2>2 DEF SeenDownloads
  <2> DEFINE n == Cardinality(SeenDownloads)
  <2>4. n \in Nat /\ n' = n + 1
    BY <2>3, LoopFinite, FS_AddElement
  <2>5. most \in Nat /\ most' \in Nat
    BY <2>1 DEF LoopTypeOK
  <2>6. Cardinality(Ahead(w, waiting)) = n
    BY <2>1, AheadOfFirst
  <2>7. HasRoom <=> most = 0 \/ n < most
    BY <2>4, <2>5 DEF Counted, HasRoom
  <2>8. HasRoom <=> Takes(w)
    BY <2>1, <2>6, <2>7 DEF Takes
  <2>9. \A v : Takes(v)' <=> Takes(v)
    BY <2>1 DEF Takes, Ahead
  <2>10. CASE HasRoom
    <3>1. admitted' = admitted \union {w.id} /\ downloading' = downloading + 1
      BY <1>2, <2>10 DEF TakeDownload
    <3>2. Counted'
      BY <2>1, <2>4, <2>5, <2>7, <2>10, <3>1 DEF Counted
    <3>3. SoFar'
      BY <2>2, <2>8, <2>9, <2>10, <3>1 DEF SoFar
    <3>4. LoopTypeOK'
      BY <2>1, <2>2, <3>1 DEF LoopTypeOK, Wanted
    <3> QED BY <2>2, <3>2, <3>3, <3>4
  <2>11. CASE ~HasRoom
    <3>1. admitted' = admitted /\ downloading' = downloading
      BY <1>2, <2>11 DEF TakeDownload
    <3>2. Counted'
      BY <2>1, <2>4, <2>5, <2>7, <2>11, <3>1 DEF Counted
    <3>3. SoFar'
      BY <2>2, <2>8, <2>9, <2>11, <3>1 DEF SoFar
    <3>4. LoopTypeOK'
      BY <2>1, <2>2, <3>1 DEF LoopTypeOK, Wanted
    <3> QED BY <2>2, <3>2, <3>3, <3>4
  <2> QED BY <2>10, <2>11
<1>3. CASE UNCHANGED loopVars
  <2>1. Wanted' = Wanted /\ Seen' = Seen /\ SeenDownloads' = SeenDownloads
    BY <1>3 DEF loopVars, Wanted, Seen, SeenDownloads
  <2>2. \A v : Takes(v)' <=> Takes(v)
    BY <1>3 DEF loopVars, Takes, Ahead
  <2> QED BY <1>3, <2>1, <2>2 DEF loopVars, LoopTypeOK, InOrder, Counted, SoFar
<1> QED BY <1>1, <1>2, <1>3 DEF LoopNext

----------------------------------------------------------------------------
(* `admit` returns the torrents that Admitted says should run.             *)
THEOREM AdmitIsCorrect == LoopSpec => []Correct
<1>1. LoopInv => Correct
  <2> SUFFICES ASSUME LoopInv, rest = {}
               PROVE  admitted = Admitted(waiting, most)
    BY DEF Correct
  <2>1. {w \in Seen : Takes(w)}
          = {v \in waiting : v.wanted
                /\ (v.complete \/ most = 0 \/ Cardinality(Ahead(v, waiting)) < most)}
    BY DEF Seen, Wanted, Takes
  <2> QED BY <2>1 DEF LoopInv, SoFar, Admitted
<1> QED BY <1>1, LoopStarts, LoopStep, PTL DEF LoopSpec

(* A torrent is let in once: its id is not in the list before its turn.  *)
LEMMA LetInOnce ==
  ASSUME LoopInv, NEW w, First(w), waiting' = waiting
  PROVE  /\ w \notin Downloads
         /\ admitted' = admitted => Downloads' = Downloads
         /\ admitted' = admitted \union {w.id} =>
              Downloads' = IF w.complete THEN Downloads ELSE Downloads \union {w}
<1>1. w \in waiting /\ w \notin Seen
  BY DEF LoopInv, LoopTypeOK, First, Wanted, Seen
<1>2. \A u, v \in waiting : u.id = v.id => u = v
  BY DEF LoopInv, LoopTypeOK, IsLine
<1>3. w.id \notin admitted
  BY <1>1, <1>2 DEF LoopInv, SoFar, Seen, Wanted
<1> QED BY <1>1, <1>2, <1>3 DEF Downloads

(* The counter is the number of downloads in the list.                     *)
LEMMA CountStep == LoopInv /\ CountsDownloads /\ [LoopNext]_(loopVars) => CountsDownloads'
<1> SUFFICES ASSUME LoopInv, CountsDownloads, [LoopNext]_(loopVars)
             PROVE  CountsDownloads'
  OBVIOUS
<1>1. ASSUME NEW w \in rest, TakeComplete(w)
      PROVE  CountsDownloads'
  <2>1. Downloads' = Downloads
    BY <1>1, LetInOnce DEF TakeComplete
  <2> QED BY <1>1, <2>1 DEF TakeComplete, CountsDownloads
<1>2. ASSUME NEW w \in rest, TakeDownload(w)
      PROVE  CountsDownloads'
  <2>1. First(w) /\ ~w.complete /\ waiting' = waiting
    BY <1>2 DEF TakeDownload
  <2>2. CASE HasRoom
    <3>1. w \notin Downloads /\ Downloads' = Downloads \union {w}
          /\ downloading' = downloading + 1
      BY <1>2, <2>1, <2>2, LetInOnce DEF TakeDownload
    <3>2. Cardinality(Downloads') = Cardinality(Downloads) + 1
      BY <3>1, LoopFinite, FS_AddElement DEF LoopInv
    <3> QED BY <3>1, <3>2 DEF CountsDownloads
  <2>3. CASE ~HasRoom
    <3>1. Downloads' = Downloads /\ downloading' = downloading
      BY <1>2, <2>1, <2>3, LetInOnce DEF TakeDownload
    <3> QED BY <3>1 DEF CountsDownloads
  <2> QED BY <2>2, <2>3
<1>3. CASE UNCHANGED loopVars
  BY <1>3 DEF loopVars, CountsDownloads, Downloads
<1> QED BY <1>1, <1>2, <1>3 DEF LoopNext

(* No more downloads are let in than the limit, at any turn of the loop. *)
THEOREM AdmitIsWithinLimit == LoopSpec => []WithinLimit
<1>1. LoopInit => CountsDownloads
  <2> SUFFICES ASSUME LoopInit
               PROVE  CountsDownloads
    OBVIOUS
  <2>1. Downloads = {}
    BY DEF LoopInit, Downloads
  <2> QED BY <2>1, FS_EmptySet DEF LoopInit, CountsDownloads
<1>2. LoopInv /\ CountsDownloads => WithinLimit
  <2> SUFFICES ASSUME LoopInv, CountsDownloads, most # 0
               PROVE  downloading <= most
    BY DEF CountsDownloads, WithinLimit
  <2>1. most \in Nat /\ Cardinality(SeenDownloads) \in Nat
    BY LoopFinite DEF LoopInv, LoopTypeOK
  <2> QED BY <2>1 DEF LoopInv, Counted
<1> QED BY <1>1, <1>2, LoopStarts, LoopStep, CountStep, PTL DEF LoopSpec

----------------------------------------------------------------------------
(* Whoever was seen and left out has as many downloads before it as may    *)
(* run.                                                                    *)
InFrontOf(w) == {v \in Downloads : Before(v, w)}

Filled ==
  \A w \in Seen : w.id \notin admitted =>
    most # 0 /\ Cardinality(InFrontOf(w)) = most

(* What is let in was seen.                                              *)
LEMMA DownloadsAreSeen ==
  ASSUME LoopInv
  PROVE  Downloads \subseteq Seen
<1>1. \A u, v \in waiting : u.id = v.id => u = v
  BY DEF LoopInv, LoopTypeOK, IsLine
<1>2. Seen \subseteq waiting
  BY DEF Seen, Wanted
<1> QED BY <1>1, <1>2 DEF LoopInv, SoFar, Downloads

(* A torrent whose turn comes stands in front of nobody who was seen.      *)
LEMMA NobodyOvertaken ==
  ASSUME LoopInv, NEW w, First(w), NEW u \in Seen, waiting' = waiting,
         Downloads' = Downloads \/ Downloads' = Downloads \union {w}
  PROVE  InFrontOf(u)' = InFrontOf(u)
<1>1. u \in Waiting /\ w \in Waiting /\ w \in rest
  BY DEF LoopInv, LoopTypeOK, IsLine, First, Seen, Wanted
<1>2. Before(u, w)
  BY <1>1 DEF LoopInv, InOrder
<1>3. ~Before(w, u)
  BY <1>1, <1>2, BeforeOrder
<1>4. \A v : Before(v, u)' <=> Before(v, u)
  OBVIOUS
<1> QED BY <1>3, <1>4 DEF InFrontOf

LEMMA FilledStep == LoopInv /\ CountsDownloads /\ Filled /\ [LoopNext]_(loopVars) => Filled'
<1> SUFFICES ASSUME LoopInv, CountsDownloads, Filled, [LoopNext]_(loopVars)
             PROVE  Filled'
  OBVIOUS
<1>1. ASSUME NEW w \in rest, TakeComplete(w) \/ TakeDownload(w)
      PROVE  Filled'
  <2>1. First(w) /\ waiting' = waiting /\ most' = most /\ rest' = rest \ {w}
        /\ Seen' = Seen \union {w} /\ admitted \subseteq admitted'
    BY <1>1, OrderKept DEF LoopInv, TakeComplete, TakeDownload
  <2>2. Downloads' = Downloads \/ Downloads' = Downloads \union {w}
    BY <1>1, <2>1, LetInOnce DEF TakeComplete, TakeDownload
  <2>3. ASSUME NEW u \in Seen, u.id \notin admitted'
        PROVE  most' # 0 /\ Cardinality(InFrontOf(u)') = most'
    <3>1. most # 0 /\ Cardinality(InFrontOf(u)) = most
      BY <2>1, <2>3 DEF Filled
    <3>2. InFrontOf(u)' = InFrontOf(u)
      BY <2>1, <2>2, NobodyOvertaken
    <3> QED BY <2>1, <3>1, <3>2
  <2>4. ASSUME w.id \notin admitted'
        PROVE  most' # 0 /\ Cardinality(InFrontOf(w)') = most'
    <3>1. ~HasRoom /\ Downloads' = Downloads
      BY <1>1, <2>1, <2>4, LetInOnce DEF TakeComplete, TakeDownload
    <3>2. most \in Nat /\ Cardinality(SeenDownloads) \in Nat
      BY LoopFinite DEF LoopInv, LoopTypeOK
    <3>3. most # 0 /\ Cardinality(Downloads) = most
      BY <3>1, <3>2 DEF LoopInv, Counted, CountsDownloads, HasRoom
    <3>4. \A v \in Downloads : Before(v, w)
      BY <2>1, DownloadsAreSeen DEF LoopInv, InOrder, First
    <3>5. InFrontOf(w)' = Downloads
      BY <3>1, <3>4 DEF InFrontOf
    <3> QED BY <2>1, <3>3, <3>5
  <2> QED BY <2>1, <2>3, <2>4 DEF Filled
<1>2. CASE UNCHANGED loopVars
  BY <1>2 DEF loopVars, Filled, Seen, Wanted, InFrontOf, Downloads
<1> QED BY <1>1, <1>2 DEF LoopNext

(* `admit` is right: it returns what the rule names, never lets in more    *)
(* downloads than the limit, and leaves a torrent waiting only behind as   *)
(* many downloads as may run, for every line and every limit.              *)
THEOREM AdmitIsAlwaysRight == LoopSpec => []AdmitIsRight
<1>1. LoopInit => Filled /\ CountsDownloads
  <2> SUFFICES ASSUME LoopInit
               PROVE  Filled /\ CountsDownloads
    OBVIOUS
  <2>1. Seen = {} /\ Downloads = {}
    BY DEF LoopInit, Seen, Downloads
  <2> QED BY <2>1, FS_EmptySet DEF LoopInit, Filled, CountsDownloads
<1>2. LoopInv /\ Filled => LoopTypeOK /\ PlacesAreFilled
  BY DEF LoopInv, Filled, PlacesAreFilled, Seen, InFrontOf
<1>3. LoopTypeOK /\ Correct /\ WithinLimit /\ PlacesAreFilled => AdmitIsRight
  BY DEF AdmitIsRight
<1> QED
  BY <1>1, <1>2, <1>3, LoopStarts, LoopStep, CountStep, FilledStep, AdmitIsCorrect,
     AdmitIsWithinLimit, PTL DEF LoopSpec
=============================================================================
