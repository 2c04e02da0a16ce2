------------------------ MODULE ManagedTorrentProofs ------------------------
(***************************************************************************)
(* Lemmas about the operators of ManagedTorrent: each leaves a torrent,    *)
(* and each keeps one check per initializing object.                       *)
(***************************************************************************)
EXTENDS ManagedTorrent, FiniteSetTheorems, WellFoundedInduction, TLAPS

(* What the operators of ManagedTorrent make of a torrent.                 *)

(* A new task is a task.                                                   *)
LEMMA NewTaskType ==
  ASSUME NEW r \in Torrent, NEW sp \in BOOLEAN
  PROVE  NewTask(r, sp) \in Tasks
<1> DEFINE Free(n) == n = 3 \/ \A k \in r.tasks : k.init = r.init => k.nth # n
<1>1. \E n \in Nths : Free(n)
  BY DEF Nths
<1>2. (CHOOSE n \in Nths : Free(n)) \in Nths
  BY <1>1
<1> QED BY <1>2 DEF NewTask, Tasks, Torrent, Results

(* start() on an initializing torrent leaves a torrent.                    *)
LEMMA BeginCheckType ==
  ASSUME NEW r \in Torrent, NEW sp \in BOOLEAN
  PROVE  BeginCheck(r, sp) \in Torrent
<1>1. NewTask(r, sp) \in Tasks
  BY NewTaskType
<1> QED BY <1>1 DEF BeginCheck, Torrent

(* A torrent that is added is a torrent.                                   *)
LEMMA AddedType ==
  ASSUME NEW sp \in BOOLEAN
  PROVE  Added(sp) \in Torrent
<1> DEFINE fresh == [st |-> "initializing", paused |-> sp, init |-> 1, req |-> {},
                     running |-> {}, tasks |-> {}, fatal |-> FALSE]
<1>1. fresh \in Torrent
  BY MaxInitsAssumption DEF Torrent, States, Inits
<1> QED BY <1>1, BeginCheckType DEF Added

(* start() leaves a torrent, as long as there is an object to give it.     *)
LEMMA StartedType ==
  ASSUME NEW r \in Torrent, NEW sp \in BOOLEAN,
         r.st = "error" => r.init < MaxInits
  PROVE  Started(r, sp) \in Torrent
<1> DEFINE s == [r EXCEPT !.paused = sp]
           e == [s EXCEPT !.st = "initializing", !.init = @ + 1]
<1>1. s \in Torrent /\ s.st = r.st /\ s.init = r.init
  BY DEF Torrent
<1>2. CASE r.st = "live"
  BY <1>1, <1>2 DEF Started
<1>3. CASE r.st = "initializing"
  <2>1. BeginCheck(s, sp) \in Torrent
    BY <1>1, BeginCheckType
  <2> QED BY <1>3, <2>1 DEF Started
<1>4. CASE r.st = "paused"
  BY <1>1, <1>4 DEF Started, Torrent, States
<1>5. CASE r.st = "error"
  <2>1. s.init + 1 \in Inits
    BY <1>1, <1>5, MaxInitsAssumption DEF Torrent, Inits
  <2>2. e \in Torrent
    BY <1>1, <2>1 DEF Torrent, States
  <2>3. BeginCheck(e, sp) \in Torrent
    BY <2>2, BeginCheckType
  <2> QED BY <1>1, <1>5, <2>3 DEF Started
<1> QED BY <1>2, <1>3, <1>4, <1>5 DEF Torrent, States

(* pause() leaves a torrent.                                               *)
LEMMA PausedType ==
  ASSUME NEW r \in Torrent
  PROVE  Paused(r) \in Torrent
BY DEF Paused, Torrent, States

(* The steps of a check leave a torrent.                                   *)
LEMMA TaskType ==
  ASSUME NEW r \in Torrent, NEW k \in r.tasks
  PROVE  /\ \A result \in Results : Checked(r, k, result) \in Torrent
         /\ FinishedCheck(r, k) \in Torrent
         /\ Settled(r, k) \in Torrent
<1>1. k \in Tasks
  BY DEF Torrent
<1>2. ASSUME NEW result \in Results
      PROVE  Checked(r, k, result) \in Torrent
  BY <1>1 DEF Checked, Replace, Torrent, Tasks
<1>3. FinishedCheck(r, k) \in Torrent
  <2>1. [k EXCEPT !.fin = TRUE] \in Tasks
    BY <1>1 DEF Tasks
  <2>2. Replace(r, k, [k EXCEPT !.fin = TRUE]) \in Torrent
    BY <2>1 DEF Replace, Torrent
  <2> QED BY <2>2 DEF FinishedCheck, Torrent
<1>4. Settled(r, k) \in Torrent
  BY DEF Settled, Torrent, States
<1> QED BY <1>2, <1>3, <1>4

(* stop_with_error() leaves a torrent.                                     *)
LEMMA StoppedType ==
  ASSUME NEW r \in Torrent
  PROVE  Stopped(r) \in Torrent
BY DEF Stopped, Torrent, States

----------------------------------------------------------------------------
(* What the operators do to the checks that are running.                   *)

(* An operator that touches neither the tasks nor check_running is no      *)
(* danger to either.                                                       *)
LEMMA OneCheckKept ==
  ASSUME NEW r, NEW s, OneCheck(r), s.tasks = r.tasks, s.running = r.running
  PROVE  OneCheck(s)
BY DEF OneCheck, Busy

(* A check spawned where none is running is the only one.                  *)
LEMMA OneCheckSpawned ==
  ASSUME NEW r, NEW s, NEW k, OneCheck(r),
         k.init \in Inits, k.init \notin r.running, ~k.fin,
         s.tasks = r.tasks \union {k}, s.running = r.running \union {k.init}
  PROVE  OneCheck(s)
<1>1. Busy(r, k.init) = {}
  BY DEF OneCheck
<1>2. Busy(s, k.init) = {k}
  BY <1>1 DEF Busy
<1>3. ASSUME NEW i \in Inits, i # k.init
      PROVE  Busy(s, i) = Busy(r, i) /\ (i \in s.running <=> i \in r.running)
  BY <1>3 DEF Busy
<1> QED BY <1>2, <1>3 DEF OneCheck

(* A running check that goes on is still the only one.                     *)
LEMMA OneCheckReplaced ==
  ASSUME NEW r, NEW s, NEW k \in r.tasks, NEW l, OneCheck(r),
         k.init \in Inits, ~k.fin, l.init = k.init, ~l.fin,
         s.tasks = (r.tasks \ {k}) \union {l}, s.running = r.running
  PROVE  OneCheck(s)
<1>1. Busy(r, k.init) = {k} /\ k.init \in r.running
  BY DEF OneCheck, Busy
<1>2. Busy(s, k.init) = {l}
  BY <1>1 DEF Busy
<1>3. ASSUME NEW i \in Inits, i # k.init
      PROVE  Busy(s, i) = Busy(r, i)
  BY <1>3 DEF Busy
<1> QED BY <1>1, <1>2, <1>3 DEF OneCheck

(* finish_check(): the object's only check is no longer running.           *)
LEMMA OneCheckFinished ==
  ASSUME NEW r, NEW s, NEW k \in r.tasks, NEW l, OneCheck(r),
         k.init \in Inits, ~k.fin, l.init = k.init, l.fin,
         s.tasks = (r.tasks \ {k}) \union {l}, s.running = r.running \ {k.init}
  PROVE  OneCheck(s)
<1>1. Busy(r, k.init) = {k}
  BY DEF OneCheck, Busy
<1>2. Busy(s, k.init) = {}
  BY <1>1 DEF Busy
<1>3. ASSUME NEW i \in Inits, i # k.init
      PROVE  Busy(s, i) = Busy(r, i) /\ (i \in s.running <=> i \in r.running)
  BY <1>3 DEF Busy
<1> QED BY <1>2, <1>3 DEF OneCheck

(* A task that has let go of its object may change.                        *)
LEMMA OneCheckIdle ==
  ASSUME NEW r, NEW s, NEW k, NEW l, OneCheck(r), k.fin, l.fin,
         s.tasks = (r.tasks \ {k}) \union {l}, s.running = r.running
  PROVE  OneCheck(s)
<1>1. ASSUME NEW i \in Inits
      PROVE  Busy(s, i) = Busy(r, i)
  BY DEF Busy
<1> QED BY <1>1 DEF OneCheck

(* A task that has let go of its object may end.                           *)
LEMMA OneCheckEnded ==
  ASSUME NEW r, NEW s, NEW k, OneCheck(r), k.fin,
         s.tasks = r.tasks \ {k}, s.running = r.running
  PROVE  OneCheck(s)
<1>1. ASSUME NEW i \in Inits
      PROVE  Busy(s, i) = Busy(r, i)
  BY DEF Busy
<1> QED BY <1>1 DEF OneCheck

(* try_start_check(): a check is spawned only where none is running.       *)
LEMMA BeginCheckOne ==
  ASSUME NEW r \in Torrent, NEW sp \in BOOLEAN, OneCheck(r)
  PROVE  OneCheck(BeginCheck(r, sp))
<1> DEFINE k == NewTask(r, sp)
<1>1. CASE r.init \in r.running
  <2>1. /\ BeginCheck(r, sp).tasks = r.tasks
        /\ BeginCheck(r, sp).running = r.running
    BY <1>1 DEF BeginCheck, Torrent
  <2> QED BY <2>1, OneCheckKept
<1>2. CASE r.init \notin r.running
  <2>1. k.init = r.init /\ ~k.fin
    BY DEF NewTask
  <2>2. /\ BeginCheck(r, sp).tasks = r.tasks \union {k}
        /\ BeginCheck(r, sp).running = r.running \union {k.init}
    BY <1>2, <2>1 DEF BeginCheck, Torrent
  <2>3. k.init \in Inits
    BY <2>1 DEF Torrent
  <2> HIDE DEF k
  <2> QED BY <1>2, <2>1, <2>2, <2>3, OneCheckSpawned
<1> QED BY <1>1, <1>2

(* start() keeps one check per object, a restart after an error included.  *)
LEMMA StartedOne ==
  ASSUME NEW r \in Torrent, NEW sp \in BOOLEAN, OneCheck(r),
         r.st = "error" => r.init < MaxInits
  PROVE  OneCheck(Started(r, sp))
<1> DEFINE s == [r EXCEPT !.paused = sp]
           e == [s EXCEPT !.st = "initializing", !.init = @ + 1]
<1>1. s \in Torrent /\ s.st = r.st /\ s.init = r.init
      /\ s.tasks = r.tasks /\ s.running = r.running
  BY DEF Torrent
<1>2. OneCheck(s)
  BY <1>1, OneCheckKept
<1>3. CASE r.st = "live"
  BY <1>1, <1>2, <1>3 DEF Started
<1>4. CASE r.st = "initializing"
  <2>1. OneCheck(BeginCheck(s, sp))
    BY <1>1, <1>2, BeginCheckOne
  <2> QED BY <1>4, <2>1 DEF Started
<1>5. CASE r.st = "paused"
  <2>1. Started(r, sp).tasks = r.tasks /\ Started(r, sp).running = r.running
    BY <1>1, <1>5 DEF Started, Torrent
  <2> QED BY <2>1, OneCheckKept
<1>6. CASE r.st = "error"
  <2>1. s.init + 1 \in Inits
    BY <1>1, <1>6, MaxInitsAssumption DEF Torrent, Inits
  <2>2. e \in Torrent /\ e.tasks = r.tasks /\ e.running = r.running
    BY <1>1, <2>1 DEF Torrent, States
  <2>3. OneCheck(e)
    BY <2>2, OneCheckKept
  <2>4. OneCheck(BeginCheck(e, sp))
    BY <2>2, <2>3, BeginCheckOne
  <2> QED BY <1>1, <1>6, <2>4 DEF Started
<1> QED BY <1>3, <1>4, <1>5, <1>6 DEF Torrent, States

(* The steps of a check keep one check per object.                         *)
LEMMA TaskOne ==
  ASSUME NEW r \in Torrent, NEW k \in r.tasks, OneCheck(r)
  PROVE  /\ \A result \in Results : OneCheck(Checked(r, k, result))
         /\ ~k.fin => OneCheck(FinishedCheck(r, k))
         /\ k.fin => OneCheck(Settled(r, k))
<1>1. k \in Tasks /\ k.init \in Inits
  BY DEF Torrent, Tasks
<1>2. ASSUME NEW result \in Results
      PROVE  OneCheck(Checked(r, k, result))
  <2> DEFINE l == [k EXCEPT !.result = result]
             s == Checked(r, k, result)
  <2>1. l.init = k.init /\ l.fin = k.fin
    BY <1>1 DEF Tasks
  <2>2. s.tasks = (r.tasks \ {k}) \union {l} /\ s.running = r.running
    BY DEF Checked, Replace, Torrent
  <2>3. OneCheck(s)
    <3> HIDE DEF l, s
    <3>1. CASE ~k.fin
      BY <1>1, <2>1, <2>2, <3>1, OneCheckReplaced
    <3>2. CASE k.fin
      BY <2>1, <2>2, <3>2, OneCheckIdle
    <3> QED BY <3>1, <3>2
  <2> QED BY <2>3
<1>3. ASSUME ~k.fin
      PROVE  OneCheck(FinishedCheck(r, k))
  <2> DEFINE l == [k EXCEPT !.fin = TRUE]
             s == FinishedCheck(r, k)
  <2>1. l.init = k.init /\ l.fin
    BY <1>1 DEF Tasks
  <2>2. s.tasks = (r.tasks \ {k}) \union {l} /\ s.running = r.running \ {k.init}
    BY DEF FinishedCheck, Replace, Torrent
  <2>3. OneCheck(s)
    <3> HIDE DEF l, s
    <3> QED BY <1>1, <1>3, <2>1, <2>2, OneCheckFinished
  <2> QED BY <2>3
<1>4. ASSUME k.fin
      PROVE  OneCheck(Settled(r, k))
  <2>1. Settled(r, k).tasks = r.tasks \ {k} /\ Settled(r, k).running = r.running
    BY DEF Settled, Torrent
  <2> QED BY <1>4, <2>1, OneCheckEnded
<1> QED BY <1>2, <1>3, <1>4

(* A torrent that is added has the one check it is given.                  *)
LEMMA AddedOne ==
  ASSUME NEW sp \in BOOLEAN
  PROVE  OneCheck(Added(sp))
<1> DEFINE fresh == [st |-> "initializing", paused |-> sp, init |-> 1, req |-> {},
                     running |-> {}, tasks |-> {}, fatal |-> FALSE]
<1>1. fresh \in Torrent
  BY MaxInitsAssumption DEF Torrent, States, Inits
<1>2. OneCheck(fresh)
  BY DEF OneCheck, Busy
<1> QED BY <1>1, <1>2, BeginCheckOne DEF Added

----------------------------------------------------------------------------
(* A finite set of numbers has a greatest one: what the next id of a       *)
(* session is taken from.                                                  *)
LEMMA Greatest ==
  ASSUME NEW S \in SUBSET Nat, IsFiniteSet(S), S # {}
  PROVE  \E i \in S : \A j \in S : j <= i
<1> DEFINE Above(i) == {j \in S : j > i}
           T == {Above(i) : i \in S}
<1>1. IsWellFoundedOn(StrictSubsetOrdering(S), FiniteSubsetsOf(S))
  BY FS_StrictSubsetOrderingWellFounded
<1>2. T \subseteq FiniteSubsetsOf(S) /\ T # {}
  <2>1. FiniteSubsetsOf(S) = SUBSET S
    BY FS_FiniteSubsetsOfFinite
  <2>2. \A i \in S : Above(i) \in SUBSET S
    OBVIOUS
  <2>3. PICK i \in S : TRUE
    OBVIOUS
  <2>4. Above(i) \in T
    OBVIOUS
  <2> HIDE DEF Above
  <2> QED BY <2>1, <2>2, <2>4
<1> HIDE DEF T
<1>3. PICK A \in T : \A B \in T : <<B, A>> \notin StrictSubsetOrdering(S)
  BY <1>1, <1>2, WFMin
<1>4. PICK i \in S : A = Above(i)
  BY <1>3 DEF T
<1>5. ASSUME NEW j \in S, j > i
      PROVE  FALSE
  <2>1. Above(j) \subseteq A /\ j \in A /\ j \notin Above(j)
    <3>1. i \in Nat /\ j \in Nat /\ \A k \in S : k \in Nat
      OBVIOUS
    <3>2. \A k \in S : k > j => k > i
      BY <1>5, <3>1
    <3>3. ~(j > j)
      BY <3>1
    <3> QED BY <1>4, <1>5, <3>2, <3>3
  <2>2. Above(j) \in T
    BY DEF T
  <2>3. Above(j) \in SUBSET S /\ A \in SUBSET S
    BY <1>4
  <2> HIDE DEF Above
  <2>4. <<Above(j), A>> \in StrictSubsetOrdering(S)
    BY <2>1, <2>3 DEF StrictSubsetOrdering
  <2> QED BY <1>3, <2>2, <2>4
<1> QED BY <1>5
=============================================================================
