------------------------------ MODULE Figures ------------------------------
(***************************************************************************)
(* What the table, the status bar and the footer say of one torrent:       *)
(* librqbit's counters (zerem-engine/map.rs) through the rate filter, the  *)
(* patience before a stall is named and the minute of history              *)
(* (zerem-core/rate.rs, history.rs), into a row (torrent.rs) and its       *)
(* wording (fmt.rs).                                                       *)
(*                                                                         *)
(* A step is a turn of the engine's loop: a second that passed, or a       *)
(* command.  The average of a rate is kept in parts of a byte, exactly for *)
(* as many samples as Scale is a power of five.                            *)
(***************************************************************************)
EXTENDS Integers, Sequences, FiniteSets, FiniteSetsExt

CONSTANTS
  Rates,       \* the speeds librqbit reports
  Amounts,     \* how much may be there
  Size,        \* of the torrent, once its metadata is there
  Patience,    \* STILL_TICKS
  Seconds,     \* how many of them the footer shows
  MaxTurns,    \* bound: the turns of the loop
  FigureWorlds \* what may happen: one of these sets in a behaviour

ASSUME FiguresAssumption ==
  /\ Rates \subseteq Nat /\ \E top \in Rates : \A v \in Rates : v <= top
  /\ Amounts \subseteq Nat /\ Size \in Nat
  /\ Patience \in Nat \ {0} /\ Seconds \in Nat \ {0}

Scale   == 625
NoValue == -1

VARIABLES
  ways,
  stats,       \* what librqbit reports
  ticked, behind,
  hidden,      \* the window is away
  down, up,    \* Trend: [average, shown]
  still,
  ring, next, len,        \* History
  gap,         \* was_paused
  handed,      \* what the window was handed: [row, spark, series]
  speeds,      \* the speeds of this transfer, since it last stood still
  lull,        \* the seconds it has been downloading without moving
  minute,      \* the last samples since the window came back
  turns

trend      == <<down, up, still>>
history    == <<ring, next, len, gap>>
seen       == <<handed, speeds, lull, minute>>
figureVars == <<ways, stats, ticked, behind, hidden, trend, history, seen, turns>>

----------------------------------------------------------------------------
(* zerem-core/rate.rs                                                      *)
AtRest == [average |-> NoValue, shown |-> 0]

Round(average) == (2 * average + Scale) \div (2 * Scale)

(* Most of each new sample; the first of a transfer is taken whole.        *)
Smoothed(average, sample) ==
  IF average = NoValue THEN sample * Scale
  ELSE average + (2 * (sample * Scale - average)) \div 5

Distance(a, b) == IF a < b THEN b - a ELSE a - b

(* A change of state is not noise and is not smoothed like it.             *)
Update(rate, sample) ==
  IF sample = 0 THEN AtRest
  ELSE LET average == Smoothed(rate.average, sample)
       IN  [average |-> average,
            shown |-> IF Distance(average, rate.shown * Scale) * 20 > rate.shown * Scale
                      THEN Round(average) ELSE rate.shown]

(* zerem-core/fmt.rs: what is drawn of a number of bytes, `figure` being   *)
(* the digits without the point.                                           *)
Unit(n) ==
  IF n < 1024 THEN 0 ELSE IF n \div 1024 < 1024 THEN 1
  ELSE IF n \div 1024 ^ 2 < 1024 THEN 2 ELSE IF n \div 1024 ^ 3 < 1024 THEN 3 ELSE 4

(* The number of bytes in one of the unit.                                 *)
OneOf(unit) == IF unit = 4 THEN 1024 * 1024 ^ 3 ELSE 1024 ^ unit

Decimals(n) ==
  LET one == OneOf(Unit(n))
  IN  IF Unit(n) = 0 THEN 0 ELSE IF n < 10 * one THEN 2 ELSE IF n < 100 * one THEN 1 ELSE 0

(* format! prints the nearest figure, and of two as near the even one.     *)
Nearest(p, q) ==
  LET low   == p \div q
      twice == 2 * (p % q)
  IN  IF twice > q \/ (twice = q /\ low % 2 = 1) THEN low + 1 ELSE low

Reading(n) ==
  LET d == Decimals(n)
  IN  [unit |-> Unit(n), decimals |-> d, figure |-> Nearest(n * 10 ^ d, OneOf(Unit(n)))]

Percent(done, size) == IF size = 0 THEN 0 ELSE Min({100, (done * 100) \div size})

(* A finished torrent shows its size and nothing else.                     *)
Progress(done, size) ==
  IF done >= size THEN <<Reading(size)>>
  ELSE <<Reading(done), Reading(size), Percent(done, size)>>

----------------------------------------------------------------------------
(* zerem-core/torrent.rs                                                   *)
IsActive(state) == state \notin {"paused", "error", "queued"}

IsFault(stall) == stall \in {"no peers", "idle", "no files"}

StatusKind(row) == IF IsFault(row.stall) THEN "stalled" ELSE row.state

IsComplete(row) == row.done >= row.size

Pause(row) ==
  [row EXCEPT !.state = "paused", !.down = 0, !.up = 0, !.eta = NoValue, !.error = FALSE,
              !.stall = "none"]

Resume(row) ==
  [row EXCEPT !.state = IF IsComplete(row) THEN "seeding" ELSE "downloading", !.error = FALSE]

(* zerem-engine/map.rs                                                     *)
StateOf(s) ==
  CASE s.state = "error" -> "error"
    [] s.state = "paused" -> "paused"
    [] s.state = "initializing" -> IF s.paused THEN "paused" ELSE "checking"
    [] s.state = "live" -> IF s.done >= s.size /\ s.size > 0 THEN "seeding" ELSE "downloading"

(* "No honest estimate" is not zero.                                       *)
TimeLeft(size, done, speed) ==
  IF size <= done \/ speed = 0 THEN NoValue ELSE (size - done) \div speed

Live(s) == s.state = "live"

(* Mutant: a torrent that moves again keeps the patience it used up.       *)
Patient_Keeps(row, waited) ==
  IF row.size = 0 /\ IsActive(row.state) THEN waited
  ELSE IF row.state # "downloading" THEN 0
  ELSE IF row.down > 0 THEN waited
  ELSE Min({waited + 1, Patience})

(* How long it has been standing still.  (A byte counts it; the model      *)
(* stops where nothing changes any more.)                                  *)
Patient(row, waited) ==
  IF row.size = 0 /\ IsActive(row.state) THEN waited
  ELSE IF row.state # "downloading" \/ row.down > 0 THEN 0
  ELSE Min({waited + 1, Patience})

(* Why this row is not moving, if it is not.                               *)
Stall(row, waited, s) ==
  IF row.size = 0 /\ IsActive(row.state) THEN "metadata"
  ELSE IF waited < Patience THEN "none"
  ELSE IF s.seen = 0 THEN "no peers"
  ELSE IF s.peers = 0 THEN "connecting" ELSE "idle"

ToRow(s, d, u) ==
  [size |-> s.size, done |-> s.done, state |-> StateOf(s), down |-> d.shown, up |-> u.shown,
   eta |-> IF Live(s) THEN TimeLeft(s.size, s.done, d.shown) ELSE NoValue,
   stall |-> "none", error |-> s.state = "error"]

(* What publish() adds of its own: nothing asked for, and stopped because  *)
(* something else is ahead of it.                                          *)
Annotated(row) ==
  [row EXCEPT !.stall = IF ticked THEN @ ELSE "no files",
              !.state = IF @ = "paused" /\ behind THEN "queued" ELSE @]

----------------------------------------------------------------------------
(* zerem-core/history.rs                                                   *)
Total(row) == [down |-> row.down, up |-> row.up]
Silence    == [down |-> 0, up |-> 0]
Larger(sample) == Max({sample.down, sample.up})

(* Oldest first.                                                           *)
Series(slots, at, count) ==
  [i \in 1 .. count |-> slots[(((at + Seconds - count) % Seconds) + i - 1) % Seconds]]

Height == 100

(* Two lines that share one scale; the newest sample is on the right edge. *)
Spark(series) ==
  LET scale == IF series = <<>> THEN 0 ELSE Max({Larger(series[i]) : i \in DOMAIN series})
  IN  IF Len(series) < 2 \/ scale = 0 THEN <<>>
      ELSE [i \in DOMAIN series |->
              [x |-> Seconds - Len(series) + i - 1,
               down |-> Height - (series[i].down * Height) \div scale,
               up |-> Height - (series[i].up * Height) \div scale]]

----------------------------------------------------------------------------
(* What librqbit may report next.                                          *)
Moved(speed)          == [stats EXCEPT !.speed = speed]
Uploaded(speed)       == [stats EXCEPT !.upload = speed]
Met(peers)            == [stats EXCEPT !.seen = 1, !.peers = peers]
Told                  == [stats EXCEPT !.size = Size]
Has(amount)           == [stats EXCEPT !.done = amount]
Became(state, paused) == [stats EXCEPT !.state = state, !.paused = paused]

May(habit, reports) == IF habit \in ways THEN reports ELSE {}

Reports ==
  {stats}
  \cup May("rates", {Moved(v) : v \in Rates \ {0}})
  \cup May("uploads", {Uploaded(v) : v \in Rates})
  \cup May("lulls", {Moved(v) : v \in {0, Max(Rates)}})
  \cup May("peers", {Met(p) : p \in {0, 1}})
  \cup May("metadata", {Told})
  \cup May("amounts", {Has(n) : n \in Amounts})
  \cup May("states", {Became(x, p) :
                        x \in {"live", "paused", "initializing", "error"}, p \in BOOLEAN})

FirstStats ==
  [state |-> "live", paused |-> FALSE, speed |-> IF "lulls" \in ways THEN 0 ELSE 1,
   upload |-> 0, seen |-> 0, peers |-> 0, size |-> IF "metadata" \in ways THEN 0 ELSE Size, done |-> 0]

NoRow == [size |-> 0, done |-> 0, state |-> "paused", down |-> 0, up |-> 0, eta |-> NoValue,
          stall |-> "none", error |-> FALSE]

FiguresInit ==
  /\ ways \in FigureWorlds
  /\ stats = FirstStats /\ ticked = TRUE /\ behind = FALSE /\ hidden = FALSE
  /\ down = AtRest /\ up = AtRest /\ still = 0
  /\ ring = [i \in 0 .. Seconds - 1 |-> Silence] /\ next = 0 /\ len = 0 /\ gap = FALSE
  /\ handed = [row |-> NoRow, series |-> <<>>, guessed |-> FALSE]
  /\ speeds = {} /\ lull = 0 /\ minute = <<>> /\ turns = 0

LastOf(samples) == SubSeq(samples, Max({1, Len(samples) - Seconds + 1}), Len(samples))

Standing(row) == row.state = "downloading" /\ row.size > 0 /\ row.down = 0

(* forget_history(), on the first snapshot that is seen after some that    *)
(* were not.                                                               *)
Forgets(visible) == visible /\ gap

(* publish(), and the minute it is drawn with.                             *)
PublishFigures(s, acted) ==
  LET visible == ~hidden \/ acted
      d       == Update(down, IF Live(s) THEN s.speed ELSE 0)
      u       == Update(up, IF Live(s) THEN s.upload ELSE 0)
      bare    == ToRow(s, d, u)
      waited  == Patient(bare, still)
      row     == Annotated([bare EXCEPT !.stall = Stall(bare, waited, s)])
      base    == IF Forgets(visible) THEN [slots |-> [i \in DOMAIN ring |-> Silence], at |-> 0, count |-> 0]
                 ELSE [slots |-> ring, at |-> next, count |-> len]
      slots   == [base.slots EXCEPT ![base.at] = Total(row)]
      at      == (base.at + 1) % Seconds
      count   == Min({base.count + 1, Seconds})
  IN  /\ stats' = s
      /\ down' = d /\ up' = u /\ still' = waited
      /\ ring' = slots /\ next' = at /\ len' = count
      /\ gap' = ~visible
      /\ handed' = IF visible THEN [row |-> row, series |-> Series(slots, at, count), guessed |-> FALSE]
                 ELSE handed
      /\ speeds' = IF ~Live(s) \/ s.speed = 0 THEN {} ELSE speeds \cup {s.speed}
      /\ lull' = IF ~Standing(row) THEN 0 ELSE IF acted THEN lull ELSE Min({lull + 1, Patience})
      /\ minute' = IF ~visible THEN minute
                   ELSE IF gap THEN <<Total(row)>> ELSE LastOf(Append(minute, Total(row)))

Turn(acted) ==
  /\ turns < MaxTurns
  /\ turns' = turns + 1
  /\ \E s \in Reports : PublishFigures(s, acted)
  /\ UNCHANGED <<ways, ticked, behind, hidden>>

Second  == Turn(FALSE)
CommandTurn == "commands" \in ways /\ Turn(TRUE)

(* The user hides the window, unticks everything, or loses his place.      *)
Hide   == "hides" \in ways /\ hidden' = ~hidden /\ UNCHANGED <<ticked, behind>>
Untick == "unticks" \in ways /\ ticked' = ~ticked /\ UNCHANGED <<hidden, behind>>
Queue  == "queues" \in ways /\ behind' = ~behind /\ UNCHANGED <<hidden, ticked>>

Beside ==
  /\ turns < MaxTurns
  /\ Hide \/ Untick \/ Queue
  /\ UNCHANGED <<ways, stats, trend, history, seen, turns>>

(* A row is drawn as it will be before the engine has answered.            *)
GuessRow ==
  /\ "guesses" \in ways
  /\ handed' = [handed EXCEPT !.guessed = TRUE,
                          !.row = IF IsActive(@.state) THEN Pause(@) ELSE Resume(@)]
  /\ UNCHANGED <<ways, stats, ticked, behind, hidden, trend, history, speeds, lull, minute, turns>>

FiguresNext == Second \/ CommandTurn \/ Beside \/ GuessRow

FiguresSpec == FiguresInit /\ [][FiguresNext]_figureVars

----------------------------------------------------------------------------
FiguresTypeOK ==
  /\ ways \in FigureWorlds
  /\ {ticked, behind, hidden, gap, handed.guessed} \subseteq BOOLEAN
  /\ down.average >= NoValue /\ down.shown \in Nat /\ up.shown \in Nat
  /\ still \in 0 .. Patience /\ lull \in 0 .. Patience
  /\ next \in 0 .. Seconds - 1 /\ len \in 0 .. Seconds
  /\ handed.row.state \in {"paused", "checking", "downloading", "seeding", "error", "queued"}

(* "Stopping publishes zero at once", "starting publishes the first sample *)
(* at once": a rate is shown exactly while bytes move, and it is never     *)
(* above or below all that was reported since the transfer began.          *)
RateIsHonest ==
  IF speeds = {} THEN down.shown = 0
  ELSE down.shown \in Min(speeds) .. Max(speeds)

Unmoved == {"no peers", "connecting", "idle"}

(* "Ten seconds, not one": that a download stands still is said only when  *)
(* it has done so for all of them, by the clock.                           *)
StallIsEarned == ~gap /\ handed.row.stall \in Unmoved => lull = Patience

(* "Downloading over a row that has transferred nothing is a lie": then it *)
(* is said.                                                                *)
StillnessIsTold ==
  ~gap /\ lull = Patience /\ ~handed.guessed => handed.row.stall \in Unmoved \cup {"no files"}

(* "A stopped torrent is not failing to move, it is not trying": its row   *)
(* has no rate, no time to go and not the colour of a fault, whether the   *)
(* engine says so or the click is drawn ahead of it.                       *)
StoppedShowsNothing ==
  handed.row.state \in {"paused", "queued", "error"} =>
    /\ handed.row.down = 0 /\ handed.row.up = 0 /\ handed.row.eta = NoValue
    /\ StatusKind(handed.row) = handed.row.state

(* The footer draws the last samples, oldest first, and "starts again      *)
(* rather than joining two separate" minutes when the window was away.     *)
FooterIsTheLastMinute == ~gap => handed.series = minute

(* The two lines stay in their box, the fastest second touches its top,    *)
(* and the present is at the right edge.                                   *)
SparkFits ==
  LET spark == Spark(handed.series)
  IN  spark # <<>> =>
        /\ \A i \in DOMAIN spark : {spark[i].down, spark[i].up} \subseteq 0 .. Height
        /\ \E i \in DOMAIN spark : 0 \in {spark[i].down, spark[i].up}
        /\ spark[Len(spark)].x = Seconds - 1 /\ spark[1].x >= 0

(* The last per cent is not said before the last byte is there.            *)
HundredMeansDone ==
  LET drawn == Progress(handed.row.done, handed.row.size)
  IN  Len(drawn) = 3 => drawn[3] < 100 /\ handed.row.done < handed.row.size

(* A number of bytes that grows never reads as a smaller one, where a unit *)
(* ends included.                                                          *)
ReadsInOrder ==
  [][handed'.row.done >= handed.row.done =>
       LET a == Reading(handed.row.done)
           b == Reading(handed'.row.done)
       IN  \/ a.unit < b.unit
           \/ a.unit = b.unit /\ a.figure * 10 ^ (2 - a.decimals) <= b.figure * 10 ^ (2 - b.decimals)]_figureVars

(* What the rows and the footer say of a transfer was earned: its rate,    *)
(* its stall and its end, whatever is hidden, guessed, stopped or in a     *)
(* lull (rate.rs, map.rs, torrent.rs, history.rs), and bytes that grow     *)
(* never read as fewer (fmt.rs).                                           *)
FiguresAreHonest ==
  /\ [](/\ FiguresTypeOK /\ RateIsHonest /\ StallIsEarned /\ StillnessIsTold
        /\ StoppedShowsNothing /\ HundredMeansDone /\ FooterIsTheLastMinute /\ SparkFits)
  /\ ReadsInOrder
=============================================================================
