----------------------------- MODULE FileProofs ------------------------------
(***************************************************************************)
(* Two parts of the engine that decide about files.                        *)
(*                                                                         *)
(* Carry: the calls of carry() implement what Move promises, for any plan, *)
(* any failure of a call and a death between any two of them.              *)
(*                                                                         *)
(* Selection: what a pin does to the choice of files can always be undone, *)
(* and nothing is fetched that was not ticked: for any number of files,    *)
(* for users who leave the ticks alone while a file is pinned and while    *)
(* the torrent is checked.                                                 *)
(***************************************************************************)
EXTENDS Carry, Selection, TLAPS

----------------------------------------------------------------------------
(* Nothing was carried yet, or it is being undone.                         *)
Open == {"check", "folders", "rename", "undo", "copy", "verify", "uncopy"}

(* A file not carried yet has nothing of ours where it is going.           *)
Clear(f) ==
  from[f] = "mine" => to[f] = "none" \/ ("stranger" \in mishaps /\ to[f] = "theirs")

(* What was renamed is at the far end only, and the plan goes in order.    *)
RenamesInOrder ==
  /\ at \in {"rename", "undo"} => \A f \in done : from[f] = "none" /\ to[f] = "mine"
  /\ at = "rename" => \A f \in Steps : f \in done <=> f < n

(* What was copied is at both; what is behind was copied or was there.     *)
CopiesInOrder ==
  /\ at \in {"copy", "verify", "uncopy"} => \A f \in done : from[f] = "mine" /\ to[f] = "mine"
  /\ at \in {"copy", "verify"} =>
       \A f \in Steps : f \in done => f < n
  /\ at \in {"copy", "verify"} =>
       \A f \in Steps : f < n => f \in done \/ (from[f] = "none" /\ to[f] # "none")
  /\ at = "verify" => n \in Steps /\ from[n] = "mine" /\ to[n] \in {"mine", "short"}

NothingOfOurs ==
  /\ at \in {"folders", "rename", "undo", "copy"} => \A f \in Steps \ done : Clear(f)
  /\ at = "verify" => \A f \in Steps \ done : f = n \/ Clear(f)
  /\ at \in {"idle", "check", "folders"} => done = {} /\ n = 1

Somewhere(f) == from[f] = "mine" \/ to[f] = "mine"
WasThere(f)  == before.from[f] = "mine" \/ before.to[f] = "mine"

(* No file that was there is nowhere in full.                              *)
NothingLost == at # "idle" => \A f \in Steps : WasThere(f) => Somewhere(f)

(* From the first deletion on they are all at the far end.                 *)
Arrived ==
  at \in {"delete", "prune"} =>
    \A f \in Steps : WasThere(f) \/ from[f] = "mine" => to[f] = "mine"

AsBefore(f) ==
  /\ from[f] = "mine" <=> before.from[f] = "mine"
  /\ to[f] = "mine" <=> before.to[f] = "mine"

(* The mapping's flag: what undoes a move works.                           *)
Clean == mishaps \cap {"undo", "metadata", "removal"} = {}

(* What is to be undone was at the near end only, the rest is as it was.   *)
Undoable ==
  at \in Open /\ Clean =>
    \A f \in Steps :
      IF f \in done \/ (at = "verify" /\ f = n)
      THEN before.from[f] = "mine" /\ before.to[f] # "mine"
      ELSE AsBefore(f)

Running == result = "running" <=> at # "idle"

Inv ==
  /\ CarryTypeOK /\ Running
  /\ RenamesInOrder /\ CopiesInOrder /\ NothingOfOurs
  /\ NothingLost /\ Arrived /\ Undoable

(* A call that returns leaves what it worked with in its types.            *)
LEMMA ReturnType ==
  ASSUME Plan, CarryTypeOK, NEW r \in {"moved", "refused", "died"}, Return(r)
  PROVE  /\ at' \in Calls /\ n' \in 1 .. LastStep + 1 /\ done' \subseteq Steps
         /\ todo' \subseteq Above
         /\ result' \in {"none", "running", "moved", "refused", "died"}
BY DEF Return, Plan, Calls

(* Each call keeps the invariant.                                         *)
LEMMA CallInv == ASSUME Plan, Inv, Call PROVE Inv'
<1> USE DEF Call
<1>1. CarryTypeOK'
  BY DEF Inv, Plan, CopiesInOrder, CarryTypeOK, Calls, Content, Above, Steps
<1>2. Running'
  BY DEF Inv, CarryTypeOK, Running
<1>3. RenamesInOrder'
  BY DEF Inv, Plan, CarryTypeOK, Running, RenamesInOrder, CopiesInOrder, NothingOfOurs, Undoable
<1>4. CopiesInOrder'
  BY DEF Inv, Plan, CarryTypeOK, Running, RenamesInOrder, CopiesInOrder, NothingOfOurs, Undoable, There, Clear
<1>5. NothingOfOurs'
  BY DEF Inv, Plan, CarryTypeOK, Running, RenamesInOrder, CopiesInOrder, NothingOfOurs, Undoable, Clear, Taken
<1>6. NothingLost'
  BY DEF Inv, Plan, CarryTypeOK, Running, RenamesInOrder, CopiesInOrder, NothingOfOurs, Undoable, NothingLost, Somewhere, WasThere
<1>7. Arrived'
  BY DEF Inv, Plan, CarryTypeOK, Running, RenamesInOrder, CopiesInOrder, NothingOfOurs, Undoable, NothingLost, Arrived, Somewhere, WasThere
<1>8. Undoable'
  BY DEF Inv, Plan, CarryTypeOK, Running, RenamesInOrder, CopiesInOrder, NothingOfOurs, Undoable, Clean, AsBefore, Open, Clear
<1> QED BY <1>1, <1>2, <1>3, <1>4, <1>5, <1>6, <1>7, <1>8 DEF Inv

LEMMA CheckInv == ASSUME Plan, Inv, Check PROVE Inv'
<1> USE DEF Check, Return
<1>1. CarryTypeOK'
  <2>1. CASE \E f \in Steps : Taken(f)
    BY <2>1, ReturnType DEF Inv, CarryTypeOK
  <2>2. CASE ~\E f \in Steps : Taken(f)
    BY <2>2 DEF Inv, CarryTypeOK, Calls
  <2> QED BY <2>1, <2>2
<1>2. Running'
  BY DEF Inv, CarryTypeOK, Running
<1>3. RenamesInOrder'
  BY DEF Inv, Plan, CarryTypeOK, Running, RenamesInOrder, CopiesInOrder, NothingOfOurs, Undoable
<1>4. CopiesInOrder'
  BY DEF Inv, Plan, CarryTypeOK, Running, RenamesInOrder, CopiesInOrder, NothingOfOurs, Undoable, There, Clear
<1>5. NothingOfOurs'
  BY DEF Inv, Plan, CarryTypeOK, Running, RenamesInOrder, CopiesInOrder, NothingOfOurs, Undoable, Clear, Taken
<1>6. NothingLost'
  BY DEF Inv, Plan, CarryTypeOK, Running, RenamesInOrder, CopiesInOrder, NothingOfOurs, Undoable, NothingLost, Somewhere, WasThere
<1>7. Arrived'
  BY DEF Inv, Plan, CarryTypeOK, Running, RenamesInOrder, CopiesInOrder, NothingOfOurs, Undoable, NothingLost, Arrived, Somewhere, WasThere
<1>8. Undoable'
  BY DEF Inv, Plan, CarryTypeOK, Running, RenamesInOrder, CopiesInOrder, NothingOfOurs, Undoable, Clean, AsBefore, Open, Clear
<1> QED BY <1>1, <1>2, <1>3, <1>4, <1>5, <1>6, <1>7, <1>8 DEF Inv

LEMMA FoldersInv == ASSUME Plan, Inv, Folders PROVE Inv'
<1> USE DEF Folders, Return
<1>1. CarryTypeOK'
  <2>1. CASE Return("refused")
    BY <2>1, ReturnType DEF Inv, CarryTypeOK
  <2>2. CASE at' = "rename" /\ UNCHANGED <<n, done, todo, result>>
    BY <2>2 DEF Inv, CarryTypeOK, Calls
  <2> QED BY <2>1, <2>2
<1>2. Running'
  BY DEF Inv, CarryTypeOK, Running
<1>3. RenamesInOrder'
  <2>1. n = 1 /\ done = {} /\ (at' = "rename" => n' = n /\ done' = done)
    BY DEF Inv, CarryTypeOK, NothingOfOurs
  <2> QED BY <2>1 DEF RenamesInOrder, Steps
<1>4. CopiesInOrder'
  BY DEF Inv, Plan, CarryTypeOK, Running, RenamesInOrder, CopiesInOrder, NothingOfOurs, Undoable, There, Clear
<1>5. NothingOfOurs'
  BY DEF Inv, Plan, CarryTypeOK, Running, RenamesInOrder, CopiesInOrder, NothingOfOurs, Undoable, Clear, Taken
<1>6. NothingLost'
  BY DEF Inv, Plan, CarryTypeOK, Running, RenamesInOrder, CopiesInOrder, NothingOfOurs, Undoable, NothingLost, Somewhere, WasThere
<1>7. Arrived'
  BY DEF Inv, Plan, CarryTypeOK, Running, RenamesInOrder, CopiesInOrder, NothingOfOurs, Undoable, NothingLost, Arrived, Somewhere, WasThere
<1>8. Undoable'
  BY DEF Inv, Plan, CarryTypeOK, Running, RenamesInOrder, CopiesInOrder, NothingOfOurs, Undoable, Clean, AsBefore, Open, Clear
<1> QED BY <1>1, <1>2, <1>3, <1>4, <1>5, <1>6, <1>7, <1>8 DEF Inv

LEMMA RenameInv == ASSUME Plan, Inv, Rename PROVE Inv'
<1> USE DEF Rename
<1>1. CarryTypeOK'
  <2>1. n \in Steps /\ LastStep \in Nat
    BY DEF Plan
  <2>2. from' \in [Steps -> {"none", "mine"}]
    BY <2>1 DEF Inv, CarryTypeOK
  <2>3. to' \in [Steps -> Content]
    BY <2>1 DEF Inv, CarryTypeOK, Content
  <2>4. n + 1 \in 1 .. LastStep + 1 /\ n \in 1 .. LastStep + 1
    BY <2>1 DEF Steps
  <2>5. n' \in 1 .. LastStep + 1 /\ done' \subseteq Steps /\ at' \in Calls
    BY <2>1, <2>4 DEF Inv, CarryTypeOK, Calls
  <2> QED BY <2>2, <2>3, <2>5 DEF Inv, CarryTypeOK
<1>2. Running'
  BY DEF Inv, CarryTypeOK, Running
<1>3. RenamesInOrder'
  <2>1. n \in Steps /\ n \in Int /\ n \notin done
    BY DEF Inv, RenamesInOrder, Steps, Plan
  <2>2. CASE at' = "undo"
    BY <2>2 DEF Inv, CarryTypeOK, RenamesInOrder
  <2>3. CASE at' # "undo"
    <3>1. /\ from' = [from EXCEPT ![n] = "none"] /\ to' = [to EXCEPT ![n] = "mine"]
          /\ done' = done \cup {n} /\ n' = n + 1
      BY <2>1, <2>3 DEF Inv, CarryTypeOK
    <3>2. \A f \in Steps : f < n + 1 <=> f < n \/ f = n
      BY <2>1 DEF Steps
    <3> QED BY <2>1, <3>1, <3>2 DEF Inv, CarryTypeOK, RenamesInOrder
  <2> QED BY <2>2, <2>3
<1>4. CopiesInOrder'
  BY DEF Inv, Plan, CarryTypeOK, Running, RenamesInOrder, CopiesInOrder, NothingOfOurs, Undoable, There, Clear
<1>5. NothingOfOurs'
  BY DEF Inv, Plan, CarryTypeOK, Running, RenamesInOrder, CopiesInOrder, NothingOfOurs, Undoable, Clear, Taken
<1>6. NothingLost'
  BY DEF Inv, Plan, CarryTypeOK, Running, RenamesInOrder, CopiesInOrder, NothingOfOurs, Undoable, NothingLost, Somewhere, WasThere
<1>7. Arrived'
  BY DEF Inv, Plan, CarryTypeOK, Running, RenamesInOrder, CopiesInOrder, NothingOfOurs, Undoable, NothingLost, Arrived, Somewhere, WasThere
<1>8. Undoable'
  BY DEF Inv, Plan, CarryTypeOK, Running, RenamesInOrder, CopiesInOrder, NothingOfOurs, Undoable, Clean, AsBefore, Open, Clear
<1> QED BY <1>1, <1>2, <1>3, <1>4, <1>5, <1>6, <1>7, <1>8 DEF Inv

LEMMA RenamedInv == ASSUME Plan, Inv, Renamed PROVE Inv'
<1> USE DEF Renamed
<1>1. CarryTypeOK'
  BY DEF Inv, Plan, CopiesInOrder, CarryTypeOK, Calls, Content, Above, Steps
<1>2. Running'
  BY DEF Inv, CarryTypeOK, Running
<1>3. RenamesInOrder'
  BY DEF Inv, Plan, CarryTypeOK, Running, RenamesInOrder, CopiesInOrder, NothingOfOurs, Undoable
<1>4. CopiesInOrder'
  BY DEF Inv, Plan, CarryTypeOK, Running, RenamesInOrder, CopiesInOrder, NothingOfOurs, Undoable, There, Clear
<1>5. NothingOfOurs'
  BY DEF Inv, Plan, CarryTypeOK, Running, RenamesInOrder, CopiesInOrder, NothingOfOurs, Undoable, Clear, Taken
<1>6. NothingLost'
  BY DEF Inv, Plan, CarryTypeOK, Running, RenamesInOrder, CopiesInOrder, NothingOfOurs, Undoable, NothingLost, Somewhere, WasThere
<1>7. Arrived'
  <2>1. \A f \in Steps : f < n
    BY DEF Plan, Steps
  <2> QED BY <2>1 DEF Inv, RenamesInOrder, Arrived
<1>8. Undoable'
  BY DEF Inv, Plan, CarryTypeOK, Running, RenamesInOrder, CopiesInOrder, NothingOfOurs, Undoable, Clean, AsBefore, Open, Clear
<1> QED BY <1>1, <1>2, <1>3, <1>4, <1>5, <1>6, <1>7, <1>8 DEF Inv

LEMMA UndoInv == ASSUME Plan, Inv, Undo PROVE Inv'
<1> USE DEF Undo
<1>1. CarryTypeOK'
  <2>1. PICK f \in done : /\ done' = done \ {f}
                          /\ \/ from' = [from EXCEPT ![f] = to[f]] /\ to' = [to EXCEPT ![f] = "none"]
                             \/ UNCHANGED <<from, to>>
    OBVIOUS
  <2>2. f \in Steps /\ to[f] = "mine"
    BY DEF Inv, CarryTypeOK, RenamesInOrder
  <2>3. from' \in [Steps -> {"none", "mine"}]
    BY <2>1, <2>2 DEF Inv, CarryTypeOK
  <2>4. to' \in [Steps -> Content]
    BY <2>1, <2>2 DEF Inv, CarryTypeOK, Content
  <2> QED BY <2>1, <2>3, <2>4 DEF Inv, CarryTypeOK
<1>2. Running'
  BY DEF Inv, CarryTypeOK, Running
<1>3. RenamesInOrder'
  BY DEF Inv, Plan, CarryTypeOK, Running, RenamesInOrder, CopiesInOrder, NothingOfOurs, Undoable
<1>4. CopiesInOrder'
  BY DEF Inv, Plan, CarryTypeOK, Running, RenamesInOrder, CopiesInOrder, NothingOfOurs, Undoable, There, Clear
<1>5. NothingOfOurs'
  BY DEF Inv, Plan, CarryTypeOK, Running, RenamesInOrder, CopiesInOrder, NothingOfOurs, Undoable, Clear, Taken
<1>6. NothingLost'
  BY DEF Inv, Plan, CarryTypeOK, Running, RenamesInOrder, CopiesInOrder, NothingOfOurs, Undoable, NothingLost, Somewhere, WasThere
<1>7. Arrived'
  BY DEF Inv, Plan, CarryTypeOK, Running, RenamesInOrder, CopiesInOrder, NothingOfOurs, Undoable, NothingLost, Arrived, Somewhere, WasThere
<1>8. Undoable'
  BY DEF Inv, Plan, CarryTypeOK, Running, RenamesInOrder, CopiesInOrder, NothingOfOurs, Undoable, Clean, AsBefore, Open, Clear
<1> QED BY <1>1, <1>2, <1>3, <1>4, <1>5, <1>6, <1>7, <1>8 DEF Inv

LEMMA UndoneInv == ASSUME Plan, Inv, Undone PROVE Inv'
<1> USE DEF Undone
<1>1. CarryTypeOK'
  BY DEF Inv, Plan, CopiesInOrder, CarryTypeOK, Calls, Content, Above, Steps
<1>2. Running'
  BY DEF Inv, CarryTypeOK, Running
<1>3. RenamesInOrder'
  BY DEF Inv, Plan, CarryTypeOK, Running, RenamesInOrder, CopiesInOrder, NothingOfOurs, Undoable
<1>4. CopiesInOrder'
  <2>1. \A f \in Steps : ~(f < 1)
    BY DEF Steps
  <2> QED BY <2>1 DEF Inv, CopiesInOrder
<1>5. NothingOfOurs'
  BY DEF Inv, Plan, CarryTypeOK, Running, RenamesInOrder, CopiesInOrder, NothingOfOurs, Undoable, Clear, Taken
<1>6. NothingLost'
  BY DEF Inv, Plan, CarryTypeOK, Running, RenamesInOrder, CopiesInOrder, NothingOfOurs, Undoable, NothingLost, Somewhere, WasThere
<1>7. Arrived'
  BY DEF Inv, Plan, CarryTypeOK, Running, RenamesInOrder, CopiesInOrder, NothingOfOurs, Undoable, NothingLost, Arrived, Somewhere, WasThere
<1>8. Undoable'
  BY DEF Inv, Plan, CarryTypeOK, Running, RenamesInOrder, CopiesInOrder, NothingOfOurs, Undoable, Clean, AsBefore, Open, Clear
<1> QED BY <1>1, <1>2, <1>3, <1>4, <1>5, <1>6, <1>7, <1>8 DEF Inv

LEMMA SkipCopyInv == ASSUME Plan, Inv, SkipCopy PROVE Inv'
<1> USE DEF SkipCopy
<1>1. CarryTypeOK'
  BY DEF Inv, Plan, CopiesInOrder, CarryTypeOK, Calls, Content, Above, Steps
<1>2. Running'
  BY DEF Inv, CarryTypeOK, Running
<1>3. RenamesInOrder'
  BY DEF Inv, Plan, CarryTypeOK, Running, RenamesInOrder, CopiesInOrder, NothingOfOurs, Undoable
<1>4. CopiesInOrder'
  BY DEF Inv, Plan, CarryTypeOK, Running, RenamesInOrder, CopiesInOrder, NothingOfOurs, Undoable, There, Clear
<1>5. NothingOfOurs'
  BY DEF Inv, Plan, CarryTypeOK, Running, RenamesInOrder, CopiesInOrder, NothingOfOurs, Undoable, Clear, Taken
<1>6. NothingLost'
  BY DEF Inv, Plan, CarryTypeOK, Running, RenamesInOrder, CopiesInOrder, NothingOfOurs, Undoable, NothingLost, Somewhere, WasThere
<1>7. Arrived'
  BY DEF Inv, Plan, CarryTypeOK, Running, RenamesInOrder, CopiesInOrder, NothingOfOurs, Undoable, NothingLost, Arrived, Somewhere, WasThere
<1>8. Undoable'
  BY DEF Inv, Plan, CarryTypeOK, Running, RenamesInOrder, CopiesInOrder, NothingOfOurs, Undoable, Clean, AsBefore, Open, Clear
<1> QED BY <1>1, <1>2, <1>3, <1>4, <1>5, <1>6, <1>7, <1>8 DEF Inv

LEMMA CopyInv == ASSUME Plan, Inv, Copy PROVE Inv'
<1> USE DEF Copy
<1>1. CarryTypeOK'
  <2>1. n \in Steps
    OBVIOUS
  <2>2. to' \in [Steps -> Content]
    BY <2>1 DEF Inv, CarryTypeOK, Content
  <2> QED BY <2>2 DEF Inv, CarryTypeOK, Calls
<1>2. Running'
  BY DEF Inv, CarryTypeOK, Running
<1>3. RenamesInOrder'
  BY DEF Inv, Plan, CarryTypeOK, Running, RenamesInOrder, CopiesInOrder, NothingOfOurs, Undoable
<1>4. CopiesInOrder'
  BY DEF Inv, Plan, CarryTypeOK, Running, RenamesInOrder, CopiesInOrder, NothingOfOurs, Undoable, There, Clear
<1>5. NothingOfOurs'
  BY DEF Inv, Plan, CarryTypeOK, Running, RenamesInOrder, CopiesInOrder, NothingOfOurs, Undoable, Clear, Taken
<1>6. NothingLost'
  BY DEF Inv, Plan, CarryTypeOK, Running, RenamesInOrder, CopiesInOrder, NothingOfOurs, Undoable, NothingLost, Somewhere, WasThere
<1>7. Arrived'
  BY DEF Inv, Plan, CarryTypeOK, Running, RenamesInOrder, CopiesInOrder, NothingOfOurs, Undoable, NothingLost, Arrived, Somewhere, WasThere
<1>8. Undoable'
  BY DEF Inv, Plan, CarryTypeOK, Running, RenamesInOrder, CopiesInOrder, NothingOfOurs, Undoable, Clean, AsBefore, Open, Clear
<1> QED BY <1>1, <1>2, <1>3, <1>4, <1>5, <1>6, <1>7, <1>8 DEF Inv

LEMMA VerifyInv == ASSUME Plan, Inv, Verify PROVE Inv'
<1> USE DEF Verify
<1>1. CarryTypeOK'
  <2>1. n \in Steps /\ LastStep \in Nat
    BY DEF Inv, CopiesInOrder, Plan
  <2>2. to' \in [Steps -> Content]
    BY <2>1 DEF Inv, CarryTypeOK, Content
  <2>3. n + 1 \in 1 .. LastStep + 1 /\ n \in 1 .. LastStep + 1
    BY <2>1 DEF Steps
  <2>4. n' \in 1 .. LastStep + 1 /\ done' \subseteq Steps
    BY <2>1, <2>3 DEF Inv, CarryTypeOK
  <2> QED BY <2>2, <2>4 DEF Inv, CarryTypeOK, Calls
<1>2. Running'
  BY DEF Inv, CarryTypeOK, Running
<1>3. RenamesInOrder'
  BY DEF Inv, Plan, CarryTypeOK, Running, RenamesInOrder, CopiesInOrder, NothingOfOurs, Undoable
<1>4. CopiesInOrder'
  <2>1. n \in Steps /\ n \in Int /\ n \notin done /\ from[n] = "mine"
    BY DEF Inv, CopiesInOrder, Steps, Plan
  <2>2. CASE at' = "copy"
    <3>1. to[n] = "mine" /\ done' = done \cup {n} /\ n' = n + 1 /\ to' = to /\ from' = from
      BY <2>2
    <3>2. \A f \in Steps : f < n + 1 <=> f < n \/ f = n
      BY <2>1 DEF Steps
    <3> QED BY <2>1, <2>2, <3>1, <3>2 DEF Inv, CarryTypeOK, CopiesInOrder
  <2>3. CASE at' = "uncopy"
    BY <2>1, <2>3 DEF Inv, CarryTypeOK, CopiesInOrder
  <2> QED BY <2>2, <2>3
<1>5. NothingOfOurs'
  BY DEF Inv, Plan, CarryTypeOK, Running, RenamesInOrder, CopiesInOrder, NothingOfOurs, Undoable, Clear, Taken
<1>6. NothingLost'
  BY DEF Inv, Plan, CarryTypeOK, Running, RenamesInOrder, CopiesInOrder, NothingOfOurs, Undoable, NothingLost, Somewhere, WasThere
<1>7. Arrived'
  BY DEF Inv, Plan, CarryTypeOK, Running, RenamesInOrder, CopiesInOrder, NothingOfOurs, Undoable, NothingLost, Arrived, Somewhere, WasThere
<1>8. Undoable'
  BY DEF Inv, Plan, CarryTypeOK, Running, RenamesInOrder, CopiesInOrder, NothingOfOurs, Undoable, Clean, AsBefore, Open, Clear
<1> QED BY <1>1, <1>2, <1>3, <1>4, <1>5, <1>6, <1>7, <1>8 DEF Inv

LEMMA UncopyInv == ASSUME Plan, Inv, Uncopy PROVE Inv'
<1> USE DEF Uncopy
<1>1. CarryTypeOK'
  BY DEF Inv, Plan, CopiesInOrder, CarryTypeOK, Calls, Content, Above, Steps
<1>2. Running'
  BY DEF Inv, CarryTypeOK, Running
<1>3. RenamesInOrder'
  BY DEF Inv, Plan, CarryTypeOK, Running, RenamesInOrder, CopiesInOrder, NothingOfOurs, Undoable
<1>4. CopiesInOrder'
  BY DEF Inv, Plan, CarryTypeOK, Running, RenamesInOrder, CopiesInOrder, NothingOfOurs, Undoable, There, Clear
<1>5. NothingOfOurs'
  BY DEF Inv, Plan, CarryTypeOK, Running, RenamesInOrder, CopiesInOrder, NothingOfOurs, Undoable, Clear, Taken
<1>6. NothingLost'
  BY DEF Inv, Plan, CarryTypeOK, Running, RenamesInOrder, CopiesInOrder, NothingOfOurs, Undoable, NothingLost, Somewhere, WasThere
<1>7. Arrived'
  BY DEF Inv, Plan, CarryTypeOK, Running, RenamesInOrder, CopiesInOrder, NothingOfOurs, Undoable, NothingLost, Arrived, Somewhere, WasThere
<1>8. Undoable'
  BY DEF Inv, Plan, CarryTypeOK, Running, RenamesInOrder, CopiesInOrder, NothingOfOurs, Undoable, Clean, AsBefore, Open, Clear
<1> QED BY <1>1, <1>2, <1>3, <1>4, <1>5, <1>6, <1>7, <1>8 DEF Inv

LEMMA UncopiedInv == ASSUME Plan, Inv, Uncopied PROVE Inv'
<1> USE DEF Uncopied, Return
<1>1. CarryTypeOK'
  BY DEF Inv, Plan, CopiesInOrder, CarryTypeOK, Calls, Content, Above, Steps
<1>2. Running'
  BY DEF Inv, CarryTypeOK, Running
<1>3. RenamesInOrder'
  BY DEF Inv, Plan, CarryTypeOK, Running, RenamesInOrder, CopiesInOrder, NothingOfOurs, Undoable
<1>4. CopiesInOrder'
  BY DEF Inv, Plan, CarryTypeOK, Running, RenamesInOrder, CopiesInOrder, NothingOfOurs, Undoable, There, Clear
<1>5. NothingOfOurs'
  BY DEF Inv, Plan, CarryTypeOK, Running, RenamesInOrder, CopiesInOrder, NothingOfOurs, Undoable, Clear, Taken
<1>6. NothingLost'
  BY DEF Inv, Plan, CarryTypeOK, Running, RenamesInOrder, CopiesInOrder, NothingOfOurs, Undoable, NothingLost, Somewhere, WasThere
<1>7. Arrived'
  BY DEF Inv, Plan, CarryTypeOK, Running, RenamesInOrder, CopiesInOrder, NothingOfOurs, Undoable, NothingLost, Arrived, Somewhere, WasThere
<1>8. Undoable'
  BY DEF Inv, Plan, CarryTypeOK, Running, RenamesInOrder, CopiesInOrder, NothingOfOurs, Undoable, Clean, AsBefore, Open, Clear
<1> QED BY <1>1, <1>2, <1>3, <1>4, <1>5, <1>6, <1>7, <1>8 DEF Inv

LEMMA CopiedInv == ASSUME Plan, Inv, Copied PROVE Inv'
<1> USE DEF Copied
<1>1. CarryTypeOK'
  BY DEF Inv, Plan, CopiesInOrder, CarryTypeOK, Calls, Content, Above, Steps
<1>2. Running'
  BY DEF Inv, CarryTypeOK, Running
<1>3. RenamesInOrder'
  BY DEF Inv, Plan, CarryTypeOK, Running, RenamesInOrder, CopiesInOrder, NothingOfOurs, Undoable
<1>4. CopiesInOrder'
  BY DEF Inv, Plan, CarryTypeOK, Running, RenamesInOrder, CopiesInOrder, NothingOfOurs, Undoable, There, Clear
<1>5. NothingOfOurs'
  BY DEF Inv, Plan, CarryTypeOK, Running, RenamesInOrder, CopiesInOrder, NothingOfOurs, Undoable, Clear, Taken
<1>6. NothingLost'
  BY DEF Inv, Plan, CarryTypeOK, Running, RenamesInOrder, CopiesInOrder, NothingOfOurs, Undoable, NothingLost, Somewhere, WasThere
<1>7. Arrived'
  <2>1. \A f \in Steps : f < n
    BY DEF Plan, Steps
  <2>2. \A f \in Steps : \/ to[f] = "mine"
                         \/ from[f] = "none" /\ f \notin done
    BY <2>1 DEF Inv, CopiesInOrder
  <2>3. \A f \in Steps : WasThere(f) => Somewhere(f)
    BY DEF Inv, NothingLost
  <2> QED BY <2>2, <2>3 DEF Arrived, WasThere, Somewhere
<1>8. Undoable'
  BY DEF Inv, Plan, CarryTypeOK, Running, RenamesInOrder, CopiesInOrder, NothingOfOurs, Undoable, Clean, AsBefore, Open, Clear
<1> QED BY <1>1, <1>2, <1>3, <1>4, <1>5, <1>6, <1>7, <1>8 DEF Inv

LEMMA DeleteInv == ASSUME Plan, Inv, Delete PROVE Inv'
<1> USE DEF Delete
<1>1. CarryTypeOK'
  <2>1. n \in Steps /\ LastStep \in Nat
    BY DEF Plan
  <2>2. from' \in [Steps -> {"none", "mine"}] /\ n' \in 1 .. LastStep + 1
    BY <2>1 DEF Inv, CarryTypeOK, Steps
  <2> QED BY <2>2 DEF Inv, CarryTypeOK
<1>2. Running'
  BY DEF Inv, CarryTypeOK, Running
<1>3. RenamesInOrder'
  BY DEF Inv, Plan, CarryTypeOK, Running, RenamesInOrder, CopiesInOrder, NothingOfOurs, Undoable
<1>4. CopiesInOrder'
  BY DEF Inv, Plan, CarryTypeOK, Running, RenamesInOrder, CopiesInOrder, NothingOfOurs, Undoable, There, Clear
<1>5. NothingOfOurs'
  BY DEF Inv, Plan, CarryTypeOK, Running, RenamesInOrder, CopiesInOrder, NothingOfOurs, Undoable, Clear, Taken
<1>6. NothingLost'
  <2>1. n \in Steps
    OBVIOUS
  <2>2. \A f \in Steps : WasThere(f) => to[f] = "mine"
    BY DEF Inv, Arrived
  <2> QED BY <2>2 DEF NothingLost, Somewhere, WasThere
<1>7. Arrived'
  BY DEF Inv, Plan, CarryTypeOK, Running, RenamesInOrder, CopiesInOrder, NothingOfOurs, Undoable, NothingLost, Arrived, Somewhere, WasThere
<1>8. Undoable'
  BY DEF Inv, Plan, CarryTypeOK, Running, RenamesInOrder, CopiesInOrder, NothingOfOurs, Undoable, Clean, AsBefore, Open, Clear
<1> QED BY <1>1, <1>2, <1>3, <1>4, <1>5, <1>6, <1>7, <1>8 DEF Inv

LEMMA DeletedInv == ASSUME Plan, Inv, Deleted PROVE Inv'
<1> USE DEF Deleted
<1>1. CarryTypeOK'
  BY DEF Inv, Plan, CopiesInOrder, CarryTypeOK, Calls, Content, Above, Steps
<1>2. Running'
  BY DEF Inv, CarryTypeOK, Running
<1>3. RenamesInOrder'
  BY DEF Inv, Plan, CarryTypeOK, Running, RenamesInOrder, CopiesInOrder, NothingOfOurs, Undoable
<1>4. CopiesInOrder'
  BY DEF Inv, Plan, CarryTypeOK, Running, RenamesInOrder, CopiesInOrder, NothingOfOurs, Undoable, There, Clear
<1>5. NothingOfOurs'
  BY DEF Inv, Plan, CarryTypeOK, Running, RenamesInOrder, CopiesInOrder, NothingOfOurs, Undoable, Clear, Taken
<1>6. NothingLost'
  BY DEF Inv, Plan, CarryTypeOK, Running, RenamesInOrder, CopiesInOrder, NothingOfOurs, Undoable, NothingLost, Somewhere, WasThere
<1>7. Arrived'
  BY DEF Inv, Plan, CarryTypeOK, Running, RenamesInOrder, CopiesInOrder, NothingOfOurs, Undoable, NothingLost, Arrived, Somewhere, WasThere
<1>8. Undoable'
  BY DEF Inv, Plan, CarryTypeOK, Running, RenamesInOrder, CopiesInOrder, NothingOfOurs, Undoable, Clean, AsBefore, Open, Clear
<1> QED BY <1>1, <1>2, <1>3, <1>4, <1>5, <1>6, <1>7, <1>8 DEF Inv

LEMMA PruneInv == ASSUME Plan, Inv, Prune PROVE Inv'
<1> USE DEF Prune
<1>1. CarryTypeOK'
  BY DEF Inv, Plan, CopiesInOrder, CarryTypeOK, Calls, Content, Above, Steps
<1>2. Running'
  BY DEF Inv, CarryTypeOK, Running
<1>3. RenamesInOrder'
  BY DEF Inv, Plan, CarryTypeOK, Running, RenamesInOrder, CopiesInOrder, NothingOfOurs, Undoable
<1>4. CopiesInOrder'
  BY DEF Inv, Plan, CarryTypeOK, Running, RenamesInOrder, CopiesInOrder, NothingOfOurs, Undoable, There, Clear
<1>5. NothingOfOurs'
  BY DEF Inv, Plan, CarryTypeOK, Running, RenamesInOrder, CopiesInOrder, NothingOfOurs, Undoable, Clear, Taken
<1>6. NothingLost'
  BY DEF Inv, Plan, CarryTypeOK, Running, RenamesInOrder, CopiesInOrder, NothingOfOurs, Undoable, NothingLost, Somewhere, WasThere
<1>7. Arrived'
  BY DEF Inv, Plan, CarryTypeOK, Running, RenamesInOrder, CopiesInOrder, NothingOfOurs, Undoable, NothingLost, Arrived, Somewhere, WasThere
<1>8. Undoable'
  BY DEF Inv, Plan, CarryTypeOK, Running, RenamesInOrder, CopiesInOrder, NothingOfOurs, Undoable, Clean, AsBefore, Open, Clear
<1> QED BY <1>1, <1>2, <1>3, <1>4, <1>5, <1>6, <1>7, <1>8 DEF Inv

LEMMA PrunedInv == ASSUME Plan, Inv, Pruned PROVE Inv'
<1> USE DEF Pruned, Return
<1>1. CarryTypeOK'
  BY DEF Inv, Plan, CopiesInOrder, CarryTypeOK, Calls, Content, Above, Steps
<1>2. Running'
  BY DEF Inv, CarryTypeOK, Running
<1>3. RenamesInOrder'
  BY DEF Inv, Plan, CarryTypeOK, Running, RenamesInOrder, CopiesInOrder, NothingOfOurs, Undoable
<1>4. CopiesInOrder'
  BY DEF Inv, Plan, CarryTypeOK, Running, RenamesInOrder, CopiesInOrder, NothingOfOurs, Undoable, There, Clear
<1>5. NothingOfOurs'
  BY DEF Inv, Plan, CarryTypeOK, Running, RenamesInOrder, CopiesInOrder, NothingOfOurs, Undoable, Clear, Taken
<1>6. NothingLost'
  BY DEF Inv, Plan, CarryTypeOK, Running, RenamesInOrder, CopiesInOrder, NothingOfOurs, Undoable, NothingLost, Somewhere, WasThere
<1>7. Arrived'
  BY DEF Inv, Plan, CarryTypeOK, Running, RenamesInOrder, CopiesInOrder, NothingOfOurs, Undoable, NothingLost, Arrived, Somewhere, WasThere
<1>8. Undoable'
  BY DEF Inv, Plan, CarryTypeOK, Running, RenamesInOrder, CopiesInOrder, NothingOfOurs, Undoable, Clean, AsBefore, Open, Clear
<1> QED BY <1>1, <1>2, <1>3, <1>4, <1>5, <1>6, <1>7, <1>8 DEF Inv

LEMMA StrangerInv == ASSUME Plan, Inv, Stranger PROVE Inv'
<1> USE DEF Stranger
<1>1. CarryTypeOK'
  BY DEF Inv, Plan, CopiesInOrder, CarryTypeOK, Calls, Content, Above, Steps
<1>2. Running'
  BY DEF Inv, CarryTypeOK, Running
<1>3. RenamesInOrder'
  BY DEF Inv, Plan, CarryTypeOK, Running, RenamesInOrder, CopiesInOrder, NothingOfOurs, Undoable
<1>4. CopiesInOrder'
  BY DEF Inv, Plan, CarryTypeOK, Running, RenamesInOrder, CopiesInOrder, NothingOfOurs, Undoable, There, Clear
<1>5. NothingOfOurs'
  BY DEF Inv, Plan, CarryTypeOK, Running, RenamesInOrder, CopiesInOrder, NothingOfOurs, Undoable, Clear, Taken
<1>6. NothingLost'
  BY DEF Inv, Plan, CarryTypeOK, Running, RenamesInOrder, CopiesInOrder, NothingOfOurs, Undoable, NothingLost, Somewhere, WasThere
<1>7. Arrived'
  BY DEF Inv, Plan, CarryTypeOK, Running, RenamesInOrder, CopiesInOrder, NothingOfOurs, Undoable, NothingLost, Arrived, Somewhere, WasThere
<1>8. Undoable'
  BY DEF Inv, Plan, CarryTypeOK, Running, RenamesInOrder, CopiesInOrder, NothingOfOurs, Undoable, Clean, AsBefore, Open, Clear
<1> QED BY <1>1, <1>2, <1>3, <1>4, <1>5, <1>6, <1>7, <1>8 DEF Inv

LEMMA CrashInv == ASSUME Plan, Inv, CarryDies PROVE Inv'
<1> USE DEF CarryDies, Return
<1>1. CarryTypeOK'
  BY DEF Inv, Plan, CopiesInOrder, CarryTypeOK, Calls, Content, Above, Steps
<1>2. Running'
  BY DEF Inv, CarryTypeOK, Running
<1>3. RenamesInOrder'
  BY DEF Inv, Plan, CarryTypeOK, Running, RenamesInOrder, CopiesInOrder, NothingOfOurs, Undoable
<1>4. CopiesInOrder'
  BY DEF Inv, Plan, CarryTypeOK, Running, RenamesInOrder, CopiesInOrder, NothingOfOurs, Undoable, There, Clear
<1>5. NothingOfOurs'
  BY DEF Inv, Plan, CarryTypeOK, Running, RenamesInOrder, CopiesInOrder, NothingOfOurs, Undoable, Clear, Taken
<1>6. NothingLost'
  BY DEF Inv, Plan, CarryTypeOK, Running, RenamesInOrder, CopiesInOrder, NothingOfOurs, Undoable, NothingLost, Somewhere, WasThere
<1>7. Arrived'
  BY DEF Inv, Plan, CarryTypeOK, Running, RenamesInOrder, CopiesInOrder, NothingOfOurs, Undoable, NothingLost, Arrived, Somewhere, WasThere
<1>8. Undoable'
  BY DEF Inv, Plan, CarryTypeOK, Running, RenamesInOrder, CopiesInOrder, NothingOfOurs, Undoable, Clean, AsBefore, Open, Clear
<1> QED BY <1>1, <1>2, <1>3, <1>4, <1>5, <1>6, <1>7, <1>8 DEF Inv

----------------------------------------------------------------------------
LEMMA InitInv == ASSUME Plan, CarryInit PROVE Inv
<1>1. CarryTypeOK
  BY DEF Plan, CarryInit, CarryTypeOK, Calls, Content, Above, Steps
<1>2. Running /\ RenamesInOrder /\ CopiesInOrder /\ NothingOfOurs
  BY DEF CarryInit, Running, RenamesInOrder, CopiesInOrder, NothingOfOurs
<1>3. NothingLost /\ Arrived /\ Undoable
  BY DEF CarryInit, NothingLost, Arrived, Undoable, Open
<1> QED BY <1>1, <1>2, <1>3 DEF Inv

LEMMA StutterInv == ASSUME Inv, UNCHANGED carryVars PROVE Inv'
<1> USE DEF Inv, carryVars
<1>1. CarryTypeOK' /\ Running' /\ RenamesInOrder'
  BY DEF CarryTypeOK, Running, RenamesInOrder
<1>2. CopiesInOrder' /\ NothingOfOurs'
  BY DEF CopiesInOrder, NothingOfOurs, Clear
<1>3. NothingLost' /\ Arrived' /\ Undoable'
  BY DEF NothingLost, Arrived, Undoable, WasThere, Somewhere, AsBefore, Clean
<1> QED BY <1>1, <1>2, <1>3

LEMMA StepInv == ASSUME Plan, Inv, [CarryNext]_carryVars PROVE Inv'
<1>1. CASE Call
  BY <1>1, CallInv
<1>2. CASE Check \/ Folders \/ Rename \/ Renamed
  BY <1>2, CheckInv, FoldersInv, RenameInv, RenamedInv
<1>3. CASE Undo \/ Undone \/ SkipCopy \/ Copy
  BY <1>3, UndoInv, UndoneInv, SkipCopyInv, CopyInv
<1>4. CASE Verify \/ Uncopy \/ Uncopied \/ Copied
  BY <1>4, VerifyInv, UncopyInv, UncopiedInv, CopiedInv
<1>5. CASE Delete \/ Deleted \/ Prune \/ Pruned
  BY <1>5, DeleteInv, DeletedInv, PruneInv, PrunedInv
<1>6. CASE Stranger \/ CarryDies
  BY <1>6, StrangerInv, CrashInv
<1>7. CASE UNCHANGED carryVars
  BY <1>7, StutterInv
<1> QED BY <1>1, <1>2, <1>3, <1>4, <1>5, <1>6, <1>7 DEF CarryNext, Work

LEMMA InvAlways == CarrySpec => []Inv
<1>1. CarryInit => Inv
  BY InitInv, CarryAssumption
<1>2. Inv /\ [CarryNext]_carryVars => Inv'
  BY StepInv, CarryAssumption
<1> QED BY <1>1, <1>2, PTL DEF CarrySpec

----------------------------------------------------------------------------
(* What Move calls a place, read off the two ends.                         *)
LEMMA PlaceIs ==
  ASSUME NEW ends, NEW f \in Steps
  PROVE  /\ DOMAIN Held(ends) = Steps
         /\ Held(ends)[f] \subseteq {"from", "to"}
         /\ "from" \in Held(ends)[f] <=> ends.from[f] = "mine"
         /\ "to" \in Held(ends)[f] <=> ends.to[f] = "mine"
BY DEF Held

Ends == [from |-> from, to |-> to]

LEMMA SamePlaces ==
  ASSUME NEW x, NEW y,
         \A f \in Steps : /\ x.from[f] = "mine" <=> y.from[f] = "mine"
                          /\ x.to[f] = "mine" <=> y.to[f] = "mine"
  PROVE  Held(x) = Held(y)
BY DEF Held

LEMMA InitMaps == ASSUME Plan, CarryInit PROVE Promise!Init
<1>1. Held([from |-> from, to |-> to]) \in [Steps -> SUBSET {"from", "to"}]
  BY DEF Held
<1> QED BY <1>1 DEF CarryInit, Promise!Init, Promise!Anywhere

(* A step that changes what is at the two ends of one file, and leaves it  *)
(* somewhere if it was somewhere, is one of Move's.                        *)
LEMMA ShiftMaps ==
  ASSUME NEW f \in Steps, result = "running", UNCHANGED <<before, result, mishaps>>,
         \A g \in Steps : g # f => from'[g] = from[g] /\ to'[g] = to[g],
         Somewhere(f) <=> Somewhere(f)'
  PROVE  Promise!Shift
<1> DEFINE p == Held(Ends)[f]
           q == Held(Ends')[f]
<1>1. q \in SUBSET {"from", "to"} /\ (p # {} <=> q # {})
  BY PlaceIs DEF Somewhere, Ends
<1>2. \A g \in Steps : g # f => Held(Ends')[g] = Held(Ends)[g]
  BY DEF Held, Ends
<1>3. /\ Held(Ends) = [g \in Steps |-> Held(Ends)[g]]
      /\ Held(Ends') = [g \in Steps |-> Held(Ends')[g]]
  BY DEF Held
<1>4. Held(Ends') = [Held(Ends) EXCEPT ![f] = q]
  <2> DEFINE H == Held(Ends)
             K == Held(Ends')
  <2>1. /\ H = [g \in Steps |-> H[g]] /\ K = [g \in Steps |-> K[g]]
        /\ \A g \in Steps : g # f => K[g] = H[g]
        /\ q = K[f]
    BY <1>2, <1>3
  <2> HIDE DEF H, K, q
  <2>2. K = [H EXCEPT ![f] = q]
    BY <2>1
  <2> QED BY <2>2 DEF H, K
<1>5. Held(Ends') = Held([from |-> from', to |-> to']) /\ Held(Ends) = Held([from |-> from, to |-> to])
  BY DEF Ends
<1>6. p = Held([from |-> from, to |-> to])[f]
  BY <1>5
<1> HIDE DEF p, q
<1>7. q \in SUBSET {"from", "to"} /\ (p # {} => q # {}) /\ (p = {} => q = {})
  BY <1>1
<1>8. Held([from |-> from', to |-> to']) = [Held([from |-> from, to |-> to]) EXCEPT ![f] = q]
  BY <1>4, <1>5
<1> QED BY <1>6, <1>7, <1>8 DEF Promise!Shift, Promise!Anywhere

Still == UNCHANGED Promise!vars

LEMMA StillMaps == ASSUME UNCHANGED <<from, to, before, result, mishaps>> PROVE Still
BY DEF Still, Promise!vars

(* The two calls that find everything as it was, and the undoing that puts *)
(* everything back, refuse.                                                *)
LEMMA RefuseMaps ==
  ASSUME Inv, at \in {"check", "folders", "uncopy"}, done = {}, Return("refused"),
         UNCHANGED <<from, to, before, mishaps>>
  PROVE  Promise!Refuse
<1>1. result = "running"
  BY DEF Inv, Running
<1>2. Clean => Held([from |-> from, to |-> to]) = Held(before)
  <2>1. Clean => \A f \in Steps : AsBefore(f)
    BY DEF Inv, Undoable, Open
  <2> QED BY <2>1, SamePlaces DEF AsBefore
<1> QED BY <1>1, <1>2 DEF Promise!Refuse, Return, Clean

LEMMA CallMaps == ASSUME Inv, Call PROVE Promise!Ask
BY DEF Inv, Running, Call, Promise!Ask

LEMMA CheckMaps == ASSUME Inv, Check \/ Folders PROVE Promise!Refuse \/ Still
<1>1. done = {}
  BY DEF Inv, NothingOfOurs, Check, Folders
<1>2. CASE Return("refused")
  BY <1>1, <1>2, RefuseMaps DEF Check, Folders
<1>3. CASE ~Return("refused")
  BY <1>3, StillMaps DEF Check, Folders
<1> QED BY <1>2, <1>3

LEMMA RenameMaps == ASSUME Inv, Rename PROVE Promise!Shift \/ Still
<1>1. n \in Steps /\ result = "running" /\ UNCHANGED <<before, result, mishaps>>
  BY DEF Inv, Running, Rename
<1> PICK f \in Steps : f = n
  BY <1>1
<1>2. CASE UNCHANGED <<from, to>>
  BY <1>1, <1>2, StillMaps
<1>3. CASE ~UNCHANGED <<from, to>>
  <2>1. /\ from[f] = "mine"
        /\ from' = [from EXCEPT ![f] = "none"] /\ to' = [to EXCEPT ![f] = "mine"]
    BY <1>1, <1>3 DEF Inv, CarryTypeOK, Rename
  <2>2. Somewhere(f) <=> Somewhere(f)'
    BY <1>1, <2>1 DEF Inv, CarryTypeOK, Somewhere
  <2> QED BY <1>1, <2>1, <2>2, ShiftMaps DEF Inv, CarryTypeOK
<1> QED BY <1>2, <1>3

LEMMA UndoMaps == ASSUME Inv, Undo PROVE Promise!Shift \/ Still
<1>1. result = "running" /\ UNCHANGED <<before, result, mishaps>>
  BY DEF Inv, Running, Undo
<1>2. CASE UNCHANGED <<from, to>>
  BY <1>1, <1>2, StillMaps
<1>3. CASE ~UNCHANGED <<from, to>>
  <2>1. PICK f \in done :
          from' = [from EXCEPT ![f] = to[f]] /\ to' = [to EXCEPT ![f] = "none"]
    BY <1>3 DEF Undo
  <2>2. f \in Steps /\ to[f] = "mine"
    BY DEF Inv, CarryTypeOK, RenamesInOrder, Undo
  <2>3. Somewhere(f) <=> Somewhere(f)'
    BY <2>1, <2>2 DEF Inv, CarryTypeOK, Somewhere
  <2> QED BY <1>1, <2>1, <2>2, <2>3, ShiftMaps DEF Inv, CarryTypeOK
<1> QED BY <1>2, <1>3

LEMMA CopyMaps == ASSUME Inv, Copy \/ Verify PROVE Promise!Shift
<1>1. /\ n \in Steps /\ result = "running"
      /\ UNCHANGED <<from, before, result, mishaps>>
  BY DEF Inv, Running, CopiesInOrder, Copy, Verify
<1> PICK f \in Steps : f = n
  BY <1>1
<1>2. to' = to \/ (from[f] = "mine" /\ \E c \in Content : to' = [to EXCEPT ![f] = c])
  BY <1>1 DEF Inv, CarryTypeOK, CopiesInOrder, Copy, Verify, Content
<1>3. Somewhere(f) <=> Somewhere(f)'
  BY <1>1, <1>2 DEF Somewhere
<1> QED BY <1>1, <1>2, <1>3, ShiftMaps DEF Inv, CarryTypeOK

LEMMA UncopyMaps == ASSUME Inv, Uncopy PROVE Promise!Shift \/ Still
<1>1. result = "running" /\ UNCHANGED <<from, before, result, mishaps>>
  BY DEF Inv, Running, Uncopy
<1>2. CASE to' = to
  BY <1>1, <1>2, StillMaps
<1>3. CASE to' # to
  <2>1. PICK f \in done : to' = [to EXCEPT ![f] = "none"]
    BY <1>3 DEF Uncopy
  <2>2. f \in Steps /\ from[f] = "mine"
    BY DEF Inv, CarryTypeOK, CopiesInOrder, Uncopy
  <2>3. Somewhere(f) <=> Somewhere(f)'
    BY <1>1, <2>2 DEF Somewhere
  <2> QED BY <1>1, <2>1, <2>2, <2>3, ShiftMaps DEF Inv, CarryTypeOK
<1> QED BY <1>2, <1>3

LEMMA UncopiedMaps == ASSUME Inv, Uncopied PROVE Promise!Refuse
BY RefuseMaps DEF Uncopied

LEMMA DeleteMaps == ASSUME Inv, Delete PROVE Promise!Shift
<1>1. /\ n \in Steps /\ result = "running"
      /\ UNCHANGED <<to, before, result, mishaps>>
      /\ from' = from \/ from' = [from EXCEPT ![n] = "none"]
  BY DEF Inv, Running, Delete
<1> PICK f \in Steps : f = n
  BY <1>1
<1>2. Somewhere(f) <=> Somewhere(f)'
  BY <1>1 DEF Inv, CarryTypeOK, Arrived, Delete, Somewhere
<1> QED BY <1>1, <1>2, ShiftMaps DEF Inv, CarryTypeOK

LEMMA PrunedMaps == ASSUME Inv, Pruned PROVE Promise!Succeed
<1>1. result = "running" /\ at = "prune"
  BY DEF Inv, Running, Pruned
<1>2. \A f \in Steps : Held(before)[f] # {} => to[f] = "mine"
  BY <1>1 DEF Inv, Arrived, WasThere, Held
<1>3. \A f \in Steps : to[f] = "mine" => "to" \in Held([from |-> from, to |-> to])[f]
  BY DEF Held
<1> QED BY <1>1, <1>2, <1>3 DEF Pruned, Return, Promise!Succeed

LEMMA StrangerMaps == ASSUME Inv, Stranger PROVE Promise!Shift
<1>1. /\ result = "running" /\ UNCHANGED <<from, before, result, mishaps>>
  BY DEF Inv, Running, Stranger
<1>2. PICK f \in Steps : to[f] = "none" /\ to' = [to EXCEPT ![f] = "theirs"]
  BY DEF Stranger
<1>3. Somewhere(f) <=> Somewhere(f)'
  BY <1>1, <1>2 DEF Inv, CarryTypeOK, Somewhere
<1> QED BY <1>1, <1>2, <1>3, ShiftMaps DEF Inv, CarryTypeOK

LEMMA CrashMaps == ASSUME Inv, CarryDies PROVE Promise!Die
BY DEF Inv, Running, CarryDies, Return, Promise!Die

(* Every call is a step of Move, or none.                                  *)
LEMMA StepMaps == ASSUME Inv, [CarryNext]_carryVars PROVE Promise!Next \/ Still
<1>1. CASE Call \/ Check \/ Folders
  BY <1>1, CallMaps, CheckMaps DEF Promise!Next
<1>2. CASE Rename \/ Undo
  BY <1>2, RenameMaps, UndoMaps DEF Promise!Next
<1>3. CASE Copy \/ Verify \/ Uncopy \/ Uncopied
  BY <1>3, CopyMaps, UncopyMaps, UncopiedMaps DEF Promise!Next
<1>4. CASE Delete \/ Pruned
  BY <1>4, DeleteMaps, PrunedMaps DEF Promise!Next
<1>5. CASE Stranger \/ CarryDies
  BY <1>5, StrangerMaps, CrashMaps DEF Promise!Next
<1>6. CASE Renamed \/ Undone \/ SkipCopy \/ Copied \/ Deleted \/ Prune
  BY <1>6, StillMaps DEF Renamed, Undone, SkipCopy, Copied, Deleted, Prune
<1>7. CASE UNCHANGED carryVars
  BY <1>7, StillMaps DEF carryVars
<1> QED BY <1>1, <1>2, <1>3, <1>4, <1>5, <1>6, <1>7 DEF CarryNext, Work

----------------------------------------------------------------------------
(* Only what is known to be free, or known to be ours, is written to.      *)
LEMMA StepSpares ==
  ASSUME Inv, [CarryNext]_carryVars, NEW f \in Steps, to[f] = "theirs", "stranger" \notin mishaps
  PROVE  to'[f] = "theirs"
<1>1. CASE Rename
  <2>1. n \in done => f # n
    BY <1>1 DEF Inv, RenamesInOrder, Rename
  <2>2. f = n => from[f] # "mine"
    BY <1>1, <2>1 DEF Inv, NothingOfOurs, Clear, Rename
  <2> QED BY <1>1, <2>2 DEF Inv, CarryTypeOK, Rename
<1>2. CASE Undo
  BY <1>2 DEF Inv, CarryTypeOK, RenamesInOrder, Undo
<1>3. CASE Copy
  <2>1. n \notin done
    BY <1>3 DEF Inv, CarryTypeOK, CopiesInOrder, Copy, Steps
  <2>2. f = n => from[f] # "mine" /\ There(f)
    BY <1>3, <2>1 DEF Inv, CarryTypeOK, NothingOfOurs, Clear, Copy, There
  <2> QED BY <1>3, <2>2 DEF Inv, CarryTypeOK, Copy
<1>4. CASE Verify
  BY <1>4 DEF Inv, CarryTypeOK, CopiesInOrder, Verify
<1>5. CASE Uncopy
  BY <1>5 DEF Inv, CarryTypeOK, CopiesInOrder, Uncopy
<1>6. CASE Stranger
  BY <1>6 DEF Stranger
<1>7. CASE Call \/ Check \/ Folders \/ Renamed \/ Undone \/ SkipCopy
  BY <1>7 DEF Call, Check, Folders, Renamed, Undone, SkipCopy
<1>8. CASE Uncopied \/ Copied \/ Delete \/ Deleted \/ Prune \/ Pruned \/ CarryDies
  BY <1>8 DEF Uncopied, Copied, Delete, Deleted, Prune, Pruned, CarryDies
<1>9. CASE UNCHANGED carryVars
  BY <1>9 DEF carryVars
<1> QED BY <1>1, <1>2, <1>3, <1>4, <1>5, <1>6, <1>7, <1>8, <1>9 DEF CarryNext, Work

Spared == \A f \in Steps : to[f] = "theirs" /\ "stranger" \notin mishaps => to'[f] = "theirs"

(* The calls of carry() implement Move, and nothing is moved onto anything *)
(* that was there: for every plan, in whatever order calls fail, and       *)
(* wherever the process dies.                                              *)
THEOREM CarryIsSafe == CarrySpec => MoveIsSafe
<1>1. CarryInit => Promise!Init
  BY InitMaps, CarryAssumption
<1>2. Inv /\ [CarryNext]_carryVars => [Promise!Next]_Promise!vars
  BY StepMaps DEF Still
<1>3. Inv /\ [CarryNext]_carryVars => [\A f \in Steps : to[f] = "theirs" /\ "stranger" \notin mishaps
                                               => to'[f] = "theirs"]_carryVars
  BY StepSpares
<1>4. CarrySpec => []Inv
  BY InvAlways
<1> QED BY <1>1, <1>2, <1>3, <1>4, PTL DEF CarrySpec, MoveIsSafe, Promise!Spec, NothingOverwritten

(* The two ends, and what carry() works with, keep their types.            *)
THEOREM CarryTypeCorrect == CarrySpec => []CarryTypeOK
<1>1. Inv => CarryTypeOK
  BY DEF Inv
<1> QED BY <1>1, InvAlways, PTL

----------------------------------------------------------------------------
(* What a move leaves behind.                                              *)

(* No call fails that leaves something of ours at the far end.             *)
Tidy == mishaps \cap {"undo", "partial", "metadata", "removal"} = {}

Kept(f) == to[f] \in {"mine", "short"} => before.to[f] = to[f]

(* Until the deletions begin, what is ours at the far end was there before *)
(* or is on the list of what a fault takes away.                           *)
Tidied ==
  Tidy =>
    /\ at \in Open => \A f \in Steps \ done : (at = "verify" /\ f = n) \/ Kept(f)
    /\ result = "refused" => \A f \in Steps : Kept(f)

(* A folder prune() has been to and that is still there lies on the way to *)
(* a file that stayed.                                                     *)
OnTheWay(d) == \E f \in Steps : d <= Depth[f] /\ from[f] # "none"

PrunedSoFar ==
  "folder" \notin mishaps =>
    /\ at = "prune" => \A d \in dirs \ todo : OnTheWay(d)
    /\ result = "moved" => \A d \in dirs : OnTheWay(d)

(* Every folder has a file of its own in it: prune() tries the parents of  *)
(* the files, and no folder that holds nothing but folders.                *)
NoGaps == \A d \in Above : \E f \in Steps : Depth[f] = d

LEMMA TidiedStep == ASSUME Inv, Tidied, [CarryNext]_carryVars PROVE Tidied'
<1> SUFFICES ASSUME Tidy, Tidy'
             PROVE  /\ at' \in Open => \A f \in Steps \ done' : (at' = "verify" /\ f = n') \/ Kept(f)'
                    /\ result' = "refused" => \A f \in Steps : Kept(f)'
  <2>1. mishaps' = mishaps
    BY DEF CarryNext, Work, Call, Check, Folders, Rename, Renamed, Undo, Undone, SkipCopy, Copy,
           Verify, Uncopy, Uncopied, Copied, Delete, Deleted, Prune, Pruned, Stranger, CarryDies,
           carryVars
  <2> QED BY <2>1 DEF Tidied, Tidy
<1> USE DEF Tidied, Open
<1>1. CASE Call
  BY <1>1 DEF Call, Kept
<1>2. CASE Check \/ Folders
  BY <1>2 DEF Inv, NothingOfOurs, Check, Folders, Return, Kept
<1>3. CASE Rename
  BY <1>3 DEF Inv, CarryTypeOK, Running, Rename, Kept
<1>4. CASE Undo
  BY <1>4 DEF Inv, CarryTypeOK, Running, Undo, Kept, Tidy
<1>5. CASE Copy
  <2>1. n \in Steps /\ n \notin done /\ Kept(n)
    BY <1>5 DEF Inv, CopiesInOrder, Copy, Plan, Steps
  <2> QED BY <1>5, <2>1 DEF Inv, CarryTypeOK, Running, Copy, Kept, Tidy
<1>6. CASE Verify
  <2>1. n \in Steps /\ n \notin done
    BY <1>6 DEF Inv, CopiesInOrder, Verify, Steps
  <2> QED BY <1>6, <2>1 DEF Inv, CarryTypeOK, Running, Verify, Kept, Tidy
<1>7. CASE Uncopy
  BY <1>7 DEF Inv, CarryTypeOK, Running, Uncopy, Kept, Tidy
<1>8. CASE Uncopied
  BY <1>8 DEF Uncopied, Return, Kept
<1>9. CASE Stranger
  BY <1>9 DEF Inv, CarryTypeOK, Running, Stranger, Kept
<1>10. CASE Renamed \/ Undone \/ SkipCopy \/ Copied \/ Deleted
  BY <1>10 DEF Inv, Running, Renamed, Undone, SkipCopy, Copied, Deleted, Kept
<1>11. CASE Delete \/ Prune \/ Pruned \/ CarryDies
  BY <1>11 DEF Inv, Running, Delete, Prune, Pruned, CarryDies, Return
<1>12. CASE UNCHANGED carryVars
  BY <1>12 DEF carryVars, Kept
<1> QED BY <1>1, <1>2, <1>3, <1>4, <1>5, <1>6, <1>7, <1>8, <1>9, <1>10, <1>11, <1>12
        DEF CarryNext, Work

LEMMA PrunedStep == ASSUME NoGaps, Inv, PrunedSoFar, [CarryNext]_carryVars PROVE PrunedSoFar'
<1> USE DEF PrunedSoFar
<1>1. CASE Renamed \/ Deleted
  <2>1. dirs' \subseteq todo'
    BY <1>1 DEF Inv, CarryTypeOK, NoGaps, Renamed, Deleted
  <2> QED BY <1>1, <2>1 DEF Inv, Running, Renamed, Deleted
<1>2. CASE Prune
  <2>1. PICK d \in todo :
          /\ \A e \in todo : e <= d
          /\ todo' = todo \ {d}
          /\ \/ Emptied(d) /\ dirs' = dirs \ {d}
             \/ (Emptied(d) => "folder" \in mishaps) /\ UNCHANGED dirs
    BY <1>2 DEF Prune
  <2>2. result' = result /\ result # "moved" /\ from' = from /\ mishaps' = mishaps
    BY <1>2 DEF Inv, Running, Prune
  <2>3. ASSUME "folder" \notin mishaps, d \in dirs'
        PROVE  OnTheWay(d)
    <3>1. d \in Above /\ d \in Int /\ \A f \in Steps : Depth[f] \in Nat
      BY <2>1, CarryAssumption DEF Inv, CarryTypeOK, Plan, Above
    <3>2. ~Emptied(d)
      BY <2>1, <2>3
    <3>3. CASE \E f \in Steps : Depth[f] = d /\ from[f] # "none"
      BY <3>1, <3>3 DEF OnTheWay
    <3>4. CASE \E e \in dirs : ~(e <= d)
      <4>1. PICK e \in dirs : ~(e <= d)
        BY <3>4
      <4>2. e \notin todo /\ e \in Int
        BY <2>1, <4>1 DEF Inv, CarryTypeOK, Above
      <4>3. PICK f \in Steps : e <= Depth[f] /\ from[f] # "none"
        BY <1>2, <2>3, <4>2 DEF OnTheWay, Prune
      <4> QED BY <3>1, <4>1, <4>2, <4>3 DEF OnTheWay
    <3> QED BY <3>2, <3>3, <3>4 DEF Emptied
  <2> QED BY <1>2, <2>1, <2>2, <2>3 DEF OnTheWay, Prune
<1>3. CASE Pruned
  BY <1>3 DEF Pruned, Return, OnTheWay
<1>4. CASE Call \/ Check \/ Folders \/ Rename \/ Undo \/ Undone \/ SkipCopy \/ Copy
  BY <1>4 DEF Inv, Running, Call, Check, Folders, Rename, Undo, Undone, SkipCopy, Copy, Return
<1>5. CASE Verify \/ Uncopy \/ Uncopied \/ Copied \/ Delete \/ CarryDies
  BY <1>5 DEF Inv, Running, Verify, Uncopy, Uncopied, Copied, Delete, CarryDies, Return
<1>6. CASE Stranger
  BY <1>6 DEF Stranger, OnTheWay
<1>7. CASE UNCHANGED carryVars
  BY <1>7 DEF carryVars, OnTheWay
<1> QED BY <1>1, <1>2, <1>3, <1>4, <1>5, <1>6, <1>7 DEF CarryNext, Work

(* A refused move leaves nothing of its own at the far end, whichever call *)
(* it failed at, as long as what takes it away works.                      *)
THEOREM RefusalLeavesNothing == CarrySpec => []NothingLeftBehind
<1>1. CarryInit => Tidied
  BY DEF CarryInit, Tidied, Open
<1>2. Tidied => NothingLeftBehind
  BY DEF Tidied, Tidy, Kept, NothingLeftBehind
<1> QED BY <1>1, <1>2, TidiedStep, InvAlways, PTL DEF CarrySpec

(* And a move that is over has left neither copies after a refusal nor,    *)
(* where every folder has a file of its own, folders it emptied after a    *)
(* success.                                                                *)
THEOREM NothingIsLeft == ASSUME NoGaps PROVE CarrySpec => []LeavesNothing
<1>1. CarryInit => PrunedSoFar
  BY DEF CarryInit, PrunedSoFar
<1>2. PrunedSoFar => NoEmptyFolder
  BY DEF PrunedSoFar, OnTheWay, NoEmptyFolder
<1>3. Inv /\ PrunedSoFar /\ [CarryNext]_carryVars => PrunedSoFar'
  BY PrunedStep
<1>4. CarryTypeOK /\ NothingLeftBehind /\ NoEmptyFolder => LeavesNothing
  BY DEF LeavesNothing
<1> QED BY <1>1, <1>2, <1>3, <1>4, RefusalLeavesNothing, CarryTypeCorrect, InvAlways, PTL DEF CarrySpec

----------------------------------------------------------------------------
(* The choice of files.                                                    *)

(* A choice that is there is read back as it was.                          *)
LEMMA TheOne ==
  ASSUME NEW files \in SUBSET Files
  PROVE  The({files}) = files /\ {files} \in Maybe
BY DEF The, Maybe

LEMMA TheType ==
  ASSUME NEW choice \in Maybe, choice # {}
  PROVE  The(choice) \in SUBSET Files /\ choice = {The(choice)}
BY DEF The, Maybe

LEMMA FetchType ==
  ASSUME NEW t \in SUBSET Files, NEW p \in SUBSET Files, NEW held \in SUBSET Files
  PROVE  /\ ToFetch(t, p, held) \in SUBSET Files
         /\ ToFetch(t, p, held) \subseteq t
         /\ Hurried(t, p, held) # {} => p # {}
         /\ Hurried(t, p, held) = {} => ToFetch(t, p, held) = t
BY DEF ToFetch, Hurried

LEMMA TicksType ==
  ASSUME TypeOK
  PROVE  Ticks \in SUBSET Files /\ (Resolved => ticks = {Ticks}) /\ Seen \in SUBSET Files
BY TheType DEF TypeOK, Ticks, Resolved, Seen

(* What is left of the commands when the user has no other habits.         *)
LEMMA CalmCommands ==
  ASSUME TypeOK, world.habits = {}, Command
  PROVE  \/ \E files \in SUBSET Files, wanted \in BOOLEAN : SetFileWanted(files, wanted)
         \/ \E file \in Files, first \in BOOLEAN : SetFileFirst(file, first)
         \/ \E files \in SUBSET Files : Add(files)
         \/ Retry
BY DEF Command, Remove, Recheck

----------------------------------------------------------------------------
(* Types.                                                                  *)

(* Applying a choice keeps the types, and asks for no more than the ticks. *)
LEMMA ApplyType ==
  ASSUME TypeOK, NEW t \in SUBSET Files, NEW p \in SUBSET t, op = NoOp, Apply(t, p)
  PROVE  /\ ticks' = {t} /\ ticks' \in Maybe /\ Resolved' /\ Ticks' = t
         /\ pins' = p /\ narrowed' \in Maybe /\ entries' \in Maybe
         /\ op' \in [kind : {"none", "ask", "keep", "rebuild"}, files : SUBSET Files]
         /\ \/ /\ op' = NoOp /\ ToFetch(t, p, Seen) = only
               /\ narrowed' = narrowed /\ entries' = entries
            \/ /\ op'.kind = "ask" /\ op'.files = ToFetch(t, p, Seen)
               /\ narrowed' = entries'
               /\ \/ Hurried(t, p, Seen) # {} /\ narrowed' = {t}
                  \/ Hurried(t, p, Seen) = {} /\ narrowed' = {}
<1>1. Seen \in SUBSET Files /\ p \in SUBSET Files
  BY TicksType
<1>2. ToFetch(t, p, Seen) \in SUBSET Files
  BY <1>1, FetchType
<1>3. ticks' = {t} /\ pins' = p /\ ticks' \in Maybe /\ Resolved' /\ The(ticks') = t
  BY TheOne DEF Apply, Resolved
<1>4. Ticks' = t
  BY <1>3 DEF Ticks
<1>5. CASE ToFetch(t, p, Seen) = only
  BY <1>3, <1>4, <1>5 DEF Apply, TypeOK
<1>6. CASE ToFetch(t, p, Seen) # only
  <2>1. /\ entries' = IF Hurried(t, p, Seen) # {} THEN {t} ELSE {}
        /\ narrowed' = entries'
        /\ op' = [kind |-> "ask", files |-> ToFetch(t, p, Seen)]
    BY <1>6 DEF Apply
  <2>2. entries' \in Maybe
    BY <2>1, TheOne DEF Maybe
  <2> QED BY <1>2, <1>3, <1>4, <2>1, <2>2
<1> QED BY <1>5, <1>6

(* The files a command names, and the pins it leaves, are ticked.          *)
LEMMA WantedType ==
  ASSUME TypeOK, NEW files \in SUBSET Files, NEW wanted \in BOOLEAN,
         SetFileWanted(files, wanted)
  PROVE  \E t \in SUBSET Files :
           /\ Calm /\ MayEdit /\ (pins = {} \/ "edits pinned" \in world.habits)
           /\ Apply(t, pins \intersect t)
           /\ chosen' = IF op' = NoOp THEN t ELSE chosen
           /\ UNCHANGED <<stored, have, up, st, only, crashes>>
<1> DEFINE t == IF wanted THEN Ticks \union files ELSE Ticks \ files
<1>1. t \in SUBSET Files
  BY TicksType
<1> QED BY <1>1 DEF SetFileWanted

LEMMA FirstType ==
  ASSUME TypeOK, NEW file \in Files, NEW first \in BOOLEAN, SetFileFirst(file, first)
  PROVE  /\ Calm /\ MayEdit
         /\ UNCHANGED <<stored, have, up, st, only, chosen, crashes>>
         /\ \/ ticks' = {Ticks} /\ UNCHANGED <<narrowed, pins, entries, op>>
            \/ \E p \in SUBSET Ticks : Apply(Ticks, p)
<1>1. Calm /\ MayEdit /\ UNCHANGED <<stored, have, up, st, only, chosen, crashes>>
  BY DEF SetFileFirst
<1>2. CASE first /\ file \notin Ticks
  BY <1>1, <1>2 DEF SetFileFirst
<1>3. CASE ~(first /\ file \notin Ticks)
  <2> DEFINE p == IF first THEN pins \union {file} ELSE pins \ {file}
  <2>1. Apply(Ticks, p)
    BY <1>3 DEF SetFileFirst
  <2>2. p \in SUBSET Ticks
    BY <1>3 DEF TypeOK, Ticks
  <2> QED BY <1>1, <2>1, <2>2
<1> QED BY <1>2, <1>3

----------------------------------------------------------------------------
(* A run that does not die: the journal holds the ticks whenever the       *)
(* session holds less.                                                     *)
JournalKept ==
  /\ up = "up" /\ stored # {} /\ st # "gone"
  /\ op.kind \in {"none", "ask", "keep"} /\ (op.kind = "none" => op = NoOp)
  /\ narrowed = entries
  /\ narrowed # {} => narrowed = ticks /\ ticks = {chosen}
  /\ Resolved /\ op = NoOp => ticks = {chosen}
  /\ ~Resolved => op = NoOp /\ only = chosen
  /\ op = NoOp /\ narrowed = {} => stored = {chosen} /\ only = chosen
  /\ op = NoOp /\ Resolved /\ pins = {} => ticks = {only}

(* A change under way: it narrows to pinned files, or it widens to all     *)
(* that is ticked, and then it will not be refused.                        *)
ChangeKept ==
  op # NoOp =>
    /\ Resolved
    /\ op.kind = "keep" => only = op.files
    /\ narrowed # {} => pins # {}
    /\ narrowed = {} => ticks = {op.files}
    /\ narrowed = {} /\ op.kind = "ask" => st # "checking"

JInv == TypeOK /\ JournalKept /\ ChangeKept

LEMMA NoOpKind == NoOp.kind = "none"
BY DEF NoOp

(* Applying a choice whose ticks are the chosen ones, or that may change   *)
(* them because nothing is pinned.                                         *)
LEMMA ApplyKeepsJournal ==
  ASSUME JInv, Calm, NEW t \in SUBSET Files, NEW p \in SUBSET t, Apply(t, p),
         UNCHANGED <<stored, have, up, st, only, crashes>>,
         p # {} => t = chosen,
         Hurried(t, p, Seen) = {} => st # "checking",
         \/ chosen' = chosen /\ t = chosen
         \/ p = {} /\ pins = {} /\ chosen' = IF op' = NoOp THEN t ELSE chosen
  PROVE  JInv'
<1> USE DEF JInv
<1>1. op = NoOp /\ up = "up"
  BY DEF Calm
<1>2. /\ ticks' = {t} /\ ticks' \in Maybe /\ Resolved' /\ Ticks' = t
      /\ pins' = p /\ narrowed' \in Maybe /\ entries' \in Maybe
      /\ op' \in [kind : {"none", "ask", "keep", "rebuild"}, files : SUBSET Files]
      /\ \/ /\ op' = NoOp /\ ToFetch(t, p, Seen) = only
            /\ narrowed' = narrowed /\ entries' = entries
         \/ /\ op'.kind = "ask" /\ op'.files = ToFetch(t, p, Seen)
            /\ narrowed' = entries'
            /\ \/ Hurried(t, p, Seen) # {} /\ narrowed' = {t}
               \/ Hurried(t, p, Seen) = {} /\ narrowed' = {}
  BY <1>1, ApplyType
<1>3. The(ticks') = t
  BY <1>2, TheOne
<1>4. Seen \in SUBSET Files /\ p \in SUBSET Files
  BY TicksType
<1>5. Hurried(t, p, Seen) # {} => p # {}
  BY <1>4, FetchType
<1>6. Hurried(t, p, Seen) = {} => ToFetch(t, p, Seen) = t
  BY <1>4, FetchType
<1>7. TypeOK'
  BY <1>2, <1>3 DEF TypeOK
<1>8. CASE op' = NoOp /\ ToFetch(t, p, Seen) = only /\ narrowed' = narrowed
           /\ entries' = entries
  <2>1. p = {} => t = only
    BY <1>5, <1>6, <1>8
  <2>2. narrowed # {} => t = chosen /\ chosen' = chosen
    <3>1. CASE p = {} /\ pins = {} /\ chosen' = IF op' = NoOp THEN t ELSE chosen
      <4> SUFFICES ASSUME narrowed # {}
                   PROVE  t = chosen /\ chosen' = chosen
        OBVIOUS
      <4>1. ticks = {chosen} /\ Resolved
        BY <1>1 DEF JournalKept, Resolved
      <4>2. ticks = {only}
        BY <1>1, <3>1, <4>1 DEF JournalKept
      <4> QED BY <1>8, <2>1, <3>1, <4>1, <4>2
    <3> QED BY <3>1
  <2>3. narrowed = {} => stored = {chosen} /\ only = chosen
    BY <1>1 DEF JournalKept
  <2>4. chosen' = t
    BY <1>8
  <2>5. narrowed = {} => chosen' = chosen
    BY <1>8, <2>1, <2>3, <2>4
  <2>6. JournalKept'
    BY <1>1, <1>2, <1>8, <2>1, <2>2, <2>3, <2>4, <2>5, NoOpKind DEF JournalKept, Calm
  <2> QED BY <1>7, <1>8, <2>6 DEF ChangeKept
<1>9. CASE /\ op'.kind = "ask" /\ op'.files = ToFetch(t, p, Seen) /\ narrowed' = entries'
           /\ \/ Hurried(t, p, Seen) # {} /\ narrowed' = {t}
              \/ Hurried(t, p, Seen) = {} /\ narrowed' = {}
  <2>1. op' # NoOp
    BY <1>9, NoOpKind
  <2>2. chosen' = chosen
    BY <2>1
  <2>3. JournalKept'
    BY <1>1, <1>2, <1>5, <1>9, <2>1, <2>2 DEF JournalKept, Calm
  <2>4. ChangeKept'
    BY <1>2, <1>5, <1>6, <1>9 DEF ChangeKept
  <2> QED BY <1>7, <2>3, <2>4
<1> QED BY <1>2, <1>8, <1>9

LEMMA JournalInit == Init => JInv
<1> SUFFICES ASSUME Init
             PROVE  JInv
  OBVIOUS
<1>1. TypeOK
  BY SelectionAssumption, TheOne DEF Init, TypeOK, NoOp, Maybe, Resolved
<1>2. JournalKept /\ ChangeKept
  BY NoOpKind DEF Init, JournalKept, ChangeKept, Resolved
<1> QED BY <1>1, <1>2 DEF JInv

(* Between two changes the ticks are the chosen ones.                      *)
LEMMA TicksAreChosen ==
  ASSUME JInv, op = NoOp
  PROVE  Ticks = chosen
<1>1. CASE Resolved
  BY <1>1, TheOne DEF JInv, JournalKept, TypeOK, Ticks
<1>2. CASE ~Resolved
  BY <1>2 DEF JInv, JournalKept, Ticks
<1> QED BY <1>1, <1>2

LEMMA JournalStep ==
  ASSUME world.habits = {}, crashes' = 0, JInv, [Next]_vars
  PROVE  JInv'
<1> USE DEF JInv
<1>1. Ticks \in SUBSET Files /\ Seen \in SUBSET Files /\ (Resolved => ticks = {Ticks})
  BY TicksType
<1>2. op = NoOp => Ticks = chosen
  BY TicksAreChosen
<1>3. ASSUME NEW files \in SUBSET Files, NEW wanted \in BOOLEAN,
             SetFileWanted(files, wanted)
      PROVE  JInv'
  <2>1. PICK t \in SUBSET Files :
           /\ Calm /\ MayEdit /\ (pins = {} \/ "edits pinned" \in world.habits)
           /\ Apply(t, pins \intersect t)
           /\ chosen' = IF op' = NoOp THEN t ELSE chosen
           /\ UNCHANGED <<stored, have, up, st, only, crashes>>
    BY <1>3, WantedType
  <2>2. pins = {} /\ pins \intersect t = {} /\ st # "checking"
    BY <2>1 DEF MayEdit
  <2> QED BY <2>1, <2>2, ApplyKeepsJournal
<1>4. ASSUME NEW file \in Files, NEW first \in BOOLEAN, SetFileFirst(file, first)
      PROVE  JInv'
  <2>1. /\ Calm /\ MayEdit
        /\ UNCHANGED <<stored, have, up, st, only, chosen, crashes>>
        /\ \/ ticks' = {Ticks} /\ UNCHANGED <<narrowed, pins, entries, op>>
           \/ \E p \in SUBSET Ticks : Apply(Ticks, p)
    BY <1>4, FirstType
  <2>2. st # "checking" /\ op = NoOp
    BY <2>1 DEF MayEdit, Calm
  <2>3. CASE ticks' = {Ticks} /\ UNCHANGED <<narrowed, pins, entries, op>>
    <3>1. ticks' = {chosen} /\ Resolved' /\ ticks' \in Maybe /\ The(ticks') = chosen
      BY <1>1, <1>2, <2>2, <2>3, TheOne DEF Resolved
    <3>2. pins \subseteq chosen
      BY <1>2, <2>2 DEF TypeOK, Ticks
    <3>3. TypeOK'
      BY <2>1, <2>3, <3>1, <3>2 DEF TypeOK
    <3>4. pins = {} => ticks' = {only}
      BY <2>2, <3>1, <1>1, <1>2 DEF JournalKept
    <3>5. JournalKept' /\ ChangeKept'
      BY <2>1, <2>2, <2>3, <3>1, <3>4 DEF JournalKept, ChangeKept
    <3> QED BY <3>3, <3>5
  <2>4. CASE \E p \in SUBSET Ticks : Apply(Ticks, p)
    BY <1>1, <1>2, <2>1, <2>2, <2>4, ApplyKeepsJournal
  <2> QED BY <2>1, <2>3, <2>4
<1>5. CASE Reconcile
  <2>1. /\ Calm /\ pins # {} /\ Apply(Ticks, pins \ Seen) /\ op = NoOp
        /\ UNCHANGED <<stored, have, up, st, only, chosen, crashes>>
    BY <1>5 DEF Reconcile, Calm
  <2>2. pins \subseteq Ticks
    BY DEF TypeOK, Ticks
  <2>3. Hurried(Ticks, pins \ Seen, Seen) = {} => st # "checking"
    BY <2>1, <2>2 DEF Hurried, Seen
  <2> QED BY <1>1, <1>2, <2>1, <2>2, <2>3, ApplyKeepsJournal
<1>6. CASE Ask
  <2>1. op.kind = "ask" /\ op # NoOp /\ op \in [kind : {"none", "ask", "keep", "rebuild"}, files : SUBSET Files]
    BY <1>6, NoOpKind DEF Ask, TypeOK
  <2>2. CASE st = "checking"
    <3>1. op' = NoOp /\ UNCHANGED <<stored, narrowed, have, only, up, st, ticks, pins, entries, chosen, crashes>>
      BY <1>6, <2>2 DEF Ask, disk
    <3>2. TypeOK'
      BY <3>1 DEF TypeOK, NoOp, Resolved
    <3>3. JournalKept' /\ ChangeKept'
      BY <2>1, <2>2, <3>1, NoOpKind DEF JournalKept, ChangeKept, Resolved
    <3> QED BY <3>2, <3>3
  <2>3. CASE st # "checking"
    <3>1. /\ op' = [op EXCEPT !.kind = "keep"] /\ only' = op.files
          /\ UNCHANGED <<stored, narrowed, have, up, st, ticks, pins, entries, chosen, crashes>>
      BY <1>6, <2>3 DEF Ask, disk
    <3>2. op'.kind = "keep" /\ op'.files = op.files /\ op' # NoOp
          /\ op' \in [kind : {"none", "ask", "keep", "rebuild"}, files : SUBSET Files]
      BY <2>1, <3>1, NoOpKind
    <3>3. TypeOK'
      BY <2>1, <3>1, <3>2 DEF TypeOK, Resolved
    <3>4. JournalKept' /\ ChangeKept'
      BY <2>1, <3>1, <3>2 DEF JournalKept, ChangeKept, Resolved
    <3> QED BY <3>3, <3>4
  <2> QED BY <2>2, <2>3
<1>7. CASE Keep
  <2>1. /\ op.kind = "keep" /\ op # NoOp /\ stored' = {only} /\ op' = NoOp /\ up = "up"
        /\ chosen' = Ticks
        /\ UNCHANGED <<narrowed, have, up, st, only, ticks, pins, entries, crashes>>
    BY <1>7, NoOpKind DEF Keep, JournalKept
  <2>2. Resolved /\ only = op.files /\ ticks = {Ticks} /\ (narrowed = {} => only = Ticks)
    BY <1>1, <2>1 DEF ChangeKept
  <2>3. TypeOK'
    BY <1>1, <2>1, <2>2, TheOne DEF TypeOK, NoOp, Resolved
  <2>4. JournalKept' /\ ChangeKept'
    BY <2>1, <2>2, NoOpKind DEF JournalKept, ChangeKept, Resolved
  <2> QED BY <2>3, <2>4
<1>8. CASE Retry \/ CheckDone \/ Fail
  <2>1. /\ st' \in {"checking", "ready", "failed"}
        /\ st' = "checking" => st = "checking" \/ op = NoOp
        /\ UNCHANGED <<stored, narrowed, have, up, only, ticks, pins, entries, op, chosen, crashes>>
    BY <1>8 DEF Retry, CheckDone, Fail, Calm, disk
  <2>2. TypeOK'
    BY <2>1 DEF TypeOK, Resolved
  <2>3. JournalKept' /\ ChangeKept'
    BY <2>1 DEF JournalKept, ChangeKept, Resolved
  <2> QED BY <2>2, <2>3
<1>9. CASE (\E file \in Files : Land(file)) \/ UNCHANGED vars
  <2>1. /\ have' \subseteq Files
        /\ UNCHANGED <<stored, narrowed, up, st, only, ticks, pins, entries, op, chosen, crashes>>
    BY <1>9 DEF Land, vars, TypeOK
  <2>2. TypeOK'
    BY <2>1 DEF TypeOK, Resolved
  <2>3. JournalKept' /\ ChangeKept'
    BY <2>1 DEF JournalKept, ChangeKept, Resolved
  <2> QED BY <2>2, <2>3
<1>10. ~AddBack /\ ~Start /\ ~Crash /\ \A files \in SUBSET Files : ~Add(files)
  BY DEF JournalKept, AddBack, Start, Load, NothingToRestore, Restore, Flush, Crash,
         Add, TypeOK
<1> QED
  BY <1>3, <1>4, <1>5, <1>6, <1>7, <1>8, <1>9, <1>10, CalmCommands DEF Next

(* The process dies once at a time.                                        *)
LEMMA CrashesCount ==
  ASSUME crashes \in Nat, [Next]_vars
  PROVE  world' = world /\ crashes' \in Nat /\ (crashes' = 0 => crashes = 0)
<1>1. CASE Crash
  BY <1>1 DEF Crash, Next, vars
<1>2. CASE Command
  BY <1>2 DEF Command, SetFileWanted, SetFileFirst, Retry, Recheck, Remove, Add, Next, vars
<1>3. CASE Start
  BY <1>3 DEF Start, Load, NothingToRestore, Restore, Flush, Next, vars
<1>4. CASE Reconcile \/ Ask \/ Keep \/ AddBack \/ CheckDone \/ Fail \/ (\E file \in Files : Land(file))
  BY <1>4 DEF Reconcile, Ask, Keep, AddBack, CheckDone, Fail, Land, Next, vars
<1>5. CASE UNCHANGED vars
  BY <1>5 DEF vars
<1> QED BY <1>1, <1>2, <1>3, <1>4, <1>5 DEF Next

(* Whatever a pin narrows is written down: at every moment a pin is put    *)
(* on, live, or has landed, and through failures and checks of the         *)
(* torrent, the journal and session.json have the user's ticks.            *)
THEOREM PinsLoseNothing == Spec => []NarrowedIsRecoverable
<1> DEFINE IInv == crashes \in Nat /\ (world.habits = {} /\ crashes = 0 => JInv)
<1>1. Init => IInv
  BY JournalInit DEF Init
<1>2. IInv /\ [Next]_vars => IInv'
  <2>1. SUFFICES ASSUME IInv, [Next]_vars
                 PROVE  IInv'
    OBVIOUS
  <2>2. world' = world /\ crashes' \in Nat /\ (crashes' = 0 => crashes = 0)
    BY <2>1, CrashesCount
  <2>3. ASSUME world'.habits = {}, crashes' = 0
        PROVE  JInv'
    BY <2>1, <2>2, <2>3, JournalStep
  <2> QED BY <2>2, <2>3
<1>3. IInv => NarrowedIsRecoverable
  BY NoOpKind DEF JInv, JournalKept, NarrowedIsRecoverable, Recoverable, Widening
<1> QED BY <1>1, <1>2, <1>3, PTL DEF Spec

----------------------------------------------------------------------------
(* A run that may die anywhere: whatever is fetched, stored or written     *)
(* down is ticked.                                                         *)
WithinChoice ==
  /\ stored # {} /\ The(stored) \subseteq chosen
  /\ narrowed # {} => The(narrowed) \subseteq chosen
  /\ entries # {} => The(entries) \subseteq chosen
  /\ op.kind # "keep" => only \subseteq chosen
  /\ op.kind \in {"none", "ask", "keep"} /\ (op.kind = "none" => op = NoOp)

(* What the process knows at each stage of its life.                       *)
Staged ==
  /\ up # "down" => st # "gone" /\ (op.kind # "keep" => stored = {only})
  /\ up = "down" => ~Resolved /\ op = NoOp /\ only = {}
  /\ up = "starting" => ~Resolved /\ op = NoOp
  /\ up \in {"starting", "up"} => entries = narrowed
  /\ up = "restoring" => entries = {}
  /\ op = NoOp /\ up = "up" /\ narrowed # {} =>
        narrowed = ticks /\ (pins = {} => ticks = {only})

(* Only a command in progress has ticks that are not chosen yet, and it is *)
(* not refused.                                                            *)
InProgress ==
  /\ op # NoOp =>
        /\ Resolved /\ op.files \subseteq The(ticks)
        /\ op.kind = "keep" => only = op.files
        /\ narrowed # {} => narrowed = ticks /\ pins # {}
        /\ entries # {} => entries = ticks
  /\ Resolved =>
        \/ The(ticks) \subseteq chosen
        \/ up = "up" /\ op.kind = "keep"
        \/ up = "up" /\ op.kind = "ask" /\ st # "checking"

NInv == TypeOK /\ WithinChoice /\ Staged /\ InProgress

LEMMA ApplyStaysWithin ==
  ASSUME NInv, Calm, NEW t \in SUBSET Files, NEW p \in SUBSET t, Apply(t, p),
         UNCHANGED <<stored, have, up, st, only, crashes>>,
         \/ chosen' = chosen /\ t \subseteq chosen /\ (narrowed # {} => ticks = {t})
         \/ /\ p = {} /\ pins = {} /\ st # "checking"
            /\ chosen' = IF op' = NoOp THEN t ELSE chosen
  PROVE  NInv'
<1> USE DEF NInv
<1>1. op = NoOp /\ up = "up" /\ op.kind = "none"
  BY NoOpKind DEF Calm
<1>2. /\ ticks' = {t} /\ ticks' \in Maybe /\ Resolved' /\ Ticks' = t
      /\ pins' = p /\ narrowed' \in Maybe /\ entries' \in Maybe
      /\ op' \in [kind : {"none", "ask", "keep", "rebuild"}, files : SUBSET Files]
      /\ \/ /\ op' = NoOp /\ ToFetch(t, p, Seen) = only
            /\ narrowed' = narrowed /\ entries' = entries
         \/ /\ op'.kind = "ask" /\ op'.files = ToFetch(t, p, Seen)
            /\ narrowed' = entries'
            /\ \/ Hurried(t, p, Seen) # {} /\ narrowed' = {t}
               \/ Hurried(t, p, Seen) = {} /\ narrowed' = {}
  BY <1>1, ApplyType
<1>3. The(ticks') = t /\ The({t}) = t
  BY <1>2, TheOne
<1>4. Seen \in SUBSET Files /\ p \in SUBSET Files
  BY TicksType
<1>5. /\ Hurried(t, p, Seen) # {} => p # {}
      /\ Hurried(t, p, Seen) = {} => ToFetch(t, p, Seen) = t
      /\ ToFetch(t, p, Seen) \subseteq t
  BY <1>4, FetchType
<1>6. TypeOK'
  BY <1>2, <1>3 DEF TypeOK
<1>7. stored = {only} /\ The(stored) = only /\ only \subseteq chosen
  BY <1>1, TheOne DEF Staged, TypeOK, WithinChoice
<1>8. narrowed # {} => narrowed = ticks /\ (pins = {} => ticks = {only})
  BY <1>1 DEF Staged
<1>9. CASE /\ op' = NoOp /\ ToFetch(t, p, Seen) = only
           /\ narrowed' = narrowed /\ entries' = entries
  <2>1. p = {} => t = only
    BY <1>5, <1>9
  <2>2. chosen' = chosen \/ (chosen' = only /\ t = only)
    BY <1>9, <2>1
  <2>3. only \subseteq chosen' /\ t \subseteq chosen'
    BY <1>7, <1>9, <2>1
  <2>4. narrowed # {} => narrowed = {t}
    BY <1>8, <1>9, <2>1
  <2>5. entries # {} => The(entries) \subseteq chosen'
    BY <1>1, <1>3, <2>3, <2>4 DEF Staged
  <2>6. WithinChoice'
    BY <1>1, <1>3, <1>7, <1>9, <2>3, <2>4, <2>5, NoOpKind DEF WithinChoice
  <2>7. Staged'
    BY <1>1, <1>2, <1>7, <1>9, <2>1, <2>4 DEF Staged, Calm
  <2>8. InProgress'
    BY <1>1, <1>2, <1>3, <1>9, <2>3 DEF InProgress
  <2> QED BY <1>6, <2>6, <2>7, <2>8
<1>10. CASE /\ op'.kind = "ask" /\ op'.files = ToFetch(t, p, Seen) /\ narrowed' = entries'
            /\ \/ Hurried(t, p, Seen) # {} /\ narrowed' = {t}
               \/ Hurried(t, p, Seen) = {} /\ narrowed' = {}
  <2>1. op' # NoOp /\ chosen' = chosen
    BY <1>10, NoOpKind
  <2>2. narrowed' # {} => narrowed' = {t} /\ p # {} /\ t \subseteq chosen
    BY <1>5, <1>10
  <2>3. WithinChoice'
    BY <1>3, <1>7, <1>10, <2>1, <2>2 DEF WithinChoice
  <2>4. Staged'
    BY <1>1, <1>7, <1>10, <2>1 DEF Staged, Calm
  <2>5. InProgress'
    BY <1>1, <1>2, <1>3, <1>5, <1>10, <2>1, <2>2 DEF InProgress
  <2> QED BY <1>6, <2>3, <2>4, <2>5
<1> QED BY <1>2, <1>9, <1>10

LEMMA WithinInit == Init => NInv
<1> SUFFICES ASSUME Init
             PROVE  NInv
  OBVIOUS
<1>1. TypeOK
  BY SelectionAssumption, TheOne DEF Init, TypeOK, NoOp, Maybe, Resolved
<1>2. The(stored) = chosen
  BY TheOne DEF Init
<1>3. WithinChoice /\ Staged /\ InProgress
  BY <1>2, NoOpKind DEF Init, WithinChoice, Staged, InProgress, Resolved
<1> QED BY <1>1, <1>3 DEF NInv

(* The steps of the engine's loop.                                         *)
LEMMA WithinLoop ==
  ASSUME world.habits = {}, NInv, Command \/ Reconcile \/ Ask \/ Keep \/ AddBack
  PROVE  NInv'
<1> USE DEF NInv
<1>1. Ticks \in SUBSET Files /\ Seen \in SUBSET Files /\ (Resolved => ticks = {Ticks})
  BY TicksType
<1>2. op = NoOp => Ticks \subseteq chosen
  BY NoOpKind DEF WithinChoice, InProgress, Ticks
<1>3. op = NoOp /\ up = "up" /\ narrowed # {} => ticks = {Ticks} /\ narrowed = {Ticks}
  BY <1>1 DEF Staged, Resolved
<1>4. ASSUME NEW files \in SUBSET Files, NEW wanted \in BOOLEAN,
             SetFileWanted(files, wanted)
      PROVE  NInv'
  <2>1. PICK t \in SUBSET Files :
           /\ Calm /\ MayEdit /\ (pins = {} \/ "edits pinned" \in world.habits)
           /\ Apply(t, pins \intersect t)
           /\ chosen' = IF op' = NoOp THEN t ELSE chosen
           /\ UNCHANGED <<stored, have, up, st, only, crashes>>
    BY <1>4, WantedType
  <2>2. pins = {} /\ pins \intersect t = {} /\ st # "checking"
    BY <2>1 DEF MayEdit
  <2> QED BY <2>1, <2>2, ApplyStaysWithin
<1>5. ASSUME NEW file \in Files, NEW first \in BOOLEAN, SetFileFirst(file, first)
      PROVE  NInv'
  <2>1. /\ Calm /\ MayEdit
        /\ UNCHANGED <<stored, have, up, st, only, chosen, crashes>>
        /\ \/ ticks' = {Ticks} /\ UNCHANGED <<narrowed, pins, entries, op>>
           \/ \E p \in SUBSET Ticks : Apply(Ticks, p)
    BY <1>5, FirstType
  <2>2. op = NoOp /\ up = "up"
    BY <2>1 DEF Calm
  <2>3. CASE ticks' = {Ticks} /\ UNCHANGED <<narrowed, pins, entries, op>>
    <3>1. Resolved' /\ ticks' \in Maybe /\ The(ticks') = Ticks
      BY <1>1, <2>3, TheOne DEF Resolved
    <3>2. pins \subseteq Ticks
      BY DEF TypeOK, Ticks
    <3>3. TypeOK'
      BY <2>1, <2>3, <3>1, <3>2 DEF TypeOK
    <3>4. WithinChoice' /\ InProgress'
      BY <1>2, <2>1, <2>2, <2>3, <3>1 DEF WithinChoice, InProgress
    <3>5. Staged'
      BY <1>3, <2>1, <2>2, <2>3 DEF Staged
    <3> QED BY <3>3, <3>4, <3>5
  <2>4. CASE \E p \in SUBSET Ticks : Apply(Ticks, p)
    BY <1>1, <1>2, <1>3, <2>1, <2>2, <2>4, ApplyStaysWithin
  <2> QED BY <2>1, <2>3, <2>4
<1>6. CASE Reconcile
  <2>1. /\ Calm /\ Apply(Ticks, pins \ Seen) /\ op = NoOp /\ up = "up"
        /\ UNCHANGED <<stored, have, up, st, only, chosen, crashes>>
    BY <1>6 DEF Reconcile, Calm
  <2>2. pins \subseteq Ticks
    BY DEF TypeOK, Ticks
  <2> QED BY <1>1, <1>2, <1>3, <2>1, <2>2, ApplyStaysWithin
<1>7. CASE Ask
  <2>1. /\ op.kind = "ask" /\ op # NoOp
        /\ op \in [kind : {"none", "ask", "keep", "rebuild"}, files : SUBSET Files]
    BY <1>7, NoOpKind DEF Ask, TypeOK
  <2>2. CASE st = "checking"
    <3>1. op' = NoOp /\ UNCHANGED <<stored, narrowed, have, only, up, st, ticks, pins, entries, chosen, crashes>>
      BY <1>7, <2>2 DEF Ask, disk
    <3>2. TypeOK'
      BY <3>1 DEF TypeOK, NoOp, Resolved
    <3>3. WithinChoice' /\ Staged' /\ InProgress'
      BY <2>1, <2>2, <3>1, NoOpKind DEF WithinChoice, Staged, InProgress, Resolved
    <3> QED BY <3>2, <3>3
  <2>3. CASE st # "checking"
    <3>1. /\ op' = [op EXCEPT !.kind = "keep"] /\ only' = op.files
          /\ UNCHANGED <<stored, narrowed, have, up, st, ticks, pins, entries, chosen, crashes>>
      BY <1>7, <2>3 DEF Ask, disk
    <3>2. op'.kind = "keep" /\ op'.files = op.files /\ op' # NoOp
          /\ op' \in [kind : {"none", "ask", "keep", "rebuild"}, files : SUBSET Files]
      BY <2>1, <3>1, NoOpKind
    <3>3. TypeOK'
      BY <2>1, <3>1, <3>2 DEF TypeOK, Resolved
    <3>4. WithinChoice' /\ Staged' /\ InProgress'
      BY <2>1, <3>1, <3>2 DEF WithinChoice, Staged, InProgress, Resolved
    <3> QED BY <3>3, <3>4
  <2> QED BY <2>2, <2>3
<1>8. CASE Keep
  <2>1. /\ op.kind = "keep" /\ op # NoOp /\ stored' = {only} /\ op' = NoOp
        /\ chosen' = IF up = "up" THEN Ticks ELSE chosen
        /\ UNCHANGED <<narrowed, have, up, st, only, ticks, pins, entries, crashes>>
    BY <1>8, NoOpKind DEF Keep
  <2>2. Resolved /\ only = op.files /\ ticks = {Ticks} /\ The(ticks) = Ticks
        /\ only \subseteq Ticks /\ The(stored') = only
        /\ (narrowed # {} => narrowed = ticks /\ pins # {})
        /\ (entries # {} => entries = ticks) /\ up # "down"
    BY <1>1, <2>1, TheOne DEF InProgress, Staged, Ticks, TypeOK
  <2>3. TypeOK'
    BY <1>1, <2>1, <2>2, TheOne DEF TypeOK, NoOp, Resolved
  <2>4. Ticks \subseteq chosen'
    BY <2>1, <2>2 DEF InProgress
  <2>5. WithinChoice' /\ InProgress'
    BY <2>1, <2>2, <2>4, NoOpKind DEF WithinChoice, InProgress, Resolved
  <2>6. Staged'
    BY <2>1, <2>2 DEF Staged, Resolved
  <2> QED BY <2>3, <2>5, <2>6
<1>9. CASE Retry
  <2>1. /\ st' = "checking" /\ op = NoOp
        /\ UNCHANGED <<stored, narrowed, have, up, only, ticks, pins, entries, op, chosen, crashes>>
    BY <1>9 DEF Retry, Calm, disk
  <2>2. TypeOK'
    BY <2>1 DEF TypeOK, Resolved
  <2>3. WithinChoice' /\ Staged' /\ InProgress'
    BY <2>1, NoOpKind DEF WithinChoice, Staged, InProgress, Resolved
  <2> QED BY <2>2, <2>3
<1>10. ~AddBack /\ \A files \in SUBSET Files : ~Add(files)
  BY DEF WithinChoice, Staged, AddBack, Add, TypeOK
<1> QED
  BY <1>4, <1>5, <1>6, <1>7, <1>8, <1>9, <1>10, CalmCommands

(* The torrent's own steps, the crash and the start.                       *)
LEMMA WithinLife ==
  ASSUME NInv,
         \/ CheckDone \/ Fail \/ (\E file \in Files : Land(file))
         \/ Crash \/ Start \/ UNCHANGED vars
  PROVE  NInv'
<1> USE DEF NInv
<1>1. CASE CheckDone \/ Fail
  <2>1. /\ st' \in {"ready", "failed"} /\ st # "gone"
        /\ UNCHANGED <<stored, narrowed, have, up, only, ticks, pins, entries, op, chosen, crashes>>
    BY <1>1 DEF CheckDone, Fail, disk
  <2>2. TypeOK'
    BY <2>1 DEF TypeOK, Resolved
  <2>3. WithinChoice' /\ Staged' /\ InProgress'
    BY <2>1 DEF WithinChoice, Staged, InProgress, Resolved
  <2> QED BY <2>2, <2>3
<1>2. CASE (\E file \in Files : Land(file)) \/ UNCHANGED vars
  <2>1. /\ have' \subseteq Files
        /\ UNCHANGED <<stored, narrowed, up, st, only, ticks, pins, entries, op, chosen, crashes>>
    BY <1>2 DEF Land, vars, TypeOK
  <2>2. TypeOK'
    BY <2>1 DEF TypeOK, Resolved
  <2>3. WithinChoice' /\ Staged' /\ InProgress'
    BY <2>1 DEF WithinChoice, Staged, InProgress, Resolved
  <2> QED BY <2>2, <2>3
<1>3. CASE Crash
  <2>1. crashes' \in Nat
    BY <1>3 DEF Crash, TypeOK
  <2>2. TypeOK'
    BY <1>3, <2>1 DEF Crash, disk, TypeOK, NoOp, Resolved, Maybe
  <2>3. WithinChoice' /\ Staged' /\ InProgress'
    BY <1>3, NoOpKind DEF Crash, disk, WithinChoice, Staged, InProgress, Resolved
  <2> QED BY <2>2, <2>3
<1>4. CASE Load
  <2>1. /\ up' = "starting" /\ st' = "checking" /\ only' = The(stored)
        /\ entries' = narrowed /\ ~Resolved /\ op = NoOp
        /\ UNCHANGED <<stored, narrowed, have, ticks, pins, op, chosen, crashes>>
    BY <1>4 DEF Load, disk, WithinChoice, Staged
  <2>2. The(stored) \in SUBSET Files /\ stored = {The(stored)}
    BY TheType DEF TypeOK, WithinChoice
  <2>3. TypeOK'
    BY <2>1, <2>2 DEF TypeOK, Resolved
  <2>4. WithinChoice' /\ Staged' /\ InProgress'
    BY <2>1, <2>2, NoOpKind DEF WithinChoice, Staged, InProgress, Resolved
  <2> QED BY <2>3, <2>4
<1>5. CASE NothingToRestore
  <2>1. /\ up = "starting" /\ up' = "up" /\ entries = {} /\ narrowed = {} /\ op = NoOp
        /\ ~Resolved
        /\ UNCHANGED <<stored, narrowed, have, st, only, ticks, pins, entries, op, chosen, crashes>>
    BY <1>5 DEF NothingToRestore, disk, Staged
  <2>2. TypeOK'
    BY <2>1 DEF TypeOK, Resolved
  <2>3. WithinChoice' /\ Staged' /\ InProgress'
    BY <2>1 DEF WithinChoice, Staged, InProgress, Resolved
  <2> QED BY <2>2, <2>3
<1>6. CASE Restore
  <2> DEFINE t == The(entries)
  <2>1. /\ t \in SUBSET Files /\ entries = {t} /\ t \subseteq chosen
        /\ narrowed = {t} /\ op = NoOp /\ up = "starting"
    BY <1>6, TheType DEF Restore, TypeOK, Staged, WithinChoice
  <2>2. /\ up' = "restoring" /\ ticks' = {t} /\ pins' = {} /\ entries' = {}
        /\ UNCHANGED <<stored, have, st, only, chosen, crashes>>
        /\ \/ narrowed' = narrowed /\ op' = op
           \/ narrowed' = {} /\ op' = [kind |-> "ask", files |-> t]
    BY <1>6, <2>1 DEF Restore
  <2> HIDE DEF t
  <2>3. Resolved' /\ The(ticks') = t /\ The({t}) = t /\ ticks' \in Maybe
        /\ {t} \in Maybe /\ {} \in Maybe
    BY <2>1, <2>2, TheOne DEF Resolved, Maybe
  <2>4. TypeOK'
    BY <2>1, <2>2, <2>3 DEF TypeOK
  <2>5. CASE narrowed' = narrowed /\ op' = op
    BY <2>1, <2>2, <2>3, <2>4, <2>5 DEF WithinChoice, Staged, InProgress
  <2>6. CASE narrowed' = {} /\ op' = [kind |-> "ask", files |-> t]
    <3>1. op'.kind = "ask" /\ op'.files = t /\ op' # NoOp
      BY <2>6, NoOpKind
    <3>2. WithinChoice' /\ Staged' /\ InProgress'
      BY <2>1, <2>2, <2>3, <2>6, <3>1, NoOpKind DEF WithinChoice, Staged, InProgress
    <3> QED BY <2>4, <3>2
  <2> QED BY <2>2, <2>5, <2>6
<1>7. CASE Flush
  <2>1. /\ up = "restoring" /\ up' = "up" /\ op = NoOp /\ entries = {} /\ narrowed' = {}
        /\ UNCHANGED <<stored, have, st, only, ticks, pins, entries, op, chosen, crashes>>
    BY <1>7 DEF Flush, Staged
  <2>2. TypeOK'
    BY <2>1 DEF TypeOK, Resolved, Maybe
  <2>3. WithinChoice' /\ Staged' /\ InProgress'
    BY <2>1, NoOpKind DEF WithinChoice, Staged, InProgress, Resolved
  <2> QED BY <2>2, <2>3
<1> QED BY <1>1, <1>2, <1>3, <1>4, <1>5, <1>6, <1>7 DEF Start

(* No file is fetched that was not ticked, wherever the process died, and  *)
(* whatever was pinned or being changed when it did.                       *)
THEOREM OnlyWhatIsTicked == Spec => []NothingUnticked
<1> DEFINE IInv == world.habits = {} => NInv
<1>1. Init => IInv
  BY WithinInit
<1>2. IInv /\ [Next]_vars => IInv'
  <2>1. SUFFICES ASSUME IInv, [Next]_vars, world'.habits = {}
                 PROVE  NInv'
    OBVIOUS
  <2>2. NInv /\ world.habits = {}
    BY <2>1 DEF Next, vars
  <2> QED BY <2>1, <2>2, WithinLoop, WithinLife DEF Next
<1>3. IInv => NothingUnticked
  BY NoOpKind DEF NInv, WithinChoice, NothingUnticked
<1> QED BY <1>1, <1>2, <1>3, PTL DEF Spec
=============================================================================
