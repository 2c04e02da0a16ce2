------------------------------- MODULE MCParts -------------------------------
(* One part of the system at a time, on its own: the loop of the queue     *)
(* rule, the files of a move; and of the window, the list of files, the    *)
(* figures, the rows and shelves.                                          *)
EXTENDS AdmitLoop, Carry, Files, Figures, Listing

VARIABLE part

all == <<part, loopVars, carryVars, panelVars, figureVars, tableVars>>

----------------------------------------------------------------------------
(* Every line of up to three torrents, two of which may share a position.  *)
Shapes == [position : {-1, 0}, wanted : BOOLEAN, complete : BOOLEAN]

Line(f) ==
  {[id |-> i, position |-> f[i].position, wanted |-> f[i].wanted, complete |-> f[i].complete] :
     i \in DOMAIN f}

MCInputs == {Line(f) : f \in UNION {[0 .. k -> Shapes] : k \in 0 .. 2}}

(* Three files move, each in a folder inside that of the one before.       *)
MCDepth == <<0, 1, 2>>

(* `Disc 1`, `Disc 10` and a file between them; one torrent more.          *)
MCLibrary ==
  << << <<<<1, 0>>, <<2>>>>, <<<<1>>, <<4>>, <<3>>>>, <<<<1>>, <<1>>>> >>,
     << <<<<3>>>>, <<<<1>>, <<2>>>>, <<<<2>>>> >> >>

MCHabits ==
  {{"ticks", "folders"}, {"pins", "ticks", "lands"}, {"switches", "ticks", "pins"},
   {"opens", "menu", "folders", "lands"}}

ASSUME TreeAssumption == IsLibrary

(* Amounts about where a unit, a figure or a per cent ends.                *)
MCAmounts ==
  {0, 1, 1023, 1024, 10234, 10239, 10240, 102399, 102400, 1047552, 1048575, 1048576, 2000000}

MCFigureWorlds ==
  {{"rates", "lulls"}, {"lulls", "peers", "states", "guesses"}, {"metadata", "lulls", "states"},
   {"hides", "commands", "rates"}, {"rates", "uploads"}, {"amounts"},
   {"lulls", "states", "queues", "guesses"}}

(* A film with something else, a tie of two kinds, a record; two of them   *)
(* have one name.  A shelf is typed in two spellings.                      *)
File(kind, bytes) == [kind |-> kind, len |-> bytes]
Shelf(key, as)    == [key |-> key, as |-> as]

MCCatalogue == <<
  [name |-> [at |-> 2, has |-> {"a", "b"}], files |-> <<File("video", 4), File("other", 2)>>],
  [name |-> [at |-> 1, has |-> {"a"}], files |-> <<File("audio", 3), File("video", 3)>>],
  [name |-> [at |-> 2, has |-> {"b"}], files |-> <<File("audio", 6)>>] >>

MCTypedShelves == {Shelf("", ""), Shelf("tv", "TV"), Shelf("tv", "tv"), Shelf("films", "Films")}

MCQueries == {{}, {"a"}, {"a", "b"}}

MCTableWorlds ==
  {{"adds", "shelves", "removes"}, {"adds", "moves", "clicks"},
   {"adds", "magnets", "clicks", "types"}, {"adds", "types", "swaps", "clicks"},
   {"adds", "types", "shelves", "removes"}}

----------------------------------------------------------------------------
(* The parts that are not checked start in one of their states and stay.   *)
MCInit ==
  /\ part \in {"loop", "move", "files", "figures", "table"}
  /\ LoopInit
  /\ part # "loop" =>
       waiting = {[id |-> 0, position |-> 0, wanted |-> TRUE, complete |-> TRUE]} /\ most = 0
  /\ IF part = "move" THEN CarryInit
     ELSE /\ from = [f \in 1 .. 3 |-> "mine"] /\ to = [f \in 1 .. 3 |-> "none"]
          /\ dirs = {0, 1, 2} /\ at = "idle" /\ n = 1 /\ done = {} /\ todo = {}
          /\ result = "none" /\ before = [from |-> from, to |-> to] /\ tries = 0 /\ mishaps = {}
  /\ PanelInit
  /\ part # "files" => world = {"ticks", "folders"}
  /\ FiguresInit
  /\ part # "figures" => ways = {"amounts"}
  /\ TableInit
  /\ part # "table" => habit = {"adds", "moves", "clicks"}

Looping(step) ==
  part = "loop" /\ step /\ UNCHANGED <<part, carryVars, panelVars, figureVars, tableVars>>
Moving(step) ==
  part = "move" /\ step /\ UNCHANGED <<part, loopVars, panelVars, figureVars, tableVars>>
Pressing(step) ==
  part = "files" /\ step /\ UNCHANGED <<part, loopVars, carryVars, figureVars, tableVars>>
Drawing(step) ==
  part = "figures" /\ step /\ UNCHANGED <<part, loopVars, carryVars, panelVars, tableVars>>
Sorting(step) ==
  part = "table" /\ step /\ UNCHANGED <<part, loopVars, carryVars, panelVars, figureVars>>

MCNext ==
  \/ Looping(LoopNext) \/ Moving(CarryNext)
  \/ Pressing(PanelNext) \/ Drawing(FiguresNext) \/ Sorting(TableNext)

MCSpec == MCInit /\ [][MCNext]_all

(* The list of files is the torrent's tree with what shut folders hide     *)
(* left out, a folder's box says what is ticked below it, and a press on   *)
(* it ticks that and nothing else (tree.rs, detail.rs).                    *)
TreeIsRight ==
  /\ [](part = "files" => PanelTypeOK /\ TreeIsWhole /\ FoldersAddUp)
  /\ FolderTicksItsFiles
=============================================================================
