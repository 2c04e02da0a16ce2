----------------------------- MODULE AdmitLoop ------------------------------
(***************************************************************************)
(* The loop of `admit` (zerem-core/src/queue.rs) one torrent at a time,    *)
(* against what it is meant to compute, Admitted.                          *)
(***************************************************************************)
EXTENDS Admit

CONSTANTS
  Inputs,       \* the sets of torrents the queue may be shown
  Caps

VARIABLES
  waiting,      \* the arguments, the second being the limit
  most,
  rest,         \* what is left of `order`
  admitted,     \* what the returned list holds
  downloading   \* how many of them are downloads

loopVars == <<waiting, most, rest, admitted, downloading>>

(* The engine shows the queue each of its torrents once.                   *)
IsLine(torrents) ==
  /\ torrents \subseteq Waiting
  /\ IsFiniteSet(torrents)
  /\ \A v, w \in torrents : v.id = w.id => v = w

Wanted == {w \in waiting : w.wanted}

LoopTypeOK ==
  /\ IsLine(waiting)
  /\ most \in Caps \cap Nat
  /\ rest \subseteq Wanted
  /\ admitted \subseteq {w.id : w \in Wanted}
  /\ downloading \in Nat

LoopInit ==
  /\ waiting \in Inputs /\ IsLine(waiting)
  /\ most \in Caps \cap Nat
  /\ rest = Wanted
  /\ admitted = {}
  /\ downloading = 0

(* The order is sorted, so the next torrent is the first of those left.    *)
First(w) == w \in rest /\ \A v \in rest : v = w \/ Before(w, v)

(* Mutant: one too many.                                                   *)
HasRoom_OffByOne == most = 0 \/ downloading <= most

HasRoom == most = 0 \/ downloading < most

(* Seeding is free of the limit and free of the queue.                    *)
TakeComplete(w) ==
  /\ First(w)
  /\ w.complete
  /\ rest' = rest \ {w}
  /\ admitted' = admitted \union {w.id}
  /\ UNCHANGED <<waiting, most, downloading>>

TakeDownload(w) ==
  /\ First(w)
  /\ ~w.complete
  /\ rest' = rest \ {w}
  /\ IF HasRoom
     THEN /\ admitted' = admitted \union {w.id}
          /\ downloading' = downloading + 1
     ELSE UNCHANGED <<admitted, downloading>>
  /\ UNCHANGED <<waiting, most>>

LoopNext == \E w \in rest : TakeComplete(w) \/ TakeDownload(w)

LoopSpec == LoopInit /\ [][LoopNext]_loopVars

----------------------------------------------------------------------------
(* The loop is over with the torrents that have fewer downloads than the   *)
(* limit before them, and the complete ones: `admit` returns Admitted.     *)
Correct == rest = {} => admitted = Admitted(waiting, most)

Downloads == {w \in waiting : w.id \in admitted /\ ~w.complete}

(* At every turn of the loop, no more downloads are let in than the limit. *)
WithinLimit == most # 0 => Cardinality(Downloads) <= most

(* Nobody waits while there is a place: when the loop leaves a torrent     *)
(* out, as many downloads as may run are before it in the line.            *)
PlacesAreFilled ==
  rest = {} =>
    \A w \in Wanted : w.id \notin admitted =>
      /\ most # 0
      /\ Cardinality({v \in Downloads : Before(v, w)}) = most

(* admit() returns the torrents the rule names, lets in no more than the   *)
(* limit at any turn of its loop, and leaves nobody waiting while there is *)
(* a place (zerem-core/queue.rs).                                          *)
AdmitIsRight == LoopTypeOK /\ Correct /\ WithinLimit /\ PlacesAreFilled
=============================================================================
