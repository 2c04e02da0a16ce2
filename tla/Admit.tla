------------------------------- MODULE Admit --------------------------------
(***************************************************************************)
(* Which torrents should be running, given how many may download at once   *)
(* (zerem-core/src/queue.rs).  A torrent is what the queue sees of it: its *)
(* id, its position, whether the user wants it running and whether it is   *)
(* complete.  AdmitLoop checks that the loop in the code computes this.    *)
(***************************************************************************)
EXTENDS Integers, FiniteSets

Waiting == [id : Nat, position : Int, wanted : BOOLEAN, complete : BOOLEAN]

(* The order of the line: by position, then by id.                         *)
Before(v, w) ==
  \/ v.position < w.position
  \/ v.position = w.position /\ v.id < w.id

(* The downloads that stand before w: only they count against the limit.   *)
Ahead(w, waiting) ==
  {v \in waiting : v.wanted /\ ~v.complete /\ Before(v, w)}

(* Mutant: one download too many.                                          *)
Admitted_OffByOne(waiting, limit) ==
  {w.id : w \in {v \in waiting :
      /\ v.wanted
      /\ v.complete \/ limit = 0 \/ Cardinality(Ahead(v, waiting)) <= limit}}

(* A limit of zero is no limit, and a complete torrent does not wait.      *)
Admitted(waiting, limit) ==
  {w.id : w \in {v \in waiting :
      /\ v.wanted
      /\ v.complete \/ limit = 0 \/ Cardinality(Ahead(v, waiting)) < limit}}
=============================================================================
