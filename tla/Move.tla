--------------------------------- MODULE Move --------------------------------
(***************************************************************************)
(* What carrying a finished download promises its caller                   *)
(* (zerem-engine/relocate.rs): on success the files are at their           *)
(* destinations; on a fault nothing has changed, if what undoes a move     *)
(* works; and at no moment, not even when the process dies half way, is a  *)
(* file nowhere in full.                                                   *)
(***************************************************************************)
CONSTANT Files     \* the files of the torrent that moves

VARIABLES
  place,      \* where each file is in full: at "from", at "to", at both
  before,     \* where each was when the move was asked for
  outcome,    \* "none" before the first, "running", "moved", "refused", "died"
  clean       \* no call whose result is thrown away ever fails

vars == <<place, before, outcome, clean>>

Anywhere == SUBSET {"from", "to"}

TypeOK ==
  /\ place \in [Files -> Anywhere]
  /\ before \in [Files -> Anywhere]
  /\ outcome \in {"none", "running", "moved", "refused", "died"}
  /\ clean \in BOOLEAN

Init ==
  /\ place \in [Files -> Anywhere]
  /\ before = place
  /\ outcome = "none"
  /\ clean \in BOOLEAN

Ask ==
  /\ outcome # "running"
  /\ outcome' = "running"
  /\ before' = place
  /\ UNCHANGED <<place, clean>>

(* Files go one by one, in any order, and none is ever without a copy.     *)
Shift ==
  /\ outcome = "running"
  /\ \E f \in Files, p \in Anywhere :
       /\ place[f] # {} => p # {}
       /\ place[f] = {} => p = {}
       /\ place' = [place EXCEPT ![f] = p]
  /\ UNCHANGED <<before, outcome, clean>>

Succeed ==
  /\ outcome = "running"
  /\ \A f \in Files : before[f] # {} => "to" \in place[f]
  /\ outcome' = "moved"
  /\ UNCHANGED <<place, before, clean>>

Refuse ==
  /\ outcome = "running"
  /\ clean => place = before
  /\ outcome' = "refused"
  /\ UNCHANGED <<place, before, clean>>

Die ==
  /\ outcome = "running"
  /\ outcome' = "died"
  /\ UNCHANGED <<place, before, clean>>

Next == Ask \/ Shift \/ Succeed \/ Refuse \/ Die

Spec == Init /\ [][Next]_vars
=============================================================================
