---------------------------- MODULE MCSelection -----------------------------
(* A user who leaves a pinned torrent alone, in a process that dies twice, *)
(* and one with more habits in a process that lives.                       *)
EXTENDS Selection

MCWorlds ==
  {[habits |-> {}, crashes |-> 2],
   [habits |-> {"edits pinned", "rechecks", "removes"}, crashes |-> 0]}
=============================================================================
