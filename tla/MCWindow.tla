------------------------------ MODULE MCWindow ------------------------------
(* Two torrents, named against the order of their ids, and one more that   *)
(* the watched folder may bring.                                           *)
EXTENDS Window

MCLibrary == <<2, 1>>

MCWorlds ==
  {{"selects", "runs"}, {"selects", "drawer", "ticks"}, {"selects", "ticks", "drops"},
   {"selects", "types", "removes"}, {"shelves", "removes"}, {"arrows", "menus", "drops"},
   {"sorts", "shows", "runs"}, {"sorts", "ends"}, {"hides", "runs"}, {"hides", "ends"},
   {"covers", "runs"}, {"covers", "ends"}}

(* The torrent the drawer shows is removed, and another row is clicked.    *)
MCRemoving == {{"selects", "removes"}}
=============================================================================
