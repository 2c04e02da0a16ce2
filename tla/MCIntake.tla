------------------------------- MODULE MCIntake ------------------------------
(* Two torrents, of two files and of one; a link to each and a broken one. *)
EXTENDS Intake, TLC

CONSTANTS t1, t2, m1, m2, bad

MCOf   == m1 :> t1 @@ m2 :> t2 @@ bad :> None
MCRows == t1 :> 2 @@ t2 :> 1
=============================================================================
