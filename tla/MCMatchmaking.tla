--------------------------- MODULE MCMatchmaking ----------------------------
(***************************************************************************)
(* Values for Matchmaking: four tickets ask for "duel", two of them of one *)
(* account, and two for "arena", whose digest sorts first.                 *)
(***************************************************************************)
EXTENDS Matchmaking

MCAccount == [t \in Tickets |->
    CASE t \in {"t1", "t2"} -> "ann" [] t \in {"t3", "t5"} -> "bob" [] OTHER -> "cid"]
MCCriteria == [t \in Tickets |-> IF t \in {"t5", "t6"} THEN "arena" ELSE "duel"]
MCTtl == [t \in Tickets |-> IF t \in {"t1", "t4"} THEN 2 ELSE 1]
MCCriteriaOrder == <<"arena", "duel">>
=============================================================================
