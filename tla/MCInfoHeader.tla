---------------------------- MODULE MCInfoHeader ----------------------------
(***************************************************************************)
(* Model for InfoHeader: four tier ids in the route, three labels, and     *)
(* four tag ids the query may answer, among them 0 (the falsy number whose *)
(* toString "0" is truthy) and ids equal to route tier ids.                *)
(***************************************************************************)
EXTENDS InfoHeader

MCTagIds == {0, 1, 2, 3}
MCNumToString == [n \in MCTagIds |-> CASE n = 0 -> "0" [] n = 1 -> "1"
                                       [] n = 2 -> "2" [] n = 3 -> "3"]
=============================================================================
