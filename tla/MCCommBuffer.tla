---------------------------- MODULE MCCommBuffer ----------------------------
(***************************************************************************)
(* Small instances of CommBuffer.  Lengths are in units of one entry       *)
(* header: a signal has 1 unit, a list (obstacles, player types) 3.  Two   *)
(* contents of equal length differ in their checksum, two do not.          *)
(***************************************************************************)
EXTENDS CommBuffer

MCData == {"signal", "stop", "stop2", "list", "foreign"}
MCSize == [d \in MCData |-> IF d = "list" THEN 3 ELSE 1]
MCSum == [d \in MCData |-> CASE d = "signal" -> 1 [] d = "list" -> 3 [] OTHER -> 2]

(* putRefboxSignal: reliable, important *)
Signal == [data |-> "signal", reliable |-> TRUE, prio |-> 0]
Stop == [data |-> "stop", reliable |-> TRUE, prio |-> 0]
(* putPlayerTypeList: reliable, normal *)
List == [data |-> "list", reliable |-> TRUE, prio |-> 1]
(* putMessage: unreliable, normal *)
Plain == [data |-> "stop", reliable |-> FALSE, prio |-> 1]
(* putObstacleLocation: unreliable, optional *)
Optional == [data |-> "list", reliable |-> FALSE, prio |-> 2]
(* a message of a program version with other tags *)
Unknown == [data |-> "foreign", reliable |-> FALSE, prio |-> 0]

LettersOneWay == {Stop, Unknown}
LettersTwoWay == {Stop, Optional}
LettersPacking == {Signal, List, Plain}

NrTwoNone == [n \in Node |-> IF n = Robot THEN 2 ELSE 0]
NrThreeNone == [n \in Node |-> IF n = Robot THEN 3 ELSE 0]
NrOneOne == [n \in Node |-> 1]
=============================================================================
