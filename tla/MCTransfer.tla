----------------------------- MODULE MCTransfer -----------------------------
(***************************************************************************)
(* Three schedules, one that does not parse, one too long to be declared   *)
(* and one longer than it declares.                                        *)
(***************************************************************************)
EXTENDS Transfer

Chosen   == [link |-> Blobs \ {"third"}, writes |-> {"second"},
             flash |-> {"first", "second", "third"}]
Lengths  == [b \in Blobs |-> CASE b \in {"huge", "longer"} -> 3
                              [] b = "second" -> 2
                              [] OTHER -> 1]
Promises == [b \in Blobs |-> IF b = "longer" THEN 1 ELSE Lengths[b]]
Counts   == [b \in Blobs |-> IF b \in {"first", "third"} THEN 2 ELSE 1]

=============================================================================
