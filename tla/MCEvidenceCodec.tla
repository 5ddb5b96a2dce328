--------------------------- MODULE MCEvidenceCodec ---------------------------
(* A finite instance of EvidenceCodec: two container attributes, a list of   *)
(* columns and two identifiers.                                              *)
EXTENDS EvidenceCodec

CONSTANTS attr1, attr2, cols, id1, id2

MCValues == {attr1, attr2, cols, id1, id2}
MCNamespace == [v \in MCValues |-> IF v \in {attr1, attr2} THEN "attributes"
                                   ELSE IF v = cols THEN "columns" ELSE "id"]
MCWeight == [v \in MCValues |-> IF v \in {id1, id2} THEN 1 ELSE IF v = cols THEN 4 ELSE 3]
\* id1 is too short to be worth a definition.
MCDefinable == MCValues \ {id1}
MCRecords ==
  {[slots |-> <<attr1>>, packed |-> FALSE, size |-> 4],
   [slots |-> <<attr2, id1>>, packed |-> TRUE, size |-> 5],
   [slots |-> <<cols, attr1>>, packed |-> TRUE, size |-> 8],
   [slots |-> <<attr2>>, packed |-> FALSE, size |-> 10],
   [slots |-> <<id2, id2>>, packed |-> FALSE, size |-> 3]}
=============================================================================
