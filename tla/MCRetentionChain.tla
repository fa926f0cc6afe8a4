--------------------------- MODULE MCRetentionChain ---------------------------
EXTENDS RetentionChain

CONSTANTS index, image, note

NoEdges == [children |-> [v \in Versions |-> {}], subject |-> [v \in Versions |-> None]]

(* An attestation of the image, and the index that wraps the attestation.  *)
Attested == [NoEdges EXCEPT !.subject[note] = image]
Wrapped == [Attested EXCEPT !.children[index] = {note}]

MCGraphs == {Wrapped}
===============================================================================
