--------------------------- MODULE MCRequestLimits ---------------------------
(***************************************************************************)
(* An instance of RequestLimits for TLC.                                   *)
(***************************************************************************)
EXTENDS RequestLimits

BothBuckets  == {Keys}
OtherBuckets == {{}}   \* a route whose own buckets are not in the picture
OneAndTwo    == [k \in Keys |-> IF k = 1 THEN 1 ELSE 2]
OneAndThree  == [k \in Keys |-> IF k = 1 THEN 1 ELSE 3]

=============================================================================
