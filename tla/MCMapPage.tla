------------------------------ MODULE MCMapPage ------------------------------
(* The page, opened twice, beside another map with an id of its own.       *)
EXTENDS MapPage

CONSTANTS a, main, other, o

MCRequests == {"css", "vessels"} \cup Resizes \cup OtherRequests
=============================================================================
