----------------------- MODULE MCLatestPositionService -----------------------
(* One or two profiles, two views, two or three reports.                   *)
EXTENDS LatestPositionService

CONSTANTS a, v1, v2, n1, n2, u, none
=============================================================================
