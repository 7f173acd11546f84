---------------------------- MODULE MCTrackStore ----------------------------
(* Two vessels, each with two identifiers that may come back.              *)
EXTENDS TrackStore

MCIdsOf(v) == {10 * v, 10 * v + 1}
=============================================================================
