------------------------ MODULE MCMapdbPositionStore ------------------------
(* A period with both bounds, as a change of identity cuts it, the whole   *)
(* time of one identifier, and the latest positions.                       *)
EXTENDS MapdbPositionStore

MCQueries ==
  {[kind |-> "vessel", id |-> 1, lower |-> 1, hasLower |-> TRUE, upper |-> 2, hasUpper |-> TRUE],
   [kind |-> "area", id |-> 1, lower |-> 1, hasLower |-> FALSE, upper |-> 1, hasUpper |-> FALSE],
   [kind |-> "latest", id |-> 1, lower |-> 1, hasLower |-> TRUE, upper |-> 1, hasUpper |-> FALSE]}

LatestOnly == {q \in MCQueries : q.kind = "latest"}
=============================================================================
