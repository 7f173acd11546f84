------------------------ MODULE MCLatestPositionView ------------------------
(* Vessels on a line of longitudes, one window at three scales.            *)
EXTENDS LatestPositionView, TLC

CONSTANTS t1, t2, v1, v2

At(v, x, h) == [vessel |-> v, loc |-> [x |-> x, y |-> 0], hdg |-> h]

Window(s) == [origin |-> [x |-> 0, y |-> 0], scale |-> s,
              width |-> 3, height |-> 3, margin |-> 1]

\* The position 9 is outside the first window and inside the second one.
MCViewports == {Window(2), Window(4)}

\* For one thread: v1 drifts by one pixel and by two, turns, and leaves the window.
SerialPositions ==
  {At(v1, 0, 0), At(v1, 3, 5), At(v1, 5, 0), At(v1, 5, 6), At(v1, 9, 0), At(v2, 0, 0)}

\* For two threads: v1 turns within the tolerance, and leaves the first window or
\* moves by one pixel in the second one; v2 is a second key of the map.
ConcurrentPositions == {At(v1, 0, 0), At(v1, 9, 5), At(v2, 0, 0)}

ConcurrentViewports == {Window(2), Window(5)}

MCSymmetry == Permutations(Threads)
=============================================================================
