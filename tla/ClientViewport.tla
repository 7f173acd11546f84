--------------------------- MODULE ClientViewport ---------------------------
(***************************************************************************)
(* The arithmetic of DefaultLatestPositionView: where a location falls on  *)
(* the screen of a client, and when two positions look the same there.     *)
(*                                                                         *)
(* A viewport carries a projection and the matrix the browser sends.  Both *)
(* are abstracted to an origin and a scale: a location that is             *)
(* d = loc.x - vp.origin.x away from the origin falls at d / vp.scale      *)
(* pixels, a rational number, as dst.x is a double.                        *)
(***************************************************************************)
EXTENDS Integers

\* Degrees of heading and pixels of distance a client is not told about.
HEADING_TOLERANCE == 5
PIXEL_TOLERANCE == 1

Distance(a, b) == IF a >= b THEN a - b ELSE b - a

\* Guava's DoubleMath.fuzzyEquals: no notion of an angle, 359 and 1 differ by 358.
FuzzyEquals(a, b, tolerance) == Distance(a, b) <= tolerance

\* The cast (int) of the double n / d, d > 0: truncation towards zero.
Truncate(n, d) == IF n >= 0 THEN n \div d ELSE -((-n) \div d)

MinX(vp) == -vp.margin
MinY(vp) == -vp.margin
MaxX(vp) == vp.width + vp.margin
MaxY(vp) == vp.height + vp.margin

\* Visibility is decided on the double, the pixel coordinates are truncated.
LocatePixel(vp, loc) ==
  LET dx == loc.x - vp.origin.x
      dy == loc.y - vp.origin.y
  IN  [x |-> Truncate(dx, vp.scale),
       y |-> Truncate(dy, vp.scale),
       visible |-> ~ \/ dx < MinX(vp) * vp.scale
                     \/ dx > MaxX(vp) * vp.scale
                     \/ dy < MinY(vp) * vp.scale
                     \/ dy > MaxY(vp) * vp.scale]

IsDifferentThan(pixel, other) ==
  \/ pixel.visible # other.visible
  \/ Distance(pixel.x, other.x) > PIXEL_TOLERANCE
  \/ Distance(pixel.y, other.y) > PIXEL_TOLERANCE

Location == [x : Int, y : Int]

ClientPixel == [x : Int, y : Int, visible : BOOLEAN]

Viewport == [origin : Location, scale : Nat \ {0},
             width : Nat, height : Nat, margin : Nat]
=============================================================================
