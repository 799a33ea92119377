-------------------------------- MODULE PLR --------------------------------
(***************************************************************************)
(* rolex/plr.hpp: the optimal piecewise linear regression, on exact        *)
(* integers and fractions (the code uses 128-bit integers for the hulls    *)
(* and long double for the line). A segment in the making is               *)
(*                                                                         *)
(*    opt = [num, rect, upper, lower, us, ls]                              *)
(*                                                                         *)
(* num is points_in_hull, rect the four corners rectangle[0..3], upper and *)
(* lower the two hulls, us and ls where they start. Points are <<x, y>>.   *)
(***************************************************************************)
EXTENDS Integers, Sequences

\* operator- on points: the slope from q to p
Minus(p, q) == [dx |-> p[1] - q[1], dy |-> p[2] - q[2]]

\* operator<, > and == on slopes, by the products
Flatter(s, t) == s.dy * t.dx < s.dx * t.dy
Steeper(s, t) == s.dy * t.dx > s.dx * t.dy
Parallel(s, t) == s.dy * t.dx = s.dx * t.dy

cross(O, A, B) ==
  LET OA == Minus(A, O)
      OB == Minus(B, O)
  IN  OA.dx * OB.dy - OA.dy * OB.dx

NewSegment ==
  [num |-> 0, rect |-> [c \in 0 .. 3 |-> <<0, 0>>],
   upper |-> <<>>, lower |-> <<>>, us |-> 1, ls |-> 1]

\* The scan for an extreme slope: the hull is followed from `start` on as long as
\* the slope to p does not get worse.
Extreme(hull, start, p, Worse(_, _)) ==
  LET stops == {i \in start .. Len(hull) :
                  \/ i = Len(hull)
                  \/ Worse(Minus(hull[i + 1], p), Minus(hull[i], p))}
  IN  CHOOSE i \in stops : \A j \in stops : i <= j

\* The hull update: the end of the hull goes as long as p makes it a bad corner,
\* then p is appended.
HullWith(hull, start, p, Bad(_)) ==
  LET ends == {e \in 1 .. Len(hull) :
                 \/ e <= start
                 \/ ~ Bad(cross(hull[e - 1], hull[e], p))}
      end == CHOOSE e \in ends : \A f \in ends : e >= f
  IN  Append(SubSeq(hull, 1, end), p)

\* A corner that p makes no corner of the lower hull, of the upper hull
BadLower(c) == c >= 0
BadUpper(c) == c <= 0

\* faulty: the slopes of the rectangle never tightened
UpperUntouched(opt, p1) == opt

\* p1 lies below the steepest line: that line turns down to p1.
UpperTightened(opt, p1) ==
  LET i == Extreme(opt.lower, opt.ls, p1, Steeper)
  IN  IF Flatter(Minus(p1, opt.rect[1]), Minus(opt.rect[3], opt.rect[1]))
        THEN [opt EXCEPT !.rect[1] = opt.lower[i], !.rect[3] = p1, !.ls = i,
                         !.upper = HullWith(@, opt.us, p1, BadUpper)]
        ELSE opt

\* p2 lies above the flattest line: that line turns up to p2.
LowerTightened(opt, p2, slope1) ==
  LET i == Extreme(opt.upper, opt.us, p2, Flatter)
  IN  IF Steeper(Minus(p2, opt.rect[0]), slope1)
        THEN [opt EXCEPT !.rect[0] = opt.upper[i], !.rect[2] = p2, !.us = i,
                         !.lower = HullWith(@, opt.ls, p2, BadLower)]
        ELSE opt

\* y +- epsilon; y is unsigned, so y - epsilon stops at 0
Over(x, y, epsilon) == <<x, y + epsilon>>
Under(x, y, epsilon) == <<x, IF y <= epsilon THEN 0 ELSE y - epsilon>>

\* Whether add_point takes the point (x, y): neither of the two extreme lines
\* passes on the wrong side of it.
Takes(opt, x, y, epsilon) ==
  LET p1 == Over(x, y, epsilon)
      p2 == Under(x, y, epsilon)
  IN  \/ opt.num < 2
      \/ /\ ~ Flatter(Minus(p1, opt.rect[2]), Minus(opt.rect[2], opt.rect[0]))
         /\ ~ Steeper(Minus(p2, opt.rect[3]), Minus(opt.rect[3], opt.rect[1]))

\* add_point, when it takes the point
add_point(opt, x, y, epsilon) ==
  LET p1 == Over(x, y, epsilon)
      p2 == Under(x, y, epsilon)
  IN  CASE opt.num = 0 ->
             [num |-> 1, rect |-> [opt.rect EXCEPT ![0] = p1, ![1] = p2],
              upper |-> <<p1>>, lower |-> <<p2>>, us |-> 1, ls |-> 1]
        [] opt.num = 1 ->
             [opt EXCEPT !.num = 2, !.rect[2] = p2, !.rect[3] = p1,
                         !.upper = Append(@, p1), !.lower = Append(@, p2)]
        [] OTHER ->
             [LowerTightened(UpperTightened(opt, p1), p2,
                             Minus(opt.rect[2], opt.rect[0]))
                EXCEPT !.num = @ + 1]
-----------------------------------------------------------------------------
\* get_intersection: where the two extreme lines meet, as <<x, y, d>> for the
\* point (x/d, y/d)
get_intersection(rect) ==
  LET s1 == Minus(rect[2], rect[0])
      s2 == Minus(rect[3], rect[1])
      d == Minus(rect[1], rect[0])
      a == s1.dx * s2.dy - s1.dy * s2.dx
      b == d.dx * s2.dy - d.dy * s2.dx
  IN  IF Parallel(s1, s2) THEN <<rect[0][1], rect[0][2], 1>>
      ELSE <<rect[0][1] * a + b * s1.dx, rect[0][2] * a + b * s1.dy, a>>

gcd[p \in Nat \X Nat] ==
  IF p[2] = 0 THEN p[1] ELSE gcd[<<p[2], p[1] % p[2]>>]

\* x/d as a record of its lowest terms
Lowest(x, d) == LET g == gcd[<<IF x < 0 THEN -x ELSE x, d>>]
                IN  [n |-> IF x < 0 THEN -((-x) \div g) ELSE x \div g,
                     d |-> d \div g]

\* get_slope_intercept: the line through the intersection with the mean of the two
\* extreme slopes; a single point gives a flat line.
get_slope_intercept(opt) ==
  LET s1 == Minus(opt.rect[2], opt.rect[0])
      s2 == Minus(opt.rect[3], opt.rect[1])
      slope == Lowest(s1.dy * s2.dx + s2.dy * s1.dx, 2 * s1.dx * s2.dx)
      i == get_intersection(opt.rect)
      intercept == Lowest(i[2] * slope.d - i[1] * slope.n, i[3] * slope.d)
  IN  IF opt.num = 1
        THEN [num |-> 0, den |-> 1,
              icn |-> (opt.rect[0][2] + opt.rect[1][2]) \div 2, icd |-> 1]
        ELSE [num |-> slope.n, den |-> slope.d,
              icn |-> intercept.n, icd |-> intercept.d]
-----------------------------------------------------------------------------
(***************************************************************************)
(* What the algorithm is there for, with no hull in it: a line within      *)
(* epsilon of every point exists. A line meets a set of vertical bars as   *)
(* soon as every three of them can be met (Helly), and three can when the  *)
(* middle one reaches up to the chord below and down to the chord above.   *)
(***************************************************************************)
Fits(points, epsilon) ==
  \A i, j, k \in DOMAIN points :
    i < j /\ j < k =>
      LET up(n) == Over(points[n][1], points[n][2], epsilon)
          down(n) == Under(points[n][1], points[n][2], epsilon)
      IN  /\ cross(down(i), down(k), up(j)) >= 0
          /\ cross(up(i), up(k), down(j)) <= 0
=============================================================================
