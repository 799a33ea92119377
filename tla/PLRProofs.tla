----------------------------- MODULE PLRProofs -----------------------------
(***************************************************************************)
(* That the optimal piecewise linear regression of PLR.tla is right: the   *)
(* two extreme lines of a segment pass within the bound of all its points, *)
(* so does the line between them that get_slope_intercept returns, and     *)
(* add_point turns a point away only if no line would do for it as well.   *)
(*                                                                         *)
(* A segment has, for each of its positions k, an upper point U[k] and a   *)
(* lower point L[k] with the same x. What holds for one hull holds for the *)
(* other with up and down swapped; s is 1 for the lower hull, which the    *)
(* steepest line touches, and -1 for the upper one, which the flattest     *)
(* line touches.                                                           *)
(***************************************************************************)
EXTENDS PLR, WellFoundedInduction, TLAPS

Points == Int \X Int

\* cross, with up and down swapped when s is -1: at most 0 when b is not above
\* the line from o to a.
turn(s, o, a, b) == IF s = 1 THEN cross(o, a, b) ELSE -cross(o, a, b)

LEMMA TurnType ==
  ASSUME NEW s \in {1, -1}, NEW o \in Points, NEW a \in Points, NEW b \in Points
  PROVE  /\ turn(s, o, a, b) \in Int
         /\ turn(s, o, a, a) = 0 /\ turn(s, o, a, o) = 0
         /\ turn(s, o, b, a) = -turn(s, o, a, b)
         /\ turn(s, a, b, o) = turn(s, o, a, b)
         /\ turn(s, b, o, a) = turn(s, o, a, b)
         /\ turn(s, a, o, b) = -turn(s, o, a, b)
         /\ turn(1, o, a, b) = cross(o, a, b)
         /\ turn(-1, o, a, b) = -cross(o, a, b)
<1>1. /\ cross(o, a, b) \in Int
      /\ cross(o, a, a) = 0 /\ cross(o, a, o) = 0
      /\ cross(o, b, a) = -cross(o, a, b)
      /\ cross(a, b, o) = cross(o, a, b)
      /\ cross(b, o, a) = cross(o, a, b)
      /\ cross(a, o, b) = -cross(o, a, b)
  BY DEF cross, Minus, Points
<1>2. CASE s = 1  BY <1>1, <1>2 DEF turn
<1>3. CASE s = -1
  <2>1. \A x, y, z \in Points : turn(s, x, y, z) = -cross(x, y, z)
    BY <1>3 DEF turn
  <2>2. turn(1, o, a, b) = cross(o, a, b) /\ turn(-1, o, a, b) = -cross(o, a, b)
    BY DEF turn
  <2> QED  BY <1>1, <2>1, <2>2
<1> QED  BY <1>2, <1>3

\* Products of numbers whose signs are known
LEMMA Signs ==
  ASSUME NEW x \in Int, NEW y \in Int
  PROVE  /\ x >= 0 /\ y >= 0 => x * y >= 0
         /\ x >= 0 /\ y <= 0 => x * y <= 0
         /\ x <= 0 /\ y >= 0 => x * y <= 0
         /\ x <= 0 /\ y <= 0 => x * y >= 0
         /\ x > 0 /\ x * y >= 0 => y >= 0
         /\ x > 0 /\ x * y <= 0 => y <= 0
         /\ x * y \in Int
  OBVIOUS

\* The height above the line from o to a, at three points of which p is above or
\* below the line through c and d
LEMMA Heights ==
  ASSUME NEW s \in {1, -1}, NEW o \in Points, NEW a \in Points, NEW c \in Points,
         NEW d \in Points, NEW p \in Points
  PROVE  (d[1] - c[1]) * turn(s, o, a, p)
           = (d[1] - p[1]) * turn(s, o, a, c) + (p[1] - c[1]) * turn(s, o, a, d)
               + (a[1] - o[1]) * turn(s, c, d, p)
<1>1. (d[1] - c[1]) * cross(o, a, p)
        = (d[1] - p[1]) * cross(o, a, c) + (p[1] - c[1]) * cross(o, a, d)
            + (a[1] - o[1]) * cross(c, d, p)
  BY DEF cross, Minus, Points
<1>2. /\ cross(o, a, p) \in Int /\ cross(o, a, c) \in Int
      /\ cross(o, a, d) \in Int /\ cross(c, d, p) \in Int
      /\ a[1] \in Int /\ o[1] \in Int /\ c[1] \in Int /\ d[1] \in Int /\ p[1] \in Int
  BY DEF cross, Minus, Points
<1>3. CASE s = 1  BY <1>1, <1>3 DEF turn
<1>4. CASE s = -1
  <2>1. \A w, x, y, z, P, A, B, T \in Int :
          w * P = x * A + y * B + z * T
            => w * (-P) = x * (-A) + y * (-B) + z * (-T)
    OBVIOUS
  <2>2. /\ d[1] - c[1] \in Int /\ d[1] - p[1] \in Int
        /\ p[1] - c[1] \in Int /\ a[1] - o[1] \in Int
    BY <1>2
  <2>3. (d[1] - c[1]) * (-cross(o, a, p))
          = (d[1] - p[1]) * (-cross(o, a, c)) + (p[1] - c[1]) * (-cross(o, a, d))
              + (a[1] - o[1]) * (-cross(c, d, p))
    BY <1>1, <1>2, <2>1, <2>2
  <2> QED  BY <1>4, <2>3 DEF turn
<1> QED  BY <1>3, <1>4

\* Seen from q on the right: b is not above the line to a, nor c above the line
\* to b; then c is not above the line to a.
LEMMA SeenThrough ==
  ASSUME NEW s \in {1, -1}, NEW a \in Points, NEW b \in Points, NEW c \in Points,
         NEW q \in Points, a[1] < q[1], b[1] < q[1], c[1] < q[1],
         turn(s, a, q, b) <= 0, turn(s, b, q, c) <= 0
  PROVE  turn(s, a, q, c) <= 0
<1>1. CASE s = 1  BY <1>1 DEF turn, cross, Minus, Points
<1>2. CASE s = -1  BY <1>2 DEF turn, cross, Minus, Points
<1> QED  BY <1>1, <1>2

\* A corner b below the chord from a to p: seen from the right of p, it is behind
\* a or behind p.
LEMMA BehindChord ==
  ASSUME NEW s \in {1, -1}, NEW a \in Points, NEW b \in Points, NEW p \in Points,
         NEW q \in Points, a[1] < b[1], b[1] < p[1], p[1] < q[1],
         turn(s, a, b, p) >= 0
  PROVE  turn(s, a, q, b) <= 0 \/ turn(s, p, q, b) <= 0
<1>1. CASE s = 1  BY <1>1 DEF turn, cross, Minus, Points
<1>2. CASE s = -1  BY <1>2 DEF turn, cross, Minus, Points
<1> QED  BY <1>1, <1>2

\* The same, seen from straight above p.
LEMMA BehindChordAbove ==
  ASSUME NEW s \in {1, -1}, NEW a \in Points, NEW b \in Points, NEW p \in Points,
         NEW q \in Points, a[1] < b[1], b[1] < p[1], p[1] = q[1],
         s = 1 => p[2] <= q[2], s = -1 => q[2] <= p[2],
         turn(s, a, b, p) >= 0
  PROVE  turn(s, a, q, b) <= 0
<1>1. CASE s = 1  BY <1>1 DEF turn, cross, Minus, Points
<1>2. CASE s = -1  BY <1>2 DEF turn, cross, Minus, Points
<1> QED  BY <1>1, <1>2

\* Along a convex hull the slope to q gets worse for good once it does.
LEMMA Worsening ==
  ASSUME NEW s \in {1, -1}, NEW a \in Points, NEW b \in Points, NEW c \in Points,
         NEW q \in Points, a[1] < b[1], b[1] < c[1], c[1] < q[1],
         turn(s, q, a, b) > 0, turn(s, a, b, c) < 0
  PROVE  turn(s, q, b, c) > 0
<1>1. CASE s = 1  BY <1>1 DEF turn, cross, Minus, Points
<1>2. CASE s = -1  BY <1>2 DEF turn, cross, Minus, Points
<1> QED  BY <1>1, <1>2

\* h left of a, h and q not above the line from a to b: h not above the one from a to q
LEMMA LeftOfStart ==
  ASSUME NEW s \in {1, -1}, NEW a \in Points, NEW b \in Points, NEW h \in Points,
         NEW q \in Points, h[1] <= a[1], a[1] < b[1], a[1] < q[1],
         turn(s, a, b, h) <= 0, turn(s, a, b, q) <= 0
  PROVE  turn(s, a, q, h) <= 0
<1>1. a[1] \in Int /\ b[1] \in Int /\ h[1] \in Int /\ q[1] \in Int
  BY DEF Points
<1>2. (q[1] - a[1]) * turn(s, a, b, h)
        = (h[1] - a[1]) * turn(s, a, b, q) + (b[1] - a[1]) * turn(s, a, q, h)
  <2>1. (q[1] - a[1]) * turn(s, a, b, h)
          = (q[1] - h[1]) * turn(s, a, b, a) + (h[1] - a[1]) * turn(s, a, b, q)
              + (b[1] - a[1]) * turn(s, a, q, h)
    BY Heights
  <2>2. turn(s, a, b, a) = 0  BY TurnType
  <2>3. (q[1] - h[1]) * turn(s, a, b, a) = 0  BY <1>1, <2>2
  <2>4. (h[1] - a[1]) * turn(s, a, b, q) \in Int  BY <1>1, TurnType
  <2>5. (b[1] - a[1]) * turn(s, a, q, h) \in Int  BY <1>1, TurnType
  <2> QED  BY <2>1, <2>3, <2>4, <2>5
<1>3. /\ turn(s, a, b, h) \in Int /\ turn(s, a, b, q) \in Int
      /\ turn(s, a, q, h) \in Int
  BY TurnType
<1>4. (q[1] - a[1]) * turn(s, a, b, h) <= 0  BY <1>1, <1>3, Signs
<1>5. (h[1] - a[1]) * turn(s, a, b, q) >= 0  BY <1>1, <1>3, Signs
<1>6. (b[1] - a[1]) * turn(s, a, q, h) \in Int  BY <1>1, <1>3
<1>7. (b[1] - a[1]) * turn(s, a, q, h) <= 0  BY <1>1, <1>2, <1>3, <1>4, <1>5, <1>6
<1> QED  BY <1>1, <1>3, <1>7, Signs

\* p right of b, not above the line from a to b; q on the right, not below it: seen
\* from q, p is behind b.
LEMMA BehindEnd ==
  ASSUME NEW s \in {1, -1}, NEW a \in Points, NEW b \in Points, NEW p \in Points,
         NEW q \in Points, a[1] < b[1], b[1] < p[1], p[1] < q[1],
         turn(s, a, b, p) <= 0, turn(s, a, b, q) >= 0
  PROVE  turn(s, b, q, p) <= 0
<1>1. CASE s = 1  BY <1>1 DEF turn, cross, Minus, Points
<1>2. CASE s = -1  BY <1>2 DEF turn, cross, Minus, Points
<1> QED  BY <1>1, <1>2

\* Between h and o the line from h to o is not above one that has neither of them
\* above it.
LEMMA UnderBetween ==
  ASSUME NEW s \in {1, -1}, NEW a \in Points, NEW b \in Points, NEW h \in Points,
         NEW o \in Points, NEW p \in Points,
         a[1] < b[1], h[1] < o[1], h[1] <= p[1], p[1] <= o[1],
         turn(s, a, b, h) <= 0, turn(s, a, b, o) <= 0, turn(s, a, b, p) >= 0
  PROVE  turn(s, h, o, p) >= 0
<1>1. /\ a[1] \in Int /\ b[1] \in Int /\ h[1] \in Int /\ o[1] \in Int /\ p[1] \in Int
      /\ turn(s, a, b, h) \in Int /\ turn(s, a, b, o) \in Int
      /\ turn(s, a, b, p) \in Int /\ turn(s, h, o, p) \in Int
  BY TurnType DEF Points
<1> DEFINE A == (o[1] - h[1]) * turn(s, a, b, p)
           B == (o[1] - p[1]) * turn(s, a, b, h)
           C == (p[1] - h[1]) * turn(s, a, b, o)
           D == (b[1] - a[1]) * turn(s, h, o, p)
<1>2. A = B + C + D  BY Heights
<1>3. A \in Int /\ A >= 0  BY <1>1, Signs
<1>4. B \in Int /\ B <= 0  BY <1>1, Signs
<1>5. C \in Int /\ C <= 0  BY <1>1, Signs
<1>6. D \in Int  BY <1>1
<1>7. D >= 0
  <2> HIDE DEF A, B, C, D
  <2> QED  BY <1>2, <1>3, <1>4, <1>5, <1>6
<1> QED  BY <1>1, <1>7, Signs

\* Left of h the line from h to o is not above one that has o above and h below.
LEMMA UnderLeft ==
  ASSUME NEW s \in {1, -1}, NEW a \in Points, NEW b \in Points, NEW h \in Points,
         NEW o \in Points, NEW p \in Points,
         a[1] < b[1], h[1] < o[1], p[1] <= h[1],
         turn(s, a, b, h) <= 0, turn(s, a, b, o) >= 0, turn(s, a, b, p) >= 0
  PROVE  turn(s, h, o, p) >= 0
<1>1. /\ a[1] \in Int /\ b[1] \in Int /\ h[1] \in Int /\ o[1] \in Int /\ p[1] \in Int
      /\ turn(s, a, b, h) \in Int /\ turn(s, a, b, o) \in Int
      /\ turn(s, a, b, p) \in Int /\ turn(s, h, o, p) \in Int
  BY TurnType DEF Points
<1> DEFINE A == (o[1] - h[1]) * turn(s, a, b, p)
           B == (o[1] - p[1]) * turn(s, a, b, h)
           C == (p[1] - h[1]) * turn(s, a, b, o)
           D == (b[1] - a[1]) * turn(s, h, o, p)
<1>2. A = B + C + D  BY Heights
<1>3. A \in Int /\ A >= 0  BY <1>1, Signs
<1>4. B \in Int /\ B <= 0  BY <1>1, Signs
<1>5. C \in Int /\ C <= 0  BY <1>1, Signs
<1>6. D \in Int  BY <1>1
<1>7. D >= 0
  <2> HIDE DEF A, B, C, D
  <2> QED  BY <1>2, <1>3, <1>4, <1>5, <1>6
<1> QED  BY <1>1, <1>7, Signs

\* A line tightened at l: what is not below it on the right of l was not below it.
LEMMA Shrunk ==
  ASSUME NEW s \in {1, -1}, NEW a \in Points, NEW b \in Points, NEW h \in Points,
         NEW l \in Points, NEW q \in Points,
         a[1] < b[1], a[1] < l[1], h[1] < l[1], l[1] < q[1],
         turn(s, h, l, a) >= 0, turn(s, a, b, l) >= 0, turn(s, h, l, q) >= 0
  PROVE  turn(s, a, b, q) >= 0
<1>1. /\ a[1] \in Int /\ b[1] \in Int /\ h[1] \in Int /\ l[1] \in Int /\ q[1] \in Int
      /\ turn(s, h, l, a) \in Int /\ turn(s, h, l, q) \in Int
      /\ turn(s, a, b, l) \in Int /\ turn(s, a, b, q) \in Int
      /\ turn(s, a, q, l) \in Int /\ turn(s, a, l, q) \in Int
      /\ turn(s, a, q, l) = -turn(s, a, l, q)
  BY TurnType DEF Points
<1>2. turn(s, a, q, l) <= 0
  <2> DEFINE A == (q[1] - l[1]) * turn(s, h, l, a)
             B == (l[1] - a[1]) * turn(s, h, l, q)
             C == (l[1] - h[1]) * turn(s, a, q, l)
  <2>1. (q[1] - a[1]) * turn(s, h, l, l) = A + B + C  BY Heights
  <2>2. turn(s, h, l, l) = 0  BY TurnType
  <2>3. A \in Int /\ A >= 0  BY <1>1, Signs
  <2>4. B \in Int /\ B >= 0  BY <1>1, Signs
  <2>5. C \in Int  BY <1>1
  <2>6. (q[1] - a[1]) * turn(s, h, l, l) = 0  BY <1>1, <2>2
  <2>7. C <= 0
    <3> HIDE DEF A, B, C
    <3> QED  BY <2>1, <2>3, <2>4, <2>5, <2>6
  <2> QED  BY <1>1, <2>7, Signs
<1>3. turn(s, a, l, q) >= 0  BY <1>1, <1>2
<1> DEFINE A == (l[1] - a[1]) * turn(s, a, b, q)
           B == (q[1] - a[1]) * turn(s, a, b, l)
           C == (b[1] - a[1]) * turn(s, a, l, q)
<1>4. A = (l[1] - q[1]) * turn(s, a, b, a) + B + C  BY Heights
<1>5. (l[1] - q[1]) * turn(s, a, b, a) = 0  BY <1>1, TurnType
<1>6. A \in Int /\ B \in Int /\ B >= 0  BY <1>1, Signs
<1>7. C \in Int /\ C >= 0  BY <1>1, <1>3, Signs
<1>8. A >= 0
  <2> HIDE DEF A, B, C
  <2> QED  BY <1>4, <1>5, <1>6, <1>7
<1> QED  BY <1>1, <1>8, Signs
-----------------------------------------------------------------------------
\* A set of natural numbers has a first element.
LEMMA FirstNumber ==
  ASSUME NEW S \in SUBSET Nat, S # {}
  PROVE  \E x \in S : \A y \in S : x <= y
<1>1. IsWellFoundedOn(OpToRel(<, Nat), Nat)
  BY NatLessThanWellFounded
<1>2. PICK x \in S : \A y \in S : ~ (<<y, x>> \in OpToRel(<, Nat))
  BY <1>1, WFMin
<1>3. \A y \in S : ~ (y < x)
  BY <1>2 DEF OpToRel
<1> QED
  BY <1>3

\* One with an upper bound has a last element.
LEMMA LastNumber ==
  ASSUME NEW S \in SUBSET Int, S # {}, NEW b \in Int, \A y \in S : y <= b
  PROVE  \E x \in S : \A y \in S : x >= y
<1> DEFINE D == {d \in Nat : b - d \in S}
<1>1. D # {}
  <2>1. PICK y \in S : TRUE
    OBVIOUS
  <2>2. b - y \in Nat /\ b - (b - y) = y
    BY <2>1
  <2> QED
    BY <2>1, <2>2
<1>2. PICK d \in D : \A e \in D : d <= e
  BY <1>1, FirstNumber
<1>3. ASSUME NEW y \in S PROVE y <= b - d
  <2>1. b - y \in D
    BY <1>3
  <2> QED
    BY <1>2, <2>1
<1> QED
  BY <1>2, <1>3

\* h is a hull of the first n points of P, convex from its start st on.
IsHull(s, P, n, h, st) ==
  /\ h \in Seq(Points)
  /\ st \in 1 .. Len(h)
  /\ \A e \in 1 .. Len(h) : \E k \in 0 .. n - 1 : h[e] = P[k]
  /\ \A e, f \in 1 .. Len(h) : e < f => h[e][1] < h[f][1]
  /\ \A e \in st + 1 .. Len(h) - 1 : turn(s, h[e - 1], h[e], h[e + 1]) < 0

\* Where the scan of a hull may stop, seen from q
Stops(s, h, st, q) ==
  {i \in st .. Len(h) : i = Len(h) \/ turn(s, q, h[i], h[i + 1]) > 0}

LEMMA ExtremeLemma ==
  ASSUME NEW h \in Seq(Points), NEW st \in 1 .. Len(h), NEW q \in Points
  PROVE  /\ LET i == Extreme(h, st, q, Steeper)
            IN  i \in Stops(1, h, st, q) /\ \A j \in Stops(1, h, st, q) : i <= j
         /\ LET i == Extreme(h, st, q, Flatter)
            IN  i \in Stops(-1, h, st, q) /\ \A j \in Stops(-1, h, st, q) : i <= j
<1>1. \A i \in 1 .. Len(h) : h[i] \in Points
  OBVIOUS
<1>2. ASSUME NEW a \in Points, NEW b \in Points
      PROVE  /\ Steeper(Minus(b, q), Minus(a, q)) <=> turn(1, q, a, b) > 0
             /\ Flatter(Minus(b, q), Minus(a, q)) <=> turn(-1, q, a, b) > 0
  <2>1. /\ Steeper(Minus(b, q), Minus(a, q)) <=> cross(q, a, b) > 0
        /\ Flatter(Minus(b, q), Minus(a, q)) <=> cross(q, a, b) < 0
    <3>1. \A w, x, y, z \in Int : w * x - y * z > 0 <=> x * w > z * y
      OBVIOUS
    <3>2. \A w, x, y, z \in Int : w * x - y * z < 0 <=> x * w < z * y
      OBVIOUS
    <3>3. /\ a[1] - q[1] \in Int /\ a[2] - q[2] \in Int
          /\ b[1] - q[1] \in Int /\ b[2] - q[2] \in Int
      BY DEF Points
    <3>4. cross(q, a, b) = (a[1] - q[1]) * (b[2] - q[2]) - (a[2] - q[2]) * (b[1] - q[1])
      BY DEF cross, Minus
    <3>5. /\ Steeper(Minus(b, q), Minus(a, q))
               <=> (b[2] - q[2]) * (a[1] - q[1]) > (b[1] - q[1]) * (a[2] - q[2])
          /\ Flatter(Minus(b, q), Minus(a, q))
               <=> (b[2] - q[2]) * (a[1] - q[1]) < (b[1] - q[1]) * (a[2] - q[2])
      BY DEF Steeper, Flatter, Minus
    <3> QED
      BY <3>1, <3>2, <3>3, <3>4, <3>5
  <2>2. turn(1, q, a, b) = cross(q, a, b) /\ turn(-1, q, a, b) = -cross(q, a, b)
    BY TurnType
  <2>3. cross(q, a, b) \in Int
    BY DEF cross, Minus, Points
  <2> QED
    BY <2>1, <2>2, <2>3
<1>3. \A i \in st .. Len(h) : i # Len(h) => i \in 1 .. Len(h) /\ i + 1 \in 1 .. Len(h)
  OBVIOUS
<1> DEFINE stopsL == {i \in st .. Len(h) :
                        \/ i = Len(h)
                        \/ Steeper(Minus(h[i + 1], q), Minus(h[i], q))}
           stopsU == {i \in st .. Len(h) :
                        \/ i = Len(h)
                        \/ Flatter(Minus(h[i + 1], q), Minus(h[i], q))}
<1>4. \A i \in st .. Len(h) : i # Len(h) =>
         /\ Steeper(Minus(h[i + 1], q), Minus(h[i], q)) <=> turn(1, q, h[i], h[i + 1]) > 0
         /\ Flatter(Minus(h[i + 1], q), Minus(h[i], q)) <=> turn(-1, q, h[i], h[i + 1]) > 0
  BY <1>1, <1>2, <1>3
<1>5. stopsL = Stops(1, h, st, q) /\ stopsU = Stops(-1, h, st, q)
  BY <1>4 DEF Stops
<1>6. ASSUME NEW s \in {1, -1}
      PROVE  \E i \in Stops(s, h, st, q) : \A j \in Stops(s, h, st, q) : i <= j
  <2>1. Len(h) \in Stops(s, h, st, q) /\ Stops(s, h, st, q) \subseteq Nat
    BY DEF Stops
  <2> QED
    BY <2>1, FirstNumber
<1>7. Extreme(h, st, q, Steeper) = CHOOSE i \in stopsL : \A j \in stopsL : i <= j
  BY DEF Extreme
<1>8. Extreme(h, st, q, Flatter) = CHOOSE i \in stopsU : \A j \in stopsU : i <= j
  BY DEF Extreme
<1> HIDE DEF stopsL, stopsU
<1> QED
  BY <1>5, <1>6, <1>7, <1>8

\* The scan stops at the vertex that q sees all the others behind, although it only
\* compares neighbours: the hull is convex. Past vertex m there may be nothing, or a
\* vertex that the scan does not go on to.
LEMMA ScanLemma ==
  ASSUME NEW s \in {1, -1}, NEW h \in Seq(Points), NEW st \in Nat, st >= 1,
         NEW m \in Nat, st <= m, m <= Len(h), NEW q \in Points,
         \A e, f \in st .. m : e < f => h[e][1] < h[f][1],
         h[m][1] < q[1],
         \A e \in st + 1 .. m - 1 : turn(s, h[e - 1], h[e], h[e + 1]) < 0,
         m = Len(h) \/ turn(s, q, h[m], h[m + 1]) > 0,
         NEW i \in Stops(s, h, st, q), \A j \in Stops(s, h, st, q) : i <= j
  PROVE  i \in st .. m /\ \A e \in st .. m : turn(s, h[i], q, h[e]) <= 0
<1>1. i \in st .. m /\ i \in Nat
  <2>1. m \in Stops(s, h, st, q)
    BY DEF Stops
  <2> QED
    BY <2>1 DEF Stops
<1>2. \A e \in st .. m : h[e] \in Points /\ h[e][1] < q[1] /\ h[e][1] \in Int
  <2> SUFFICES ASSUME NEW e \in st .. m
               PROVE  h[e] \in Points /\ h[e][1] < q[1] /\ h[e][1] \in Int
    OBVIOUS
  <2>1. h[e] \in Points /\ h[m] \in Points
    OBVIOUS
  <2>2. h[e][1] \in Int /\ h[m][1] \in Int /\ q[1] \in Int
    BY <2>1 DEF Points
  <2>3. CASE e = m
    BY <2>1, <2>2, <2>3
  <2>4. CASE e # m
    <3>1. e < m /\ m \in st .. m
      BY <2>4
    <3>2. h[e][1] < h[m][1]
      BY <3>1
    <3> QED
      BY <2>1, <2>2, <3>2
  <2> QED
    BY <2>3, <2>4
<1> DEFINE Seen(a, b) == /\ turn(s, q, a, b) \in Int
                         /\ turn(s, b, q, a) = turn(s, q, a, b)
                         /\ turn(s, a, q, b) = -turn(s, q, a, b)
<1>0. \A a, b \in Points : Seen(a, b)
  <2> SUFFICES ASSUME NEW a \in Points, NEW b \in Points PROVE Seen(a, b)
    OBVIOUS
  <2> QED
    BY TurnType
<1>3. \A e \in st .. i - 1 : turn(s, q, h[e], h[e + 1]) <= 0
  <2> SUFFICES ASSUME NEW e \in st .. i - 1
               PROVE  turn(s, q, h[e], h[e + 1]) <= 0
    OBVIOUS
  <2>1. ~ (i <= e) /\ e \in st .. Len(h) /\ e # Len(h) /\ e \in st .. m /\ e + 1 \in st .. m
    BY <1>1
  <2>2. e \notin Stops(s, h, st, q)
    BY <2>1
  <2>3. ~ (turn(s, q, h[e], h[e + 1]) > 0)
    BY <2>1, <2>2 DEF Stops
  <2>4. turn(s, q, h[e], h[e + 1]) \in Int
    BY <1>2, <2>1, TurnType
  <2> QED
    BY <2>3, <2>4
<1>4. \A e \in st .. i : turn(s, h[i], q, h[e]) <= 0
  <2> DEFINE B == {d \in Nat : st <= i - d /\ ~ (turn(s, h[i], q, h[i - d]) <= 0)}
  <2>1. B = {}
    <3> SUFFICES ASSUME B # {} PROVE FALSE
      OBVIOUS
    <3>1. PICK d \in B : \A c \in B : d <= c
      BY FirstNumber
    <3>2. d \in Nat /\ st <= i - d /\ ~ (turn(s, h[i], q, h[i - d]) <= 0)
      BY <3>1
    <3>3. d # 0
      <4>1. turn(s, h[i], q, h[i]) = 0
        BY <1>1, <1>2, TurnType
      <4>2. i - 0 = i
        BY <1>1
      <4> QED
        BY <3>2, <4>1, <4>2
    <3>4. d - 1 \in Nat /\ st <= i - (d - 1) /\ i - (d - 1) = (i - d) + 1
      BY <1>1, <3>2, <3>3
    <3>5. d - 1 \notin B
      BY <3>1, <3>2, <3>4
    <3>6. turn(s, h[i], q, h[(i - d) + 1]) <= 0
      BY <3>4, <3>5
    <3> DEFINE e == i - d
    <3>7. e \in st .. i - 1 /\ e \in st .. m /\ e + 1 \in st .. m
      BY <1>1, <3>2, <3>3
    <3> HIDE DEF e, B
    <3>8. /\ h[e] \in Points /\ h[e + 1] \in Points /\ h[i] \in Points
          /\ h[e][1] < q[1] /\ h[e + 1][1] < q[1] /\ h[i][1] < q[1]
      BY <1>1, <1>2, <3>7
    <3>9. turn(s, q, h[e], h[e + 1]) <= 0
      BY <1>3, <3>7
    <3>10. turn(s, h[e + 1], q, h[e]) <= 0
      <4>1. Seen(h[e], h[e + 1])
        BY <1>0, <3>8
      <4> QED
        BY <3>9, <4>1
    <3>11. turn(s, h[i], q, h[e]) <= 0
      BY <3>6, <3>8, <3>10, SeenThrough DEF e
    <3> QED
      BY <3>2, <3>11 DEF e
  <2> SUFFICES ASSUME NEW e \in st .. i PROVE turn(s, h[i], q, h[e]) <= 0
    OBVIOUS
  <2>2. i - e \in Nat /\ i - (i - e) = e /\ st <= i - (i - e)
    BY <1>1
  <2> QED
    BY <2>1, <2>2
<1>5. \A e \in i .. m : turn(s, h[i], q, h[e]) <= 0
  <2> DEFINE Good(e) == /\ turn(s, h[i], q, h[e]) <= 0
                        /\ e > i => turn(s, q, h[e - 1], h[e]) > 0
             C == {e \in Nat : i <= e /\ e <= m /\ ~ Good(e)}
  <2>1. C = {}
    <3> SUFFICES ASSUME C # {} PROVE FALSE
      OBVIOUS
    <3>1. PICK e \in C : \A c \in C : e <= c
      BY FirstNumber
    <3>2. e \in Nat /\ i <= e /\ e <= m /\ ~ Good(e)
      BY <3>1
    <3>3. e # i
      <4>1. turn(s, h[i], q, h[i]) = 0
        BY <1>1, <1>2, TurnType
      <4> QED
        BY <1>1, <3>2, <4>1
    <3>4. e - 1 \in Nat /\ i <= e - 1 /\ e - 1 <= m /\ ~ (e <= e - 1)
      BY <1>1, <3>2, <3>3
    <3>5. Good(e - 1)
      BY <3>1, <3>4
    <3>6. /\ e \in st .. m /\ e - 1 \in st .. m
      BY <1>1, <3>2, <3>4
    <3>7. /\ h[e] \in Points /\ h[e - 1] \in Points /\ h[i] \in Points
          /\ h[e][1] < q[1] /\ h[e - 1][1] < q[1] /\ h[i][1] < q[1]
          /\ h[e - 1][1] < h[e][1]
      BY <1>1, <1>2, <3>6, <3>4
    <3>8. turn(s, q, h[e - 1], h[e]) > 0
      <4>1. CASE e - 1 = i
        <5>1. i # Len(h) /\ i + 1 = e
          BY <1>1, <3>2, <4>1
        <5>2. turn(s, q, h[i], h[i + 1]) > 0
          BY <5>1 DEF Stops
        <5> QED
          BY <4>1, <5>1, <5>2
      <4>2. CASE e - 1 # i
        <5>1. /\ e - 1 > i /\ (e - 1) - 1 \in st .. m /\ e - 1 \in st + 1 .. m - 1
              /\ (e - 1) + 1 = e /\ (e - 1) - 1 < e - 1
          BY <1>1, <3>2, <3>4, <4>2
        <5>2. turn(s, q, h[(e - 1) - 1], h[e - 1]) > 0
          BY <3>5, <5>1
        <5>3. turn(s, h[(e - 1) - 1], h[e - 1], h[(e - 1) + 1]) < 0
          BY <5>1
        <5>4. turn(s, h[(e - 1) - 1], h[e - 1], h[e]) < 0
          BY <5>1, <5>3
        <5>5. h[(e - 1) - 1] \in Points /\ h[(e - 1) - 1][1] < h[e - 1][1]
          BY <1>2, <3>6, <5>1
        <5> DEFINE a == h[(e - 1) - 1]
                   b == h[e - 1]
                   c == h[e]
        <5>6. /\ a \in Points /\ b \in Points /\ c \in Points
              /\ a[1] < b[1] /\ b[1] < c[1] /\ c[1] < q[1]
              /\ turn(s, q, a, b) > 0 /\ turn(s, a, b, c) < 0
          BY <3>7, <5>2, <5>4, <5>5
        <5> HIDE DEF a, b, c, C, Good
        <5>7. turn(s, q, b, c) > 0
          BY <5>6, Worsening
        <5> QED
          BY <5>7 DEF b, c
      <4> QED
        BY <4>1, <4>2
    <3>9. turn(s, h[e - 1], q, h[e]) <= 0
      <4>1. Seen(h[e - 1], h[e])
        BY <1>0, <3>7
      <4> QED
        BY <3>8, <4>1
    <3>10. turn(s, h[i], q, h[e - 1]) <= 0
      BY <3>5
    <3>11. turn(s, h[i], q, h[e]) <= 0
      BY <3>7, <3>9, <3>10, SeenThrough
    <3> QED
      BY <3>2, <3>8, <3>11
  <2> SUFFICES ASSUME NEW e \in i .. m PROVE turn(s, h[i], q, h[e]) <= 0
    OBVIOUS
  <2>2. e \in Nat /\ i <= e /\ e <= m
    BY <1>1
  <2> QED
    BY <2>1, <2>2
<1>6. \A e \in st .. m : e \in st .. i \/ e \in i .. m
  BY <1>1
<1> QED
  BY <1>1, <1>4, <1>5, <1>6
-----------------------------------------------------------------------------
\* p takes the place of the vertices of h after `end`, each of which it makes a bad
\* corner, and makes none of the one at `end`.
Popped(s, h, st, p, end) ==
  /\ end \in st .. Len(h)
  /\ end = st \/ turn(s, h[end - 1], h[end], p) < 0
  /\ \A e \in end + 1 .. Len(h) : turn(s, h[e - 1], h[e], p) >= 0

Extended(h, end, p) == Append(SubSeq(h, 1, end), p)

LEMMA HullWithLemma ==
  ASSUME NEW h \in Seq(Points), NEW st \in 1 .. Len(h), NEW p \in Points
  PROVE  /\ \E end \in 1 .. Len(h) : /\ Popped(1, h, st, p, end)
                                     /\ HullWith(h, st, p, BadLower) = Extended(h, end, p)
         /\ \E end \in 1 .. Len(h) : /\ Popped(-1, h, st, p, end)
                                     /\ HullWith(h, st, p, BadUpper) = Extended(h, end, p)
<1> DEFINE Ends(s) == {e \in 1 .. Len(h) : \/ e <= st
                                           \/ ~ (turn(s, h[e - 1], h[e], p) >= 0)}
           endsL == {e \in 1 .. Len(h) : \/ e <= st
                                         \/ ~ BadLower(cross(h[e - 1], h[e], p))}
           endsU == {e \in 1 .. Len(h) : \/ e <= st
                                         \/ ~ BadUpper(cross(h[e - 1], h[e], p))}
           End(S) == CHOOSE e \in S : \A f \in S : e >= f
<1>1. ASSUME NEW a \in Points, NEW b \in Points
      PROVE  /\ BadLower(cross(a, b, p)) <=> turn(1, a, b, p) >= 0
             /\ BadUpper(cross(a, b, p)) <=> turn(-1, a, b, p) >= 0
  <2>1. turn(1, a, b, p) = cross(a, b, p) /\ turn(-1, a, b, p) = -cross(a, b, p)
    BY TurnType
  <2>2. cross(a, b, p) \in Int
    BY DEF cross, Minus, Points
  <2> QED
    BY <2>1, <2>2 DEF BadLower, BadUpper
<1>2. \A e \in 1 .. Len(h) : ~ (e <= st) =>
        /\ BadLower(cross(h[e - 1], h[e], p)) <=> turn(1, h[e - 1], h[e], p) >= 0
        /\ BadUpper(cross(h[e - 1], h[e], p)) <=> turn(-1, h[e - 1], h[e], p) >= 0
  <2> SUFFICES ASSUME NEW e \in 1 .. Len(h), ~ (e <= st)
               PROVE  /\ BadLower(cross(h[e - 1], h[e], p)) <=> turn(1, h[e - 1], h[e], p) >= 0
                      /\ BadUpper(cross(h[e - 1], h[e], p)) <=> turn(-1, h[e - 1], h[e], p) >= 0
    OBVIOUS
  <2>1. e - 1 \in 1 .. Len(h)
    OBVIOUS
  <2>2. h[e - 1] \in Points /\ h[e] \in Points
    BY <2>1
  <2> QED
    BY <1>1, <2>2
<1>3. endsL = Ends(1) /\ endsU = Ends(-1)
  BY <1>2
<1>4. /\ HullWith(h, st, p, BadLower) = Append(SubSeq(h, 1, End(endsL)), p)
      /\ HullWith(h, st, p, BadUpper) = Append(SubSeq(h, 1, End(endsU)), p)
  BY DEF HullWith
<1>5. ASSUME NEW s \in {1, -1}
      PROVE  End(Ends(s)) \in 1 .. Len(h) /\ Popped(s, h, st, p, End(Ends(s)))
  <2> DEFINE S == Ends(s)
             z == End(S)
  <2>1. S \subseteq Int /\ st \in S /\ S \subseteq 1 .. Len(h) /\ \A y \in S : y <= Len(h)
    OBVIOUS
  <2>2. \E e \in S : \A f \in S : e >= f
    <3> HIDE DEF S
    <3>1. S # {} /\ Len(h) \in Int
      BY <2>1
    <3> QED
      BY <2>1, <3>1, LastNumber
  <2>3. z \in S /\ \A f \in S : z >= f
    <3> HIDE DEF S
    <3> QED
      BY <2>2
  <2> HIDE DEF z
  <2>4. z \in 1 .. Len(h) /\ z >= st /\ z \in st .. Len(h)
    BY <2>1, <2>3
  <2>5. ASSUME NEW e \in 2 .. Len(h)
        PROVE  turn(s, h[e - 1], h[e], p) \in Int
    <3>1. h[e - 1] \in Points /\ h[e] \in Points
      <4>1. e - 1 \in 1 .. Len(h) /\ e \in 1 .. Len(h)
        OBVIOUS
      <4> QED
        BY <4>1
    <3> QED
      BY <3>1, TurnType
  <2>6. z = st \/ turn(s, h[z - 1], h[z], p) < 0
    <3> SUFFICES ASSUME z # st PROVE turn(s, h[z - 1], h[z], p) < 0
      OBVIOUS
    <3>1. ~ (z <= st) /\ z \in 2 .. Len(h)
      BY <2>4
    <3>2. ~ (turn(s, h[z - 1], h[z], p) >= 0)
      BY <2>3, <3>1
    <3>3. turn(s, h[z - 1], h[z], p) \in Int
      BY <2>5, <3>1
    <3> QED
      BY <3>2, <3>3
  <2>7. \A e \in z + 1 .. Len(h) : turn(s, h[e - 1], h[e], p) >= 0
    <3> SUFFICES ASSUME NEW e \in z + 1 .. Len(h)
                 PROVE  turn(s, h[e - 1], h[e], p) >= 0
      OBVIOUS
    <3>1. e \in 1 .. Len(h) /\ ~ (z >= e)
      BY <2>4
    <3>2. e \notin S
      BY <2>3, <3>1
    <3> QED
      BY <3>1, <3>2
  <2> QED
    BY <2>4, <2>6, <2>7 DEF Popped, z
<1> HIDE DEF Ends, endsL, endsU, End
<1> QED
  BY <1>3, <1>4, <1>5 DEF Extended

LEMMA ExtendedLemma ==
  ASSUME NEW h \in Seq(Points), NEW end \in 1 .. Len(h), NEW p \in Points
  PROVE  /\ Extended(h, end, p) \in Seq(Points)
         /\ Len(Extended(h, end, p)) = end + 1
         /\ \A e \in 1 .. end : Extended(h, end, p)[e] = h[e]
         /\ Extended(h, end, p)[end + 1] = p
<1>1. /\ SubSeq(h, 1, end) \in Seq(Points)
      /\ Len(SubSeq(h, 1, end)) = end
      /\ \A e \in 1 .. end : SubSeq(h, 1, end)[e] = h[e]
  OBVIOUS
<1> DEFINE g == SubSeq(h, 1, end)
<1> HIDE DEF g
<1>2. /\ Append(g, p) \in Seq(Points)
      /\ Len(Append(g, p)) = end + 1
      /\ \A e \in 1 .. end : Append(g, p)[e] = g[e]
      /\ Append(g, p)[end + 1] = p
  BY <1>1 DEF g
<1> QED
  BY <1>1, <1>2 DEF g, Extended
-----------------------------------------------------------------------------
\* The first n points of P, from left to right
IsPath(P, n) ==
  /\ \A k \in 0 .. n - 1 : P[k] \in Points
  /\ \A j, k \in 0 .. n - 1 : j < k => P[j][1] < P[k][1]

\* Seen from q, every one of the points is behind a vertex of the hull.
Covers(s, P, n, h, st, q) ==
  \A k \in 0 .. n - 1 : \E j \in st .. Len(h) : turn(s, h[j], q, P[k]) <= 0

\* The vertices of a hull are left of what is right of the last point.
LEMMA VertexLemma ==
  ASSUME NEW s \in {1, -1}, NEW n \in Nat \ {0}, NEW P, IsPath(P, n),
         NEW h, NEW st, IsHull(s, P, n, h, st), NEW x \in Int, P[n - 1][1] < x
  PROVE  /\ \A k \in 0 .. n - 1 : P[k] \in Points /\ P[k][1] \in Int /\ P[k][1] < x
         /\ \A e \in 1 .. Len(h) : h[e] \in Points /\ h[e][1] \in Int /\ h[e][1] < x
<1>1. \A k \in 0 .. n - 1 : P[k] \in Points /\ P[k][1] \in Int
  BY DEF IsPath, Points
<1>2. ASSUME NEW k \in 0 .. n - 1 PROVE P[k][1] < x
  <2>1. n - 1 \in 0 .. n - 1
    OBVIOUS
  <2>2. CASE k = n - 1
    BY <2>2
  <2>3. CASE k # n - 1
    <3>1. k < n - 1
      BY <2>3
    <3>2. P[k][1] < P[n - 1][1]
      BY <2>1, <3>1 DEF IsPath
    <3> QED
      BY <1>1, <2>1, <3>2
  <2> QED
    BY <2>2, <2>3
<1>3. \A e \in 1 .. Len(h) : \E k \in 0 .. n - 1 : h[e] = P[k]
  BY DEF IsHull
<1> QED
  BY <1>1, <1>2, <1>3

LEMMA ExtendedHull ==
  ASSUME NEW s \in {1, -1}, NEW n \in Nat \ {0}, NEW P, IsPath(P, n + 1),
         NEW h, NEW st, IsHull(s, P, n, h, st),
         NEW end, Popped(s, h, st, P[n], end)
  PROVE  IsHull(s, P, n + 1, Extended(h, end, P[n]), st)
<1> DEFINE g == Extended(h, end, P[n])
           p == P[n]
<1>1. /\ h \in Seq(Points) /\ st \in 1 .. Len(h) /\ end \in st .. Len(h)
      /\ end \in 1 .. Len(h) /\ end \in Nat /\ st \in Nat
  BY DEF IsHull, Popped
<1>2. /\ IsPath(P, n) /\ p \in Points /\ P[n - 1][1] < p[1] /\ p[1] \in Int
  <2>1. n \in 0 .. (n + 1) - 1 /\ n - 1 \in 0 .. (n + 1) - 1 /\ n - 1 < n
        /\ 0 .. n - 1 \subseteq 0 .. (n + 1) - 1
    OBVIOUS
  <2>2. p \in Points
    BY <2>1 DEF IsPath
  <2>3. P[n - 1][1] < p[1]
    BY <2>1 DEF IsPath
  <2>4. IsPath(P, n)
    BY <2>1 DEF IsPath
  <2> QED
    BY <2>2, <2>3, <2>4 DEF Points
<1>3. \A e \in 1 .. Len(h) : h[e] \in Points /\ h[e][1] < p[1]
  BY <1>2, VertexLemma
<1>4. /\ g \in Seq(Points) /\ Len(g) = end + 1
      /\ \A e \in 1 .. end : g[e] = h[e]
      /\ g[end + 1] = p
  <2> HIDE DEF p
  <2>1. h \in Seq(Points) /\ end \in 1 .. Len(h) /\ p \in Points
    BY <1>1, <1>2
  <2>2. /\ Extended(h, end, p) \in Seq(Points)
        /\ Len(Extended(h, end, p)) = end + 1
        /\ \A e \in 1 .. end : Extended(h, end, p)[e] = h[e]
        /\ Extended(h, end, p)[end + 1] = p
    BY <2>1, ExtendedLemma
  <2> QED
    BY <2>2 DEF p
<1> HIDE DEF g
<1>5. st \in 1 .. Len(g)
  BY <1>1, <1>4
<1>6. \A e \in 1 .. Len(g) : \E k \in 0 .. (n + 1) - 1 : g[e] = P[k]
  <2> SUFFICES ASSUME NEW e \in 1 .. Len(g) PROVE \E k \in 0 .. (n + 1) - 1 : g[e] = P[k]
    OBVIOUS
  <2>1. CASE e = end + 1
    <3>1. n \in 0 .. (n + 1) - 1
      OBVIOUS
    <3> QED
      BY <1>4, <2>1, <3>1
  <2>2. CASE e # end + 1
    <3>1. e \in 1 .. end /\ e \in 1 .. Len(h)
      BY <1>1, <1>4, <2>2
    <3>2. PICK k \in 0 .. n - 1 : h[e] = P[k]
      BY <3>1 DEF IsHull
    <3>3. k \in 0 .. (n + 1) - 1
      OBVIOUS
    <3> QED
      BY <1>4, <3>1, <3>2, <3>3
  <2> QED
    BY <2>1, <2>2
<1>7. \A e, f \in 1 .. Len(g) : e < f => g[e][1] < g[f][1]
  <2> SUFFICES ASSUME NEW e \in 1 .. Len(g), NEW f \in 1 .. Len(g), e < f
               PROVE  g[e][1] < g[f][1]
    OBVIOUS
  <2>1. e \in 1 .. end /\ e \in 1 .. Len(h)
    BY <1>1, <1>4
  <2>2. CASE f = end + 1
    BY <1>3, <1>4, <2>1, <2>2
  <2>3. CASE f # end + 1
    <3>1. f \in 1 .. end /\ f \in 1 .. Len(h)
      BY <1>1, <1>4, <2>3
    <3>2. h[e][1] < h[f][1]
      BY <2>1, <3>1 DEF IsHull
    <3> QED
      BY <1>4, <2>1, <3>1, <3>2
  <2> QED
    BY <2>2, <2>3
<1>8. \A e \in st + 1 .. Len(g) - 1 : turn(s, g[e - 1], g[e], g[e + 1]) < 0
  <2> SUFFICES ASSUME NEW e \in st + 1 .. Len(g) - 1
               PROVE  turn(s, g[e - 1], g[e], g[e + 1]) < 0
    OBVIOUS
  <2>1. e \in 1 .. end /\ e - 1 \in 1 .. end /\ e # st /\ e \in Nat
    BY <1>1, <1>4
  <2>2. g[e - 1] = h[e - 1] /\ g[e] = h[e]
    BY <1>4, <2>1
  <2>3. CASE e = end
    <3>1. turn(s, h[end - 1], h[end], p) < 0
      BY <2>1, <2>3 DEF Popped
    <3> QED
      BY <1>4, <2>2, <2>3, <3>1
  <2>4. CASE e # end
    <3>1. e + 1 \in 1 .. end /\ e \in st + 1 .. Len(h) - 1
      BY <1>1, <2>1, <2>4
    <3>2. turn(s, h[e - 1], h[e], h[e + 1]) < 0
      BY <3>1 DEF IsHull
    <3>3. g[e + 1] = h[e + 1]
      BY <1>4, <3>1
    <3> QED
      BY <2>2, <3>2, <3>3
  <2> QED
    BY <2>3, <2>4
<1> QED
  BY <1>4, <1>5, <1>6, <1>7, <1>8 DEF IsHull, g

\* What stood behind a popped vertex stands behind one before it or behind the point
\* that popped it.
LEMMA PoppedCovers ==
  ASSUME NEW s \in {1, -1}, NEW n \in Nat \ {0}, NEW P, IsPath(P, n + 1),
         NEW h, NEW st, IsHull(s, P, n, h, st),
         NEW end, Popped(s, h, st, P[n], end),
         NEW q \in Points, Covers(s, P, n, h, st, q),
         \/ P[n][1] < q[1]
         \/ P[n][1] = q[1] /\ (s = 1 => P[n][2] <= q[2]) /\ (s = -1 => q[2] <= P[n][2])
  PROVE  \A k \in 0 .. n - 1 :
           \/ \E j \in st .. end : turn(s, h[j], q, P[k]) <= 0
           \/ P[n][1] < q[1] /\ turn(s, P[n], q, P[k]) <= 0
<1> DEFINE p == P[n]
<1> SUFFICES ASSUME NEW k \in 0 .. n - 1
             PROVE  \/ \E j \in st .. end : turn(s, h[j], q, P[k]) <= 0
                    \/ p[1] < q[1] /\ turn(s, p, q, P[k]) <= 0
  OBVIOUS
<1>1. /\ h \in Seq(Points) /\ st \in 1 .. Len(h) /\ end \in st .. Len(h)
      /\ end \in 1 .. Len(h) /\ end \in Nat /\ st \in Nat
  BY DEF IsHull, Popped
<1>2. /\ IsPath(P, n) /\ p \in Points /\ P[n - 1][1] < p[1] /\ p[1] \in Int /\ P[n - 1][1] \in Int
  <2>1. n \in 0 .. (n + 1) - 1 /\ n - 1 \in 0 .. (n + 1) - 1 /\ n - 1 < n
        /\ 0 .. n - 1 \subseteq 0 .. (n + 1) - 1
    OBVIOUS
  <2>2. p \in Points /\ P[n - 1] \in Points
    BY <2>1 DEF IsPath
  <2>3. P[n - 1][1] < p[1]
    BY <2>1 DEF IsPath
  <2>4. IsPath(P, n)
    BY <2>1 DEF IsPath
  <2> QED
    BY <2>2, <2>3, <2>4 DEF Points
<1>3. q[1] \in Int /\ p[1] <= q[1] /\ P[n - 1][1] < q[1]
  <2>1. q[1] \in Int
    BY DEF Points
  <2> QED
    BY <1>2, <2>1
<1>4. /\ \A e \in 1 .. Len(h) : h[e] \in Points /\ h[e][1] \in Int /\ h[e][1] < p[1] /\ h[e][1] < q[1]
      /\ P[k] \in Points /\ P[k][1] < q[1]
  <2>1. \A e \in 1 .. Len(h) : h[e] \in Points /\ h[e][1] \in Int /\ h[e][1] < p[1]
    BY <1>2, VertexLemma
  <2>2. P[k] \in Points /\ P[k][1] < q[1]
    BY <1>2, <1>3, VertexLemma
  <2> QED
    BY <1>2, <1>3, <2>1, <2>2
<1> DEFINE J == {j \in Nat : j \in st .. Len(h) /\ turn(s, h[j], q, P[k]) <= 0}
<1>5. J # {}
  <2>1. PICK j \in st .. Len(h) : turn(s, h[j], q, P[k]) <= 0
    BY DEF Covers
  <2>2. j \in Nat
    BY <1>1
  <2> QED
    BY <2>1, <2>2
<1>6. PICK j \in J : \A i \in J : j <= i
  BY <1>5, FirstNumber
<1>7. j \in Nat /\ j \in st .. Len(h) /\ turn(s, h[j], q, P[k]) <= 0
  BY <1>6
<1>8. CASE j <= end
  <2>1. j \in st .. end
    BY <1>1, <1>7, <1>8
  <2> QED
    BY <1>7, <2>1
<1>9. CASE ~ (j <= end)
  <2>1. j \in end + 1 .. Len(h) /\ j - 1 \in st .. Len(h) /\ j - 1 \in 1 .. Len(h)
        /\ j \in 1 .. Len(h) /\ j - 1 < j /\ j - 1 \in Nat /\ ~ (j <= j - 1)
    BY <1>1, <1>7, <1>9
  <2> DEFINE a == h[j - 1]
             b == h[j]
  <2>2. turn(s, a, b, p) >= 0
    BY <2>1 DEF Popped
  <2>3. a[1] < b[1]
    BY <2>1 DEF IsHull
  <2>4. /\ a \in Points /\ b \in Points /\ a[1] < q[1] /\ b[1] < q[1] /\ b[1] < p[1]
    BY <1>4, <2>1
  <2>5. turn(s, b, q, P[k]) <= 0
    BY <1>7
  <2>6. j - 1 \notin J
    BY <1>6, <2>1
  <2>7. ~ (turn(s, a, q, P[k]) <= 0)
    BY <2>1, <2>6
  <2> HIDE DEF a, b, J
  <2>8. ~ (turn(s, a, q, b) <= 0)
    BY <1>4, <2>4, <2>5, <2>7, SeenThrough
  <2>9. CASE p[1] < q[1]
    <3>1. turn(s, a, q, b) <= 0 \/ turn(s, p, q, b) <= 0
      BY <1>2, <2>2, <2>3, <2>4, <2>9, BehindChord
    <3>2. turn(s, p, q, b) <= 0
      BY <2>8, <3>1
    <3>3. turn(s, p, q, P[k]) <= 0
      BY <1>2, <1>4, <2>4, <2>5, <2>9, <3>2, SeenThrough
    <3> QED
      BY <2>9, <3>3
  <2>10. CASE p[1] = q[1]
    <3>1. (s = 1 => p[2] <= q[2]) /\ (s = -1 => q[2] <= p[2])
      BY <1>2, <1>3, <2>10
    <3>2. turn(s, a, q, b) <= 0
      BY <1>2, <2>2, <2>3, <2>4, <2>10, <3>1, BehindChordAbove
    <3> QED
      BY <2>8, <3>2
  <2> QED
    BY <1>2, <1>3, <2>9, <2>10
<1> QED
  BY <1>8, <1>9

LEMMA ExtendedCovers ==
  ASSUME NEW s \in {1, -1}, NEW n \in Nat \ {0}, NEW P, IsPath(P, n + 1),
         NEW h, NEW st, IsHull(s, P, n, h, st),
         NEW end, Popped(s, h, st, P[n], end),
         NEW q \in Points, Covers(s, P, n, h, st, q), P[n][1] < q[1]
  PROVE  Covers(s, P, n + 1, Extended(h, end, P[n]), st, q)
<1> DEFINE g == Extended(h, end, P[n])
           p == P[n]
<1>1. /\ h \in Seq(Points) /\ st \in 1 .. Len(h) /\ end \in st .. Len(h)
      /\ end \in 1 .. Len(h) /\ end \in Nat /\ st \in Nat
  BY DEF IsHull, Popped
<1>2. p \in Points
  <2>1. n \in 0 .. (n + 1) - 1
    OBVIOUS
  <2> QED
    BY <2>1 DEF IsPath
<1>3. /\ Len(g) = end + 1
      /\ \A e \in 1 .. end : g[e] = h[e]
      /\ g[end + 1] = p
  <2> HIDE DEF p
  <2>1. h \in Seq(Points) /\ end \in 1 .. Len(h) /\ p \in Points
    BY <1>1, <1>2
  <2>2. /\ Extended(h, end, p) \in Seq(Points)
        /\ Len(Extended(h, end, p)) = end + 1
        /\ \A e \in 1 .. end : Extended(h, end, p)[e] = h[e]
        /\ Extended(h, end, p)[end + 1] = p
    BY <2>1, ExtendedLemma
  <2> QED
    BY <2>2 DEF p
<1>4. \A k \in 0 .. n - 1 : \/ \E j \in st .. end : turn(s, h[j], q, P[k]) <= 0
                            \/ turn(s, p, q, P[k]) <= 0
  BY PoppedCovers
<1>5. turn(s, p, q, p) = 0
  BY <1>2, TurnType
<1> HIDE DEF g, p
<1>6. end + 1 \in st .. Len(g) /\ \A j \in st .. end : j \in st .. Len(g) /\ j \in 1 .. end
  BY <1>1, <1>3
<1>7. ASSUME NEW k \in 0 .. (n + 1) - 1
      PROVE  \E j \in st .. Len(g) : turn(s, g[j], q, P[k]) <= 0
  <2>1. CASE k = n
    <3>1. turn(s, g[end + 1], q, P[k]) <= 0
      BY <1>3, <1>5, <2>1 DEF p
    <3> QED
      BY <1>6, <3>1
  <2>2. CASE k # n
    <3>1. k \in 0 .. n - 1
      BY <2>2
    <3>2. CASE turn(s, p, q, P[k]) <= 0
      BY <1>3, <1>6, <3>2
    <3>3. CASE \E j \in st .. end : turn(s, h[j], q, P[k]) <= 0
      <4>1. PICK j \in st .. end : turn(s, h[j], q, P[k]) <= 0
        BY <3>3
      <4>2. j \in st .. Len(g) /\ g[j] = h[j]
        BY <1>3, <1>6
      <4> QED
        BY <4>1, <4>2
    <3> QED
      BY <1>4, <3>1, <3>2, <3>3
  <2> QED
    BY <2>1, <2>2
<1> QED
  BY <1>7 DEF Covers, g, p

\* A point that is not above the line that ends at one of the others need not go on
\* the hull.
LEMMA SkippedCovers ==
  ASSUME NEW s \in {1, -1}, NEW n \in Nat \ {0}, NEW P, IsPath(P, n + 1),
         NEW h, NEW st, IsHull(s, P, n, h, st),
         NEW q \in Points, Covers(s, P, n, h, st, q), P[n][1] < q[1],
         NEW a \in Points, NEW b \in 0 .. n - 1, a[1] < P[b][1],
         turn(s, a, P[b], P[n]) <= 0, turn(s, a, P[b], q) >= 0
  PROVE  Covers(s, P, n + 1, h, st, q)
<1>1. /\ IsPath(P, n) /\ P[n] \in Points /\ P[b] \in Points /\ P[n][1] \in Int /\ q[1] \in Int
      /\ P[n - 1][1] < P[n][1] /\ P[b][1] < P[n][1] /\ P[b][1] \in Int /\ P[n - 1][1] \in Int
  <2>1. n \in 0 .. (n + 1) - 1 /\ n - 1 \in 0 .. (n + 1) - 1 /\ n - 1 < n
        /\ 0 .. n - 1 \subseteq 0 .. (n + 1) - 1 /\ b \in 0 .. (n + 1) - 1 /\ b < n
    OBVIOUS
  <2>2. P[n] \in Points /\ P[b] \in Points /\ P[n - 1] \in Points
    BY <2>1 DEF IsPath
  <2>3. P[n - 1][1] < P[n][1] /\ P[b][1] < P[n][1]
    BY <2>1 DEF IsPath
  <2>4. IsPath(P, n)
    BY <2>1 DEF IsPath
  <2> QED
    BY <2>2, <2>3, <2>4 DEF Points
<1>2. P[n - 1][1] < q[1] /\ P[b][1] < q[1]
  BY <1>1
<1>3. /\ \A e \in 1 .. Len(h) : h[e] \in Points /\ h[e][1] < q[1]
      /\ st \in 1 .. Len(h)
  BY <1>1, <1>2, VertexLemma DEF IsHull
<1>4. turn(s, P[b], q, P[n]) <= 0
  BY <1>1, <1>2, BehindEnd
<1>5. PICK j \in st .. Len(h) : turn(s, h[j], q, P[b]) <= 0
  BY DEF Covers
<1>6. h[j] \in Points /\ h[j][1] < q[1]
  <2>1. j \in 1 .. Len(h)
    BY <1>3
  <2> QED
    BY <1>3, <2>1
<1>7. turn(s, h[j], q, P[n]) <= 0
  BY <1>1, <1>2, <1>4, <1>5, <1>6, SeenThrough
<1>8. \A k \in 0 .. (n + 1) - 1 : k = n \/ k \in 0 .. n - 1
  OBVIOUS
<1> QED
  BY <1>5, <1>7, <1>8 DEF Covers

\* The hull begins where the near line touches it: what was behind an earlier
\* vertex is behind that one.
LEMMA MovedCovers ==
  ASSUME NEW s \in {1, -1}, NEW n \in Nat \ {0}, NEW P, IsPath(P, n),
         NEW h, NEW st, IsHull(s, P, n, h, st),
         NEW i \in st .. Len(h), NEW w \in Points, h[i][1] < w[1],
         \A e \in 1 .. Len(h) : turn(s, h[i], w, h[e]) <= 0,
         NEW q \in Points, Covers(s, P, n, h, st, q), P[n - 1][1] < q[1],
         turn(s, h[i], w, q) <= 0
  PROVE  IsHull(s, P, n, h, i) /\ Covers(s, P, n, h, i, q)
<1>1. h \in Seq(Points) /\ st \in 1 .. Len(h) /\ i \in 1 .. Len(h) /\ i \in Nat /\ st \in Nat
  BY DEF IsHull
<1>2. IsHull(s, P, n, h, i)
  <2>1. \A e \in i + 1 .. Len(h) - 1 : e \in st + 1 .. Len(h) - 1
    BY <1>1
  <2> QED
    BY <1>1, <2>1 DEF IsHull
<1>3. q[1] \in Int
  BY DEF Points
<1>4. /\ \A k \in 0 .. n - 1 : P[k] \in Points /\ P[k][1] < q[1]
      /\ \A e \in 1 .. Len(h) : h[e] \in Points /\ h[e][1] < q[1]
  BY <1>3, VertexLemma
<1>5. ASSUME NEW k \in 0 .. n - 1
      PROVE  \E j \in i .. Len(h) : turn(s, h[j], q, P[k]) <= 0
  <2>1. PICK j \in st .. Len(h) : turn(s, h[j], q, P[k]) <= 0
    BY DEF Covers
  <2>2. CASE j >= i
    <3>1. j \in i .. Len(h)
      BY <2>2
    <3> QED
      BY <2>1, <3>1
  <2>3. CASE ~ (j >= i)
    <3>1. j \in 1 .. Len(h) /\ j < i
      BY <1>1, <2>3
    <3>2. /\ h[j] \in Points /\ h[j][1] < q[1] /\ h[i] \in Points /\ h[i][1] < q[1]
          /\ P[k] \in Points /\ P[k][1] < q[1]
      BY <1>1, <1>4, <3>1
    <3>3. h[j][1] < h[i][1]
      BY <1>1, <3>1 DEF IsHull
    <3>4. h[j][1] <= h[i][1]
      <4>1. h[j][1] \in Int /\ h[i][1] \in Int
        BY <3>2 DEF Points
      <4> QED
        BY <3>3, <4>1
    <3>5. turn(s, h[i], w, h[j]) <= 0
      BY <3>1
    <3>6. turn(s, h[i], q, h[j]) <= 0
      BY <3>2, <3>4, <3>5, LeftOfStart
    <3>7. turn(s, h[i], q, P[k]) <= 0
      BY <2>1, <3>2, <3>6, SeenThrough
    <3>8. i \in i .. Len(h)
      BY <1>1
    <3> QED
      BY <3>7, <3>8
  <2> QED
    BY <2>2, <2>3
<1> QED
  BY <1>2, <1>5 DEF Covers
-----------------------------------------------------------------------------
\* Straight below the right end of a line
LEMMA BelowEnd ==
  ASSUME NEW s \in {1, -1}, NEW h \in Points, NEW o \in Points, NEW p \in Points,
         h[1] < o[1], p[1] = o[1], s = 1 => p[2] <= o[2], s = -1 => o[2] <= p[2]
  PROVE  turn(s, h, o, p) <= 0
<1>1. CASE s = 1  BY <1>1 DEF turn, cross, Minus, Points
<1>2. CASE s = -1  BY <1>2 DEF turn, cross, Minus, Points
<1> QED  BY <1>1, <1>2

\* What is not above a line tightened at l, on the right of l, was not above it.
LEMMA ShrunkBelow ==
  ASSUME NEW s \in {1, -1}, NEW a \in Points, NEW b \in Points, NEW h \in Points,
         NEW l \in Points, NEW q \in Points,
         a[1] < b[1], a[1] < l[1], h[1] < l[1], l[1] < q[1],
         turn(s, h, l, a) <= 0, turn(s, a, b, l) <= 0, turn(s, h, l, q) <= 0
  PROVE  turn(s, a, b, q) <= 0
<1> DEFINE r == IF s = 1 THEN -1 ELSE 1
<1>1. r \in {1, -1}
  OBVIOUS
<1>2. \A x, y, z \in Points : /\ turn(s, x, y, z) \in Int
                              /\ turn(r, x, y, z) = -turn(s, x, y, z)
  <2> SUFFICES ASSUME NEW x \in Points, NEW y \in Points, NEW z \in Points
               PROVE  turn(s, x, y, z) \in Int /\ turn(r, x, y, z) = -turn(s, x, y, z)
    OBVIOUS
  <2>1. /\ turn(1, x, y, z) = cross(x, y, z)
        /\ turn(-1, x, y, z) = -cross(x, y, z)
        /\ cross(x, y, z) \in Int
    BY DEF turn, cross, Minus, Points
  <2>2. CASE s = 1
    BY <2>1, <2>2
  <2>3. CASE s = -1
    BY <2>1, <2>3
  <2> QED
    BY <2>2, <2>3
<1>3. /\ turn(s, h, l, a) \in Int /\ turn(r, h, l, a) = -turn(s, h, l, a)
      /\ turn(s, a, b, l) \in Int /\ turn(r, a, b, l) = -turn(s, a, b, l)
      /\ turn(s, h, l, q) \in Int /\ turn(r, h, l, q) = -turn(s, h, l, q)
      /\ turn(s, a, b, q) \in Int /\ turn(r, a, b, q) = -turn(s, a, b, q)
  BY <1>2
<1> HIDE DEF r
<1>4. turn(r, h, l, a) >= 0 /\ turn(r, a, b, l) >= 0 /\ turn(r, h, l, q) >= 0
  BY <1>3
<1>5. turn(r, a, b, q) >= 0
  BY <1>1, <1>4, Shrunk
<1> QED
  BY <1>3, <1>5

\* The bars of the first n positions: P on the side of the hull, O opposite
Bars(s, P, O, n) ==
  /\ IsPath(P, n) /\ IsPath(O, n)
  /\ \A k \in 0 .. n - 1 : /\ P[k][1] = O[k][1]
                           /\ s = 1 => P[k][2] <= O[k][2]
                           /\ s = -1 => O[k][2] <= P[k][2]

\* The line from a to b meets the first n bars.
Meets(s, P, O, n, a, b) ==
  /\ a \in Points /\ b \in Points /\ a[1] < b[1]
  /\ \A k \in 0 .. n - 1 : turn(s, a, b, P[k]) <= 0 /\ turn(s, a, b, O[k]) >= 0

\* One half of the state of add_point: the hull h with its start, the near line
\* from a to b that touches it there, and the far line from c to d. The hull covers
\* all the points for whatever point both lines leave room for.
Half(s, P, O, n, h, st, a, b, c, d) ==
  /\ IsHull(s, P, n, h, st)
  /\ a = h[st] /\ \E j \in 0 .. n - 1 : b = O[j]
  /\ Meets(s, P, O, n, a, b)
  /\ \A q \in Points :
       P[n - 1][1] < q[1] /\ turn(s, a, b, q) <= 0 /\ turn(s, c, d, q) >= 0
         => Covers(s, P, n, h, st, q)

\* The tightened line meets all bars, the new one included.
LEMMA TightenedMeets ==
  ASSUME NEW s \in {1, -1}, NEW n \in Nat \ {0}, NEW P, NEW O, Bars(s, P, O, n + 1),
         NEW a, NEW b, Meets(s, P, O, n, a, b), turn(s, a, b, O[n]) <= 0,
         NEW c, NEW d, Meets(s, P, O, n, c, d), turn(s, c, d, O[n]) >= 0,
         NEW h, NEW m \in 0 .. n - 1, h = P[m],
         \A k \in 0 .. n - 1 : turn(s, h, O[n], P[k]) <= 0
  PROVE  Meets(s, P, O, n + 1, h, O[n])
<1> DEFINE o == O[n]
<1>1. n \in 0 .. (n + 1) - 1 /\ m \in 0 .. (n + 1) - 1 /\ m < n
      /\ \A k \in 0 .. n - 1 : k \in 0 .. (n + 1) - 1 /\ k < n
  OBVIOUS
<1>2. o \in Points /\ h \in Points /\ P[n] \in Points /\ \A k \in 0 .. n - 1 : O[k] \in Points
  BY <1>1 DEF Bars, IsPath
<1>3. /\ P[m][1] < P[n][1] /\ P[n][1] = o[1]
      /\ \A k \in 0 .. n - 1 : O[k][1] < o[1]
  BY <1>1 DEF Bars, IsPath
<1>4. h[1] < o[1]
  BY <1>3
<1>5. turn(s, h, o, P[n]) <= 0
  <2>1. /\ s = 1 => P[n][2] <= O[n][2]
        /\ s = -1 => O[n][2] <= P[n][2]
    BY <1>1 DEF Bars
  <2> QED
    BY <1>2, <1>3, <1>4, <2>1, BelowEnd
<1>6. turn(s, h, o, o) = 0
  BY <1>2, TurnType
<1>7. ASSUME NEW k \in 0 .. n - 1 PROVE turn(s, h, o, O[k]) >= 0
  <2>1. /\ O[k] \in Points /\ O[k][1] < o[1] /\ O[k][1] \in Int /\ h[1] \in Int /\ o[1] \in Int
    BY <1>2, <1>3 DEF Points
  <2>2. /\ a \in Points /\ b \in Points /\ a[1] < b[1]
        /\ turn(s, a, b, h) <= 0 /\ turn(s, a, b, O[k]) >= 0
    BY DEF Meets
  <2>3. /\ c \in Points /\ d \in Points /\ c[1] < d[1]
        /\ turn(s, c, d, h) <= 0 /\ turn(s, c, d, O[k]) >= 0
    BY DEF Meets
  <2>4. CASE h[1] <= O[k][1]
    <3>1. O[k][1] <= o[1]
      BY <2>1
    <3> QED
      BY <1>2, <1>4, <2>1, <2>2, <2>4, <3>1, UnderBetween
  <2>5. CASE O[k][1] <= h[1]
    BY <1>2, <1>4, <2>1, <2>3, <2>5, UnderLeft
  <2> QED
    BY <2>1, <2>4, <2>5
<1> HIDE DEF o
<1>8. ASSUME NEW k \in 0 .. (n + 1) - 1
      PROVE  turn(s, h, o, P[k]) <= 0 /\ turn(s, h, o, O[k]) >= 0
  <2>1. CASE k = n
    BY <1>5, <1>6, <2>1 DEF o
  <2>2. CASE k # n
    <3>1. k \in 0 .. n - 1
      BY <2>2
    <3> QED
      BY <1>7, <3>1 DEF o
  <2> QED
    BY <2>1, <2>2
<1> QED
  BY <1>2, <1>4, <1>8 DEF Meets, o

\* One half after a step of add_point. The near line goes on or is turned down to
\* the new point O[n], from vertex i; the far line goes on or ends at the new point
\* P[n], which then goes on the hull (its end popped before or after the start moved).
LEMMA HalfStep ==
  ASSUME NEW s \in {1, -1}, NEW n \in Nat \ {0}, NEW P, NEW O, Bars(s, P, O, n + 1),
         NEW h, NEW st, NEW a, NEW b, NEW c \in Points, NEW d \in Points, c[1] < d[1],
         Half(s, P, O, n, h, st, a, b, c, d),
         \E k \in 0 .. n - 1 : d = P[k],
         \E k \in 0 .. n - 1 : c = O[k],
         NEW i \in st .. Len(h), NEW w,
         \/ i = st /\ w = b
         \/ w = O[n] /\ turn(s, a, b, O[n]) <= 0,
         Meets(s, P, O, n + 1, h[i], w),
         NEW g, NEW e \in Points, NEW f \in Points,
         \/ g = h /\ e = c /\ f = d /\ turn(s, c, d, P[n]) <= 0
         \/ /\ f = P[n] /\ turn(s, c, d, P[n]) >= 0
            /\ e[1] < f[1] /\ turn(s, e, f, c) >= 0
            /\ \E end \in i .. Len(h) : /\ \/ Popped(s, h, i, P[n], end)
                                           \/ Popped(s, h, st, P[n], end)
                                        /\ g = Extended(h, end, P[n])
  PROVE  Half(s, P, O, n + 1, g, i, h[i], w, e, f)
<1>1. n \in 0 .. (n + 1) - 1 /\ (n + 1) - 1 = n /\ n + 1 \in Nat \ {0}
      /\ \A k \in 0 .. n - 1 : k \in 0 .. (n + 1) - 1 /\ k < n
  OBVIOUS
<1>2. /\ IsPath(P, n + 1) /\ IsPath(O, n + 1) /\ IsPath(P, n)
      /\ P[n] \in Points /\ O[n] \in Points /\ P[n][1] = O[n][1] /\ P[n][1] \in Int
      /\ P[n - 1][1] < P[n][1]
  <2>1. IsPath(P, n + 1) /\ IsPath(O, n + 1) /\ P[n][1] = O[n][1]
    BY <1>1 DEF Bars
  <2>2. n - 1 \in 0 .. n - 1
    OBVIOUS
  <2>3. P[n] \in Points /\ O[n] \in Points /\ P[n - 1][1] < P[n][1]
    BY <1>1, <2>1, <2>2 DEF IsPath
  <2>4. IsPath(P, n)
    BY <1>1, <2>1 DEF IsPath
  <2> QED
    BY <2>1, <2>3, <2>4 DEF Points
<1>3. /\ IsHull(s, P, n, h, st) /\ a = h[st] /\ Meets(s, P, O, n, a, b)
      /\ h \in Seq(Points) /\ st \in 1 .. Len(h) /\ i \in 1 .. Len(h) /\ i \in Nat /\ st \in Nat
  BY DEF Half, IsHull
<1>4. /\ \A l \in 1 .. Len(h) : h[l] \in Points /\ h[l][1] < P[n][1]
      /\ a \in Points /\ b \in Points /\ h[i] \in Points /\ w \in Points
      /\ a[1] < b[1] /\ h[i][1] < w[1]
  BY <1>2, <1>3, VertexLemma DEF Meets
<1>5. IsHull(s, P, n + 1, h, st)
  <2>1. \A l \in 1 .. Len(h) : \E k \in 0 .. (n + 1) - 1 : h[l] = P[k]
    BY <1>1, <1>3 DEF IsHull
  <2> QED
    BY <1>3, <2>1 DEF IsHull
<1>6. \E j \in 0 .. (n + 1) - 1 : w = O[j]
  <2>1. \E j \in 0 .. n - 1 : b = O[j]
    BY DEF Half
  <2> QED
    BY <1>1, <2>1
\* What the new lines leave room for, the old ones left room for.
<1>7. ASSUME NEW q \in Points, P[n][1] < q[1], turn(s, h[i], w, q) <= 0, turn(s, e, f, q) >= 0
      PROVE  /\ P[n - 1][1] < q[1]
             /\ turn(s, a, b, q) <= 0 /\ turn(s, c, d, q) >= 0
             /\ Covers(s, P, n, h, st, q)
  <2>1. q[1] \in Int /\ P[n - 1][1] \in Int
    <3>1. n - 1 \in 0 .. n - 1
      OBVIOUS
    <3>2. P[n - 1] \in Points
      BY <1>2, <3>1 DEF IsPath
    <3> QED
      BY <3>2 DEF Points
  <2>2. P[n - 1][1] < q[1]
    BY <1>2, <1>7, <2>1
  <2>3. turn(s, a, b, q) <= 0
    <3>1. CASE i = st /\ w = b
      BY <1>3, <1>7, <3>1
    <3>2. CASE w = O[n] /\ turn(s, a, b, O[n]) <= 0
      <4>1. PICK k \in 0 .. n - 1 : a = P[k]
        BY <1>3 DEF IsHull
      <4>2. turn(s, h[i], w, a) <= 0
        BY <1>1, <4>1 DEF Meets
      <4>3. a[1] < w[1] /\ w[1] < q[1]
        BY <1>2, <1>3, <1>4, <1>7, <3>2
      <4> QED
        BY <1>4, <1>7, <3>2, <4>2, <4>3, ShrunkBelow
    <3> QED
      BY <3>1, <3>2
  <2>4. turn(s, c, d, q) >= 0
    <3>1. CASE e = c /\ f = d
      BY <1>7, <3>1
    <3>2. CASE f = P[n] /\ turn(s, c, d, P[n]) >= 0 /\ e[1] < f[1] /\ turn(s, e, f, c) >= 0
      <4>1. c[1] < P[n][1]
        <5>1. PICK k \in 0 .. n - 1 : c = O[k]
          OBVIOUS
        <5>2. O[k][1] < O[n][1]
          BY <1>1, <1>2 DEF IsPath
        <5> QED
          BY <1>2, <5>1, <5>2
      <4> QED
        BY <1>2, <1>7, <3>2, <4>1, Shrunk
    <3> QED
      BY <3>1, <3>2
  <2>5. Covers(s, P, n, h, st, q)
    BY <2>2, <2>3, <2>4 DEF Half
  <2> QED
    BY <2>2, <2>3, <2>4, <2>5
<1>8. CASE g = h /\ e = c /\ f = d /\ turn(s, c, d, P[n]) <= 0
  <2>1. \A l \in 1 .. Len(h) : turn(s, h[i], w, h[l]) <= 0
    <3> SUFFICES ASSUME NEW l \in 1 .. Len(h) PROVE turn(s, h[i], w, h[l]) <= 0
      OBVIOUS
    <3>1. PICK k \in 0 .. (n + 1) - 1 : h[l] = P[k]
      BY <1>5 DEF IsHull
    <3> QED
      BY <3>1 DEF Meets
  <2>2. ASSUME NEW q \in Points, P[n][1] < q[1],
               turn(s, h[i], w, q) <= 0, turn(s, e, f, q) >= 0
        PROVE  Covers(s, P, n + 1, h, i, q)
    <3>1. Covers(s, P, n, h, st, q) /\ turn(s, c, d, q) >= 0
      BY <1>7, <2>2
    <3>2. PICK k \in 0 .. n - 1 : d = P[k]
      OBVIOUS
    <3>3. Covers(s, P, n + 1, h, st, q)
      <4>1. c[1] < P[k][1] /\ turn(s, c, P[k], P[n]) <= 0 /\ turn(s, c, P[k], q) >= 0
        BY <1>8, <3>1, <3>2
      <4> QED
        BY <1>2, <1>3, <2>2, <3>1, <4>1, SkippedCovers
    <3>4. P[(n + 1) - 1][1] < q[1]
      BY <1>1, <2>2
    <3> QED
      BY <1>1, <1>2, <1>4, <1>5, <2>1, <2>2, <3>3, <3>4, MovedCovers
  <2>3. IsHull(s, P, n + 1, h, i)
    <3>1. \A l \in i + 1 .. Len(h) - 1 : l \in st + 1 .. Len(h) - 1
      BY <1>3
    <3> QED
      BY <1>3, <1>5, <3>1 DEF IsHull
  <2>4. \A q \in Points :
          P[(n + 1) - 1][1] < q[1] /\ turn(s, h[i], w, q) <= 0 /\ turn(s, e, f, q) >= 0
            => Covers(s, P, n + 1, g, i, q)
    BY <1>1, <1>8, <2>2
  <2> QED
    BY <1>6, <1>8, <2>3, <2>4 DEF Half
<1>9. ASSUME f = P[n], NEW end \in i .. Len(h), g = Extended(h, end, P[n]),
             Popped(s, h, i, P[n], end)
      PROVE  Half(s, P, O, n + 1, g, i, h[i], w, e, f)
  <2>1. \A l \in 1 .. Len(h) : turn(s, h[i], w, h[l]) <= 0
    <3> SUFFICES ASSUME NEW l \in 1 .. Len(h) PROVE turn(s, h[i], w, h[l]) <= 0
      OBVIOUS
    <3>1. PICK k \in 0 .. (n + 1) - 1 : h[l] = P[k]
      BY <1>5 DEF IsHull
    <3> QED
      BY <3>1 DEF Meets
  <2>2. IsHull(s, P, n, h, i)
    <3>1. \A l \in i + 1 .. Len(h) - 1 : l \in st + 1 .. Len(h) - 1
      BY <1>3
    <3> QED
      BY <1>3, <3>1 DEF IsHull
  <2>3. IsHull(s, P, n + 1, g, i)
    BY <1>2, <1>9, <2>2, ExtendedHull
  <2>4. ASSUME NEW q \in Points, P[n][1] < q[1],
               turn(s, h[i], w, q) <= 0, turn(s, e, f, q) >= 0
        PROVE  Covers(s, P, n + 1, g, i, q)
    <3>1. Covers(s, P, n, h, st, q) /\ P[n - 1][1] < q[1]
      BY <1>7, <2>4
    <3>2. Covers(s, P, n, h, i, q)
      BY <1>2, <1>3, <1>4, <2>1, <2>4, <3>1, MovedCovers
    <3> QED
      BY <1>2, <1>9, <2>2, <2>4, <3>2, ExtendedCovers
  <2>5. g[i] = h[i]
    <3>1. end \in 1 .. Len(h) /\ i \in 1 .. end
      BY <1>3
    <3>2. \A l \in 1 .. end : Extended(h, end, P[n])[l] = h[l]
      BY <1>2, <1>3, <3>1, ExtendedLemma
    <3> QED
      BY <1>9, <3>1, <3>2
  <2>6. \A q \in Points :
          P[(n + 1) - 1][1] < q[1] /\ turn(s, h[i], w, q) <= 0 /\ turn(s, e, f, q) >= 0
            => Covers(s, P, n + 1, g, i, q)
    BY <1>1, <2>4
  <2> QED
    BY <1>6, <2>3, <2>5, <2>6 DEF Half
<1>10. ASSUME f = P[n], NEW end \in i .. Len(h), g = Extended(h, end, P[n]),
              Popped(s, h, st, P[n], end)
       PROVE  Half(s, P, O, n + 1, g, i, h[i], w, e, f)
  <2>1. IsHull(s, P, n + 1, g, st)
    BY <1>2, <1>3, <1>10, ExtendedHull
  <2>2. /\ g[i] = h[i] /\ i \in st .. Len(g)
    <3>1. end \in 1 .. Len(h) /\ end \in Nat /\ i <= end
      BY <1>3, <1>10
    <3>2. Len(g) = end + 1 /\ \A l \in 1 .. end : g[l] = h[l]
      <4>1. /\ Len(Extended(h, end, P[n])) = end + 1
            /\ \A l \in 1 .. end : Extended(h, end, P[n])[l] = h[l]
        BY <1>2, <1>3, <3>1, ExtendedLemma
      <4> QED
        BY <1>10, <4>1
    <3>3. i \in 1 .. end /\ i \in st .. end + 1
      BY <1>3, <3>1
    <3> QED
      BY <3>2, <3>3
  <2>3. \A l \in 1 .. Len(g) : turn(s, g[i], w, g[l]) <= 0
    <3> SUFFICES ASSUME NEW l \in 1 .. Len(g) PROVE turn(s, g[i], w, g[l]) <= 0
      OBVIOUS
    <3>1. PICK k \in 0 .. (n + 1) - 1 : g[l] = P[k]
      BY <2>1 DEF IsHull
    <3> QED
      BY <2>2, <3>1 DEF Meets
  <2>4. ASSUME NEW q \in Points, P[n][1] < q[1],
               turn(s, h[i], w, q) <= 0, turn(s, e, f, q) >= 0
        PROVE  Covers(s, P, n + 1, g, i, q)
    <3>1. Covers(s, P, n, h, st, q)
      BY <1>7, <2>4
    <3>2. Covers(s, P, n + 1, g, st, q)
      BY <1>2, <1>3, <1>10, <2>4, <3>1, ExtendedCovers
    <3>3. P[(n + 1) - 1][1] < q[1] /\ turn(s, g[i], w, q) <= 0 /\ g[i][1] < w[1]
      BY <1>1, <1>4, <2>2, <2>4
    <3> QED
      BY <1>1, <1>2, <1>4, <2>1, <2>2, <2>3, <2>4, <3>2, <3>3, MovedCovers
  <2>5. IsHull(s, P, n + 1, g, i)
    <3>1. g \in Seq(Points) /\ i \in 1 .. Len(g)
          /\ \A l \in i + 1 .. Len(g) - 1 : l \in st + 1 .. Len(g) - 1
      BY <1>3, <2>1, <2>2 DEF IsHull
    <3> QED
      BY <2>1, <3>1 DEF IsHull
  <2>6. \A q \in Points :
          P[(n + 1) - 1][1] < q[1] /\ turn(s, h[i], w, q) <= 0 /\ turn(s, e, f, q) >= 0
            => Covers(s, P, n + 1, g, i, q)
    BY <1>1, <2>4
  <2> QED
    BY <1>6, <2>2, <2>5, <2>6 DEF Half
<1> QED
  BY <1>8, <1>9, <1>10

\* The line that the scan tightens: through the vertex it stops at, whether or not
\* the other point of the same position has gone on the hull already.
LEMMA TightenedLine ==
  ASSUME NEW s \in {1, -1}, NEW n \in Nat \ {0}, NEW P, NEW O, Bars(s, P, O, n + 1),
         NEW h, NEW st, NEW a, NEW b, NEW c, NEW d,
         Half(s, P, O, n, h, st, a, b, c, d), Meets(s, P, O, n, c, d),
         turn(s, a, b, O[n]) <= 0, turn(s, c, d, O[n]) >= 0,
         NEW g \in Seq(Points), NEW m \in st .. Len(h), m <= Len(g),
         \A e \in 1 .. m : g[e] = h[e],
         m = Len(g) \/ turn(s, O[n], g[m], g[m + 1]) > 0,
         \A k \in 0 .. n - 1 : \E j \in st .. m : turn(s, h[j], O[n], P[k]) <= 0,
         NEW i \in Stops(s, g, st, O[n]),
         \A j \in Stops(s, g, st, O[n]) : i <= j
  PROVE  /\ i \in st .. m /\ g[i] = h[i]
         /\ Meets(s, P, O, n + 1, h[i], O[n])
<1> DEFINE q == O[n]
<1>1. /\ IsHull(s, P, n, h, st) /\ Meets(s, P, O, n, a, b)
      /\ h \in Seq(Points) /\ st \in 1 .. Len(h) /\ st \in Nat /\ m \in Nat /\ m \in 1 .. Len(h)
      /\ st >= 1 /\ st <= m
  BY DEF Half, IsHull
<1>2. /\ IsPath(P, n) /\ q \in Points /\ P[n][1] = q[1] /\ q[1] \in Int /\ P[n - 1][1] < q[1]
  <2>1. /\ n \in 0 .. (n + 1) - 1 /\ n - 1 \in 0 .. (n + 1) - 1 /\ n - 1 < n
        /\ 0 .. n - 1 \subseteq 0 .. (n + 1) - 1
    OBVIOUS
  <2>2. IsPath(P, n + 1) /\ IsPath(O, n + 1) /\ P[n][1] = q[1]
    BY <2>1 DEF Bars
  <2>3. q \in Points /\ P[n - 1][1] < P[n][1] /\ IsPath(P, n)
    BY <2>1, <2>2 DEF IsPath
  <2> QED
    BY <2>2, <2>3 DEF Points
<1>3. /\ \A k \in 0 .. n - 1 : P[k] \in Points /\ P[k][1] < q[1]
      /\ \A e \in 1 .. Len(h) : h[e] \in Points /\ h[e][1] < q[1]
  <2> HIDE DEF q
  <2>1. /\ \A k \in 0 .. n - 1 : P[k] \in Points /\ P[k][1] \in Int /\ P[k][1] < q[1]
        /\ \A e \in 1 .. Len(h) : h[e] \in Points /\ h[e][1] \in Int /\ h[e][1] < q[1]
    BY <1>1, <1>2, VertexLemma
  <2> QED
    BY <2>1
<1>4. \A e \in st .. m : g[e] = h[e] /\ e \in 1 .. Len(h) /\ e \in Nat
  BY <1>1
<1>5. i \in st .. m /\ \A e \in st .. m : turn(s, g[i], q, g[e]) <= 0
  <2>1. \A e, f \in st .. m : e < f => g[e][1] < g[f][1]
    BY <1>1, <1>4 DEF IsHull
  <2>2. g[m][1] < q[1]
    <3>1. m \in st .. m
      BY <1>1
    <3> QED
      BY <1>3, <1>4, <3>1
  <2>3. \A e \in st + 1 .. m - 1 : turn(s, g[e - 1], g[e], g[e + 1]) < 0
    <3> SUFFICES ASSUME NEW e \in st + 1 .. m - 1
                 PROVE  turn(s, g[e - 1], g[e], g[e + 1]) < 0
      OBVIOUS
    <3>1. /\ e - 1 \in st .. m /\ e \in st .. m /\ e + 1 \in st .. m
          /\ e \in st + 1 .. Len(h) - 1
      BY <1>1
    <3>2. turn(s, h[e - 1], h[e], h[e + 1]) < 0
      BY <1>1, <3>1 DEF IsHull
    <3> QED
      BY <1>4, <3>1, <3>2
  <2> HIDE DEF q
  <2>4. m = Len(g) \/ turn(s, q, g[m], g[m + 1]) > 0
    BY DEF q
  <2>5. i \in Stops(s, g, st, q) /\ \A j \in Stops(s, g, st, q) : i <= j
    BY DEF q
  <2> QED
    BY <1>1, <1>2, <2>1, <2>2, <2>3, <2>4, <2>5, ScanLemma
<1>6. g[i] = h[i] /\ i \in 1 .. Len(h)
  BY <1>4, <1>5
<1>7. PICK l \in 0 .. n - 1 : h[i] = P[l]
  BY <1>1, <1>6 DEF IsHull
<1>8. \A k \in 0 .. n - 1 : turn(s, h[i], q, P[k]) <= 0
  <2> SUFFICES ASSUME NEW k \in 0 .. n - 1 PROVE turn(s, h[i], q, P[k]) <= 0
    OBVIOUS
  <2>1. PICK j \in st .. m : turn(s, h[j], q, P[k]) <= 0
    OBVIOUS
  <2>2. turn(s, h[i], q, h[j]) <= 0
    BY <1>4, <1>5, <1>6
  <2>3. /\ h[j] \in Points /\ h[j][1] < q[1] /\ h[i] \in Points /\ h[i][1] < q[1]
        /\ P[k] \in Points /\ P[k][1] < q[1]
    BY <1>3, <1>4, <1>6
  <2> QED
    BY <1>2, <2>1, <2>2, <2>3, SeenThrough
<1>9. Meets(s, P, O, n + 1, h[i], O[n])
  BY <1>1, <1>7, <1>8, TightenedMeets
<1> QED
  BY <1>5, <1>6, <1>9

\* A line that goes on
LEMMA KeptMeets ==
  ASSUME NEW s \in {1, -1}, NEW n \in Nat, NEW P, NEW O, NEW a, NEW b,
         Meets(s, P, O, n, a, b), turn(s, a, b, P[n]) <= 0, turn(s, a, b, O[n]) >= 0
  PROVE  Meets(s, P, O, n + 1, a, b)
<1>1. \A k \in 0 .. (n + 1) - 1 : k = n \/ k \in 0 .. n - 1
  OBVIOUS
<1> QED
  BY <1>1 DEF Meets

\* The two sides of a segment are each other's mirror images.
LEMMA OtherSide ==
  ASSUME NEW n \in Nat, NEW U, NEW L, Bars(1, L, U, n)
  PROVE  /\ Bars(-1, U, L, n)
         /\ \A a, b : Meets(1, L, U, n, a, b) <=> Meets(-1, U, L, n, a, b)
<1>1. Bars(-1, U, L, n)
  BY DEF Bars
<1>2. ASSUME NEW a \in Points, NEW b \in Points, NEW p \in Points
      PROVE  /\ turn(-1, a, b, p) <= 0 <=> turn(1, a, b, p) >= 0
             /\ turn(-1, a, b, p) >= 0 <=> turn(1, a, b, p) <= 0
  <2>1. turn(1, a, b, p) = cross(a, b, p) /\ turn(-1, a, b, p) = -cross(a, b, p)
    BY TurnType
  <2>2. cross(a, b, p) \in Int
    BY DEF cross, Minus, Points
  <2> QED
    BY <2>1, <2>2
<1>3. \A k \in 0 .. n - 1 : U[k] \in Points /\ L[k] \in Points
  BY DEF Bars, IsPath
<1>4. ASSUME NEW a, NEW b
      PROVE  Meets(1, L, U, n, a, b) <=> Meets(-1, U, L, n, a, b)
  BY <1>2, <1>3 DEF Meets
<1> QED
  BY <1>1, <1>4
-----------------------------------------------------------------------------
\* A segment in the making, as the record it is
SegmentRecords ==
  [num : Nat, rect : [0 .. 3 -> Points], upper : Seq(Points), lower : Seq(Points),
   us : Nat, ls : Nat]

\* The tests of add_point, as sides of the two lines
LEMMA SlopeLemma ==
  ASSUME NEW a \in Points, NEW b \in Points, NEW p \in Points
  PROVE  /\ Flatter(Minus(p, a), Minus(b, a)) <=> turn(1, a, b, p) < 0
         /\ Steeper(Minus(p, a), Minus(b, a)) <=> turn(1, a, b, p) > 0
         /\ ~ Flatter(Minus(p, b), Minus(b, a)) <=> turn(1, a, b, p) >= 0
         /\ ~ Steeper(Minus(p, b), Minus(b, a)) <=> turn(1, a, b, p) <= 0
<1> DEFINE u == b[1] - a[1]
           v == b[2] - a[2]
           x == p[1] - a[1]
           y == p[2] - a[2]
<1>1. u \in Int /\ v \in Int /\ x \in Int /\ y \in Int
  BY DEF Points
<1>2. turn(1, a, b, p) = u * y - v * x
  BY DEF turn, cross, Minus
<1>3. /\ Flatter(Minus(p, a), Minus(b, a)) <=> y * u < x * v
      /\ Steeper(Minus(p, a), Minus(b, a)) <=> y * u > x * v
  BY DEF Flatter, Steeper, Minus
<1>4. p[1] - b[1] = x - u /\ p[2] - b[2] = y - v
  BY DEF Points
<1>5. /\ Flatter(Minus(p, b), Minus(b, a)) <=> (y - v) * u < (x - u) * v
      /\ Steeper(Minus(p, b), Minus(b, a)) <=> (y - v) * u > (x - u) * v
  BY <1>4 DEF Flatter, Steeper, Minus
<1> HIDE DEF u, v, x, y
<1>6. /\ y * u < x * v <=> u * y - v * x < 0
      /\ y * u > x * v <=> u * y - v * x > 0
  BY <1>1
<1>7. (y - v) * u - (x - u) * v = u * y - v * x
  BY <1>1
<1>8. /\ (y - v) * u < (x - u) * v <=> u * y - v * x < 0
      /\ (y - v) * u > (x - u) * v <=> u * y - v * x > 0
  <2>1. (y - v) * u \in Int /\ (x - u) * v \in Int
    BY <1>1
  <2> QED
    BY <1>7, <2>1
<1>9. u * y - v * x \in Int
  BY <1>1
<1> QED
  BY <1>2, <1>3, <1>5, <1>6, <1>8, <1>9

LEMMA UpperTightenedLemma ==
  ASSUME NEW opt \in SegmentRecords, NEW p1 \in Points,
         opt.ls \in 1 .. Len(opt.lower), opt.us \in 1 .. Len(opt.upper)
  PROVE  LET o == UpperTightened(opt, p1)
         IN  /\ o \in SegmentRecords
             /\ o.num = opt.num /\ o.lower = opt.lower /\ o.us = opt.us
             /\ o.rect[0] = opt.rect[0] /\ o.rect[2] = opt.rect[2]
             /\ \/ ~ (turn(1, opt.rect[1], opt.rect[3], p1) < 0) /\ o = opt
                \/ /\ turn(1, opt.rect[1], opt.rect[3], p1) < 0
                   /\ o.ls \in Stops(1, opt.lower, opt.ls, p1)
                   /\ \A j \in Stops(1, opt.lower, opt.ls, p1) : o.ls <= j
                   /\ o.rect[1] = opt.lower[o.ls] /\ o.rect[3] = p1
                   /\ \E end \in 1 .. Len(opt.upper) :
                        /\ Popped(-1, opt.upper, opt.us, p1, end)
                        /\ o.upper = Extended(opt.upper, end, p1)
<1> DEFINE o == UpperTightened(opt, p1)
           i == Extreme(opt.lower, opt.ls, p1, Steeper)
           g == HullWith(opt.upper, opt.us, p1, BadUpper)
<1>1. /\ opt.lower \in Seq(Points) /\ opt.upper \in Seq(Points)
      /\ opt.rect \in [0 .. 3 -> Points] /\ opt.us \in Nat /\ opt.ls \in Nat /\ opt.num \in Nat
  BY DEF SegmentRecords
<1>2. opt.rect[0] \in Points /\ opt.rect[1] \in Points /\ opt.rect[2] \in Points /\ opt.rect[3] \in Points
  BY <1>1
<1>3. Flatter(Minus(p1, opt.rect[1]), Minus(opt.rect[3], opt.rect[1]))
        <=> turn(1, opt.rect[1], opt.rect[3], p1) < 0
  BY <1>2, SlopeLemma
<1>4. i \in Stops(1, opt.lower, opt.ls, p1) /\ \A j \in Stops(1, opt.lower, opt.ls, p1) : i <= j
  BY <1>1, ExtremeLemma
<1>5. \E end \in 1 .. Len(opt.upper) :
        /\ Popped(-1, opt.upper, opt.us, p1, end)
        /\ g = Extended(opt.upper, end, p1)
  BY <1>1, HullWithLemma
<1>6. i \in 1 .. Len(opt.lower) /\ i \in Nat /\ opt.lower[i] \in Points
  BY <1>1, <1>4 DEF Stops
<1>7. g \in Seq(Points)
  BY <1>1, <1>5, ExtendedLemma
<1>8. o = IF Flatter(Minus(p1, opt.rect[1]), Minus(opt.rect[3], opt.rect[1]))
            THEN [opt EXCEPT !.rect[1] = opt.lower[i], !.rect[3] = p1, !.ls = i,
                             !.upper = g]
            ELSE opt
  BY DEF UpperTightened
<1> HIDE DEF o, i, g
<1>9. CASE ~ (turn(1, opt.rect[1], opt.rect[3], p1) < 0)
  <2>1. o = opt
    BY <1>3, <1>8, <1>9
  <2> QED
    BY <1>9, <2>1 DEF o
<1>10. CASE turn(1, opt.rect[1], opt.rect[3], p1) < 0
  <2>1. o = [opt EXCEPT !.rect[1] = opt.lower[i], !.rect[3] = p1, !.ls = i, !.upper = g]
    BY <1>3, <1>8, <1>10
  <2>2. /\ o.num = opt.num /\ o.lower = opt.lower /\ o.us = opt.us /\ o.ls = i /\ o.upper = g
        /\ o.rect \in [0 .. 3 -> Points]
        /\ o.rect[0] = opt.rect[0] /\ o.rect[2] = opt.rect[2]
        /\ o.rect[1] = opt.lower[i] /\ o.rect[3] = p1
    BY <1>1, <1>6, <2>1 DEF SegmentRecords
  <2>3. o \in SegmentRecords
    BY <1>1, <1>6, <1>7, <2>1, <2>2 DEF SegmentRecords
  <2> QED
    BY <1>4, <1>5, <1>10, <2>2, <2>3 DEF o
<1> QED
  BY <1>9, <1>10

LEMMA LowerTightenedLemma ==
  ASSUME NEW opt \in SegmentRecords, NEW p2 \in Points,
         opt.ls \in 1 .. Len(opt.lower), opt.us \in 1 .. Len(opt.upper)
  PROVE  LET o == LowerTightened(opt, p2, Minus(opt.rect[2], opt.rect[0]))
         IN  /\ o \in SegmentRecords
             /\ o.num = opt.num /\ o.upper = opt.upper /\ o.ls = opt.ls
             /\ o.rect[1] = opt.rect[1] /\ o.rect[3] = opt.rect[3]
             /\ \/ ~ (turn(1, opt.rect[0], opt.rect[2], p2) > 0) /\ o = opt
                \/ /\ turn(1, opt.rect[0], opt.rect[2], p2) > 0
                   /\ o.us \in Stops(-1, opt.upper, opt.us, p2)
                   /\ \A j \in Stops(-1, opt.upper, opt.us, p2) : o.us <= j
                   /\ o.rect[0] = opt.upper[o.us] /\ o.rect[2] = p2
                   /\ \E end \in 1 .. Len(opt.lower) :
                        /\ Popped(1, opt.lower, opt.ls, p2, end)
                        /\ o.lower = Extended(opt.lower, end, p2)
<1> DEFINE o == LowerTightened(opt, p2, Minus(opt.rect[2], opt.rect[0]))
           i == Extreme(opt.upper, opt.us, p2, Flatter)
           g == HullWith(opt.lower, opt.ls, p2, BadLower)
<1>1. /\ opt.lower \in Seq(Points) /\ opt.upper \in Seq(Points)
      /\ opt.rect \in [0 .. 3 -> Points] /\ opt.us \in Nat /\ opt.ls \in Nat /\ opt.num \in Nat
  BY DEF SegmentRecords
<1>2. opt.rect[0] \in Points /\ opt.rect[1] \in Points /\ opt.rect[2] \in Points /\ opt.rect[3] \in Points
  BY <1>1
<1>3. Steeper(Minus(p2, opt.rect[0]), Minus(opt.rect[2], opt.rect[0]))
        <=> turn(1, opt.rect[0], opt.rect[2], p2) > 0
  BY <1>2, SlopeLemma
<1>4. i \in Stops(-1, opt.upper, opt.us, p2) /\ \A j \in Stops(-1, opt.upper, opt.us, p2) : i <= j
  BY <1>1, ExtremeLemma
<1>5. \E end \in 1 .. Len(opt.lower) :
        /\ Popped(1, opt.lower, opt.ls, p2, end)
        /\ g = Extended(opt.lower, end, p2)
  BY <1>1, HullWithLemma
<1>6. i \in 1 .. Len(opt.upper) /\ i \in Nat /\ opt.upper[i] \in Points
  BY <1>1, <1>4 DEF Stops
<1>7. g \in Seq(Points)
  BY <1>1, <1>5, ExtendedLemma
<1>8. o = IF Steeper(Minus(p2, opt.rect[0]), Minus(opt.rect[2], opt.rect[0]))
            THEN [opt EXCEPT !.rect[0] = opt.upper[i], !.rect[2] = p2, !.us = i,
                             !.lower = g]
            ELSE opt
  BY DEF LowerTightened
<1> HIDE DEF o, i, g
<1>9. CASE ~ (turn(1, opt.rect[0], opt.rect[2], p2) > 0)
  <2>1. o = opt
    BY <1>3, <1>8, <1>9
  <2> QED
    BY <1>9, <2>1 DEF o
<1>10. CASE turn(1, opt.rect[0], opt.rect[2], p2) > 0
  <2>1. o = [opt EXCEPT !.rect[0] = opt.upper[i], !.rect[2] = p2, !.us = i, !.lower = g]
    BY <1>3, <1>8, <1>10
  <2>2. /\ o.num = opt.num /\ o.upper = opt.upper /\ o.ls = opt.ls /\ o.us = i /\ o.lower = g
        /\ o.rect \in [0 .. 3 -> Points]
        /\ o.rect[1] = opt.rect[1] /\ o.rect[3] = opt.rect[3]
        /\ o.rect[0] = opt.upper[i] /\ o.rect[2] = p2
    BY <1>1, <1>6, <2>1 DEF SegmentRecords
  <2>3. o \in SegmentRecords
    BY <1>1, <1>6, <1>7, <2>1, <2>2 DEF SegmentRecords
  <2> QED
    BY <1>4, <1>5, <1>10, <2>2, <2>3 DEF o
<1> QED
  BY <1>9, <1>10

\* The state of add_point after n points, n > 1: both halves
Segment(U, L, n, opt) ==
  /\ opt \in SegmentRecords /\ opt.num = n
  /\ Half(1, L, U, n, opt.lower, opt.ls,
          opt.rect[1], opt.rect[3], opt.rect[0], opt.rect[2])
  /\ Half(-1, U, L, n, opt.upper, opt.us,
          opt.rect[0], opt.rect[2], opt.rect[1], opt.rect[3])

\* When the bars are single points, both extreme lines are the line through them:
\* what is not above the one is not above the other.
LEMMA OneLine ==
  ASSUME NEW a \in Points, NEW b \in Points, NEW c \in Points, NEW d \in Points,
         NEW p \in Points, a[1] < b[1], c[1] < d[1],
         turn(1, c, d, a) = 0, turn(1, c, d, b) = 0, turn(1, c, d, p) <= 0
  PROVE  turn(1, a, b, p) <= 0
<1>1. /\ a[1] \in Int /\ b[1] \in Int /\ c[1] \in Int /\ d[1] \in Int /\ p[1] \in Int
      /\ turn(1, a, b, p) \in Int /\ turn(1, c, d, p) \in Int
  BY TurnType DEF Points
<1> DEFINE A == (b[1] - a[1]) * turn(1, c, d, p)
           D == (d[1] - c[1]) * turn(1, a, b, p)
<1>2. A = (b[1] - p[1]) * turn(1, c, d, a) + (p[1] - a[1]) * turn(1, c, d, b) + D
  BY Heights
<1>3. (b[1] - p[1]) * turn(1, c, d, a) = 0 /\ (p[1] - a[1]) * turn(1, c, d, b) = 0
  BY <1>1
<1>4. A \in Int /\ A <= 0 /\ D \in Int
  BY <1>1, Signs
<1>5. D <= 0
  <2> HIDE DEF A, D
  <2> QED
    BY <1>2, <1>3, <1>4
<1> QED
  BY <1>1, <1>5, Signs

\* Straight below: the vertex h sees it on the other side.
LEMMA StopsBelow ==
  ASSUME NEW h \in Points, NEW u \in Points, NEW l \in Points,
         h[1] < l[1], u[1] = l[1], l[2] < u[2]
  PROVE  turn(-1, l, h, u) > 0
BY DEF turn, cross, Minus, Points

LEMMA SegmentStep ==
  ASSUME NEW n \in Nat \ {0}, NEW U, NEW L, Bars(1, L, U, n + 1),
         \/ \A k \in 0 .. n : L[k][2] < U[k][2]
         \/ \A k \in 0 .. n : L[k] = U[k],
         NEW opt, Segment(U, L, n, opt),
         turn(1, opt.rect[0], opt.rect[2], U[n]) >= 0,
         turn(1, opt.rect[1], opt.rect[3], L[n]) <= 0
  PROVE  LET o == LowerTightened(UpperTightened(opt, U[n]), L[n],
                                 Minus(opt.rect[2], opt.rect[0]))
         IN  /\ o \in SegmentRecords /\ o.num = opt.num
             /\ Half(1, L, U, n + 1, o.lower, o.ls,
                     o.rect[1], o.rect[3], o.rect[0], o.rect[2])
             /\ Half(-1, U, L, n + 1, o.upper, o.us,
                     o.rect[0], o.rect[2], o.rect[1], o.rect[3])
<1> DEFINE u == U[n]
           l == L[n]
           r0 == opt.rect[0]
           r1 == opt.rect[1]
           r2 == opt.rect[2]
           r3 == opt.rect[3]
           lower == opt.lower
           upper == opt.upper
           ls == opt.ls
           us == opt.us
           o1 == UpperTightened(opt, u)
           o2 == LowerTightened(o1, l, Minus(r2, r0))
<1>1. /\ opt \in SegmentRecords
      /\ Half(1, L, U, n, lower, ls, r1, r3, r0, r2)
      /\ Half(-1, U, L, n, upper, us, r0, r2, r1, r3)
  BY DEF Segment
<1>2. /\ IsHull(1, L, n, lower, ls) /\ r1 = lower[ls] /\ \E k \in 0 .. n - 1 : r3 = U[k]
      /\ Meets(1, L, U, n, r1, r3)
      /\ IsHull(-1, U, n, upper, us) /\ r0 = upper[us] /\ \E k \in 0 .. n - 1 : r2 = L[k]
      /\ Meets(-1, U, L, n, r0, r2)
  BY <1>1 DEF Half
<1>3. /\ lower \in Seq(Points) /\ ls \in 1 .. Len(lower) /\ ls \in Nat
      /\ upper \in Seq(Points) /\ us \in 1 .. Len(upper) /\ us \in Nat
  BY <1>2 DEF IsHull
<1>4. /\ n \in 0 .. (n + 1) - 1 /\ n - 1 \in 0 .. (n + 1) - 1 /\ n - 1 < n
      /\ 0 .. n - 1 \subseteq 0 .. (n + 1) - 1 /\ 0 .. (n + 1) - 1 = 0 .. n
  OBVIOUS
<1>5. /\ IsPath(L, n + 1) /\ IsPath(U, n + 1) /\ IsPath(L, n) /\ IsPath(U, n)
      /\ u \in Points /\ l \in Points /\ l[1] = u[1] /\ l[2] <= u[2] /\ l[1] \in Int
      /\ L[n - 1][1] < l[1] /\ U[n - 1][1] < u[1]
      /\ Bars(1, L, U, n)
  <2>1. IsPath(L, n + 1) /\ IsPath(U, n + 1) /\ l[1] = u[1] /\ l[2] <= u[2]
    BY <1>4 DEF Bars
  <2>2. IsPath(L, n) /\ IsPath(U, n)
    BY <1>4, <2>1 DEF IsPath
  <2>3. u \in Points /\ l \in Points /\ L[n - 1][1] < l[1] /\ U[n - 1][1] < u[1]
    BY <1>4, <2>1 DEF IsPath
  <2>4. Bars(1, L, U, n)
    BY <1>4, <2>2 DEF Bars
  <2> QED
    BY <2>1, <2>2, <2>3, <2>4 DEF Points
<1>6. /\ Bars(-1, U, L, n + 1) /\ Bars(-1, U, L, n)
      /\ \A a, b : Meets(1, L, U, n + 1, a, b) <=> Meets(-1, U, L, n + 1, a, b)
      /\ \A a, b : Meets(1, L, U, n, a, b) <=> Meets(-1, U, L, n, a, b)
  BY <1>5, OtherSide
<1>7. /\ r0 \in Points /\ r1 \in Points /\ r2 \in Points /\ r3 \in Points
      /\ r0[1] < r2[1] /\ r1[1] < r3[1]
  BY <1>2 DEF Meets
<1>8. ASSUME NEW a \in Points, NEW b \in Points, NEW p \in Points
      PROVE  /\ turn(1, a, b, p) \in Int
             /\ turn(-1, a, b, p) = -turn(1, a, b, p)
  BY DEF turn, cross, Minus, Points
<1>0. /\ turn(1, r0, r2, l) \in Int /\ turn(-1, r0, r2, l) = -turn(1, r0, r2, l)
      /\ turn(1, r1, r3, l) \in Int /\ turn(-1, r1, r3, l) = -turn(1, r1, r3, l)
      /\ turn(1, r0, r2, u) \in Int /\ turn(-1, r0, r2, u) = -turn(1, r0, r2, u)
      /\ turn(1, r1, r3, u) \in Int /\ turn(-1, r1, r3, u) = -turn(1, r1, r3, u)
      /\ turn(1, r0, r2, u) >= 0 /\ turn(1, r1, r3, l) <= 0
  BY <1>5, <1>7, <1>8
<1>9. /\ o1 \in SegmentRecords
      /\ o1.num = opt.num /\ o1.lower = lower /\ o1.us = us
      /\ o1.rect[0] = r0 /\ o1.rect[2] = r2
      /\ \/ ~ (turn(1, r1, r3, u) < 0) /\ o1 = opt
         \/ /\ turn(1, r1, r3, u) < 0
            /\ o1.ls \in Stops(1, lower, ls, u)
            /\ \A j \in Stops(1, lower, ls, u) : o1.ls <= j
            /\ o1.rect[1] = lower[o1.ls] /\ o1.rect[3] = u
            /\ \E end \in 1 .. Len(upper) :
                 /\ Popped(-1, upper, us, u, end)
                 /\ o1.upper = Extended(upper, end, u)
  BY <1>1, <1>3, <1>5, UpperTightenedLemma
<1> HIDE DEF o1
\* The steepest line after the step
<1>10. /\ o1.ls \in ls .. Len(lower) /\ o1.rect[1] = lower[o1.ls]
       /\ Meets(1, L, U, n + 1, lower[o1.ls], o1.rect[3])
       /\ \/ o1.ls = ls /\ o1.rect[3] = r3
          \/ o1.rect[3] = u /\ turn(1, r1, r3, u) <= 0
  <2>1. CASE ~ (turn(1, r1, r3, u) < 0) /\ o1 = opt
    <3>1. turn(1, r1, r3, u) >= 0
      BY <1>5, <1>7, <1>8, <2>1
    <3>2. Meets(1, L, U, n + 1, r1, r3)
      BY <1>2, <3>1, KeptMeets
    <3> QED
      BY <1>2, <1>3, <2>1, <3>2
  <2>2. CASE turn(1, r1, r3, u) < 0 /\ ~ (o1 = opt /\ ~ (turn(1, r1, r3, u) < 0))
    <3>1. /\ o1.ls \in Stops(1, lower, ls, u)
          /\ \A j \in Stops(1, lower, ls, u) : o1.ls <= j
          /\ o1.rect[1] = lower[o1.ls] /\ o1.rect[3] = u
      BY <1>9, <2>2
    <3>2. turn(1, r1, r3, u) <= 0
      BY <1>5, <1>7, <1>8, <2>2
    <3>3. Covers(1, L, n, lower, ls, u)
      BY <1>1, <1>5, <3>2 DEF Half
    <3>4. Meets(1, L, U, n, r0, r2)
      BY <1>2, <1>6
    <3>5. /\ Len(lower) \in ls .. Len(lower) /\ Len(lower) <= Len(lower)
          /\ \A k \in 0 .. n - 1 : \E j \in ls .. Len(lower) : turn(1, lower[j], u, L[k]) <= 0
      BY <1>3, <3>3 DEF Covers
    <3>6. o1.ls \in ls .. Len(lower) /\ Meets(1, L, U, n + 1, lower[o1.ls], u)
      BY <1>1, <1>3, <3>1, <3>2, <3>4, <3>5, TightenedLine
    <3> QED
      BY <3>1, <3>2, <3>6
  <2> QED
    BY <1>9, <2>1, <2>2
<1>11. /\ o1.ls \in 1 .. Len(o1.lower) /\ o1.us \in 1 .. Len(o1.upper)
  <2>1. o1.ls \in 1 .. Len(o1.lower)
    BY <1>3, <1>9, <1>10
  <2>2. CASE o1 = opt
    BY <1>3, <2>1, <2>2
  <2>3. ASSUME NEW end \in 1 .. Len(upper), Popped(-1, upper, us, u, end),
               o1.upper = Extended(upper, end, u)
        PROVE  o1.us \in 1 .. Len(o1.upper)
    <3>1. Len(Extended(upper, end, u)) = end + 1
      BY <1>3, <1>5, ExtendedLemma
    <3>2. us <= end
      BY <1>3, <2>3 DEF Popped
    <3> QED
      BY <1>3, <1>9, <2>3, <3>1, <3>2
  <2> QED
    BY <1>9, <2>1, <2>2, <2>3
<1>12. /\ o2 \in SegmentRecords
       /\ o2.num = o1.num /\ o2.upper = o1.upper /\ o2.ls = o1.ls
       /\ o2.rect[1] = o1.rect[1] /\ o2.rect[3] = o1.rect[3]
       /\ \/ ~ (turn(1, r0, r2, l) > 0) /\ o2 = o1
          \/ /\ turn(1, r0, r2, l) > 0
             /\ o2.us \in Stops(-1, o1.upper, us, l)
             /\ \A j \in Stops(-1, o1.upper, us, l) : o2.us <= j
             /\ o2.rect[0] = o1.upper[o2.us] /\ o2.rect[2] = l
             /\ \E end \in 1 .. Len(lower) :
                  /\ Popped(1, lower, o1.ls, l, end)
                  /\ o2.lower = Extended(lower, end, l)
  <2> DEFINE o == LowerTightened(o1, l, Minus(o1.rect[2], o1.rect[0]))
  <2>1. /\ o \in SegmentRecords
        /\ o.num = o1.num /\ o.upper = o1.upper /\ o.ls = o1.ls
        /\ o.rect[1] = o1.rect[1] /\ o.rect[3] = o1.rect[3]
        /\ \/ ~ (turn(1, o1.rect[0], o1.rect[2], l) > 0) /\ o = o1
           \/ /\ turn(1, o1.rect[0], o1.rect[2], l) > 0
              /\ o.us \in Stops(-1, o1.upper, o1.us, l)
              /\ \A j \in Stops(-1, o1.upper, o1.us, l) : o.us <= j
              /\ o.rect[0] = o1.upper[o.us] /\ o.rect[2] = l
              /\ \E end \in 1 .. Len(o1.lower) :
                   /\ Popped(1, o1.lower, o1.ls, l, end)
                   /\ o.lower = Extended(o1.lower, end, l)
    BY <1>5, <1>9, <1>11, LowerTightenedLemma
  <2>2. o = o2
    BY <1>9
  <2> HIDE DEF o, o2
  <2>3. /\ o1.rect[0] = r0 /\ o1.rect[2] = r2 /\ o1.us = us /\ o1.lower = lower
    BY <1>9
  <2> QED
    BY <2>1, <2>2, <2>3
<1> HIDE DEF o2
\* The upper hull before the second scan: up to vertex m it is the old one.
<1>13. PICK m \in us .. Len(upper) :
         /\ m <= Len(o1.upper) /\ \A e \in 1 .. m : o1.upper[e] = upper[e]
         /\ \/ ~ (turn(1, r1, r3, u) < 0) /\ o1 = opt /\ m = Len(upper)
            \/ /\ turn(1, r1, r3, u) < 0 /\ o1.rect[3] = u
               /\ Popped(-1, upper, us, u, m)
               /\ o1.upper = Extended(upper, m, u)
               /\ Len(o1.upper) = m + 1 /\ o1.upper[m + 1] = u
  <2>1. CASE ~ (turn(1, r1, r3, u) < 0) /\ o1 = opt
    <3>1. Len(upper) \in us .. Len(upper) /\ Len(upper) <= Len(o1.upper)
      BY <1>3, <2>1
    <3> QED
      BY <2>1, <3>1
  <2>2. ASSUME turn(1, r1, r3, u) < 0, o1.rect[3] = u,
               NEW end \in 1 .. Len(upper), Popped(-1, upper, us, u, end),
               o1.upper = Extended(upper, end, u)
        PROVE  /\ end \in us .. Len(upper)
               /\ end <= Len(o1.upper) /\ \A e \in 1 .. end : o1.upper[e] = upper[e]
               /\ Len(o1.upper) = end + 1 /\ o1.upper[end + 1] = u
    <3>1. /\ Len(Extended(upper, end, u)) = end + 1
          /\ \A e \in 1 .. end : Extended(upper, end, u)[e] = upper[e]
          /\ Extended(upper, end, u)[end + 1] = u
      <4>1. upper \in Seq(Points) /\ u \in Points
        BY <1>3, <1>5
      <4> QED
        BY <4>1, ExtendedLemma, Zenon
    <3>2. end \in us .. Len(upper)
      BY <2>2 DEF Popped
    <3>3. end <= end + 1
      OBVIOUS
    <3> QED
      BY <2>2, <3>1, <3>2, <3>3
  <2> QED
    BY <1>9, <2>1, <2>2
<1>14. m \in 1 .. Len(upper) /\ m \in Nat /\ us \in us .. m /\ m \in us .. m
  BY <1>3
\* The flattest line after the step
<1>15. /\ o2.us \in us .. m /\ o2.rect[0] = upper[o2.us]
       /\ Meets(-1, U, L, n + 1, upper[o2.us], o2.rect[2])
       /\ \/ o2.us = us /\ o2.rect[2] = r2
          \/ o2.rect[2] = l /\ turn(-1, r0, r2, l) <= 0
  <2>1. CASE ~ (turn(1, r0, r2, l) > 0) /\ o2 = o1
    <3>1. turn(1, r0, r2, l) <= 0
      BY <1>0, <2>1
    <3>2. Meets(1, L, U, n, r0, r2)
      BY <1>2, <1>6
    <3>3. Meets(1, L, U, n + 1, r0, r2)
      BY <3>1, <3>2, KeptMeets
    <3>4. Meets(-1, U, L, n + 1, upper[us], r2)
      BY <1>2, <1>6, <3>3
    <3> QED
      BY <1>2, <1>9, <1>14, <2>1, <3>4
  <2>2. CASE turn(1, r0, r2, l) > 0 /\ ~ (~ (turn(1, r0, r2, l) > 0) /\ o2 = o1)
    <3>1. /\ o2.us \in Stops(-1, o1.upper, us, l)
          /\ \A j \in Stops(-1, o1.upper, us, l) : o2.us <= j
          /\ o2.rect[0] = o1.upper[o2.us] /\ o2.rect[2] = l
      BY <1>12, <2>2
    <3>2. turn(-1, r0, r2, l) <= 0 /\ turn(-1, r1, r3, l) >= 0
      BY <1>0, <2>2
    <3>3. Covers(-1, U, n, upper, us, l)
      <4>1. U[n - 1][1] < l[1]
        BY <1>5
      <4> QED
        BY <1>1, <1>5, <3>2, <4>1 DEF Half
    <3>4. Meets(-1, U, L, n, r1, r3)
      BY <1>2, <1>6
    <3>5. \A k \in 0 .. n - 1 : \E j \in us .. m : turn(-1, upper[j], l, U[k]) <= 0
      <4>1. CASE m = Len(upper)
        BY <3>3, <4>1 DEF Covers
      <4>2. CASE Popped(-1, upper, us, u, m)
        <5>1. /\ ~ (u[1] < l[1]) /\ u[1] = l[1]
              /\ (-1 = 1 => u[2] <= l[2]) /\ (-1 = -1 => l[2] <= u[2])
          BY <1>5
        <5>2. \A k \in 0 .. n - 1 :
                \/ \E j \in us .. m : turn(-1, upper[j], l, U[k]) <= 0
                \/ u[1] < l[1] /\ turn(-1, u, l, U[k]) <= 0
          BY <1>2, <1>5, <3>3, <4>2, <5>1, PoppedCovers
        <5> QED
          BY <5>1, <5>2
      <4> QED
        BY <1>13, <4>1, <4>2
    <3>6. m = Len(o1.upper) \/ turn(-1, l, o1.upper[m], o1.upper[m + 1]) > 0
      <4>1. CASE o1 = opt /\ m = Len(upper)
        BY <4>1
      <4>2. CASE o1.upper[m + 1] = u
        <5>1. upper[m] \in Points /\ upper[m][1] < l[1]
          <6>1. PICK k \in 0 .. n - 1 : upper[m] = U[k]
            BY <1>2, <1>14 DEF IsHull
          <6>2. k \in 0 .. (n + 1) - 1 /\ k < n
            BY <1>4
          <6>3. U[k] \in Points /\ U[k][1] < U[n][1]
            BY <1>4, <1>5, <6>2 DEF IsPath
          <6> QED
            BY <1>5, <6>1, <6>3
        <5>2. l[2] < u[2]
          <6>1. CASE \A k \in 0 .. n : L[k][2] < U[k][2]
            BY <1>4, <6>1
          <6>2. CASE \A k \in 0 .. n : L[k] = U[k]
            <7>1. PICK k0 \in 0 .. n - 1 : r0 = U[k0]
              BY <1>2, <1>3 DEF IsHull
            <7>2. PICK k2 \in 0 .. n - 1 : r2 = L[k2]
              BY <1>2
            <7>3. r0 = L[k0] /\ r2 = U[k2]
              <8>1. k0 \in 0 .. n /\ k2 \in 0 .. n
                OBVIOUS
              <8> QED
                BY <6>2, <7>1, <7>2, <8>1
            <7>4. /\ turn(1, r1, r3, r0) <= 0 /\ turn(1, r1, r3, r0) >= 0
                  /\ turn(1, r1, r3, r2) <= 0 /\ turn(1, r1, r3, r2) >= 0
              BY <1>2, <7>1, <7>2, <7>3 DEF Meets
            <7>5. turn(1, r1, r3, r0) = 0 /\ turn(1, r1, r3, r2) = 0
              <8>1. turn(1, r1, r3, r0) \in Int /\ turn(1, r1, r3, r2) \in Int
                BY <1>7, <1>8
              <8> QED
                BY <7>4, <8>1
            <7>6. turn(1, r0, r2, l) <= 0
              BY <1>5, <1>7, <7>5, OneLine
            <7>7. turn(1, r0, r2, l) \in Int
              BY <1>5, <1>7, <1>8
            <7> QED
              BY <2>2, <7>6, <7>7
          <6> QED
            BY <6>1, <6>2
        <5>3. turn(-1, l, upper[m], u) > 0
          BY <1>5, <5>1, <5>2, StopsBelow
        <5>4. o1.upper[m] = upper[m]
          BY <1>13, <1>14
        <5> QED
          BY <4>2, <5>3, <5>4
      <4> QED
        BY <1>13, <4>1, <4>2
    <3>7. o1.upper \in Seq(Points)
      BY <1>9 DEF SegmentRecords
    <3>8. /\ o2.us \in us .. m /\ o1.upper[o2.us] = upper[o2.us]
          /\ Meets(-1, U, L, n + 1, upper[o2.us], l)
      <4>1. /\ m \in us .. Len(upper) /\ m <= Len(o1.upper)
            /\ \A e \in 1 .. m : o1.upper[e] = upper[e]
        BY <1>13
      <4>2. Half(-1, U, L, n, upper, us, r0, r2, r1, r3) /\ Bars(-1, U, L, n + 1)
        BY <1>1, <1>6
      <4>3. /\ o2.us \in Stops(-1, o1.upper, us, l)
            /\ \A j \in Stops(-1, o1.upper, us, l) : o2.us <= j
        BY <3>1
      <4> DEFINE g == o1.upper
                 i == o2.us
                 l2 == Len(upper)
      <4>4. /\ g \in Seq(Points) /\ m <= Len(g) /\ \A e \in 1 .. m : g[e] = upper[e]
            /\ m = Len(g) \/ turn(-1, L[n], g[m], g[m + 1]) > 0
            /\ \A k \in 0 .. n - 1 : \E j \in us .. m : turn(-1, upper[j], L[n], U[k]) <= 0
            /\ i \in Stops(-1, g, us, L[n]) /\ \A j \in Stops(-1, g, us, L[n]) : i <= j
        BY <3>5, <3>6, <3>7, <4>1, <4>3
      <4>5. /\ Meets(-1, U, L, n, r1, r3) /\ turn(-1, r0, r2, L[n]) <= 0
            /\ turn(-1, r1, r3, L[n]) >= 0
        BY <3>2, <3>4
      <4> HIDE DEF g, i, r0, r1, r2, r3, upper, us
      <4>6. /\ i \in us .. m /\ g[i] = upper[i]
            /\ Meets(-1, U, L, n + 1, upper[i], L[n])
        BY <4>1, <4>2, <4>4, <4>5, TightenedLine
      <4> QED
        BY <4>6 DEF g, i
    <3> QED
      BY <3>1, <3>2, <3>8
  <2> QED
    BY <1>12, <2>1, <2>2
\* What the new lines say of the corners they replace
<1>16. /\ turn(1, o2.rect[0], o2.rect[2], r0) >= 0
       /\ turn(-1, o2.rect[1], o2.rect[3], r1) >= 0
  <2>1. PICK k0 \in 0 .. n - 1 : r0 = U[k0]
    BY <1>2, <1>3 DEF IsHull
  <2>2. PICK k1 \in 0 .. n - 1 : r1 = L[k1]
    BY <1>2, <1>3 DEF IsHull
  <2>3. k0 \in 0 .. (n + 1) - 1 /\ k1 \in 0 .. (n + 1) - 1
    BY <1>4
  <2>4. Meets(1, L, U, n + 1, o2.rect[0], o2.rect[2])
    BY <1>6, <1>15
  <2>5. Meets(-1, U, L, n + 1, o2.rect[1], o2.rect[3])
    BY <1>6, <1>10, <1>12
  <2>6. turn(1, o2.rect[0], o2.rect[2], r0) >= 0
    BY <2>1, <2>3, <2>4 DEF Meets
  <2>7. turn(-1, o2.rect[1], o2.rect[3], r1) >= 0
    BY <2>2, <2>3, <2>5 DEF Meets
  <2> QED
    BY <2>6, <2>7
<1>17. /\ o2.rect[0] \in Points /\ o2.rect[1] \in Points
       /\ o2.rect[2] \in Points /\ o2.rect[3] \in Points
       /\ o2.rect[0][1] < o2.rect[2][1] /\ o2.rect[1][1] < o2.rect[3][1]
  <2>1. Meets(1, L, U, n + 1, o2.rect[1], o2.rect[3])
    BY <1>10, <1>12
  <2>2. Meets(-1, U, L, n + 1, o2.rect[0], o2.rect[2])
    BY <1>15
  <2> QED
    BY <2>1, <2>2 DEF Meets
<1>18. \E k \in 0 .. n - 1 : r0 = U[k]
  BY <1>2, <1>3 DEF IsHull
<1>19. \E k \in 0 .. n - 1 : r1 = L[k]
  BY <1>2, <1>3 DEF IsHull
<1>20. Half(1, L, U, n + 1, o2.lower, o2.ls,
            o2.rect[1], o2.rect[3], o2.rect[0], o2.rect[2])
  <2> DEFINE i == o1.ls
             w == o1.rect[3]
             e == o2.rect[0]
             f == o2.rect[2]
             g == o2.lower
  <2>1. /\ i \in ls .. Len(lower)
        /\ \/ i = ls /\ w = r3
           \/ w = U[n] /\ turn(1, r1, r3, U[n]) <= 0
        /\ Meets(1, L, U, n + 1, lower[i], w)
        /\ w \in Points
    BY <1>10 DEF Meets
  <2>2. e \in Points /\ f \in Points /\ e[1] < f[1] /\ turn(1, e, f, r0) >= 0
    BY <1>16, <1>17
  <2>3. \/ g = lower /\ e = r0 /\ f = r2 /\ turn(1, r0, r2, L[n]) <= 0
        \/ /\ f = L[n] /\ turn(1, r0, r2, L[n]) >= 0
           /\ e[1] < f[1] /\ turn(1, e, f, r0) >= 0
           /\ \E end \in i .. Len(lower) : /\ \/ Popped(1, lower, i, L[n], end)
                                              \/ Popped(1, lower, ls, L[n], end)
                                           /\ g = Extended(lower, end, L[n])
    <3>1. CASE ~ (turn(1, r0, r2, l) > 0) /\ o2 = o1
      <4>1. turn(1, r0, r2, l) <= 0
        BY <1>0, <3>1
      <4> QED
        BY <1>9, <3>1, <4>1
    <3>2. ASSUME turn(1, r0, r2, l) > 0, o2.rect[2] = l,
                 NEW end \in 1 .. Len(lower), Popped(1, lower, o1.ls, l, end),
                 o2.lower = Extended(lower, end, l)
          PROVE  /\ turn(1, r0, r2, l) >= 0
                 /\ end \in i .. Len(lower)
      BY <1>0, <3>2 DEF Popped
    <3> QED
      BY <1>12, <2>2, <3>1, <3>2
  <2>4. g = o2.lower /\ o2.ls = i /\ o2.rect[1] = lower[i] /\ o2.rect[3] = w
    BY <1>10, <1>12
  <2>5. Half(1, L, U, n, lower, ls, r1, r3, r0, r2) /\ r0 \in Points /\ r2 \in Points
        /\ r0[1] < r2[1] /\ (\E k \in 0 .. n - 1 : r2 = L[k])
    BY <1>1, <1>2, <1>7
  <2> HIDE DEF i, w, e, f, g, r0, r1, r2, r3, lower, ls
  <2>6. Half(1, L, U, n + 1, g, i, lower[i], w, e, f)
    BY <1>18, <2>1, <2>2, <2>3, <2>5, HalfStep
  <2> QED
    BY <2>4, <2>6 DEF e, f
<1>21. Half(-1, U, L, n + 1, o2.upper, o2.us,
            o2.rect[0], o2.rect[2], o2.rect[1], o2.rect[3])
  <2> DEFINE i == o2.us
             w == o2.rect[2]
             e == o2.rect[1]
             f == o2.rect[3]
             g == o2.upper
  <2>1. /\ i \in us .. Len(upper)
        /\ \/ i = us /\ w = r2
           \/ w = L[n] /\ turn(-1, r0, r2, L[n]) <= 0
        /\ Meets(-1, U, L, n + 1, upper[i], w)
        /\ w \in Points
    BY <1>3, <1>14, <1>15 DEF Meets
  <2>2. e \in Points /\ f \in Points /\ e[1] < f[1] /\ turn(-1, e, f, r1) >= 0
    BY <1>16, <1>17
  <2>3. \/ g = upper /\ e = r1 /\ f = r3 /\ turn(-1, r1, r3, U[n]) <= 0
        \/ /\ f = U[n] /\ turn(-1, r1, r3, U[n]) >= 0
           /\ e[1] < f[1] /\ turn(-1, e, f, r1) >= 0
           /\ \E end \in i .. Len(upper) : /\ \/ Popped(-1, upper, i, U[n], end)
                                              \/ Popped(-1, upper, us, U[n], end)
                                           /\ g = Extended(upper, end, U[n])
    <3>1. CASE ~ (turn(1, r1, r3, u) < 0) /\ o1 = opt
      <4>1. turn(-1, r1, r3, u) <= 0
        BY <1>0, <3>1
      <4>2. g = upper /\ e = r1 /\ f = r3
        BY <1>12, <3>1
      <4> QED
        BY <4>1, <4>2
    <3>2. CASE /\ turn(1, r1, r3, u) < 0 /\ o1.rect[3] = u
               /\ Popped(-1, upper, us, u, m)
               /\ o1.upper = Extended(upper, m, u)
      <4>1. turn(-1, r1, r3, u) >= 0
        BY <1>0, <3>2
      <4>2. m \in i .. Len(upper)
        BY <1>3, <1>13, <1>14, <1>15
      <4>3. f = u /\ g = Extended(upper, m, u)
        BY <1>12, <3>2
      <4> QED
        BY <2>2, <3>2, <4>1, <4>2, <4>3
    <3> QED
      BY <1>13, <3>1, <3>2
  <2>4. o2.rect[0] = upper[i]
    BY <1>15
  <2>5. Half(-1, U, L, n, upper, us, r0, r2, r1, r3) /\ r1 \in Points /\ r3 \in Points
        /\ r1[1] < r3[1] /\ (\E k \in 0 .. n - 1 : r3 = U[k])
    BY <1>1, <1>2, <1>7
  <2> HIDE DEF i, w, e, f, g, r0, r1, r2, r3, upper, us
  <2>6. Half(-1, U, L, n + 1, g, i, upper[i], w, e, f)
    BY <1>6, <1>19, <2>1, <2>2, <2>3, <2>5, HalfStep
  <2> QED
    BY <2>4, <2>6 DEF g, i, w, e, f
<1>22. o2.num = opt.num
  BY <1>9, <1>12
<1> QED
  BY <1>12, <1>20, <1>21, <1>22 DEF o1, o2
-----------------------------------------------------------------------------
\* The points of the keys xs at the positions from 0 on
Overs(xs, epsilon) == [k \in 0 .. Len(xs) - 1 |-> Over(xs[k + 1], k, epsilon)]
Unders(xs, epsilon) == [k \in 0 .. Len(xs) - 1 |-> Under(xs[k + 1], k, epsilon)]

Increasing(xs) ==
  /\ xs \in Seq(Nat)
  /\ \A i, j \in 1 .. Len(xs) : i < j => xs[i] < xs[j]

\* opt is the segment of the first n of the keys.
SegmentOf(xs, epsilon, n, opt) ==
  /\ n \in 0 .. Len(xs)
  /\ opt \in SegmentRecords /\ opt.num = n
  /\ n = 1 => /\ opt.rect[0] = Overs(xs, epsilon)[0]
              /\ opt.rect[1] = Unders(xs, epsilon)[0]
              /\ opt.upper = <<Overs(xs, epsilon)[0]>>
              /\ opt.lower = <<Unders(xs, epsilon)[0]>>
              /\ opt.us = 1 /\ opt.ls = 1
  /\ n > 1 => Segment(Overs(xs, epsilon), Unders(xs, epsilon), n, opt)

LEMMA PointsLemma ==
  ASSUME NEW xs, Increasing(xs), NEW epsilon \in Nat
  PROVE  /\ \A n \in 0 .. Len(xs) : Bars(1, Unders(xs, epsilon), Overs(xs, epsilon), n)
         /\ \A k \in 0 .. Len(xs) - 1 :
              /\ Overs(xs, epsilon)[k] = Over(xs[k + 1], k, epsilon)
              /\ Unders(xs, epsilon)[k] = Under(xs[k + 1], k, epsilon)
              /\ Overs(xs, epsilon)[k] = <<xs[k + 1], k + epsilon>>
              /\ Unders(xs, epsilon)[k][1] = xs[k + 1]
              /\ Unders(xs, epsilon)[k][2] \in Nat
              /\ Unders(xs, epsilon)[k][2] >= k - epsilon
              /\ epsilon = 0 => Unders(xs, epsilon)[k] = Overs(xs, epsilon)[k]
              /\ epsilon # 0 => Unders(xs, epsilon)[k][2] < Overs(xs, epsilon)[k][2]
              /\ Unders(xs, epsilon)[k] \in Points /\ Overs(xs, epsilon)[k] \in Points
<1> DEFINE U == Overs(xs, epsilon)
           L == Unders(xs, epsilon)
<1>1. ASSUME NEW k \in 0 .. Len(xs) - 1
      PROVE  /\ U[k] = Over(xs[k + 1], k, epsilon) /\ L[k] = Under(xs[k + 1], k, epsilon)
             /\ U[k] = <<xs[k + 1], k + epsilon>>
             /\ L[k] = <<xs[k + 1], IF k <= epsilon THEN 0 ELSE k - epsilon>>
             /\ xs[k + 1] \in Nat /\ k \in Nat
  <2>1. k + 1 \in 1 .. Len(xs) /\ Len(xs) \in Nat
    BY DEF Increasing
  <2>2. xs[k + 1] \in Nat
    BY <2>1 DEF Increasing
  <2> QED
    BY <2>2 DEF Overs, Unders, Over, Under
<1> HIDE DEF U, L
<1>2. ASSUME NEW k \in 0 .. Len(xs) - 1
      PROVE  /\ L[k][1] = xs[k + 1] /\ L[k][2] \in Nat /\ L[k][2] >= k - epsilon
             /\ U[k][1] = xs[k + 1] /\ U[k][2] = k + epsilon
             /\ L[k][2] <= U[k][2]
             /\ epsilon = 0 => L[k] = U[k]
             /\ epsilon # 0 => L[k][2] < U[k][2]
             /\ L[k] \in Points /\ U[k] \in Points
  <2> DEFINE y == IF k <= epsilon THEN 0 ELSE k - epsilon
  <2>1. /\ y \in Nat /\ y >= k - epsilon /\ y <= k + epsilon
        /\ epsilon = 0 => y = k + epsilon
        /\ epsilon # 0 => y < k + epsilon
    BY <1>1
  <2> HIDE DEF y
  <2>2. L[k] = <<xs[k + 1], y>> /\ U[k] = <<xs[k + 1], k + epsilon>>
    BY <1>1 DEF y
  <2>3. L[k] \in Points /\ U[k] \in Points
    BY <1>1, <2>1, <2>2 DEF Points
  <2> QED
    BY <2>1, <2>2, <2>3
<1>3. ASSUME NEW n \in 0 .. Len(xs) PROVE Bars(1, L, U, n)
  <2>1. Len(xs) \in Nat /\ \A k \in 0 .. n - 1 : k \in 0 .. Len(xs) - 1 /\ k + 1 \in 1 .. Len(xs)
    BY DEF Increasing
  <2>2. \A j, k \in 0 .. n - 1 : j < k => xs[j + 1] < xs[k + 1]
    <3> SUFFICES ASSUME NEW j \in 0 .. n - 1, NEW k \in 0 .. n - 1, j < k
                 PROVE  xs[j + 1] < xs[k + 1]
      OBVIOUS
    <3>1. j + 1 \in 1 .. Len(xs) /\ k + 1 \in 1 .. Len(xs) /\ j + 1 < k + 1
      BY <2>1
    <3> QED
      BY <3>1 DEF Increasing
  <2>3. IsPath(L, n) /\ IsPath(U, n)
    BY <1>2, <2>1, <2>2 DEF IsPath
  <2> QED
    BY <1>2, <2>1, <2>3 DEF Bars
<1> QED
  BY <1>1, <1>2, <1>3 DEF U, L

\* Straight above the left end of a line
LEMMA AboveStart ==
  ASSUME NEW s \in {1, -1}, NEW h \in Points, NEW o \in Points, NEW p \in Points,
         h[1] < o[1], p[1] = h[1], s = 1 => h[2] <= p[2], s = -1 => p[2] <= h[2]
  PROVE  turn(s, h, o, p) >= 0
<1>1. CASE s = 1  BY <1>1 DEF turn, cross, Minus, Points
<1>2. CASE s = -1  BY <1>2 DEF turn, cross, Minus, Points
<1> QED  BY <1>1, <1>2

\* The first two points: the lines are the two diagonals.
LEMMA FirstTwo ==
  ASSUME NEW U, NEW L, Bars(1, L, U, 2), NEW opt \in SegmentRecords, opt.num = 2,
         opt.rect[0] = U[0], opt.rect[1] = L[0], opt.rect[2] = L[1], opt.rect[3] = U[1],
         opt.upper = Append(<<U[0]>>, U[1]), opt.lower = Append(<<L[0]>>, L[1]),
         opt.us = 1, opt.ls = 1
  PROVE  Segment(U, L, 2, opt)
<1>1. /\ U[0] \in Points /\ U[1] \in Points /\ L[0] \in Points /\ L[1] \in Points
      /\ U[0][1] < U[1][1] /\ L[0][1] < L[1][1] /\ U[0][1] = L[0][1] /\ U[1][1] = L[1][1]
      /\ L[0][2] <= U[0][2] /\ L[1][2] <= U[1][2]
  <2>1. 0 \in 0 .. 2 - 1 /\ 1 \in 0 .. 2 - 1
    OBVIOUS
  <2> QED
    BY <2>1 DEF Bars, IsPath
<1>2. \A k \in 0 .. 2 - 1 : k = 0 \/ k = 1
  OBVIOUS
<1>3. ASSUME NEW s \in {1, -1}, NEW P, NEW O, Bars(s, P, O, 2)
      PROVE  Meets(s, P, O, 2, P[0], O[1])
  <2>1. /\ P[0] \in Points /\ P[1] \in Points /\ O[0] \in Points /\ O[1] \in Points
        /\ P[0][1] < P[1][1] /\ P[0][1] = O[0][1] /\ P[1][1] = O[1][1]
        /\ s = 1 => P[0][2] <= O[0][2] /\ P[1][2] <= O[1][2]
        /\ s = -1 => O[0][2] <= P[0][2] /\ O[1][2] <= P[1][2]
    <3>1. 0 \in 0 .. 2 - 1 /\ 1 \in 0 .. 2 - 1
      OBVIOUS
    <3> QED
      BY <1>3, <3>1 DEF Bars, IsPath
  <2>2. P[0][1] < O[1][1]
    BY <2>1
  <2>3. turn(s, P[0], O[1], P[0]) = 0 /\ turn(s, P[0], O[1], O[1]) = 0
    BY <2>1, TurnType
  <2>4. turn(s, P[0], O[1], P[1]) <= 0
    BY <2>1, <2>2, BelowEnd
  <2>5. turn(s, P[0], O[1], O[0]) >= 0
    <3>1. O[0][1] = P[0][1]
      BY <2>1
    <3> QED
      BY <2>1, <2>2, <3>1, AboveStart
  <2> QED
    BY <1>2, <2>1, <2>2, <2>3, <2>4, <2>5 DEF Meets
<1>4. Meets(1, L, U, 2, L[0], U[1]) /\ Meets(-1, U, L, 2, U[0], L[1])
  BY <1>3, OtherSide
<1>5. ASSUME NEW s \in {1, -1}, NEW P, P[0] \in Points, P[1] \in Points, P[0][1] < P[1][1]
      PROVE  /\ IsHull(s, P, 2, Append(<<P[0]>>, P[1]), 1)
             /\ \A q \in Points : Covers(s, P, 2, Append(<<P[0]>>, P[1]), 1, q)
  <2> DEFINE h == Append(<<P[0]>>, P[1])
  <2>1. h \in Seq(Points) /\ Len(h) = 2 /\ h[1] = P[0] /\ h[2] = P[1]
    BY <1>5
  <2> HIDE DEF h
  <2>2. \A e \in 1 .. Len(h) : e = 1 \/ e = 2
    BY <2>1
  <2>3. 0 \in 0 .. 2 - 1 /\ 1 \in 0 .. 2 - 1 /\ 1 \in 1 .. Len(h) /\ 2 \in 1 .. Len(h)
    BY <2>1
  <2>4. \A e \in 1 .. Len(h) : \E k \in 0 .. 2 - 1 : h[e] = P[k]
    BY <2>1, <2>2, <2>3
  <2>5. \A e, f \in 1 .. Len(h) : e < f => h[e][1] < h[f][1]
    <3> SUFFICES ASSUME NEW e \in 1 .. Len(h), NEW f \in 1 .. Len(h), e < f
                 PROVE  h[e][1] < h[f][1]
      OBVIOUS
    <3>1. e = 1 /\ f = 2
      BY <2>2
    <3> QED
      BY <1>5, <2>1, <3>1
  <2>6. ~ \E e \in 1 + 1 .. Len(h) - 1 : TRUE
    BY <2>1
  <2>7. IsHull(s, P, 2, h, 1)
    BY <2>1, <2>3, <2>4, <2>5, <2>6 DEF IsHull
  <2>8. ASSUME NEW q \in Points PROVE Covers(s, P, 2, h, 1, q)
    <3>1. turn(s, h[1], q, P[0]) <= 0 /\ turn(s, h[2], q, P[1]) <= 0
      <4>1. turn(s, P[0], q, P[0]) = 0 /\ turn(s, P[1], q, P[1]) = 0
        BY <1>5, TurnType
      <4> QED
        BY <2>1, <4>1
    <3> QED
      BY <1>2, <2>3, <3>1 DEF Covers
  <2> QED
    BY <2>7, <2>8 DEF h
<1>6. Half(1, L, U, 2, opt.lower, opt.ls, opt.rect[1], opt.rect[3], opt.rect[0], opt.rect[2])
  <2>1. opt.lower[1] = L[0] /\ 1 \in 0 .. 2 - 1
    BY <1>1
  <2>2. IsHull(1, L, 2, opt.lower, opt.ls) /\ \A q \in Points : Covers(1, L, 2, opt.lower, opt.ls, q)
    BY <1>1, <1>5
  <2> QED
    BY <1>4, <2>1, <2>2 DEF Half
<1>7. Half(-1, U, L, 2, opt.upper, opt.us, opt.rect[0], opt.rect[2], opt.rect[1], opt.rect[3])
  <2>1. opt.upper[1] = U[0] /\ 1 \in 0 .. 2 - 1
    BY <1>1
  <2>2. IsHull(-1, U, 2, opt.upper, opt.us) /\ \A q \in Points : Covers(-1, U, 2, opt.upper, opt.us, q)
    BY <1>1, <1>5
  <2> QED
    BY <1>4, <2>1, <2>2 DEF Half
<1> QED
  BY <1>6, <1>7 DEF Segment

\* A segment without points
LEMMA NewSegmentLemma ==
  ASSUME NEW xs \in Seq(Nat), NEW epsilon \in Nat
  PROVE  SegmentOf(xs, epsilon, 0, NewSegment)
<1>1. <<>> \in Seq(Points) /\ [c \in 0 .. 3 |-> <<0, 0>>] \in [0 .. 3 -> Points]
  BY DEF Points
<1>2. NewSegment \in SegmentRecords /\ NewSegment.num = 0
  BY <1>1 DEF NewSegment, SegmentRecords
<1>3. 0 \in 0 .. Len(xs)
  OBVIOUS
<1> QED
  BY <1>2, <1>3 DEF SegmentOf

\* add_point, whenever it takes the next point, leaves a segment with that point
\* more: both extreme lines meet all bars. It rests on every part of the hulls.
LEMMA add_pointLemma ==
  ASSUME NEW xs, Increasing(xs), NEW epsilon \in Nat,
         NEW n \in Nat, n < Len(xs), NEW opt, SegmentOf(xs, epsilon, n, opt),
         Takes(opt, xs[n + 1], n, epsilon)
  PROVE  SegmentOf(xs, epsilon, n + 1, add_point(opt, xs[n + 1], n, epsilon))
<1> DEFINE U == Overs(xs, epsilon)
           L == Unders(xs, epsilon)
           p1 == Over(xs[n + 1], n, epsilon)
           p2 == Under(xs[n + 1], n, epsilon)
           o == add_point(opt, xs[n + 1], n, epsilon)
<1>1. /\ Len(xs) \in Nat /\ n \in 0 .. Len(xs) - 1 /\ n + 1 \in 0 .. Len(xs)
      /\ \A k \in 0 .. n : k \in 0 .. Len(xs) - 1
  BY DEF Increasing
<1>2. /\ U[n] = p1 /\ L[n] = p2 /\ U[n] \in Points /\ L[n] \in Points
      /\ Bars(1, L, U, n + 1)
      /\ \/ \A k \in 0 .. n : L[k][2] < U[k][2]
         \/ \A k \in 0 .. n : L[k] = U[k]
  <2>1. /\ U[n] = p1 /\ L[n] = p2 /\ U[n] \in Points /\ L[n] \in Points
        /\ Bars(1, L, U, n + 1)
    BY <1>1, PointsLemma
  <2>2. CASE epsilon = 0
    <3>1. \A k \in 0 .. n : L[k] = U[k]
      BY <1>1, <2>2, PointsLemma
    <3> QED
      BY <2>1, <3>1
  <2>3. CASE epsilon # 0
    <3>1. \A k \in 0 .. n : L[k][2] < U[k][2]
      BY <1>1, <2>3, PointsLemma
    <3> QED
      BY <2>1, <3>1
  <2> QED
    BY <2>2, <2>3
<1> HIDE DEF U, L
<1>3. /\ opt \in SegmentRecords /\ opt.num = n
      /\ opt.rect \in [0 .. 3 -> Points] /\ opt.upper \in Seq(Points) /\ opt.lower \in Seq(Points)
      /\ opt.us \in Nat /\ opt.ls \in Nat
  BY DEF SegmentOf, SegmentRecords
<1>4. CASE n = 0
  <2>1. o = [num |-> 1, rect |-> [opt.rect EXCEPT ![0] = p1, ![1] = p2],
             upper |-> <<p1>>, lower |-> <<p2>>, us |-> 1, ls |-> 1]
    BY <1>3, <1>4 DEF add_point
  <2>2. p1 \in Points /\ p2 \in Points
    BY <1>2
  <2> HIDE DEF o, p1, p2
  <2>3. /\ o.num = 1 /\ o.rect \in [0 .. 3 -> Points]
        /\ o.rect[0] = p1 /\ o.rect[1] = p2
        /\ o.upper = <<p1>> /\ o.lower = <<p2>> /\ o.us = 1 /\ o.ls = 1
    <3> DEFINE r == [opt.rect EXCEPT ![0] = p1, ![1] = p2]
    <3>1. r \in [0 .. 3 -> Points] /\ r[0] = p1 /\ r[1] = p2
      BY <1>3, <2>2
    <3> HIDE DEF r
    <3>2. o = [num |-> 1, rect |-> r, upper |-> <<p1>>, lower |-> <<p2>>, us |-> 1, ls |-> 1]
      BY <2>1 DEF r
    <3> QED
      BY <3>1, <3>2
  <2>4. <<p1>> \in Seq(Points) /\ <<p2>> \in Seq(Points)
    BY <2>2
  <2>5. o \in SegmentRecords
    BY <2>1, <2>3, <2>4 DEF SegmentRecords
  <2>6. n + 1 = 1 /\ U[0] = p1 /\ L[0] = p2
    BY <1>2, <1>4 DEF p1, p2
  <2>7. SegmentOf(xs, epsilon, n + 1, o)
    BY <1>1, <2>3, <2>5, <2>6 DEF SegmentOf, U, L
  <2> QED
    BY <2>7 DEF o
<1>5. CASE n = 1
  <2>1. o = [opt EXCEPT !.num = 2, !.rect[2] = p2, !.rect[3] = p1,
                        !.upper = Append(@, p1), !.lower = Append(@, p2)]
    BY <1>3, <1>5 DEF add_point
  <2>2. p1 \in Points /\ p2 \in Points /\ U[1] = p1 /\ L[1] = p2
    BY <1>2, <1>5
  <2> HIDE DEF o, p1, p2
  <2>3. /\ opt.rect[0] = U[0] /\ opt.rect[1] = L[0]
        /\ opt.upper = <<U[0]>> /\ opt.lower = <<L[0]>> /\ opt.us = 1 /\ opt.ls = 1
    BY <1>5 DEF SegmentOf, U, L
  <2>4. /\ o.num = 2 /\ o.rect \in [0 .. 3 -> Points]
        /\ o.rect[0] = U[0] /\ o.rect[1] = L[0] /\ o.rect[2] = L[1] /\ o.rect[3] = U[1]
        /\ o.upper = Append(<<U[0]>>, p1) /\ o.lower = Append(<<L[0]>>, p2)
        /\ o.us = 1 /\ o.ls = 1
    BY <1>3, <2>1, <2>2, <2>3 DEF SegmentRecords
  <2>5. o.upper = Append(<<U[0]>>, U[1]) /\ o.lower = Append(<<L[0]>>, L[1])
    BY <2>2, <2>4
  <2>6. U[0] \in Points /\ L[0] \in Points
    BY <1>3, <2>3
  <2>7. Append(<<U[0]>>, U[1]) \in Seq(Points) /\ Append(<<L[0]>>, L[1]) \in Seq(Points)
    BY <2>2, <2>6
  <2>8. o \in SegmentRecords
    BY <1>3, <2>1, <2>4, <2>5, <2>7 DEF SegmentRecords
  <2>9. n + 1 = 2
    BY <1>5
  <2>10. Segment(U, L, 2, o)
    BY <1>2, <2>4, <2>5, <2>8, <2>9, FirstTwo
  <2>11. SegmentOf(xs, epsilon, n + 1, o)
    BY <1>1, <2>4, <2>8, <2>9, <2>10 DEF SegmentOf, U, L
  <2> QED
    BY <2>11 DEF o
<1>6. CASE n > 1
  <2> DEFINE t == LowerTightened(UpperTightened(opt, p1), p2,
                                 Minus(opt.rect[2], opt.rect[0]))
  <2>1. o = [t EXCEPT !.num = @ + 1]
    BY <1>3, <1>6 DEF add_point
  <2>2. Segment(U, L, n, opt)
    BY <1>6 DEF SegmentOf, U, L
  <2>3. /\ ~ Flatter(Minus(p1, opt.rect[2]), Minus(opt.rect[2], opt.rect[0]))
        /\ ~ Steeper(Minus(p2, opt.rect[3]), Minus(opt.rect[3], opt.rect[1]))
    BY <1>3, <1>6 DEF Takes
  <2>4. /\ turn(1, opt.rect[0], opt.rect[2], U[n]) >= 0
        /\ turn(1, opt.rect[1], opt.rect[3], L[n]) <= 0
    <3>1. /\ opt.rect[0] \in Points /\ opt.rect[1] \in Points
          /\ opt.rect[2] \in Points /\ opt.rect[3] \in Points
      BY <1>3
    <3> QED
      BY <1>2, <2>3, <3>1, SlopeLemma
  <2>5. n \in Nat \ {0}
    BY <1>6
  <2>6. /\ t \in SegmentRecords /\ t.num = opt.num
        /\ Half(1, L, U, n + 1, t.lower, t.ls, t.rect[1], t.rect[3], t.rect[0], t.rect[2])
        /\ Half(-1, U, L, n + 1, t.upper, t.us, t.rect[0], t.rect[2], t.rect[1], t.rect[3])
    <3> DEFINE x == LowerTightened(UpperTightened(opt, U[n]), L[n],
                                   Minus(opt.rect[2], opt.rect[0]))
    <3>1. t = x
      BY <1>2
    <3>2. /\ x \in SegmentRecords /\ x.num = opt.num
          /\ Half(1, L, U, n + 1, x.lower, x.ls, x.rect[1], x.rect[3], x.rect[0], x.rect[2])
          /\ Half(-1, U, L, n + 1, x.upper, x.us, x.rect[0], x.rect[2], x.rect[1], x.rect[3])
      BY <1>2, <2>2, <2>4, <2>5, SegmentStep
    <3> HIDE DEF t, x
    <3> QED
      BY <3>1, <3>2
  <2> HIDE DEF o, t
  <2>7. /\ o.num = n + 1 /\ o.lower = t.lower /\ o.ls = t.ls /\ o.upper = t.upper
        /\ o.us = t.us /\ o.rect = t.rect /\ o \in SegmentRecords
    <3>1. t \in SegmentRecords /\ t.num = n
      BY <1>3, <2>6
    <3>2. /\ o.lower = t.lower /\ o.ls = t.ls /\ o.upper = t.upper /\ o.us = t.us
          /\ o.rect = t.rect /\ o.num = n + 1
      BY <2>1, <3>1 DEF SegmentRecords
    <3>3. n + 1 \in Nat
      OBVIOUS
    <3>4. o \in SegmentRecords
      BY <2>1, <3>1, <3>3 DEF SegmentRecords
    <3> QED
      BY <3>2, <3>4
  <2>8. Segment(U, L, n + 1, o)
    BY <2>6, <2>7 DEF Segment
  <2>9. n + 1 # 1
    BY <1>6
  <2>10. SegmentOf(xs, epsilon, n + 1, o)
    BY <1>1, <2>7, <2>8, <2>9 DEF SegmentOf, U, L
  <2> QED
    BY <2>10 DEF o
<1> QED
  BY <1>4, <1>5, <1>6
\* x is a multiple of d.
Divides(d, x) == \E q \in Nat : x = d * q

\* What Euclid's algorithm keeps: x and y have the divisors of y and x % y.
LEMMA Remainder ==
  ASSUME NEW x \in Nat, NEW y \in Nat, y # 0, NEW d \in Nat, d # 0, Divides(d, y)
  PROVE  /\ x % y \in Nat /\ x % y < y
         /\ Divides(d, x) <=> Divides(d, x % y)
<1>1. /\ x \div y \in Nat /\ x % y \in 0 .. y - 1
      /\ x = y * (x \div y) + (x % y)
  OBVIOUS
<1>2. PICK b \in Nat : y = d * b
  BY DEF Divides
<1> DEFINE q == x \div y
           r == x % y
<1> HIDE DEF q, r
<1>3. q \in Nat /\ r \in Nat /\ x = y * q + r
  BY <1>1 DEF q, r
<1>6. y * q = d * (b * q) /\ b * q \in Nat
  BY <1>2, <1>3
<1>4. ASSUME Divides(d, x) PROVE Divides(d, r)
  <2>1. PICK a \in Nat : x = d * a
    BY <1>4 DEF Divides
  <2> DEFINE c == b * q
  <2> HIDE DEF c
  <2>2. c \in Nat /\ d * a = d * c + r
    BY <1>3, <1>6, <2>1 DEF c
  <2>3. r = d * (a - c)
    BY <2>1, <2>2, <1>3
  <2>4. a - c >= 0
    <3> SUFFICES ASSUME a - c < 0 PROVE FALSE
      BY <2>1, <2>2
    <3>1. d * (c - a) > 0
      BY <2>1, <2>2
    <3>2. d * (c - a) = -r
      BY <2>1, <2>2, <2>3, <1>3
    <3> QED
      BY <3>1, <3>2, <1>3
  <2> QED
    BY <2>1, <2>2, <2>3, <2>4 DEF Divides
<1>5. ASSUME Divides(d, r) PROVE Divides(d, x)
  <2>1. PICK a \in Nat : r = d * a
    BY <1>5 DEF Divides
  <2> DEFINE c == b * q
  <2> HIDE DEF c
  <2>2. c \in Nat /\ x = d * c + d * a
    BY <1>3, <1>6, <2>1 DEF c
  <2>3. x = d * (c + a)
    BY <2>1, <2>2
  <2> QED
    BY <2>1, <2>2, <2>3 DEF Divides
<1> QED
  BY <1>1, <1>4, <1>5 DEF r

\* The greatest number that divides both
Common(x, y) == {d \in 1 .. y : Divides(d, x) /\ Divides(d, y)}

LEMMA Self == \A x \in Nat : Divides(x, x) /\ Divides(1, x) /\ Divides(x, 0)
<1> TAKE x \in Nat
<1>1. x = x * 1 /\ x = 1 * x /\ 0 = x * 0 /\ 1 \in Nat /\ 0 \in Nat
  OBVIOUS
<1> QED
  BY <1>1 DEF Divides

LEMMA Divisor ==
  ASSUME NEW x \in Nat, NEW d \in Nat, x # 0, Divides(d, x)
  PROVE  d \in 1 .. x
<1>1. PICK q \in Nat : x = d * q
  BY DEF Divides
<1>2. d # 0 /\ q # 0
  BY <1>1
<1>3. d * (q - 1) >= 0
  BY <1>2, <1>1
<1>4. d * (q - 1) = d * q - d
  BY <1>1
<1> QED
  BY <1>1, <1>2, <1>3, <1>4

Euclid(g) ==
  g = [p \in Nat \X Nat |-> IF p[2] = 0 THEN p[1] ELSE g[<<p[2], p[1] % p[2]>>]]

LEMMA EuclidExists == \E g : Euclid(g)
<1> DEFINE top(S) == CHOOSE d \in S : \A e \in S : d >= e
           g == [p \in Nat \X Nat |-> IF p[2] = 0 THEN p[1]
                                      ELSE top(Common(p[1], p[2]))]
<1>1. ASSUME NEW x \in Nat, NEW y \in Nat, y # 0
      PROVE  /\ x % y \in Nat /\ g[<<y, x % y>>] = top(Common(x, y))
  <2>1. x % y \in Nat /\ x % y < y
    BY <1>1, Self, Remainder
  <2>2. \A d \in 1 .. y : Divides(d, y) => (Divides(d, x) <=> Divides(d, x % y))
    BY Remainder
  <2> DEFINE r == x % y
  <2>3. r \in Nat /\ r < y
    BY <2>1
  <2>4. \A d \in 1 .. y : Divides(d, y) => (Divides(d, x) <=> Divides(d, r))
    BY <2>2
  <2> HIDE DEF r
  <2>5. CASE r = 0
    <3>1. g[<<y, r>>] = y
      BY <2>3, <2>5
    <3>2. y \in Common(x, y)
      <4>1. Divides(y, y) /\ Divides(y, r) /\ y \in 1 .. y
      BY <2>5, <1>1, Self
    <4> QED
      BY <4>1, <2>4 DEF Common
    <3>3. top(Common(x, y)) = y
      BY <3>2 DEF Common
    <3> QED
      BY <3>1, <3>3, <2>3 DEF r
  <2>6. CASE r # 0
    <3>1. g[<<y, r>>] = top(Common(y, r))
      BY <2>3, <2>6
    <3>2. Common(y, r) = Common(x, y)
      <4>1. \A d \in Nat : Divides(d, r) => d \in 1 .. r
        BY <2>3, <2>6, Divisor
      <4>2. 1 .. r \subseteq 1 .. y
        BY <2>3
      <4>3. \A d : d \in Common(y, r) <=> d \in Common(x, y)
        BY <4>1, <4>2, <2>4 DEF Common
      <4> QED
        BY <4>3
    <3> QED
      BY <3>1, <3>2, <2>3 DEF r
  <2> QED
    BY <2>5, <2>6
<1>2. \A p \in Nat \X Nat :
        p[2] # 0 => g[p] = g[<<p[2], p[1] % p[2]>>]
  <2> TAKE p \in Nat \X Nat
  <2> HAVE p[2] # 0
  <2>1. p[1] \in Nat /\ p[2] \in Nat
    OBVIOUS
  <2>2. g[<<p[2], p[1] % p[2]>>] = top(Common(p[1], p[2]))
    BY <1>1, <2>1
  <2>3. g[p] = top(Common(p[1], p[2]))
    OBVIOUS
  <2> QED
    BY <2>2, <2>3
<1>3. \A p \in Nat \X Nat : p[2] = 0 => g[p] = p[1]
  OBVIOUS
<1> HIDE DEF top
<1>5. g = [p \in Nat \X Nat |-> g[p]]
  OBVIOUS
<1> HIDE DEF g
<1>4. g = [p \in Nat \X Nat |-> IF p[2] = 0 THEN p[1] ELSE g[<<p[2], p[1] % p[2]>>]]
  BY <1>2, <1>3, <1>5
<1> QED
  BY <1>4 DEF Euclid

LEMMA gcdLemma ==
  ASSUME NEW x \in Nat, NEW y \in Nat, y # 0
  PROVE  /\ gcd[<<x, y>>] \in Nat \ {0}
         /\ Divides(gcd[<<x, y>>], x) /\ Divides(gcd[<<x, y>>], y)
<1>1. gcd = [p \in Nat \X Nat |-> IF p[2] = 0 THEN p[1] ELSE gcd[<<p[2], p[1] % p[2]>>]]
  <2>1. gcd = CHOOSE g : Euclid(g)
    BY Zenon DEF gcd, Euclid
  <2>2. Euclid(gcd)
    BY <2>1, EuclidExists, Zenon
  <2> QED
    BY <2>2 DEF Euclid
<1> DEFINE Good(a, b) == /\ gcd[<<a, b>>] \in Nat \ {0}
                         /\ Divides(gcd[<<a, b>>], a)
                         /\ Divides(gcd[<<a, b>>], b)
           S == {b \in Nat : b # 0 /\ \E a \in Nat : ~ Good(a, b)}
<1>2. ASSUME NEW a \in Nat, NEW b \in Nat, b # 0
      PROVE  /\ a % b \in Nat /\ a % b < b
             /\ gcd[<<a, b>>] = gcd[<<b, a % b>>]
             /\ a % b = 0 => gcd[<<a, b>>] = b
  <2>1. a % b \in Nat /\ a % b < b
    BY <1>2, Self, Remainder
  <2>2. gcd[<<a, b>>] = gcd[<<b, a % b>>]
    BY <1>1, <1>2
  <2>3. a % b = 0 => gcd[<<b, a % b>>] = b
    BY <1>1, <1>2, <2>1
  <2> QED
    BY <2>1, <2>2, <2>3
<1>3. S = {}
  <2> SUFFICES ASSUME S # {} PROVE FALSE
    OBVIOUS
  <2>1. PICK b \in S : \A c \in S : b <= c
    BY FirstNumber
  <2>2. PICK a \in Nat : ~ Good(a, b)
    BY <2>1
  <2>3. b \in Nat /\ b # 0
    BY <2>1
  <2> DEFINE r == a % b
  <2>4. /\ r \in Nat /\ r < b /\ gcd[<<a, b>>] = gcd[<<b, r>>]
        /\ r = 0 => gcd[<<a, b>>] = b
    BY <1>2, <2>2, <2>3
  <2>7. \A d \in Nat : d # 0 /\ Divides(d, b) => (Divides(d, a) <=> Divides(d, r))
    BY <2>2, <2>3, Remainder
  <2> HIDE DEF r
  <2>5. CASE r = 0
    <3>1. Divides(b, b) /\ Divides(b, r)
      BY <2>3, <2>5, Self
    <3> QED
      BY <2>2, <2>3, <2>4, <2>5, <2>7, <3>1
  <2>6. CASE r # 0
    <3>1. r \notin S
      BY <2>1, <2>3, <2>4
    <3>2. Good(b, r)
      BY <3>1, <2>3, <2>4, <2>6
    <3> QED
      BY <2>2, <2>4, <2>7, <3>2
  <2> QED
    BY <2>5, <2>6
<1> QED
  BY <1>3
\* Division undoes a product.
LEMMA Cancel ==
  ASSUME NEW g \in Nat \ {0}, NEW q \in Nat
  PROVE  (g * q) \div g = q
<1> DEFINE x == g * q
           r == x \div g
<1>1. x \in Nat
  OBVIOUS
<1> HIDE DEF x
<1>2. r \in Nat /\ g * r <= x /\ x < g * r + g
  BY <1>1
<1> HIDE DEF r
<1>3. x = g * q
  BY DEF x
<1>4. g * (q - r) = g * q - g * r /\ g * (q - r) >= 0 /\ g * (q - r) < g
  BY <1>2, <1>3
<1>5. q - r >= 0
  <2> SUFFICES ASSUME r - q > 0 PROVE FALSE
    BY <1>2
  <2>1. g * (r - q) > 0
    BY <1>2
  <2> QED
    BY <2>1, <1>4, <1>2
<1>6. q - r < 1
  <2> SUFFICES ASSUME q - r - 1 >= 0 PROVE FALSE
    BY <1>2
  <2>1. g * (q - r - 1) >= 0
    BY <1>2
  <2>2. g * (q - r - 1) = g * (q - r) - g
    BY <1>2
  <2> QED
    BY <2>1, <2>2, <1>4, <1>2
<1>7. q = r
  BY <1>2, <1>5, <1>6
<1> QED
  BY <1>7 DEF r, x

\* A fraction in its lowest terms is the fraction.
LEMMA LowestLemma ==
  ASSUME NEW x \in Int, NEW d \in Nat \ {0}
  PROVE  LET o == Lowest(x, d)
         IN  /\ o.n \in Int /\ o.d \in Nat \ {0}
             /\ o.n * d = x * o.d
             /\ x >= 0 => o.n >= 0
<1> DEFINE m == IF x < 0 THEN -x ELSE x
           g == gcd[<<m, d>>]
<1>1. m \in Nat
  OBVIOUS
<1>2. g \in Nat \ {0} /\ Divides(g, m) /\ Divides(g, d)
  BY <1>1, gcdLemma
<1>3. Lowest(x, d) = [n |-> IF x < 0 THEN -((-x) \div g) ELSE x \div g, d |-> d \div g]
  BY DEF Lowest
<1>4. (x < 0 => m = -x) /\ (~ (x < 0) => m = x)
  OBVIOUS
<1> HIDE DEF m, g
<1>5. PICK p \in Nat : m = g * p
  BY <1>2 DEF Divides
<1>6. PICK q \in Nat : d = g * q
  BY <1>2 DEF Divides
<1>7. m \div g = p /\ d \div g = q
  BY <1>2, <1>5, <1>6, Cancel
<1> DEFINE o == Lowest(x, d)
<1>8. /\ o.n = IF x < 0 THEN -p ELSE p
      /\ o.d = q
  BY <1>3, <1>4, <1>7
<1> HIDE DEF o
<1>9. q # 0
  BY <1>2, <1>6
<1>10. p * d = m * q
  BY <1>2, <1>5, <1>6
<1>11. /\ o.n \in Int /\ o.d \in Nat \ {0} /\ (x >= 0 => o.n >= 0)
  BY <1>8, <1>9
<1>12. o.n * d = x * o.d
  <2>1. CASE x < 0
    <3>1. o.n * d = -(p * d)
      BY <1>8, <2>1
    <3>2. x * o.d = -(m * q)
      BY <1>8, <2>1, <1>4, <1>1
    <3> QED
      BY <3>1, <3>2, <1>10
  <2>2. CASE ~ (x < 0)
    BY <1>8, <2>2, <1>4, <1>10
  <2> QED
    BY <2>1, <2>2
<1> QED
  BY <1>11, <1>12 DEF o

\* The line that get_slope_intercept takes, at the x of a point that both extreme
\* lines pass below, or both above: so does it.
LEMMA IntersectionLemma ==
  ASSUME NEW rect \in [0 .. 3 -> Points],
         rect[0][1] < rect[2][1], rect[1][1] < rect[3][1],
         ~ Flatter(Minus(rect[3], rect[1]), Minus(rect[2], rect[0]))
  PROVE  LET s1 == Minus(rect[2], rect[0])
             s2 == Minus(rect[3], rect[1])
             S == s1.dy * s2.dx + s2.dy * s1.dx
             D == 2 * s1.dx * s2.dx
             i == get_intersection(rect)
         IN  /\ i[1] \in Int /\ i[2] \in Int /\ i[3] \in Nat \ {0}
             /\ S \in Int /\ D \in Nat \ {0}
             /\ \A z \in Points :
                  /\ cross(rect[0], rect[2], z) >= 0 /\ cross(rect[1], rect[3], z) >= 0
                     => S * (z[1] * i[3] - i[1]) + i[2] * D <= z[2] * i[3] * D
                  /\ cross(rect[0], rect[2], z) <= 0 /\ cross(rect[1], rect[3], z) <= 0
                     => S * (z[1] * i[3] - i[1]) + i[2] * D >= z[2] * i[3] * D
<1> DEFINE px == rect[0][1]
           py == rect[0][2]
           qx == rect[1][1]
           qy == rect[1][2]
           e == rect[2][1] - rect[0][1]
           f == rect[2][2] - rect[0][2]
           g == rect[3][1] - rect[1][1]
           h == rect[3][2] - rect[1][2]
           s1 == Minus(rect[2], rect[0])
           s2 == Minus(rect[3], rect[1])
           S == s1.dy * s2.dx + s2.dy * s1.dx
           D == 2 * s1.dx * s2.dx
           i == get_intersection(rect)
           a == e * h - f * g
           b == (qx - px) * h - (qy - py) * g
<1>1. /\ rect[0] \in Points /\ rect[1] \in Points /\ rect[2] \in Points
      /\ rect[3] \in Points
  OBVIOUS
<1>2. /\ px \in Int /\ py \in Int /\ qx \in Int /\ qy \in Int
      /\ e \in Nat \ {0} /\ f \in Int /\ g \in Nat \ {0} /\ h \in Int
  BY <1>1 DEF Points
<1>3. /\ s1.dx = e /\ s1.dy = f /\ s2.dx = g /\ s2.dy = h
  BY DEF Minus
<1>4. S = f * g + h * e /\ D = 2 * e * g
  BY <1>3
<1>5. a \in Int /\ b \in Int /\ a >= 0
  BY <1>2, <1>3 DEF Flatter
<1>6. \A z \in Points :
        /\ cross(rect[0], rect[2], z) = e * (z[2] - py) - f * (z[1] - px)
        /\ cross(rect[1], rect[3], z) = g * (z[2] - qy) - h * (z[1] - qx)
  BY DEF cross, Minus
<1>7. /\ f * g = h * e => i = <<px, py, 1>>
      /\ ~ (f * g = h * e) => i = <<px * a + b * e, py * a + b * f, a>>
  <2> DEFINE d == Minus(rect[1], rect[0])
  <2>1. d.dx = qx - px /\ d.dy = qy - py
    BY DEF Minus
  <2>2. f * g = h * e <=> Parallel(s1, s2)
    BY <1>2, <1>3 DEF Parallel
  <2>3. /\ s1.dx * s2.dy - s1.dy * s2.dx = a
        /\ d.dx * s2.dy - d.dy * s2.dx = b
    BY <1>3, <2>1
  <2>4. i = IF Parallel(s1, s2) THEN <<px, py, 1>>
            ELSE <<px * (s1.dx * s2.dy - s1.dy * s2.dx)
                     + (d.dx * s2.dy - d.dy * s2.dx) * s1.dx,
                   py * (s1.dx * s2.dy - s1.dy * s2.dx)
                     + (d.dx * s2.dy - d.dy * s2.dx) * s1.dy,
                   s1.dx * s2.dy - s1.dy * s2.dx>>
    BY Zenon DEF get_intersection
  <2>5. i = IF Parallel(s1, s2) THEN <<px, py, 1>>
            ELSE <<px * a + b * e, py * a + b * f, a>>
    BY <2>3, <2>4, <1>3, Zenon
  <2> QED
    BY <2>2, <2>5
<1>8. \A z \in Points : z[1] \in Int /\ z[2] \in Int
  BY DEF Points
<1> HIDE DEF px, py, qx, qy, e, f, g, h, S, D, i, s1, s2
<1>9. e * g > 0 /\ D \in Nat \ {0} /\ S \in Int
  BY <1>2, <1>4
<1>10. CASE f * g = h * e
  <2>1. i[1] = px /\ i[2] = py /\ i[3] = 1
    BY <1>7, <1>10
  <2>2. ASSUME NEW z \in Points
        PROVE  (S * (z[1] * i[3] - i[1]) + i[2] * D) - z[2] * i[3] * D
                 = -(2 * g) * cross(rect[0], rect[2], z)
    <3>1. S = 2 * (f * g)
      BY <1>2, <1>4, <1>10
    <3> DEFINE x == z[1]
               y == z[2]
    <3>2. x \in Int /\ y \in Int
      BY <1>8
    <3> HIDE DEF x, y
    <3>3. ((2 * (f * g)) * (x - px) + py * (2 * e * g)) - y * (2 * e * g)
            = -(2 * g) * (e * (y - py) - f * (x - px))
      BY <1>2, <3>2
    <3>4. z[1] * 1 - px = x - px /\ z[2] * 1 * D = y * D
      BY <3>2, <1>2, <1>9 DEF x, y
    <3>5. cross(rect[0], rect[2], z) = e * (y - py) - f * (x - px)
      BY <1>6 DEF x, y
    <3> QED
      <4>1. /\ S * (z[1] * i[3] - i[1]) = (2 * (f * g)) * (x - px)
            /\ i[2] * D = py * (2 * e * g)
            /\ z[2] * i[3] * D = y * (2 * e * g)
        BY <2>1, <3>1, <3>4, <1>4, Zenon
      <4> QED
        BY <4>1, <3>3, <3>5, Zenon
  <2>3. ASSUME NEW z \in Points
        PROVE  /\ cross(rect[0], rect[2], z) \in Int
               /\ S * (z[1] * i[3] - i[1]) + i[2] * D \in Int
               /\ z[2] * i[3] * D \in Int
    <3>1. z[1] \in Int /\ z[2] \in Int
      BY <1>8
    <3> QED
      BY <1>2, <1>6, <1>9, <2>1, <3>1
  <2>4. ASSUME NEW c \in Int
        PROVE  /\ c >= 0 => -(2 * g) * c <= 0
               /\ c <= 0 => -(2 * g) * c >= 0
    BY <1>2
  <2>5. ASSUME NEW z \in Points
        PROVE  /\ cross(rect[0], rect[2], z) >= 0
                    => S * (z[1] * i[3] - i[1]) + i[2] * D <= z[2] * i[3] * D
               /\ cross(rect[0], rect[2], z) <= 0
                    => S * (z[1] * i[3] - i[1]) + i[2] * D >= z[2] * i[3] * D
    <3> DEFINE c == cross(rect[0], rect[2], z)
               u == S * (z[1] * i[3] - i[1]) + i[2] * D
               v == z[2] * i[3] * D
    <3>6. c \in Int /\ u \in Int /\ v \in Int
      BY <2>3
    <3>7. u - v = -(2 * g) * c
      BY <2>2, Zenon
    <3>1. c \in Int /\ u \in Int /\ v \in Int /\ u - v = -(2 * g) * c
      BY <3>6, <3>7
    <3> HIDE DEF c, u, v
    <3>2. (c >= 0 => -(2 * g) * c <= 0) /\ (c <= 0 => -(2 * g) * c >= 0)
      BY <2>4, <3>1
    <3>3. (c >= 0 => u <= v) /\ (c <= 0 => u >= v)
      BY <3>1, <3>2
    <3> QED
      BY <3>3 DEF c, u, v
  <2> QED
    BY <2>1, <2>5, <1>2, <1>9 DEF S, D, i, s1, s2
<1>11. CASE ~ (f * g = h * e)
  <2>1. i[1] = px * a + b * e /\ i[2] = py * a + b * f /\ i[3] = a
    BY <1>7, <1>11
  <2>2. a > 0
    BY <1>2, <1>5, <1>11
  <2>7. b = (qx - px) * h - (qy - py) * g /\ a = e * h - f * g
    OBVIOUS
  <2> HIDE DEF a, b
  <2>6. px * a + b * e \in Int /\ py * a + b * f \in Int
    BY <1>2, <1>5
  <2>8. \* the point of intersection lies on the other line too
        py * a + b * f - qy * a \in Int
          /\ g * ((py * a + b * f) - qy * a) = h * ((px * a + b * e) - qx * a)
    <3>1. g * ((py * a + b * f) - qy * a) - h * ((px * a + b * e) - qx * a)
            = b * (g * f - h * e) + a * ((qx - px) * h - (qy - py) * g)
      BY <1>2, <1>5
    <3>2. b * (g * f - h * e) = -(b * a)
      BY <1>2, <1>5, <2>7
    <3>3. a * ((qx - px) * h - (qy - py) * g) = a * b
      BY <2>7
    <3>4. b * a = a * b /\ a * b \in Int
      BY <1>5
    <3>5. g * ((py * a + b * f) - qy * a) \in Int /\ h * ((px * a + b * e) - qx * a) \in Int
      BY <1>2, <1>5
    <3> QED
      BY <3>1, <3>2, <3>3, <3>4, <3>5, <1>2, <1>5
  <2>3. ASSUME NEW x \in Int, NEW y \in Int
        PROVE  LET c == e * (y - py) - f * (x - px)
                   d == g * (y - qy) - h * (x - qx)
                   i1 == px * a + b * e
                   i2 == py * a + b * f
               IN  ((f * g + h * e) * (x * a - i1) + i2 * (2 * e * g)) - y * a * (2 * e * g)
                     = -(g * a) * c - (e * a) * d
    <3> DEFINE i1 == px * a + b * e
               i2 == py * a + b * f
    <3>1. i1 \in Int /\ i2 \in Int /\ g * (i2 - qy * a) = h * (i1 - qx * a)
      BY <2>6, <2>8
    <3>2. e * (i2 - py * a) = f * (i1 - px * a)
      BY <1>2, <1>5
    <3> HIDE DEF i1, i2
    <3>3. f * (x * a - i1) + i2 * e - y * a * e
            = -a * (e * (y - py) - f * (x - px))
      <4>1. f * (x * a - i1) + i2 * e - y * a * e
              = (f * (x * a) - f * (px * a)) - f * (i1 - px * a) + e * (i2 - py * a) + e * (py * a) - y * a * e
        BY <1>2, <1>5, <3>1
      <4>2. (f * (x * a) - f * (px * a)) + e * (py * a) - y * a * e
            = -a * (e * (y - py) - f * (x - px))
        BY <1>2, <1>5
      <4> QED
        BY <4>1, <4>2, <3>2, <3>1, <1>2, <1>5
    <3>4. h * (x * a - i1) + i2 * g - y * a * g
            = -a * (g * (y - qy) - h * (x - qx))
      <4>1. h * (x * a - i1) + i2 * g - y * a * g
              = (h * (x * a) - h * (qx * a)) - h * (i1 - qx * a) + g * (i2 - qy * a) + g * (qy * a) - y * a * g
        BY <1>2, <1>5, <3>1
      <4>2. (h * (x * a) - h * (qx * a)) + g * (qy * a) - y * a * g
            = -a * (g * (y - qy) - h * (x - qx))
        BY <1>2, <1>5
      <4> QED
        BY <4>1, <4>2, <3>1, <1>2, <1>5
    <3> DEFINE c == e * (y - py) - f * (x - px)
               d == g * (y - qy) - h * (x - qx)
    <3>5. c \in Int /\ d \in Int
      BY <1>2
    <3>6. f * (x * a - i1) + i2 * e - y * a * e = -a * c
          /\ h * (x * a - i1) + i2 * g - y * a * g = -a * d
      BY <3>3, <3>4
    <3> HIDE DEF c, d
    <3>7. ((f * g + h * e) * (x * a - i1) + i2 * (2 * e * g)) - y * a * (2 * e * g)
            = g * (f * (x * a - i1) + i2 * e - y * a * e)
              + e * (h * (x * a - i1) + i2 * g - y * a * g)
      BY <3>1, <1>2, <1>5
    <3>8. g * (-a * c) + e * (-a * d) = -(g * a) * c - (e * a) * d
      BY <3>5, <1>2, <1>5
    <3>9. ((f * g + h * e) * (x * a - i1) + i2 * (2 * e * g)) - y * a * (2 * e * g)
            = -(g * a) * c - (e * a) * d
      BY <3>6, <3>7, <3>8
    <3> QED
      BY <3>9 DEF c, d, i1, i2
  <2>4. ASSUME NEW c \in Int, NEW d \in Int
        PROVE  /\ c >= 0 /\ d >= 0 => -(g * a) * c - (e * a) * d <= 0
               /\ c <= 0 /\ d <= 0 => -(g * a) * c - (e * a) * d >= 0
               /\ -(g * a) * c - (e * a) * d \in Int
    <3>1. g * a > 0 /\ e * a > 0 /\ g * a \in Int /\ e * a \in Int
      BY <1>2, <1>5, <2>2
    <3> DEFINE u == g * a
               w == e * a
    <3>2. u > 0 /\ w > 0 /\ u \in Int /\ w \in Int
      BY <3>1
    <3> HIDE DEF u, w
    <3>3. /\ c >= 0 => u * c >= 0
          /\ c <= 0 => u * c <= 0
          /\ d >= 0 => w * d >= 0
          /\ d <= 0 => w * d <= 0
          /\ u * c \in Int /\ w * d \in Int
      BY <3>2
    <3>4. -u * c - w * d = -(u * c) - w * d
      BY <3>2
    <3>5. /\ c >= 0 /\ d >= 0 => -u * c - w * d <= 0
          /\ c <= 0 /\ d <= 0 => -u * c - w * d >= 0
          /\ -u * c - w * d \in Int
      BY <3>3, <3>4
    <3> QED
      BY <3>5 DEF u, w
  <2>5. ASSUME NEW z \in Points
        PROVE  /\ cross(rect[0], rect[2], z) >= 0 /\ cross(rect[1], rect[3], z) >= 0
                    => S * (z[1] * i[3] - i[1]) + i[2] * D <= z[2] * i[3] * D
               /\ cross(rect[0], rect[2], z) <= 0 /\ cross(rect[1], rect[3], z) <= 0
                    => S * (z[1] * i[3] - i[1]) + i[2] * D >= z[2] * i[3] * D
    <3> DEFINE c == cross(rect[0], rect[2], z)
               d == cross(rect[1], rect[3], z)
               u == S * (z[1] * i[3] - i[1]) + i[2] * D
               v == z[2] * i[3] * D
    <3>0. z[1] \in Int /\ z[2] \in Int
      BY <1>8
    <3>1. c \in Int /\ d \in Int
      BY <1>2, <1>6, <3>0
    <3>2. u \in Int /\ v \in Int
      BY <1>9, <2>1, <2>6, <3>0, <1>5
    <3> DEFINE x == z[1]
               y == z[2]
               i1 == px * a + b * e
               i2 == py * a + b * f
    <3>6. x \in Int /\ y \in Int
      BY <3>0
    <3>7. c = e * (y - py) - f * (x - px) /\ d = g * (y - qy) - h * (x - qx)
      BY <1>6
    <3>8. ((f * g + h * e) * (x * a - i1) + i2 * (2 * e * g)) - y * a * (2 * e * g)
            = -(g * a) * (e * (y - py) - f * (x - px))
              - (e * a) * (g * (y - qy) - h * (x - qx))
      BY <3>6, <2>3
    <3>9. u = (f * g + h * e) * (x * a - i1) + i2 * (2 * e * g)
          /\ v = y * a * (2 * e * g)
      BY <2>1, <1>4
    <3>3. u - v = -(g * a) * c - (e * a) * d
      BY <3>7, <3>8, <3>9, Zenon
    <3> HIDE DEF c, d, u, v
    <3>4. /\ c >= 0 /\ d >= 0 => -(g * a) * c - (e * a) * d <= 0
          /\ c <= 0 /\ d <= 0 => -(g * a) * c - (e * a) * d >= 0
      BY <2>4, <3>1
    <3>5. (c >= 0 /\ d >= 0 => u <= v) /\ (c <= 0 /\ d <= 0 => u >= v)
      <4> DEFINE w == -(g * a) * c - (e * a) * d
      <4>1. w = u - v /\ (c >= 0 /\ d >= 0 => w <= 0) /\ (c <= 0 /\ d <= 0 => w >= 0)
        BY <3>3, <3>4
      <4> HIDE DEF w
      <4> QED
        BY <4>1, <3>2
    <3>10. c = cross(rect[0], rect[2], z) /\ d = cross(rect[1], rect[3], z)
          /\ u = S * (z[1] * i[3] - i[1]) + i[2] * D /\ v = z[2] * i[3] * D
      BY DEF c, d, u, v
    <3> QED
      BY <3>5, Zenon DEF c, d, u, v
  <2> QED
    BY <2>1, <2>2, <2>5, <2>6, <1>5, <1>9 DEF S, D, i, s1, s2
<1> QED
  BY <1>10, <1>11
\* A common positive factor
LEMMA Factor ==
  ASSUME NEW m \in Nat \ {0}, NEW p \in Int, NEW q \in Int
  PROVE  /\ p * m <= q * m => p <= q
         /\ p <= q => p * m <= q * m
         /\ p * m < q * m => p < q
<1>1. (p - q) * m = p * m - q * m
  OBVIOUS
<1>2. /\ p - q > 0 => (p - q) * m > 0
      /\ p - q <= 0 => (p - q) * m <= 0
      /\ p - q >= 0 => (p - q) * m >= 0
  OBVIOUS
<1>3. p * m \in Int /\ q * m \in Int
  OBVIOUS
<1> QED
  BY <1>1, <1>2, <1>3

\* The height of the line at x, from the heights of the point of intersection
LEMMA LineHeight ==
  ASSUME NEW num \in Int, NEW den \in Nat \ {0}, NEW icn \in Int,
         NEW icd \in Nat \ {0}, NEW S \in Int, NEW D \in Nat \ {0},
         NEW i1 \in Int, NEW i2 \in Int, NEW i3 \in Nat \ {0},
         NEW x \in Int, NEW y \in Int,
         num * D = S * den,
         icn * (i3 * den) = (i2 * den - i1 * num) * icd
  PROVE  /\ S * (x * i3 - i1) + i2 * D <= y * i3 * D
              => num * x * icd + icn * den <= y * (den * icd)
         /\ S * (x * i3 - i1) + i2 * D >= y * i3 * D
              => num * x * icd + icn * den >= y * (den * icd)
<1> DEFINE W == S * (x * i3 - i1) + i2 * D
           v == num * x * icd + icn * den
           m == i3 * D
           c == den * icd
           z == y * i3 * D
<1>1. v * i3 = icd * (num * (x * i3 - i1) + i2 * den)
  <2>1. v * i3 = (num * x * icd) * i3 + icn * (i3 * den)
    OBVIOUS
  <2>2. (num * x * icd) * i3 + (i2 * den - i1 * num) * icd
          = icd * (num * (x * i3 - i1) + i2 * den)
    OBVIOUS
  <2> QED
    BY <2>1, <2>2
<1>2. (num * (x * i3 - i1) + i2 * den) * D = den * W
  <2> DEFINE u == x * i3 - i1
  <2>1. u \in Int /\ W = S * u + i2 * D
    OBVIOUS
  <2> HIDE DEF u, W
  <2>2. (num * u + i2 * den) * D = (num * D) * u + i2 * den * D
    BY <2>1
  <2>3. (S * den) * u + i2 * den * D = den * (S * u + i2 * D)
    BY <2>1
  <2>4. (num * u + i2 * den) * D = den * W
    BY <2>1, <2>2, <2>3
  <2> QED
    BY <2>4 DEF u
<1>3. v * m = W * c
  <2> DEFINE A == num * (x * i3 - i1) + i2 * den
  <2>1. A \in Int /\ v \in Int /\ W \in Int
    OBVIOUS
  <2> HIDE DEF A, W, v
  <2>2. v * i3 = icd * A /\ A * D = den * W
    BY <1>1, <1>2 DEF A
  <2>3. v * (i3 * D) = (v * i3) * D
    BY <2>1
  <2>4. (icd * A) * D = icd * (A * D)
    BY <2>1
  <2>5. icd * (den * W) = W * (den * icd)
    BY <2>1
  <2> QED
    BY <2>2, <2>3, <2>4, <2>5
<1>4. /\ m \in Nat \ {0} /\ c \in Nat \ {0} /\ W \in Int /\ v \in Int /\ z \in Int
      /\ z * c = (y * c) * m /\ y * c \in Int
  OBVIOUS
<1> DEFINE yc == y * c
<1>5. yc \in Int /\ z * c = yc * m
  BY <1>4
<1> HIDE DEF W, v, m, c, z, yc
<1>6. W <= z => v <= yc
  <2> HAVE W <= z
  <2>1. W * c <= z * c
    BY <1>4, Factor
  <2>2. v * m <= yc * m
    BY <2>1, <1>3, <1>5
  <2> QED
    BY <2>2, <1>4, <1>5, Factor
<1>7. W >= z => v >= yc
  <2> HAVE W >= z
  <2>0. z <= W
    BY <1>4
  <2>1. z * c <= W * c
    BY <2>0, <1>4, Factor
  <2>2. yc * m <= v * m
    BY <2>1, <1>3, <1>5
  <2>3. yc <= v
    BY <2>2, <1>4, <1>5, Factor
  <2> QED
    BY <2>3, <1>4, <1>5
<1> QED
  BY <1>6, <1>7 DEF W, v, m, c, z, yc

\* What rounding slope * x down costs: less than one.
LEMMA RoundedLine ==
  ASSUME NEW num \in Nat, NEW den \in Nat \ {0}, NEW icn \in Int,
         NEW icd \in Nat \ {0}, NEW x \in Nat, NEW y \in Int
  PROVE  LET at == ((num * x) \div den) * icd + icn
         IN  /\ at \in Int
             /\ num * x * icd + icn * den <= y * (den * icd) => at <= y * icd
             /\ num * x * icd + icn * den >= y * (den * icd) => at > (y - 1) * icd
<1> DEFINE w == num * x
           t == w \div den
           at == t * icd + icn
           v == num * x * icd + icn * den
<1>1. w \in Nat
  OBVIOUS
<1>2. v = w * icd + icn * den
  OBVIOUS
<1> HIDE DEF w
<1>3. t \in Nat /\ t * den <= w /\ w < t * den + den
  BY <1>1
<1> HIDE DEF t
<1>4. /\ at \in Int /\ v \in Int
      /\ at * den = t * den * icd + icn * den
  BY <1>1, <1>2, <1>3
<1>5. t * den * icd <= w * icd /\ w * icd < t * den * icd + den * icd
  <2> DEFINE a == t * den
  <2>1. a \in Int /\ w - a >= 0 /\ w - a < den
    BY <1>1, <1>3
  <2> HIDE DEF a
  <2>2. (w - a) * icd >= 0 /\ (den - (w - a)) * icd > 0
    BY <2>1, <1>1
  <2>3. (w - a) * icd = w * icd - a * icd
        /\ (den - (w - a)) * icd = den * icd - (w * icd - a * icd)
    BY <2>1, <1>1
  <2>4. a * icd <= w * icd /\ w * icd < a * icd + den * icd
    BY <2>1, <2>2, <2>3, <1>1
  <2> QED
    BY <2>4 DEF a
<1>6. v <= y * (den * icd) => at <= y * icd
  <2> HAVE v <= y * (den * icd)
  <2>1. at * den <= v
    BY <1>1, <1>2, <1>3, <1>4, <1>5
  <2>2. y * (den * icd) = (y * icd) * den /\ y * icd \in Int
    OBVIOUS
  <2> DEFINE u == y * icd
  <2> HIDE DEF u, at, v
  <2>3. u \in Int /\ at * den <= u * den
    BY <2>1, <2>2, <1>4 DEF u
  <2>4. at <= u
    BY <2>3, <1>4, Factor
  <2> QED
    BY <2>4 DEF u
<1>7. v >= y * (den * icd) => at > (y - 1) * icd
  <2> HAVE v >= y * (den * icd)
  <2>1. v < at * den + den * icd
    BY <1>1, <1>2, <1>3, <1>4, <1>5
  <2>2. y * (den * icd) - den * icd = ((y - 1) * icd) * den /\ (y - 1) * icd \in Int
    OBVIOUS
  <2> DEFINE u == (y - 1) * icd
  <2>5. den * icd \in Int /\ y * (den * icd) \in Int /\ at * den \in Int
    BY <1>4
  <2> HIDE DEF u, at, v
  <2>3. u \in Int /\ u * den < at * den
    BY <2>1, <2>2, <2>5, <1>4 DEF u
  <2>4. u < at
    BY <2>3, <1>4, Factor
  <2> QED
    BY <2>3, <2>4, <1>4 DEF u
<1> QED
  BY <1>4, <1>6, <1>7 DEF t, w
\* What a line promises of the first n keys: it does not fall, and the position
\* that the code computes from it, slope * key rounded down, is at most epsilon
\* too high and less than epsilon + 1 too low.
WithinBound(xs, epsilon, n, line) ==
  /\ line.num \in Nat /\ line.icn \in Int
  /\ line.den \in Nat \ {0} /\ line.icd \in Nat \ {0}
  /\ \A k \in 0 .. n - 1 :
       ((line.num * xs[k + 1]) \div line.den) * line.icd + line.icn - k * line.icd
         \in 1 - (epsilon + 1) * line.icd .. epsilon * line.icd

\* A segment of one key
LEMMA FlatLine ==
  ASSUME NEW xs, Increasing(xs), NEW epsilon \in Nat, NEW opt,
         SegmentOf(xs, epsilon, 1, opt)
  PROVE  WithinBound(xs, epsilon, 1, get_slope_intercept(opt))
<1> DEFINE line == get_slope_intercept(opt)
           half == epsilon \div 2
<1>1. /\ Len(xs) \in Nat /\ 1 \in 0 .. Len(xs) /\ opt.num = 1
      /\ opt.rect[0] = Overs(xs, epsilon)[0] /\ opt.rect[1] = Unders(xs, epsilon)[0]
  BY DEF SegmentOf, Increasing
<1>2. 0 \in 0 .. Len(xs) - 1 /\ 0 + 1 = 1
  BY <1>1
<1>3. /\ Overs(xs, epsilon)[0] = Over(xs[0 + 1], 0, epsilon)
      /\ Unders(xs, epsilon)[0] = Under(xs[0 + 1], 0, epsilon)
  BY <1>2, PointsLemma
<1>4. opt.rect[0][2] = epsilon /\ opt.rect[1][2] = 0
  BY <1>1, <1>3 DEF Over, Under
<1>5. line = [num |-> 0, den |-> 1,
              icn |-> (opt.rect[0][2] + opt.rect[1][2]) \div 2, icd |-> 1]
  BY <1>1, Zenon DEF get_slope_intercept
<1>6. line.num = 0 /\ line.den = 1 /\ line.icd = 1 /\ line.icn = half
  BY <1>4, <1>5
<1>7. half \in Nat /\ half <= epsilon
  OBVIOUS
<1> HIDE DEF half, line
<1>8. \A k \in 0 .. 1 - 1 :
        ((line.num * xs[k + 1]) \div line.den) * line.icd + line.icn - k * line.icd
          \in 1 - (epsilon + 1) * line.icd .. epsilon * line.icd
  <2> TAKE k \in 0 .. 1 - 1
  <2>1. k = 0 /\ xs[k + 1] \in Nat
    BY <1>1 DEF Increasing
  <2>2. (line.num * xs[k + 1]) \div line.den = 0
    BY <2>1, <1>6
  <2> QED
    BY <2>1, <2>2, <1>6, <1>7
<1> QED
  BY <1>6, <1>7, <1>8 DEF WithinBound, line

LEMMA Crossing == \A a, b, c \in Points : cross(a, b, c) \in Int
<1> TAKE a, b, c \in Points
<1> QED
  BY DEF cross, Minus, Points

\* The mean of the two extreme slopes is no fall: the steepest line rises at least
\* as much as the flattest one falls, because the bars only move up.
LEMMA MeanSlope ==
  ASSUME NEW xs, Increasing(xs), NEW epsilon \in Nat, NEW n \in Nat, n > 1,
         n <= Len(xs), NEW rect \in [0 .. 3 -> Points],
         NEW i \in 0 .. n - 1, rect[1] = Unders(xs, epsilon)[i],
         NEW j \in 0 .. n - 1, rect[3] = Overs(xs, epsilon)[j],
         Meets(-1, Overs(xs, epsilon), Unders(xs, epsilon), n, rect[0], rect[2]),
         Meets(1, Unders(xs, epsilon), Overs(xs, epsilon), n, rect[1], rect[3])
  PROVE  /\ ~ Flatter(Minus(rect[3], rect[1]), Minus(rect[2], rect[0]))
         /\ LET s1 == Minus(rect[2], rect[0])
                s2 == Minus(rect[3], rect[1])
            IN  s1.dy * s2.dx + s2.dy * s1.dx >= 0
<1> DEFINE U == Overs(xs, epsilon)
           L == Unders(xs, epsilon)
           px == rect[0][1]
           py == rect[0][2]
           qx == rect[1][1]
           qy == rect[1][2]
           e == rect[2][1] - rect[0][1]
           f == rect[2][2] - rect[0][2]
           g == rect[3][1] - rect[1][1]
           h == rect[3][2] - rect[1][2]
           s1 == Minus(rect[2], rect[0])
           s2 == Minus(rect[3], rect[1])
<1>1. /\ rect[0] \in Points /\ rect[1] \in Points /\ rect[2] \in Points
      /\ rect[3] \in Points
  OBVIOUS
<1>2. Len(xs) \in Nat /\ \A k \in 0 .. n - 1 : k \in 0 .. Len(xs) - 1
  BY DEF Increasing
<1>3. \A k \in 0 .. n - 1 :
        /\ U[k] = <<xs[k + 1], k + epsilon>>
        /\ L[k] = Under(xs[k + 1], k, epsilon)
        /\ L[k][1] = xs[k + 1]
        /\ L[k] \in Points /\ U[k] \in Points
  BY <1>2, PointsLemma
<1>4. rect[0][1] < rect[2][1] /\ rect[1][1] < rect[3][1]
  BY DEF Meets
<1>5. /\ px \in Int /\ py \in Int /\ qx \in Int /\ qy \in Int
      /\ e \in Nat \ {0} /\ f \in Int /\ g \in Nat \ {0} /\ h \in Int
  <2>1. \A p \in Points : p[1] \in Int /\ p[2] \in Int
    BY DEF Points
  <2>2. /\ px \in Int /\ py \in Int /\ qx \in Int /\ qy \in Int
        /\ rect[2][1] \in Int /\ rect[2][2] \in Int
        /\ rect[3][1] \in Int /\ rect[3][2] \in Int
    BY <1>1, <2>1
  <2>3. \A a, b \in Int : b - a \in Int /\ (a < b => b - a \in Nat \ {0})
    OBVIOUS
  <2>4. e \in Nat \ {0} /\ g \in Nat \ {0}
    BY <2>2, <2>3, <1>4, Zenon
  <2>5. f \in Int /\ h \in Int
    BY <2>2, <2>3, Zenon
  <2> QED
    BY <2>2, <2>4, <2>5, Zenon
<1>6. /\ s1.dx = e /\ s1.dy = f /\ s2.dx = g /\ s2.dy = h
  BY DEF Minus
<1>7. \A k \in 0 .. n - 1 :
        /\ e * (U[k][2] - py) - f * (U[k][1] - px) >= 0
        /\ e * (L[k][2] - py) - f * (L[k][1] - px) <= 0
  <2> TAKE k \in 0 .. n - 1
  <2>1. turn(-1, rect[0], rect[2], U[k]) <= 0 /\ turn(-1, rect[0], rect[2], L[k]) >= 0
    BY DEF Meets
  <2>2. cross(rect[0], rect[2], U[k]) = e * (U[k][2] - py) - f * (U[k][1] - px)
        /\ cross(rect[0], rect[2], L[k]) = e * (L[k][2] - py) - f * (L[k][1] - px)
    BY DEF cross, Minus
  <2>4. \A c \in Int : -c <= 0 => c >= 0
    OBVIOUS
  <2>5. \A c \in Int : -c >= 0 => c <= 0
    OBVIOUS
  <2>6. cross(rect[0], rect[2], U[k]) \in Int /\ cross(rect[0], rect[2], L[k]) \in Int
    <3>1. \A a, b, c \in Points : cross(a, b, c) \in Int
      BY Crossing
    <3>2. U[k] \in Points /\ L[k] \in Points
      BY <1>3
    <3> QED
      BY <1>1, <3>1, <3>2, Zenon
  <2>7. /\ turn(-1, rect[0], rect[2], U[k]) = -cross(rect[0], rect[2], U[k])
        /\ turn(-1, rect[0], rect[2], L[k]) = -cross(rect[0], rect[2], L[k])
    BY DEF turn
  <2> QED
    BY <2>1, <2>2, <2>4, <2>5, <2>6, <2>7
\* heights and places of the bars
<1> DEFINE m == n - 1
           x0 == xs[1]
           xm == xs[n]
           y0 == epsilon
           ym == L[m][2]
<1>8. /\ 0 \in 0 .. n - 1 /\ m \in 0 .. n - 1 /\ 0 + 1 = 1 /\ m + 1 = n
  OBVIOUS
<1>9. /\ x0 \in Int /\ xm \in Int /\ ym \in Int /\ y0 \in Int
      /\ U[0][1] = x0 /\ U[0][2] = y0 /\ L[m][1] = xm
  <2>1. x0 \in Nat /\ xm \in Nat
    BY <1>2 DEF Increasing
  <2>2. U[0] = <<xs[0 + 1], 0 + epsilon>> /\ L[m][1] = xs[m + 1] /\ L[m] \in Points
    BY <1>3, <1>8
  <2>3. ym \in Int
    BY <2>2 DEF Points
  <2> QED
    BY <2>1, <2>2, <2>3, <1>8
<1>10. e * (y0 - py) - f * (x0 - px) >= 0 /\ e * (ym - py) - f * (xm - px) <= 0
  BY <1>7, <1>8, <1>9
<1>11. h >= y0 - ym /\ g <= xm - x0
  <2>1. rect[3] = <<xs[j + 1], j + epsilon>> /\ rect[1][1] = xs[i + 1]
        /\ rect[1] = Under(xs[i + 1], i, epsilon)
    BY <1>3
  <2>2. L[m] = Under(xs[m + 1], m, epsilon)
    BY <1>3, <1>8
  <2>3. rect[1][2] <= ym
    BY <2>1, <2>2 DEF Under
  <2>4. rect[3][2] >= y0
    BY <2>1
  <2>5. xs[j + 1] <= xm /\ xs[i + 1] >= x0
    <3>1. /\ j + 1 \in 1 .. Len(xs) /\ i + 1 \in 1 .. Len(xs) /\ 1 \in 1 .. Len(xs)
          /\ n \in 1 .. Len(xs) /\ (j + 1 < n \/ j + 1 = n) /\ (1 < i + 1 \/ 1 = i + 1)
      BY <1>2
    <3>2. \A k \in 1 .. Len(xs) : xs[k] \in Nat
      BY DEF Increasing
    <3>3. j + 1 < n => xs[j + 1] < xs[n]
      BY <3>1 DEF Increasing
    <3>4. 1 < i + 1 => xs[1] < xs[i + 1]
      BY <3>1 DEF Increasing
    <3>5. xs[j + 1] \in Nat /\ xs[i + 1] \in Nat /\ xm \in Nat /\ x0 \in Nat
      BY <3>1, <3>2
    <3>6. xs[j + 1] <= xm
      BY <3>1, <3>3, <3>5
    <3>7. xs[i + 1] >= x0
      BY <3>1, <3>4, <3>5
    <3> QED
      BY <3>6, <3>7
  <2>6. rect[3][1] = xs[j + 1] /\ rect[3][2] \in Int /\ rect[1][2] \in Int
    BY <2>1, <1>1 DEF Points
  <2>7. xs[j + 1] \in Nat /\ xs[i + 1] \in Nat
    BY <1>2 DEF Increasing
  <2>8. g = rect[3][1] - rect[1][1] /\ h = rect[3][2] - rect[1][2]
    OBVIOUS
  <2>9. rect[3][1] <= xm /\ rect[1][1] >= x0 /\ rect[3][1] \in Int /\ rect[1][1] \in Int
    BY <2>1, <2>5, <2>6, <2>7
  <2>10. xm \in Int /\ x0 \in Int /\ ym \in Int /\ y0 \in Int
    BY <1>9
  <2> HIDE DEF xm, x0, ym, y0, g, h
  <2>11. h >= y0 - ym
    <3> DEFINE c == rect[3][2]
               d == rect[1][2]
    <3>1. c \in Int /\ d \in Int /\ c >= y0 /\ d <= ym /\ h = c - d
      BY <2>3, <2>4, <2>6, <2>8
    <3> HIDE DEF c, d
    <3> QED
      BY <3>1, <2>10
  <2>12. g <= xm - x0
    <3> DEFINE c == rect[3][1]
               d == rect[1][1]
    <3>1. c \in Int /\ d \in Int /\ c <= xm /\ d >= x0 /\ g = c - d
      BY <2>8, <2>9
    <3> HIDE DEF c, d
    <3> QED
      BY <3>1, <2>10
  <2> QED
    BY <2>11, <2>12
\* the steepest line starts above the flattest one and ends below it
<1>12. e * (qy - py) - f * (qx - px) <= 0
       /\ e * ((qy + h) - py) - f * ((qx + g) - px) >= 0
  <2>1. /\ e * (L[i][2] - py) - f * (L[i][1] - px) <= 0
        /\ e * (U[j][2] - py) - f * (U[j][1] - px) >= 0
    BY <1>7
  <2>2. rect[1][2] = qy /\ rect[1][1] = qx /\ rect[3][2] = qy + h /\ rect[3][1] = qx + g
    <3>1. rect[3][1] \in Int /\ rect[3][2] \in Int /\ qx \in Int /\ qy \in Int
      BY <1>1, <1>5 DEF Points
    <3> QED
      BY <3>1
  <2>3. L[i] = rect[1] /\ U[j] = rect[3]
    OBVIOUS
  <2>4. /\ e * (rect[1][2] - py) - f * (rect[1][1] - px) <= 0
        /\ e * (rect[3][2] - py) - f * (rect[3][1] - px) >= 0
    BY <2>1, <2>3, Zenon
  <2> HIDE DEF qx, qy, e, f, g, h
  <2> QED
    BY <2>2, <2>4, Zenon
<1> HIDE DEF px, py, qx, qy, e, f, g, h, U, L, s1, s2, x0, xm, y0, ym, m
<1>13. e * h - f * g >= 0
  <2>1. e * ((qy + h) - py) - f * ((qx + g) - px)
          = (e * (qy - py) - f * (qx - px)) + (e * h - f * g)
    BY <1>5
  <2> DEFINE A == e * (qy - py) - f * (qx - px)
             B == e * h - f * g
  <2>2. A \in Int /\ B \in Int
    BY <1>5
  <2> HIDE DEF A, B
  <2>3. A <= 0 /\ A + B >= 0
    BY <2>1, <1>12 DEF A, B
  <2>4. B >= 0
    BY <2>2, <2>3
  <2> QED
    BY <2>4 DEF B
<1>14. f * g + h * e >= 0
  <2>1. e * (y0 - ym) + f * (xm - x0) >= 0
    <3>1. e * (y0 - ym) + f * (xm - x0)
            = (e * (y0 - py) - f * (x0 - px)) - (e * (ym - py) - f * (xm - px))
      BY <1>5, <1>9
    <3> DEFINE A == e * (y0 - py) - f * (x0 - px)
               B == e * (ym - py) - f * (xm - px)
    <3>2. A \in Int /\ B \in Int
      BY <1>5, <1>9
    <3> HIDE DEF A, B
    <3>3. A >= 0 /\ B <= 0 /\ e * (y0 - ym) + f * (xm - x0) = A - B
      BY <1>10, <3>1 DEF A, B
    <3> QED
      BY <3>2, <3>3
  <2>2. CASE f >= 0
    <3>1. f * g >= 0 /\ f * g \in Int /\ e * h \in Int /\ e * h = h * e
      BY <2>2, <1>5
    <3> QED
      BY <3>1, <1>13
  <2>3. CASE f < 0
    <3>1. e * (h - (y0 - ym)) >= 0
      BY <1>5, <1>9, <1>11
    <3>2. f * (g - (xm - x0)) >= 0
      BY <1>5, <1>9, <1>11, <2>3
    <3>3. f * g + h * e = e * (h - (y0 - ym)) + f * (g - (xm - x0))
                          + (e * (y0 - ym) + f * (xm - x0))
      BY <1>5, <1>9
    <3> DEFINE A == e * (h - (y0 - ym))
               B == f * (g - (xm - x0))
               C == e * (y0 - ym) + f * (xm - x0)
    <3>4. A \in Int /\ B \in Int /\ C \in Int
      BY <1>5, <1>9
    <3> HIDE DEF A, B, C
    <3>5. A >= 0 /\ B >= 0 /\ C >= 0 /\ f * g + h * e = A + B + C
      BY <2>1, <3>1, <3>2, <3>3 DEF A, B, C
    <3> QED
      BY <3>4, <3>5
  <2> QED
    BY <2>2, <2>3, <1>5
<1>15. ~ Flatter(s2, s1) /\ s1.dy * s2.dx + s2.dy * s1.dx >= 0
  BY <1>5, <1>6, <1>13, <1>14 DEF Flatter
<1> QED
  BY <1>15 DEF s1, s2

\* get_slope_intercept: whatever keys add_point took, the line of the segment
\* passes within the bound of all of them, with slope * key cut to an integer as
\* predict cuts it.
THEOREM LineLemma ==
  ASSUME NEW xs, Increasing(xs), NEW epsilon \in Nat, NEW n \in Nat \ {0}, NEW opt,
         SegmentOf(xs, epsilon, n, opt)
  PROVE  WithinBound(xs, epsilon, n, get_slope_intercept(opt))
<1>1. CASE n = 1
  BY <1>1, FlatLine
<1>2. CASE n # 1
  <2> DEFINE U == Overs(xs, epsilon)
             L == Unders(xs, epsilon)
             rect == opt.rect
             s1 == Minus(rect[2], rect[0])
             s2 == Minus(rect[3], rect[1])
             S == s1.dy * s2.dx + s2.dy * s1.dx
             D == 2 * s1.dx * s2.dx
             i == get_intersection(rect)
             slope == Lowest(S, D)
             icx == i[2] * slope.d - i[1] * slope.n
             icy == i[3] * slope.d
             intercept == Lowest(icx, icy)
             line == get_slope_intercept(opt)
  <2>1. n > 1 /\ Len(xs) \in Nat /\ n <= Len(xs) /\ opt.num = n
        /\ opt \in SegmentRecords /\ Segment(U, L, n, opt)
    BY <1>2 DEF SegmentOf, Increasing
  <2>2. rect \in [0 .. 3 -> Points]
    BY <2>1 DEF SegmentRecords
  <2>3. /\ Meets(1, L, U, n, rect[1], rect[3])
        /\ \E j \in 0 .. n - 1 : rect[3] = U[j]
        /\ rect[1] = opt.lower[opt.ls] /\ IsHull(1, L, n, opt.lower, opt.ls)
        /\ Meets(-1, U, L, n, rect[0], rect[2])
    BY <2>1 DEF Segment, Half
  <2>4. PICK j \in 0 .. n - 1 : rect[3] = U[j]
    BY <2>3
  <2>5. PICK c \in 0 .. n - 1 : rect[1] = L[c]
    BY <2>3 DEF IsHull
  <2>6. ~ Flatter(s2, s1) /\ S >= 0
    <3> HIDE DEF rect
    <3> QED
      BY <2>1, <2>2, <2>3, <2>4, <2>5, MeanSlope
  <2>7. rect[0][1] < rect[2][1] /\ rect[1][1] < rect[3][1]
    BY <2>3 DEF Meets
  <2>8. /\ i[1] \in Int /\ i[2] \in Int /\ i[3] \in Nat \ {0}
        /\ S \in Int /\ D \in Nat \ {0}
        /\ \A z \in Points :
             /\ cross(rect[0], rect[2], z) >= 0 /\ cross(rect[1], rect[3], z) >= 0
                  => S * (z[1] * i[3] - i[1]) + i[2] * D <= z[2] * i[3] * D
             /\ cross(rect[0], rect[2], z) <= 0 /\ cross(rect[1], rect[3], z) <= 0
                  => S * (z[1] * i[3] - i[1]) + i[2] * D >= z[2] * i[3] * D
    <3> HIDE DEF rect
    <3> QED
      BY <2>2, <2>6, <2>7, IntersectionLemma
  <2>9. line = [num |-> slope.n, den |-> slope.d,
                icn |-> intercept.n, icd |-> intercept.d]
    BY <2>1, <1>2, Zenon DEF get_slope_intercept
  <2>10. \A k \in 0 .. n - 1 :
           /\ cross(rect[0], rect[2], U[k]) >= 0 /\ cross(rect[1], rect[3], U[k]) >= 0
           /\ cross(rect[0], rect[2], L[k]) <= 0 /\ cross(rect[1], rect[3], L[k]) <= 0
           /\ U[k] \in Points /\ L[k] \in Points
           /\ U[k] = <<xs[k + 1], k + epsilon>>
           /\ L[k][1] = xs[k + 1] /\ L[k][2] \in Nat /\ L[k][2] >= k - epsilon
           /\ xs[k + 1] \in Nat
    <3> TAKE k \in 0 .. n - 1
    <3>1. k \in 0 .. Len(xs) - 1 /\ k + 1 \in 1 .. Len(xs)
      BY <2>1
    <3>2. /\ U[k] \in Points /\ L[k] \in Points
          /\ U[k] = <<xs[k + 1], k + epsilon>>
          /\ L[k][1] = xs[k + 1] /\ L[k][2] \in Nat /\ L[k][2] >= k - epsilon
      BY <3>1, PointsLemma
    <3>3. xs[k + 1] \in Nat
      BY <3>1 DEF Increasing
    <3>4. /\ turn(1, rect[1], rect[3], L[k]) <= 0 /\ turn(1, rect[1], rect[3], U[k]) >= 0
          /\ turn(-1, rect[0], rect[2], U[k]) <= 0 /\ turn(-1, rect[0], rect[2], L[k]) >= 0
      BY <2>3 DEF Meets
    <3>5. /\ turn(1, rect[1], rect[3], L[k]) = cross(rect[1], rect[3], L[k])
          /\ turn(1, rect[1], rect[3], U[k]) = cross(rect[1], rect[3], U[k])
          /\ turn(-1, rect[0], rect[2], L[k]) = -cross(rect[0], rect[2], L[k])
          /\ turn(-1, rect[0], rect[2], U[k]) = -cross(rect[0], rect[2], U[k])
      BY DEF turn
    <3>6. rect[0] \in Points /\ rect[2] \in Points
      BY <2>2
    <3> DEFINE a == cross(rect[0], rect[2], U[k])
               b == cross(rect[0], rect[2], L[k])
    <3>7. \A x, y, z \in Points : cross(x, y, z) \in Int
      BY Crossing
    <3>8. a \in Int /\ b \in Int
      BY <3>2, <3>6, <3>7, Zenon
    <3>9. -a <= 0 /\ -b >= 0
      BY <3>4, <3>5
    <3> HIDE DEF a, b
    <3>10. a >= 0 /\ b <= 0
      BY <3>8, <3>9
    <3> QED
      BY <3>2, <3>3, <3>4, <3>5, <3>10 DEF a, b
  <2> HIDE DEF line, rect, s1, s2, S, D, i, U, L
  <2>11. /\ slope.n \in Int /\ slope.d \in Nat \ {0} /\ slope.n * D = S * slope.d
         /\ slope.n >= 0
    BY <2>6, <2>8, LowestLemma
  <2> HIDE DEF slope
  <2>12. icx \in Int /\ icy \in Nat \ {0}
    BY <2>8, <2>11
  <2> HIDE DEF icx, icy
  <2>13. /\ intercept.n \in Int /\ intercept.d \in Nat \ {0}
         /\ intercept.n * icy = icx * intercept.d
    BY <2>12, LowestLemma
  <2> HIDE DEF intercept
  <2>14. /\ line.num = slope.n /\ line.den = slope.d
         /\ line.icn = intercept.n /\ line.icd = intercept.d
    BY <2>9
  <2>15. /\ line.num \in Nat /\ line.icn \in Int
         /\ line.den \in Nat \ {0} /\ line.icd \in Nat \ {0}
    BY <2>11, <2>13, <2>14
  <2> DEFINE num == line.num
             den == line.den
             icn == line.icn
             icd == line.icd
             i1 == i[1]
             i2 == i[2]
             i3 == i[3]
  <2>16. num * D = S * den /\ icn * (i3 * den) = (i2 * den - i1 * num) * icd
    BY <2>11, <2>13, <2>14, Zenon DEF icx, icy
  <2>17. i1 \in Int /\ i2 \in Int /\ i3 \in Nat \ {0}
    BY <2>8
  <2>18. /\ num \in Nat /\ icn \in Int /\ den \in Nat \ {0} /\ icd \in Nat \ {0}
    BY <2>15
  <2>19. \A z \in Points :
             /\ cross(rect[0], rect[2], z) >= 0 /\ cross(rect[1], rect[3], z) >= 0
                  => S * (z[1] * i3 - i1) + i2 * D <= z[2] * i3 * D
             /\ cross(rect[0], rect[2], z) <= 0 /\ cross(rect[1], rect[3], z) <= 0
                  => S * (z[1] * i3 - i1) + i2 * D >= z[2] * i3 * D
    BY <2>8, Zenon
  <2> HIDE DEF i1, i2, i3, num, den, icn, icd
  <2>20. ASSUME NEW k \in 0 .. n - 1
         PROVE  ((num * xs[k + 1]) \div den) * icd + icn - k * icd
                  \in 1 - (epsilon + 1) * icd .. epsilon * icd
    <3> DEFINE x == xs[k + 1]
               y == k + epsilon
               w == L[k][2]
               at == ((num * x) \div den) * icd + icn
    <3>1. x \in Nat /\ y \in Nat /\ w \in Nat /\ w >= k - epsilon /\ k \in Nat
      BY <2>10
    <3>2. S * (x * i3 - i1) + i2 * D <= y * i3 * D
      <4>1. U[k] = <<x, y>> /\ U[k][1] = x /\ U[k][2] = y
        BY <2>10
      <4>2. S * (U[k][1] * i3 - i1) + i2 * D <= U[k][2] * i3 * D
        BY <2>10, <2>19
      <4> QED
        BY <4>1, <4>2, Zenon
    <3>3. S * (x * i3 - i1) + i2 * D >= w * i3 * D
      <4>1. L[k][1] = x /\ L[k][2] = w
        BY <2>10
      <4>2. S * (L[k][1] * i3 - i1) + i2 * D >= L[k][2] * i3 * D
        BY <2>10, <2>19
      <4> QED
        BY <4>1, <4>2, Zenon
    <3> HIDE DEF x, y, w
    <3>0. S \in Int /\ D \in Nat \ {0} /\ x \in Int /\ y \in Int /\ w \in Int /\ num \in Int
      BY <2>8, <2>18, <3>1
    <3>4. num * x * icd + icn * den <= y * (den * icd)
      BY <3>0, <3>2, <2>16, <2>17, <2>18, LineHeight
    <3>5. num * x * icd + icn * den >= w * (den * icd)
      BY <3>0, <3>3, <2>16, <2>17, <2>18, LineHeight
    <3>6. at \in Int /\ at <= y * icd
      BY <3>0, <3>1, <3>4, <2>18, RoundedLine
    <3>7. at > (w - 1) * icd
      BY <3>0, <3>1, <3>5, <2>18, RoundedLine
    <3> HIDE DEF at
    <3>8. y * icd = k * icd + epsilon * icd
      BY <3>1, <2>18 DEF y
    <3>9. (w - 1) * icd >= k * icd - (epsilon + 1) * icd
      <4>1. (k - epsilon - 1) * icd = k * icd - (epsilon + 1) * icd
        BY <3>1, <2>18
      <4>2. k - epsilon - 1 <= w - 1 /\ k - epsilon - 1 \in Int /\ w - 1 \in Int
        BY <3>1
      <4> DEFINE p == k - epsilon - 1
                 q == w - 1
      <4>3. p \in Int /\ q \in Int /\ p <= q /\ p * icd = k * icd - (epsilon + 1) * icd
        BY <4>1, <4>2
      <4> HIDE DEF p, q
      <4>4. p * icd <= q * icd
        BY <4>3, <2>18, Factor
      <4>5. p * icd \in Int /\ q * icd \in Int
        BY <4>3, <2>18
      <4>6. q * icd >= k * icd - (epsilon + 1) * icd
        BY <4>3, <4>4, <4>5
      <4> QED
        BY <4>6 DEF q
    <3>10. at - k * icd \in 1 - (epsilon + 1) * icd .. epsilon * icd
      <4> DEFINE a == k * icd
                 b == (epsilon + 1) * icd
                 d == epsilon * icd
                 e == (w - 1) * icd
                 f == y * icd
      <4>1. a \in Int /\ b \in Int /\ d \in Int /\ e \in Int /\ f \in Int
        BY <3>1, <2>18
      <4>2. f = a + d /\ e >= a - b /\ at > e /\ at <= f /\ at \in Int
        BY <3>6, <3>7, <3>8, <3>9
      <4> HIDE DEF a, b, d, e, f
      <4>3. at - a \in 1 - b .. d
        BY <4>1, <4>2
      <4> QED
        BY <4>3 DEF a, b, d
    <3>11. at \in Int /\ at + (-(k * icd)) = at - k * icd
      BY <3>1, <3>6, <2>18
    <3>12. ((num * xs[k + 1]) \div den) * icd + icn - k * icd = at - k * icd
      <4> DEFINE t == ((num * xs[k + 1]) \div den) * icd
      <4>1. t \in Int /\ icn \in Int /\ k * icd \in Int /\ at = t + icn
        <5>1. xs[k + 1] \in Nat /\ num * xs[k + 1] \in Nat
          BY <2>10, <2>18
        <5>2. (num * xs[k + 1]) \div den \in Int
          BY <5>1, <2>18
        <5> QED
          BY <5>2, <2>18, <3>1 DEF at, x
      <4> HIDE DEF t
      <4>2. t + (icn - k * icd) = at - k * icd
        BY <4>1
      <4> QED
        BY <4>2 DEF t
    <3> QED
      BY <3>10, <3>12
  <2>21. \A k \in 0 .. n - 1 :
           ((line.num * xs[k + 1]) \div line.den) * line.icd + line.icn - k * line.icd
             \in 1 - (epsilon + 1) * line.icd .. epsilon * line.icd
    BY <2>20, Zenon DEF num, den, icn, icd
  <2>22. WithinBound(xs, epsilon, n, line)
    BY <2>15, <2>21, Zenon DEF WithinBound
  <2> QED
    BY <2>22 DEF line
<1> QED
  BY <1>1, <1>2
-----------------------------------------------------------------------------
\* The first n of the keys, with their positions
PointsOf(xs, n) == [i \in 1 .. n |-> <<xs[i], i - 1>>]

LEMMA PointsOfBars ==
  ASSUME NEW xs, Increasing(xs), NEW epsilon \in Nat, NEW n \in 0 .. Len(xs)
  PROVE  Fits(PointsOf(xs, n), epsilon)
           <=> \A i, j, k \in 0 .. n - 1 :
                 i < j /\ j < k =>
                   /\ turn(1, Unders(xs, epsilon)[i], Unders(xs, epsilon)[k],
                           Overs(xs, epsilon)[j]) >= 0
                   /\ turn(-1, Overs(xs, epsilon)[i], Overs(xs, epsilon)[k],
                           Unders(xs, epsilon)[j]) >= 0
<1> DEFINE U == Overs(xs, epsilon)
           L == Unders(xs, epsilon)
           P == PointsOf(xs, n)
           up(i) == Over(P[i][1], P[i][2], epsilon)
           down(i) == Under(P[i][1], P[i][2], epsilon)
           F(i, j, k) == /\ cross(down(i), down(k), up(j)) >= 0
                         /\ cross(up(i), up(k), down(j)) <= 0
           G(i, j, k) == turn(1, L[i], L[k], U[j]) >= 0 /\ turn(-1, U[i], U[k], L[j]) >= 0
<1>1. Len(xs) \in Nat /\ n \in Nat /\ n <= Len(xs) /\ DOMAIN P = 1 .. n
  BY DEF Increasing, PointsOf
<1>2. ASSUME NEW k \in 0 .. n - 1
      PROVE  /\ up(k + 1) = U[k] /\ down(k + 1) = L[k]
             /\ U[k] \in Points /\ L[k] \in Points
  <2>1. k \in 0 .. Len(xs) - 1 /\ k + 1 \in 1 .. n /\ (k + 1) - 1 = k
    BY <1>1
  <2>2. P[k + 1] = <<xs[k + 1], k>>
    BY <2>1 DEF PointsOf
  <2>3. /\ U[k] = Over(xs[k + 1], k, epsilon) /\ L[k] = Under(xs[k + 1], k, epsilon)
        /\ U[k] \in Points /\ L[k] \in Points
    BY <2>1, PointsLemma
  <2>4. P[k + 1][1] = xs[k + 1] /\ P[k + 1][2] = k
    BY <2>2
  <2> HIDE DEF P, U, L
  <2> QED
    BY <2>3, <2>4
<1> HIDE DEF up, down, U, L
<1>3. ASSUME NEW i \in 0 .. n - 1, NEW j \in 0 .. n - 1, NEW k \in 0 .. n - 1
      PROVE  F(i + 1, j + 1, k + 1) <=> G(i, j, k)
  <2>1. /\ turn(1, L[i], L[k], U[j]) = cross(L[i], L[k], U[j])
        /\ turn(-1, U[i], U[k], L[j]) = -cross(U[i], U[k], L[j])
        /\ turn(-1, U[i], U[k], L[j]) \in Int
    <3>1. /\ U[i] \in Points /\ U[j] \in Points /\ U[k] \in Points
          /\ L[i] \in Points /\ L[j] \in Points /\ L[k] \in Points
      BY <1>2
    <3>2. turn(-1, U[i], U[k], L[j]) \in Int
      BY <3>1, TurnType
    <3> QED
      BY <3>2 DEF turn
  <2>2. cross(U[i], U[k], L[j]) \in Int
    <3>1. U[i] \in Points /\ U[k] \in Points /\ L[j] \in Points
      BY <1>2
    <3> QED
      BY <3>1, Crossing
  <2>3. cross(U[i], U[k], L[j]) <= 0 <=> -cross(U[i], U[k], L[j]) >= 0
    BY <2>2
  <2> QED
    BY <1>2, <2>1, <2>3
<1>4. Fits(P, epsilon) <=> \A i, j, k \in 1 .. n : i < j /\ j < k => F(i, j, k)
  BY <1>1 DEF Fits, up, down
<1> HIDE DEF F, G, P
<1>5. ASSUME \A i, j, k \in 1 .. n : i < j /\ j < k => F(i, j, k),
             NEW i \in 0 .. n - 1, NEW j \in 0 .. n - 1, NEW k \in 0 .. n - 1, i < j, j < k
      PROVE  G(i, j, k)
  <2>1. i + 1 \in 1 .. n /\ j + 1 \in 1 .. n /\ k + 1 \in 1 .. n /\ i + 1 < j + 1 /\ j + 1 < k + 1
    BY <1>1, <1>5
  <2> QED
    BY <1>3, <1>5, <2>1
<1>6. ASSUME \A i, j, k \in 0 .. n - 1 : i < j /\ j < k => G(i, j, k),
             NEW i \in 1 .. n, NEW j \in 1 .. n, NEW k \in 1 .. n, i < j, j < k
      PROVE  F(i, j, k)
  <2> DEFINE a == i - 1
             b == j - 1
             c == k - 1
  <2>1. /\ a \in 0 .. n - 1 /\ b \in 0 .. n - 1 /\ c \in 0 .. n - 1 /\ a < b /\ b < c
        /\ a + 1 = i /\ b + 1 = j /\ c + 1 = k
    BY <1>1, <1>6
  <2> HIDE DEF a, b, c
  <2>2. G(a, b, c)
    BY <1>6, <2>1
  <2>3. F(a + 1, b + 1, c + 1)
    BY <1>3, <2>1, <2>2
  <2> QED
    BY <2>1, <2>3
<1>7. (\A i, j, k \in 1 .. n : i < j /\ j < k => F(i, j, k))
        <=> (\A i, j, k \in 0 .. n - 1 : i < j /\ j < k => G(i, j, k))
  BY <1>5, <1>6
<1> QED
  BY <1>4, <1>7 DEF P, G, U, L

\* What add_point took has a line.
LEMMA SegmentFits ==
  ASSUME NEW xs, Increasing(xs), NEW epsilon \in Nat, NEW n \in Nat, NEW opt,
         SegmentOf(xs, epsilon, n, opt)
  PROVE  Fits(PointsOf(xs, n), epsilon)
<1> DEFINE U == Overs(xs, epsilon)
           L == Unders(xs, epsilon)
<1>1. n \in 0 .. Len(xs) /\ Len(xs) \in Nat
  BY DEF SegmentOf, Increasing
<1>2. Bars(1, L, U, n)
  BY <1>1, PointsLemma
<1> HIDE DEF U, L
<1>3. ASSUME NEW i \in 0 .. n - 1, NEW j \in 0 .. n - 1, NEW k \in 0 .. n - 1, i < j, j < k
      PROVE  turn(1, L[i], L[k], U[j]) >= 0 /\ turn(-1, U[i], U[k], L[j]) >= 0
  <2> DEFINE a == opt.rect[1]
             b == opt.rect[3]
             c == opt.rect[0]
             d == opt.rect[2]
  <2>1. n > 1
    BY <1>3
  <2>2. Meets(1, L, U, n, a, b) /\ Meets(-1, U, L, n, c, d)
    BY <2>1 DEF SegmentOf, Segment, Half, U, L
  <2> HIDE DEF a, b, c, d
  <2>3. /\ L[i] \in Points /\ L[j] \in Points /\ L[k] \in Points
        /\ U[i] \in Points /\ U[j] \in Points /\ U[k] \in Points
        /\ L[i][1] < L[j][1] /\ L[j][1] < L[k][1]
        /\ U[i][1] = L[i][1] /\ U[j][1] = L[j][1] /\ U[k][1] = L[k][1]
    BY <1>2, <1>3 DEF Bars, IsPath
  <2>4. /\ L[i][1] \in Int /\ L[j][1] \in Int /\ L[k][1] \in Int
    BY <2>3 DEF Points
  <2>5. /\ L[i][1] < L[k][1] /\ L[i][1] <= U[j][1] /\ U[j][1] <= L[k][1]
        /\ U[i][1] < U[k][1] /\ U[i][1] <= L[j][1] /\ L[j][1] <= U[k][1]
    BY <2>3, <2>4
  <2>6. /\ a \in Points /\ b \in Points /\ a[1] < b[1]
        /\ turn(1, a, b, L[i]) <= 0 /\ turn(1, a, b, L[k]) <= 0 /\ turn(1, a, b, U[j]) >= 0
    BY <2>2 DEF Meets
  <2>7. /\ c \in Points /\ d \in Points /\ c[1] < d[1]
        /\ turn(-1, c, d, U[i]) <= 0 /\ turn(-1, c, d, U[k]) <= 0 /\ turn(-1, c, d, L[j]) >= 0
    BY <2>2 DEF Meets
  <2>8. turn(1, L[i], L[k], U[j]) >= 0
    BY <2>3, <2>5, <2>6, UnderBetween
  <2>9. turn(-1, U[i], U[k], L[j]) >= 0
    BY <2>3, <2>5, <2>7, UnderBetween
  <2> QED
    BY <2>8, <2>9
<1> QED
  BY <1>1, <1>3, PointsOfBars DEF U, L

\* What add_point refuses has none: the new bar and the two that the line on its
\* wrong side leans on cannot be met together.
LEMMA RefusedUnfit ==
  ASSUME NEW xs, Increasing(xs), NEW epsilon \in Nat,
         NEW n \in Nat, n < Len(xs), NEW opt, SegmentOf(xs, epsilon, n, opt),
         ~ Takes(opt, xs[n + 1], n, epsilon)
  PROVE  ~ Fits(PointsOf(xs, n + 1), epsilon)
<1> DEFINE U == Overs(xs, epsilon)
           L == Unders(xs, epsilon)
           r == opt.rect
<1>1. Len(xs) \in Nat /\ n \in 0 .. Len(xs) - 1 /\ n + 1 \in 0 .. Len(xs)
  BY DEF Increasing
<1>2. /\ Over(xs[n + 1], n, epsilon) = U[n] /\ Under(xs[n + 1], n, epsilon) = L[n]
      /\ Bars(1, L, U, n + 1)
  BY <1>1, PointsLemma
<1>3. opt.num = n
  BY DEF SegmentOf
<1>4. /\ n > 1
      /\ \/ Flatter(Minus(U[n], r[2]), Minus(r[2], r[0]))
         \/ Steeper(Minus(L[n], r[3]), Minus(r[3], r[1]))
  BY <1>2, <1>3 DEF Takes
<1>5. Segment(U, L, n, opt)
  BY <1>4 DEF SegmentOf
<1> HIDE DEF U, L
<1>6. \A k \in 0 .. n : U[k] \in Points /\ L[k] \in Points /\ U[k][1] = L[k][1] /\ U[k][1] \in Int
  BY <1>2 DEF Bars, IsPath, Points
<1>7. \A j, k \in 0 .. n : j < k => L[j][1] < L[k][1]
  BY <1>2 DEF Bars, IsPath
<1>8. ASSUME NEW s \in {1, -1}, NEW P, NEW O, NEW a, NEW b, NEW h, NEW st, NEW c, NEW d,
             Half(s, P, O, n, h, st, a, b, c, d),
             \A k \in 0 .. n : P[k][1] = L[k][1] /\ O[k][1] = L[k][1]
      PROVE  \E i, j \in 0 .. n - 1 : i < j /\ a = P[i] /\ b = O[j]
  <2>1. h[st] = a /\ st \in 1 .. Len(h) /\ \E k \in 0 .. n - 1 : h[st] = P[k]
    BY <1>8 DEF Half, IsHull
  <2>2. PICK i \in 0 .. n - 1 : a = P[i]
    BY <2>1
  <2>3. PICK j \in 0 .. n - 1 : b = O[j]
    BY <1>8 DEF Half
  <2>4. a[1] < b[1]
    BY <1>8 DEF Half, Meets
  <2>5. i \in 0 .. n /\ j \in 0 .. n
    BY <2>2, <2>3
  <2>6. L[i][1] < L[j][1] /\ L[i][1] \in Int /\ L[j][1] \in Int
    BY <1>6, <1>8, <2>2, <2>3, <2>4, <2>5
  <2>7. i < j
    <3>1. CASE j < i
      BY <1>7, <2>5, <2>6, <3>1
    <3>2. CASE i = j
      BY <2>6, <3>2
    <3> QED
      BY <2>5, <3>1, <3>2
  <2> QED
    BY <2>2, <2>3, <2>7
<1>9. PICK i, j \in 0 .. n - 1 : i < j /\ r[0] = U[i] /\ r[2] = L[j]
  <2>1. \A k \in 0 .. n : U[k][1] = L[k][1]
    BY <1>6
  <2>2. Half(-1, U, L, n, opt.upper, opt.us, r[0], r[2], r[1], r[3])
    BY <1>5 DEF Segment
  <2> HIDE DEF r
  <2> QED
    BY <1>8, <2>1, <2>2
<1>10. PICK e, f \in 0 .. n - 1 : e < f /\ r[1] = L[e] /\ r[3] = U[f]
  <2>1. \A k \in 0 .. n : U[k][1] = L[k][1]
    BY <1>6
  <2>2. Half(1, L, U, n, opt.lower, opt.ls, r[1], r[3], r[0], r[2])
    BY <1>5 DEF Segment
  <2> HIDE DEF r
  <2> QED
    BY <1>8, <2>1, <2>2
<1> HIDE DEF r
<1>11. /\ i \in 0 .. n /\ j \in 0 .. n /\ e \in 0 .. n /\ f \in 0 .. n /\ n \in 0 .. n
       /\ i < j /\ j < n /\ e < f /\ f < n
  BY <1>9, <1>10
<1>12. CASE Flatter(Minus(U[n], r[2]), Minus(r[2], r[0]))
  <2>1. /\ U[i] \in Points /\ L[j] \in Points /\ U[n] \in Points
    BY <1>6, <1>11
  <2>2. ~ (turn(1, U[i], L[j], U[n]) >= 0)
    BY <1>9, <1>12, <2>1, SlopeLemma
  <2>3. turn(1, U[i], U[n], L[j]) = -turn(1, U[i], L[j], U[n]) /\ turn(1, U[i], L[j], U[n]) \in Int
        /\ turn(-1, U[i], U[n], L[j]) = -cross(U[i], U[n], L[j])
        /\ turn(1, U[i], U[n], L[j]) = cross(U[i], U[n], L[j])
    BY <2>1, TurnType
  <2>4. ~ (turn(-1, U[i], U[n], L[j]) >= 0)
    BY <2>2, <2>3
  <2>5. i \in 0 .. (n + 1) - 1 /\ j \in 0 .. (n + 1) - 1 /\ n \in 0 .. (n + 1) - 1
    BY <1>11
  <2> QED
    BY <1>1, <1>11, <2>4, <2>5, PointsOfBars DEF U, L
<1>13. CASE Steeper(Minus(L[n], r[3]), Minus(r[3], r[1]))
  <2>1. /\ L[e] \in Points /\ U[f] \in Points /\ L[n] \in Points
    BY <1>6, <1>11
  <2>2. ~ (turn(1, L[e], U[f], L[n]) <= 0)
    BY <1>10, <1>13, <2>1, SlopeLemma
  <2>3. turn(1, L[e], L[n], U[f]) = -turn(1, L[e], U[f], L[n]) /\ turn(1, L[e], U[f], L[n]) \in Int
    BY <2>1, TurnType
  <2>4. ~ (turn(1, L[e], L[n], U[f]) >= 0)
    BY <2>2, <2>3
  <2>5. e \in 0 .. (n + 1) - 1 /\ f \in 0 .. (n + 1) - 1 /\ n \in 0 .. (n + 1) - 1
    BY <1>11
  <2> QED
    BY <1>1, <1>11, <2>4, <2>5, PointsOfBars DEF U, L
<1> QED
  BY <1>4, <1>12, <1>13

\* The hull algorithm decides Fits for one more key.
LEMMA TakesFits ==
  ASSUME NEW xs, Increasing(xs), NEW epsilon \in Nat,
         NEW n \in Nat, n < Len(xs), NEW opt, SegmentOf(xs, epsilon, n, opt)
  PROVE  Takes(opt, xs[n + 1], n, epsilon) <=> Fits(PointsOf(xs, n + 1), epsilon)
<1>1. ASSUME Takes(opt, xs[n + 1], n, epsilon) PROVE Fits(PointsOf(xs, n + 1), epsilon)
  <2>1. SegmentOf(xs, epsilon, n + 1, add_point(opt, xs[n + 1], n, epsilon))
    BY <1>1, add_pointLemma
  <2> QED
    BY <2>1, SegmentFits
<1>2. ASSUME ~ Takes(opt, xs[n + 1], n, epsilon) PROVE ~ Fits(PointsOf(xs, n + 1), epsilon)
  BY <1>2, RefusedUnfit
<1> QED
  BY <1>1, <1>2
-----------------------------------------------------------------------------
\* The line y = (a x + b) / d meets the bars of the first n keys.
Passes(xs, epsilon, n, line) ==
  /\ line \in [a : Int, b : Int, d : Nat \ {0}]
  /\ \A k \in 0 .. n - 1 :
       /\ line.d * Unders(xs, epsilon)[k][2] <= line.a * xs[k + 1] + line.b
       /\ line.a * xs[k + 1] + line.b <= line.d * Overs(xs, epsilon)[k][2]

\* Above a line between two points that are below it
LEMMA ChordBelow ==
  ASSUME NEW a \in Int, NEW b \in Int, NEW d \in Nat \ {0},
         NEW o \in Points, NEW p \in Points, NEW q \in Points, o[1] <= p[1], p[1] <= q[1],
         d * o[2] <= a * o[1] + b, d * q[2] <= a * q[1] + b, a * p[1] + b <= d * p[2]
  PROVE  cross(o, q, p) >= 0
<1> DEFINE X == q[1] - p[1]
           Y == p[1] - o[1]
           eo == a * o[1] + b - d * o[2]
           eq == a * q[1] + b - d * q[2]
           ep == d * p[2] - (a * p[1] + b)
           c == cross(o, q, p)
<1>1. /\ o[1] \in Int /\ o[2] \in Int /\ p[1] \in Int /\ p[2] \in Int
      /\ q[1] \in Int /\ q[2] \in Int
  BY DEF Points
<1>2. /\ a * o[1] \in Int /\ d * o[2] \in Int /\ a * q[1] \in Int /\ d * q[2] \in Int
      /\ a * p[1] \in Int /\ d * p[2] \in Int
  BY <1>1
<1>3. X \in Nat /\ Y \in Nat /\ eo \in Nat /\ eq \in Nat /\ ep \in Nat /\ c \in Int
  <2>1. X \in Nat /\ Y \in Nat
    BY <1>1
  <2>2. eo \in Nat /\ eq \in Nat /\ ep \in Nat
    BY <1>2
  <2> QED
    BY <2>1, <2>2, Crossing
<1>4. c = (X + Y) * p[2] - X * o[2] - Y * q[2]
  BY <1>1 DEF cross, Minus
<1>5. d * c = (X + Y) * ep + X * eo + Y * eq
  BY <1>1, <1>4
<1> HIDE DEF X, Y, eo, eq, ep, c
<1>6. (X + Y) * ep >= 0 /\ X * eo >= 0 /\ Y * eq >= 0
  <2>1. X + Y \in Nat
    BY <1>3
  <2> QED
    BY <1>3, <2>1, Signs
<1>7. d * c >= 0
  BY <1>3, <1>5, <1>6
<1>8. c >= 0
  BY <1>3, <1>7, Signs
<1> QED
  BY <1>8 DEF c

\* Below a line between two points that are above it
LEMMA ChordAbove ==
  ASSUME NEW a \in Int, NEW b \in Int, NEW d \in Nat \ {0},
         NEW o \in Points, NEW p \in Points, NEW q \in Points, o[1] <= p[1], p[1] <= q[1],
         a * o[1] + b <= d * o[2], a * q[1] + b <= d * q[2], d * p[2] <= a * p[1] + b
  PROVE  cross(o, q, p) <= 0
<1> DEFINE X == q[1] - p[1]
           Y == p[1] - o[1]
           eo == d * o[2] - (a * o[1] + b)
           eq == d * q[2] - (a * q[1] + b)
           ep == a * p[1] + b - d * p[2]
           c == cross(o, q, p)
<1>1. /\ o[1] \in Int /\ o[2] \in Int /\ p[1] \in Int /\ p[2] \in Int
      /\ q[1] \in Int /\ q[2] \in Int
  BY DEF Points
<1>2. /\ a * o[1] \in Int /\ d * o[2] \in Int /\ a * q[1] \in Int /\ d * q[2] \in Int
      /\ a * p[1] \in Int /\ d * p[2] \in Int
  BY <1>1
<1>3. X \in Nat /\ Y \in Nat /\ eo \in Nat /\ eq \in Nat /\ ep \in Nat /\ c \in Int
  <2>1. X \in Nat /\ Y \in Nat
    BY <1>1
  <2>2. eo \in Nat /\ eq \in Nat /\ ep \in Nat
    BY <1>2
  <2> QED
    BY <2>1, <2>2, Crossing
<1>4. c = (X + Y) * p[2] - X * o[2] - Y * q[2]
  BY <1>1 DEF cross, Minus
<1>5. d * c = -((X + Y) * ep + X * eo + Y * eq)
  BY <1>1, <1>4
<1> HIDE DEF X, Y, eo, eq, ep, c
<1>6. (X + Y) * ep >= 0 /\ X * eo >= 0 /\ Y * eq >= 0
  <2>1. X + Y \in Nat
    BY <1>3
  <2> QED
    BY <1>3, <2>1, Signs
<1>7. d * c <= 0
  <2>1. (X + Y) * ep \in Int /\ X * eo \in Int /\ Y * eq \in Int
    BY <1>3
  <2> QED
    BY <1>5, <1>6, <2>1
<1>8. c <= 0
  BY <1>3, <1>7, Signs
<1> QED
  BY <1>8 DEF c

\* Fits is necessary for a line.
LEMMA LineFits ==
  ASSUME NEW xs, Increasing(xs), NEW epsilon \in Nat, NEW n \in Nat, n <= Len(xs),
         NEW line, Passes(xs, epsilon, n, line)
  PROVE  Fits(PointsOf(xs, n), epsilon)
<1> DEFINE U == Overs(xs, epsilon)
           L == Unders(xs, epsilon)
           a == line.a
           b == line.b
           d == line.d
<1>1. Len(xs) \in Nat /\ n \in 0 .. Len(xs)
  BY DEF Increasing
<1>2. Bars(1, L, U, n)
  BY <1>1, PointsLemma
<1>3. \A k \in 0 .. n - 1 : U[k][1] = xs[k + 1] /\ L[k][1] = xs[k + 1]
  BY <1>1 DEF Overs, Unders, Over, Under
<1>4. /\ a \in Int /\ b \in Int /\ d \in Nat \ {0}
      /\ \A k \in 0 .. n - 1 :
           /\ d * L[k][2] <= a * xs[k + 1] + b
           /\ a * xs[k + 1] + b <= d * U[k][2]
  BY DEF Passes
<1> HIDE DEF U, L, a, b, d
<1>5. ASSUME NEW i \in 0 .. n - 1, NEW j \in 0 .. n - 1, NEW k \in 0 .. n - 1, i < j, j < k
      PROVE  turn(1, L[i], L[k], U[j]) >= 0 /\ turn(-1, U[i], U[k], L[j]) >= 0
  <2>1. /\ L[i] \in Points /\ L[j] \in Points /\ L[k] \in Points
        /\ U[i] \in Points /\ U[j] \in Points /\ U[k] \in Points
        /\ L[i][1] < L[j][1] /\ L[j][1] < L[k][1]
        /\ U[i][1] = L[i][1] /\ U[j][1] = L[j][1] /\ U[k][1] = L[k][1]
    BY <1>2, <1>5 DEF Bars, IsPath
  <2>2. /\ L[i][1] \in Int /\ L[j][1] \in Int /\ L[k][1] \in Int
        /\ L[i][2] \in Int /\ L[j][2] \in Int /\ L[k][2] \in Int
        /\ U[i][2] \in Int /\ U[j][2] \in Int /\ U[k][2] \in Int
    BY <2>1 DEF Points
  <2>3. L[i][1] <= U[j][1] /\ U[j][1] <= L[k][1]
    <3> DEFINE x == L[i][1]
               y == L[j][1]
               z == L[k][1]
    <3>1. x \in Int /\ y \in Int /\ z \in Int /\ x < y /\ y < z
      BY <2>1, <2>2, Zenon
    <3>2. U[j][1] = y
      BY <2>1, Zenon
    <3> HIDE DEF x, y, z
    <3>3. x <= y /\ y <= z
      BY <3>1
    <3> QED
      BY <3>2, <3>3, Zenon DEF x, z
  <2>4. /\ d * L[i][2] <= a * L[i][1] + b /\ d * L[k][2] <= a * L[k][1] + b
        /\ a * U[j][1] + b <= d * U[j][2]
    BY <1>3, <1>4
  <2>5. cross(L[i], L[k], U[j]) >= 0
    BY <1>4, <2>1, <2>3, <2>4, ChordBelow
  <2>6. /\ a * U[i][1] + b <= d * U[i][2] /\ a * U[k][1] + b <= d * U[k][2]
        /\ d * L[j][2] <= a * L[j][1] + b
    BY <1>3, <1>4
  <2>7. U[i][1] <= L[j][1] /\ L[j][1] <= U[k][1]
    BY <2>1, <2>3, Zenon
  <2>8. cross(U[i], U[k], L[j]) <= 0
    BY <1>4, <2>1, <2>6, <2>7, ChordAbove
  <2>9. cross(U[i], U[k], L[j]) \in Int
    BY <2>1, Crossing
  <2>10. /\ turn(1, L[i], L[k], U[j]) = cross(L[i], L[k], U[j])
         /\ turn(-1, U[i], U[k], L[j]) = -cross(U[i], U[k], L[j])
    BY DEF turn
  <2> QED
    BY <2>5, <2>8, <2>9, <2>10
<1> QED
  BY <1>1, <1>5, PointsOfBars DEF U, L

\* The steepest line of a segment meets its bars.
LEMMA SegmentLine ==
  ASSUME NEW xs, Increasing(xs), NEW epsilon \in Nat, NEW n \in Nat, NEW opt,
         SegmentOf(xs, epsilon, n, opt)
  PROVE  \E line : Passes(xs, epsilon, n, line)
<1> DEFINE U == Overs(xs, epsilon)
           L == Unders(xs, epsilon)
<1>1. n \in 0 .. Len(xs) /\ Len(xs) \in Nat
  BY DEF SegmentOf, Increasing
<1>2. Bars(1, L, U, n)
  BY <1>1, PointsLemma
<1>3. \A k \in 0 .. n - 1 : U[k][1] = xs[k + 1] /\ L[k][1] = xs[k + 1]
  BY <1>1 DEF Overs, Unders, Over, Under
<1>4. \A k \in 0 .. n - 1 : /\ L[k] \in Points /\ U[k] \in Points
                            /\ xs[k + 1] \in Int /\ L[k][2] \in Int /\ U[k][2] \in Int
  BY <1>2, <1>3 DEF Bars, IsPath, Points
<1>5. CASE n <= 1
  <2> DEFINE line == [a |-> 0, b |-> epsilon, d |-> 1]
  <2>1. ASSUME NEW k \in 0 .. n - 1
        PROVE  1 * L[k][2] <= 0 * xs[k + 1] + epsilon /\ 0 * xs[k + 1] + epsilon <= 1 * U[k][2]
    <3>1. k = 0 /\ k \in 0 .. Len(xs) - 1
      BY <1>1, <1>5
    <3>2. L[k][2] = 0 /\ U[k][2] = epsilon
      BY <3>1 DEF Overs, Unders, Over, Under
    <3>3. xs[k + 1] \in Int
      BY <1>4
    <3> QED
      BY <3>2, <3>3
  <2>2. line \in [a : Int, b : Int, d : Nat \ {0}] /\ line.a = 0 /\ line.b = epsilon /\ line.d = 1
    OBVIOUS
  <2> HIDE DEF line, U, L
  <2>3. Passes(xs, epsilon, n, line)
    BY <2>1, <2>2 DEF Passes, U, L
  <2> QED
    BY <2>3
<1>6. CASE n > 1
  <2> DEFINE r == opt.rect[1]
             t == opt.rect[3]
             dx == t[1] - r[1]
             dy == t[2] - r[2]
             b == r[2] * dx - r[1] * dy
             line == [a |-> dy, b |-> b, d |-> dx]
  <2>1. Meets(1, L, U, n, r, t)
    BY <1>6 DEF SegmentOf, Segment, Half
  <2> HIDE DEF r, t, U, L
  <2>2. /\ r \in Points /\ t \in Points /\ r[1] < t[1]
        /\ \A k \in 0 .. n - 1 : turn(1, r, t, L[k]) <= 0 /\ turn(1, r, t, U[k]) >= 0
    BY <2>1 DEF Meets
  <2>3. r[1] \in Int /\ r[2] \in Int /\ t[1] \in Int /\ t[2] \in Int
    BY <2>2 DEF Points
  <2>4. dx \in Nat \ {0} /\ dy \in Int /\ b \in Int
    BY <2>2, <2>3
  <2>5. ASSUME NEW p \in Points
        PROVE  turn(1, r, t, p) = dx * p[2] - (dy * p[1] + b)
    <3>1. p[1] \in Int /\ p[2] \in Int
      BY DEF Points
    <3>2. turn(1, r, t, p) = dx * (p[2] - r[2]) - dy * (p[1] - r[1])
      BY DEF turn, cross, Minus
    <3> QED
      BY <2>3, <2>4, <3>1, <3>2
  <2> HIDE DEF dx, dy, b
  <2>6. ASSUME NEW k \in 0 .. n - 1
        PROVE  dx * L[k][2] <= dy * xs[k + 1] + b /\ dy * xs[k + 1] + b <= dx * U[k][2]
    <3>1. dx * L[k][2] \in Int /\ dx * U[k][2] \in Int /\ dy * xs[k + 1] \in Int
      BY <1>4, <2>4
    <3>2. dx * L[k][2] - (dy * xs[k + 1] + b) <= 0 /\ dx * U[k][2] - (dy * xs[k + 1] + b) >= 0
      BY <1>3, <1>4, <2>2, <2>5
    <3> QED
      BY <2>4, <3>1, <3>2
  <2>7. line \in [a : Int, b : Int, d : Nat \ {0}] /\ line.a = dy /\ line.b = b /\ line.d = dx
    BY <2>4
  <2> HIDE DEF line
  <2>8. Passes(xs, epsilon, n, line)
    BY <2>6, <2>7 DEF Passes, U, L
  <2> QED
    BY <2>8
<1> QED
  BY <1>1, <1>5, <1>6

\* add_point: it takes the next key exactly if some line passes within the bound of
\* all the keys of the segment and of this one. The extreme slopes, which are two
\* points of each hull, are all it needs to know of the keys before.
THEOREM TakesOptimally ==
  ASSUME NEW xs, Increasing(xs), NEW epsilon \in Nat,
         NEW n \in Nat, n < Len(xs), NEW opt, SegmentOf(xs, epsilon, n, opt)
  PROVE  Takes(opt, xs[n + 1], n, epsilon) <=> \E line : Passes(xs, epsilon, n + 1, line)
<1>1. n + 1 \in 0 .. Len(xs) /\ n + 1 \in Nat
  BY DEF Increasing
<1>2. ASSUME Takes(opt, xs[n + 1], n, epsilon) PROVE \E line : Passes(xs, epsilon, n + 1, line)
  <2>1. SegmentOf(xs, epsilon, n + 1, add_point(opt, xs[n + 1], n, epsilon))
    BY <1>2, add_pointLemma
  <2> QED
    BY <1>1, <2>1, SegmentLine
<1>3. ASSUME NEW line, Passes(xs, epsilon, n + 1, line) PROVE Takes(opt, xs[n + 1], n, epsilon)
  <2>1. n + 1 <= Len(xs)
    BY <1>1
  <2>2. Fits(PointsOf(xs, n + 1), epsilon)
    BY <1>1, <1>3, <2>1, LineFits
  <2> QED
    BY <2>2, TakesFits
<1> QED
  BY <1>2, <1>3

\* Fits, the reference that runs and theorems compare the segments with, is what it
\* is there for: three points at a time decide whether a line passes within the
\* bound of all points. The line comes from add_point, key after key.
THEOREM FitsMeansLine ==
  ASSUME NEW xs, Increasing(xs), NEW epsilon \in Nat, NEW n \in 0 .. Len(xs)
  PROVE  Fits(PointsOf(xs, n), epsilon) <=> \E line : Passes(xs, epsilon, n, line)
<1> DEFINE Built(m) == \E opt : SegmentOf(xs, epsilon, m, opt)
           Bad == {m \in 0 .. n : ~ Built(m)}
<1>1. Len(xs) \in Nat /\ n \in Nat
  BY DEF Increasing
<1>2. ASSUME Fits(PointsOf(xs, n), epsilon), Bad # {}
      PROVE  FALSE
  <2>1. Bad \in SUBSET Nat
    BY <1>1
  <2>2. PICK m \in Bad : \A k \in Bad : m <= k
    BY <1>2, <2>1, FirstNumber
  <2>3. m \in 0 .. n /\ m \in Nat /\ ~ Built(m)
    BY <1>1, <2>2
  <2>4. m # 0
    <3>1. SegmentOf(xs, epsilon, 0, NewSegment)
      BY NewSegmentLemma DEF Increasing
    <3> QED
      BY <2>3, <3>1
  <2> DEFINE k == m - 1
  <2>5. k \in 0 .. n /\ k \in Nat /\ k + 1 = m /\ k < Len(xs) /\ ~ (m <= k)
    BY <1>1, <2>3, <2>4
  <2> HIDE DEF k
  <2>6. Built(k)
    BY <2>2, <2>5
  <2>7. PICK opt : SegmentOf(xs, epsilon, k, opt)
    BY <2>6
  <2>8. Fits(PointsOf(xs, k + 1), epsilon)
    <3>1. /\ DOMAIN PointsOf(xs, m) = 1 .. m /\ DOMAIN PointsOf(xs, n) = 1 .. n
          /\ 1 .. m \subseteq 1 .. n
          /\ \A i \in 1 .. m : PointsOf(xs, m)[i] = PointsOf(xs, n)[i]
      BY <1>1, <2>3 DEF PointsOf
    <3> QED
      BY <1>2, <2>5, <3>1 DEF Fits
  <2>9. SegmentOf(xs, epsilon, k + 1, add_point(opt, xs[k + 1], k, epsilon))
    BY <2>5, <2>7, <2>8, TakesFits, add_pointLemma
  <2> QED
    BY <2>3, <2>5, <2>9
<1>3. ASSUME Fits(PointsOf(xs, n), epsilon) PROVE \E line : Passes(xs, epsilon, n, line)
  <2>1. Built(n)
    BY <1>1, <1>2, <1>3
  <2> QED
    BY <1>1, <2>1, SegmentLine
<1>4. n <= Len(xs)
  BY <1>1
<1> QED
  BY <1>1, <1>3, <1>4, LineFits
=============================================================================
