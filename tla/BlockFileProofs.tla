-------------------------- MODULE BlockFileProofs ---------------------------
(***************************************************************************)
(* Proofs about BlockFile, for any block size, any limit on an extent, any *)
(* number of extents and writes of any length.                             *)
(***************************************************************************)
EXTENDS BlockFile, SequenceTheorems, WellFoundedInduction, TLAPS

-----------------------------------------------------------------------------
(***************************************************************************)
(* Induction: a set of natural numbers that is not empty has a least one.  *)
(***************************************************************************)
LEMMA LeastNat ==
    ASSUME NEW T, T \subseteq Nat, T # {}
    PROVE  \E x \in T : \A y \in T : x <= y
<1> DEFINE R == {p \in Nat \X Nat : p[1] < p[2]}
<1>1. R = OpToRel(<, Nat)
  BY DEF OpToRel
<1>2. IsWellFoundedOn(R, Nat)
  BY <1>1, NatLessThanWellFounded
<1> HIDE DEF R
<1>3. PICK x \in T : \A y \in T : ~ (<<y, x>> \in R)
  BY <1>2, WFMin
<1>4. \A y \in T : ~ (y < x)
  BY <1>3 DEF R
<1> QED
  BY <1>4

(* Induction over a set: what holds at 0 and goes on holds everywhere. *)
LEMMA Inductive ==
    ASSUME NEW P, 0 \in P, \A k \in Nat : k \in P => k + 1 \in P
    PROVE  \A k \in Nat : k \in P
<1> SUFFICES ASSUME NEW k \in Nat, k \notin P PROVE FALSE
  OBVIOUS
<1>1. PICK x \in Nat \ P : \A y \in Nat \ P : x <= y
  BY LeastNat
<1>2. x - 1 \in Nat /\ x - 1 \notin Nat \ P
  BY <1>1
<1> QED
  BY <1>1, <1>2

-----------------------------------------------------------------------------
(***************************************************************************)
(* search_extent: the bisection ends at an index of the vector, or at -1.  *)
(***************************************************************************)
Half(a, b) == a + (b - a) \div 2

Bisect(ext, off, f, p) ==
    LET a == p[1]
        b == p[2]
        i == a + (b - a) \div 2
    IN  IF b - a <= 1 THEN a
        ELSE IF off < ext[i + 1].offset THEN f[<<a, i>>]
        ELSE IF off > ext[i + 1].offset THEN f[<<i, b>>] ELSE i

Bounds(n) == (-1..n) \X (0..n)

LEMMA HalfBetween ==
    ASSUME NEW a \in Int, NEW b \in Int, b - a > 1
    PROVE  Half(a, b) \in Int /\ a < Half(a, b) /\ Half(a, b) < b
BY DEF Half

(* One step of the bisection depends on f only at shorter intervals. *)
LEMMA BisectStep ==
    ASSUME NEW ext, NEW off, NEW n \in Nat, NEW p \in Bounds(n), NEW f, NEW g,
           \A q \in Bounds(n) : q[2] - q[1] < p[2] - p[1] => f[q] = g[q]
    PROVE  Bisect(ext, off, f, p) = Bisect(ext, off, g, p)
<1>1. p[1] \in -1..n /\ p[2] \in 0..n
  BY DEF Bounds
<1>2. CASE p[2] - p[1] <= 1
  BY <1>2 DEF Bisect
<1>3. CASE p[2] - p[1] > 1
  <2> DEFINE i == Half(p[1], p[2])
  <2>1. i \in Int /\ p[1] < i /\ i < p[2]
    BY <1>1, <1>3, HalfBetween
  <2> HIDE DEF i
  <2>2. <<p[1], i>> \in Bounds(n) /\ <<i, p[2]>> \in Bounds(n)
    BY <1>1, <2>1 DEF Bounds
  <2>3. i - p[1] < p[2] - p[1] /\ p[2] - i < p[2] - p[1]
    BY <1>1, <2>1
  <2>4. f[<<p[1], i>>] = g[<<p[1], i>>]
    BY <2>2, <2>3
  <2>5. f[<<i, p[2]>>] = g[<<i, p[2]>>]
    BY <2>2, <2>3
  <2> QED
    BY <2>4, <2>5 DEF Bisect, Half, i
<1> QED
  BY <1>1, <1>2, <1>3

LEMMA BisectExists ==
    ASSUME NEW ext, NEW off, NEW n \in Nat
    PROVE  \E f : f = [p \in Bounds(n) |-> Bisect(ext, off, f, p)]
<1> DEFINE Upto(f, k) == \A p \in Bounds(n) :
                            p[2] - p[1] <= k => f[p] = Bisect(ext, off, f, p)
           P == {k \in Nat : \E f : Upto(f, k)}
<1>0. \A p \in Bounds(n) : p[1] \in Int /\ p[2] \in Int /\ p[2] - p[1] <= n + 1
  BY DEF Bounds
<1>1. 0 \in P
  <2> DEFINE f == [p \in Bounds(n) |-> p[1]]
  <2>1. Upto(f, 0)
    BY <1>0 DEF Bisect
  <2> QED
    BY <2>1
<1>2. ASSUME NEW k \in Nat, k \in P PROVE k + 1 \in P
  <2>1. PICK f : Upto(f, k)
    BY <1>2
  <2> DEFINE g == [p \in Bounds(n) |-> Bisect(ext, off, f, p)]
  <2>2. Upto(g, k + 1)
    <3> SUFFICES ASSUME NEW p \in Bounds(n), p[2] - p[1] <= k + 1
                 PROVE  g[p] = Bisect(ext, off, g, p)
      OBVIOUS
    <3>1. g[p] = Bisect(ext, off, f, p)
      OBVIOUS
    <3>2. \A q \in Bounds(n) : q[2] - q[1] < p[2] - p[1] => f[q] = g[q]
      BY <1>0, <2>1
    <3> HIDE DEF g
    <3>3. Bisect(ext, off, f, p) = Bisect(ext, off, g, p)
      BY <3>2, BisectStep
    <3> QED
      BY <3>1, <3>3
  <2> HIDE DEF g
  <2> QED
    BY <2>2
<1>3. n + 1 \in P
  <2> HIDE DEF P
  <2> QED  BY <1>1, <1>2, Inductive
<1>4. PICK f : Upto(f, n + 1)
  BY <1>3
<1> DEFINE g == [p \in Bounds(n) |-> Bisect(ext, off, f, p)]
<1>5. \A p \in Bounds(n) : g[p] = f[p]
  BY <1>0, <1>4
<1>6. \A p \in Bounds(n) : g[p] = Bisect(ext, off, g, p)
  <2> TAKE p \in Bounds(n)
  <2>1. g[p] = Bisect(ext, off, f, p)
    OBVIOUS
  <2> HIDE DEF g
  <2>2. Bisect(ext, off, f, p) = Bisect(ext, off, g, p)
    BY <1>5, BisectStep
  <2> QED
    BY <2>1, <2>2
<1>7. g = [p \in Bounds(n) |-> Bisect(ext, off, g, p)]
  <2> DEFINE h == [p \in Bounds(n) |-> Bisect(ext, off, g, p)]
  <2>1. \A p \in Bounds(n) : g[p] = h[p]
    BY <1>6
  <2> QED
    BY <2>1, Zenon
<1> QED
  BY <1>7

(* The bisection between a and b ends at a, or between the two at an       *)
(* extent that does not begin behind the offset; and unless it begins at   *)
(* the offset, the next one, if there is one, begins behind it.            *)
Found(ext, off, r, a, b) ==
    /\ r \in a .. b - 1
    /\ r = a \/ ext[r + 1].offset <= off
    /\ r < b - 1 /\ (r = a \/ off # ext[r + 1].offset) => off < ext[r + 2].offset

LEMMA BisectFinds ==
    ASSUME NEW ext, NEW off \in Int, NEW n \in Nat, \A k \in 1..n : ext[k].offset \in Int,
           NEW f, \A q \in Bounds(n) : f[q] = Bisect(ext, off, f, q),
           NEW p \in Bounds(n), p[1] < p[2]
    PROVE  Found(ext, off, f[p], p[1], p[2])
<1> DEFINE P == {k \in Nat : \A q \in Bounds(n) :
                    q[2] - q[1] <= k /\ q[1] < q[2] => Found(ext, off, f[q], q[1], q[2])}
<1>0. \A q \in Bounds(n) : q[1] \in Int /\ q[2] \in Int /\ q[2] - q[1] <= n + 1
  BY DEF Bounds
<1>1. 0 \in P
  BY <1>0
<1>2. ASSUME NEW k \in Nat, k \in P PROVE k + 1 \in P
  <2> SUFFICES ASSUME NEW q \in Bounds(n), q[2] - q[1] <= k + 1, q[1] < q[2]
               PROVE  Found(ext, off, f[q], q[1], q[2])
    OBVIOUS
  <2>1. f[q] = Bisect(ext, off, f, q)
    OBVIOUS
  <2>2. CASE q[2] - q[1] <= 1
    BY <1>0, <2>1, <2>2 DEF Bisect, Found
  <2>3. CASE q[2] - q[1] > 1
    <3> DEFINE i == Half(q[1], q[2])
    <3>1. i \in Int /\ q[1] < i /\ i < q[2]
      BY <1>0, <2>3, HalfBetween
    <3>2. ~ (q[2] - q[1] <= 1)
      BY <1>0, <2>3
    <3>3. \/ off < ext[i + 1].offset /\ f[q] = f[<<q[1], i>>]
          \/ off > ext[i + 1].offset /\ f[q] = f[<<i, q[2]>>]
          \/ ~ (off < ext[i + 1].offset) /\ ~ (off > ext[i + 1].offset) /\ f[q] = i
      BY <2>1, <3>2, Zenon DEF Bisect, Half
    <3> HIDE DEF i
    <3>4. i + 1 \in 1..n
      BY <1>0, <3>1 DEF Bounds
    <3>5. ext[i + 1].offset \in Int
      BY <3>4
    <3>6. <<q[1], i>> \in Bounds(n) /\ <<i, q[2]>> \in Bounds(n)
      BY <3>1 DEF Bounds
    <3>7. i - q[1] <= k /\ q[2] - i <= k
      BY <1>0, <3>1
    <3>8. Found(ext, off, f[<<q[1], i>>], q[1], i)
      BY <1>2, <3>1, <3>6, <3>7
    <3>9. Found(ext, off, f[<<i, q[2]>>], i, q[2])
      BY <1>2, <3>1, <3>6, <3>7
    <3> HIDE DEF P
    <3>10. CASE off < ext[i + 1].offset
      <4>1. f[q] = f[<<q[1], i>>]
        BY <3>3, <3>5, <3>10
      <4> QED
        BY <1>0, <3>1, <3>5, <3>8, <3>10, <4>1 DEF Found
    <3>11. CASE off > ext[i + 1].offset
      <4>1. f[q] = f[<<i, q[2]>>]
        BY <3>3, <3>5, <3>11
      <4> QED
        BY <1>0, <3>1, <3>5, <3>9, <3>11, <4>1 DEF Found
    <3>12. CASE off = ext[i + 1].offset
      <4>1. f[q] = i
        BY <3>3, <3>5, <3>12
      <4> QED
        BY <1>0, <3>1, <3>5, <3>12, <4>1 DEF Found
    <3> QED
      BY <3>5, <3>10, <3>11, <3>12
  <2> QED
    BY <1>0, <2>2, <2>3
<1>3. n + 1 \in P
  <2> HIDE DEF P
  <2> QED  BY <1>1, <1>2, Inductive
<1> QED
  BY <1>0, <1>3

LEMMA SearchFinds ==
    ASSUME NEW ext, Len(ext) \in Nat, \A k \in 1..Len(ext) : ext[k].offset \in Int,
           NEW off \in Int
    PROVE  Found(ext, off, search_extent(ext, off), -1, Len(ext))
<1>1. PICK n \in Nat : n = Len(ext)
  OBVIOUS
<1> DEFINE chosen == CHOOSE f : f = [p \in Bounds(n) |-> Bisect(ext, off, f, p)]
<1>2. chosen = [p \in Bounds(n) |-> Bisect(ext, off, chosen, p)]
  BY BisectExists, Zenon
<1>3. search_extent(ext, off) = chosen[<<-1, n>>]
  BY <1>1, Zenon DEF search_extent, Bisect, Bounds
<1> HIDE DEF chosen
<1>4. PICK f : /\ \A q \in Bounds(n) : f[q] = Bisect(ext, off, f, q)
              /\ search_extent(ext, off) = f[<<-1, n>>]
  BY <1>2, <1>3
<1>5. <<-1, n>> \in Bounds(n)
  BY DEF Bounds
<1>6. PICK p \in Bounds(n) : p = <<-1, n>>
  BY <1>5
<1>7. p[1] = -1 /\ p[2] = n /\ p[1] < p[2]
  BY <1>6
<1>8. Found(ext, off, f[p], p[1], p[2])
  <2>1. \A q \in Bounds(n) : f[q] = Bisect(ext, off, f, q)
    BY <1>4
  <2>2. p[1] < p[2]
    BY <1>7
  <2>3. n \in Nat /\ p \in Bounds(n)
    OBVIOUS
  <2>4. \A k \in 1..n : ext[k].offset \in Int
    BY <1>1
  <2> QED
    BY <2>1, <2>2, <2>3, <2>4, BisectFinds, Zenon
<1> QED
  BY <1>1, <1>4, <1>6, <1>7, <1>8

-----------------------------------------------------------------------------
(***************************************************************************)
(* Rounding.                                                               *)
(***************************************************************************)
LEMMA UnitIsPositive ==
    Unit \in Nat /\ Unit > 0
BY BlockSizeAssumption DEF Unit

LEMMA MultipleOfUnit ==
    ASSUME NEW q \in Int
    PROVE  q * Unit \in Int /\ (q * Unit) % Unit = 0
BY UnitIsPositive

LEMMA DividedByUnit ==
    ASSUME NEW x \in Int, x % Unit = 0
    PROVE  x \div Unit \in Int /\ x = (x \div Unit) * Unit
BY UnitIsPositive

LEMMA SumOfMultiples ==
    ASSUME NEW x \in Int, NEW y \in Int, x % Unit = 0, y % Unit = 0
    PROVE  (x + y) % Unit = 0
<1>1. PICK q \in Int, r \in Int : x = q * Unit /\ y = r * Unit
  BY DividedByUnit
<1>2. x + y = (q + r) * Unit
  BY <1>1, UnitIsPositive
<1> QED
  BY <1>2, MultipleOfUnit

LEMMA DifferenceOfMultiples ==
    ASSUME NEW x \in Int, NEW y \in Int, x % Unit = 0, y % Unit = 0
    PROVE  (x - y) % Unit = 0 /\ x - y \in Int
<1>1. PICK q \in Int, r \in Int : x = q * Unit /\ y = r * Unit
  BY DividedByUnit
<1>2. x - y = (q - r) * Unit
  BY <1>1, UnitIsPositive
<1> QED
  BY <1>2, MultipleOfUnit

LEMMA RoundDownIs ==
    ASSUME NEW x \in Int
    PROVE  /\ RoundDown(x) \in Int /\ RoundDown(x) % Unit = 0
           /\ RoundDown(x) <= x /\ x < RoundDown(x) + Unit
           /\ x >= 0 => RoundDown(x) >= 0
<1>1. x \div Unit \in Int
  BY UnitIsPositive
<1>2. RoundDown(x) \in Int /\ RoundDown(x) % Unit = 0
  BY <1>1, MultipleOfUnit DEF RoundDown
<1>3. RoundDown(x) <= x /\ x < RoundDown(x) + Unit
  BY UnitIsPositive DEF RoundDown
<1>4. x >= 0 => RoundDown(x) >= 0
  BY UnitIsPositive DEF RoundDown
<1> QED
  BY <1>2, <1>3, <1>4

LEMMA RoundUpIs ==
    ASSUME NEW x \in Int
    PROVE  /\ RoundUp(x) \in Int /\ RoundUp(x) % Unit = 0
           /\ x <= RoundUp(x) /\ RoundUp(x) < x + Unit
<1>1. x + Unit - 1 \in Int
  BY UnitIsPositive
<1> DEFINE y == x + Unit - 1
<1>2. RoundUp(x) = RoundDown(y)
  BY DEF RoundUp
<1> HIDE DEF y
<1>3. y \in Int
  BY <1>1 DEF y
<1>4. /\ RoundDown(y) \in Int /\ RoundDown(y) % Unit = 0
      /\ RoundDown(y) <= y /\ y < RoundDown(y) + Unit
  BY <1>3, RoundDownIs
<1> QED
  BY <1>2, <1>4, UnitIsPositive DEF y

(* Two multiples that are less than a unit apart in order. *)
LEMMA RoundUpWithin ==
    ASSUME NEW x \in Int, NEW m \in Int, m % Unit = 0, x <= m
    PROVE  RoundUp(x) <= m
<1>1. PICK q \in Int, r \in Int : m = q * Unit /\ RoundUp(x) = r * Unit
  BY DividedByUnit, RoundUpIs
<1>2. RoundUp(x) < m + Unit
  <2>1. RoundUp(x) \in Int /\ RoundUp(x) < x + Unit
    BY RoundUpIs
  <2> QED
    BY <2>1, UnitIsPositive
<1>3. r * Unit < q * Unit + Unit
  BY <1>1, <1>2
<1>4. r <= q
  BY <1>3, UnitIsPositive
<1> QED
  BY <1>1, <1>4, UnitIsPositive

(* Rounding moves with whole units. *)
LEMMA RoundUpShift ==
    ASSUME NEW x \in Int, NEW m \in Int, m % Unit = 0
    PROVE  RoundUp(x + m) = RoundUp(x) + m
<1>1. x + m \in Int /\ -m \in Int
  OBVIOUS
<1>2. (-m) % Unit = 0
  <2>1. PICK q \in Int : m = q * Unit
    BY DividedByUnit
  <2>2. -q \in Int /\ -m = (-q) * Unit
    BY <2>1, UnitIsPositive
  <2> QED
    BY <2>2, MultipleOfUnit
<1>3. RoundUp(x) \in Int /\ RoundUp(x) % Unit = 0 /\ x <= RoundUp(x)
  BY RoundUpIs
<1>4. RoundUp(x + m) \in Int /\ RoundUp(x + m) % Unit = 0 /\ x + m <= RoundUp(x + m)
  BY <1>1, RoundUpIs
<1>5. RoundUp(x + m) <= RoundUp(x) + m
  <2>1. (RoundUp(x) + m) % Unit = 0
    BY <1>3, SumOfMultiples
  <2>2. RoundUp(x) + m \in Int /\ x + m <= RoundUp(x) + m
    BY <1>3
  <2> QED
    BY <1>1, <2>1, <2>2, RoundUpWithin
<1>6. RoundUp(x) <= RoundUp(x + m) + (-m)
  <2>1. (RoundUp(x + m) + (-m)) % Unit = 0
    BY <1>1, <1>2, <1>4, SumOfMultiples
  <2>2. RoundUp(x + m) + (-m) \in Int /\ x <= RoundUp(x + m) + (-m)
    BY <1>4
  <2> QED
    BY <2>1, <2>2, RoundUpWithin
<1> QED
  BY <1>3, <1>4, <1>5, <1>6

-----------------------------------------------------------------------------
(***************************************************************************)
(* The invariant.  What write does to one extent depends on the call that  *)
(* is being made, and every call comes from another or from a WRITE.       *)
(***************************************************************************)
Data == Seq(Byte \cup {0})

ExtentOk(e) ==
    /\ e \in [offset : Nat, data : Data]
    /\ e.offset % Unit = 0 /\ Len(e.data) < MaxExtentSize + Unit

Call == [buf : Seq(Byte), off : Nat]

LimitsInv ==
    /\ extents \in Seq([offset : Nat, data : Data])
    /\ \A k \in 1..Len(extents) : ExtentOk(extents[k])
    /\ todo \in Seq(Call)
    /\ status = "writing" => todo # <<>>

Vector(ext) ==
    ext \in Seq([offset : Nat, data : Data]) /\ \A k \in 1..Len(ext) : ExtentOk(ext[k])

LEMMA LimitsInit == Init => LimitsInv
BY DEF Init, LimitsInv

LEMMA VectorAppend ==
    ASSUME NEW ext, Vector(ext), NEW e, ExtentOk(e)
    PROVE  Vector(Append(ext, e))
BY DEF Vector, ExtentOk

LEMMA VectorExcept ==
    ASSUME NEW ext, Vector(ext), NEW k \in 1..Len(ext), NEW e, ExtentOk(e)
    PROVE  Vector([ext EXCEPT ![k] = e]) /\ Len([ext EXCEPT ![k] = e]) = Len(ext)
BY DEF Vector, ExtentOk

LEMMA ReturnOk ==
    ASSUME LimitsInv, status = "writing", NEW ext, Vector(ext), Return(ext)
    PROVE  LimitsInv'
<1>1. todo # <<>> /\ todo \in Seq(Call)
  BY DEF LimitsInv
<1>2. Rest \in Seq(Call)
  BY <1>1 DEF Rest
<1>3. todo' = Rest /\ extents' = ext /\ (status' = "writing" => Rest # <<>>)
  BY DEF Return
<1> QED
  BY <1>2, <1>3 DEF LimitsInv, Vector

LEMMA RecurseOk ==
    ASSUME LimitsInv, status = "writing", NEW calls \in Seq(Call), calls # <<>>, Recurse(calls)
    PROVE  LimitsInv'
<1>1. todo # <<>> /\ todo \in Seq(Call)
  BY DEF LimitsInv
<1>2. Rest \in Seq(Call)
  BY <1>1 DEF Rest
<1>3. todo' = calls \o Rest /\ UNCHANGED <<extents, status>>
  BY DEF Recurse
<1>4. calls \o Rest \in Seq(Call) /\ calls \o Rest # <<>>
  BY <1>2
<1> QED
  BY <1>3, <1>4 DEF LimitsInv

LEMMA FailOk ==
    ASSUME LimitsInv, Fail
    PROVE  LimitsInv'
BY DEF LimitsInv, Fail

LEMMA CallIs ==
    ASSUME LimitsInv, status = "writing"
    PROVE  Buf \in Seq(Byte) /\ Len(Buf) \in Nat /\ Off \in Nat
<1>1. todo # <<>> /\ todo \in Seq(Call)
  BY DEF LimitsInv
<1>2. Head(todo) \in Call
  BY <1>1
<1> QED
  BY <1>2 DEF Buf, Off, Call

LEMMA IntoIs ==
    ASSUME LimitsInv, status = "writing", At # -1
    PROVE  /\ At + 1 \in 1..Len(extents) /\ At \in Nat
           /\ ExtentOk(Into) /\ InOfs \in Nat /\ InEnd \in Nat
<1>1. Len(extents) \in Nat /\ \A k \in 1..Len(extents) : extents[k].offset \in Int
  BY DEF LimitsInv, ExtentOk
<1>2. Off \in Int
  BY CallIs
<1>3. Found(extents, Off, At, -1, Len(extents))
  BY <1>1, <1>2, SearchFinds DEF At
<1>4. At + 1 \in 1..Len(extents) /\ At \in Nat
  BY <1>1, <1>3 DEF Found
<1>5. ExtentOk(Into)
  BY <1>4 DEF LimitsInv, Into
<1>6. Into.offset <= Off /\ Into.offset \in Nat
  BY <1>3, <1>5 DEF Found, Into, ExtentOk
<1> QED
  BY <1>4, <1>5, <1>6, CallIs DEF InOfs, InEnd

LEMMA ChunksAre ==
    ASSUME LimitsInv, WriteChunks
    PROVE  \E calls \in Seq(Call) : calls # <<>> /\ Recurse(calls)
<1> DEFINE M == MaxExtentSize
           L == Len(Buf)
           chunks == (L + M - 1) \div M
           part == [k \in 1..chunks |->
                      [buf |-> SubSeq(Buf, (k - 1) * M + 1, MinOf(k * M, L)),
                       off |-> Off + (k - 1) * M]]
<1>1. status = "writing" /\ Oversized /\ Recurse(part)
  BY DEF WriteChunks
<1>2. Buf \in Seq(Byte) /\ L \in Nat /\ Off \in Nat
  BY <1>1, CallIs
<1>3. M \in Nat /\ M > 0
  BY MaxExtentSizeAssumption
<1>4. L > 0
  <2>1. RoundUp(L) \in Int /\ RoundUp(L) < L + Unit /\ RoundUp(L) % Unit = 0 /\ RoundUp(L) > M
    BY <1>1, <1>2, RoundUpIs DEF Oversized
  <2>2. SUFFICES ASSUME L <= 0 PROVE FALSE
    BY <1>2
  <2>3. RoundUp(L) <= M
    BY <1>2, <1>3, <2>2, RoundUpWithin, MaxExtentSizeAssumption
  <2> QED
    BY <1>3, <2>1, <2>3
<1>5. chunks \in Nat /\ chunks > 0 /\ chunks * M <= L + M - 1
  BY <1>2, <1>3, <1>4
<1>6. \A k \in 1..chunks : part[k] \in Call
  <2> SUFFICES ASSUME NEW k \in 1..chunks PROVE part[k] \in Call
    OBVIOUS
  <2> DEFINE lo == (k - 1) * M + 1
             hi == MinOf(k * M, L)
  <2>1. (k - 1) * M \in Nat /\ k * M \in Nat
    BY <1>3, <1>5
  <2>2. lo \in Int /\ lo >= 1 /\ hi \in Int /\ hi <= L
    BY <1>2, <2>1 DEF MinOf
  <2>3. part[k] = [buf |-> SubSeq(Buf, lo, hi), off |-> Off + (k - 1) * M]
    OBVIOUS
  <2> HIDE DEF lo, hi
  <2>4. \A i \in lo..hi : Buf[i] \in Byte
    BY <1>2, <2>2
  <2>5. SubSeq(Buf, lo, hi) \in Seq(Byte)
    BY <2>2, <2>4, SubSeqProperties
  <2>6. Off + (k - 1) * M \in Nat
    BY <1>2, <2>1
  <2> QED
    BY <2>3, <2>5, <2>6 DEF Call
<1>7. part \in Seq(Call) /\ part # <<>>
  <2>1. part \in [1..chunks -> Call]
    BY <1>6
  <2> HIDE DEF part, chunks
  <2>2. part \in Seq(Call) /\ Len(part) = chunks
    BY <1>5, <2>1
  <2> QED
    BY <1>5, <2>2
<1> HIDE DEF part, chunks
<1> QED
  BY <1>1, <1>7

LEMMA ChunksOk ==
    ASSUME LimitsInv, WriteChunks
    PROVE  LimitsInv'
BY ChunksAre, RecurseOk DEF WriteChunks

LEMMA NewExtentOk ==
    ASSUME LimitsInv, WriteNewExtent
    PROVE  LimitsInv'
<1> DEFINE base == RoundDown(Off)
           data == Zeros(Off - base) \o Buf
<1>1. status = "writing" /\ ~ Oversized /\ Return(Append(extents, Extent(base, data)))
  BY DEF WriteNewExtent
<1>2. Buf \in Seq(Byte) /\ Len(Buf) \in Nat /\ Off \in Nat
  BY <1>1, CallIs
<1>3. base \in Nat /\ base % Unit = 0 /\ Off - base \in Nat /\ Off - base < Unit
  <2>1. /\ base \in Int /\ base % Unit = 0 /\ base <= Off /\ Off < base + Unit /\ base >= 0
    BY <1>2, RoundDownIs
  <2> QED
    BY <1>2, <2>1, UnitIsPositive
<1>4. Len(Buf) <= MaxExtentSize
  <2>1. RoundUp(Len(Buf)) \in Int /\ Len(Buf) <= RoundUp(Len(Buf))
    BY <1>2, RoundUpIs
  <2> QED
    BY <1>1, <1>2, <2>1, MaxExtentSizeAssumption DEF Oversized
<1>5. Zeros(Off - base) \in Data /\ Len(Zeros(Off - base)) = Off - base
  BY <1>3 DEF Zeros, Data
<1>6. Buf \in Data
  BY <1>2 DEF Data
<1>7. data \in Data /\ Len(data) = (Off - base) + Len(Buf)
  BY <1>5, <1>6, ConcatProperties DEF Data
<1> HIDE DEF data, base
<1>8. ExtentOk(Extent(base, data))
  BY <1>2, <1>3, <1>4, <1>7, MaxExtentSizeAssumption, UnitIsPositive DEF ExtentOk, Extent
<1>9. Vector(Append(extents, Extent(base, data)))
  BY <1>8, VectorAppend DEF LimitsInv, Vector
<1> QED
  BY <1>1, <1>9, ReturnOk

LEMMA SplitIs ==
    ASSUME LimitsInv, WriteSplit
    PROVE  Fail \/ \E calls \in Seq(Call) : calls # <<>> /\ Recurse(calls)
<1>1. status = "writing" /\ At # -1 /\ TooLong /\ ~ Oversized
  BY DEF WriteSplit, Inside
<1>2. Buf \in Seq(Byte) /\ Len(Buf) \in Nat /\ Off \in Nat /\ InOfs \in Nat
  BY <1>1, CallIs, IntoIs
<1>3. CASE InOfs > MaxExtentSize
  BY <1>3 DEF WriteSplit
<1>4. CASE ~ (InOfs > MaxExtentSize)
  <2> DEFINE possible == MaxExtentSize - InOfs
             first == [buf |-> SubSeq(Buf, 1, possible), off |-> Off]
             second == [buf |-> SubSeq(Buf, possible + 1, Len(Buf)), off |-> Off + possible]
  <2>1. Recurse(<<first, second>>)
    BY <1>4 DEF WriteSplit
  <2>2. possible \in Nat
    BY <1>2, <1>4, MaxExtentSizeAssumption
  <2>3. possible < Len(Buf)
    <3>1. SUFFICES ASSUME Len(Buf) <= possible PROVE FALSE
      BY <1>2, <2>2
    <3>2. InEnd \in Int /\ InEnd <= MaxExtentSize
      BY <1>2, <3>1, MaxExtentSizeAssumption DEF InEnd
    <3>3. RoundUp(InEnd) <= MaxExtentSize
      BY <3>2, RoundUpWithin, MaxExtentSizeAssumption
    <3>4. RoundUp(InEnd) \in Int
      BY <3>2, RoundUpIs
    <3> QED
      BY <1>1, <3>3, <3>4, MaxExtentSizeAssumption DEF TooLong
  <2> HIDE DEF possible
  <2>4. SubSeq(Buf, 1, possible) \in Seq(Byte)
    <3>1. \A i \in 1..possible : Buf[i] \in Byte
      BY <1>2, <2>2, <2>3
    <3> QED
      BY <2>2, <3>1, SubSeqProperties
  <2>5. SubSeq(Buf, possible + 1, Len(Buf)) \in Seq(Byte)
    <3>1. \A i \in (possible + 1)..Len(Buf) : Buf[i] \in Byte
      BY <1>2, <2>2, <2>3
    <3>2. possible + 1 \in Int /\ Len(Buf) \in Int
      BY <1>2, <2>2
    <3> QED
      BY <3>1, <3>2, SubSeqProperties
  <2>6. first \in Call /\ second \in Call
    BY <1>2, <2>2, <2>4, <2>5 DEF Call
  <2> HIDE DEF first, second
  <2>7. <<first, second>> \in Seq(Call) /\ <<first, second>> # <<>>
    BY <2>6
  <2> QED
    BY <2>1, <2>7
<1> QED
  BY <1>3, <1>4

LEMMA SplitOk ==
    ASSUME LimitsInv, WriteSplit
    PROVE  LimitsInv'
BY SplitIs, RecurseOk, FailOk DEF WriteSplit, Inside

(* A resize and the copy give an extent of the size that was asked for. *)
LEMMA CopiedIs ==
    ASSUME LimitsInv, status = "writing", At # -1, NEW n \in Nat
    PROVE  Copied(n) \in Data /\ Len(Copied(n)) = n
<1>1. Buf \in Seq(Byte) /\ InOfs \in Nat /\ InEnd = InOfs + Len(Buf) /\ Into.data \in Data
  BY CallIs, IntoIs DEF InEnd, ExtentOk
<1>2. \A i \in 1..n : Copied(n)[i] \in Byte \cup {0}
  <2> SUFFICES ASSUME NEW i \in 1..n PROVE Copied(n)[i] \in Byte \cup {0}
    OBVIOUS
  <2>1. CASE i > InOfs /\ i <= InEnd
    <3>1. i - InOfs \in 1..Len(Buf)
      BY <1>1, <2>1
    <3> QED
      BY <1>1, <2>1, <3>1 DEF Copied
  <2>2. CASE ~ (i > InOfs /\ i <= InEnd)
    BY <1>1, <2>2 DEF Copied, Data
  <2> QED
    BY <2>1, <2>2
<1>3. Copied(n) \in [1..n -> Byte \cup {0}]
  BY <1>2 DEF Copied
<1> QED
  BY <1>3 DEF Data

(* The extent that took the write is replaced by one of another content. *)
LEMMA ReplaceOk ==
    ASSUME LimitsInv, status = "writing", At # -1, NEW data \in Data,
           Len(data) < MaxExtentSize + Unit,
           Return([extents EXCEPT ![At + 1].data = data])
    PROVE  LimitsInv'
<1>1. At + 1 \in 1..Len(extents) /\ ExtentOk(Into) /\ Into = extents[At + 1]
  BY IntoIs DEF Into
<1>2. ExtentOk([Into EXCEPT !.data = data])
  BY <1>1 DEF ExtentOk
<1>3. [extents EXCEPT ![At + 1].data = data] =
        [extents EXCEPT ![At + 1] = [Into EXCEPT !.data = data]]
  BY <1>1
<1>4. Vector([extents EXCEPT ![At + 1] = [Into EXCEPT !.data = data]])
  BY <1>1, <1>2, VectorExcept DEF LimitsInv, Vector
<1> QED
  BY <1>3, <1>4, ReturnOk

LEMMA OverwriteOk ==
    ASSUME LimitsInv, WriteOverwrite
    PROVE  LimitsInv'
<1>1. /\ status = "writing" /\ At # -1
      /\ Return([extents EXCEPT ![At + 1].data = Copied(Len(Into.data))])
  BY DEF WriteOverwrite, Fits, Inside
<1>2. Len(Into.data) \in Nat /\ Len(Into.data) < MaxExtentSize + Unit
  BY <1>1, IntoIs DEF ExtentOk, Data
<1>3. Copied(Len(Into.data)) \in Data /\ Len(Copied(Len(Into.data))) = Len(Into.data)
  BY <1>1, <1>2, CopiedIs
<1> QED
  BY <1>1, <1>2, <1>3, ReplaceOk

(* A write that fits ends within the limit. *)
LEMMA FitsWithin ==
    ASSUME LimitsInv, Fits
    PROVE  /\ status = "writing" /\ At # -1 /\ InEnd \in Nat
           /\ RoundUp(InEnd) \in Nat /\ InEnd <= RoundUp(InEnd)
           /\ RoundUp(InEnd) <= MaxExtentSize
<1>1. status = "writing" /\ At # -1 /\ ~ (RoundUp(InEnd) > MaxExtentSize)
  BY DEF Fits, Inside, TooLong
<1>2. InEnd \in Nat
  BY <1>1, IntoIs
<1>3. RoundUp(InEnd) \in Int /\ InEnd <= RoundUp(InEnd)
  BY <1>2, RoundUpIs
<1> QED
  BY <1>1, <1>2, <1>3, MaxExtentSizeAssumption

LEMMA GrowOk ==
    ASSUME LimitsInv, WriteGrow
    PROVE  LimitsInv'
<1>1. Fits /\ Return([extents EXCEPT ![At + 1].data = Copied(InEnd)])
  BY DEF WriteGrow
<1>2. status = "writing" /\ At # -1 /\ InEnd \in Nat /\ InEnd < MaxExtentSize + Unit
  BY <1>1, FitsWithin, MaxExtentSizeAssumption, UnitIsPositive
<1>3. Copied(InEnd) \in Data /\ Len(Copied(InEnd)) = InEnd
  BY <1>2, CopiedIs
<1> QED
  BY <1>1, <1>2, <1>3, ReplaceOk

(* The extent grows to a multiple of the unit, and the next one gives up   *)
(* whole units.                                                            *)
Merged(mine, rest) ==
    /\ At \in Nat /\ At + 1 \in 1..Len(extents) /\ At + 2 \in 1..Len(extents)
    /\ ExtentOk([Into EXCEPT !.data = mine]) /\ ExtentOk(rest)
    /\ Len(mine) = RoundUp(InEnd)
    /\ rest.offset = Into.offset + RoundUp(InEnd)
    /\ End(rest) = End(extents[At + 2])
    /\ extents[At + 2].offset <= Into.offset + InEnd
    /\ \A q \in 1..InEnd : mine[q] = Copied(RoundUp(InEnd))[q]
    /\ \A q \in 1..Len(rest.data) :
          rest.data[q] = extents[At + 2].data[q + (rest.offset - extents[At + 2].offset)]

LEMMA MergeIs ==
    ASSUME LimitsInv, WriteMerge, ~ Fail
    PROVE  \E mine, rest :
             /\ Merged(mine, rest)
             /\ Return([extents EXCEPT ![At + 1].data = mine, ![At + 2] = rest])
<1>1. Fits /\ ~ IsLast
  BY DEF WriteMerge
<1>2. /\ status = "writing" /\ At # -1 /\ InEnd \in Nat
      /\ RoundUp(InEnd) \in Nat /\ RoundUp(InEnd) <= MaxExtentSize
  BY <1>1, FitsWithin
<1>3. /\ At \in Nat /\ At + 1 \in 1..Len(extents) /\ At + 2 \in 1..Len(extents)
      /\ ExtentOk(Into) /\ Into = extents[At + 1]
  <2>1. At + 1 \in 1..Len(extents) /\ At \in Nat /\ ExtentOk(Into) /\ Len(extents) \in Nat
    BY <1>2, IntoIs DEF LimitsInv
  <2>2. At + 1 # Len(extents)
    BY <1>1 DEF IsLast
  <2>3. At + 2 \in 1..Len(extents)
    BY <2>1, <2>2
  <2> QED
    BY <2>1, <2>3 DEF Into
<1> DEFINE next == extents[At + 2]
           over == Into.offset + InEnd - next.offset
           moved == RoundUp(over) - over
           grown == Copied(RoundUp(InEnd))
           kept == Len(grown) - moved
           mine == SubSeq(grown, 1, kept) \o SubSeq(next.data, 1, moved)
           its == SubSeq(next.data, RoundUp(over) + 1, Len(next.data))
<1>4. \/ Fail
      \/ /\ ~ (over < 0 \/ moved > Len(next.data) \/ RoundUp(over) > Len(next.data) \/ kept < 0)
         /\ Return([extents EXCEPT ![At + 1].data = mine,
                                   ![At + 2] = Extent(next.offset + RoundUp(over), its)])
  BY DEF WriteMerge, CutFront
<1>5. ExtentOk(next) /\ next.offset \in Nat /\ next.data \in Data /\ Len(next.data) \in Nat
  BY <1>3, SMTT(30) DEF LimitsInv, ExtentOk, Data
<1>6. over \in Int
  BY <1>2, <1>3, <1>5, SMTT(30) DEF ExtentOk
<1>7. grown \in Data /\ Len(grown) = RoundUp(InEnd)
  BY <1>2, CopiedIs
<1>8. RoundUp(over) \in Int /\ RoundUp(over) % Unit = 0 /\ over <= RoundUp(over)
  BY <1>6, RoundUpIs
<1>9. moved \in Nat /\ kept \in Int
  BY <1>2, <1>6, <1>7, <1>8
<1>10. /\ over >= 0 /\ moved <= Len(next.data) /\ RoundUp(over) <= Len(next.data) /\ kept >= 0
      /\ Return([extents EXCEPT ![At + 1].data = mine,
                                ![At + 2] = Extent(next.offset + RoundUp(over), its)])
  <2> HIDE DEF mine, its, next, over, moved, kept
  <2>1. ~ (over < 0) /\ ~ (moved > Len(next.data)) /\ ~ (RoundUp(over) > Len(next.data))
        /\ ~ (kept < 0)
    BY <1>4
  <2> QED
    BY <1>4, <1>5, <1>6, <1>8, <1>9, <2>1
<1> DEFINE its_offset == next.offset + RoundUp(over)
<1>11. SubSeq(grown, 1, kept) \in Data /\ Len(SubSeq(grown, 1, kept)) = kept
  <2> HIDE DEF grown, moved
  <2>1. kept \in Int /\ 0 <= kept /\ kept <= Len(grown)
    BY <1>2, <1>7, <1>9, <1>10
  <2>2. \A i \in 1..kept : grown[i] \in Byte \cup {0}
    BY <1>7, <2>1 DEF Data
  <2> HIDE DEF kept
  <2> QED
    BY <2>1, <2>2, SubSeqProperties DEF Data
<1>12. SubSeq(next.data, 1, moved) \in Data /\ Len(SubSeq(next.data, 1, moved)) = moved
  <2> HIDE DEF next, moved
  <2>1. \A i \in 1..moved : next.data[i] \in Byte \cup {0}
    BY <1>5, <1>9, <1>10 DEF Data
  <2> QED
    BY <1>9, <2>1, SubSeqProperties DEF Data
<1>13. /\ its \in Data
      /\ Len(its) <= Len(next.data)
  <2> DEFINE ru == RoundUp(over)
  <2>1. ru \in Nat /\ ru <= Len(next.data)
    BY <1>6, <1>8, <1>10
  <2> HIDE DEF next, ru
  <2>2. \A i \in (ru + 1)..Len(next.data) : next.data[i] \in Byte \cup {0}
    BY <1>5, <2>1 DEF Data
  <2>3. ru + 1 \in Int /\ Len(next.data) \in Int
    BY <1>5, <2>1
  <2>4. SubSeq(next.data, ru + 1, Len(next.data)) \in Data
    BY <2>2, <2>3, SubSeqProperties DEF Data
  <2>5. Len(SubSeq(next.data, ru + 1, Len(next.data))) =
          IF ru + 1 <= Len(next.data) THEN Len(next.data) - (ru + 1) + 1 ELSE 0
    BY <2>2, <2>3, SubSeqProperties
  <2> QED
    BY <1>5, <2>1, <2>4, <2>5, SMTT(30) DEF ru
<1>14. mine \in Data /\ Len(mine) = kept + moved
  BY <1>11, <1>12, ConcatProperties DEF Data
<1>15. Len(mine) = RoundUp(InEnd)
  <2> HIDE DEF moved, grown, mine
  <2> QED  BY <1>2, <1>7, <1>9, <1>14, SMTT(30)
<1>16. its_offset \in Nat /\ its_offset % Unit = 0
  <2>1. RoundUp(over) \in Nat /\ next.offset % Unit = 0
    BY <1>5, <1>6, <1>8, <1>10 DEF ExtentOk
  <2> HIDE DEF next, over
  <2>2. next.offset \in Int /\ its_offset \in Nat
    BY <1>5, <2>1
  <2>3. (next.offset + RoundUp(over)) % Unit = 0
    BY <1>8, <2>1, <2>2, SumOfMultiples, Zenon
  <2> QED
    BY <2>2, <2>3
<1>17. ExtentOk(Extent(its_offset, its))
  <2> HIDE DEF its_offset, its, next
  <2> QED  BY <1>5, <1>13, <1>16, MaxExtentSizeAssumption, UnitIsPositive
             DEF ExtentOk, Extent, Data
<1> DEFINE his == [Into EXCEPT !.data = mine]
<1>18. ExtentOk(his)
  <2> HIDE DEF mine
  <2>1. Len(mine) < MaxExtentSize + Unit
    BY <1>2, <1>15, MaxExtentSizeAssumption, UnitIsPositive
  <2>2. mine \in Data
    BY <1>14
  <2> QED
    BY <1>3, <2>1, <2>2 DEF ExtentOk
<1>19. RoundUp(over) = RoundUp(InEnd) + (Into.offset - next.offset)
  <2>1. (Into.offset - next.offset) % Unit = 0 /\ Into.offset - next.offset \in Int
    <3>1. /\ Into.offset \in Int /\ next.offset \in Int
          /\ Into.offset % Unit = 0 /\ next.offset % Unit = 0
      BY <1>3, <1>5 DEF ExtentOk
    <3> QED
      BY <3>1, DifferenceOfMultiples
  <2>2. over = InEnd + (Into.offset - next.offset)
    BY <1>2, <1>3, <1>5 DEF ExtentOk
  <2> HIDE DEF over, next
  <2> QED
    BY <1>2, <2>1, <2>2, RoundUpShift
<1>20. Into.offset \in Nat /\ kept = InEnd /\ its_offset = Into.offset + RoundUp(InEnd)
  <2>1. Into.offset \in Nat /\ over = Into.offset + InEnd - next.offset
    BY <1>3 DEF ExtentOk
  <2>2. PICK no \in Nat, ro \in Int, ri \in Nat, io \in Nat :
          no = next.offset /\ ro = RoundUp(over) /\ ri = RoundUp(InEnd) /\ io = Into.offset
    BY <1>2, <1>5, <1>8, <2>1
  <2>3. kept = ri - (ro - (io + InEnd - no)) /\ its_offset = no + ro
    BY <1>7, <2>1, <2>2
  <2>4. ro = ri + (io - no)
    BY <1>19, <2>2
  <2> HIDE DEF next, over, grown, kept, its_offset
  <2> QED
    BY <1>2, <2>1, <2>2, <2>3, <2>4
<1>21. next.offset <= Into.offset + InEnd
  <2> HIDE DEF next
  <2> QED
    BY <1>2, <1>5, <1>10, <1>20
<1>22. \A q \in 1..InEnd : mine[q] = grown[q]
  <2> SUFFICES ASSUME NEW q \in 1..InEnd PROVE mine[q] = grown[q]
    OBVIOUS
  <2>1. \A i \in 1..kept : grown[i] \in Byte \cup {0}
    BY <1>2, <1>7, <1>9, <1>10, <1>11, <1>20, FitsWithin, <1>1 DEF Data
  <2>2. q \in 1..kept
    BY <1>20
  <2> HIDE DEF grown, moved, kept, next
  <2>3. SubSeq(grown, 1, kept)[q] = grown[q]
    BY <1>9, <2>1, <2>2, SubSeqProperties
  <2>4. mine[q] = SubSeq(grown, 1, kept)[q]
    BY <1>9, <1>11, <1>12, <2>2, ConcatProperties DEF Data
  <2> QED
    BY <2>3, <2>4
<1> DEFINE rest == Extent(its_offset, its)
<1>23. rest.offset = its_offset /\ rest.data = its
  BY DEF Extent
<1>24. /\ Len(its) = Len(next.data) - RoundUp(over)
       /\ \A q \in 1..Len(its) : its[q] = next.data[q + RoundUp(over)]
  <2> DEFINE ru == RoundUp(over)
  <2>1. ru \in Nat /\ ru <= Len(next.data)
    BY <1>6, <1>8, <1>10
  <2> HIDE DEF next, ru
  <2>2. \A i \in (ru + 1)..Len(next.data) : next.data[i] \in Byte \cup {0}
    BY <1>5, <2>1 DEF Data
  <2>3. ru + 1 \in Int /\ Len(next.data) \in Int
    BY <1>5, <2>1
  <2>4. PICK t : t = SubSeq(next.data, ru + 1, Len(next.data))
    OBVIOUS
  <2>5. /\ Len(t) = IF ru + 1 <= Len(next.data) THEN Len(next.data) - (ru + 1) + 1 ELSE 0
        /\ \A q \in 1..(Len(next.data) - (ru + 1) + 1) : t[q] = next.data[(ru + 1) + q - 1]
    BY <2>2, <2>3, <2>4, SubSeqProperties
  <2>6. Len(t) = Len(next.data) - ru
    BY <1>5, <2>1, <2>5
  <2>7. \A q \in 1..Len(t) : t[q] = next.data[q + ru]
    <3> SUFFICES ASSUME NEW q \in 1..Len(t) PROVE t[q] = next.data[q + ru]
      OBVIOUS
    <3>1. q \in 1..(Len(next.data) - (ru + 1) + 1) /\ (ru + 1) + q - 1 = q + ru
      BY <1>5, <2>1, <2>6
    <3> QED
      BY <2>5, <3>1
  <2> QED
    BY <2>4, <2>6, <2>7 DEF ru
<1>25. its_offset - next.offset = RoundUp(over)
  <2> HIDE DEF next, over
  <2> QED
    BY <1>5, <1>8
<1>26. End(rest) = End(next)
  <2>1. End(rest) = its_offset + Len(its) /\ End(next) = next.offset + Len(next.data)
    BY <1>23 DEF End
  <2> HIDE DEF next, over, its, rest
  <2> QED
    BY <1>5, <1>8, <1>24, <2>1
<1>27. \A q \in 1..Len(rest.data) : rest.data[q] = next.data[q + (rest.offset - next.offset)]
  <2> HIDE DEF next, over, its, rest, its_offset
  <2> QED
    BY <1>23, <1>24, <1>25
<1>28. Return([extents EXCEPT ![At + 1].data = mine, ![At + 2] = rest])
  BY <1>10
<1>29. ExtentOk([Into EXCEPT !.data = mine]) /\ ExtentOk(rest)
  BY <1>17, <1>18
<1>30. Merged(mine, rest)
  <2> HIDE DEF mine, rest, its_offset
  <2> QED
    BY <1>3, <1>15, <1>20, <1>21, <1>22, <1>23, <1>26, <1>27, <1>29 DEF Merged
<1> HIDE DEF mine, rest
<1> QED
  BY <1>28, <1>30

LEMMA MergeOk ==
    ASSUME LimitsInv, WriteMerge
    PROVE  LimitsInv'
<1>1. CASE Fail
  BY <1>1, FailOk
<1>2. CASE ~ Fail
  <2>1. PICK mine, rest : /\ Merged(mine, rest)
                          /\ Return([extents EXCEPT ![At + 1].data = mine, ![At + 2] = rest])
    BY <1>2, MergeIs
  <2>2. PICK his : his = [Into EXCEPT !.data = mine]
    OBVIOUS
  <2>3. /\ At + 1 \in 1..Len(extents) /\ At + 2 \in 1..Len(extents)
        /\ ExtentOk(his) /\ ExtentOk(rest)
    BY <2>1, <2>2 DEF Merged
  <2>4. [extents EXCEPT ![At + 1].data = mine, ![At + 2] = rest] =
          [[extents EXCEPT ![At + 1] = his] EXCEPT ![At + 2] = rest]
    BY <2>2, <2>3 DEF Into
  <2>5. Vector(extents) /\ status = "writing"
    BY DEF LimitsInv, Vector, WriteMerge, Fits, Inside
  <2>6. /\ Vector([extents EXCEPT ![At + 1] = his])
        /\ Len([extents EXCEPT ![At + 1] = his]) = Len(extents)
    BY <2>3, <2>5, VectorExcept
  <2>7. Vector([[extents EXCEPT ![At + 1] = his] EXCEPT ![At + 2] = rest])
    BY <2>3, <2>6, VectorExcept
  <2> QED
    BY <2>1, <2>4, <2>5, <2>7, ReturnOk
<1> QED
  BY <1>1, <1>2

(* truncate keeps a part of the vector and cuts the last extent of it. *)
LEMMA TruncateOk ==
    ASSUME LimitsInv, NEW n \in Nat
    PROVE  Vector(truncate(n))
<1> DEFINE at == search_extent(extents, n)
<1>1. Vector(extents) /\ Len(extents) \in Nat
  BY DEF LimitsInv, Vector
<1>2. \A k \in 1..Len(extents) : extents[k].offset \in Int
  BY <1>1 DEF Vector, ExtentOk
<1>3. Found(extents, n, at, -1, Len(extents))
  BY <1>1, <1>2, SearchFinds
<1> HIDE DEF at
<1>4. \A m \in 0..Len(extents) :
        Vector(SubSeq(extents, 1, m)) /\ Len(SubSeq(extents, 1, m)) = m
        /\ \A k \in 1..m : SubSeq(extents, 1, m)[k] = extents[k]
  <2> TAKE m \in 0..Len(extents)
  <2> DEFINE part == SubSeq(extents, 1, m)
  <2>0. \A k \in 1..m : k \in 1..Len(extents)
    BY <1>1
  <2>1. \A k \in 1..m : extents[k] \in [offset : Nat, data : Data] /\ ExtentOk(extents[k])
    BY <1>1, <2>0 DEF Vector, ExtentOk
  <2>2. part \in Seq([offset : Nat, data : Data]) /\ Len(part) = m
    BY <2>1, SubSeqProperties
  <2>3. \A k \in 1..m : part[k] = extents[k]
    BY <1>1, <2>1, SubSeqProperties
  <2> HIDE DEF part
  <2>4. Vector(part)
    BY <2>1, <2>2, <2>3 DEF Vector
  <2> QED
    BY <2>2, <2>3, <2>4 DEF part
<1>5. CASE at = -1
  <2>1. truncate(n) = <<>>
    BY <1>5 DEF truncate, at
  <2> QED
    BY <2>1 DEF Vector
<1>6. CASE at # -1
  <2>1. at + 1 \in 1..Len(extents) /\ at \in Nat /\ extents[at + 1].offset <= n
    BY <1>1, <1>3, <1>6 DEF Found
  <2> DEFINE whole == SubSeq(extents, 1, at + 1)
             e == extents[at + 1]
             cut == SubSeq(e.data, 1, MinOf(n - e.offset, Len(e.data)))
  <2>2. CASE e.offset = n
    <3>1. truncate(n) = SubSeq(extents, 1, at)
      BY <1>6, <2>2 DEF truncate, at
    <3> QED
      BY <1>4, <2>1, <3>1
  <2>3. CASE e.offset # n
    <3>1. Vector(whole) /\ Len(whole) = at + 1 /\ whole[at + 1] = e
      BY <1>4, <2>1
    <3>2. truncate(n) = [whole EXCEPT ![at + 1].data = SubSeq(whole[at + 1].data, 1,
                             MinOf(n - e.offset, Len(whole[at + 1].data)))]
      BY <1>6, <2>3 DEF truncate, at
    <3>3. ExtentOk(e) /\ e.data \in Data /\ e.offset \in Nat /\ Len(e.data) \in Nat
      BY <1>1, <2>1 DEF Vector, ExtentOk, Data
    <3> HIDE DEF whole, e
    <3>4. cut \in Data /\ Len(cut) <= Len(e.data)
      <4> DEFINE m == MinOf(n - e.offset, Len(e.data))
      <4>1. m \in Int /\ m <= Len(e.data)
        BY <3>3 DEF MinOf
      <4> HIDE DEF m
      <4>2. \A i \in 1..m : e.data[i] \in Byte \cup {0}
        BY <3>3, <4>1 DEF Data
      <4>3. SubSeq(e.data, 1, m) \in Data /\ Len(SubSeq(e.data, 1, m)) = IF 1 <= m THEN m - 1 + 1 ELSE 0
        BY <4>1, <4>2, SubSeqProperties DEF Data
      <4> QED
        BY <3>3, <4>1, <4>3 DEF m
    <3>5. truncate(n) = [whole EXCEPT ![at + 1] = [e EXCEPT !.data = cut]]
      <4> HIDE DEF cut
      <4> QED  BY <2>1, <3>1, <3>2 DEF cut
    <3> HIDE DEF cut
    <3>6. ExtentOk([e EXCEPT !.data = cut])
      <4>1. Len(cut) \in Nat /\ Len(cut) < MaxExtentSize + Unit
        BY <3>3, <3>4, MaxExtentSizeAssumption, UnitIsPositive DEF ExtentOk, Data
      <4> QED
        BY <3>3, <3>4, <4>1 DEF ExtentOk
    <3>7. at + 1 \in 1..Len(whole)
      BY <2>1, <3>1
    <3>8. Vector(whole)
      BY <3>1
    <3>9. Vector([whole EXCEPT ![at + 1] = [e EXCEPT !.data = cut]])
      BY <3>6, <3>7, <3>8, VectorExcept, Zenon
    <3> QED
      BY <3>5, <3>9
  <2> QED
    BY <2>2, <2>3
<1> QED
  BY <1>5, <1>6

LEMMA WriteOk ==
    ASSUME LimitsInv, NEW buf \in Seq(Byte), NEW off \in Nat, Write(buf, off)
    PROVE  LimitsInv'
<1>1. [buf |-> buf, off |-> off] \in Call
  BY DEF Call
<1>2. todo' = <<[buf |-> buf, off |-> off]>> /\ extents' = extents
  BY DEF Write
<1> QED
  BY <1>1, <1>2 DEF LimitsInv

LEMMA LimitsNext ==
    LimitsInv /\ [Next]_vars => LimitsInv'
<1> SUFFICES ASSUME LimitsInv, [Next]_vars PROVE LimitsInv'
  OBVIOUS
<1>1. ASSUME NEW buf \in Buffers, NEW off \in 0..MaxOffset, Write(buf, off)
      PROVE  LimitsInv'
  <2>1. off \in Nat /\ buf \in Seq(Byte)
    BY InputsAssumption, BuffersAssumption
  <2> QED
    BY <1>1, <2>1, WriteOk
<1>2. CASE WriteStep
  BY <1>2, ChunksOk, NewExtentOk, SplitOk, OverwriteOk, GrowOk, MergeOk DEF WriteStep
<1>3. ASSUME NEW n \in 1..MaxRead, NEW off \in 0..st_size, Read(n, off)
      PROVE  LimitsInv'
  BY <1>3 DEF Read, LimitsInv
<1>4. ASSUME NEW n \in Sizes, SetattrSize(n)
      PROVE  LimitsInv'
  BY <1>4 DEF SetattrSize, LimitsInv
<1>5. ASSUME NEW n \in Cuts, Truncate(n)
      PROVE  LimitsInv'
  <2>1. n \in Nat
    BY InputsAssumption
  <2> QED
    BY <1>5, <2>1, TruncateOk DEF Truncate, LimitsInv, Vector
<1>6. CASE UNCHANGED vars
  BY <1>6 DEF vars, LimitsInv
<1> QED
  BY <1>1, <1>2, <1>3, <1>4, <1>5, <1>6 DEF Next

(* The extents are a vector of extents, whatever the order of the writes.  *)
THEOREM VectorStays == Spec => []LimitsInv
BY LimitsInit, LimitsNext, PTL DEF Spec

(* No sequence of writes, however long and in whatever order, and no cut   *)
(* makes an extent that does not start at a block or that is longer than   *)
(* max_extent_size, but for the leading zeros of a new one: also when the  *)
(* vector is out of order and search_extent finds the wrong one.           *)
THEOREM ExtentsStayWithinLimits == Spec => []ExtentsWithinLimits
<1>1. LimitsInv => ExtentsWithinLimits
  BY SMTT(30) DEF LimitsInv, ExtentsWithinLimits, ExtentOk
<1> QED
  BY <1>1, VectorStays, PTL

-----------------------------------------------------------------------------
(***************************************************************************)
(* Files whose extents are in order.                                       *)
(***************************************************************************)
Piece == [offset : Nat, data : Data]

LEMMA ZerosIs ==
    ASSUME NEW n \in Nat
    PROVE  /\ Zeros(n) \in Data /\ Len(Zeros(n)) = n
           /\ \A i \in 1..n : Zeros(n)[i] = 0
BY DEF Zeros, Data

LEMMA PieceIs ==
    ASSUME NEW e \in Piece
    PROVE  /\ e.offset \in Nat /\ e.data \in Data /\ Len(e.data) \in Nat
           /\ End(e) = e.offset + Len(e.data) /\ End(e) \in Nat
BY DEF Piece, Data, End

LEMMA PiecesAre ==
    ASSUME NEW ext \in Seq(Piece)
    PROVE  /\ Len(ext) \in Nat
           /\ \A k \in 1..Len(ext) :
                 /\ ext[k] \in Piece
                 /\ ext[k].offset \in Nat /\ ext[k].data \in Data /\ Len(ext[k].data) \in Nat
                 /\ End(ext[k]) = ext[k].offset + Len(ext[k].data) /\ End(ext[k]) \in Nat
<1>1. Len(ext) \in Nat /\ \A k \in 1..Len(ext) : ext[k] \in Piece
  OBVIOUS
<1> QED
  BY <1>1, PieceIs, Zenon

LEMMA SizeIs ==
    ASSUME NEW ext \in Seq(Piece)
    PROVE  /\ size(ext) \in Nat
           /\ Len(ext) = 0 => size(ext) = 0
           /\ Len(ext) # 0 => size(ext) = End(ext[Len(ext)])
<1>1. CASE ext = <<>>
  BY <1>1 DEF size
<1>2. CASE ext # <<>>
  <2>1. Len(ext) \in Nat /\ Len(ext) # 0
    BY <1>2, EmptySeq
  <2>2. Len(ext) \in 1..Len(ext)
    BY <2>1
  <2>3. size(ext) = End(ext[Len(ext)])
    BY <1>2 DEF size, Last
  <2> QED
    BY <2>1, <2>2, <2>3, PiecesAre
<1> QED
  BY <1>1, <1>2

(* Order between neighbours is order between any two. *)
LEMMA Ordered ==
    ASSUME NEW ext \in Seq(Piece), InOrder(ext),
           NEW j \in 1..Len(ext), NEW k \in 1..Len(ext), j < k
    PROVE  End(ext[j]) <= ext[k].offset
<1> DEFINE P == {d \in Nat : \A a \in 1..Len(ext), b \in 1..Len(ext) :
                    a < b /\ b - a <= d + 1 => End(ext[a]) <= ext[b].offset}
<1>1. Len(ext) \in Nat
  OBVIOUS
<1>2. 0 \in P
  <2> SUFFICES ASSUME NEW a \in 1..Len(ext), NEW b \in 1..Len(ext), a < b, b - a <= 0 + 1
               PROVE  End(ext[a]) <= ext[b].offset
    OBVIOUS
  <2>1. b \in 2..Len(ext) /\ b - 1 = a
    BY <1>1
  <2> QED
    BY <2>1 DEF InOrder
<1>3. ASSUME NEW d \in Nat, d \in P PROVE d + 1 \in P
  <2>0. d + 1 \in Nat
    OBVIOUS
  <2> SUFFICES ASSUME NEW a \in 1..Len(ext), NEW b \in 1..Len(ext), a < b, b - a <= (d + 1) + 1
               PROVE  End(ext[a]) <= ext[b].offset
    BY <2>0, Zenon
  <2>1. CASE b - a <= d + 1
    BY <1>3, <2>1
  <2>2. CASE b - a > d + 1
    <3>1. b - 1 \in 1..Len(ext) /\ a < b - 1 /\ (b - 1) - a <= d + 1 /\ b \in 2..Len(ext)
      BY <1>1, <2>2
    <3>2. End(ext[a]) <= ext[b - 1].offset
      BY <1>3, <3>1
    <3>3. End(ext[b - 1]) <= ext[b].offset
      BY <3>1 DEF InOrder
    <3> HIDE DEF P
    <3>4. /\ ext[b - 1].offset \in Nat /\ Len(ext[b - 1].data) \in Nat /\ ext[b].offset \in Nat
          /\ End(ext[b - 1]) = ext[b - 1].offset + Len(ext[b - 1].data) /\ End(ext[a]) \in Nat
      BY <3>1, PiecesAre
    <3> QED
      BY <3>2, <3>3, <3>4, SMTT(30)
  <2> QED
    BY <2>1, <2>2
<1> HIDE DEF P
<1>4. k - j \in P
  BY <1>1, <1>2, <1>3, Inductive
<1> QED
  BY <1>1, <1>4 DEF P

(* One extent at most holds the byte at an offset. *)
LEMMA HeldOnce ==
    ASSUME NEW ext \in Seq(Piece), InOrder(ext), NEW p \in Int,
           NEW c \in 1..Len(ext), Holds(ext[c], p), NEW k \in 1..Len(ext), Holds(ext[k], p)
    PROVE  c = k
<1>1. ext[k].offset <= p /\ p < End(ext[k]) /\ ext[c].offset <= p /\ p < End(ext[c])
  BY DEF Holds
<1>2. ext[k].offset \in Nat /\ End(ext[k]) \in Nat /\ ext[c].offset \in Nat /\ End(ext[c]) \in Nat
  BY PiecesAre
<1>3. ~ (c < k)
  <2> SUFFICES ASSUME c < k PROVE FALSE
    OBVIOUS
  <2>1. End(ext[c]) <= ext[k].offset
    BY Ordered
  <2> QED
    BY <1>1, <1>2, <2>1
<1>4. ~ (k < c)
  <2> SUFFICES ASSUME k < c PROVE FALSE
    OBVIOUS
  <2>1. End(ext[k]) <= ext[c].offset
    BY Ordered
  <2> QED
    BY <1>1, <1>2, <2>1
<1> QED
  BY <1>3, <1>4

(* The byte at an offset is that of the extent that holds it. *)
LEMMA ByteIn ==
    ASSUME NEW ext \in Seq(Piece), InOrder(ext), NEW k \in 1..Len(ext), NEW p \in Int,
           Holds(ext[k], p)
    PROVE  ByteAt(ext, p) = ext[k].data[p - ext[k].offset + 1]
<1>1. DOMAIN ext = 1..Len(ext)
  OBVIOUS
<1>2. PICK c : c = CHOOSE j \in DOMAIN ext : Holds(ext[j], p)
  OBVIOUS
<1>3. c \in 1..Len(ext) /\ Holds(ext[c], p)
  BY <1>1, <1>2
<1>4. ByteAt(ext, p) = ext[c].data[p - ext[c].offset + 1]
  BY <1>1, <1>2, Zenon DEF ByteAt
<1>5. c = k
  BY <1>3, HeldOnce
<1> QED
  BY <1>4, <1>5

LEMMA ByteOut ==
    ASSUME NEW ext \in Seq(Piece), NEW p, \A k \in 1..Len(ext) : ~ Holds(ext[k], p)
    PROVE  ByteAt(ext, p) = 0
<1>1. DOMAIN ext = 1..Len(ext)
  OBVIOUS
<1> QED
  BY <1>1, Zenon DEF ByteAt

(* Nothing is before the first extent. *)
LEMMA ByteBefore ==
    ASSUME NEW ext \in Seq(Piece), InOrder(ext), NEW p \in Int,
           Len(ext) # 0 => p < ext[1].offset
    PROVE  ByteAt(ext, p) = 0
<1> SUFFICES ASSUME NEW k \in 1..Len(ext) PROVE ~ Holds(ext[k], p)
  BY ByteOut
<1>0. Len(ext) \in Nat /\ 1 \in 1..Len(ext) /\ Len(ext) # 0
  OBVIOUS
<1>1. /\ ext[1].offset \in Nat /\ Len(ext[1].data) \in Nat /\ ext[k].offset \in Nat
      /\ End(ext[1]) = ext[1].offset + Len(ext[1].data)
  BY <1>0, PiecesAre
<1>2. ext[1].offset <= ext[k].offset
  <2>1. CASE k = 1
    BY <1>1, <2>1
  <2>2. CASE k # 1
    <3>1. 1 < k
      BY <2>2
    <3>2. End(ext[1]) <= ext[k].offset
      BY <1>0, <3>1, Ordered
    <3> QED
      BY <1>1, <3>2
  <2> QED
    BY <2>1, <2>2
<1> QED
  BY <1>0, <1>1, <1>2 DEF Holds

-----------------------------------------------------------------------------
(***************************************************************************)
(* read: the loop over the extents of a file without gaps.                 *)
(***************************************************************************)
Gapless(ext) == \A k \in 2..Len(ext) : End(ext[k - 1]) = ext[k].offset

LEMMA GaplessOrder ==
    ASSUME NEW ext \in Seq(Piece), Gapless(ext)
    PROVE  InOrder(ext)
<1> SUFFICES ASSUME NEW k \in 2..Len(ext) PROVE End(ext[k - 1]) <= ext[k].offset
  BY DEF InOrder
<1>1. k \in 1..Len(ext)
  OBVIOUS
<1>2. ext[k].offset \in Nat
  BY <1>1, PiecesAre
<1> QED
  BY <1>2 DEF Gapless

Start(off, want) ==
    [out |-> <<>>, off |-> off, left |-> want, stop |-> FALSE, panic |-> FALSE]

Loop(ext, first, start, f, k) == IF k = first THEN start ELSE step(f[k - 1], ext[k])

Result(ext, off, want, first, r) ==
    IF want < 0 \/ ~ (first <= size(ext) \/ ext[first + 1].offset = off) \/ r.panic THEN Panic
    ELSE [panic |-> FALSE, out |-> r.out \o Zeros(r.left)]

After(ext, first, start) ==
    CHOOSE f : f = [k \in first..Len(ext) |-> Loop(ext, first, start, f, k)]

LEMMA ReadIs ==
    ASSUME NEW ext, NEW n, NEW off, NEW first, NEW want,
           first = (IF search_extent(ext, off) < 0 THEN 0 ELSE search_extent(ext, off)),
           want = MinOf(n, size(ext) - off)
    PROVE  read(ext, n, off) =
             Result(ext, off, want, first, After(ext, first, Start(off, want))[Len(ext)])
<1> DEFINE f == IF search_extent(ext, off) < 0 THEN 0 ELSE search_extent(ext, off)
           w == MinOf(n, size(ext) - off)
<1>1. read(ext, n, off) = Result(ext, off, w, f, After(ext, f, Start(off, w))[Len(ext)])
  BY Zenon DEF read, Loop, Start, Result, After
<1>2. f = first /\ w = want
  OBVIOUS
<1> HIDE DEF f, w
<1> QED
  BY <1>1, <1>2

LEMMA LoopExists ==
    ASSUME NEW ext, NEW first \in Nat, NEW n \in Nat, NEW start, NEW run,
           run = CHOOSE f : f = [k \in first..n |-> Loop(ext, first, start, f, k)]
    PROVE  \A k \in first..n : run[k] = Loop(ext, first, start, run, k)
<1> DEFINE Upto(f, d) == \A k \in first..n : k <= first + d => f[k] = Loop(ext, first, start, f, k)
           P == {d \in Nat : \E f : Upto(f, d)}
<1>1. 0 \in P
  <2> DEFINE f == [k \in first..n |-> start]
  <2>1. Upto(f, 0)
    BY DEF Loop
  <2> QED
    BY <2>1
<1>2. ASSUME NEW d \in Nat, d \in P PROVE d + 1 \in P
  <2>1. PICK f : Upto(f, d)
    BY <1>2
  <2> DEFINE g == [k \in first..n |-> Loop(ext, first, start, f, k)]
  <2>2. \A k \in first..n : k <= first + d => g[k] = f[k]
    BY <2>1
  <2>3. Upto(g, d + 1)
    <3> SUFFICES ASSUME NEW k \in first..n, k <= first + (d + 1)
                 PROVE  g[k] = Loop(ext, first, start, g, k)
      OBVIOUS
    <3>1. g[k] = Loop(ext, first, start, f, k)
      OBVIOUS
    <3> HIDE DEF g
    <3>2. CASE k = first
      BY <3>1, <3>2 DEF Loop
    <3>3. CASE k # first
      <4>1. k - 1 \in first..n /\ k - 1 <= first + d
        BY <3>3
      <4>2. g[k - 1] = f[k - 1]
        BY <2>2, <4>1
      <4> QED
        BY <3>1, <3>3, <4>2 DEF Loop
    <3> QED
      BY <3>2, <3>3
  <2> HIDE DEF g
  <2>4. d + 1 \in Nat
    OBVIOUS
  <2> QED
    BY <2>3, <2>4, Zenon
<1>3. n \in P
  <2> HIDE DEF P
  <2> QED  BY <1>1, <1>2, Inductive
<1>4. PICK f : Upto(f, n)
  BY <1>3
<1> DEFINE g == [k \in first..n |-> Loop(ext, first, start, f, k)]
<1>5. \A k \in first..n : g[k] = f[k]
  BY <1>4
<1>6. \A k \in first..n : g[k] = Loop(ext, first, start, g, k)
  <2> TAKE k \in first..n
  <2>1. g[k] = Loop(ext, first, start, f, k)
    OBVIOUS
  <2> HIDE DEF g
  <2>2. CASE k = first
    BY <2>1, <2>2 DEF Loop
  <2>3. CASE k # first
    <3>1. k - 1 \in first..n
      BY <2>3
    <3> QED
      BY <1>5, <2>1, <2>3, <3>1 DEF Loop
  <2> QED
    BY <2>2, <2>3
<1>7. g = [k \in first..n |-> Loop(ext, first, start, g, k)]
  <2> DEFINE h == [k \in first..n |-> Loop(ext, first, start, g, k)]
  <2>1. \A k \in first..n : g[k] = h[k]
    BY <1>6
  <2> QED
    BY <2>1, Zenon
<1> HIDE DEF g
<1> DEFINE chosen == CHOOSE c : c = [k \in first..n |-> Loop(ext, first, start, c, k)]
<1>8. chosen = [k \in first..n |-> Loop(ext, first, start, chosen, k)]
  BY <1>7, Zenon
<1>9. chosen = run
  OBVIOUS
<1> HIDE DEF chosen
<1> QED
  BY <1>8, <1>9

LEMMA AfterIs ==
    ASSUME NEW ext, Len(ext) \in Nat, NEW first \in Nat, first <= Len(ext), NEW start
    PROVE  /\ After(ext, first, start)[first] = start
           /\ \A k \in first..(Len(ext) - 1) :
                 After(ext, first, start)[k + 1] = step(After(ext, first, start)[k], ext[k + 1])
<1> DEFINE run == After(ext, first, start)
<1>3. \A k \in first..Len(ext) : run[k] = Loop(ext, first, start, run, k)
  BY LoopExists DEF After
<1> HIDE DEF run
<1>4. run[first] = start
  BY <1>3 DEF Loop
<1>5. \A k \in first..(Len(ext) - 1) : run[k + 1] = step(run[k], ext[k + 1])
  <2> TAKE k \in first..(Len(ext) - 1)
  <2>1. k + 1 \in first..Len(ext) /\ k + 1 # first /\ (k + 1) - 1 = k
    OBVIOUS
  <2> QED
    BY <1>3, <2>1 DEF Loop
<1> QED
  BY <1>4, <1>5 DEF run

(* What the loop has done when it is done with the extents up to k: `out'  *)
(* is the beginning of what is asked for; it goes on in the next extent,   *)
(* or there is nothing left to read, or only zeros.                        *)
LoopOk(ext, off, want, k, r) ==
    /\ r \in [out : Data, off : Nat, left : Nat, stop : BOOLEAN, panic : BOOLEAN]
    /\ r.panic = FALSE
    /\ Len(r.out) + r.left = want /\ r.off = off + Len(r.out)
    /\ \A i \in 1..Len(r.out) : r.out[i] = ByteAt(ext, off + i - 1)
    /\ r.stop => \A i \in (Len(r.out) + 1)..want : ByteAt(ext, off + i - 1) = 0
    /\ ~ r.stop /\ k < Len(ext) => /\ r.off <= End(ext[k + 1])
                                   /\ k = 0 \/ r.left = 0 \/ ext[k + 1].offset <= r.off
    /\ ~ r.stop /\ k = Len(ext) => r.left = 0

(* The loop has reached a hole that is longer than what is left to read. *)
LEMMA StepStops ==
    ASSUME NEW ext \in Seq(Piece), Gapless(ext), NEW off \in Nat, NEW want \in Nat,
           NEW k \in 0..(Len(ext) - 1), NEW r, LoopOk(ext, off, want, k, r), ~ r.stop,
           ext[k + 1].offset - r.off > r.left
    PROVE  LoopOk(ext, off, want, k + 1, step(r, ext[k + 1]))
<1> DEFINE e == ext[k + 1]
<1>1. Len(ext) \in Nat /\ k + 1 \in 1..Len(ext)
  OBVIOUS
<1>2. e.offset \in Nat /\ Len(e.data) \in Nat
  BY <1>1, PiecesAre
<1>3. /\ r \in [out : Data, off : Nat, left : Nat, stop : BOOLEAN, panic : BOOLEAN]
      /\ r.panic = FALSE /\ r.off \in Nat /\ r.left \in Nat /\ Len(r.out) \in Nat
      /\ Len(r.out) + r.left = want /\ r.off = off + Len(r.out)
      /\ k = 0 \/ r.left = 0 \/ e.offset <= r.off
  BY <1>1 DEF LoopOk, Data
<1>4. e.offset - r.off > r.left
  OBVIOUS
<1> HIDE DEF e
<1>5. ~ (e.offset - r.off <= 0 /\ -(e.offset - r.off) > Len(e.data)) /\ ~ (r.stop \/ r.panic)
  BY <1>2, <1>3, <1>4, SMTT(30)
<1>6. step(r, e) = [r EXCEPT !.stop = TRUE]
  BY <1>4, <1>5 DEF step
<1>7. \A i \in (Len(r.out) + 1)..want : ByteAt(ext, off + i - 1) = 0
  <2> SUFFICES ASSUME NEW i \in (Len(r.out) + 1)..want PROVE ByteAt(ext, off + i - 1) = 0
    OBVIOUS
  <2>1. r.left # 0
    BY <1>3
  <2>2. k = 0
    BY <1>2, <1>3, <1>4, <2>1, SMTT(30)
  <2>3. e = ext[1]
    BY <2>2 DEF e
  <2>4. off + i - 1 \in Int /\ off + i - 1 < e.offset
    BY <1>2, <1>3, <1>4, SMTT(30)
  <2>5. off + i - 1 < ext[1].offset
    BY <2>3, <2>4
  <2> QED
    BY <2>4, <2>5, GaplessOrder, ByteBefore
<1>8. PICK q : q = step(r, e)
  OBVIOUS
<1>9. /\ q \in [out : Data, off : Nat, left : Nat, stop : BOOLEAN, panic : BOOLEAN]
      /\ q.out = r.out /\ q.off = r.off /\ q.left = r.left /\ q.stop = TRUE /\ q.panic = FALSE
  BY <1>3, <1>6, <1>8
<1>10. \A i \in 1..Len(r.out) : r.out[i] = ByteAt(ext, off + i - 1)
  BY DEF LoopOk
<1>11. LoopOk(ext, off, want, k + 1, q)
  BY <1>3, <1>7, <1>9, <1>10, Zenon DEF LoopOk
<1> QED
  BY <1>8, <1>11 DEF e

(* The end of a sequence, without its first bytes. *)
LEMMA Behind ==
    ASSUME NEW d \in Data, NEW skip \in 0..Len(d), NEW t, t = SubSeq(d, 1 + skip, Len(d))
    PROVE  /\ t \in Data /\ Len(t) = Len(d) - skip
           /\ \A i \in 1..Len(t) : t[i] = d[skip + i]
<1>1. Len(d) \in Nat /\ skip \in Nat /\ skip <= Len(d)
  BY DEF Data
<1>2. \A i \in (1 + skip)..Len(d) : d[i] \in Byte \cup {0}
  BY <1>1 DEF Data
<1>3. /\ t \in Seq(Byte \cup {0})
      /\ Len(t) = IF 1 + skip <= Len(d) THEN Len(d) - (1 + skip) + 1 ELSE 0
      /\ \A i \in 1..(Len(d) - (1 + skip) + 1) : t[i] = d[(1 + skip) + i - 1]
  BY <1>1, <1>2, SubSeqProperties, SMTT(30)
<1>4. Len(t) = Len(d) - skip
  BY <1>1, <1>3
<1>5. \A i \in 1..Len(t) : i \in 1..(Len(d) - (1 + skip) + 1) /\ (1 + skip) + i - 1 = skip + i
  BY <1>1, <1>4
<1>6. \A i \in 1..Len(t) : t[i] = d[skip + i]
  BY <1>3, <1>5, Zenon
<1> QED
  BY <1>3, <1>4, <1>6 DEF Data

(* The beginning of a sequence. *)
LEMMA Before ==
    ASSUME NEW d \in Data, NEW n \in 0..Len(d), NEW t, t = SubSeq(d, 1, n)
    PROVE  t \in Data /\ Len(t) = n /\ \A i \in 1..n : t[i] = d[i]
<1>1. Len(d) \in Nat /\ n \in Nat /\ n <= Len(d)
  BY DEF Data
<1>2. \A i \in 1..n : d[i] \in Byte \cup {0}
  BY <1>1 DEF Data
<1>3. /\ t \in Seq(Byte \cup {0}) /\ Len(t) = IF 1 <= n THEN n - 1 + 1 ELSE 0
      /\ \A i \in 1..(n - 1 + 1) : t[i] = d[1 + i - 1]
  BY <1>1, <1>2, SubSeqProperties
<1>4. Len(t) = n
  BY <1>1, <1>3
<1>5. \A i \in 1..n : i \in 1..(n - 1 + 1) /\ 1 + i - 1 = i
  BY <1>1
<1> QED
  BY <1>3, <1>4, <1>5, Zenon DEF Data

(* One more extent: zeros for the hole before it, if there is one, and     *)
(* then bytes of it.                                                       *)
ZerosFor(e, off) == IF e.offset - off > 0 THEN e.offset - off ELSE 0
SkipFor(e, off) == IF e.offset - off > 0 THEN 0 ELSE -(e.offset - off)
DataFor(e, off) ==
    IF e.offset - off > 0 THEN e.data ELSE SubSeq(e.data, 1 - (e.offset - off), Len(e.data))
GotFor(e, off, left) == MinOf(Len(DataFor(e, off)), left - ZerosFor(e, off))
PartFor(e, off, left) == SubSeq(DataFor(e, off), 1, GotFor(e, off, left))

Portion(e, off, left, zeros, skip, got, part) ==
    /\ zeros \in Nat /\ skip \in Nat /\ got \in Nat /\ part \in Data
    /\ off + zeros = e.offset + skip
    /\ zeros # 0 => skip = 0
    /\ zeros = 0 => e.offset <= off
    /\ zeros + got <= left /\ skip + got <= Len(e.data)
    /\ zeros + got # left => skip + got = Len(e.data)
    /\ Len(part) = got /\ \A i \in 1..got : part[i] = e.data[skip + i]

LEMMA PortionIs ==
    ASSUME NEW e \in Piece, NEW off \in Nat, NEW left \in Nat,
           off <= End(e), e.offset - off <= left
    PROVE  Portion(e, off, left, ZerosFor(e, off), SkipFor(e, off), GotFor(e, off, left),
                   PartFor(e, off, left))
<1>1. /\ e.offset \in Nat /\ e.data \in Data /\ Len(e.data) \in Nat
      /\ End(e) = e.offset + Len(e.data)
  BY PieceIs
<1>2. PICK zeros, skip, data, got, part :
         /\ zeros = ZerosFor(e, off) /\ skip = SkipFor(e, off) /\ data = DataFor(e, off)
         /\ got = GotFor(e, off, left) /\ part = PartFor(e, off, left)
  OBVIOUS
<1>3. /\ zeros \in Nat /\ skip \in Nat
      /\ off + zeros = e.offset + skip /\ zeros <= left /\ skip <= Len(e.data)
      /\ zeros # 0 => skip = 0
      /\ zeros = 0 => e.offset <= off
  <2>1. zeros = IF e.offset - off > 0 THEN e.offset - off ELSE 0
    BY <1>2 DEF ZerosFor
  <2>2. skip = IF e.offset - off > 0 THEN 0 ELSE -(e.offset - off)
    BY <1>2 DEF SkipFor
  <2>3. CASE e.offset - off > 0
    BY <1>1, <2>1, <2>2, <2>3
  <2>4. CASE ~ (e.offset - off > 0)
    BY <1>1, <2>1, <2>2, <2>4
  <2> QED
    BY <2>3, <2>4
<1>4. /\ data \in Data /\ Len(data) = Len(e.data) - skip
      /\ \A i \in 1..Len(data) : data[i] = e.data[skip + i]
  <2>1. CASE e.offset - off > 0
    <3>1. data = e.data /\ skip = 0
      BY <1>2, <2>1 DEF DataFor, SkipFor
    <3> QED
      BY <1>1, <3>1
  <2>2. CASE ~ (e.offset - off > 0)
    <3>1. skip = -(e.offset - off) /\ data = SubSeq(e.data, 1 - (e.offset - off), Len(e.data))
      BY <1>2, <2>2 DEF DataFor, SkipFor
    <3>2. 1 - (e.offset - off) = 1 + skip /\ skip \in 0..Len(e.data)
      BY <1>1, <1>3, <3>1
    <3>3. data = SubSeq(e.data, 1 + skip, Len(e.data))
      BY <3>1, <3>2
    <3>4. e.data \in Data
      BY <1>1
    <3> QED
      BY <3>2, <3>3, <3>4, Behind, ZenonT(40)
  <2> QED
    BY <2>1, <2>2
<1>5. got = MinOf(Len(e.data) - skip, left - zeros)
  BY <1>2, <1>4 DEF GotFor
<1>6. /\ got \in Nat /\ zeros + got <= left /\ skip + got <= Len(e.data) /\ got <= Len(e.data) - skip
      /\ zeros + got # left => skip + got = Len(e.data)
  <2>1. Len(e.data) \in Nat /\ zeros \in Nat /\ skip \in Nat /\ zeros <= left /\ skip <= Len(e.data)
    BY <1>1, <1>3
  <2>2. PICK all \in Nat : all = Len(e.data)
    BY <2>1
  <2>3. got = MinOf(all - skip, left - zeros) /\ skip <= all
    BY <1>5, <2>1, <2>2
  <2>4. /\ got \in Nat /\ zeros + got <= left /\ skip + got <= all /\ got <= all - skip
        /\ zeros + got # left => skip + got = all
    <3>1. CASE all - skip < left - zeros
      BY <2>1, <2>3, <3>1 DEF MinOf
    <3>2. CASE ~ (all - skip < left - zeros)
      BY <2>1, <2>3, <3>2 DEF MinOf
    <3> QED
      BY <3>1, <3>2
  <2> QED
    BY <2>2, <2>4
<1>7. part = SubSeq(data, 1, got)
  BY <1>2 DEF PartFor
<1>8. got \in 0..Len(data)
  BY <1>4, <1>6 DEF Data
<1>9. part \in Data /\ Len(part) = got /\ \A i \in 1..got : part[i] = data[i]
  BY <1>4, <1>7, <1>8, Before
<1>10. \A i \in 1..got : i \in 1..Len(data)
  BY <1>4, <1>8 DEF Data
<1>11. \A i \in 1..got : part[i] = e.data[skip + i]
  BY <1>4, <1>9, <1>10, Zenon
<1>12. Portion(e, off, left, zeros, skip, got, part)
  BY <1>3, <1>6, <1>9, <1>11, Zenon DEF Portion
<1> QED
  BY <1>2, <1>12

LEMMA StepCopies ==
    ASSUME NEW e, NEW r, ~ (r.stop \/ r.panic), ~ (e.offset - r.off > r.left),
           ~ (e.offset - r.off <= 0 /\ -(e.offset - r.off) > Len(e.data))
    PROVE  step(r, e) =
             [r EXCEPT !.out = r.out \o Zeros(ZerosFor(e, r.off)) \o PartFor(e, r.off, r.left),
                       !.off = r.off + ZerosFor(e, r.off) + GotFor(e, r.off, r.left),
                       !.left = r.left - ZerosFor(e, r.off) - GotFor(e, r.off, r.left)]
BY Zenon DEF step, ZerosFor, DataFor, GotFor, PartFor

(* Three parts of what a read returns. *)
Parts(a, n, b, t) ==
    /\ t \in Data /\ Len(t) = Len(a) + n + Len(b)
    /\ \A i \in 1..Len(t) :
          /\ i <= Len(a) => t[i] = a[i]
          /\ i > Len(a) /\ i <= Len(a) + n => t[i] = 0
          /\ i > Len(a) + n => t[i] = b[i - (Len(a) + n)]

LEMMA ThreeParts ==
    ASSUME NEW a \in Data, NEW n \in Nat, NEW b \in Data
    PROVE  Parts(a, n, b, a \o Zeros(n) \o b)
<1>0. PICK t : t = a \o Zeros(n) \o b
  OBVIOUS
<1>1. PICK z : z = Zeros(n)
  OBVIOUS
<1>2. z \in Data /\ Len(z) = n /\ \A i \in 1..n : z[i] = 0
  BY <1>1, ZerosIs
<1>3. PICK u : u = a \o z
  OBVIOUS
<1>4. /\ u \in Seq(Byte \cup {0}) /\ Len(u) = Len(a) + Len(z)
      /\ \A i \in 1..(Len(a) + Len(z)) : u[i] = IF i <= Len(a) THEN a[i] ELSE z[i - Len(a)]
  BY <1>2, <1>3, ConcatProperties DEF Data
<1>5. /\ t \in Seq(Byte \cup {0}) /\ Len(t) = Len(u) + Len(b)
      /\ \A i \in 1..(Len(u) + Len(b)) : t[i] = IF i <= Len(u) THEN u[i] ELSE b[i - Len(u)]
  BY <1>0, <1>1, <1>3, <1>4, ConcatProperties DEF Data
<1>6. Len(a) \in Nat /\ Len(b) \in Nat
  BY DEF Data
<1>7. Len(u) = Len(a) + n /\ Len(t) = Len(a) + n + Len(b)
  BY <1>2, <1>4, <1>5, <1>6
<1>8. \A i \in 1..Len(t) : /\ i <= Len(a) => t[i] = a[i]
                           /\ i > Len(a) /\ i <= Len(a) + n => t[i] = 0
                           /\ i > Len(a) + n => t[i] = b[i - (Len(a) + n)]
  <2> TAKE i \in 1..Len(t)
  <2>1. i \in 1..(Len(u) + Len(b)) /\ i \in Int
    BY <1>5
  <2>2. t[i] = IF i <= Len(u) THEN u[i] ELSE b[i - Len(u)]
    BY <1>5, <2>1
  <2>3. i <= Len(a) + n => i \in 1..(Len(a) + Len(z)) /\ i <= Len(u)
    BY <1>2, <1>6, <1>7, <2>1
  <2>4. i <= Len(a) => i <= Len(a) + n
    BY <1>6, <2>1
  <2>5. i <= Len(a) => t[i] = a[i]
    BY <1>4, <2>2, <2>3, <2>4
  <2>6. i > Len(a) /\ i <= Len(a) + n => t[i] = 0
    <3> SUFFICES ASSUME i > Len(a), i <= Len(a) + n PROVE t[i] = 0
      OBVIOUS
    <3>1. t[i] = z[i - Len(a)]
      BY <1>4, <1>6, <2>1, <2>2, <2>3
    <3>2. i - Len(a) \in 1..n
      BY <1>6, <2>1
    <3> QED
      BY <1>2, <3>1, <3>2
  <2>7. i > Len(a) + n => t[i] = b[i - (Len(a) + n)]
    BY <1>6, <1>7, <2>1, <2>2
  <2> QED
    BY <2>5, <2>6, <2>7
<1>9. t \in Data
  BY <1>5 DEF Data
<1> QED
  BY <1>0, <1>7, <1>8, <1>9, Zenon DEF Parts

(* The loop goes on to the next extent. *)
GoesOn(ext, off, want, k, r) ==
    /\ ext \in Seq(Piece) /\ Gapless(ext)
    /\ off \in Nat /\ want \in Nat /\ off + want <= size(ext)
    /\ k \in 0..(Len(ext) - 1) /\ LoopOk(ext, off, want, k, r)
    /\ ~ r.stop /\ ~ (ext[k + 1].offset - r.off > r.left)

(* Where the loop is, in numbers. *)
LEMMA StepArithmetic ==
    ASSUME NEW eoff \in Nat, NEW elen \in Nat, NEW roff \in Nat, NEW rleft \in Nat,
           NEW rlen \in Nat, NEW off \in Nat, NEW want \in Nat,
           NEW zeros \in Nat, NEW skip \in Nat, NEW got \in Nat,
           rlen + rleft = want, roff = off + rlen, roff + zeros = eoff + skip,
           zeros + got <= rleft, skip + got <= elen, zeros + got # rleft => skip + got = elen,
           zeros # 0 => skip = 0
    PROVE  /\ roff + zeros + got \in Nat /\ rleft - zeros - got \in Nat
           /\ zeros # 0 => rleft # 0 /\ eoff = roff + zeros /\ ~ (eoff <= roff)
           /\ (rlen + zeros + got) + (rleft - zeros - got) = want
           /\ roff + zeros + got = off + (rlen + zeros + got)
           /\ roff + zeros + got <= eoff + elen
           /\ rleft - zeros - got # 0 => roff + zeros + got = eoff + elen
           /\ \A j \in 1..got :
                 /\ off + (rlen + zeros + j) - 1 >= eoff
                 /\ off + (rlen + zeros + j) - 1 < eoff + elen
                 /\ (off + (rlen + zeros + j) - 1) - eoff + 1 = skip + j
           /\ \A j \in 1..zeros : off + (rlen + j) - 1 < eoff
OBVIOUS

(* One more extent in a file without gaps. *)
LEMMA StepGoesOn ==
    ASSUME NEW ext, NEW off, NEW want, NEW k, NEW r, GoesOn(ext, off, want, k, r)
    PROVE  LoopOk(ext, off, want, k + 1, step(r, ext[k + 1]))
<1>0. /\ ext \in Seq(Piece) /\ Gapless(ext)
      /\ off \in Nat /\ want \in Nat /\ off + want <= size(ext)
      /\ k \in 0..(Len(ext) - 1) /\ LoopOk(ext, off, want, k, r)
      /\ ~ r.stop /\ ~ (ext[k + 1].offset - r.off > r.left)
  BY DEF GoesOn
<1>1. Len(ext) \in Nat /\ k + 1 \in 1..Len(ext) /\ k \in Nat
  BY <1>0
<1>2. PICK e : e = ext[k + 1]
  OBVIOUS
<1>3. /\ e \in Piece /\ e.offset \in Nat /\ Len(e.data) \in Nat
      /\ End(e) = e.offset + Len(e.data) /\ End(e) \in Nat
  BY <1>0, <1>1, <1>2, PiecesAre
<1>4. /\ r \in [out : Data, off : Nat, left : Nat, stop : BOOLEAN, panic : BOOLEAN]
      /\ r.panic = FALSE /\ r.off \in Nat /\ r.left \in Nat
      /\ r.out \in Data /\ Len(r.out) \in Nat
      /\ Len(r.out) + r.left = want /\ r.off = off + Len(r.out)
  BY <1>0 DEF LoopOk, Data
<1>5. r.off <= End(e) /\ (k # 0 => r.left = 0 \/ e.offset <= r.off)
  <2>1. ~ r.stop /\ k < Len(ext)
    BY <1>0, <1>1
  <2> QED
    BY <1>0, <1>2, <2>1, Zenon DEF LoopOk
<1>6. \A i \in 1..Len(r.out) : r.out[i] = ByteAt(ext, off + i - 1)
  BY <1>0 DEF LoopOk
<1>7. ~ (e.offset - r.off > r.left) /\ e.offset - r.off <= r.left
  <2>1. ~ (e.offset - r.off > r.left)
    BY <1>0, <1>2
  <2>2. e.offset \in Nat /\ r.off \in Nat /\ r.left \in Nat
    BY <1>3, <1>4
  <2> QED
    BY <2>1, <2>2
<1>8. PICK zeros, skip, got, part :
         /\ zeros = ZerosFor(e, r.off) /\ skip = SkipFor(e, r.off)
         /\ got = GotFor(e, r.off, r.left) /\ part = PartFor(e, r.off, r.left)
  OBVIOUS
<1>9. Portion(e, r.off, r.left, zeros, skip, got, part)
  BY <1>3, <1>4, <1>5, <1>7, <1>8, PortionIs
<1>10. step(r, e) = [r EXCEPT !.out = r.out \o Zeros(zeros) \o part,
                              !.off = r.off + zeros + got, !.left = r.left - zeros - got]
  <2>1. ~ (r.stop \/ r.panic) /\ ~ (e.offset - r.off <= 0 /\ -(e.offset - r.off) > Len(e.data))
    BY <1>0, <1>3, <1>4, <1>5, SMTT(30)
  <2>2. ~ (e.offset - r.off > r.left)
    BY <1>7
  <2>3. step(r, e) =
          [r EXCEPT !.out = r.out \o Zeros(ZerosFor(e, r.off)) \o PartFor(e, r.off, r.left),
                    !.off = r.off + ZerosFor(e, r.off) + GotFor(e, r.off, r.left),
                    !.left = r.left - ZerosFor(e, r.off) - GotFor(e, r.off, r.left)]
    BY <2>1, <2>2, StepCopies, Zenon
  <2> QED
    BY <1>8, <2>3, Zenon
<1>11. PICK q, t : q = step(r, e) /\ t = r.out \o Zeros(zeros) \o part
  OBVIOUS
<1>12. /\ zeros \in Nat /\ skip \in Nat /\ got \in Nat /\ part \in Data /\ Len(part) = got
       /\ r.off + zeros = e.offset + skip
       /\ zeros + got <= r.left /\ skip + got <= Len(e.data)
       /\ zeros + got # r.left => skip + got = Len(e.data)
       /\ zeros # 0 => skip = 0
       /\ zeros = 0 => e.offset <= r.off
  BY <1>9, Zenon DEF Portion
<1>13. \A i \in 1..got : part[i] = e.data[skip + i]
  BY <1>9, Zenon DEF Portion
<1>14. /\ t \in Data /\ Len(t) = Len(r.out) + zeros + Len(part)
       /\ \A i \in 1..Len(t) :
             /\ i <= Len(r.out) => t[i] = r.out[i]
             /\ i > Len(r.out) /\ i <= Len(r.out) + zeros => t[i] = 0
             /\ i > Len(r.out) + zeros => t[i] = part[i - (Len(r.out) + zeros)]
  <2>1. Parts(r.out, zeros, part, r.out \o Zeros(zeros) \o part)
    BY <1>4, <1>12, ThreeParts, Zenon
  <2>2. Parts(r.out, zeros, part, t)
    BY <1>11, <2>1
  <2> QED
    BY <2>2, Zenon DEF Parts
<1>15. PICK eoff \in Nat, elen \in Nat, roff \in Nat, rleft \in Nat, rlen \in Nat :
          eoff = e.offset /\ elen = Len(e.data) /\ roff = r.off /\ rleft = r.left /\ rlen = Len(r.out)
  BY <1>3, <1>4
<1>16. /\ roff + zeros + got \in Nat /\ rleft - zeros - got \in Nat
       /\ zeros # 0 => rleft # 0 /\ eoff = roff + zeros /\ ~ (eoff <= roff)
       /\ (rlen + zeros + got) + (rleft - zeros - got) = want
       /\ roff + zeros + got = off + (rlen + zeros + got)
       /\ roff + zeros + got <= eoff + elen
       /\ rleft - zeros - got # 0 => roff + zeros + got = eoff + elen
       /\ \A j \in 1..got :
             /\ off + (rlen + zeros + j) - 1 >= eoff
             /\ off + (rlen + zeros + j) - 1 < eoff + elen
             /\ (off + (rlen + zeros + j) - 1) - eoff + 1 = skip + j
       /\ \A j \in 1..zeros : off + (rlen + j) - 1 < eoff
  <2>1. /\ zeros \in Nat /\ skip \in Nat /\ got \in Nat /\ off \in Nat /\ want \in Nat
        /\ rlen + rleft = want /\ roff = off + rlen /\ roff + zeros = eoff + skip
        /\ zeros + got <= rleft /\ skip + got <= elen
        /\ zeros + got # rleft => skip + got = elen
        /\ zeros # 0 => skip = 0
    BY <1>0, <1>4, <1>12, <1>15, Zenon
  <2> QED
    BY <2>1, StepArithmetic
<1>17. Len(t) = rlen + zeros + got
  BY <1>12, <1>14, <1>15
<1>18. /\ q \in [out : Data, off : Nat, left : Nat, stop : BOOLEAN, panic : BOOLEAN]
       /\ q.panic = FALSE /\ ~ q.stop /\ q.out = t
       /\ q.off = roff + zeros + got /\ q.left = rleft - zeros - got
  <2>1. q = [r EXCEPT !.out = t, !.off = roff + zeros + got, !.left = rleft - zeros - got]
    BY <1>10, <1>11, <1>15, Zenon
  <2>2. roff + zeros + got \in Nat /\ rleft - zeros - got \in Nat /\ t \in Data
    BY <1>14, <1>16
  <2>3. r \in [out : Data, off : Nat, left : Nat, stop : BOOLEAN, panic : BOOLEAN]
        /\ r.panic = FALSE /\ r.stop = FALSE
    BY <1>0, <1>4
  <2> QED
    BY <2>1, <2>2, <2>3
<1>19. zeros # 0 => k = 0 /\ eoff = roff + zeros
  BY <1>5, <1>15, <1>16, Zenon
<1>20. \A i \in 1..Len(t) : t[i] = ByteAt(ext, off + i - 1)
  <2> SUFFICES ASSUME NEW i \in 1..Len(t) PROVE t[i] = ByteAt(ext, off + i - 1)
    OBVIOUS
  <2>0. ext \in Seq(Piece) /\ InOrder(ext)
    BY <1>0, GaplessOrder
  <2>1. i \in Nat /\ i > 0 /\ i <= rlen + zeros + got /\ off + i - 1 \in Int
        /\ zeros \in Nat /\ got \in Nat
    BY <1>0, <1>12, <1>17
  <2>2. CASE i <= rlen
    <3>1. i \in 1..Len(r.out) /\ i <= Len(r.out)
      BY <1>15, <2>1, <2>2
    <3> QED
      BY <1>6, <1>14, <3>1, Zenon
  <2>3. CASE i > rlen /\ i <= rlen + zeros
    <3>1. t[i] = 0
      BY <1>14, <1>15, <2>3, Zenon
    <3>2. PICK j : j = i - rlen
      OBVIOUS
    <3>3. j \in 1..zeros /\ i = rlen + j /\ zeros # 0
      BY <2>1, <2>3, <3>2
    <3>4. off + i - 1 < eoff
      BY <1>16, <3>3
    <3>5. off + i - 1 < ext[1].offset
      <4>1. k = 0
        BY <1>19, <3>3
      <4>2. eoff = ext[1].offset
        BY <1>2, <1>15, <4>1
      <4> QED
        BY <3>4, <4>2
    <3> QED
      BY <2>0, <2>1, <3>1, <3>5, ByteBefore
  <2>4. CASE i > rlen + zeros
    <3>1. PICK j : j = i - (rlen + zeros)
      OBVIOUS
    <3>2. j \in 1..got /\ i = rlen + zeros + j
      BY <2>1, <2>4, <3>1
    <3>3. t[i] = part[j]
      BY <1>14, <1>15, <2>4, <3>1, Zenon
    <3>4. t[i] = e.data[skip + j]
      BY <1>13, <3>2, <3>3
    <3>5. /\ off + i - 1 >= eoff /\ off + i - 1 < eoff + elen
          /\ (off + i - 1) - eoff + 1 = skip + j
      BY <1>16, <3>2
    <3>6. PICK p \in Int : p = off + i - 1
      BY <2>1
    <3>7. p >= eoff /\ p < eoff + elen /\ p - eoff + 1 = skip + j
      BY <3>5, <3>6
    <3>8. Holds(ext[k + 1], p)
      BY <1>2, <1>3, <1>15, <3>7 DEF Holds
    <3>9. ByteAt(ext, p) = ext[k + 1].data[p - ext[k + 1].offset + 1]
      BY <1>1, <2>0, <3>8, ByteIn
    <3> QED
      BY <1>2, <1>15, <3>4, <3>6, <3>7, <3>9
  <2> QED
    BY <2>1, <2>2, <2>3, <2>4
<1>21. Len(t) + q.left = want /\ q.off = off + Len(t)
  BY <1>16, <1>17, <1>18
<1>22. q.off <= End(e) /\ (q.left # 0 => q.off = End(e)) /\ q.off \in Nat
  BY <1>3, <1>15, <1>16, <1>18
<1>23. k + 1 < Len(ext) => /\ q.off <= End(ext[(k + 1) + 1])
                           /\ q.left # 0 => ext[(k + 1) + 1].offset <= q.off
  <2> SUFFICES ASSUME k + 1 < Len(ext)
               PROVE  q.off <= End(ext[(k + 1) + 1]) /\ (q.left # 0 => ext[(k + 1) + 1].offset <= q.off)
    OBVIOUS
  <2>1. (k + 1) + 1 \in 2..Len(ext) /\ (k + 1) + 1 \in 1..Len(ext) /\ ((k + 1) + 1) - 1 = k + 1
    BY <1>1
  <2>2. End(e) = ext[(k + 1) + 1].offset
    BY <1>0, <1>2, <2>1 DEF Gapless
  <2>3. /\ ext[(k + 1) + 1].offset \in Nat /\ Len(ext[(k + 1) + 1].data) \in Nat
        /\ End(ext[(k + 1) + 1]) = ext[(k + 1) + 1].offset + Len(ext[(k + 1) + 1].data)
    BY <1>0, <2>1, PiecesAre
  <2> QED
    BY <1>22, <2>2, <2>3
<1>24. k + 1 = Len(ext) => q.left = 0
  <2> SUFFICES ASSUME k + 1 = Len(ext), q.left # 0 PROVE FALSE
    OBVIOUS
  <2>1. size(ext) = End(e)
    BY <1>0, <1>1, <1>2, SizeIs
  <2>2. q.off = End(e) /\ Len(t) + q.left = want /\ q.off = off + Len(t) /\ q.left \in Nat
    BY <1>18, <1>21, <1>22
  <2>3. off + want <= End(e) /\ off \in Nat /\ want \in Nat /\ End(e) \in Nat
    BY <1>0, <1>3, <2>1
  <2>4. Len(t) \in Nat
    BY <1>14 DEF Data
  <2> QED
    BY <2>2, <2>3, <2>4
<1>25. LoopOk(ext, off, want, k + 1, q)
  BY <1>18, <1>20, <1>21, <1>23, <1>24, Zenon DEF LoopOk
<1> QED
  BY <1>2, <1>11, <1>25

LEMMA StepOk ==
    ASSUME NEW ext \in Seq(Piece), Gapless(ext), NEW off \in Nat, NEW want \in Nat,
           off + want <= size(ext),
           NEW k \in 0..(Len(ext) - 1), NEW r, LoopOk(ext, off, want, k, r)
    PROVE  LoopOk(ext, off, want, k + 1, step(r, ext[k + 1]))
<1>1. CASE r.stop
  <2>1. step(r, ext[k + 1]) = r
    BY <1>1, Zenon DEF step
  <2>2. LoopOk(ext, off, want, k + 1, r)
    BY <1>1, Zenon DEF LoopOk
  <2> QED
    BY <2>1, <2>2
<1>2. CASE ~ r.stop /\ ext[k + 1].offset - r.off > r.left
  BY <1>2, StepStops
<1>3. CASE ~ r.stop /\ ~ (ext[k + 1].offset - r.off > r.left)
  <2>1. GoesOn(ext, off, want, k, r)
    BY <1>3, Zenon DEF GoesOn
  <2> QED
    BY <2>1, StepGoesOn
<1> QED
  BY <1>1, <1>2, <1>3

(* The loop to its end. *)
LEMMA LoopIsOk ==
    ASSUME NEW ext \in Seq(Piece), Gapless(ext), NEW off \in Nat, NEW want \in Nat,
           off + want <= size(ext), NEW first \in Nat, first <= Len(ext),
           LoopOk(ext, off, want, first, Start(off, want))
    PROVE  LoopOk(ext, off, want, Len(ext), After(ext, first, Start(off, want))[Len(ext)])
<1>1. Len(ext) \in Nat
  OBVIOUS
<1>2. PICK f : f = After(ext, first, Start(off, want))
  OBVIOUS
<1>3. /\ f[first] = Start(off, want)
      /\ \A k \in first..(Len(ext) - 1) : f[k + 1] = step(f[k], ext[k + 1])
  BY <1>1, <1>2, AfterIs
<1> DEFINE P == {d \in Nat : first + d <= Len(ext) => LoopOk(ext, off, want, first + d, f[first + d])}
<1>4. 0 \in P
  <2>1. first + 0 = first
    OBVIOUS
  <2> QED
    BY <1>3, <2>1
<1>5. ASSUME NEW d \in Nat, d \in P PROVE d + 1 \in P
  <2> SUFFICES ASSUME first + (d + 1) <= Len(ext)
               PROVE  LoopOk(ext, off, want, first + (d + 1), f[first + (d + 1)])
    <3>1. d + 1 \in Nat
      OBVIOUS
    <3> QED
      BY <3>1, Zenon
  <2>1. PICK k : k = first + d
    OBVIOUS
  <2>2. k \in first..(Len(ext) - 1) /\ k \in 0..(Len(ext) - 1) /\ k + 1 = first + (d + 1)
    BY <1>1, <2>1
  <2>3. LoopOk(ext, off, want, k, f[k])
    BY <1>1, <1>5, <2>1, <2>2
  <2> HIDE DEF P
  <2>4. f[k + 1] = step(f[k], ext[k + 1])
    BY <1>3, <2>2
  <2>5. LoopOk(ext, off, want, k + 1, step(f[k], ext[k + 1]))
    BY <2>2, <2>3, StepOk, SMTT(30)
  <2> QED
    BY <2>2, <2>4, <2>5
<1> HIDE DEF P
<1>6. PICK d \in Nat : first + d = Len(ext)
  <2>1. Len(ext) - first \in Nat /\ first + (Len(ext) - first) = Len(ext)
    BY <1>1
  <2> QED
    BY <2>1
<1>7. d \in P
  BY <1>4, <1>5, Inductive
<1>8. LoopOk(ext, off, want, Len(ext), f[Len(ext)])
  BY <1>1, <1>6, <1>7 DEF P
<1> QED
  BY <1>2, <1>8

(* The first extent that read looks at does not end before the offset.     *)
LEMMA FirstIsOk ==
    ASSUME NEW ext \in Seq(Piece), Gapless(ext), NEW off \in Nat, NEW want \in Nat,
           off + want <= size(ext), NEW at, at = search_extent(ext, off), NEW first,
           first = (IF at < 0 THEN 0 ELSE at)
    PROVE  /\ first \in Nat /\ first <= Len(ext) /\ (Len(ext) # 0 => first < Len(ext))
           /\ LoopOk(ext, off, want, first, Start(off, want))
<1>1. Len(ext) \in Nat /\ \A k \in 1..Len(ext) : ext[k].offset \in Int
  BY PiecesAre
<1>2. Found(ext, off, at, -1, Len(ext))
  BY <1>1, SearchFinds
<1>3. at \in -1 .. Len(ext) - 1
  BY <1>2 DEF Found
<1>4. first \in Nat /\ first <= Len(ext) /\ (Len(ext) # 0 => first < Len(ext))
  BY <1>1, <1>3
<1>5. first < Len(ext) => /\ off <= End(ext[first + 1])
                          /\ first # 0 => ext[first + 1].offset <= off
  <2> SUFFICES ASSUME first < Len(ext)
               PROVE  off <= End(ext[first + 1]) /\ (first # 0 => ext[first + 1].offset <= off)
    OBVIOUS
  <2>0. first + 1 \in 1..Len(ext)
    BY <1>1, <1>4
  <2>1. /\ ext[first + 1].offset \in Nat
        /\ Len(ext[first + 1].data) \in Nat /\ End(ext[first + 1]) \in Nat
        /\ End(ext[first + 1]) = ext[first + 1].offset + Len(ext[first + 1].data)
    BY <2>0, PiecesAre
  <2>2. CASE at = -1
    <3>1. first = 0 /\ at < Len(ext) - 1 /\ at + 2 = 1
      BY <1>1, <2>2
    <3>2. off < ext[1].offset
      BY <1>2, <2>2, <3>1 DEF Found
    <3> QED
      BY <2>1, <3>1, <3>2
  <2>3. CASE at # -1
    <3>1. first = at
      BY <1>3, <2>3
    <3>2. ext[first + 1].offset <= off
      BY <1>2, <2>3, <3>1 DEF Found
    <3>3. CASE off = ext[first + 1].offset
      BY <2>1, <3>2, <3>3
    <3>4. CASE off # ext[first + 1].offset /\ first + 1 < Len(ext)
      <4>1. off < ext[first + 2].offset
        <5>1. at < Len(ext) - 1 /\ off # ext[at + 1].offset
          BY <1>1, <1>4, <3>1, <3>4
        <5> QED
          BY <1>2, <3>1, <5>1 DEF Found
      <4>2. first + 2 \in 2..Len(ext) /\ (first + 2) - 1 = first + 1 /\ first + 2 \in 1..Len(ext)
        BY <1>1, <1>4, <3>4
      <4>3. End(ext[first + 1]) = ext[first + 2].offset
        BY <4>2 DEF Gapless
      <4> QED
        BY <2>1, <3>2, <4>1, <4>3, SMTT(30)
    <3>5. CASE first + 1 = Len(ext)
      <4>1. size(ext) = End(ext[first + 1])
        BY <1>4, <3>5, SizeIs
      <4> QED
        BY <2>1, <3>2, <4>1
    <3>6. first + 1 < Len(ext) \/ first + 1 = Len(ext)
      <4>1. \A a, b \in Nat : a < b /\ ~ (a + 1 < b) => a + 1 = b
        OBVIOUS
      <4>2. first \in Nat /\ Len(ext) \in Nat /\ first < Len(ext)
        BY <1>1, <1>4
      <4> QED
        BY <4>1, <4>2, Zenon
    <3> QED
      BY <3>3, <3>4, <3>5, <3>6, Zenon
  <2> QED
    BY <2>2, <2>3
<1>6. first = Len(ext) => want = 0
  <2> SUFFICES ASSUME first = Len(ext) PROVE want = 0
    OBVIOUS
  <2>1. Len(ext) = 0
    BY <1>1, <1>4
  <2>2. size(ext) = 0
    BY <2>1, SizeIs
  <2> QED
    BY <2>2
<1>7. PICK s : s = Start(off, want)
  OBVIOUS
<1>8. /\ s \in [out : Data, off : Nat, left : Nat, stop : BOOLEAN, panic : BOOLEAN]
      /\ s.out = <<>> /\ s.off = off /\ s.left = want /\ ~ s.stop /\ s.panic = FALSE
  BY <1>7 DEF Start, Data
<1>9. Len(s.out) = 0 /\ Len(s.out) + s.left = want /\ s.off = off + Len(s.out)
      /\ \A i \in 1..Len(s.out) : s.out[i] = ByteAt(ext, off + i - 1)
  BY <1>8
<1>10. first < Len(ext) => /\ s.off <= End(ext[first + 1])
                           /\ first = 0 \/ s.left = 0 \/ ext[first + 1].offset <= s.off
  BY <1>5, <1>8, Zenon
<1>11. first = Len(ext) => s.left = 0
  BY <1>6, <1>8
<1>12. LoopOk(ext, off, want, first, s)
  BY <1>8, <1>9, <1>10, <1>11, Zenon DEF LoopOk
<1> QED
  BY <1>4, <1>7, <1>12

(* What is read of a file without gaps. *)
LEMMA ReadsSlice ==
    ASSUME NEW ext \in Seq(Piece), Gapless(ext), Len(ext) <= size(ext) + 1,
           NEW n \in Nat, NEW off \in 0..size(ext)
    PROVE  read(ext, n, off) =
             [panic |-> FALSE,
              out |-> [i \in 1..MinOf(n, size(ext) - off) |-> ByteAt(ext, off + i - 1)]]
<1>1. size(ext) \in Nat /\ Len(ext) \in Nat /\ off \in Nat /\ off <= size(ext)
  BY SizeIs
<1>2. PICK at, first, want : /\ at = search_extent(ext, off)
                            /\ first = (IF at < 0 THEN 0 ELSE at)
                            /\ want = MinOf(n, size(ext) - off)
  OBVIOUS
<1>3. want \in Nat /\ off + want <= size(ext)
  BY <1>1, <1>2 DEF MinOf
<1>4. /\ first \in Nat /\ first <= Len(ext) /\ (Len(ext) # 0 => first < Len(ext))
      /\ LoopOk(ext, off, want, first, Start(off, want))
  BY <1>1, <1>2, <1>3, FirstIsOk
<1>5. PICK r : r = After(ext, first, Start(off, want))[Len(ext)]
  OBVIOUS
<1>6. LoopOk(ext, off, want, Len(ext), r)
  BY <1>1, <1>3, <1>4, <1>5, LoopIsOk
<1>7. read(ext, n, off) = Result(ext, off, want, first, r)
  <2>1. first = (IF search_extent(ext, off) < 0 THEN 0 ELSE search_extent(ext, off))
    BY <1>2
  <2>2. read(ext, n, off) =
          Result(ext, off, want, first, After(ext, first, Start(off, want))[Len(ext)])
    BY <1>2, <2>1, ReadIs
  <2> QED
    BY <1>5, <2>2
<1>8. /\ r.panic = FALSE /\ r.out \in Data /\ r.left \in Nat /\ Len(r.out) \in Nat
      /\ Len(r.out) + r.left = want
  BY <1>6 DEF LoopOk, Data
<1>9. /\ \A i \in 1..Len(r.out) : r.out[i] = ByteAt(ext, off + i - 1)
      /\ \A i \in (Len(r.out) + 1)..want : ByteAt(ext, off + i - 1) = 0
  <2>1. \A i \in 1..Len(r.out) : r.out[i] = ByteAt(ext, off + i - 1)
    BY <1>6 DEF LoopOk
  <2>2. CASE r.stop
    BY <1>6, <2>1, <2>2, Zenon DEF LoopOk
  <2>3. CASE ~ r.stop
    <3>1. r.left = 0
      BY <1>6, <2>3, Zenon DEF LoopOk
    <3> QED
      BY <1>8, <2>1, <3>1
  <2> QED
    BY <2>2, <2>3
<1>10. PICK z, t : z = Zeros(r.left) /\ t = r.out \o z
  OBVIOUS
<1>11. z \in Seq(Byte \cup {0}) /\ Len(z) = r.left /\ \A i \in 1..r.left : z[i] = 0
  BY <1>8, <1>10, ZerosIs DEF Data
<1>12. /\ t \in Seq(Byte \cup {0}) /\ Len(t) = Len(r.out) + Len(z)
       /\ \A i \in 1..(Len(r.out) + Len(z)) :
             t[i] = IF i <= Len(r.out) THEN r.out[i] ELSE z[i - Len(r.out)]
  BY <1>8, <1>10, <1>11, ConcatProperties, ZenonT(40) DEF Data
<1>13. Len(t) = want
  BY <1>8, <1>11, <1>12
<1>14. \A i \in 1..want : t[i] = ByteAt(ext, off + i - 1)
  <2> SUFFICES ASSUME NEW i \in 1..want PROVE t[i] = ByteAt(ext, off + i - 1)
    OBVIOUS
  <2>1. i \in 1..(Len(r.out) + Len(z)) /\ i \in Int
    BY <1>3, <1>8, <1>11
  <2>2. CASE i <= Len(r.out)
    <3>1. i \in 1..Len(r.out)
      BY <1>8, <2>1, <2>2
    <3> QED
      BY <1>9, <1>12, <2>1, <2>2, <3>1
  <2>3. CASE ~ (i <= Len(r.out))
    <3>1. i \in (Len(r.out) + 1)..want /\ i - Len(r.out) \in 1..r.left
      BY <1>3, <1>8, <2>1, <2>3, SMTT(30)
    <3>2. t[i] = z[i - Len(r.out)]
      BY <1>12, <2>1, <2>3
    <3> QED
      BY <1>9, <1>11, <3>1, <3>2
  <2> QED
    BY <2>2, <2>3
<1>15. t = [i \in 1..want |-> ByteAt(ext, off + i - 1)]
  <2>1. t = [i \in 1..Len(t) |-> t[i]]
    BY <1>12
  <2> QED
    BY <1>13, <1>14, <2>1
<1>16. Result(ext, off, want, first, r) = [panic |-> FALSE, out |-> t]
  <2>1. ~ (want < 0) /\ first <= size(ext)
    BY <1>1, <1>3, <1>4
  <2> QED
    BY <1>8, <1>10, <2>1, Zenon DEF Result
<1> QED
  BY <1>2, <1>7, <1>15, <1>16

-----------------------------------------------------------------------------
(***************************************************************************)
(* An extent behind the first one either begins before the first one, as   *)
(* it did when it was added, or where its neighbour ends, as it does once  *)
(* the two have been merged.  So extents that are in order have no gaps.   *)
(***************************************************************************)
Linked(ext) ==
    \A k \in 2..Len(ext) : ext[1].offset <= ext[k].offset => End(ext[k - 1]) = ext[k].offset

LEMMA InOrderIsGapless ==
    ASSUME NEW ext \in Seq(Piece), InOrder(ext), Linked(ext)
    PROVE  Gapless(ext)
<1> SUFFICES ASSUME NEW k \in 2..Len(ext) PROVE End(ext[k - 1]) = ext[k].offset
  BY DEF Gapless
<1>1. k \in 1..Len(ext) /\ 1 \in 1..Len(ext) /\ 1 < k
  OBVIOUS
<1>2. End(ext[1]) <= ext[k].offset
  BY <1>1, Ordered
<1>3. /\ ext[1].offset \in Nat /\ Len(ext[1].data) \in Nat /\ ext[k].offset \in Nat
      /\ End(ext[1]) = ext[1].offset + Len(ext[1].data)
  BY <1>1, PiecesAre
<1>4. ext[1].offset <= ext[k].offset
  BY <1>2, <1>3
<1> QED
  BY <1>4 DEF Linked

(* A beginning of the vector whose extents, but for the last one, end      *)
(* where they did.                                                         *)
LEMMA LinkedBeginning ==
    ASSUME NEW old \in Seq(Piece), NEW new \in Seq(Piece), Linked(old), Len(new) <= Len(old),
           \A k \in 1..Len(new) : new[k].offset = old[k].offset,
           \A k \in 1..(Len(new) - 1) : End(new[k]) = End(old[k])
    PROVE  Linked(new)
<1> SUFFICES ASSUME NEW k \in 2..Len(new), new[1].offset <= new[k].offset
             PROVE  End(new[k - 1]) = new[k].offset
  BY DEF Linked
<1>1. k \in 2..Len(old) /\ k - 1 \in 1..(Len(new) - 1) /\ k \in 1..Len(new) /\ 1 \in 1..Len(new)
  OBVIOUS
<1>2. old[1].offset <= old[k].offset
  BY <1>1
<1> QED
  BY <1>1, <1>2 DEF Linked

LEMMA LinkedAppend ==
    ASSUME NEW old \in Seq(Piece), Linked(old), NEW e \in Piece,
           old # <<>> => e.offset < old[1].offset
    PROVE  Linked(Append(old, e))
<1>1. PICK new : new = Append(old, e)
  OBVIOUS
<1>2. /\ Len(old) \in Nat /\ Len(new) = Len(old) + 1 /\ new[Len(old) + 1] = e
      /\ \A k \in 1..Len(old) : new[k] = old[k]
  BY <1>1
<1>3. Linked(new)
  <2> SUFFICES ASSUME NEW k \in 2..Len(new), new[1].offset <= new[k].offset
               PROVE  End(new[k - 1]) = new[k].offset
    BY DEF Linked
  <2>1. 1 \in 1..Len(old) /\ k - 1 \in 1..Len(old) /\ old # <<>>
    BY <1>2
  <2>2. k # Len(old) + 1
    <3>1. new[1] = old[1] /\ e.offset < old[1].offset
      BY <1>2, <2>1
    <3>2. old[1].offset \in Nat /\ e.offset \in Nat
      BY <2>1, PiecesAre, PieceIs
    <3> QED
      BY <1>2, <3>1, <3>2
  <2>3. k \in 2..Len(old) /\ k \in 1..Len(old)
    BY <1>2, <2>2
  <2>4. new[k] = old[k] /\ new[k - 1] = old[k - 1] /\ new[1] = old[1]
    BY <1>2, <2>1, <2>3
  <2> QED
    BY <2>3, <2>4 DEF Linked
<1> QED
  BY <1>1, <1>3

(* The vector after one extent has been given other data. *)
Replaced(old, new, c, data) ==
    /\ new \in Seq(Piece) /\ Len(new) = Len(old)
    /\ \A k \in 1..Len(old) : k # c => new[k] = old[k]
    /\ new[c] = Extent(old[c].offset, data)

LEMMA ReplacedIs ==
    ASSUME NEW old \in Seq(Piece), NEW c \in 1..Len(old), NEW data \in Data
    PROVE  Replaced(old, [old EXCEPT ![c].data = data], c, data)
<1>1. PICK e : e = Extent(old[c].offset, data)
  OBVIOUS
<1>2. old[c] \in Piece /\ old[c].offset \in Nat
  BY PiecesAre
<1>3. e \in Piece
  BY <1>1, <1>2 DEF Piece, Extent
<1>4. [old[c] EXCEPT !.data = data] = e
  BY <1>1, <1>2 DEF Piece, Extent
<1>5. PICK new : new = [old EXCEPT ![c] = e]
  OBVIOUS
<1>6. [old EXCEPT ![c].data = data] = new
  BY <1>4, <1>5
<1>7. new \in Seq(Piece) /\ Len(new) = Len(old)
  BY <1>3, <1>5
<1>8. new[c] = e /\ \A k \in 1..Len(old) : k # c => new[k] = old[k]
  BY <1>5
<1> QED
  BY <1>1, <1>6, <1>7, <1>8 DEF Replaced

(* An extent that keeps its length, or the last one, is replaced. *)
LEMMA LinkedReplaced ==
    ASSUME NEW old \in Seq(Piece), Linked(old), NEW c \in 1..Len(old), NEW data \in Data,
           c = Len(old) \/ Len(data) = Len(old[c].data),
           NEW new, Replaced(old, new, c, data)
    PROVE  Linked(new)
<1>1. /\ new \in Seq(Piece) /\ Len(new) = Len(old) /\ Len(old) \in Nat
      /\ \A k \in 1..Len(old) : k # c => new[k] = old[k]
      /\ new[c].offset = old[c].offset /\ new[c].data = data
  BY DEF Replaced, Extent
<1>2. \A k \in 1..Len(new) : new[k].offset = old[k].offset
  BY <1>1
<1>3. \A k \in 1..(Len(new) - 1) : End(new[k]) = End(old[k])
  <2> SUFFICES ASSUME NEW k \in 1..(Len(new) - 1) PROVE End(new[k]) = End(old[k])
    OBVIOUS
  <2>1. k \in 1..Len(old) /\ k # Len(old)
    BY <1>1
  <2>2. CASE k = c
    BY <1>1, <2>1, <2>2 DEF End
  <2>3. CASE k # c
    BY <1>1, <2>1, <2>3
  <2> QED
    BY <2>2, <2>3
<1>4. Len(new) <= Len(old)
  BY <1>1
<1> QED
  BY <1>1, <1>2, <1>3, <1>4, LinkedBeginning

LEMMA LimitsPieces ==
    ASSUME LimitsInv
    PROVE  extents \in Seq(Piece) /\ Len(extents) \in Nat
BY DEF LimitsInv, Piece

LEMMA NewExtentLinks ==
    ASSUME LimitsInv, Linked(extents), WriteNewExtent
    PROVE  Linked(extents')
<1> DEFINE base == RoundDown(Off)
           data == Zeros(Off - base) \o Buf
           e == Extent(base, data)
<1>1. /\ status = "writing" /\ At = -1 /\ extents' = Append(extents, e)
      /\ Return(Append(extents, e))
  BY DEF WriteNewExtent, Return
<1>2. Off \in Nat
  BY <1>1, CallIs
<1>3. base \in Int /\ base <= Off
  BY <1>2, RoundDownIs
<1>4. extents \in Seq(Piece) /\ Len(extents) \in Nat
  BY LimitsPieces
<1>5. e \in Piece
  <2>1. LimitsInv'
    BY NewExtentOk
  <2>2. extents' \in Seq(Piece)
    BY <2>1 DEF LimitsInv, Piece
  <2>3. Len(extents') = Len(extents) + 1 /\ extents'[Len(extents) + 1] = e
    <3> HIDE DEF e
    <3> QED  BY <1>1, <1>4
  <2> HIDE DEF e
  <2> QED
    BY <1>4, <2>2, <2>3
<1>6. e.offset = base
  BY DEF Extent
<1>7. extents # <<>> => e.offset < extents[1].offset
  <2> SUFFICES ASSUME extents # <<>> PROVE base < extents[1].offset
    BY <1>6
  <2>1. 1 \in 1..Len(extents)
    BY <1>4
  <2>2. \A k \in 1..Len(extents) : extents[k].offset \in Int
    BY <1>4, PiecesAre
  <2>3. Found(extents, Off, At, -1, Len(extents))
    BY <1>2, <1>4, <2>2, SearchFinds DEF At
  <2>4. Off < extents[1].offset
    BY <1>1, <1>4, <2>1, <2>3 DEF Found
  <2> QED
    BY <1>2, <1>3, <2>1, <2>2, <2>4
<1> HIDE DEF e
<1> QED
  BY <1>1, <1>4, <1>5, <1>7, LinkedAppend

LEMMA OverwriteLinks ==
    ASSUME LimitsInv, Linked(extents), WriteOverwrite
    PROVE  Linked(extents')
<1>1. /\ status = "writing" /\ At # -1
      /\ extents' = [extents EXCEPT ![At + 1].data = Copied(Len(Into.data))]
  BY DEF WriteOverwrite, Fits, Inside, Return
<1>2. /\ At + 1 \in 1..Len(extents) /\ Into = extents[At + 1] /\ Len(Into.data) \in Nat
  BY <1>1, IntoIs DEF Into, ExtentOk, Data
<1>3. PICK data : data = Copied(Len(Into.data))
  OBVIOUS
<1>4. data \in Data /\ Len(data) = Len(extents[At + 1].data)
  BY <1>1, <1>2, <1>3, CopiedIs
<1>5. extents \in Seq(Piece)
  BY LimitsPieces
<1>6. Replaced(extents, extents', At + 1, data)
  BY <1>1, <1>2, <1>3, <1>4, <1>5, ReplacedIs
<1> QED
  BY <1>2, <1>4, <1>5, <1>6, LinkedReplaced

LEMMA GrowLinks ==
    ASSUME LimitsInv, Linked(extents), WriteGrow
    PROVE  Linked(extents')
<1>1. /\ Fits /\ At + 1 = Len(extents)
      /\ extents' = [extents EXCEPT ![At + 1].data = Copied(InEnd)]
  BY DEF WriteGrow, Return, IsLast
<1>2. status = "writing" /\ At # -1 /\ InEnd \in Nat
  BY <1>1, FitsWithin
<1>3. At + 1 \in 1..Len(extents)
  BY <1>2, IntoIs
<1>4. PICK data : data = Copied(InEnd)
  OBVIOUS
<1>5. data \in Data
  BY <1>2, <1>4, CopiedIs
<1>6. extents \in Seq(Piece)
  BY LimitsPieces
<1>7. Replaced(extents, extents', At + 1, data)
  BY <1>1, <1>3, <1>4, <1>5, <1>6, ReplacedIs
<1> QED
  BY <1>1, <1>3, <1>5, <1>6, <1>7, LinkedReplaced

(* The vector after an extent c has grown over the one behind it. *)
Spliced(old, new, c, mine, rest) ==
    /\ new \in Seq(Piece) /\ Len(new) = Len(old)
    /\ \A k \in 1..Len(old) : k # c /\ k # c + 1 => new[k] = old[k]
    /\ new[c] = Extent(old[c].offset, mine) /\ new[c + 1] = rest

LEMMA MergeSplices ==
    ASSUME LimitsInv, NEW mine, NEW rest, Merged(mine, rest),
           Return([extents EXCEPT ![At + 1].data = mine, ![At + 2] = rest])
    PROVE  /\ Spliced(extents, extents', At + 1, mine, rest)
           /\ At + 1 \in 1..Len(extents) /\ At + 2 \in 1..Len(extents)
           /\ mine \in Data /\ rest \in Piece
<1>1. extents \in Seq(Piece) /\ Len(extents) \in Nat
  BY LimitsPieces
<1>2. /\ At \in Nat /\ At + 1 \in 1..Len(extents) /\ At + 2 \in 1..Len(extents)
      /\ At + 1 # At + 2
      /\ ExtentOk([Into EXCEPT !.data = mine]) /\ ExtentOk(rest) /\ Into = extents[At + 1]
  BY DEF Merged, Into
<1>3. Into \in Piece /\ Into.offset \in Nat /\ rest \in Piece
  BY <1>1, <1>2, PiecesAre DEF ExtentOk, Piece
<1>4. mine \in Data
  BY <1>2, <1>3 DEF ExtentOk, Piece
<1>5. PICK a : a = [extents EXCEPT ![At + 1].data = mine]
  OBVIOUS
<1>6. Replaced(extents, a, At + 1, mine)
  BY <1>1, <1>2, <1>4, <1>5, ReplacedIs
<1>7. /\ a \in Seq(Piece) /\ Len(a) = Len(extents)
      /\ \A k \in 1..Len(extents) : k # At + 1 => a[k] = extents[k]
      /\ a[At + 1] = Extent(extents[At + 1].offset, mine)
  BY <1>6 DEF Replaced
<1>8. extents' = [a EXCEPT ![At + 2] = rest]
  BY <1>5 DEF Return
<1>9. extents' \in Seq(Piece) /\ Len(extents') = Len(extents)
  BY <1>2, <1>3, <1>7, <1>8
<1>10. extents'[At + 2] = rest /\ \A k \in 1..Len(extents) : k # At + 2 => extents'[k] = a[k]
  BY <1>2, <1>7, <1>8
<1>11. (At + 1) + 1 = At + 2
  BY <1>2
<1> QED
  BY <1>2, <1>3, <1>4, <1>7, <1>9, <1>10, <1>11 DEF Spliced
LEMMA LinkedSpliced ==
    ASSUME NEW old \in Seq(Piece), Linked(old), NEW c \in 1..Len(old), c + 1 \in 1..Len(old),
           NEW mine \in Data, NEW rest \in Piece, NEW new, Spliced(old, new, c, mine, rest),
           rest.offset = old[c].offset + Len(mine), End(rest) = End(old[c + 1])
    PROVE  Linked(new)
<1>1. /\ new \in Seq(Piece) /\ Len(new) = Len(old) /\ Len(old) \in Nat
      /\ \A k \in 1..Len(old) : k # c /\ k # c + 1 => new[k] = old[k]
      /\ new[c].offset = old[c].offset /\ new[c].data = mine /\ new[c + 1] = rest
  BY DEF Spliced, Extent
<1> SUFFICES ASSUME NEW k \in 2..Len(new), new[1].offset <= new[k].offset
             PROVE  End(new[k - 1]) = new[k].offset
  BY DEF Linked
<1>2. k \in 2..Len(old) /\ k \in 1..Len(old) /\ k - 1 \in 1..Len(old) /\ 1 \in 1..Len(old)
  BY <1>1
<1>3. new[1].offset = old[1].offset
  BY <1>1, <1>2
<1>4. CASE k = c + 1
  <2>1. End(new[c]) = old[c].offset + Len(mine) /\ k - 1 = c
    BY <1>1, <1>4 DEF End
  <2> QED
    BY <1>1, <1>4, <2>1
<1>5. CASE k # c + 1
  <2>1. new[k].offset = old[k].offset
    BY <1>1, <1>2, <1>5
  <2>2. End(old[k - 1]) = old[k].offset
    BY <1>2, <1>3, <2>1 DEF Linked
  <2>3. k - 1 # c
    BY <1>2, <1>5
  <2>4. End(new[k - 1]) = End(old[k - 1])
    <3>1. CASE k - 1 = c + 1
      BY <1>1, <3>1
    <3>2. CASE k - 1 # c + 1
      BY <1>1, <1>2, <2>3, <3>2
    <3> QED
      BY <3>1, <3>2
  <2> QED
    BY <2>1, <2>2, <2>4
<1> QED
  BY <1>4, <1>5

LEMMA MergeLinks ==
    ASSUME LimitsInv, Linked(extents), WriteMerge
    PROVE  Linked(extents')
<1>1. CASE Fail
  BY <1>1 DEF Fail
<1>2. CASE ~ Fail
  <2>1. PICK mine, rest : /\ Merged(mine, rest)
                          /\ Return([extents EXCEPT ![At + 1].data = mine, ![At + 2] = rest])
    BY <1>2, MergeIs
  <2>2. /\ Spliced(extents, extents', At + 1, mine, rest)
        /\ At + 1 \in 1..Len(extents) /\ At + 2 \in 1..Len(extents)
        /\ mine \in Data /\ rest \in Piece
    BY <2>1, MergeSplices
  <2>3. /\ At \in Nat /\ rest.offset = extents[At + 1].offset + Len(mine)
        /\ End(rest) = End(extents[At + 2])
    BY <2>1 DEF Merged, Into
  <2>4. PICK c : c = At + 1
    OBVIOUS
  <2>5. c \in 1..Len(extents) /\ c + 1 = At + 2
    BY <2>2, <2>3, <2>4
  <2>6. extents \in Seq(Piece)
    BY LimitsPieces
  <2> QED
    BY <2>2, <2>3, <2>4, <2>5, <2>6, LinkedSpliced
<1> QED
  BY <1>1, <1>2

(* truncate keeps a beginning of the vector and cuts the last extent. *)
LEMMA TruncateKeeps ==
    ASSUME LimitsInv, NEW n \in Nat
    PROVE  /\ Len(truncate(n)) <= Len(extents)
           /\ \A k \in 1..Len(truncate(n)) : truncate(n)[k].offset = extents[k].offset
           /\ \A k \in 1..(Len(truncate(n)) - 1) : truncate(n)[k] = extents[k]
<1>1. PICK at : at = search_extent(extents, n)
  OBVIOUS
<1>2. extents \in Seq(Piece) /\ Len(extents) \in Nat
  BY LimitsPieces
<1>3. \A k \in 1..Len(extents) : extents[k].offset \in Int
  BY <1>2, PiecesAre
<1>4. Found(extents, n, at, -1, Len(extents))
  BY <1>1, <1>2, <1>3, SearchFinds
<1>5. ASSUME NEW m \in 0..Len(extents)
      PROVE  /\ Len(SubSeq(extents, 1, m)) = m /\ SubSeq(extents, 1, m) \in Seq(Piece)
             /\ \A k \in 1..m : SubSeq(extents, 1, m)[k] = extents[k]
  <2>1. \A k \in 1..m : extents[k] \in Piece
    BY <1>2
  <2> QED
    BY <1>2, <2>1, SubSeqProperties
<1>6. CASE at = -1
  <2>1. truncate(n) = <<>>
    BY <1>1, <1>6 DEF truncate
  <2> QED
    BY <1>2, <2>1
<1>7. CASE at # -1
  <2>1. at + 1 \in 1..Len(extents) /\ at \in Nat
    BY <1>2, <1>4, <1>7 DEF Found
  <2>2. CASE extents[at + 1].offset = n
    <3>1. truncate(n) = SubSeq(extents, 1, at)
      BY <1>1, <1>7, <2>2 DEF truncate
    <3>2. at \in 0..Len(extents)
      BY <1>2, <2>1
    <3>3. /\ Len(truncate(n)) = at
          /\ \A k \in 1..at : truncate(n)[k] = extents[k]
      BY <1>5, <3>1, <3>2
    <3> QED
      BY <1>2, <2>1, <3>3
  <2>3. CASE extents[at + 1].offset # n
    <3>1. PICK whole : whole = SubSeq(extents, 1, at + 1)
      OBVIOUS
    <3>2. PICK cut : cut = SubSeq(whole[at + 1].data, 1,
                             MinOf(n - extents[at + 1].offset, Len(whole[at + 1].data)))
      OBVIOUS
    <3>3. truncate(n) = [whole EXCEPT ![at + 1].data = cut]
      BY <1>1, <1>7, <2>3, <3>1, <3>2 DEF truncate
    <3>4. at + 1 \in 0..Len(extents)
      BY <1>2, <2>1
    <3>5. /\ Len(whole) = at + 1 /\ whole \in Seq(Piece)
          /\ \A k \in 1..(at + 1) : whole[k] = extents[k]
      BY <1>5, <3>1, <3>4
    <3>6. Len(truncate(n)) = at + 1
      BY <3>3, <3>5
    <3>7. \A k \in 1..(at + 1) : k # at + 1 => truncate(n)[k] = extents[k]
      BY <3>3, <3>5
    <3>8. truncate(n)[at + 1].offset = extents[at + 1].offset
      <4>1. whole[at + 1] \in Piece
        BY <2>1, <3>5
      <4>2. truncate(n)[at + 1] = [whole[at + 1] EXCEPT !.data = cut]
        BY <2>1, <3>3, <3>5
      <4> QED
        BY <2>1, <3>5, <4>1, <4>2 DEF Piece
    <3> QED
      BY <1>2, <2>1, <3>6, <3>7, <3>8
  <2> QED
    BY <2>2, <2>3
<1> QED
  BY <1>6, <1>7

LEMMA TruncateLinks ==
    ASSUME LimitsInv, Linked(extents), NEW n \in Nat
    PROVE  Linked(truncate(n))
<1>1. PICK new : new = truncate(n)
  OBVIOUS
<1>2. extents \in Seq(Piece) /\ new \in Seq(Piece) /\ Len(new) \in Nat /\ Len(extents) \in Nat
  <2>1. Vector(new)
    BY <1>1, TruncateOk
  <2> QED
    BY <2>1, LimitsPieces DEF Vector, Piece
<1>3. /\ Len(new) <= Len(extents)
      /\ \A k \in 1..Len(new) : new[k].offset = extents[k].offset
      /\ \A k \in 1..(Len(new) - 1) : End(new[k]) = End(extents[k])
  BY <1>1, TruncateKeeps
<1> QED
  BY <1>1, <1>2, <1>3, LinkedBeginning

LEMMA LinkedNext ==
    LimitsInv /\ Linked(extents) /\ [Next]_vars => Linked(extents')
<1> SUFFICES ASSUME LimitsInv, Linked(extents), [Next]_vars PROVE Linked(extents')
  OBVIOUS
<1>1. CASE WriteChunks
  BY <1>1 DEF WriteChunks, Recurse
<1>2. CASE WriteSplit
  BY <1>2, Zenon DEF WriteSplit, Recurse, Fail
<1>3. CASE WriteNewExtent
  BY <1>3, NewExtentLinks
<1>4. CASE WriteOverwrite
  BY <1>4, OverwriteLinks
<1>5. CASE WriteGrow
  BY <1>5, GrowLinks
<1>6. CASE WriteMerge
  BY <1>6, MergeLinks
<1>7. ASSUME NEW n \in Cuts, Truncate(n)
      PROVE  Linked(extents')
  <2>1. n \in Nat
    BY InputsAssumption
  <2>2. extents' = truncate(n)
    BY <1>7 DEF Truncate
  <2> QED
    BY <2>1, <2>2, TruncateLinks
<1>8. ASSUME NEW buf \in Buffers, NEW off \in 0..MaxOffset, Write(buf, off)
      PROVE  Linked(extents')
  BY <1>8 DEF Write
<1>9. ASSUME NEW n \in 1..MaxRead, NEW off \in 0..st_size, Read(n, off)
      PROVE  Linked(extents')
  BY <1>9 DEF Read
<1>10. ASSUME NEW n \in Sizes, SetattrSize(n)
      PROVE  Linked(extents')
  BY <1>10 DEF SetattrSize
<1>11. CASE UNCHANGED vars
  BY <1>11 DEF vars
<1> QED
  BY <1>1, <1>2, <1>3, <1>4, <1>5, <1>6, <1>7, <1>8, <1>9, <1>10, <1>11 DEF Next, WriteStep

LinkedInv == Linked(extents)

(* A file whose extents are in order has no gap between two of them: only  *)
(* writes below the first extent add one, and a merge closes the gap.      *)
THEOREM ExtentsStayLinked == Spec => []LinkedInv
<1>1. Init => LinkedInv
  BY DEF Init, LinkedInv, Linked
<1>2. LimitsInv /\ LinkedInv /\ [Next]_vars => LinkedInv'
  BY LinkedNext DEF LinkedInv
<1> QED
  BY <1>1, <1>2, VectorStays, PTL DEF Spec

(* Whatever sequence of writes and cuts made the vector, a read returns    *)
(* the bytes of the file from the offset on, and read() does not panic, as *)
(* long as the extents are in order (and the index in the assertion of     *)
(* get_read_extents is not larger than the size it is compared with): for  *)
(* any number of extents, any block size and any length of the read.       *)
THEOREM EveryReadIsASlice == Spec => []ReadsAreSlices
<1>1. LimitsInv /\ LinkedInv => ReadsAreSlices
  <2> SUFFICES ASSUME LimitsInv, LinkedInv, InOrder(extents),
                      Len(extents) <= size(extents) + 1,
                      NEW off \in 0..size(extents), NEW n \in 0..MaxRead
               PROVE  read(extents, n, off) =
                        [panic |-> FALSE,
                         out |-> [i \in 1..MinOf(n, size(extents) - off) |->
                                     ByteAt(extents, off + i - 1)]]
    BY DEF ReadsAreSlices
  <2>1. extents \in Seq(Piece)
    BY LimitsPieces
  <2>2. Gapless(extents)
    BY <2>1, InOrderIsGapless DEF LinkedInv
  <2>3. n \in Nat
    BY InputsAssumption
  <2> QED
    BY <2>1, <2>2, <2>3, ReadsSlice
<1> QED
  BY <1>1, ExtentsStayLinked, VectorStays, PTL
-----------------------------------------------------------------------------
(***************************************************************************)
(* Where the bytes of a write go.  Extent c of the vector old takes the    *)
(* write of buf at off; data begins with the m bytes of the copy.          *)
(***************************************************************************)
Takes(old, c, off, buf) ==
    /\ old \in Seq(Piece) /\ InOrder(old) /\ c \in 1..Len(old)
    /\ off \in Nat /\ buf \in Seq(Byte) /\ old[c].offset <= off

Copies(e, off, buf, data, m) ==
    \A i \in 1..m :
        data[i] = IF i > off - e.offset /\ i <= off - e.offset + Len(buf)
                    THEN buf[i - (off - e.offset)]
                  ELSE IF i <= Len(e.data) THEN e.data[i] ELSE 0

LandsAt(old, new, off, buf, p) ==
    ByteAt(new, p) = IF off <= p /\ p < off + Len(buf) THEN buf[p - off + 1] ELSE ByteAt(old, p)

LEMMA TakesIs ==
    ASSUME NEW old, NEW c, NEW off, NEW buf, Takes(old, c, off, buf)
    PROVE  /\ old \in Seq(Piece) /\ InOrder(old) /\ c \in 1..Len(old) /\ c \in Nat
           /\ Len(old) \in Nat /\ off \in Nat /\ Len(buf) \in Nat /\ old[c].offset <= off
           /\ old[c].offset \in Nat /\ Len(old[c].data) \in Nat
           /\ End(old[c]) = old[c].offset + Len(old[c].data)
<1>1. /\ old \in Seq(Piece) /\ InOrder(old) /\ c \in 1..Len(old)
      /\ off \in Nat /\ buf \in Seq(Byte) /\ old[c].offset <= off
  BY DEF Takes
<1>2. /\ old[c].offset \in Nat /\ Len(old[c].data) \in Nat
      /\ End(old[c]) = old[c].offset + Len(old[c].data) /\ Len(old) \in Nat
  BY <1>1, PiecesAre
<1> QED
  BY <1>1, <1>2

(* The bytes of the write are in the extent that took it. *)
LEMMA WrittenByte ==
    ASSUME NEW old, NEW c, NEW off, NEW buf, Takes(old, c, off, buf),
           NEW new \in Seq(Piece), InOrder(new), c \in 1..Len(new),
           new[c].offset = old[c].offset,
           NEW m \in Nat, off - old[c].offset + Len(buf) <= m, m <= Len(new[c].data),
           Copies(old[c], off, buf, new[c].data, m),
           NEW p \in Nat, off <= p, p < off + Len(buf)
    PROVE  LandsAt(old, new, off, buf, p)
<1>1. PICK o \in Nat, b \in Nat, d \in Nat :
        o = old[c].offset /\ b = Len(buf) /\ d = Len(new[c].data)
  BY TakesIs, PiecesAre
<1>2. off \in Nat /\ o <= off /\ End(new[c]) = o + d
  BY <1>1, TakesIs, PiecesAre
<1>3. off - o + b <= m /\ m <= d /\ p < off + b
  BY <1>1
<1>4. PICK i : i = p - o + 1
  OBVIOUS
<1>5. i \in 1..m /\ i > off - o /\ i <= off - o + b /\ i - (off - o) = p - off + 1
  BY <1>2, <1>3, <1>4
<1>6. Holds(new[c], p)
  BY <1>1, <1>2, <1>3, SMTT(30) DEF Holds
<1>7. ByteAt(new, p) = new[c].data[i]
  <2>1. ByteAt(new, p) = new[c].data[p - new[c].offset + 1]
    BY <1>6, ByteIn
  <2> QED
    BY <1>1, <1>4, <2>1
<1>8. new[c].data[i] = buf[i - (off - o)]
  BY <1>1, <1>5 DEF Copies
<1> QED
  BY <1>1, <1>5, <1>7, <1>8 DEF LandsAt

(* A byte of the extent, in front of the write or behind it. *)
LEMMA KeptByte ==
    ASSUME NEW old, NEW c, NEW off, NEW buf, Takes(old, c, off, buf),
           NEW new \in Seq(Piece), InOrder(new), c \in 1..Len(new),
           new[c].offset = old[c].offset,
           NEW m \in Nat, m <= Len(new[c].data), Copies(old[c], off, buf, new[c].data, m),
           NEW p \in Nat, ~ (off <= p /\ p < off + Len(buf)),
           Holds(old[c], p), p < old[c].offset + m
    PROVE  LandsAt(old, new, off, buf, p)
<1>1. PICK o \in Nat, b \in Nat, d \in Nat, n \in Nat :
        o = old[c].offset /\ b = Len(buf) /\ d = Len(new[c].data) /\ n = Len(old[c].data)
  BY TakesIs, PiecesAre
<1>2. off \in Nat /\ o <= off /\ End(new[c]) = o + d /\ End(old[c]) = o + n
  BY <1>1, TakesIs, PiecesAre
<1>3. m <= d /\ o <= p /\ p < o + n /\ p < o + m /\ ~ (off <= p /\ p < off + b)
  BY <1>1, <1>2 DEF Holds
<1>4. PICK i : i = p - o + 1
  OBVIOUS
<1>5. i \in 1..m /\ ~ (i > off - o /\ i <= off - o + b) /\ i <= n
  BY <1>2, <1>3, <1>4
<1>6. Holds(new[c], p)
  BY <1>1, <1>2, <1>3, SMTT(30) DEF Holds
<1>7. ByteAt(new, p) = new[c].data[i]
  <2>1. ByteAt(new, p) = new[c].data[p - new[c].offset + 1]
    BY <1>6, ByteIn
  <2> QED
    BY <1>1, <1>4, <2>1
<1>8. ByteAt(old, p) = old[c].data[i]
  <2>1. old \in Seq(Piece) /\ InOrder(old) /\ c \in 1..Len(old)
    BY TakesIs
  <2> QED
    BY <1>1, <1>4, <2>1, ByteIn
<1>9. new[c].data[i] = old[c].data[i]
  BY <1>1, <1>5 DEF Copies
<1> QED
  BY <1>7, <1>8, <1>9, Zenon DEF LandsAt

(* A byte of another extent. *)
LEMMA OtherByte ==
    ASSUME NEW old \in Seq(Piece), InOrder(old), NEW new \in Seq(Piece), InOrder(new),
           NEW off, NEW buf, NEW p \in Nat, ~ (off <= p /\ p < off + Len(buf)),
           NEW k \in 1..Len(old), k \in 1..Len(new), new[k] = old[k], Holds(old[k], p)
    PROVE  LandsAt(old, new, off, buf, p)
<1>1. ByteAt(old, p) = old[k].data[p - old[k].offset + 1]
  BY ByteIn
<1>2. ByteAt(new, p) = new[k].data[p - new[k].offset + 1]
  BY ByteIn
<1> QED
  BY <1>1, <1>2, Zenon DEF LandsAt

(* No extent ends behind the file. *)
LEMMA EndWithin ==
    ASSUME NEW ext \in Seq(Piece), InOrder(ext), NEW k \in 1..Len(ext)
    PROVE  End(ext[k]) <= size(ext)
<1>1. PICK n : n = Len(ext)
  OBVIOUS
<1>2. n \in Nat /\ n \in 1..Len(ext) /\ n # 0
  BY <1>1
<1>3. size(ext) = End(ext[n])
  BY <1>1, <1>2, SizeIs
<1>4. /\ ext[n].offset \in Nat /\ Len(ext[n].data) \in Nat /\ End(ext[k]) \in Nat
      /\ End(ext[n]) = ext[n].offset + Len(ext[n].data)
  BY <1>2, PiecesAre
<1>5. CASE k = n
  BY <1>3, <1>4, <1>5
<1>6. CASE k # n
  <2>1. k < n
    BY <1>1, <1>6
  <2>2. End(ext[k]) <= ext[n].offset
    BY <1>2, <2>1, Ordered
  <2> QED
    BY <1>3, <1>4, <2>2
<1> QED
  BY <1>5, <1>6
(* What a write promises of the new vector, spoilt bytes aside. *)
Lands(old, new, off, buf) ==
    /\ InOrder(new)
    /\ size(new) = IF size(old) < off + Len(buf) THEN off + Len(buf) ELSE size(old)

(***************************************************************************)
(* One extent is replaced: it keeps its length, or it is the last one and  *)
(* grows to the end of the write.                                          *)
(***************************************************************************)
ReplacedBy(old, c, off, buf, data) ==
    /\ Takes(old, c, off, buf) /\ data \in Data
    /\ Copies(old[c], off, buf, data, Len(data))
    /\ \/ /\ off - old[c].offset + Len(buf) <= Len(old[c].data)
          /\ Len(data) = Len(old[c].data)
       \/ /\ c = Len(old) /\ Len(old[c].data) < off - old[c].offset + Len(buf)
          /\ Len(data) = off - old[c].offset + Len(buf)

LEMMA ReplacedOrder ==
    ASSUME NEW old, NEW c, NEW off, NEW buf, NEW data, ReplacedBy(old, c, off, buf, data),
           NEW new, Replaced(old, new, c, data)
    PROVE  Lands(old, new, off, buf)
<1>1. /\ old \in Seq(Piece) /\ InOrder(old) /\ c \in 1..Len(old) /\ c \in Nat
      /\ Len(old) \in Nat /\ off \in Nat /\ Len(buf) \in Nat /\ old[c].offset <= off
      /\ old[c].offset \in Nat /\ Len(old[c].data) \in Nat
      /\ End(old[c]) = old[c].offset + Len(old[c].data)
  BY TakesIs DEF ReplacedBy
<1>2. /\ new \in Seq(Piece) /\ Len(new) = Len(old)
      /\ \A k \in 1..Len(old) : k # c => new[k] = old[k]
      /\ new[c].offset = old[c].offset /\ new[c].data = data /\ Len(data) \in Nat
  BY DEF Replaced, Extent, ReplacedBy, Data
<1>3. End(new[c]) = old[c].offset + Len(data)
  BY <1>2 DEF End
<1>4. InOrder(new)
  <2> SUFFICES ASSUME NEW k \in 2..Len(new) PROVE End(new[k - 1]) <= new[k].offset
    BY DEF InOrder
  <2>1. k \in 2..Len(old) /\ k \in 1..Len(old) /\ k - 1 \in 1..Len(old) /\ k - 1 # Len(old)
    BY <1>1, <1>2
  <2>2. End(old[k - 1]) <= old[k].offset /\ new[k].offset = old[k].offset
    BY <1>1, <1>2, <2>1 DEF InOrder
  <2>3. CASE k - 1 = c
    <3>1. Len(data) = Len(old[c].data)
      BY <2>1, <2>3 DEF ReplacedBy
    <3> QED
      BY <1>1, <1>3, <2>2, <2>3, <3>1
  <2>4. CASE k - 1 # c
    BY <1>2, <2>1, <2>2, <2>4
  <2> QED
    BY <2>3, <2>4
<1>5. PICK n : n = Len(old)
  OBVIOUS
<1>6. n \in 1..Len(old) /\ size(old) = End(old[n]) /\ size(new) = End(new[n])
  BY <1>1, <1>2, <1>5, SizeIs
<1>7. size(new) = IF size(old) < off + Len(buf) THEN off + Len(buf) ELSE size(old)
  <2>1. CASE /\ off - old[c].offset + Len(buf) <= Len(old[c].data)
             /\ Len(data) = Len(old[c].data)
    <3>1. End(new[n]) = End(old[n])
      <4>1. CASE n = c
        BY <1>1, <1>3, <2>1, <4>1
      <4>2. CASE n # c
        BY <1>2, <1>6, <4>2
      <4> QED
        BY <4>1, <4>2
    <3>2. End(old[c]) <= size(old) /\ size(old) \in Nat
      BY <1>1, EndWithin, SizeIs
    <3> QED
      BY <1>1, <1>6, <2>1, <3>1, <3>2, SMTT(30)
  <2>2. CASE /\ c = Len(old) /\ Len(old[c].data) < off - old[c].offset + Len(buf)
             /\ Len(data) = off - old[c].offset + Len(buf)
    <3>1. size(new) = old[c].offset + Len(data) /\ size(old) = old[c].offset + Len(old[c].data)
      BY <1>1, <1>3, <1>5, <1>6, <2>2
    <3> QED
      BY <1>1, <1>2, <2>2, <3>1
  <2> QED
    BY <2>1, <2>2 DEF ReplacedBy
<1> QED
  BY <1>4, <1>7 DEF Lands

LEMMA ReplacedLands ==
    ASSUME NEW old, NEW c, NEW off, NEW buf, NEW data, ReplacedBy(old, c, off, buf, data),
           NEW new, Replaced(old, new, c, data), NEW p \in Nat
    PROVE  LandsAt(old, new, off, buf, p)
<1>0. Takes(old, c, off, buf)
  BY DEF ReplacedBy
<1>1. /\ old \in Seq(Piece) /\ InOrder(old) /\ c \in 1..Len(old) /\ c \in Nat
      /\ Len(old) \in Nat /\ off \in Nat /\ Len(buf) \in Nat /\ old[c].offset <= off
      /\ old[c].offset \in Nat /\ Len(old[c].data) \in Nat
      /\ End(old[c]) = old[c].offset + Len(old[c].data)
  BY <1>0, TakesIs
<1>2. /\ new \in Seq(Piece) /\ Len(new) = Len(old)
      /\ \A k \in 1..Len(old) : k # c => new[k] = old[k]
      /\ new[c].offset = old[c].offset /\ new[c].data = data /\ Len(data) \in Nat
  BY DEF Replaced, Extent, ReplacedBy, Data
<1>3. InOrder(new)
  BY ReplacedOrder DEF Lands
<1>4. PICK m \in Nat : m = Len(new[c].data)
  BY <1>2
<1>5. /\ Copies(old[c], off, buf, new[c].data, m)
      /\ off - old[c].offset + Len(buf) <= m /\ Len(old[c].data) <= m
  <2>1. Copies(old[c], off, buf, new[c].data, m)
    BY <1>2, <1>4 DEF ReplacedBy
  <2>2. off - old[c].offset + Len(buf) <= m /\ Len(old[c].data) <= m
    BY <1>1, <1>2, <1>4, SMTT(30) DEF ReplacedBy
  <2> QED
    BY <2>1, <2>2
<1>6. c \in 1..Len(new)
  BY <1>1, <1>2
<1>7. CASE off <= p /\ p < off + Len(buf)
  BY <1>0, <1>2, <1>3, <1>4, <1>5, <1>6, <1>7, WrittenByte
<1>8. CASE ~ (off <= p /\ p < off + Len(buf))
  <2>1. CASE Holds(old[c], p)
    <3>1. p < old[c].offset + m
      <4>1. p < old[c].offset + Len(old[c].data)
        BY <1>1, <2>1 DEF Holds
      <4>2. PICK o \in Nat, n \in Nat : o = old[c].offset /\ n = Len(old[c].data)
        BY <1>1
      <4>3. n <= m /\ p < o + n
        BY <1>5, <4>1, <4>2
      <4> QED
        BY <4>2, <4>3
    <3>2. m <= Len(new[c].data)
      BY <1>4
    <3> QED
      BY <1>0, <1>2, <1>3, <1>5, <1>6, <1>8, <2>1, <3>1, <3>2, KeptByte
  <2>2. ASSUME NEW k \in 1..Len(old), Holds(old[k], p), k # c PROVE LandsAt(old, new, off, buf, p)
    <3>1. new[k] = old[k] /\ k \in 1..Len(new)
      BY <1>2, <2>2
    <3> QED
      BY <1>1, <1>2, <1>3, <1>8, <2>2, <3>1, OtherByte
  <2>3. CASE \A k \in 1..Len(old) : ~ Holds(old[k], p)
    <3>1. ByteAt(old, p) = 0
      BY <1>1, <2>3, ByteOut
    <3>2. CASE Holds(new[c], p)
      <4>1. PICK i : i = p - old[c].offset + 1
        OBVIOUS
      <4>2. ~ (old[c].offset <= p /\ p < End(old[c])) /\ old[c].offset <= p /\ p < End(new[c])
        BY <1>1, <1>2, <2>3, <3>2 DEF Holds
      <4>3. End(new[c]) = old[c].offset + m
        BY <1>2, <1>4 DEF End
      <4>4. /\ i \in 1..m /\ ~ (i <= Len(old[c].data))
            /\ ~ (i > off - old[c].offset /\ i <= off - old[c].offset + Len(buf))
        <5>1. PICK o \in Nat, n \in Nat, b \in Nat :
                o = old[c].offset /\ n = Len(old[c].data) /\ b = Len(buf)
          BY <1>1
        <5>2. ~ (o <= p /\ p < o + n) /\ o <= p /\ p < o + m /\ ~ (off <= p /\ p < off + b)
          BY <1>1, <1>8, <4>2, <4>3, <5>1
        <5>3. i \in 1..m /\ ~ (i <= n) /\ ~ (i > off - o /\ i <= off - o + b)
          <6>1. off \in Nat /\ i = p - o + 1
            BY <1>1, <4>1, <5>1
          <6> QED
            BY <5>2, <6>1
        <5> QED
          BY <5>1, <5>3
      <4>5. new[c].data[i] = 0
        BY <1>5, <4>4 DEF Copies
      <4>6. ByteAt(new, p) = new[c].data[p - new[c].offset + 1]
        BY <1>2, <1>3, <1>6, <3>2, ByteIn
      <4>7. ByteAt(new, p) = 0
        BY <1>2, <4>1, <4>5, <4>6
      <4> QED
        BY <1>8, <3>1, <4>7, Zenon DEF LandsAt
    <3>3. CASE ~ Holds(new[c], p)
      <4>1. \A k \in 1..Len(new) : ~ Holds(new[k], p)
        BY <1>2, <2>3, <3>3
      <4>2. ByteAt(new, p) = 0
        BY <1>2, <4>1, ByteOut
      <4> QED
        BY <1>8, <3>1, <4>2, Zenon DEF LandsAt
    <3> QED
      BY <3>2, <3>3
  <2> QED
    BY <2>1, <2>2, <2>3
<1> QED
  BY <1>7, <1>8
(***************************************************************************)
(* One extent grows over the next one, in a file without gaps.             *)
(***************************************************************************)
SplicedBy(old, c, off, buf, mine, rest) ==
    /\ Takes(old, c, off, buf) /\ Gapless(old) /\ c + 1 \in 1..Len(old)
    /\ off <= old[c + 1].offset
    /\ mine \in Data /\ rest \in Piece
    /\ Len(old[c].data) < off - old[c].offset + Len(buf)
    /\ off - old[c].offset + Len(buf) <= Len(mine)
    /\ Copies(old[c], off, buf, mine, off - old[c].offset + Len(buf))
    /\ rest.offset = old[c].offset + Len(mine) /\ End(rest) = End(old[c + 1])
    /\ \A q \in 1..Len(rest.data) :
          rest.data[q] = old[c + 1].data[q + (rest.offset - old[c + 1].offset)]

Grown(old, new, c, mine, rest) ==
    /\ new \in Seq(Piece) /\ Len(new) = Len(old)
    /\ \A k \in 1..Len(old) : k # c /\ k # c + 1 => new[k] = old[k]
    /\ new[c].offset = old[c].offset /\ new[c].data = mine /\ new[c + 1] = rest
    /\ c \in 1..Len(new) /\ c + 1 \in 1..Len(new)

(* The places of the two extents before and after, as numbers. *)
Places(old, new, c, buf, mine, rest, o, n, b, d, x, r) ==
    /\ o = old[c].offset /\ n = Len(old[c].data) /\ b = Len(buf) /\ d = Len(mine)
    /\ old[c + 1].offset = o + n /\ x = End(old[c + 1]) /\ x = End(rest)
    /\ End(old[c]) = o + n /\ rest.offset = o + d /\ End(new[c]) = o + d
    /\ r = Len(rest.data)

Apart(off, o, n, b, d, x, r) ==
    /\ off \in Nat /\ o <= off /\ off <= o + n /\ n < off - o + b /\ off - o + b <= d
    /\ x = o + d + r

LEMMA SplicedIs ==
    ASSUME NEW old, NEW c, NEW off, NEW buf, NEW mine, NEW rest,
           SplicedBy(old, c, off, buf, mine, rest),
           NEW new, Spliced(old, new, c, mine, rest)
    PROVE  /\ Grown(old, new, c, mine, rest)
           /\ \E o \in Nat, n \in Nat, b \in Nat, d \in Nat, x \in Nat, r \in Nat :
                 Places(old, new, c, buf, mine, rest, o, n, b, d, x, r) /\ Apart(off, o, n, b, d, x, r)
<1>0. Takes(old, c, off, buf)
  BY DEF SplicedBy
<1>1. /\ old \in Seq(Piece) /\ InOrder(old) /\ c \in 1..Len(old) /\ c \in Nat
      /\ Len(old) \in Nat /\ off \in Nat /\ Len(buf) \in Nat /\ old[c].offset <= off
      /\ old[c].offset \in Nat /\ Len(old[c].data) \in Nat
      /\ End(old[c]) = old[c].offset + Len(old[c].data)
  BY <1>0, TakesIs
<1>2. /\ new \in Seq(Piece) /\ Len(new) = Len(old)
      /\ \A k \in 1..Len(old) : k # c /\ k # c + 1 => new[k] = old[k]
      /\ new[c].offset = old[c].offset /\ new[c].data = mine /\ new[c + 1] = rest
  BY DEF Spliced, Extent
<1>3. /\ c + 1 \in 1..Len(old) /\ off <= old[c + 1].offset
      /\ Len(old[c].data) < off - old[c].offset + Len(buf)
      /\ off - old[c].offset + Len(buf) <= Len(mine)
      /\ rest.offset = old[c].offset + Len(mine) /\ End(rest) = End(old[c + 1])
      /\ Len(mine) \in Nat /\ rest \in Piece
  BY DEF SplicedBy, Data
<1>4. /\ Len(rest.data) \in Nat /\ End(rest) = rest.offset + Len(rest.data) /\ End(rest) \in Nat
  BY <1>3, PieceIs
<1>5. End(old[c]) = old[c + 1].offset
  <2>1. c + 1 \in 2..Len(old) /\ (c + 1) - 1 = c
    BY <1>1, <1>3
  <2> QED
    BY <2>1 DEF SplicedBy, Gapless
<1>6. End(new[c]) = old[c].offset + Len(mine)
  BY <1>2 DEF End
<1>7. PICK o \in Nat, n \in Nat, b \in Nat, d \in Nat, x \in Nat, r \in Nat :
         /\ o = old[c].offset /\ n = Len(old[c].data) /\ b = Len(buf) /\ d = Len(mine)
         /\ x = End(rest) /\ r = Len(rest.data)
  BY <1>1, <1>3, <1>4
<1>8. /\ old[c + 1].offset = o + n /\ x = End(old[c + 1])
      /\ End(old[c]) = o + n /\ rest.offset = o + d /\ End(new[c]) = o + d
      /\ x = o + d + r
      /\ off \in Nat /\ o <= off /\ off <= o + n /\ n < off - o + b /\ off - o + b <= d
  BY <1>1, <1>3, <1>4, <1>5, <1>6, <1>7
<1>9. Places(old, new, c, buf, mine, rest, o, n, b, d, x, r)
  BY <1>7, <1>8 DEF Places
<1>10. Apart(off, o, n, b, d, x, r)
  BY <1>8 DEF Apart
<1>11. Grown(old, new, c, mine, rest)
  BY <1>1, <1>2, <1>3 DEF Grown
<1> QED
  BY <1>9, <1>10, <1>11

LEMMA SplicedOrder ==
    ASSUME NEW old, NEW c, NEW off, NEW buf, NEW mine, NEW rest,
           SplicedBy(old, c, off, buf, mine, rest),
           NEW new, Spliced(old, new, c, mine, rest)
    PROVE  Lands(old, new, off, buf)
<1>1. /\ old \in Seq(Piece) /\ InOrder(old) /\ c \in 1..Len(old) /\ c \in Nat /\ Gapless(old)
      /\ Len(old) \in Nat
  BY TakesIs DEF SplicedBy
<1>2. /\ new \in Seq(Piece) /\ Len(new) = Len(old)
      /\ \A k \in 1..Len(old) : k # c /\ k # c + 1 => new[k] = old[k]
      /\ new[c].offset = old[c].offset /\ new[c].data = mine /\ new[c + 1] = rest
      /\ c \in 1..Len(new) /\ c + 1 \in 1..Len(new)
  <2>1. Grown(old, new, c, mine, rest)
    BY SplicedIs
  <2> QED
    BY <2>1 DEF Grown
<1>a. PICK o \in Nat, n \in Nat, b \in Nat, d \in Nat, x \in Nat, r \in Nat :
        Places(old, new, c, buf, mine, rest, o, n, b, d, x, r) /\ Apart(off, o, n, b, d, x, r)
  BY SplicedIs
<1>3. /\ o = old[c].offset /\ n = Len(old[c].data) /\ b = Len(buf) /\ d = Len(mine)
      /\ old[c + 1].offset = o + n /\ x = End(old[c + 1]) /\ x = End(rest)
      /\ End(old[c]) = o + n /\ rest.offset = o + d /\ End(new[c]) = o + d
      /\ r = Len(rest.data)
  BY <1>a DEF Places
<1>b. /\ off \in Nat /\ o <= off /\ off <= o + n /\ n < off - o + b /\ off - o + b <= d
      /\ x = o + d + r
  BY <1>a DEF Apart
<1>4. Gapless(new)
  <2> SUFFICES ASSUME NEW k \in 2..Len(new) PROVE End(new[k - 1]) = new[k].offset
    BY DEF Gapless
  <2>1. k \in 2..Len(old) /\ k \in 1..Len(old) /\ k - 1 \in 1..Len(old)
    BY <1>1, <1>2
  <2>2. End(old[k - 1]) = old[k].offset
    BY <1>1, <2>1 DEF Gapless
  <2>3. CASE k = c + 1
    <3>1. k - 1 = c
      BY <1>1, <2>3
    <3> QED
      BY <1>2, <1>3, <2>3, <3>1
  <2>4. CASE k # c + 1
    <3>1. k - 1 # c
      BY <1>1, <2>1, <2>4
    <3>2. new[k].offset = old[k].offset
      BY <1>2, <2>1, <2>4
    <3>3. End(new[k - 1]) = End(old[k - 1])
      <4>1. CASE k - 1 = c + 1
        BY <1>2, <1>3, <4>1
      <4>2. CASE k - 1 # c + 1
        BY <1>2, <2>1, <3>1, <4>2
      <4> QED
        BY <4>1, <4>2
    <3> QED
      BY <2>2, <3>2, <3>3
  <2> QED
    BY <2>3, <2>4
<1>5. InOrder(new)
  BY <1>2, <1>4, GaplessOrder
<1>6. size(new) = size(old)
  <2>1. PICK l : l = Len(old)
    OBVIOUS
  <2>2. l \in 1..Len(old) /\ l # 0 /\ l # c
    BY <1>1, <1>2, <2>1
  <2>3. size(old) = End(old[l]) /\ size(new) = End(new[l])
    BY <1>1, <1>2, <2>1, <2>2, SizeIs
  <2>4. End(new[l]) = End(old[l])
    <3>1. CASE l = c + 1
      BY <1>2, <1>3, <3>1
    <3>2. CASE l # c + 1
      BY <1>2, <2>2, <3>2
    <3> QED
      BY <3>1, <3>2
  <2> QED
    BY <2>3, <2>4
<1>7. ~ (size(old) < off + Len(buf))
  <2>1. PICK s : s = size(old)
    OBVIOUS
  <2>2. x <= s /\ s \in Nat
    BY <1>1, <1>2, <1>3, <2>1, EndWithin, SizeIs
  <2>3. ~ (s < off + b)
    BY <1>b, <2>2
  <2> QED
    BY <1>3, <2>1, <2>3
<1> QED
  BY <1>5, <1>6, <1>7 DEF Lands

(* Bytes behind the write that the extent takes from the next one. *)
Moved(old, c, off, buf, rest, p) ==
    off + Len(buf) <= p /\ p < rest.offset /\ Holds(old[c + 1], p)

LEMMA SplicedLands ==
    ASSUME NEW old, NEW c, NEW off, NEW buf, NEW mine, NEW rest,
           SplicedBy(old, c, off, buf, mine, rest),
           NEW new, Spliced(old, new, c, mine, rest),
           NEW p \in Nat, ~ Moved(old, c, off, buf, rest, p)
    PROVE  LandsAt(old, new, off, buf, p)
<1>0. Takes(old, c, off, buf)
  BY DEF SplicedBy
<1>1. /\ old \in Seq(Piece) /\ InOrder(old) /\ c \in 1..Len(old) /\ c \in Nat
      /\ Len(old) \in Nat
  BY <1>0, TakesIs
<1>2. /\ new \in Seq(Piece) /\ Len(new) = Len(old)
      /\ \A k \in 1..Len(old) : k # c /\ k # c + 1 => new[k] = old[k]
      /\ new[c].offset = old[c].offset /\ new[c].data = mine /\ new[c + 1] = rest
      /\ c \in 1..Len(new) /\ c + 1 \in 1..Len(new)
  <2>1. Grown(old, new, c, mine, rest)
    BY SplicedIs
  <2> QED
    BY <2>1 DEF Grown
<1>a. PICK o \in Nat, n \in Nat, b \in Nat, d \in Nat, x \in Nat, r \in Nat :
        Places(old, new, c, buf, mine, rest, o, n, b, d, x, r) /\ Apart(off, o, n, b, d, x, r)
  BY SplicedIs
<1>3. /\ o = old[c].offset /\ n = Len(old[c].data) /\ b = Len(buf) /\ d = Len(mine)
      /\ old[c + 1].offset = o + n /\ x = End(old[c + 1]) /\ x = End(rest)
      /\ End(old[c]) = o + n /\ rest.offset = o + d /\ End(new[c]) = o + d
      /\ r = Len(rest.data)
  BY <1>a DEF Places
<1>b. /\ off \in Nat /\ o <= off /\ off <= o + n /\ n < off - o + b /\ off - o + b <= d
      /\ x = o + d + r
  BY <1>a DEF Apart
<1>4. InOrder(new)
  BY SplicedOrder DEF Lands
<1>5. PICK m \in Nat : m = off - o + b
  BY <1>b
<1>6. /\ Copies(old[c], off, buf, new[c].data, m)
      /\ off - old[c].offset + Len(buf) <= m /\ m <= Len(new[c].data)
  <2>1. Copies(old[c], off, buf, new[c].data, m)
    BY <1>2, <1>3, <1>5 DEF SplicedBy
  <2>2. off - o + b <= m /\ m <= d
    BY <1>b, <1>5
  <2> QED
    BY <1>2, <1>3, <2>1, <2>2
<1>7. CASE off <= p /\ p < off + Len(buf)
  BY <1>0, <1>2, <1>4, <1>6, <1>7, WrittenByte
<1>8. CASE ~ (off <= p /\ p < off + Len(buf))
  <2>0. ~ (off <= p /\ p < off + b)
    BY <1>3, <1>8
  <2>1. CASE Holds(old[c], p)
    <3>1. o <= p /\ p < o + n
      BY <1>3, <2>1 DEF Holds
    <3>2. p < o + m
      BY <1>b, <1>5, <3>1
    <3>3. p < old[c].offset + m
      BY <1>3, <3>2
    <3> QED
      BY <1>0, <1>2, <1>4, <1>6, <1>8, <2>1, <3>3, KeptByte
  <2>2. CASE Holds(old[c + 1], p)
    <3>1. o + n <= p /\ p < x
      BY <1>3, <2>2 DEF Holds
    <3>2. off + b <= p
      BY <1>b, <2>0, <3>1
    <3>3. o + d <= p
      <4>1. ~ (p < o + d)
        BY <1>3, <2>2, <3>2 DEF Moved
      <4> QED
        BY <4>1
    <3>4. Holds(new[c + 1], p)
      BY <1>2, <1>3, <3>1, <3>3 DEF Holds
    <3>5. ByteAt(new, p) = rest.data[p - (o + d) + 1]
      <4>1. ByteAt(new, p) = new[c + 1].data[p - new[c + 1].offset + 1]
        BY <1>2, <1>4, <3>4, ByteIn
      <4> QED
        BY <1>2, <1>3, <4>1
    <3>6. ByteAt(old, p) = old[c + 1].data[p - (o + n) + 1]
      <4>1. ByteAt(old, p) = old[c + 1].data[p - old[c + 1].offset + 1]
        BY <1>1, <1>2, <2>2, ByteIn
      <4> QED
        BY <1>3, <4>1
    <3>7. PICK q : q = p - (o + d) + 1
      OBVIOUS
    <3>8. q \in 1..r /\ q + ((o + d) - (o + n)) = p - (o + n) + 1
      BY <1>b, <3>1, <3>3, <3>7
    <3>9. rest.data[q] = old[c + 1].data[q + ((o + d) - (o + n))]
      <4>1. \A j \in 1..Len(rest.data) :
              rest.data[j] = old[c + 1].data[j + (rest.offset - old[c + 1].offset)]
        BY DEF SplicedBy
      <4> QED
        BY <1>3, <3>8, <4>1
    <3>10. ByteAt(new, p) = ByteAt(old, p)
      BY <3>5, <3>6, <3>7, <3>8, <3>9
    <3> QED
      BY <1>8, <3>10, Zenon DEF LandsAt
  <2>3. ASSUME NEW k \in 1..Len(old), Holds(old[k], p), k # c, k # c + 1
        PROVE  LandsAt(old, new, off, buf, p)
    <3>1. new[k] = old[k] /\ k \in 1..Len(new)
      BY <1>2, <2>3
    <3> QED
      BY <1>1, <1>2, <1>4, <1>8, <2>3, <3>1, OtherByte
  <2>4. CASE \A k \in 1..Len(old) : ~ Holds(old[k], p)
    <3>1. ByteAt(old, p) = 0
      BY <1>1, <2>4, ByteOut
    <3>2. ~ (o <= p /\ p < o + n) /\ ~ (o + n <= p /\ p < x)
      BY <1>1, <1>2, <1>3, <2>4 DEF Holds
    <3>3. ~ Holds(new[c], p)
      <4>1. ~ (o <= p /\ p < o + d)
        BY <1>b, <2>0, <3>2
      <4> QED
        BY <1>2, <1>3, <4>1 DEF Holds
    <3>4. ~ Holds(new[c + 1], p)
      <4>1. ~ (o + d <= p /\ p < x)
        BY <1>b, <2>0, <3>2
      <4> QED
        BY <1>2, <1>3, <4>1 DEF Holds
    <3>5. \A k \in 1..Len(new) : ~ Holds(new[k], p)
      BY <1>2, <2>4, <3>3, <3>4
    <3>6. ByteAt(new, p) = 0
      BY <1>2, <3>5, ByteOut
    <3> QED
      BY <1>8, <3>1, <3>6, Zenon DEF LandsAt
  <2> QED
    BY <2>1, <2>2, <2>3, <2>4
<1> QED
  BY <1>7, <1>8
-----------------------------------------------------------------------------
(***************************************************************************)
(* The calls of write().                                                   *)
(***************************************************************************)

(* A step that does not return the call leaves it among those to be made.  *)
LEMMA NotReturned ==
    ASSUME LimitsInv, status = "writing",
           \/ todo' = todo
           \/ \E calls \in Seq(Call) : calls # <<>> /\ Recurse(calls)
    PROVE  todo' # Rest
<1>1. todo \in Seq(Call) /\ todo # <<>>
  BY DEF LimitsInv
<1>2. Rest \in Seq(Call) /\ Len(Rest) = Len(todo) - 1 /\ Len(todo) \in Nat
  BY <1>1 DEF Rest
<1>3. CASE todo' = todo
  BY <1>2, <1>3
<1>4. ASSUME NEW calls \in Seq(Call), calls # <<>>, Recurse(calls) PROVE todo' # Rest
  <2>1. todo' = calls \o Rest
    BY <1>4 DEF Recurse
  <2>2. Len(calls \o Rest) = Len(calls) + Len(Rest) /\ Len(calls) \in Nat /\ Len(calls) # 0
    BY <1>2, <1>4
  <2> QED
    BY <1>2, <2>1, <2>2
<1> QED
  BY <1>3, <1>4

(* What the search tells of the extent that takes the write. *)
LEMMA IntoTakes ==
    ASSUME LimitsInv, status = "writing", At # -1, InOrder(extents)
    PROVE  /\ Takes(extents, At + 1, Off, Buf)
           /\ At + 2 <= Len(extents) => Off <= extents[At + 2].offset
<1>1. extents \in Seq(Piece) /\ Len(extents) \in Nat
  BY LimitsPieces
<1>2. Buf \in Seq(Byte) /\ Off \in Nat
  BY CallIs
<1>3. \A k \in 1..Len(extents) : extents[k].offset \in Int
  BY <1>1, PiecesAre
<1>4. Found(extents, Off, At, -1, Len(extents))
  BY <1>1, <1>2, <1>3, SearchFinds DEF At
<1>5. At + 1 \in 1..Len(extents) /\ At \in Nat /\ extents[At + 1].offset <= Off
  BY <1>1, <1>4 DEF Found
<1>6. Takes(extents, At + 1, Off, Buf)
  BY <1>1, <1>2, <1>5 DEF Takes
<1>7. ASSUME At + 2 <= Len(extents) PROVE Off <= extents[At + 2].offset
  <2>1. CASE Off = extents[At + 1].offset
    <3>1. At + 2 \in 1..Len(extents) /\ At + 1 < At + 2
      BY <1>1, <1>5, <1>7
    <3>2. End(extents[At + 1]) <= extents[At + 2].offset
      BY <1>1, <1>5, <3>1, Ordered
    <3>3. /\ extents[At + 1].offset \in Nat /\ Len(extents[At + 1].data) \in Nat
          /\ End(extents[At + 1]) = extents[At + 1].offset + Len(extents[At + 1].data)
          /\ extents[At + 2].offset \in Nat
      BY <1>1, <1>5, <3>1, PiecesAre
    <3> QED
      BY <2>1, <3>2, <3>3
  <2>2. CASE Off # extents[At + 1].offset
    <3>1. At < Len(extents) - 1 /\ At + 2 \in 1..Len(extents)
      BY <1>1, <1>5, <1>7
    <3>2. Off < extents[At + 2].offset
      BY <1>4, <2>2, <3>1 DEF Found
    <3> QED
      BY <1>2, <1>3, <3>1, <3>2
  <2> QED
    BY <2>1, <2>2
<1> QED
  BY <1>6, <1>7

LEMMA CopiedCopies ==
    ASSUME LimitsInv, status = "writing", At # -1, NEW n \in Nat, NEW m \in Nat, m <= n
    PROVE  Copies(extents[At + 1], Off, Buf, Copied(n), m)
<1>1. Into = extents[At + 1] /\ InOfs = Off - extents[At + 1].offset
  BY DEF Into, InOfs
<1>2. InEnd = (Off - extents[At + 1].offset) + Len(Buf)
  BY <1>1 DEF InEnd
<1> SUFFICES ASSUME NEW i \in 1..m
             PROVE  Copied(n)[i] =
                      IF i > Off - extents[At + 1].offset
                         /\ i <= Off - extents[At + 1].offset + Len(Buf)
                        THEN Buf[i - (Off - extents[At + 1].offset)]
                      ELSE IF i <= Len(extents[At + 1].data) THEN extents[At + 1].data[i] ELSE 0
  BY Zenon DEF Copies
<1>3. i \in 1..n
  OBVIOUS
<1>4. Copied(n)[i] = IF i > InOfs /\ i <= InEnd THEN Buf[i - InOfs]
                     ELSE IF i <= Len(Into.data) THEN Into.data[i] ELSE 0
  BY <1>3, Zenon DEF Copied
<1> QED
  BY <1>1, <1>2, <1>4

LEMMA OverwriteLands ==
    ASSUME LimitsInv, InOrder(extents), WriteOverwrite, NEW p \in Nat
    PROVE  Lands(extents, extents', Off, Buf) /\ LandsAt(extents, extents', Off, Buf, p)
<1>1. /\ status = "writing" /\ At # -1 /\ Len(Into.data) >= InEnd
      /\ extents' = [extents EXCEPT ![At + 1].data = Copied(Len(Into.data))]
  BY DEF WriteOverwrite, Fits, Inside, Return
<1>2. /\ At + 1 \in 1..Len(extents) /\ Into = extents[At + 1] /\ Len(Into.data) \in Nat
      /\ InEnd \in Nat /\ InEnd = Off - extents[At + 1].offset + Len(Buf)
  BY <1>1, IntoIs DEF Into, ExtentOk, Data, InEnd, InOfs
<1>3. PICK data : data = Copied(Len(Into.data))
  OBVIOUS
<1>4. data \in Data /\ Len(data) = Len(extents[At + 1].data)
  BY <1>1, <1>2, <1>3, CopiedIs
<1>5. extents \in Seq(Piece)
  BY LimitsPieces
<1>6. Replaced(extents, extents', At + 1, data)
  BY <1>1, <1>2, <1>3, <1>4, <1>5, ReplacedIs
<1>7. Copies(extents[At + 1], Off, Buf, data, Len(data))
  BY <1>1, <1>2, <1>3, <1>4, CopiedCopies
<1>8. Takes(extents, At + 1, Off, Buf)
  BY <1>1, IntoTakes
<1>9. Off - extents[At + 1].offset + Len(Buf) <= Len(extents[At + 1].data)
  BY <1>1, <1>2
<1>10. ReplacedBy(extents, At + 1, Off, Buf, data)
  BY <1>4, <1>7, <1>8, <1>9, Zenon DEF ReplacedBy
<1> QED
  BY <1>6, <1>10, ReplacedOrder, ReplacedLands

LEMMA GrowLands ==
    ASSUME LimitsInv, InOrder(extents), WriteGrow, NEW p \in Nat
    PROVE  Lands(extents, extents', Off, Buf) /\ LandsAt(extents, extents', Off, Buf, p)
<1>1. /\ Fits /\ At + 1 = Len(extents) /\ Len(Into.data) < InEnd
      /\ extents' = [extents EXCEPT ![At + 1].data = Copied(InEnd)]
  BY DEF WriteGrow, Return, IsLast
<1>2. status = "writing" /\ At # -1 /\ InEnd \in Nat
  BY <1>1, FitsWithin
<1>3. /\ At + 1 \in 1..Len(extents) /\ Into = extents[At + 1]
      /\ InEnd = Off - extents[At + 1].offset + Len(Buf)
  BY <1>2, IntoIs DEF Into, InEnd, InOfs
<1>4. PICK data : data = Copied(InEnd)
  OBVIOUS
<1>5. data \in Data /\ Len(data) = InEnd
  BY <1>2, <1>4, CopiedIs
<1>6. extents \in Seq(Piece)
  BY LimitsPieces
<1>7. Replaced(extents, extents', At + 1, data)
  BY <1>1, <1>3, <1>4, <1>5, <1>6, ReplacedIs
<1>8. Copies(extents[At + 1], Off, Buf, data, Len(data))
  BY <1>2, <1>4, <1>5, CopiedCopies
<1>9. Takes(extents, At + 1, Off, Buf)
  BY <1>2, IntoTakes
<1>10. /\ Len(extents[At + 1].data) < Off - extents[At + 1].offset + Len(Buf)
       /\ Len(data) = Off - extents[At + 1].offset + Len(Buf)
  BY <1>1, <1>3, <1>5
<1>11. ReplacedBy(extents, At + 1, Off, Buf, data)
  BY <1>1, <1>5, <1>8, <1>9, <1>10, Zenon DEF ReplacedBy
<1> QED
  BY <1>7, <1>11, ReplacedOrder, ReplacedLands

(* The bytes that a merge takes from the next extent are the spoilt ones. *)
LEMMA MergeLands ==
    ASSUME LimitsInv, LinkedInv, InOrder(extents), WriteMerge, ~ Fail,
           NEW p \in Nat
    PROVE  /\ Lands(extents, extents', Off, Buf)
           /\ ~ Spoilt(p) => LandsAt(extents, extents', Off, Buf, p)
<1>1. PICK mine, rest : /\ Merged(mine, rest)
                        /\ Return([extents EXCEPT ![At + 1].data = mine, ![At + 2] = rest])
  BY MergeIs
<1>2. /\ Spliced(extents, extents', At + 1, mine, rest)
      /\ At + 1 \in 1..Len(extents) /\ At + 2 \in 1..Len(extents)
      /\ mine \in Data /\ rest \in Piece
  BY <1>1, MergeSplices
<1>3. /\ At \in Nat /\ Len(mine) = RoundUp(InEnd)
      /\ rest.offset = extents[At + 1].offset + RoundUp(InEnd)
      /\ End(rest) = End(extents[At + 2])
      /\ \A q \in 1..InEnd : mine[q] = Copied(RoundUp(InEnd))[q]
      /\ \A q \in 1..Len(rest.data) :
            rest.data[q] = extents[At + 2].data[q + (rest.offset - extents[At + 2].offset)]
  BY <1>1 DEF Merged, Into
<1>4. Fits /\ Len(Into.data) < InEnd
  BY DEF WriteMerge
<1>5. /\ status = "writing" /\ At # -1 /\ InEnd \in Nat /\ RoundUp(InEnd) \in Nat
      /\ InEnd <= RoundUp(InEnd)
  BY <1>4, FitsWithin
<1>6. extents \in Seq(Piece) /\ Len(extents) \in Nat
  BY LimitsPieces
<1>7. Gapless(extents)
  BY <1>6, InOrderIsGapless DEF LinkedInv
<1>8. Into = extents[At + 1] /\ InEnd = Off - extents[At + 1].offset + Len(Buf)
  BY DEF Into, InEnd, InOfs
<1>9. Takes(extents, At + 1, Off, Buf) /\ Off <= extents[At + 2].offset
  BY <1>2, <1>5, IntoTakes
<1>10. Copies(extents[At + 1], Off, Buf, mine, InEnd)
  <2>1. Copies(extents[At + 1], Off, Buf, Copied(RoundUp(InEnd)), InEnd)
    BY <1>5, CopiedCopies
  <2> QED
    BY <1>3, <2>1 DEF Copies
<1>11. PICK c : c = At + 1
  OBVIOUS
<1>12. c + 1 = At + 2
  BY <1>3, <1>11
<1>13. SplicedBy(extents, c, Off, Buf, mine, rest)
  <2>1. Takes(extents, c, Off, Buf) /\ c + 1 \in 1..Len(extents) /\ Off <= extents[c + 1].offset
    BY <1>2, <1>9, <1>11, <1>12
  <2>2. /\ Len(extents[c].data) < Off - extents[c].offset + Len(Buf)
        /\ Off - extents[c].offset + Len(Buf) <= Len(mine)
        /\ Copies(extents[c], Off, Buf, mine, Off - extents[c].offset + Len(Buf))
    BY <1>3, <1>4, <1>5, <1>8, <1>10, <1>11
  <2>3. /\ rest.offset = extents[c].offset + Len(mine) /\ End(rest) = End(extents[c + 1])
        /\ \A q \in 1..Len(rest.data) :
              rest.data[q] = extents[c + 1].data[q + (rest.offset - extents[c + 1].offset)]
    BY <1>3, <1>11, <1>12
  <2> QED
    BY <1>2, <1>7, <2>1, <2>2, <2>3, Zenon DEF SplicedBy
<1>14. Spliced(extents, extents', c, mine, rest)
  BY <1>2, <1>11
<1>15. rest.offset = RoundUp(Off + Len(Buf))
  <2>1. /\ extents[At + 1].offset \in Nat /\ extents[At + 1].offset % Unit = 0
        /\ Off \in Nat /\ Len(Buf) \in Nat
    BY <1>2, <1>5, CallIs DEF LimitsInv, ExtentOk
  <2>2. PICK o \in Nat : o = extents[At + 1].offset
    BY <2>1
  <2>3. Off + Len(Buf) = InEnd + o
    BY <1>8, <2>1, <2>2
  <2>4. RoundUp(InEnd + o) = RoundUp(InEnd) + o
    BY <1>5, <2>1, <2>2, RoundUpShift
  <2>5. rest.offset = o + RoundUp(InEnd)
    BY <1>3, <2>2
  <2> QED
    BY <1>5, <2>3, <2>4, <2>5
<1>16. Moved(extents, c, Off, Buf, rest, p) => Spoilt(p)
  <2> SUFFICES ASSUME Moved(extents, c, Off, Buf, rest, p) PROVE Spoilt(p)
    OBVIOUS
  <2>1. Off + Len(Buf) <= p /\ p < RoundUp(Off + Len(Buf)) /\ Holds(extents[c + 1], p)
    BY <1>15 DEF Moved
  <2>2. c + 1 \in DOMAIN extents /\ At + 1 < c + 1
    BY <1>2, <1>3, <1>6, <1>12
  <2> QED
    BY <2>1, <2>2 DEF Spoilt
<1> QED
  BY <1>13, <1>14, <1>16, SplicedOrder, SplicedLands
(* A file's first extent: zeros from the start of its block, then the      *)
(* bytes of the write.                                                     *)
First(old, new, off, buf, base) ==
    /\ old = <<>> /\ off \in Nat /\ buf \in Seq(Byte) /\ base \in Nat /\ base <= off
    /\ new = Append(old, Extent(base, Zeros(off - base) \o buf))

LEMMA FirstLands ==
    ASSUME NEW old, NEW new, NEW off, NEW buf, NEW base, First(old, new, off, buf, base),
           NEW p \in Nat
    PROVE  /\ Lands(old, new, off, buf)
           /\ p < size(new) => LandsAt(old, new, off, buf, p)
<1>0. off \in Nat /\ buf \in Seq(Byte) /\ base \in Nat /\ base <= off
  BY DEF First
<1>a. PICK z \in Nat, b \in Nat : z = off - base /\ b = Len(buf)
  <2>1. off - base \in Nat
    BY <1>0
  <2>2. Len(buf) \in Nat
    BY <1>0
  <2> QED
    BY <2>1, <2>2
<1>b. PICK data : data = Zeros(z) \o buf
  OBVIOUS
<1>1. z = off - base /\ b = Len(buf) /\ data = Zeros(z) \o buf
  BY <1>a, <1>b
<1>2. /\ Zeros(z) \in Data /\ Len(Zeros(z)) = z /\ \A i \in 1..z : Zeros(z)[i] = 0
  BY ZerosIs
<1>3. /\ data \in Data /\ Len(data) = z + b
      /\ \A i \in 1..(z + b) : data[i] = IF i <= z THEN Zeros(z)[i] ELSE buf[i - z]
  <2>1. buf \in Seq(Byte \cup {0}) /\ Zeros(z) \in Seq(Byte \cup {0})
    BY <1>0, <1>2 DEF Data
  <2>2. /\ data \in Seq(Byte \cup {0}) /\ Len(data) = Len(Zeros(z)) + Len(buf)
        /\ \A i \in 1..(Len(Zeros(z)) + Len(buf)) :
              data[i] = IF i <= Len(Zeros(z)) THEN Zeros(z)[i] ELSE buf[i - Len(Zeros(z))]
    BY <1>1, <2>1, ConcatProperties
  <2> QED
    BY <1>1, <1>2, <2>2 DEF Data
<1>4. PICK e : e = Extent(base, data)
  OBVIOUS
<1>5. e \in Piece /\ e.offset = base /\ e.data = data /\ End(e) = base + Len(data)
  BY <1>0, <1>3, <1>4 DEF Piece, Extent, End
<1>6. new \in Seq(Piece) /\ Len(new) = 1 /\ new[1] = e /\ old \in Seq(Piece) /\ Len(old) = 0
  <2>1. old = <<>> /\ new = Append(old, e)
    BY <1>1, <1>4 DEF First
  <2> QED
    BY <1>5, <2>1
<1>7. InOrder(new) /\ InOrder(old)
  BY <1>6 DEF InOrder
<1>8. size(new) = off + b /\ size(old) = 0
  <2>1. size(new) = base + Len(data)
    <3>1. size(new) = End(new[Len(new)])
      BY <1>6, SizeIs
    <3> QED
      BY <1>5, <1>6, <3>1
  <2>2. size(old) = 0
    BY <1>6, SizeIs
  <2> QED
    BY <1>0, <1>1, <1>3, <2>1, <2>2
<1>9. Lands(old, new, off, buf)
  <2>1. off + b = IF 0 < off + b THEN off + b ELSE 0
    BY <1>0
  <2>2. size(new) = IF size(old) < off + Len(buf) THEN off + Len(buf) ELSE size(old)
    BY <1>1, <1>8, <2>1
  <2> QED
    BY <1>7, <2>2 DEF Lands
<1>10. ByteAt(old, p) = 0
  <2>1. \A k \in 1..Len(old) : ~ Holds(old[k], p)
    BY <1>6
  <2> QED
    BY <1>6, <2>1, ByteOut
<1>11. ASSUME p < size(new) PROVE LandsAt(old, new, off, buf, p)
  <2>0. p < off + b
    BY <1>8, <1>11
  <2>1. CASE base <= p
    <3>1. PICK i : i = p - base + 1
      OBVIOUS
    <3>2. i \in 1..(z + b) /\ (i <= z <=> ~ (off <= p)) /\ i - z = p - off + 1
      BY <1>0, <1>1, <2>0, <2>1, <3>1
    <3>3. Holds(new[1], p)
      <4>1. p < base + Len(data)
        BY <1>0, <1>1, <1>3, <2>0
      <4> QED
        BY <1>5, <1>6, <2>1, <4>1 DEF Holds
    <3>4. ByteAt(new, p) = data[i]
      <4>1. 1 \in 1..Len(new)
        BY <1>6
      <4>2. ByteAt(new, p) = new[1].data[p - new[1].offset + 1]
        BY <1>6, <1>7, <3>3, <4>1, ByteIn
      <4> QED
        BY <1>5, <1>6, <3>1, <4>2
    <3>5. CASE off <= p
      <4>1. ByteAt(new, p) = buf[p - off + 1]
        BY <1>3, <3>2, <3>4, <3>5
      <4> QED
        BY <1>1, <2>0, <3>5, <4>1 DEF LandsAt
    <3>6. CASE ~ (off <= p)
      <4>1. data[i] = Zeros(z)[i] /\ i \in 1..z
        BY <1>3, <3>2, <3>6
      <4>2. ByteAt(new, p) = 0
        BY <1>2, <3>4, <4>1
      <4> QED
        BY <1>10, <3>6, <4>2, Zenon DEF LandsAt
    <3> QED
      BY <3>5, <3>6
  <2>2. CASE ~ (base <= p)
    <3>0. p < base
      BY <1>0, <2>2
    <3>1. p < new[1].offset
      BY <1>5, <1>6, <3>0
    <3>2. ByteAt(new, p) = 0
      BY <1>6, <1>7, <3>1, ByteBefore
    <3>3. ~ (off <= p)
      BY <1>0, <2>2
    <3> QED
      BY <1>10, <3>2, <3>3, Zenon DEF LandsAt
  <2> QED
    BY <2>1, <2>2
<1> QED
  BY <1>9, <1>11

LEMMA NewExtentLands ==
    ASSUME LimitsInv, WriteNewExtent, extents # <<>> => extents[1].offset <= Off, NEW p \in Nat
    PROVE  /\ Lands(extents, extents', Off, Buf)
           /\ p < size(extents') => LandsAt(extents, extents', Off, Buf, p)
<1>1. PICK base, data : /\ base = RoundDown(Off) /\ data = Zeros(Off - base) \o Buf
                        /\ extents' = Append(extents, Extent(base, data))
  BY DEF WriteNewExtent, Return
<1>2. status = "writing" /\ At = -1
  BY DEF WriteNewExtent
<1>3. Buf \in Seq(Byte) /\ Off \in Nat
  BY <1>2, CallIs
<1>4. base \in Nat /\ base <= Off
  <2>1. base \in Int /\ base <= Off /\ base >= 0
    BY <1>1, <1>3, RoundDownIs
  <2> QED
    BY <2>1
<1>5. extents = <<>>
  <2> SUFFICES ASSUME extents # <<>> PROVE FALSE
    OBVIOUS
  <2>1. extents \in Seq(Piece) /\ Len(extents) \in Nat
    BY LimitsPieces
  <2>2. 1 \in 1..Len(extents)
    BY <2>1
  <2>3. \A k \in 1..Len(extents) : extents[k].offset \in Int
    BY <2>1, PiecesAre
  <2>4. Found(extents, Off, At, -1, Len(extents))
    BY <1>3, <2>1, <2>3, SearchFinds DEF At
  <2>5. Off < extents[1].offset
    BY <1>2, <2>1, <2>2, <2>4 DEF Found
  <2> QED
    BY <1>3, <2>2, <2>3, <2>5
<1>6. First(extents, extents', Off, Buf, base)
  BY <1>1, <1>3, <1>4, <1>5 DEF First
<1> QED
  BY <1>6, FirstLands

(* A call that returns is one of the four that change the vector. *)
LEMMA ReturnedHow ==
    ASSUME LimitsInv, [Next]_vars, status = "writing", todo' = Rest
    PROVE  WriteNewExtent \/ WriteOverwrite \/ WriteGrow \/ (WriteMerge /\ ~ Fail)
<1>1. ~ WriteChunks
  BY ChunksAre, NotReturned
<1>2. ~ Fail
  BY NotReturned DEF Fail
<1>3. ~ WriteSplit
  BY <1>2, SplitIs, NotReturned
<1>4. ~ UNCHANGED vars
  BY NotReturned DEF vars
<1>5. ~ \E buf \in Buffers, off \in 0..MaxOffset : Write(buf, off)
  BY DEF Write
<1>6. ~ \E n \in 1..MaxRead, off \in 0..st_size : Read(n, off)
  BY DEF Read
<1>7. ~ \E n \in Sizes : SetattrSize(n)
  BY DEF SetattrSize
<1>8. ~ \E n \in Cuts : Truncate(n)
  BY DEF Truncate
<1>9. WriteStep
  BY <1>4, <1>5, <1>6, <1>7, <1>8 DEF Next
<1> QED
  BY <1>1, <1>2, <1>3, <1>9 DEF WriteStep

(* Whatever calls came before it, a call of write() that returns, at or    *)
(* behind the first extent of a vector that is in order, leaves it in      *)
(* order, makes the file as long as it has to be, puts its bytes in place  *)
(* and leaves every other byte alone, but for the rest of the last block   *)
(* when the write runs into the next extent: for any number of extents,    *)
(* any block size, and writes of any length.                               *)
THEOREM WritesGoInPlace == Spec => WritesLandInPlace
<1>1. LimitsInv /\ LinkedInv /\ [Next]_vars => [LandsInPlace]_vars
  <2> SUFFICES ASSUME LimitsInv, LinkedInv, [Next]_vars, status = "writing", todo' = Rest,
                      InOrder(extents), extents # <<>> => extents[1].offset <= Off
               PROVE  /\ Lands(extents, extents', Off, Buf)
                      /\ \A p \in 0..(size(extents') - 1) :
                           Spoilt(p) \/ LandsAt(extents, extents', Off, Buf, p)
    BY Zenon DEF LandsInPlace, Lands, LandsAt
  <2>1. WriteNewExtent \/ WriteOverwrite \/ WriteGrow \/ (WriteMerge /\ ~ Fail)
    BY ReturnedHow
  <2>2. ASSUME NEW p \in Nat
        PROVE  /\ Lands(extents, extents', Off, Buf)
               /\ ~ Spoilt(p) /\ p < size(extents') => LandsAt(extents, extents', Off, Buf, p)
    BY <2>1, NewExtentLands, OverwriteLands, GrowLands, MergeLands
  <2>3. Lands(extents, extents', Off, Buf)
    BY <2>2
  <2>4. size(extents') \in Nat
    <3>1. LimitsInv'
      BY LimitsNext
    <3>2. extents' \in Seq(Piece)
      BY <3>1 DEF LimitsInv, Piece
    <3> QED
      BY <3>2, SizeIs
  <2>5. ASSUME NEW p \in 0..(size(extents') - 1)
        PROVE  Spoilt(p) \/ LandsAt(extents, extents', Off, Buf, p)
    <3>1. p \in Nat /\ p < size(extents')
      BY <2>4
    <3> QED
      BY <2>2, <3>1
  <2> QED
    BY <2>3, <2>5
<1> QED
  BY <1>1, VectorStays, ExtentsStayLinked, PTL DEF Spec, WritesLandInPlace
=============================================================================
