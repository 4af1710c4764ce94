------------------------------- MODULE Numbers -------------------------------
(***************************************************************************)
(* Exact decisions of the native core on numbers beside the ranges:        *)
(* fixed-width integers (bitvector.rs), promotion of execution types       *)
(* (legacy_numeric_types.rs) and conversion of units (units.rs).           *)
(*                                                                         *)
(* An answer is a sequence: empty when the operation is refused.           *)
(***************************************************************************)
EXTENDS RangeAnalysis, Bitwise

-----------------------------------------------------------------------------
(***************************************************************************)
(* Fixed-width integers: [width, signed, checked]; width 0 is unbounded.   *)
(***************************************************************************)
EncodeBits(n, r) ==
  LET half == 2 ^ (r.width - 1)
  IN  IF \/ (~r.signed /\ n < 0)
         \/ r.checked /\ n \notin (IF r.signed THEN -half .. half - 1 ELSE 0 .. 2 * half - 1)
      THEN <<>> ELSE <<n % 2 ^ r.width>>
DecodeBits(b, r) ==
  IF r.signed /\ b % 2 ^ r.width >= 2 ^ (r.width - 1)
  THEN (b % 2 ^ r.width) - 2 ^ r.width ELSE b % 2 ^ r.width

Shifts  == {"ShiftLeft", "ShiftRight"}
Rotates == {"RotateLeft", "RotateRight"}

\* Mutant: a right shift never copies the sign.
RightShiftLogical(x, y, r) == <<x \div 2 ^ y>>
RightShift(x, y, r) ==
  IF r.signed THEN EncodeBits(DecodeBits(x, r) \div 2 ^ y, r) ELSE <<x \div 2 ^ y>>

\* On encoded operands. A rotation count has been encoded as well, hence taken modulo 2^width.
OnBits(op, x, y, r) ==
  LET amount == IF op = "RotateLeft" THEN y % r.width ELSE (r.width - (y % r.width)) % r.width
  IN CASE op = "BitAnd" -> <<x & y>>
       [] op = "BitOr"  -> <<x | y>>
       [] op = "BitXor" -> <<x ^^ y>>
       [] op = "BitNot" -> <<2 ^ r.width - 1 - x>>
       [] op = "ShiftLeft"  -> <<(x * 2 ^ y) % 2 ^ r.width>>
       [] op = "ShiftRight" -> RightShift(x, y, r)
       [] op \in Rotates ->
            <<((x * 2 ^ amount) % 2 ^ r.width) + (x \div 2 ^ (r.width - amount))>>

EvaluateBits(q) ==
  LET x == EncodeBits(q.x, q.rep)
      y == EncodeBits(q.y, q.rep)
      bits == OnBits(q.op, x[1], y[1], q.rep)
  IN  IF \/ q.op \in Shifts \cup Rotates /\ q.y < 0
         \/ q.op \in Shifts /\ q.y >= q.rep.width
         \/ x = <<>>
         \/ q.op # "BitNot" /\ y = <<>>
      THEN <<>>
      ELSE IF bits = <<>> THEN <<>> ELSE <<DecodeBits(bits[1], q.rep)>>

\* (x >> y) & mask: the width of the field it is recognised as, or 0.
RecognizeFieldExtract(mask) == Max({w \in 0 .. 8 : w = 0 \/ 2 ^ w - 1 = mask})

\* What one bit of the result must be: bit i of x in two's complement is Bit(x, i).
Bit(x, i) == (x \div 2 ^ i) % 2
ResultBit(q, i) ==
  LET w == q.rep.width
      \* beyond the width: the sign or zero
      at(j) == IF j < w THEN Bit(q.x, j) ELSE IF q.rep.signed THEN Bit(q.x, w - 1) ELSE 0
  IN CASE q.op = "BitAnd" -> Bit(q.x, i) * Bit(q.y, i)
       [] q.op = "BitOr"  -> Max({Bit(q.x, i), Bit(q.y, i)})
       [] q.op = "BitXor" -> (Bit(q.x, i) + Bit(q.y, i)) % 2
       [] q.op = "BitNot" -> 1 - Bit(q.x, i)
       [] q.op = "ShiftLeft"   -> IF i < q.y THEN 0 ELSE Bit(q.x, i - q.y)
       [] q.op = "ShiftRight"  -> at(i + q.y)
       [] q.op = "RotateLeft"  -> Bit(q.x, (i - q.y) % w)
       [] q.op = "RotateRight" -> Bit(q.x, (i + q.y) % w)
-----------------------------------------------------------------------------
(***************************************************************************)
(* Execution types: [kind, bits, signed, python].                          *)
(***************************************************************************)
Type(kind, bits, signed) == [kind |-> kind, bits |-> bits, signed |-> signed, python |-> FALSE]
Python(kind) == [kind |-> kind, bits |-> IF kind = "integer" THEN 0 ELSE IF kind = "float" THEN 64 ELSE 128,
                 signed |-> TRUE, python |-> TRUE]

Rank == [bool |-> 0, integer |-> 1, float |-> 2, complex |-> 3]
Least(widths, needed) == Min({w \in widths : w >= needed} \cup {Max(widths)})
FloatOf(bits) == Type("float", Least({16, 32, 64}, bits), TRUE)
ComplexOf(bits) == Type("complex", Least({64, 128}, bits), TRUE)

\* The type of a Python scalar beside a concrete type: its value may still not fit.
PromoteWeak(scalar, concrete) ==
  IF Rank[scalar.kind] <= Rank[concrete.kind] \/ scalar.kind = "integer" THEN concrete
  ELSE IF scalar.kind = "float" THEN Type("float", 64, TRUE)
  ELSE ComplexOf(IF concrete.bits <= 32 THEN 64 ELSE 128)

PromoteIntegers(a, b) ==
  LET s == IF a.signed THEN a ELSE b
      u == IF a.signed THEN b ELSE a
  IN  IF a.signed = b.signed THEN Type("integer", Max({a.bits, b.bits}), a.signed)
      ELSE IF s.bits > u.bits THEN s
      ELSE IF u.bits < 64 THEN Type("integer", 2 * u.bits, TRUE)
      ELSE Type("float", 64, TRUE)

Promote(a, b) ==
  IF a.python /\ b.python THEN IF Rank[a.kind] >= Rank[b.kind] THEN a ELSE b
  ELSE IF a.python THEN PromoteWeak(a, b)
  ELSE IF b.python THEN PromoteWeak(b, a)
  ELSE IF a.kind = "bool" THEN b
  ELSE IF b.kind = "bool" THEN a
  ELSE IF "complex" \in {a.kind, b.kind}
  THEN ComplexOf(Max({IF t.kind = "complex" THEN t.bits ELSE 2 * t.bits : t \in {a, b}}))
  ELSE IF "float" \in {a.kind, b.kind} THEN FloatOf(Max({a.bits, b.bits}))
  ELSE PromoteIntegers(a, b)

BinaryResult(op, a, b) ==
  LET t == Promote(a, b)
  IN  IF op = "Div" /\ t.kind = "integer"
      THEN IF t.python THEN Python("float") ELSE Type("float", 64, TRUE) ELSE t

\* Every value of a is one of t. A part of a complex number is half as wide as the number;
\* an integer is a float if its digits fit the significand.
PartBits(t) == IF t.kind = "complex" THEN t.bits \div 2 ELSE t.bits
Significand(bits) == CASE bits = 16 -> 11 [] bits = 32 -> 24 [] bits = 64 -> 53
ValueBits(a) == a.bits - (IF a.signed THEN 1 ELSE 0)
Covers(t, a) ==
  \/ a.kind = "bool"
  \/ a.kind = "integer" /\ t.kind = "integer" /\ (a.signed => t.signed) /\ ValueBits(t) >= ValueBits(a)
  \/ a.kind = "integer" /\ t.kind \in {"float", "complex"} /\ Significand(PartBits(t)) >= ValueBits(a)
  \/ a.kind \in {"float", "complex"} /\ Rank[t.kind] >= Rank[a.kind] /\ PartBits(t) >= PartBits(a)
-----------------------------------------------------------------------------
(***************************************************************************)
(* Units: [dimension, scale, offset]; dimensions are functions from base   *)
(* dimensions to exponents other than 0, numbers are fractions.            *)
(***************************************************************************)
Reduce(a) == LET g == Max({d \in 1 .. Magnitude(a[2]) : a[1] % d = 0 /\ a[2] % d = 0})
                 s == IF a[2] < 0 THEN -1 ELSE 1
             IN  <<s * (a[1] \div g), s * (a[2] \div g)>>
Plus(a, b)  == Reduce(<<a[1] * b[2] + b[1] * a[2], a[2] * b[2]>>)
Times(a, b) == Reduce(<<a[1] * b[1], a[2] * b[2]>>)
Over(a, b)  == Reduce(<<a[1] * b[2], a[2] * b[1]>>)

\* Exponents added with a factor: product 1, quotient, derivative and gradient -1,
\* Laplacian -2, integral 1.
DimensionFactor == [Multiply |-> 1, Divide |-> -1, Derivative |-> -1, Laplacian |-> -2, Integral |-> 1]
Dimension(op, d, e) ==
  LET Exponent(f, n) == IF n \in DOMAIN f THEN f[n] ELSE 0
      total(n) == Exponent(d, n) + DimensionFactor[op] * Exponent(e, n)
  IN  [n \in {m \in DOMAIN d \cup DOMAIN e : total(m) # 0} |-> total(n)]

\* Mutant: the offset of the source is left out.
ConvertNoOffset(value, from, to) ==
  IF from.dimension # to.dimension THEN <<>>
  ELSE <<Over(Plus(Times(value, from.scale), Minus(to.offset)), to.scale)>>
Convert(value, from, to) ==
  IF from.dimension # to.dimension THEN <<>>
  ELSE <<Over(Plus(Plus(Times(value, from.scale), from.offset), Minus(to.offset)), to.scale)>>
AddQuantities(a, u, b, v) ==
  LET c == Convert(b, v, u) IN IF c = <<>> THEN <<>> ELSE <<Plus(a, c[1])>>
-----------------------------------------------------------------------------
Operate(kind, answer) == request.kind = kind /\ outcome = <<>> /\ outcome' = <<answer>> /\ UNCHANGED request

NumbersNext ==
  \/ Analyze
  \/ Operate("bits", EvaluateBits(request))
  \/ Operate("promote", BinaryResult(request.op, request.left, request.right))
  \/ Operate("convert", Convert(request.value, request.from, request.to))
  \/ Operate("dimension", Dimension(request.op, request.left, request.right))
  \/ Operate("add", AddQuantities(request.value, request.from, request.other, request.to))
NumbersSpec == Init /\ [][NumbersNext]_vars

\* A result is in the range of its representation and each of its bits is the one that two's
\* complement prescribes; a shift-and-mask recognised as a field extraction has the value of
\* that field. Two departures of the code: rotation counts when the width is not
\* a power of two, and a field as wide as a signed integer.
BitsAreRight ==
  request.kind = "bits" /\ outcome # <<>> =>
    \A n \in Range(outcome[1]) :
      LET w == request.rep.width
      IN  /\ n \in IF request.rep.signed THEN -(2 ^ (w - 1)) .. 2 ^ (w - 1) - 1 ELSE 0 .. 2 ^ w - 1
          /\ (request.op \in Rotates => request.y < 2 ^ w \/ w \in {1, 2, 4, 8}) =>
               \A i \in 0 .. w - 1 : Bit(n, i) = ResultBit(request, i)
          /\ request.op = "ShiftRight" =>
               \A mask \in 1 .. 2 ^ w - 1 :
                 LET field  == RecognizeFieldExtract(mask)
                     masked == EvaluateBits([request EXCEPT !.op = "BitAnd", !.x = n, !.y = mask])
                 IN  field # 0 /\ masked # <<>> /\ (request.rep.signed => field < w)
                       /\ DecodeBits(request.x, request.rep) = request.x
                     => masked[1] = (request.x \div 2 ^ request.y) % 2 ^ field

\* The promotions of the code that lose digits: an integer as wide as the parts of the
\* float or complex number beside it, and integers of both signs without a common type.
LosesDigits(a, b) ==
  \/ a.kind = "integer" /\ b.kind \in {"float", "complex"} /\ a.bits >= PartBits(b)
  \/ a.kind = "integer" /\ b.kind = "integer" /\ a.bits = 64 /\ ~a.signed /\ b.signed
\* Promotion does not depend on the order of the operands, and its result holds every value of
\* both, where no rule leaves a Python scalar to be checked at run time and no digits are lost.
PromotionCovers ==
  request.kind = "promote" /\ outcome # <<>> =>
    LET a == request.left
        b == request.right
    IN  /\ Promote(a, b) = Promote(b, a)
        /\ ~a.python /\ ~b.python /\ request.op # "Div" =>
             (Covers(outcome[1], a) /\ Covers(outcome[1], b)) <=> ~LosesDigits(a, b) /\ ~LosesDigits(b, a)
        /\ request.op = "Div" => outcome[1].kind \in {"float", "complex", "bool"}

\* Converting there and back is exact, and converting in two steps is converting in one.
\* A Laplacian is two derivatives, and an integral undoes one. Adding gives the same quantity in either order unless a unit has an offset.
UnitsAreExact ==
  /\ request.kind = "convert" /\ outcome # <<>> =>
       \A x \in Range(outcome[1]) :
         /\ Convert(x, request.to, request.from) = <<Reduce(request.value)>>
         /\ \A u \in request.via : Convert(request.value, request.from, u) # <<>> =>
              Convert(Convert(request.value, request.from, u)[1], u, request.to) = <<x>>
  /\ request.kind = "dimension" /\ outcome # <<>> =>
       LET d == outcome[1]
           D(op, x) == Dimension(op, x, request.right)
       IN  /\ request.op \in {"Multiply", "Integral"} => D("Divide", d) = request.left
           /\ request.op = "Laplacian" => D("Derivative", D("Derivative", request.left)) = d
           /\ request.op = "Derivative" => D("Integral", d) = request.left
  /\ request.kind = "add" /\ outcome # <<>> /\ request.from.offset = request.to.offset =>
       \A x \in Range(outcome[1]) :
         request.from.offset = <<0, 1>> =>
           Convert(x, request.from, request.to)
             = AddQuantities(request.other, request.to, request.value, request.from)

\* Operations on bits, promotion of types and conversion of units have the values they stand for.
NumbersAreExact == BitsAreRight /\ PromotionCovers /\ UnitsAreExact
=============================================================================
