------------------------------- MODULE AsmGcd -------------------------------
(***************************************************************************)
(* The assembly that the timelord runs in place of LehmerGcd's C++: the    *)
(* base case in doubles (asm_gcd_base_continued_fractions.h) or, on        *)
(* machines with AVX2, in words with a table of inverses                   *)
(* (asm_gcd_base_divide_table.h); gcd_128 in two words with carries        *)
(* (asm_gcd_128.h); and gcd_unsigned over limbs, which writes every matrix *)
(* it finds to an array for the other thread and steps back and forth      *)
(* between two buffers (asm_gcd_unsigned.h, threading.h).                  *)
(***************************************************************************)
EXTENDS LehmerGcd

CONSTANT Limbs      \* gcd_size

Low(x) == x % Word
High(x) == (x \div Word) % Word
Limb(x, i) == (x \div Word^i) % Word
Signed(x) == IF x >= Word \div 2 THEN x - Word ELSE x
FitsSigned(x, bits) == -(2^bits) <= x /\ x < 2^bits

-----------------------------------------------------------------------------
(* The base case in doubles.                                                *)

\* dot_product_exact on both lanes; that of a and b needs no last check.
ProductsExact(m, x, fused) == \A i \in 1 .. 2 : RangeCheck(m[i][1] * x[1]) /\ (fused \/ RangeCheck(m[i][2] * x[2]))

AsmApplied(m, s, fused) ==
  [ok |-> ProductsExact(m, s.ab, fused) /\ MatTimesExact(m, s.uv, fused),
   ab |-> Times(m, s.ab), uv |-> MatTimes(m, s.uv), iter |-> s.iter + 1]

\* From the quotient's slot: below the start, beyond the end or next to an end
\* of the slot there is no matrix.
AsmLookup(table, bits) ==
  IF bits < 0 \/ bits \div Delta >= TableSize \/ bits % Delta \in {0, Delta - 1} THEN <<>> ELSE table[bits \div Delta]

AsmNext(s, found, byTable, threshold, b) ==
  IF found # <<>> /\ byTable.ok /\ byTable.ab[1] > threshold THEN byTable
  ELSE AsmApplied(QuotientMatrix(s.ab[1] \div s.ab[2]), s, b.fused)

AsmChecked(next, lehmer) == [next EXCEPT !.ok = @ /\ (lehmer => LehmerPassed(next.ab, next.uv))]

AsmBaseStep(s, found, lehmer, threshold, b) ==
  AsmChecked(AsmNext(s, found, AsmApplied(FractionMatrix(found), s, b.fused), threshold, b), lehmer)

\* The loop counts down; a step that fails leaves the registers as they were.
RECURSIVE AsmBaseLoop(_, _, _, _)
AsmBaseLoop(s, lehmer, threshold, b) ==
  IF s.ab[1] <= threshold \/ s.ab[2] <= threshold \/ s.iter = b.baseIter THEN s
  ELSE LET next == AsmBaseStep(s, AsmLookup(b.table, ToDouble(s.ab[1], s.ab[2])), lehmer, threshold, b)
       IN  IF next.ok THEN AsmBaseLoop(next, lehmer, threshold, b) ELSE s

-----------------------------------------------------------------------------
(* The base case in words.                                                  *)

\* The high word of the inverse; a word full of ones is a negative number.
DivideTableLookup(index) == Signed(((Word * Word - 1) \div Max({index, 1})) \div Word)

\* divide_table_64
Divided(a, b) == [q |-> FloorDiv(a, b), r |-> FloorMod(a, b)]

\* Mutant of IfRemainder: a quotient that is too small by one is taken.
IfRemainderSmall(a, b, q) ==
  IF FitsSigned(q * b, WordBits - 1) /\ a - q * b >= 0 THEN [q |-> q, r |-> a - q * b] ELSE Divided(a, b)
\* The remainder shows that a quotient is wrong; then it is found by division.
IfRemainder(a, b, q) ==
  IF FitsSigned(q * b, WordBits - 1) /\ a - q * b \in 0 .. b - 1 THEN [q |-> q, r |-> a - q * b] ELSE Divided(a, b)

\* divide_table: the quotient by the inverse of b's leading bits.
QuotientByTable(a, b, indexBits) ==
  LET shift == Max({0, Bits(b) - indexBits})
  IN  FloorDiv(FloorDiv(a * DivideTableLookup(b \div 2^shift), Word), 2^shift)

DivideTable(a, b, indexBits) == IfRemainder(a, b, QuotientByTable(a, b, indexBits))

\* gcd_64_iteration: not ok when the quotient or a cofactor is too long, or
\* when later digits could change the quotient.
Iteration64(s, d, lehmer, b) ==
  LET uv == MatTimes(QuotientMatrix(d.q), s.uv)
      ab == <<s.ab[2], d.r>>
      second(j) == ab[2] + uv[2][j]
      delta(j) == ab[1] + uv[1][j] - second(j)
  IN  [ok |-> /\ FitsSigned(d.q, b.quotientBits)
              /\ \A j \in 1 .. 2 : FitsSigned(uv[2][j], b.dataSize)
              /\ lehmer => \A j \in 1 .. 2 : second(j) >= 0 /\ delta(j) >= 0,
       ab |-> ab, uv |-> uv, iter |-> s.iter + 1]

RECURSIVE Loop64(_, _, _, _)
Loop64(s, lehmer, threshold, b) ==
  IF s.ab[2] <= threshold \/ s.iter = b.divideIter THEN s
  ELSE LET next == Iteration64(s, DivideTable(s.ab[1], s.ab[2], b.indexBits), lehmer, b)
       IN  IF next.ok THEN Loop64(next, lehmer, threshold, b) ELSE s

\* gcd_64, the same in C++: a cofactor of -2^data_size is too long here, and
\* one of the two conditions is that for the sign of the cofactors.
ExactCondition(ab, uv) ==
  IF uv[2][1] < 0 THEN ab[2] >= -uv[2][1] /\ ab[1] - ab[2] >= uv[2][2] - uv[1][2]
  ELSE ab[2] >= -uv[2][2] /\ ab[1] - ab[2] >= uv[2][1] - uv[1][1]
BothConditions(ab, uv) ==
  /\ ab[2] >= -uv[2][1] /\ ab[1] - ab[2] >= uv[2][2] - uv[1][2]
  /\ ab[2] >= -uv[2][2] /\ ab[1] - ab[2] >= uv[2][1] - uv[1][1]

Next64(ab, uv, q, iter, approximate, b) ==
  [ok |-> /\ FitsSigned(q, b.quotientBits)
          /\ approximate => BothConditions(ab, uv)
          /\ \A v \in Entries(uv) : Magnitude(v) < 2^b.dataSize,
   asserted |-> approximate => uv[2][1] # 0 /\ (BothConditions(ab, uv) <=> ExactCondition(ab, uv)),
   ab |-> ab, uv |-> uv, iter |-> iter]

\* divide_table in C++ asserts that a remainder in one word tells wrong
\* quotients as surely as one in two words.
DivideTableAsserted(a, b, indexBits) ==
  LET q == QuotientByTable(a, b, indexBits)
      product == Signed((q * b) % Word)
      r == Signed((a - product) % Word)
      invalid_1 == product # q * b \/ r # a - product \/ r % Word >= b
      invalid_2 == (a - q * b) % Word^2 >= b
      d == IF invalid_2 THEN Divided(a, b) ELSE [q |-> q, r |-> a - q * b]
  IN  [d |-> d, asserted |-> (invalid_1 <=> invalid_2) /\ (invalid_2 \/ r = a - q * b) /\ d = Divided(a, b)]

Step64(s, t, approximate, b) ==
  LET next == Next64(<<s.ab[2], t.d.r>>, MatTimes(QuotientMatrix(t.d.q), s.uv), t.d.q, s.iter + 1, approximate, b)
  IN  [next EXCEPT !.asserted = @ /\ s.asserted /\ t.asserted]

RECURSIVE Gcd64Loop(_, _, _)
Gcd64Loop(s, approximate, b) ==
  IF s.ab[2] = 0 \/ s.iter = b.divideIter THEN s
  ELSE LET next == Step64(s, DivideTableAsserted(s.ab[1], s.ab[2], b.indexBits), approximate, b)
       IN  IF next.ok THEN Gcd64Loop(next, approximate, b) ELSE [s EXCEPT !.asserted = next.asserted]

Gcd64(ab, approximate, b) ==
  LET s == [ok |-> TRUE, asserted |-> TRUE, ab |-> ab, uv |-> Identity, iter |-> 0]
  IN  IF approximate /\ (ab[1] = ab[2] \/ ab[2] = 0) THEN s ELSE Gcd64Loop(s, approximate, b)

-----------------------------------------------------------------------------
(* gcd_128: sums and products of two words, modulo Word^2.                  *)

AsmBase(ab, approximate, threshold, b) ==
  LET s == [ok |-> TRUE, ab |-> ab, uv |-> Identity, iter |-> 0]
  IN  IF b.divide THEN Loop64(s, approximate, threshold, b) ELSE AsmBaseLoop(s, approximate, threshold, b)

AsmShift(a, lehmer, baseBits) == Max({Bits(a), IF lehmer THEN (3 * WordBits) \div 2 ELSE 0, baseBits}) - baseBits

AsmBaseAt(ab, shift, lehmer, threshold, b) ==
  AsmBase(<<ab[1] \div 2^shift, ab[2] \div 2^shift>>, lehmer \/ shift # 0, threshold \div 2^shift, b)

\* dot_product_subtract: the high words contribute their low products.
DotSubtract(x, y, u, v) ==
  (Low(x) * u + Low(High(x) * u) * Word - Low(y) * v - Low(High(y) * v) * Word) % Word^2
ConditionalNegate(x, parity) == IF parity = 1 THEN (-x) % Word^2 ELSE x

AsmNewAb(start, uv, parity) ==
  <<ConditionalNegate(DotSubtract(start[1], start[2], uv[1][1], uv[1][2]), parity),
    ConditionalNegate(DotSubtract(start[2], start[1], uv[2][2], uv[2][1]), parity)>>

\* Without lehmer both bounds are zero and nothing compares a with b.
AsmLehmer128(ab, uv, parity, lehmer) ==
  lehmer =>
    LET positive == IF parity = 0 THEN 2 ELSE 1
    IN  /\ (ab[1] - ab[2]) % Word^2 >= uv[2][positive] + uv[1][positive]
        /\ ab[2] >= uv[2][3 - positive]

AsmStored(s, m, moved, uv, parity, ab, lehmer, threshold) ==
  [ok |-> moved /\ WordTimesExact(m, s.uv) /\ AsmLehmer128(ab, uv, parity, lehmer) /\ ab[1] > threshold,
   ab |-> ab, uv |-> uv, parity |-> parity, iter |-> s.iter + 1]

AsmWith(s, start, m, moved, uv, parity, lehmer, threshold) ==
  AsmStored(s, m, moved, uv, parity, AsmNewAb(start, uv, parity), lehmer, threshold)

AsmApply128(s, start, base, lehmer, threshold) ==
  AsmWith(s, start, AbsMatrix(base.uv), base.iter > 0, MatTimes(AbsMatrix(base.uv), s.uv),
          (s.parity + IF base.uv[2][2] < 0 THEN 1 ELSE 0) % 2, lehmer, threshold)

RECURSIVE AsmLoop128(_, _, _, _, _)
AsmLoop128(s, start, lehmer, threshold, b) ==
  IF s.ab[2] <= threshold \/ s.iter = b.maxIter THEN s
  ELSE LET next == AsmApply128(s, start, AsmBaseAt(s.ab, AsmShift(s.ab[1], lehmer, b.baseBits), lehmer, threshold, b),
                               lehmer, threshold)
       IN  IF next.ok THEN AsmLoop128(next, start, lehmer, threshold, b) ELSE s

AsmGcd128(ab, lehmer, threshold, b) ==
  AsmLoop128([ok |-> TRUE, ab |-> ab, uv |-> Identity, parity |-> 0, iter |-> 0], ab, lehmer, threshold, b)

-----------------------------------------------------------------------------
(* gcd_unsigned: two buffers of a and b, read and written in turn.          *)

\* The buffer that holds the numbers after iteration iter, from -1 on.
BufferOf(iter) == IF iter % 2 = 0 THEN 2 ELSE 1

UpdateEndIndex(x, end) == Max({0} \cup {i \in 0 .. end : Limb(x, i) # 0})
CalculateHeadStart(end) == Max({end, 2}) - 2
\* Three limbs, shifted until the last one is zero.
ExtractHead(x, start, shift) ==
  ((Limb(x, start) + Limb(x, start + 1) * Word + Limb(x, start + 2) * Word^2) \div 2^shift) % Word^2

\* x * u - y * v as x * u + ~(y * v) + 1.
MulAdd(x, u, tmp, carry) == (x * u + tmp + carry) % Word^Limbs
MulSub(x, u, y, v) == MulAdd(x, u, Word^Limbs - 1 - MulAdd(y, v, 0, 0), 1)

MultiplyUv(ab, m, parity) ==
  IF parity = 0 THEN <<MulSub(ab[1], m[1][1], ab[2], m[1][2]), MulSub(ab[2], m[2][2], ab[1], m[2][1])>>
  ELSE <<MulSub(ab[2], m[1][2], ab[1], m[1][1]), MulSub(ab[1], m[2][1], ab[2], m[2][2])>>

\* What gcd_128 is given.
HeadsAt(ab, threshold, end, start, shift) ==
  [ab |-> <<ExtractHead(ab[1], start, shift), ExtractHead(ab[2], start, shift)>>,
   threshold |-> ExtractHead(threshold, start, shift), end |-> end]
HeadsOf(ab, threshold, end) ==
  HeadsAt(ab, threshold, end, CalculateHeadStart(end), Bits(Limb(ab[1], CalculateHeadStart(end) + 2)))

HeadError(h) == h.threshold >= h.ab[1] \/ (h.threshold = h.ab[2] /\ h.end >= 2)
ExitFlag(h) == h.threshold >= h.ab[2]

\* The entry of an iteration is written before the counter is set; the first
\* one has no matrix.
Publish(s, h) ==
  [s EXCEPT !.end = h.end, !.iter = @ + 1, !.counter = s.counterStart + s.iter,
            !.entries = Append(@, [uv |-> s.uv, parity |-> s.parity, exit |-> ExitFlag(h)])]

Multiplied(s, r) ==
  [s EXCEPT !.bufs[BufferOf(s.iter)] = MultiplyUv(s.bufs[3 - BufferOf(s.iter)], r.uv, r.parity),
            !.uv = r.uv, !.parity = r.parity]

RECURSIVE AsmLoop(_, _, _, _)
RECURSIVE AsmPublished(_, _, _, _)
AsmLoop(s, h, threshold, b) == IF HeadError(h) THEN [s EXCEPT !.error = TRUE] ELSE AsmPublished(Publish(s, h), h, threshold, b)
AsmPublished(s, h, threshold, b) ==
  IF ExitFlag(h) THEN s
  ELSE IF s.iter >= b.iterations THEN [s EXCEPT !.error = TRUE]
  ELSE LET r == AsmGcd128(h.ab, h.end >= 2, h.threshold, b)
       IN  IF r.iter = 0 THEN [s EXCEPT !.error = TRUE]
           ELSE LET next == Multiplied(s, r)
                    ab == next.bufs[BufferOf(s.iter)]
                IN  AsmLoop(next, HeadsOf(ab, threshold, UpdateEndIndex(ab[1], s.end)), threshold, b)

\* The wrapper of threading.h: the second buffer is not initialised, the
\* index of the result follows the parity of the last iteration.
AsmGcdUnsigned(ab, threshold, counterStart, b) ==
  LET s == [bufs |-> <<ab, <<Word^Limbs - 1, 1>>>>, iter |-> -1, end |-> UpdateEndIndex(ab[1], Limbs - 1),
            counter |-> counterStart - 2, counterStart |-> counterStart, uv |-> Identity, parity |-> 0,
            entries |-> <<>>, error |-> FALSE]
  IN  AsmLoop(s, HeadsOf(ab, threshold, s.end), threshold, b)
AsmResult(s) == s.bufs[BufferOf(s.iter - 1)]

\* gcd_uv_entry::matrix_multiply
MatrixMultiply(ab, e) ==
  IF e.parity = 0 THEN <<ab[1] * e.uv[1][1] - ab[2] * e.uv[1][2], ab[2] * e.uv[2][2] - ab[1] * e.uv[2][1]>>
  ELSE <<ab[2] * e.uv[1][2] - ab[1] * e.uv[1][1], ab[1] * e.uv[2][1] - ab[2] * e.uv[2][2]>>
AllMultiplied(ab, entries) == FoldLeft(MatrixMultiply, ab, Tail(entries))
=============================================================================
