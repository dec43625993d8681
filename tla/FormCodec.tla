----------------------------- MODULE FormCodec -----------------------------
(***************************************************************************)
(* The compressed encoding of forms of bqfc.c, which every proof that      *)
(* leaves chiavdf is written in.  The sizes of the fields follow from the  *)
(* length of the discriminant and from the greatest common divisor that is *)
(* taken out; a byte has ByteBits bits, so that small discriminants fill   *)
(* the fields.  Flags are a set, the rest of the string is bytes.          *)
(***************************************************************************)
EXTENDS Nucomp, SequencesExt

CONSTANTS
  ByteBits,   \* the length of a byte
  FormSize    \* BQFC_FORM_SIZE

Byte == 2^ByteBits

\* d_bits rounded up to four bytes.
RoundedBits(D) == ((Bits(D) + 4 * ByteBits - 1) \div (4 * ByteBits)) * (4 * ByteBits)
SizeA(D) == RoundedBits(D) \div (2 * ByteBits)
SizeT(D) == RoundedBits(D) \div (4 * ByteBits)
ComprSize(D) == (RoundedBits(D) \div (4 * ByteBits)) * 3 + 4

IntSqrt(n) == CHOOSE r \in 0 .. n : r * r <= n /\ (r + 1) * (r + 1) > n
PerfectSquare(n) == IntSqrt(n) * IntSqrt(n) = n

\* bqfc_compr: b is r / t modulo a with |r| and |t| about the root of a.
\* Mutant of ComprBy: the divisor that a and t share is not taken out of t.
ComprByKept(a, b, t, g) ==
  [a |-> a \div g, t |-> t, g |-> g, b0 |-> IF g = 1 THEN 0 ELSE Magnitude(b) \div (a \div g), neg |-> b < 0]

ComprBy(a, b, t, g) ==
  [a |-> a \div g, t |-> TruncDiv(t, g), g |-> g,
   b0 |-> IF g = 1 THEN 0 ELSE Magnitude(b) \div (a \div g), neg |-> b < 0]

ComprWith(a, b, t) == ComprBy(a, b, t, Gcd(a, t))

Compr(a, b) ==
  IF a = b THEN [a |-> a, t |-> 0, g |-> 0, b0 |-> 0, neg |-> FALSE]
  ELSE ComprWith(a, b, -XgcdPartial(a, Magnitude(b), IntSqrt(a)).co1)

Failed == [ok |-> FALSE]

\* bqfc_decompr: b is recovered from the root of its square.
DecomprWith(c, inverse, square) ==
  LET b == ((IntSqrt(square) * (inverse.s % c.a)) % c.a) + (IF c.b0 > 0 THEN c.a * c.b0 ELSE 0)
  IN  IF inverse.g # 1 \/ ~PerfectSquare(square) THEN Failed
      ELSE [ok |-> TRUE, a |-> IF c.g > 1 THEN c.a * c.g ELSE c.a, b |-> IF c.neg THEN -b ELSE b]

Decompr(D, c) ==
  IF c.t = 0 THEN [ok |-> TRUE, a |-> c.a, b |-> c.a]
  ELSE IF c.a = 0 THEN Failed
  ELSE DecomprWith(c, GcdExt(IF c.t < 0 THEN c.t + c.a ELSE c.t, c.a),
                   (((c.t * c.t) % c.a) * (D % c.a)) % c.a)

-----------------------------------------------------------------------------
(* Strings: [flags, bytes].                                                *)

\* bqfc_export: what does not fit is overwritten by the next field.
Export(n, size) == [i \in 1 .. size |-> (n \div Byte^(i - 1)) % Byte]
Import(bytes) == FoldRight(LAMBDA d, n : n * Byte + d, bytes, 0)
Fits(n, size) == n < Byte^size

SizeG(c) == LET bits == IF c.g = 0 THEN 1 ELSE Bits(c.g) IN (bits + ByteBits - 1) \div ByteBits - 1

\* bqfc_serialize_only
SerializeOnly(c, D) ==
  LET g == SizeG(c)
  IN  [flags |-> (IF c.neg THEN {"B_SIGN"} ELSE {}) \cup (IF c.t < 0 THEN {"T_SIGN"} ELSE {}),
       bytes |-> <<g>> \o Export(c.a, SizeA(D) - g) \o Export(Magnitude(c.t), SizeT(D) - g)
                 \o Export(c.g, g + 1) \o Export(c.b0, g + 1)]

\* The fields are wide enough: nothing is overwritten.
FieldsFit(c, D) ==
  LET g == SizeG(c)
  IN  /\ g < SizeT(D) /\ Fits(c.a, SizeA(D) - g) /\ Fits(Magnitude(c.t), SizeT(D) - g)
      /\ Fits(c.b0, g + 1)

\* bqfc_deserialize_only
DeserializeOnly(str, D) ==
  LET g == str.bytes[1]
      at1 == 1 + SizeA(D) - g
      at2 == at1 + SizeT(D) - g
      t == Import(SubSeq(str.bytes, at1 + 1, at2))
  IN  [a |-> Import(SubSeq(str.bytes, 2, at1)), t |-> IF "T_SIGN" \in str.flags THEN -t ELSE t,
       g |-> Import(SubSeq(str.bytes, at2 + 1, at2 + g + 1)),
       b0 |-> Import(SubSeq(str.bytes, at2 + g + 2, at2 + 2 * g + 2)),
       neg |-> "B_SIGN" \in str.flags]

Zeros(n) == [i \in 1 .. n |-> 0]

\* bqfc_serialize
Serialize(a, b, D) ==
  IF b = 1 /\ a <= 2 THEN [flags |-> {IF a = 2 THEN "IS_GEN" ELSE "IS_1"}, bytes |-> Zeros(FormSize - 1)]
  ELSE LET str == SerializeOnly(Compr(a, b), D)
       IN  [str EXCEPT !.bytes = @ \o Zeros(FormSize - ComprSize(D))]

\* bqfc_verify_canon
VerifyCanon(form, D, str) == form.ok /\ Serialize(form.a, form.b, D) = str

\* bqfc_deserialize
IfCanonical(form, D, str) == IF VerifyCanon(form, D, str) THEN form ELSE Failed

Deserialize(D, str) ==
  IF str.flags \cap {"IS_1", "IS_GEN"} # {}
  THEN [ok |-> TRUE, a |-> IF "IS_GEN" \in str.flags THEN 2 ELSE 1, b |-> 1]
  ELSE IF str.bytes[1] >= SizeT(D) THEN Failed
  ELSE IfCanonical(Decompr(D, DeserializeOnly(str, D)), D, str)

\* SerializeForm and DeserializeForm of proof_common.h.
SerializeReduced(r, D) == Serialize(r[1], r[2], D)
SerializeForm(y, D) == SerializeReduced(Reduce(y), D)

FormIfValid(s, D) ==
  IF s.ok /\ s.a > 0 /\ (s.b * s.b - D) % (4 * s.a) = 0 /\ IsReduced(FromAbd(s.a, s.b, D))
  THEN [ok |-> TRUE, form |-> FromAbd(s.a, s.b, D)] ELSE Failed

DeserializeForm(D, str) == FormIfValid(Deserialize(D, str), D)
=============================================================================
