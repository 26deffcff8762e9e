-------------------------------- MODULE Q4Codec --------------------------------
(***************************************************************************)
(* The number formats of the 4-bit KV pool: e2m1 codes and e4m3 scales,    *)
(* written once in torch (minimax_q4kv_reference.py) and once in a kernel  *)
(* (minimax_q4kv_kernels.py).  The write kernel must leave the bytes the   *)
(* reference leaves, and a reader must get the value nearest to what was   *)
(* written.                                                                *)
(*                                                                         *)
(* Numbers are integers: magnitudes of scales count units of 2^-9 /        *)
(* 2^Extra, those of quotients eighths.  NaN is left out.                  *)
(***************************************************************************)
EXTENDS Integers, Sequences, FiniteSets

CONSTANTS
    Extra,      \* bits of an input scale below the smallest step of e4m3
    FloatBits,  \* significant bits of a working float (24)
    Quotients,  \* magnitudes |x / s| to try, in eighths
    Exponents   \* of the input scales to try

ASSUME CodecAssumption ==
    /\ Extra \in Nat \ {0} /\ FloatBits \in Nat \ {0, 1}
    /\ Quotients \subseteq Nat /\ Exponents \subseteq Nat

Log2(n) == CHOOSE k \in 0..n : 2^k <= n /\ n < 2^(k + 1)
\* the floats of a binade, and of those to try
Binade(bits, e) == {m * 2^e : m \in 2^(bits - 1)..(2^bits - 1)}
Inputs == {0} \cup UNION {Binade(FloatBits, e) : e \in Exponents}

--------------------------------------------------------------------------------
\* e4m3: a scale byte.

MaxCode == 126  \* 448, the largest finite code

E4m3Decode(byte) ==
    LET exp == byte \div 8
        man == byte % 8
    IN  IF exp = 0 THEN man ELSE (man + 8) * 2^(exp - 1)

\* Round half to even.
RoundEven(n, step) ==
    LET whole == n \div step
        rest  == n % step
    IN  whole + IF 2 * rest > step \/ (2 * rest = step /\ whole % 2 = 1) THEN 1 ELSE 0

\* e4m3_encode_satfinite: the exponent field, after a mantissa that rounds up
\* to 8 has carried into it, says whether the code is normal or not.
E4m3Encode(n) ==
    LET lead   == Log2(n)
        field  == lead - Extra - 2
        m3     == RoundEven(n, 2^(lead - 3)) - 8
        carry  == IF field >= 0 /\ m3 = 8 THEN 1 ELSE 0
        e8     == field + carry
        normal == e8 * 8 + IF carry = 1 THEN 0 ELSE m3
    IN  IF n = 0 \/ e8 <= 0 THEN RoundEven(n, 2^Extra)
        ELSE IF e8 <= 15 /\ normal # 127 THEN normal
        ELSE MaxCode

\* _e4m3_mag_code of the kernel, which rounds both mantissas by hand.
E4m3MagCode(n) ==
    LET lead  == IF n = 0 THEN 0 ELSE Log2(n)
        step  == IF lead < 3 THEN 1 ELSE 2^(lead - 3)
        m3    == n \div step - 8
        up    == \/ 2 * (n % step) > step
                 \/ 2 * (n % step) = step /\ m3 % 2 = 1
        man   == IF up THEN m3 + 1 ELSE m3
        e8    == lead - Extra - 2 + IF man = 8 THEN 1 ELSE 0
        t     == n \div 2^Extra
        frac  == n % 2^Extra
        inc   == 2 * frac > 2^Extra \/ (2 * frac = 2^Extra /\ t % 2 = 1)
    IN  IF e8 <= 0 THEN (IF inc THEN t + 1 ELSE t)
        ELSE IF e8 > 15 \/ (e8 = 15 /\ man % 8 = 7) THEN MaxCode
        ELSE e8 * 8 + (man % 8)

--------------------------------------------------------------------------------
\* e2m1: a nibble.

Thresholds == <<2, 6, 10, 14, 20, 28, 40>>

\* the lower threshold of a code that is even takes its tie, the upper does not
E2m1Code(q) == Cardinality({i \in 1..7 : IF i % 2 = 1 THEN q > Thresholds[i] ELSE q >= Thresholds[i]})

\* the kernel's ladder
E2m1CodeKernel(q) ==
    LET one(b) == IF b THEN 1 ELSE 0
    IN  one(q > 2) + one(q >= 6) + one(q > 10) + one(q >= 14) + one(q > 20) + one(q >= 28) + one(q > 40)

\* e2m1_decode of the reference, in halves, of a nibble's code
E2m1Decode(code) ==
    IF code < 2 THEN code ELSE 2^(code \div 2 - 1) * (2 + (code % 2))

E2m1DecodeKernel(nib) ==
    LET code == nib % 8
        mag  == IF code < 2 THEN code ELSE 2^(code \div 2 - 1) * (2 + (code % 2))
    IN  IF nib >= 8 THEN -mag ELSE mag

\* byte_pair_lut: the two values of a byte
BytePair == [byte \in 0..255 |->
    LET of(n) == IF n >= 8 THEN -E2m1Decode(n - 8) ELSE E2m1Decode(n)
    IN  <<of(byte % 16), of(byte \div 16)>>]

--------------------------------------------------------------------------------
\* The quotient: a product rounded toward zero, made of one rounded to nearest.

Abs(n) == IF n < 0 THEN -n ELSE n
Sign(n) == IF n < 0 THEN -1 ELSE IF n = 0 THEN 0 ELSE 1

\* a float nearest to n, and the float below a magnitude
ToNearest(n) ==
    LET a == Abs(n)
        step == IF a < 2^FloatBits THEN 1 ELSE 2^(Log2(a) + 1 - FloatBits)
    IN  Sign(n) * RoundEven(a, step) * step
\* (an even number that fills its binade has the step of the binade below)
Below(a) ==
    LET lead == Log2(a)
        step == IF lead < FloatBits THEN 1 ELSE 2^(lead + 1 - FloatBits)
    IN  IF a = 2^lead /\ step > 1 THEN a - step \div 2 ELSE a - step

\* Variant: the comparison does not look at the sign of the product.
RzProductSigned(x, c) ==
    LET p == ToNearest(x * c) IN IF p > x * c THEN Sign(p) * Below(Abs(p)) ELSE p

\* rz_rounded_product
RzProduct(x, c) ==
    LET p == ToNearest(x * c)
    IN  IF (p - x * c) * Sign(x * c) > 0 THEN Sign(p) * Below(Abs(p)) ELSE p

\* _rz_product of the kernel: the bit pattern less one.
RzProductKernel(x, c) ==
    LET p    == ToNearest(x * c)
        sign == IF x * c < 0 THEN -1 ELSE 1
        away == (p - x * c) * sign > 0
        bits == [mag |-> Below(Abs(p)), negative |-> p < 0]
    IN  IF away THEN (IF bits.negative THEN -bits.mag ELSE bits.mag) ELSE p

--------------------------------------------------------------------------------
\* A row: pairs of quotients in a byte, the even one low.

Nibble(q) == LET code == E2m1Code(Abs(q)) IN IF code = 0 THEN 0 ELSE IF q < 0 THEN code + 8 ELSE code
PackPair(q, r) == Nibble(q) + 16 * Nibble(r)
UnpackPair(byte) == BytePair[byte]

\* the kernel adds the nibbles with the weights 1 and 16, and reads them by hand
NibbleKernel(q) ==
    LET code == E2m1CodeKernel(Abs(q))
        sign == IF q < 0 THEN 1 ELSE 0
    IN  IF code = 0 THEN 0 ELSE code + 8 * sign
PackPairKernel(q, r) == LET weight == <<1, 16>> IN NibbleKernel(q) * weight[1] + NibbleKernel(r) * weight[2]
UnpackPairKernel(byte) == <<E2m1DecodeKernel(byte % 16), E2m1DecodeKernel(byte \div 16)>>

--------------------------------------------------------------------------------
\* The code of a format whose value is nearest to n, a tie going to the even code.
IsNearest(code, n, codes, Value(_)) ==
    \A c \in codes : \/ Abs(Value(code) - n) < Abs(Value(c) - n)
                     \/ Abs(Value(code) - n) = Abs(Value(c) - n) /\ (c = code \/ code % 2 = 0)

\* The torch conversions and the kernel's agree, on both sides of every
\* boundary (subnormal to normal, a mantissa that carries, saturation), and
\* are the nearest value, ties to even; a product is cut toward zero for both
\* signs; a byte gives back both its elements in their places, and no -0 is
\* stored; value times scale has at most 8 significant bits, so that the two
\* ways to bf16 are one.  (minimax_q4kv_reference.py:122-347, 795-826)
ConversionsRound ==
    /\ \A n \in Inputs :
          /\ E4m3Encode(n) = E4m3MagCode(n)
          /\ IsNearest(E4m3Encode(n), n, 0..MaxCode, LAMBDA c : E4m3Decode(c) * 2^Extra)
    /\ \A q \in Quotients :
          /\ E2m1Code(q) = E2m1CodeKernel(q)
          /\ IsNearest(E2m1Code(q), q, 0..7, LAMBDA c : 4 * E2m1Decode(c))
    /\ \A x \in Binade(FloatBits, 0), c \in Binade(FloatBits, 0), sign \in {-1, 1} :
          LET step == 2^(Log2(x * c) + 1 - FloatBits)
          IN  /\ RzProduct(sign * x, c) = sign * ((x * c) \div step) * step
              /\ RzProductKernel(sign * x, c) = RzProduct(sign * x, c)
    /\ \A q, r \in {s * m : s \in {-1, 1}, m \in Quotients} :
          LET byte == PackPair(q, r)
              value(n) == Sign(n) * E2m1Decode(E2m1Code(Abs(n)))
          IN  /\ PackPairKernel(q, r) = byte
              /\ UnpackPair(byte) = <<value(q), value(r)>>
              /\ UnpackPairKernel(byte) = UnpackPair(byte)
              /\ 8 \notin {byte % 16, byte \div 16}
    /\ \A code \in 1..7, byte \in 1..MaxCode :
          LET product == E2m1Decode(code) * E4m3Decode(byte)
          IN  \E k \in 0..Log2(product) : product % 2^k = 0 /\ product \div 2^k < 2^8
================================================================================
