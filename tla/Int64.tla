------------------------------- MODULE Int64 -------------------------------
(***************************************************************************)
(* The compiler's helpers for long integers, klib/src/int64.c, for words   *)
(* of any width: a su_int has U bits, a du_int is a pair of them.  Signed  *)
(* numbers are their two's complement.                                     *)
(***************************************************************************)
EXTENDS Integers, Sequences, SequencesExt, Bitwise, Null

CONSTANTS
  WordBits,     \* n_uword_bits of the division
  CountBits     \* the width the bit counts are tried with

VARIABLE result
int64vars == <<result>>

Bool(p) == IF p THEN 1 ELSE 0
Wide(U, high, low) == high * 2^U + low
Lsh(U, x, n) == (x * 2^n) % 2^U
Rsh(x, n) == x \div 2^n

(* The steps of the two binary searches: half the word, down to 2 bits. *)
Halves(U) == [i \in 1 .. (CHOOSE k \in 0 .. U : 2^k = U) - 1 |-> U \div 2^i]

(* t is h when the upper h bits of the part still looked at are 0. *)
clzsi2(U, a) ==
  LET Step(s, h) == LET t == Bool(Rsh(s.x, h) = 0) * h
                    IN  [x |-> Rsh(s.x, h - t), r |-> s.r + t]
      s == FoldLeft(Step, [x |-> a, r |-> 0], Halves(U))
  IN  s.r + Bool(s.x & 2 = 0) * (2 - s.x)

Mask(h) == 2^h - 1

ctzsi2(U, a) ==
  LET Step(s, h) == LET t == Bool(s.x & Mask(h) = 0) * h
                    IN  [x |-> Rsh(s.x, t), r |-> s.r + t]
      s == FoldLeft(Step, [x |-> a, r |-> 0], Halves(U))
      x == s.x & 3
  IN  s.r + Bool(x & 1 = 0) * (2 - Rsh(x, 1))

clzdi2(U, a) ==
  LET high == Rsh(a, U)
  IN  IF high = 0 THEN clzsi2(U, a % 2^U) + U ELSE clzsi2(U, high)

ctzdi2(U, a) ==
  LET low == a % 2^U
  IN  IF low = 0 THEN ctzsi2(U, Rsh(a, U)) + U ELSE ctzsi2(U, low)

----------------------------------------------------------------------------
QR(q, r) == [q |-> q, r |-> r]

Borrow_Bug(D, d, r) == Rsh((d - r) % 2^D, D - 1)

(* d - r - 1 is negative, as a signed number, when d fits in r. *)
Borrow(D, d, r) == Rsh((d - r - 1) % 2^D, D - 1)

(* The shift-and-subtract loop, sr times over the pair r:q, and the last   *)
(* carry shifted in.                                                       *)
LongDivision(U, d, sr, q, r) ==
  LET D == 2 * U
      Step(s, i) == LET r1 == (2 * s.r + Rsh(s.q, D - 1)) % 2^D
                        carry == Borrow(D, d, r1)
                    IN  [q |-> (2 * s.q + s.carry) % 2^D,
                         r |-> (r1 - carry * d) % 2^D, carry |-> carry]
      s == FoldLeft(Step, [q |-> q, r |-> r, carry |-> 0], [i \in 1 .. sr |-> i])
  IN  QR((2 * s.q + s.carry) % 2^D, s.r)

(* n.all << (n_udword_bits - sr) and n.all >> sr by halves, for 0 < sr < U *)
Below(U, d, nh, nl, sr) ==
  LongDivision(U, d, sr, Wide(U, Lsh(U, nl, U - sr), 0),
               Wide(U, Rsh(nh, sr), Lsh(U, nh, U - sr) | Rsh(nl, sr)))

(* The same for sr = U. *)
At(U, d, nh, nl) == LongDivision(U, d, U, Wide(U, nl, 0), nh)

(* The dividend has no high word. *)
SmallDividend(nl, dh, dl) == IF dh = 0 THEN QR(nl \div dl, nl % dl) ELSE QR(0, nl)

(* The divisor has no low word, and a high one. *)
HighDivisor(U, d, nh, nl, dh) ==
  LET sr == (clzsi2(U, dh) - clzsi2(U, nh)) % 2^U
  IN  CASE nl = 0 -> QR(nh \div dh, Wide(U, nh % dh, 0))
        [] nl # 0 /\ dh & (dh - 1) = 0 ->
             QR(Rsh(nh, ctzsi2(U, dh)), Wide(U, nh & (dh - 1), nl))
        [] nl # 0 /\ dh & (dh - 1) # 0 /\ sr > U - 2 -> QR(0, Wide(U, nh, nl))
        [] OTHER -> Below(U, d, nh, nl, sr + 1)

(* The divisor has a low word only. *)
LowDivisor(U, d, nh, nl, dl) ==
  LET sr == 1 + U + clzsi2(U, dl) - clzsi2(U, nh)
      tz == ctzsi2(U, dl)
  IN  CASE dl = 1 -> QR(Wide(U, nh, nl), 0)
        [] dl # 1 /\ dl & (dl - 1) = 0 ->
             QR(Wide(U, Rsh(nh, tz), Lsh(U, nh, U - tz) | Rsh(nl, tz)), nl & (dl - 1))
        [] dl & (dl - 1) # 0 /\ sr = U -> At(U, d, nh, nl)
        [] dl & (dl - 1) # 0 /\ sr < U -> Below(U, d, nh, nl, sr)
        [] OTHER ->
             LongDivision(U, d, sr,
                          Wide(U, Lsh(U, nh, 2 * U - sr) | Rsh(nl, sr - U), Lsh(U, nl, 2 * U - sr)),
                          Rsh(nh, sr - U))

(* The divisor has both. *)
FullDivisor(U, d, nh, nl, dh) ==
  LET sr == (clzsi2(U, dh) - clzsi2(U, nh)) % 2^U
  IN  CASE sr > U - 1 -> QR(0, Wide(U, nh, nl))
        [] sr = U - 1 -> At(U, d, nh, nl)
        [] OTHER      -> Below(U, d, nh, nl, sr + 1)

(* Called with b # 0: the code divides a word by 0 on purpose otherwise. *)
udivmoddi4(U, a, b) ==
  LET nh == Rsh(a, U)  nl == a % 2^U  dh == Rsh(b, U)  dl == b % 2^U
  IN  CASE nh = 0            -> SmallDividend(nl, dh, dl)
        [] nh # 0 /\ dl = 0  -> HighDivisor(U, b, nh, nl, dh)
        [] nh # 0 /\ dl # 0 /\ dh = 0 -> LowDivisor(U, b, nh, nl, dl)
        [] OTHER             -> FullDivisor(U, b, nh, nl, dh)

(* (x ^ s) - s, s being the sign: the negation if it is set. *)
Signed(D, x, sign) == (IF sign = 1 THEN -x ELSE x) % 2^D

divdi3(U, a, b) ==
  LET D == 2 * U  sa == Rsh(a, D - 1)  sb == Rsh(b, D - 1)
  IN  Signed(D, udivmoddi4(U, Signed(D, a, sa), Signed(D, b, sb)).q, (sa + sb) % 2)

moddi3(U, a, b) ==
  LET D == 2 * U  sa == Rsh(a, D - 1)  sb == Rsh(b, D - 1)
  IN  Signed(D, udivmoddi4(U, Signed(D, a, sa), Signed(D, b, sb)).r, sa)

(* The remainder of __divmoddi4, which does not call __moddi3. *)
divmoddi4(U, a, b) == LET d == divdi3(U, a, b) IN QR(d, (a - d * b) % 2^(2 * U))

----------------------------------------------------------------------------
Answer(op, a, b, q, r) == [op |-> op, a |-> a, b |-> b, q |-> q, r |-> r]

Int64Init == result = NULL

(* One call of a helper: __udivdi3 and __umoddi3 return a half each. *)
Int64Next ==
  /\ result = NULL
  /\ \/ \E a \in 0 .. 2^(2 * WordBits) - 1, b \in 1 .. 2^(2 * WordBits) - 1 :
          \/ LET u == udivmoddi4(WordBits, a, b)
             IN  result' = Answer("unsigned", a, b, u.q, u.r)
          \/ result' = Answer("signed", a, b, divmoddi4(WordBits, a, b), moddi3(WordBits, a, b))
     \/ \E a \in 1 .. 2^(2 * CountBits) - 1 :
          result' = Answer("bits", a, 0, clzdi2(CountBits, a), ctzdi2(CountBits, a))

----------------------------------------------------------------------------
Two(D, x) == IF x < 2^(D - 1) THEN x ELSE x - 2^D
Mag(x) == IF x < 0 THEN -x ELSE x

(* Every quotient and remainder of two-word numbers is the one C defines:  *)
(* the unsigned ones are the integer ones; the signed ones round towards 0,*)
(* and the one that overflows (the least number by -1) wraps.  The counts  *)
(* they start from are the positions of the highest and of the lowest bit. *)
(* A normalisation that is off by one shows only for some of the pairs of  *)
(* leading zeros of dividend and divisor.                                  *)
Counted(D, a, high, low) ==
  LET One == {i \in 0 .. D - 1 : Rsh(a, i) % 2 = 1}
  IN  {D - 1 - high, low} \subseteq One /\ \A i \in One : low <= i /\ i <= D - 1 - high
DivMod ==
  result # NULL =>
    LET D == 2 * WordBits
        a == result.a  b == result.b
        x == Two(D, a)  y == Two(D, b)
        q == (IF (x < 0) = (y < 0) THEN 1 ELSE -1) * (Mag(x) \div Mag(y))
    IN  CASE result.op = "unsigned" -> result.q = a \div b /\ result.r = a % b
          [] result.op = "signed" -> /\ result.q = QR(q % 2^D, (x - q * y) % 2^D)
                                     /\ result.r = (x - q * y) % 2^D
          [] result.op = "bits" -> Counted(2 * CountBits, a, result.q, result.r)
=============================================================================
