-------------------------------- MODULE BigInt --------------------------------
(***************************************************************************)
(* Integers of any size (src/vm/bigint.c): a sign and limbs, the least     *)
(* significant first.  A limb holds Digits decimal digits, nine in the     *)
(* code; every algorithm is the code's, limb by limb.  Allocations succeed.*)
(* A loop that carries something from limb to limb is a recursive function *)
(* of the limb's index.                                                    *)
(***************************************************************************)
EXTENDS Integers, Sequences, FiniteSetsExt

CONSTANTS
    Digits,     \* decimal digits of a limb
    Wide,       \* the values of a product of limbs: 2^64
    ByteValues, \* the values of a byte: 256
    SizeMax     \* SIZE_MAX

BASE == 10 ^ Digits

\* A limb holds more than a byte, a size more than a limb, and the product of two
\* limbs with both carries just fits.
ASSUME BigIntAssumption ==
    /\ {Digits, Wide, ByteValues, SizeMax} \subseteq Nat \ {0}
    /\ 10 < ByteValues /\ ByteValues < BASE /\ BASE <= SizeMax /\ BASE * BASE <= Wide

Bigs == [sign : {-1, 0, 1}, limbs : Seq(Nat)]
Big(sign, limbs) == [sign |-> sign, limbs |-> limbs]
Zero == Big(0, <<>>)

\* Leading zero limbs go, and zero has no sign.
normalize(v) ==
    LET len == Max({0} \cup {i \in DOMAIN v.limbs : v.limbs[i] # 0})
    IN  Big(IF len = 0 THEN 0 ELSE v.sign, SubSeq(v.limbs, 1, len))

Limb(v, i) == IF i \in DOMAIN v.limbs THEN v.limbs[i] ELSE 0

pn_big_from_u64(n) ==
    LET limbs[rest \in Nat] == IF rest = 0 THEN <<>> ELSE <<rest % BASE>> \o limbs[rest \div BASE]
    IN  IF n = 0 THEN Zero ELSE Big(1, limbs[n])

pn_big_mul_small(v, factor) ==
    LET carry[i \in Nat] == IF i = 0 THEN 0 ELSE ((v.limbs[i] * factor + carry[i - 1]) % Wide) \div BASE
        low == [i \in DOMAIN v.limbs |-> ((v.limbs[i] * factor + carry[i - 1]) % Wide) % BASE]
        last == carry[Len(v.limbs)]
    IN  CASE v.sign = 0 \/ factor = 1 -> v
          [] factor = 0 /\ v.sign # 0 -> Zero
          [] OTHER -> Big(v.sign, IF last = 0 THEN low ELSE Append(low, last))

\* On a value that is not negative; the loop ends with the carry.
pn_big_add_small(v, addend) ==
    LET carry[i \in Nat] == IF i = 0 THEN addend ELSE (v.limbs[i] + carry[i - 1]) \div BASE
        low == [i \in DOMAIN v.limbs |-> (v.limbs[i] + carry[i - 1]) % BASE]
        last == carry[Len(v.limbs)]
    IN  CASE addend = 0 -> v
          [] addend # 0 /\ v.sign = 0 -> pn_big_from_u64(addend)
          [] OTHER -> Big(v.sign, IF last = 0 THEN low ELSE Append(low, last))

\* The number a sequence of bytes stands for, the most significant first.
pn_big_from_bytes(bytes) ==
    LET value[i \in Nat] ==
            IF i = 0 THEN Zero
            ELSE pn_big_add_small(pn_big_mul_small(value[i - 1], ByteValues), bytes[i])
    IN  value[Len(bytes)]

\* The number a sequence of digits stands for.
pn_big_from_digits(digits, sign) ==
    LET value[i \in Nat] ==
            IF i = 0 THEN Zero ELSE pn_big_add_small(pn_big_mul_small(value[i - 1], 10), digits[i])
        v == value[Len(digits)]
    IN  IF v.limbs = <<>> THEN v ELSE [v EXCEPT !.sign = IF sign < 0 THEN -1 ELSE 1]

\* The digits of the text, the first limb without leading zeros and the others
\* padded to their width; the minus sign is the sign.
pn_big_string(v) ==
    LET plain[n \in Nat] == IF n < 10 THEN <<n>> ELSE Append(plain[n \div 10], n % 10)
        padded(n) == [k \in 1 .. Digits |-> n \div 10 ^ (Digits - k) % 10]
        text[i \in Nat] ==
            IF i = Len(v.limbs) THEN plain[v.limbs[i]] ELSE text[i + 1] \o padded(v.limbs[i])
    IN  IF v.sign = 0 THEN <<0>> ELSE text[1]

Sign(n) == IF n < 0 THEN -1 ELSE IF n = 0 THEN 0 ELSE 1

abs_compare(a, b) ==
    LET differ == {i \in DOMAIN a.limbs : a.limbs[i] # b.limbs[i]}
    IN  IF Len(a.limbs) # Len(b.limbs) THEN Sign(Len(a.limbs) - Len(b.limbs))
        ELSE IF differ = {} THEN 0
        ELSE Sign(a.limbs[Max(differ)] - b.limbs[Max(differ)])

pn_big_compare(a, b) ==
    IF a.sign # b.sign THEN Sign(a.sign - b.sign)
    ELSE IF a.sign < 0 THEN -abs_compare(a, b) ELSE abs_compare(a, b)

abs_add(a, b) ==
    LET count == Max({Len(a.limbs), Len(b.limbs)})
        carry[i \in Nat] == IF i = 0 THEN 0 ELSE (carry[i - 1] + Limb(a, i) + Limb(b, i)) \div BASE
        low == [i \in 1 .. count |-> (carry[i - 1] + Limb(a, i) + Limb(b, i)) % BASE]
    IN  normalize(Big(0, Append(low, carry[count])))

\* Mutant: the borrow stops at the limb that borrowed.
abs_sub_once(a, b) ==
    LET diff(i) == a.limbs[i] - Limb(b, i)
    IN  normalize(Big(0, [i \in DOMAIN a.limbs |-> diff(i) % BASE]))

\* For a no smaller than b in magnitude.
abs_sub(a, b) ==
    LET borrow[i \in Nat] == IF i = 0 \/ a.limbs[i] - Limb(b, i) - borrow[i - 1] >= 0 THEN 0 ELSE 1
        diff(i) == a.limbs[i] - Limb(b, i) - borrow[i - 1]
    IN  normalize(Big(0, [i \in DOMAIN a.limbs |-> IF diff(i) < 0 THEN diff(i) + BASE ELSE diff(i)]))

\* The magnitude has no sign yet, since normalize only ever clears it.
WithSign(v, sign) == [v EXCEPT !.sign = sign]

pn_big_add(a, b) ==
    LET cmp == abs_compare(a, b)
    IN  CASE a.sign = 0 -> b
          [] a.sign # 0 /\ b.sign = 0 -> a
          [] a.sign = b.sign /\ a.sign # 0 -> WithSign(abs_add(a, b), a.sign)
          [] a.sign = -b.sign /\ a.sign # 0 ->
                IF cmp = 0 THEN Zero
                ELSE IF cmp > 0 THEN WithSign(abs_sub(a, b), a.sign)
                ELSE WithSign(abs_sub(b, a), b.sign)

pn_big_sub(a, b) == pn_big_add(a, WithSign(b, -b.sign))

\* The product of limb i of a and all of b is added into out.
MulRow(out, a, b, i) ==
    LET term(k) == a.limbs[i] * Limb(b, k - i + 1)
        carry[k \in Nat] == IF k < i THEN 0 ELSE ((out[k] + term(k) + carry[k - 1]) % Wide) \div BASE
    IN  [k \in DOMAIN out |-> IF k < i THEN out[k] ELSE ((out[k] + term(k) + carry[k - 1]) % Wide) % BASE]

pn_big_mul(a, b) ==
    LET size == Len(a.limbs) + Len(b.limbs)
        rows[i \in Nat] == IF i = 0 THEN [k \in 1 .. size |-> 0] ELSE MulRow(rows[i - 1], a, b, i)
    IN  IF a.sign = 0 \/ b.sign = 0 THEN Zero
        ELSE normalize(Big(a.sign * b.sign, rows[Len(a.limbs)]))

\* The quotient, and the remainder, of a positive number smaller than a limb.
pn_big_div_small(v, divisor) ==
    LET rest[i \in Nat] ==
            IF i > Len(v.limbs) THEN 0 ELSE (rest[i + 1] * BASE + v.limbs[i]) % divisor
    IN  [quotient |-> normalize(Big(v.sign, [i \in DOMAIN v.limbs |->
                                                (rest[i + 1] * BASE + v.limbs[i]) \div divisor])),
         remainder |-> rest[1]]

shift_base_add(v, limb) ==
    IF v.limbs = <<>> /\ limb = 0 THEN v ELSE Big(1, <<limb>> \o v.limbs)

\* The largest limb whose product with b does not exceed r, by bisection.
QuotientLimb(b, r) ==
    LET fits(mid) == abs_compare(pn_big_mul_small(b, mid), r) <= 0
        search[lo \in Nat, hi \in Nat, best \in Nat] ==
            LET mid == lo + (hi - lo) \div 2
            IN  IF lo > hi THEN best
                ELSE IF fits(mid) THEN IF mid = BASE - 1 THEN mid ELSE search[mid + 1, hi, mid]
                ELSE IF mid = 0 THEN best ELSE search[lo, mid - 1, best]
    IN  search[0, BASE - 1, 0]

\* One limb of the quotient more, and what remains: r is what remained with the next
\* limb of the dividend.
DivideLimb(b, q, r, best) ==
    [q |-> <<best>> \o q, r |-> IF best = 0 THEN r ELSE abs_sub(r, pn_big_mul_small(b, best))]

\* The signs of a quotient and of a remainder.
Signed(a, b, end) ==
    [q |-> normalize(Big(a.sign * b.sign, end.q)),
     r |-> WithSign(end.r, IF end.r.limbs = <<>> THEN 0 ELSE a.sign)]

\* Long division, truncated towards zero: the remainder has the sign of a.
pn_big_divmod(a, b) ==
    LET divisor == WithSign(b, 1)
        next(q, r) == DivideLimb(divisor, q, r, QuotientLimb(divisor, r))
        brought(before, limb) == next(before.q, shift_base_add(before.r, limb))
        step[pos \in Nat] ==
            IF pos > Len(a.limbs) THEN [q |-> <<>>, r |-> Zero] ELSE brought(step[pos + 1], a.limbs[pos])
    IN  IF abs_compare(a, b) < 0 THEN [q |-> Zero, r |-> a] ELSE Signed(a, b, step[1])

pn_big_pow10(v, power) ==
    LET shifted[n \in Nat] == IF n = 0 THEN v ELSE pn_big_mul_small(shifted[n - 1], 10)
    IN  shifted[power]

pn_big_is_zero(v) == v.sign = 0

pn_big_is_one(v) == v = Big(1, <<1>>)

Unfit == -1

\* The value as a size_t, or Unfit.
pn_big_fits_size(v) ==
    LET size[i \in Nat] ==
            IF i > Len(v.limbs) THEN 0
            ELSE IF size[i + 1] = Unfit \/ size[i + 1] > (SizeMax - v.limbs[i]) \div BASE
            THEN Unfit
            ELSE size[i + 1] * BASE + v.limbs[i]
    IN  IF v.sign < 0 THEN Unfit ELSE size[1]

-----------------------------------------------------------------------------
(* What a big integer stands for, in terms of the integers.                 *)

Normal(v) ==
    /\ \A i \in DOMAIN v.limbs : v.limbs[i] \in 0 .. BASE - 1
    /\ v.limbs # <<>> => v.limbs[Len(v.limbs)] # 0
    /\ v.sign \in {-1, 0, 1} /\ (v.sign = 0 <=> v.limbs = <<>>)

Number(v) ==
    LET sum[i \in Nat] == IF i > Len(v.limbs) THEN 0 ELSE v.limbs[i] + BASE * sum[i + 1]
    IN  v.sign * sum[1]
===============================================================================
