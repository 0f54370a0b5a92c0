------------------------------- MODULE Numeric -------------------------------
(***************************************************************************)
(* Exact numbers (src/vm/numeric.c): Nat and Int are big integers, Dec a   *)
(* big coefficient with a power of ten, Rat a fraction in lowest terms.    *)
(* The result of an operation is a value or a trap.  Allocations succeed.  *)
(***************************************************************************)
EXTENDS BigInt

CONSTANT IntMax     \* the largest int: the exponent of a Dec is one

ASSUME NumericAssumption == IntMax \in Nat

\* The outcome of an int computation that overflows, on the machines it is built for.
Wrap(n) == ((n + IntMax + 1) % (2 * (IntMax + 1))) - (IntMax + 1)

Integer(kind, big) == [kind |-> kind, integer |-> big]
Decimal(coefficient, exponent) ==
    [kind |-> "Dec", coefficient |-> coefficient, exponent |-> exponent]
Rational(n, d) == [kind |-> "Rat", numerator |-> n, denominator |-> d]
Bool(b) == [kind |-> "Bool", boolean |-> b]
Unit == [kind |-> "Unit"]

\* A text of characters, or a word: a name or a message, known by its equality only.
Str(text) == [kind |-> "Str", text |-> text, word |-> ""]
Word(word) == [kind |-> "Str", text |-> <<>>, word |-> word]


\* A fault of kind "request" costs a server the request, "fatal" the server.
Trap(error, fault) == [kind |-> "Trap", error |-> error, fault |-> fault]
DivisionByZero == Trap("division by zero", "request")

One == pn_big_from_u64(1)
big_abs_copy(v) == WithSign(v, IF v.limbs = <<>> THEN 0 ELSE 1)

\* Euclid's algorithm, on magnitudes.
big_gcd(left, right) ==
    LET gcd[a \in Bigs, b \in Bigs] ==
            IF pn_big_is_zero(b) THEN a ELSE gcd[b, big_abs_copy(pn_big_divmod(a, b).r)]
    IN  gcd[big_abs_copy(left), big_abs_copy(right)]

-----------------------------------------------------------------------------
(* Decimals.                                                                *)

\* Both coefficients at the smaller of the two exponents.
decimal_align(a, b) ==
    LET exponent == IF a.exponent < b.exponent THEN a.exponent ELSE b.exponent
    IN  [left |-> pn_big_pow10(a.coefficient, a.exponent - exponent),
         right |-> pn_big_pow10(b.coefficient, b.exponent - exponent),
         exponent |-> exponent]

\* How often p divides v, and what is left.
DivideOut(v, p) ==
    LET out[w \in Bigs, n \in Nat] ==
            LET d == pn_big_div_small(w, p)
            IN  IF pn_big_is_one(w) \/ d.remainder # 0 THEN [rest |-> w, times |-> n]
                ELSE out[d.quotient, n + 1]
    IN  out[v, 0]

\* The shortest scale: trailing zeros after the point go.
ShortestScale(num, exponent) ==
    LET short[v \in Bigs, e \in Int] ==
            IF e < 0 /\ v.limbs[1] % 10 = 0 THEN short[pn_big_div_small(v, 10).quotient, e + 1]
            ELSE Decimal(v, e)
    IN  IF pn_big_is_zero(num) THEN Decimal(num, 0) ELSE short[num, exponent]

\* v times p to the n-th power.
TimesPower(v, p, n) ==
    LET times[k \in Nat] == IF k = 0 THEN v ELSE pn_big_mul_small(times[k - 1], p)
    IN  times[n]

\* num over a denominator of so many factors two and five, as a decimal.
Expanded(num, twos, fives, exponent) ==
    LET places == IF twos < fives THEN fives ELSE twos
    IN  ShortestScale(TimesPower(TimesPower(num, 2, places - twos), 5, places - fives), Wrap(exponent - places))

NonTerminating == Trap("non-terminating decimal division requires explicit rounding", "request")

\* Exact, or a trap: a reduced fraction has a finite expansion only when its
\* denominator has no prime factors but two and five.
ExpandedIfFinite(num, twos, fives, exponent) ==
    IF pn_big_is_one(fives.rest) THEN Expanded(num, twos.times, fives.times, exponent) ELSE NonTerminating

\* In lowest terms, the denominator positive.
DecimalQuotient(a, b) ==
    LET fives(num, twos) == ExpandedIfFinite(num, twos, DivideOut(twos.rest, 5), a.exponent - b.exponent)
        reduced(num, den) == fives(IF den.sign < 0 THEN WithSign(num, -num.sign) ELSE num,
                                   DivideOut(big_abs_copy(den), 2))
        over(gcd) == reduced(pn_big_divmod(a.coefficient, gcd).q, pn_big_divmod(b.coefficient, gcd).q)
    IN  over(big_gcd(a.coefficient, b.coefficient))

\* The remainder is truncated: it has the sign of a.
decimal_binary_classified(op, a, b) ==
    LET aligned == decimal_align(a, b)
        left == aligned.left
        right == aligned.right
    IN  CASE op = "+" -> Decimal(pn_big_add(left, right), aligned.exponent)
          [] op = "-" -> Decimal(pn_big_sub(left, right), aligned.exponent)
          [] op = "%" -> IF pn_big_is_zero(right) THEN DivisionByZero
                         ELSE Decimal(pn_big_divmod(left, right).r, aligned.exponent)
          [] op = "*" -> Decimal(pn_big_mul(a.coefficient, b.coefficient), Wrap(a.exponent + b.exponent))
          [] op = "/" -> IF pn_big_is_zero(b.coefficient) THEN DivisionByZero ELSE DecimalQuotient(a, b)

coefficient_digits(number) ==
    LET width[top \in Nat] == IF top < 10 THEN 1 ELSE 1 + width[top \div 10]
    IN  IF number.limbs = <<>> THEN 1
        ELSE (Len(number.limbs) - 1) * Digits + width[number.limbs[Len(number.limbs)]]

\* The digit at a position counted from the most significant, from 0.
coefficient_digit(number, digits, position) ==
    LET offset == digits - position - 1
    IN  IF position >= digits THEN 0
        ELSE number.limbs[offset \div Digits + 1] \div 10 ^ (offset % Digits) % 10

\* By magnitude, then digit by digit, the shorter coefficient padded with zeros.
decimal_compare(a, b) ==
    LET left == a.coefficient
        right == b.coefficient
        ld == coefficient_digits(left)
        rd == coefficient_digits(right)
        differ == {i \in 0 .. Max({ld, rd}) - 1 :
                      coefficient_digit(left, ld, i) # coefficient_digit(right, rd, i)}
        first == Min(differ)
    IN  IF left.sign # right.sign THEN Sign(left.sign - right.sign)
        ELSE IF left.sign = 0 THEN 0
        ELSE IF ld + a.exponent # rd + b.exponent
        THEN Sign(ld + a.exponent - (rd + b.exponent)) * left.sign
        ELSE IF differ = {} THEN 0
        ELSE Sign(coefficient_digit(left, ld, first) - coefficient_digit(right, rd, first)) * left.sign

-----------------------------------------------------------------------------
(* Fractions.                                                               *)

\* In lowest terms, the denominator positive.
value_rat_classified(n, d) ==
    LET positive(nn, dd) == IF dd.sign < 0 THEN Rational(WithSign(nn, -nn.sign), WithSign(dd, 1))
                            ELSE Rational(nn, dd)
        over(gcd) == positive(pn_big_divmod(n, gcd).q, pn_big_divmod(d, gcd).q)
    IN  IF pn_big_is_zero(d) THEN DivisionByZero ELSE over(big_gcd(n, d))

\* What a comparison operator says of the sign of a comparison.
Holds(op, c) ==
    CASE op = "==" -> c = 0
      [] op = "!=" -> c # 0
      [] op = "<"  -> c < 0
      [] op = "<=" -> c <= 0
      [] op = ">"  -> c > 0
      [] op = ">=" -> c >= 0

Comparisons == {"==", "!=", "<", "<=", ">", ">="}

rational_operand(v) == v.kind \in {"Rat", "Nat", "Int"}

rational_binary(op, a, b) ==
    LET an == IF a.kind = "Rat" THEN a.numerator ELSE a.integer
        ad == IF a.kind = "Rat" THEN a.denominator ELSE One
        bn == IF b.kind = "Rat" THEN b.numerator ELSE b.integer
        bd == IF b.kind = "Rat" THEN b.denominator ELSE One
        left == pn_big_mul(an, bd)
        right == pn_big_mul(bn, ad)
        numerator == CASE op = "+" -> pn_big_add(left, right)
                       [] op = "-" -> pn_big_sub(left, right)
                       [] op = "*" -> pn_big_mul(an, bn)
                       [] op = "/" -> left
    IN  IF op \in Comparisons THEN Bool(Holds(op, pn_big_compare(left, right)))
        ELSE IF op = "%" THEN Trap("Rat does not support remainder", "fatal")
        ELSE value_rat_classified(numerator, pn_big_mul(ad, IF op = "/" THEN bn ELSE bd))

-----------------------------------------------------------------------------
(* Operators on values.                                                     *)

IntegerOperand(v) == v.kind \in {"Nat", "Int"}

comparable(a, b) ==
    \/ {a.kind, b.kind} \in {{"Dec"}, {"Str"}}
    \/ IntegerOperand(a) /\ IntegerOperand(b)

\* Texts compare byte by byte, and one that the other begins with is the smaller.
compare_values(a, b) ==
    LET shared == 1 .. Min({Len(a.text), Len(b.text)})
        differ == {i \in shared : a.text[i] # b.text[i]}
    IN  CASE a.kind = "Dec" -> decimal_compare(a, b)
          [] IntegerOperand(a) -> pn_big_compare(a.integer, b.integer)
          [] a.kind = "Str" -> IF differ # {} THEN Sign(a.text[Min(differ)] - b.text[Min(differ)])
                               ELSE Sign(Len(a.text) - Len(b.text))

\* Values of two kinds are never equal.  Fields are compared by position.
RECURSIVE value_equal(_, _)
value_equal(a, b) ==
    LET each(s, t) == Len(s) = Len(t) /\ \A i \in DOMAIN s : value_equal(s[i], t[i])
    IN  /\ a.kind = b.kind
        /\ CASE IntegerOperand(a) -> pn_big_compare(a.integer, b.integer) = 0
             [] a.kind = "Rat" -> /\ pn_big_compare(a.numerator, b.numerator) = 0
                                  /\ pn_big_compare(a.denominator, b.denominator) = 0
             [] a.kind = "Dec" -> decimal_compare(a, b) = 0
             [] a.kind = "Array" -> each(a.items, b.items)
             [] a.kind \in {"Record", "Variant"} -> a.name = b.name /\ each(a.values, b.values)
             [] OTHER -> a = b

\* The remainder has the sign of the divisor.
IntegerRemainder(a, b) ==
    LET r == pn_big_divmod(a, b).r
    IN  IF ~pn_big_is_zero(r) /\ a.sign # b.sign THEN pn_big_add(r, b) ELSE r

IntegerResult(kind, v) ==
    IF kind = "Nat" /\ v.sign < 0 THEN Trap("Nat underflow", "request") ELSE Integer(kind, v)

\* Sums, differences, products and remainders of integers.
IntegerBinary(op, a, b) ==
    LET kind == IF "Int" \in {a.kind, b.kind} THEN "Int" ELSE "Nat"
        left == a.integer
        right == b.integer
    IN  CASE op = "+" -> IntegerResult(kind, pn_big_add(left, right))
          [] op = "-" -> IntegerResult(kind, pn_big_sub(left, right))
          [] op = "*" -> IntegerResult(kind, pn_big_mul(left, right))
          [] op = "%" -> IF pn_big_is_zero(right) THEN DivisionByZero
                         ELSE IntegerResult(kind, IntegerRemainder(left, right))

binary_value_classified(op, a, b) ==
    IF op \in {"&&", "||"} THEN
        IF {a.kind, b.kind} # {"Bool"} THEN Trap("Boolean operator requires Bool", "fatal")
        ELSE Bool(IF op = "&&" THEN a.boolean /\ b.boolean ELSE a.boolean \/ b.boolean)
    ELSE IF rational_operand(a) /\ rational_operand(b) /\ ("Rat" \in {a.kind, b.kind} \/ op = "/") THEN
        rational_binary(op, a, b)
    ELSE IF op \in {"==", "!="} THEN Bool(value_equal(a, b) = (op = "=="))
    ELSE IF op \in Comparisons THEN
        IF comparable(a, b) THEN Bool(Holds(op, compare_values(a, b)))
        ELSE Trap("incompatible comparison operands", "fatal")
    ELSE IF op = "+" /\ a.kind = "Str" /\ b.kind = "Str" THEN Str(a.text \o b.text)
    ELSE IF a.kind = "Dec" /\ b.kind = "Dec" THEN decimal_binary_classified(op, a, b)
    ELSE IF IntegerOperand(a) /\ IntegerOperand(b) THEN IntegerBinary(op, a, b)
    ELSE Trap("incompatible binary operands", "fatal")

\* The unary minus, whose result is an Int for a Nat, and the negation of a Bool.
UnaryValue(op, a) ==
    CASE op = "!" -> IF a.kind = "Bool" THEN Bool(~a.boolean) ELSE Trap("! requires Bool", "fatal")
      [] op = "neg" /\ a.kind = "Dec" ->
            Decimal(WithSign(a.coefficient, -a.coefficient.sign), a.exponent)
      [] op = "neg" /\ a.kind = "Rat" ->
            value_rat_classified(WithSign(a.numerator, -a.numerator.sign), a.denominator)
      [] op = "neg" /\ IntegerOperand(a) -> Integer("Int", WithSign(a.integer, -a.integer.sign))
      [] OTHER -> Trap("unary - requires numeric value", "fatal")

\* quotient, nat and dec.
builtins_numeric_call(name, a) ==
    CASE name = "quotient" ->
            IF \E i \in {1, 2} : a[i].kind # "Nat" THEN Trap("quotient requires Nat operands", "fatal")
            ELSE IF pn_big_is_zero(a[2].integer) THEN Trap("division by zero", "fatal")
            ELSE Integer("Nat", pn_big_divmod(a[1].integer, a[2].integer).q)
      [] name \in {"nat", "dec"} ->
            IF a[1].kind # "Rat" THEN Trap("rational conversion requires Rat", "fatal")
            ELSE IF name = "dec"
            THEN decimal_binary_classified("/", Decimal(a[1].numerator, 0), Decimal(a[1].denominator, 0))
            ELSE IF a[1].numerator.sign < 0 \/ ~pn_big_is_one(a[1].denominator)
            THEN Trap("Rat is not an exact Nat", "fatal")
            ELSE Integer("Nat", a[1].numerator)
      [] name = "$unit" -> Unit
==============================================================================
