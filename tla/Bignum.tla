------------------------------- MODULE Bignum -------------------------------
(***************************************************************************)
(* Integers of any size (runtime.c): magnitudes as sequences of limbs, the *)
(* least significant first, and the arithmetic functions of Lisp, which    *)
(* try fixnum words first and limbs when these do not do.                  *)
(*                                                                         *)
(* Floating point numbers are left out.                                    *)
(***************************************************************************)
EXTENDS Fixnum, Sequences, SequencesExt

CONSTANT LIMB_BITS    \* bits of a limb (32)

ASSUME BignumAssumption ==
    LIMB_BITS \in Nat \ {0} /\ FIXNUM_MAGNITUDE_MASK < 2 ^ (2 * LIMB_BITS)

LIMB == 2 ^ LIMB_BITS
Fix(w) == <<"fixnum", w>>
Big(sign, limbs) == <<"bignum", sign, limbs>>
NotNumber == <<"other">>
Error(class) == <<"error", class>>
IsFixnum(v) == v[1] = "fixnum"
is_bignum(v) == v[1] = "bignum"
is_number_val(v) == IsFixnum(v) \/ is_bignum(v)
IsError(v) == v[1] = "error"
LimbAt(limbs, i) == IF i <= Len(limbs) THEN limbs[i] ELSE 0
Larger(m, n) == IF m > n THEN m ELSE n

-----------------------------------------------------------------------------
(* Magnitudes.  mag_len is the magnitude without its leading zeros.        *)
RECURSIVE mag_len(_)
mag_len(limbs) == IF Len(limbs) > 1 /\ Last(limbs) = 0 THEN mag_len(Front(limbs)) ELSE limbs

mag_compare(x, y) ==
    LET a == mag_len(x)
        b == mag_len(y)
        differ == {i \in 1 .. Len(a) : Len(a) = Len(b) /\ a[i] # b[i]}
        top == CHOOSE i \in differ : \A j \in differ : j <= i
    IN  IF Len(a) # Len(b) THEN (IF Len(a) < Len(b) THEN -1 ELSE 1)
        ELSE IF differ = {} THEN 0 ELSE IF a[top] < b[top] THEN -1 ELSE 1

mag_add(a, b) ==
    LET n == Larger(Len(a), Len(b))
        sum[i \in 0 .. n] == IF i = 0 THEN 0
                             ELSE LimbAt(a, i) + LimbAt(b, i) + sum[i - 1] \div LIMB
    IN  mag_len([i \in 1 .. n + 1 |-> IF i > n THEN sum[n] \div LIMB ELSE sum[i] % LIMB])

mag_sub(a, b) ==
    LET borrow[i \in 0 .. Len(a)] ==
            IF i > 0 /\ a[i] < LimbAt(b, i) + borrow[i - 1] THEN 1 ELSE 0
    IN  mag_len([i \in 1 .. Len(a) |-> (a[i] - LimbAt(b, i) - borrow[i - 1]) % LIMB])

(* Each row adds a times one limb, from that limb's place on.              *)
mag_mul(a, b) ==
    LET Row(out, i) ==
            LET prod[j \in 0 .. Len(b)] ==
                    IF j = 0 THEN 0 ELSE a[i] * b[j] + out[i + j - 1] + prod[j - 1] \div LIMB
            IN  [k \in 1 .. Len(a) + Len(b) |->
                    IF k \in i .. i + Len(b) - 1 THEN prod[k - i + 1] % LIMB
                    ELSE IF k = i + Len(b) THEN out[k] + prod[Len(b)] \div LIMB
                    ELSE out[k]]
        rows[i \in 0 .. Len(a)] ==
            IF i = 0 THEN [k \in 1 .. Len(a) + Len(b) |-> 0] ELSE Row(rows[i - 1], i)
    IN  mag_len(rows[Len(a)])

(* Long division bit by bit: <<quotient, remainder>>.                      *)
mag_divmod(x, y) ==
    LET a == mag_len(x)
        b == mag_len(y)
        zeros == [i \in 1 .. Len(a) |-> 0]
        BitOf(idx) == (a[idx \div LIMB_BITS + 1] \div 2 ^ (idx % LIMB_BITS)) % 2
        Shifted(rem, bit) ==
            [i \in 1 .. Len(a) |->
                (rem[i] * 2 + (IF i = 1 THEN bit ELSE (rem[i - 1] * 2) \div LIMB)) % LIMB]
        Padded(rem) == [i \in 1 .. Len(a) |-> LimbAt(rem, i)]
        Step(quot, rem, idx) ==
            IF mag_compare(rem, b) < 0 THEN <<quot, rem>>
            ELSE <<[i \in 1 .. Len(a) |->
                       quot[i] + IF i = idx \div LIMB_BITS + 1 THEN 2 ^ (idx % LIMB_BITS) ELSE 0],
                   Padded(mag_sub(mag_len(rem), b))>>
        Bit(state, n) == LET idx == Len(a) * LIMB_BITS - n
                         IN  Step(state[1], Shifted(state[2], BitOf(idx)), idx)
        result == FoldLeft(Bit, <<zeros, zeros>>, [n \in 1 .. Len(a) * LIMB_BITS |-> n])
    IN  <<mag_len(result[1]), mag_len(result[2])>>

RECURSIVE CarryLimbs(_)
CarryLimbs(carry) == IF carry = 0 THEN <<>> ELSE <<carry % LIMB>> \o CarryLimbs(carry \div LIMB)

mag_mul_small_add_small(limbs, mul, add) ==
    LET n == Len(limbs)
        prod[i \in 0 .. n] == IF i = 0 THEN add * LIMB
                              ELSE limbs[i] * mul + prod[i - 1] \div LIMB
    IN  mag_len([i \in 1 .. n |-> prod[i] % LIMB] \o CarryLimbs(prod[n] \div LIMB))

mag_divmod_small(limbs, div) ==
    LET n == Len(limbs)
        cur[i \in 1 .. n + 1] == IF i > n THEN 0 ELSE (cur[i + 1] % div) * LIMB + limbs[i]
    IN  <<mag_len([i \in 1 .. n |-> cur[i] \div div]), cur[1] % div>>

-----------------------------------------------------------------------------
(* Objects.                                                                *)
decompose(v) ==
    CASE IsFixnum(v)  -> [sign |-> os_fixnum_is_negative(v[2]),
                          limbs |-> mag_len(<<os_fixnum_magnitude(v[2]) % LIMB,
                                              os_fixnum_magnitude(v[2]) \div LIMB>>)]
      [] is_bignum(v) -> [sign |-> v[2], limbs |-> v[3]]
      [] OTHER        -> [sign |-> FALSE, limbs |-> <<>>]

os_make_integer(sign, unnormalized) ==
    LET limbs == mag_len(unnormalized)
        magnitude == limbs[1] + LIMB * LimbAt(limbs, 2)
        nonzero == limbs # <<0>>
    IN  IF Len(limbs) <= 2 /\ magnitude <= FIXNUM_MAGNITUDE_MASK
        THEN Fix(os_make_fixnum_signed(sign /\ nonzero, magnitude))
        ELSE Big(sign /\ nonzero, limbs)

IsZero(m) == m.limbs = <<0>>

number_compare4(a, b) ==
    LET ma == decompose(a)
        mb == decompose(b)
        cmp == mag_compare(ma.limbs, mb.limbs)
    IN  IF IsFixnum(a) /\ IsFixnum(b) THEN fixnum_compare3(a[2], b[2])
        ELSE IF ~is_number_val(a) \/ ~is_number_val(b) THEN 3
        ELSE IF ma.sign # mb.sign THEN (IF ma.sign THEN -1 ELSE 1)
        ELSE IF ma.sign THEN -cmp ELSE cmp

(* primitive_eql: the same word, or bignums with the same limbs.           *)
primitive_eql(a, b) == a = b

first_non_number(args) == \E i \in 1 .. Len(args) : ~is_number_val(args[i])

-----------------------------------------------------------------------------
(* The functions of Lisp.  Each tries words over all its arguments and     *)
(* starts again with limbs when one step does not do.                      *)
Fast(Step(_, _), first, args) ==
    FoldLeft(LAMBDA r, v : IF r = No \/ ~IsFixnum(v) THEN No ELSE Step(r, v[2]), first, args)

AddSigned(x, y, negate) ==
    LET a == decompose(x)
        b == decompose(y)
        same == (a.sign = b.sign) # negate
    IN  IF same THEN os_make_integer(a.sign, mag_add(a.limbs, b.limbs))
        ELSE IF mag_compare(a.limbs, b.limbs) >= 0
        THEN os_make_integer(a.sign, mag_sub(a.limbs, b.limbs))
        ELSE os_make_integer(b.sign # negate, mag_sub(b.limbs, a.limbs))

primitive_add(args) ==
    LET fast == Fast(fixnum_add_signed_unchecked, 0, args)
    IN  IF fast # No THEN Fix(fast)
        ELSE IF first_non_number(args) THEN Error("domain")
        ELSE FoldLeft(LAMBDA r, v : AddSigned(r, v, FALSE), Fix(0), args)

primitive_subtract(args) ==
    LET first == Head(args)
        SubStep(r, w) == fixnum_add_signed_unchecked(r, fixnum_negate(w))
        fast == IF IsFixnum(first) THEN Fast(SubStep, first[2], Tail(args)) ELSE No
        m == decompose(first)
    IN  IF Len(args) = 1
        THEN IF IsFixnum(first) THEN Fix(fixnum_negate(first[2]))
             ELSE IF ~is_number_val(first) THEN Error("domain")
             ELSE os_make_integer(~m.sign, m.limbs)
        ELSE IF fast # No THEN Fix(fast)
        ELSE IF first_non_number(args) THEN Error("domain")
        ELSE FoldLeft(LAMBDA r, v : AddSigned(r, v, TRUE), first, Tail(args))

MultiplySigned(x, y) ==
    os_make_integer(decompose(x).sign # decompose(y).sign,
                    mag_mul(decompose(x).limbs, decompose(y).limbs))

primitive_multiply(args) ==
    LET fast == Fast(fixnum_multiply_signed_unchecked, os_make_fixnum_signed(FALSE, 1), args)
    IN  IF fast # No THEN Fix(fast)
        ELSE IF first_non_number(args) THEN Error("domain")
        ELSE FoldLeft(LAMBDA r, v : MultiplySigned(r, v),
                      Fix(os_make_fixnum_signed(FALSE, 1)), args)

DivideSigned(x, y) ==
    IF IsError(x) THEN x
    ELSE IF IsZero(decompose(y)) THEN Error("division by zero")
    ELSE os_make_integer(decompose(x).sign # decompose(y).sign,
                         mag_divmod(decompose(x).limbs, decompose(y).limbs)[1])

primitive_divide(args) ==
    LET first == Head(args)
        fixnums == \A i \in 1 .. Len(args) : IsFixnum(args[i])
        fast == Fast(fixnum_divide_signed_unchecked, first[2], Tail(args))
    IN  IF fixnums THEN (IF fast = No THEN Error("division by zero") ELSE Fix(fast))
        ELSE IF first_non_number(args) THEN Error("domain")
        ELSE FoldLeft(DivideSigned, first, Tail(args))

(* The functions of two arguments, with the fast path of words without     *)
(* sign in front.                                                          *)
FastPath(Step(_, _), a, b) ==
    IF IsFixnum(a) /\ IsFixnum(b)
    THEN IF num_both_nonneg_fixnum(a[2], b[2]) THEN Step(a[2], b[2]) ELSE No
    ELSE No
TryFirst(fast, result) == IF fast # No THEN Fix(fast) ELSE result

primitive_add2(a, b) == TryFirst(FastPath(fixnum_fast_add, a, b), primitive_add(<<a, b>>))
primitive_subtract2(a, b) == TryFirst(FastPath(fixnum_fast_sub, a, b), primitive_subtract(<<a, b>>))
primitive_multiply2(a, b) == TryFirst(FastPath(fixnum_fast_mul, a, b), primitive_multiply(<<a, b>>))
primitive_divide2(a, b) == TryFirst(FastPath(fixnum_fast_div, a, b), primitive_divide(<<a, b>>))

Binary(op, a, b) == CASE op = "+" -> primitive_add2(a, b)
                      [] op = "-" -> primitive_subtract2(a, b)
                      [] op = "*" -> primitive_multiply2(a, b)
                      [] op = "/" -> primitive_divide2(a, b)

(* The same for operands declared fixnums: the slow path asks no tags.     *)
primitive_add2_fixnum(a, b) ==
    TryFirst(FastPath(fixnum_fast_add, a, b),
             TryFirst(fixnum_add_signed_unchecked(a[2], b[2]), primitive_add(<<a, b>>)))
primitive_subtract2_fixnum(a, b) ==
    TryFirst(FastPath(fixnum_fast_sub, a, b),
             TryFirst(fixnum_add_signed_unchecked(a[2], fixnum_negate(b[2])), primitive_subtract(<<a, b>>)))
primitive_multiply2_fixnum(a, b) ==
    TryFirst(FastPath(fixnum_fast_mul, a, b),
             TryFirst(fixnum_multiply_signed_unchecked(a[2], b[2]), primitive_multiply(<<a, b>>)))
primitive_divide2_fixnum(a, b) ==
    TryFirst(FastPath(fixnum_fast_div, a, b),
             TryFirst(fixnum_divide_signed_unchecked(a[2], b[2]), primitive_divide(<<a, b>>)))

Declared(op, a, b) == CASE op = "+" -> primitive_add2_fixnum(a, b)
                        [] op = "-" -> primitive_subtract2_fixnum(a, b)
                        [] op = "*" -> primitive_multiply2_fixnum(a, b)
                        [] op = "/" -> primitive_divide2_fixnum(a, b)

(* Compiled code: in line first, then the function of two arguments, or    *)
(* the one for declared fixnums.                                           *)
Inline(op, a, b) ==
    TryFirst(IF IsFixnum(a) /\ IsFixnum(b) THEN za_inline(op, a[2], b[2]) ELSE No, Binary(op, a, b))

(* The comparisons: every argument stands so to the next one.              *)
Compare(a, b) == IF IsFixnum(a) /\ IsFixnum(b) THEN CompareFixnums(a[2], b[2])
                                               ELSE number_compare4(a, b)
Chain(args, signs) ==
    LET fails == {i \in 1 .. Len(args) - 1 : Compare(args[i], args[i + 1]) \notin signs}
        first == CHOOSE i \in fails : \A j \in fails : i <= j
    IN  IF fails = {} THEN <<"t">>
        ELSE IF Compare(args[first], args[first + 1]) = 3 THEN Error("domain") ELSE <<"nil">>
primitive_less_than(args) == Chain(args, {-1})
primitive_greater_than(args) == Chain(args, {1})
primitive_num_equal(args) == Chain(args, {0})
primitive_num_not_equal(args) == Chain(args, {-1, 1})
primitive_greater_equal(args) == Chain(args, {0, 1})
primitive_less_equal(args) == Chain(args, {-1, 0})

(* <<quotient, remainder>> of the division that rounds down.               *)
floor_divmod(z1, z2) ==
    LET m1 == decompose(z1)
        m2 == decompose(z2)
        qr == mag_divmod(m1.limbs, m2.limbs)
    IN  IF IsZero(m2) THEN <<Error("division by zero"), Error("division by zero")>>
        ELSE IF qr[2] = <<0>> THEN <<os_make_integer(m1.sign # m2.sign, qr[1]), Fix(0)>>
        ELSE IF m1.sign = m2.sign
        THEN <<os_make_integer(FALSE, qr[1]), os_make_integer(m2.sign, qr[2])>>
        ELSE <<os_make_integer(TRUE, mag_add(qr[1], <<1>>)),
               os_make_integer(m2.sign, mag_sub(m2.limbs, qr[2]))>>

RECURSIVE Euclid(_, _)
Euclid(a, b) == IF IsZero(decompose(b)) THEN a
                ELSE Euclid(b, os_make_integer(FALSE,
                                   mag_divmod(decompose(a).limbs, decompose(b).limbs)[2]))
mag_gcd(a, b) == Euclid(os_make_integer(FALSE, decompose(a).limbs),
                        os_make_integer(FALSE, decompose(b).limbs))

primitive_lcm(a, b) ==
    LET gcd == decompose(mag_gcd(a, b))
        prod == mag_mul(decompose(a).limbs, decompose(b).limbs)
    IN  IF IsZero(gcd) THEN Fix(0)
        ELSE os_make_integer(FALSE, mag_divmod(decompose(os_make_integer(FALSE, prod)).limbs,
                                               gcd.limbs)[1])

RECURSIVE Newton(_, _, _)
Newton(n, x, y) ==
    IF mag_compare(y, x) >= 0 THEN x
    ELSE Newton(n, y, mag_divmod_small(mag_add(y, mag_divmod(n, y)[1]), 2)[1])
mag_isqrt(limbs) == Newton(limbs, limbs, mag_divmod_small(mag_add(limbs, <<1>>), 2)[1])

primitive_isqrt(v) == IF decompose(v).sign THEN Error("domain")
                      ELSE os_make_integer(FALSE, mag_isqrt(decompose(v).limbs))

primitive_abs(v) ==
    CASE IsFixnum(v)  -> Fix(os_make_fixnum_signed(FALSE, os_fixnum_magnitude(v[2])))
      [] is_bignum(v) -> IF v[2] THEN os_make_integer(FALSE, v[3]) ELSE v
      [] OTHER        -> Error("domain")

primitive_max(a, b) == IF number_compare4(b, a) = 3 THEN Error("domain")
                       ELSE IF number_compare4(b, a) = 1 THEN b ELSE a
primitive_min(a, b) == IF number_compare4(b, a) = 3 THEN Error("domain")
                       ELSE IF number_compare4(b, a) = -1 THEN b ELSE a

-----------------------------------------------------------------------------
(* The integer an object stands for, and the object of an integer.         *)
RECURSIVE LimbsValue(_)
LimbsValue(limbs) == IF limbs = <<>> THEN 0 ELSE Head(limbs) + LIMB * LimbsValue(Tail(limbs))
Signed(sign, n) == IF sign THEN -n ELSE n
Value(v) == IF IsFixnum(v) THEN WordValue(v[2]) ELSE Signed(v[2], LimbsValue(v[3]))

RECURSIVE LimbsOf(_)
LimbsOf(n) == IF n < LIMB THEN <<n>> ELSE <<n % LIMB>> \o LimbsOf(n \div LIMB)
ObjectOf(n) == os_make_integer(n < 0, LimbsOf(IF n < 0 THEN -n ELSE n))
=============================================================================
