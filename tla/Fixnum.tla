------------------------------- MODULE Fixnum -------------------------------
(***************************************************************************)
(* Fixnum words (runtime.h, runtime.c): a sign bit, a magnitude and a tag  *)
(* of zero bits, the arithmetic on them that allocates nothing, and the    *)
(* arithmetic the compiler emits in line (za.c).                           *)
(*                                                                         *)
(* A word is a number below twice the sign bit.  An operation returns a    *)
(* word, or No when the code returns 0 and its caller goes on to bignums.  *)
(***************************************************************************)
EXTENDS Integers

CONSTANTS
    FIXNUM_MAGNITUDE_MASK,   \* the largest magnitude (2^59 - 1)
    TAGS                     \* 2^FIXNUM_VALUE_SHIFT, the number of tags (16)

ASSUME FixnumAssumption ==
    FIXNUM_MAGNITUDE_MASK \in Nat \ {0} /\ TAGS \in Nat \ {0}

FIXNUM_SIGN_BIT == (FIXNUM_MAGNITUDE_MASK + 1) * TAGS
Words == 0 .. 2 * FIXNUM_SIGN_BIT - 1
No == -1

os_make_fixnum_signed(negative, magnitude) ==
    magnitude * TAGS + (IF negative /\ magnitude # 0 THEN FIXNUM_SIGN_BIT ELSE 0)

os_fixnum_magnitude(w) == (w \div TAGS) % (FIXNUM_MAGNITUDE_MASK + 1)
os_fixnum_is_negative(w) == w >= FIXNUM_SIGN_BIT

(* The integer a word stands for, and the words programs can hold.         *)
WordValue(w) == IF os_fixnum_is_negative(w) THEN -os_fixnum_magnitude(w)
                                            ELSE os_fixnum_magnitude(w)
Fixnums == {w \in Words : w % TAGS = 0 /\ w # FIXNUM_SIGN_BIT}
InFixnumRange(n) == n <= FIXNUM_MAGNITUDE_MASK /\ -n <= FIXNUM_MAGNITUDE_MASK

num_both_nonneg_fixnum(a, b) == ~os_fixnum_is_negative(a) /\ ~os_fixnum_is_negative(b)

-----------------------------------------------------------------------------
(* The fast paths for two words without sign.                              *)
fixnum_fast_add(a, b) ==
    LET sum == (a + b) % (2 * FIXNUM_SIGN_BIT)
    IN  IF os_fixnum_is_negative(sum) THEN No ELSE sum

fixnum_fast_sub(a, b) == IF a < b THEN No ELSE a - b

(* Mutant: only the overflow of the whole word is looked at.               *)
FastMulIgnoresSign(a, b) ==
    LET prod == (a \div TAGS) * b
    IN  IF prod >= 2 * FIXNUM_SIGN_BIT THEN No ELSE prod

fixnum_fast_mul(a, b) ==
    LET prod == (a \div TAGS) * b
    IN  IF prod >= 2 * FIXNUM_SIGN_BIT \/ os_fixnum_is_negative(prod) THEN No ELSE prod

fixnum_fast_div(a, b) == IF b = 0 THEN No ELSE (a \div b) * TAGS

(* The paths for two fixnums of any sign.                                  *)
fixnum_negate(w) == os_make_fixnum_signed(~os_fixnum_is_negative(w), os_fixnum_magnitude(w))

fixnum_add_signed_unchecked(a, b) ==
    LET ma == os_fixnum_magnitude(a)
        mb == os_fixnum_magnitude(b)
        na == os_fixnum_is_negative(a)
        nb == os_fixnum_is_negative(b)
    IN  IF na = nb
        THEN IF ma + mb > FIXNUM_MAGNITUDE_MASK THEN No ELSE os_make_fixnum_signed(na, ma + mb)
        ELSE IF ma >= mb THEN os_make_fixnum_signed(na, ma - mb)
                         ELSE os_make_fixnum_signed(nb, mb - ma)

fixnum_multiply_signed_unchecked(a, b) ==
    LET prod == os_fixnum_magnitude(a) * os_fixnum_magnitude(b)
    IN  IF prod > FIXNUM_MAGNITUDE_MASK THEN No
        ELSE os_make_fixnum_signed(os_fixnum_is_negative(a) # os_fixnum_is_negative(b), prod)

fixnum_divide_signed_unchecked(a, b) ==
    IF os_fixnum_magnitude(b) = 0 THEN No
    ELSE os_make_fixnum_signed(os_fixnum_is_negative(a) # os_fixnum_is_negative(b),
                               os_fixnum_magnitude(a) \div os_fixnum_magnitude(b))

fixnum_compare3(a, b) ==
    LET na == os_fixnum_is_negative(a)
        ma == os_fixnum_magnitude(a)
        mb == os_fixnum_magnitude(b)
        cmp == IF ma < mb THEN -1 ELSE IF ma > mb THEN 1 ELSE 0
    IN  IF na # os_fixnum_is_negative(b) THEN (IF na THEN -1 ELSE 1)
        ELSE IF na THEN -cmp ELSE cmp

(* COMPARE_FIXNUM_BODY: words without sign are compared as they are.       *)
CompareFixnums(a, b) ==
    IF num_both_nonneg_fixnum(a, b) THEN (IF a < b THEN -1 ELSE IF a > b THEN 1 ELSE 0)
                                    ELSE fixnum_compare3(a, b)

(* The code za_emit_arith_call_or_inline emits: its fast paths, with the   *)
(* comparison that precedes every operation but the addition.              *)
za_inline(op, a, b) ==
    IF ~num_both_nonneg_fixnum(a, b) \/ (op # "+" /\ a < b) THEN No
    ELSE CASE op = "+" -> fixnum_fast_add(a, b)
           [] op = "-" -> a - b
           [] op = "*" -> fixnum_fast_mul(a, b)
           [] op = "/" -> fixnum_fast_div(a, b)
=============================================================================
