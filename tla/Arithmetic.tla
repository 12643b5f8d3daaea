---------------------------- MODULE Arithmetic ----------------------------
(***************************************************************************)
(* Programs that compute with integers: acc is the result of the calls     *)
(* made so far, exact the integer it should be, failed whether the last    *)
(* call signalled an error and mustFail whether it had to.                 *)
(***************************************************************************)
EXTENDS Bignum

CONSTANTS
    Operands,     \* the integers programs compute with
    MaxInteger    \* bound: results beyond it are not computed with

VARIABLES acc, exact, failed, mustFail

vars == <<acc, exact, failed, mustFail>>

Objects == [n \in Operands |-> ObjectOf(n)]

-----------------------------------------------------------------------------
Init == acc = Fix(0) /\ exact = 0 /\ failed = FALSE /\ mustFail = FALSE

(* A call returned r where the integer n was due, or an error if bad.      *)
Returns(result, n, bad) ==
    /\ ~bad => n \in -MaxInteger .. MaxInteger
    /\ mustFail' = bad
    /\ exact' = IF bad THEN exact ELSE n
    /\ \E r \in {result} :
           /\ failed' = IsError(r)
           /\ acc' = IF IsError(r) THEN acc ELSE r

Abs(n) == IF n < 0 THEN -n ELSE n
Sign(n) == IF n < 0 THEN -1 ELSE IF n = 0 THEN 0 ELSE 1
Quotient(m, n) == Sign(m) * Sign(n) * (Abs(m) \div Abs(n))
Floor(m, n) == IF n > 0 THEN m \div n ELSE (-m) \div (-n)

Arithmetic(op, n) ==
    CASE op = "+" -> exact + n [] op = "-" -> exact - n [] op = "*" -> exact * n
      [] op = "/" -> IF n = 0 THEN 0 ELSE Quotient(exact, n)

Interpreted == \E op \in {"+", "-", "*", "/"}, n \in Operands :
    Returns(Binary(op, acc, Objects[n]), Arithmetic(op, n), op = "/" /\ n = 0)

Compiled == \E op \in {"+", "-", "*", "/"}, n \in Operands :
    Returns(Inline(op, acc, Objects[n]), Arithmetic(op, n), op = "/" /\ n = 0)

(* Compiled code whose operands are declared fixnums, which they are.      *)
CompiledDeclared == \E op \in {"+", "-", "*", "/"}, n \in Operands :
    /\ IsFixnum(acc) /\ IsFixnum(Objects[n])
    /\ Returns(Declared(op, acc, Objects[n]), Arithmetic(op, n), op = "/" /\ n = 0)

NotANumber == \E op \in {"+", "-", "*", "/"} : Returns(Binary(op, acc, NotNumber), 0, TRUE)

(* Three arguments, the second of which may bring the sum out of the       *)
(* fixnums and the third back.                                             *)
Several == \E m, n \in Operands :
    \/ Returns(primitive_add(<<acc, Objects[m], Objects[n]>>), exact + m + n, FALSE)
    \/ Returns(primitive_subtract(<<acc, Objects[m], Objects[n]>>), exact - m - n, FALSE)
    \/ Returns(primitive_divide(<<Objects[m], acc, Objects[n]>>),
               IF exact = 0 \/ n = 0 THEN 0 ELSE Quotient(Quotient(m, exact), n),
               exact = 0 \/ n = 0)

Negate == Returns(primitive_subtract(<<acc>>), -exact, FALSE)
Absolute == Returns(primitive_abs(acc), Abs(exact), FALSE)

DivMod == \E n \in Operands : \E i \in {1, 2} :
    Returns(floor_divmod(acc, Objects[n])[i],
            IF n = 0 THEN 0 ELSE IF i = 1 THEN Floor(exact, n) ELSE exact - n * Floor(exact, n),
            n = 0)

Divides(d, n) == IF d = 0 THEN n = 0 ELSE n % d = 0
GreatestCommonDivisor(m, n) ==
    IF m = 0 /\ n = 0 THEN 0
    ELSE LET ds == {d \in 1 .. Larger(Abs(m), Abs(n)) : Divides(d, m) /\ Divides(d, n)}
         IN  CHOOSE d \in ds : \A e \in ds : e <= d

GcdLcm == \E n \in Operands :
    \E g \in {GreatestCommonDivisor(exact, n)} :
        \/ Returns(mag_gcd(acc, Objects[n]), g, FALSE)
        \/ Returns(primitive_lcm(acc, Objects[n]),
                   IF g = 0 THEN 0 ELSE Abs(exact * n) \div g, FALSE)

SquareRoot == Returns(primitive_isqrt(acc),
                      IF exact < 0 THEN 0 ELSE CHOOSE r \in 0 .. exact :
                          r * r <= exact /\ exact < (r + 1) * (r + 1),
                      exact < 0)

MaxMin == \E n \in Operands :
    \/ Returns(primitive_max(acc, Objects[n]), Larger(exact, n), FALSE)
    \/ Returns(primitive_min(acc, Objects[n]), -Larger(-exact, -n), FALSE)

Next == Interpreted \/ Compiled \/ CompiledDeclared \/ NotANumber \/ Several \/ Negate \/ Absolute
            \/ DivMod \/ GcdLcm \/ SquareRoot \/ MaxMin

Spec == Init /\ [][Next]_vars

-----------------------------------------------------------------------------
(* eql and the comparisons agree with the integers, which eql owes to the  *)
(* one representation.                                                     *)
Truth(b) == IF b THEN <<"t">> ELSE <<"nil">>
OrderExact == \A n \in Operands :
    LET pair == <<acc, Objects[n]>>
        three == <<Objects[n], acc, Objects[0]>>
    IN  /\ number_compare4(acc, Objects[n]) = Sign(exact - n)
        /\ primitive_eql(acc, Objects[n]) = (exact = n)
        /\ primitive_num_equal(pair) = Truth(exact = n)
        /\ primitive_num_not_equal(three) = Truth(n # exact /\ exact # 0)
        /\ primitive_less_than(three) = Truth(n < exact /\ exact < 0)
        /\ primitive_greater_than(three) = Truth(n > exact /\ exact > 0)
        /\ primitive_less_equal(three) = Truth(n <= exact /\ exact <= 0)
        /\ primitive_greater_equal(three) = Truth(n >= exact /\ exact >= 0)
        /\ IsError(primitive_less_equal(<<acc, NotNumber, acc>>))

(* Whatever calls have led to it, a result is the integer it should be, in *)
(* its one representation (a fixnum when it fits, else limbs without       *)
(* leading zeros, no negative zero), compares as that integer, and a call  *)
(* fails exactly when its arguments call for it (runtime.c primitive_add   *)
(* to primitive_isqrt, number_compare4, primitive_eql).                    *)
IntegersExact ==
    /\ Value(acc) = exact /\ failed = mustFail
    /\ acc = ObjectOf(exact)
    /\ IsFixnum(acc) => acc[2] \in Fixnums
    /\ IsFixnum(acc) = InFixnumRange(exact)
    /\ OrderExact
=============================================================================
