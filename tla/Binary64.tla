------------------------------ MODULE Binary64 ------------------------------
(***************************************************************************)
(* The arithmetic of Go's float64 that duration thresholds are computed    *)
(* with: conversion of a natural number, division by a natural number and  *)
(* comparison.  A result is the nearest double, and of two equally near    *)
(* the one whose last digit is 0 (IEEE 754).                               *)
(*                                                                         *)
(* A double is zero or 0.d1 d2 ... d53 * 2^exp in binary with d1 = 1; that *)
(* it neither overflows nor gets subnormal is a matter of the arguments.   *)
(***************************************************************************)
EXTENDS Naturals, Sequences

Precision == 53
MaxBits == 30   \* bound: natural numbers are less than 2^MaxBits

Zero == [exp |-> 0, digits |-> [k \in 1..Precision |-> 0]]

Digit(x, k) == IF k <= Precision THEN x.digits[k] ELSE 0

\* The position of the first digit that is 1.
First(digits) ==
    CHOOSE k \in DOMAIN digits : digits[k] = 1 /\ \A j \in 1..(k - 1) : digits[j] = 0

\* A natural number, which a double represents exactly.
FromNat(n) ==
    LET binary == [k \in 1..MaxBits |-> (n \div 2^(MaxBits - k)) % 2]
    IN  IF n = 0 THEN Zero
        ELSE LET skip == First(binary) - 1
             IN  [exp |-> MaxBits - skip,
                  digits |-> [k \in 1..Precision |->
                                 IF k + skip <= MaxBits THEN binary[k + skip] ELSE 0]]

\* The next double: one more in the last place.
Increment(x) ==
    LET kept == {k \in 1..Precision : x.digits[k] = 0}
    IN  IF kept = {}
        THEN [exp |-> x.exp + 1, digits |-> [k \in 1..Precision |-> IF k = 1 THEN 1 ELSE 0]]
        ELSE LET last == CHOOSE k \in kept : \A j \in kept : j <= k
             IN  [x EXCEPT !.digits = [k \in 1..Precision |->
                      IF k < last THEN @[k] ELSE IF k = last THEN 1 ELSE 0]]

\* Long division: the digits of the quotient up to a place, and the remainder.
Bring(sofar, digit, divisor) ==
    LET part == 2 * sofar.rest + digit
    IN  [digits |-> Append(sofar.digits, part \div divisor), rest |-> part % divisor]

LongDivision(x, divisor, places) ==
    LET long[k \in 0..places] ==
          IF k = 0 THEN [digits |-> <<>>, rest |-> 0] ELSE Bring(long[k - 1], Digit(x, k), divisor)
    IN  long[places]

\* x / float64(divisor).  The quotient's first digit is among the first MaxBits
\* + 1, so that many more than Precision and one to round by are enough.
Divide(x, divisor) ==
    IF x = Zero THEN Zero
    ELSE LET places == Precision + MaxBits + 2
             long == LongDivision(x, divisor, places)
             skip == First(long.digits) - 1
             cut == [exp |-> x.exp - skip,
                     digits |-> [k \in 1..Precision |-> long.digits[k + skip]]]
             next == long.digits[Precision + skip + 1]
             beyond == long.rest # 0 \/ \E k \in (Precision + skip + 2)..places : long.digits[k] = 1
         IN  IF next = 1 /\ (beyond \/ cut.digits[Precision] = 1) THEN Increment(cut) ELSE cut

\* x >= y
AtLeast(x, y) ==
    \/ y = Zero
    \/ /\ x # Zero
       /\ \/ x.exp > y.exp
          \/ x.exp = y.exp /\ x.digits = y.digits
          \/ /\ x.exp = y.exp
             /\ \E k \in 1..Precision :
                  x.digits[k] > y.digits[k] /\ \A j \in 1..(k - 1) : x.digits[j] = y.digits[j]
=============================================================================
