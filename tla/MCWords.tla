------------------------------ MODULE MCWords ------------------------------
(* The 256-bit integers of four words on every pair of numbers, against the    *)
(* integers.                                                                   *)
EXTENDS MCQuoteWalk, U256Muldiv

VARIABLE words   \* two numbers below 2^256, or None

Modulus == Base * (Base * (Base * Base))
U256 == 0 .. Modulus - 1
Of(n) == New(n \div (Base * Base), n % (Base * Base))
Value(x) == x[0] + Base * (x[1] + Base * (x[2] + Base * x[3]))

\* Numbers alone, apart from what else a run enumerates.
WordsInit == words \in U256 \X U256

WordsSpec == WordsInit /\ [][FALSE]_words

-----------------------------------------------------------------------------
(* Word by word, with carries, borrows and words shifted across, the numbers   *)
(* add, subtract, negate, multiply, shift and compare as numbers of 256 bits.  *)
WordsExact ==
    words # None =>
        LET a == words[1]
            b == words[2]
            x == Of(a)
            y == Of(b)
        IN  /\ Value(add(x, y)) = (a + b) % Modulus
            /\ Value(sub(x, y)) = (a - b) % Modulus
            /\ Value(mul(x, y)) = (a * b) % Modulus
            /\ Value(get_add_inverse(x)) = (-a) % Modulus
            /\ b \in DOMAIN Pow2 =>
                  /\ Value(shift_left(x, b)) = (a * Pow2[b]) % Modulus
                  /\ Value(shift_right(x, b)) = a \div Pow2[b]
            /\ b \notin DOMAIN Pow2 => shift_left(x, b) = Zero /\ shift_right(x, b) = Zero
            /\ {a, b} \subseteq DoubleWord => Value(mul_u256(a, b)) = a * b
            /\ lt(x, y) = (a < b) /\ gt(x, y) = (a > b)
            /\ lte(x, y) = (a <= b) /\ gte(x, y) = (a >= b)

(* Long division, with its estimated digits and their corrections, yields the  *)
(* quotient and the remainder whenever it returns.  It panics on a divisor     *)
(* other than 0 only when the dividend takes all four words and the divisor    *)
(* three or more.                                                              *)
DivExact ==
    words # None =>
        LET a == words[1]
            b == words[2]
            result == div(Of(a), Of(b))
        IN  IF result = Panic
            THEN b = 0 \/ (num_words(Of(a)) = NUM_WORDS /\ num_words(Of(b)) >= 3)
            ELSE Value(result.quotient) = a \div b /\ Value(result.remainder) = a % b

(* test_div compares div with another implementation for every dividend and    *)
(* every divisor (u256_math.rs:684-695): a division by a number other than 0   *)
(* returns.                                                                    *)
DivReturns ==
    words # None /\ words[2] # 0 => div(Of(words[1]), Of(words[2])) # Panic
=============================================================================
