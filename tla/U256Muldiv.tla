----------------------------- MODULE U256Muldiv -----------------------------
(* 256-bit integers as four words, and the arithmetic on them word by word     *)
(* (math/u256_math.rs).  A word has U64_RESOLUTION bits, 64 in the code; every *)
(* overflow is where the code has it, at one word (u64) or at two (u128).      *)
EXTENDS FiniteSetsExt, Integers

CONSTANT U64_RESOLUTION

ASSUME WordAssumption == U64_RESOLUTION \in Nat \ {0}

NUM_WORDS == 4

\* 1 << n: a function, of which, unlike of 2 ^ n, all can be proved.
Pow2[n \in 0 .. NUM_WORDS * U64_RESOLUTION] == IF n = 0 THEN 1 ELSE 2 * Pow2[n - 1]

Base == Pow2[U64_RESOLUTION]
Word == 0 .. Base - 1
DoubleWord == 0 .. Base * Base - 1
Index == 0 .. NUM_WORDS - 1

\* The outcome of an index past the last word, or of a division by zero.
Panic == [panicked |-> TRUE]

lo(x) == x % Base
hi(x) == x \div Base
hi_lo(h, l) == h * Base + l
Wrapped(x) == x % (Base * Base)

New(h, l) ==
    [i \in Index |-> CASE i = 0 -> lo(l) [] i = 1 -> hi(l)
                       [] i = 2 -> lo(h) [] i = 3 -> hi(h)]

Zero == New(0, 0)

\* How many words are in use.
num_words(x) == Max({0} \cup {i + 1 : i \in {k \in Index : x[k] # 0}})

-----------------------------------------------------------------------------
(* Shifts, by words and then by bits.                                        *)

shift_word_left(x) == [i \in Index |-> IF i = 0 THEN 0 ELSE x[i - 1]]

shift_word_right(x) == [i \in Index |-> IF i = NUM_WORDS - 1 THEN 0 ELSE x[i + 1]]

\* Panic stands for None here.
checked_shift_word_left(x) ==
    IF x[NUM_WORDS - 1] > 0 THEN Panic ELSE shift_word_left(x)

\* The word shifted by whole words has value 0 outside of the number.
WordAt(x, i) == IF i \in Index THEN x[i] ELSE 0

shift_left(x, amount) ==
    LET words == amount \div U64_RESOLUTION
        bits == amount % U64_RESOLUTION
        y == [i \in Index |-> WordAt(x, i - words)]
    IN  IF amount >= U64_RESOLUTION * NUM_WORDS THEN Zero
        ELSE IF bits = 0 THEN y
        ELSE [i \in Index |-> lo(y[i] * Pow2[bits])
                                + WordAt(y, i - 1) \div Pow2[U64_RESOLUTION - bits]]

shift_right(x, amount) ==
    LET words == amount \div U64_RESOLUTION
        bits == amount % U64_RESOLUTION
        y == [i \in Index |-> WordAt(x, i + words)]
    IN  IF amount >= U64_RESOLUTION * NUM_WORDS THEN Zero
        ELSE IF bits = 0 THEN y
        ELSE [i \in Index |-> y[i] \div Pow2[bits]
                                + lo(WordAt(y, i + 1) * Pow2[U64_RESOLUTION - bits])]

leading_zeros(word) ==
    U64_RESOLUTION - Min({k \in 0 .. U64_RESOLUTION : word < Pow2[k]})

-----------------------------------------------------------------------------
(* Comparisons: the highest word that differs decides.                       *)

Differing(x, y) == {i \in Index : x[i] # y[i]}

eq(x, y) == Differing(x, y) = {}
lt(x, y) == Differing(x, y) # {} /\ x[Max(Differing(x, y))] < y[Max(Differing(x, y))]
gt(x, y) == Differing(x, y) # {} /\ x[Max(Differing(x, y))] > y[Max(Differing(x, y))]
lte(x, y) == eq(x, y) \/ lt(x, y)
gte(x, y) == eq(x, y) \/ gt(x, y)
is_zero(x) == \A i \in Index : x[i] = 0

try_into_u128(x) == IF num_words(x) > 2 THEN Panic ELSE hi_lo(x[1], x[0])

-----------------------------------------------------------------------------
(* Sums and products.  A loop is a function from the number of words done.   *)

add(x, y) ==
    LET Carry[i \in 0 .. NUM_WORDS] ==
            IF i = 0 THEN 0 ELSE hi(x[i - 1] + y[i - 1] + Carry[i - 1])
    IN  [i \in Index |-> lo(x[i] + y[i] + Carry[i])]

\* A word underflows in one of two subtractions.
sub(x, y) ==
    LET Borrow[i \in 0 .. NUM_WORDS] ==
            IF i = 0 THEN 0
            ELSE LET t == lo(x[i - 1] - y[i - 1])
                 IN  IF x[i - 1] < y[i - 1] \/ t < Borrow[i - 1] THEN 1 ELSE 0
    IN  [i \in Index |-> lo(x[i] - y[i] - Borrow[i])]

get_add_inverse(x) ==
    IF eq(x, Zero) THEN Zero
    ELSE add(sub(New(Base * Base - 1, Base * Base - 1), x), New(0, 1))

\* Slip: the last carry of a row is lost.
CarryLost(result, j, m, k) == result

\* The last carry of a row becomes the word above it, if there is one.
CarryOut(result, j, m, k) ==
    IF j + m < NUM_WORDS THEN [result EXCEPT ![j + m] = lo(k)] ELSE result

\* Row j adds x * y[j] to the result; words past the last are dropped.
MulRow(x, y, j, m, result) ==
    LET Row[i \in 0 .. m] ==
            IF i = 0 THEN [result |-> result, k |-> 0]
            ELSE LET row == Row[i - 1]
                     at == i - 1 + j
                 IN  IF at \notin Index THEN row
                     ELSE LET t == Wrapped(Wrapped(x[i - 1] * y[j])
                                             + row.result[at] + row.k)
                          IN  [result |-> [row.result EXCEPT ![at] = lo(t)],
                               k |-> hi(t)]
    IN  CarryOut(Row[m].result, j, m, Row[m].k)

mul(x, y) ==
    LET m == num_words(x)
        Rows[j \in 0 .. num_words(y)] ==
            IF j = 0 THEN Zero ELSE MulRow(x, y, j - 1, m, Rows[j - 1])
    IN  Rows[num_words(y)]

\* The product of two 128-bit numbers, from four products of words.
mul_u256(v, n) ==
    LET c0 == lo(v) * lo(n)
        a1 == lo(v) * hi(n)
        b0 == hi(v) * lo(n)
        c1 == hi(c0) + lo(a1) + lo(b0)
    IN  New(Wrapped(hi(v) * hi(n) + hi(c1) + hi(a1) + hi(b0)), hi_lo(lo(c1), lo(c0)))

-----------------------------------------------------------------------------
(* Long division.  The dividend has one more word in front, the carry space, *)
(* which is needed when its four words are all in use and are shifted.       *)

Digit(state, i) == IF i = NUM_WORDS THEN state.carry ELSE state.dividend[i]

SetDigit(state, i, word) ==
    IF i = NUM_WORDS THEN [state EXCEPT !.carry = word]
    ELSE [state EXCEPT !.dividend[i] = word]

\* The estimate from the top words, lowered while the next word shows it to be
\* too large, until the remainder exceeds a word.
EstimateQuotient(state, index, n, divisor) ==
    LET d0 == hi_lo(Digit(state, index + n), state.dividend[index + n - 1])
        d1 == divisor[n - 1]
        d0_2 == state.dividend[index + n - 2]
        d1_2 == divisor[n - 2]
        qhat == d0 \div d1
        Rhat(q) == d0 - d1 * qhat + (qhat - q) * d1
        Stops(q) ==
            \/ q < qhat /\ hi(Rhat(q)) # 0
            \/ /\ hi(q) = 0
               /\ Wrapped(qhat * d1_2) - (qhat - q) * d1_2
                     <= hi_lo(lo(Rhat(q)), d0_2)
    IN  Max({q \in 0 .. qhat : Stops(q)})

\* dividend - qhat * divisor at the place of the digit; k is what is borrowed.
MultiplySubtract(state, index, n, divisor, qhat) ==
    LET Loop[i \in 0 .. n] ==
            IF i = 0 THEN [state |-> state, k |-> 0]
            ELSE LET prev == Loop[i - 1]
                     p == Wrapped(qhat * divisor[i - 1])
                     t == Wrapped(prev.state.dividend[index + i - 1] - prev.k - lo(p))
                 IN  [state |-> SetDigit(prev.state, index + i - 1, lo(t)),
                      k |-> lo(hi(p) - hi(t))]
        done == Loop[n]
        head == Digit(state, index + n)
    IN  [state |-> SetDigit(done.state, index + n, lo(head - done.k)),
         too_large |-> done.k > head]

\* Slip: a digit that is one too large is lowered, but nothing is added back.
NothingBack(state, index, n, divisor) == state

\* The digit was one too large: add the divisor back.  The word after the last
\* is read from the dividend, even when that word is the carry space.
AddBack(state, index, n, divisor) ==
    LET Loop[i \in 0 .. n] ==
            IF i = 0 THEN [state |-> state, k |-> 0]
            ELSE LET prev == Loop[i - 1]
                     t == prev.state.dividend[index + i - 1] + divisor[i - 1] + prev.k
                 IN  [state |-> SetDigit(prev.state, index + i - 1, lo(t)), k |-> hi(t)]
    IN  IF index + n \notin Index THEN Panic
        ELSE SetDigit(Loop[n].state, index + n,
                      lo(state.dividend[index + n] + Loop[n].k))

div_loop(state, index, n, divisor) ==
    LET qhat == EstimateQuotient(state, index, n, divisor)
        subtracted == MultiplySubtract(state, index, n, divisor, qhat)
        added == AddBack(subtracted.state, index, n, divisor)
    IN  IF ~subtracted.too_large
        THEN [subtracted.state EXCEPT !.quotient[index] = lo(qhat)]
        ELSE IF added = Panic THEN Panic
        ELSE [added EXCEPT !.quotient[index] = lo(qhat - 1)]

\* A divisor of one word: k is the remainder so far.
DivideByWord(dividend, words, divisor) ==
    LET Loop[j \in 0 .. words] ==   \* the words from j on are done
            IF j = words THEN [quotient |-> Zero, k |-> 0]
            ELSE LET prev == Loop[j + 1]
                     d1 == hi_lo(lo(prev.k), dividend[j])
                 IN  [quotient |-> [prev.quotient EXCEPT ![j] = lo(d1 \div divisor)],
                      k |-> d1 % divisor]
    IN  [quotient |-> Loop[0].quotient, remainder |-> New(0, Loop[0].k)]

\* Both are shifted until the highest bit of the divisor is set.
DivideNormalized(dividend, words, divisor, n) ==
    LET s == leading_zeros(divisor[n - 1])
        top == dividend[words - 1]
        start ==
            [dividend |-> shift_left(dividend, s), quotient |-> Zero,
             carry |-> IF words = NUM_WORDS /\ leading_zeros(top) < s
                       THEN top \div Pow2[U64_RESOLUTION - s] ELSE 0]
        shifted == shift_left(divisor, s)
        Loop[j \in 0 .. words - n + 1] ==   \* the digits from j on are done
            IF j = words - n + 1 THEN start
            ELSE LET prev == Loop[j + 1]
                 IN  IF prev = Panic THEN Panic ELSE div_loop(prev, j, n, shifted)
    IN  IF Loop[0] = Panic THEN Panic
        ELSE [quotient |-> Loop[0].quotient,
              remainder |-> shift_right(Loop[0].dividend, s)]

\* Quotient and remainder.
div(dividend, divisor) ==
    LET words == num_words(dividend)
        n == num_words(divisor)
    IN  CASE n = 0 -> Panic
          [] n > 0 /\ words < n -> [quotient |-> Zero, remainder |-> dividend]
          [] n > 0 /\ words >= n /\ words < 3 ->
                LET x == try_into_u128(dividend)
                    y == try_into_u128(divisor)
                IN  [quotient |-> New(0, x \div y), remainder |-> New(0, x % y)]
          [] n = 1 /\ words >= 3 -> DivideByWord(dividend, words, divisor[0])
          [] n > 1 /\ words >= n /\ words >= 3 ->
                DivideNormalized(dividend, words, divisor, n)
=============================================================================
