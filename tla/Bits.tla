-------------------------------- MODULE Bits --------------------------------
(***************************************************************************)
(* The data lab.  bits.c solves puzzles on 32-bit words with few           *)
(* operators; btest.c compares each solution with the obvious function of  *)
(* tests.c on chosen arguments.                                            *)
(*                                                                         *)
(* A word is the set of the positions of its ones.  A solution is written  *)
(* with the operators of the code on such sets; the function it is         *)
(* compared with says what is asked for without them.  A sum wraps, also   *)
(* where it is signed: with the flags of the makefile (-O1) the compiler   *)
(* takes no advantage of the overflows that the puzzles run into.          *)
(***************************************************************************)
EXTENDS Integers, Sequences

Positions == 0..31
Word == SUBSET Positions

-----------------------------------------------------------------------------
\* The operators of C.
Not(x) == Positions \ x                                         \* ~x
Xor(x, y) == (x \ y) \cup (y \ x)                               \* x ^ y
Bang(x) == IF x = {} THEN {0} ELSE {}                           \* !x
Shl(x, n) == {k \in Positions : k - n \in x}                    \* x << n
Shr(x, n) == {k \in Positions : k + n \in x}                    \* unsigned x >> n
Sar(x, n) == {k \in Positions : (IF k + n > 31 THEN 31 ELSE k + n) \in x}

\* What the positions below k carry into k: two ones somewhere, and above them
\* a one in every position.
Carry(x, y, k) ==
    \E j \in 0..k-1 : j \in x \cap y /\ \A i \in j+1..k-1 : i \in x \cup y
Plus(x, y) == {k \in Positions : (k \in Xor(x, y)) # Carry(x, y, k)}

\* A literal below 2^31, and the value of a word that is known to be a byte.
Literal(n) == {k \in 0..30 : (n \div 2^k) % 2 = 1}
Byte(x) == CHOOSE n \in 0..255 : Literal(n) = x

TMin == {31}
TMax == 0..30

\* The greatest of some positions.
Highest(x) == CHOOSE k \in x : \A j \in x : j <= k

-----------------------------------------------------------------------------
\* bits.c.
bitXor(x, y) == Not(x \cap y) \cap Not(Not(x) \cap Not(y))

tmin == Shl({0}, 31)

isTmax(x) == Bang(Xor(Not(Plus(x, {0})), x) \cup Bang(Not(x)))

allOddBits(x) ==
    LET half == Plus(Shl(Literal(170), 8), Literal(170))
        mask == Plus(Shl(half, 16), half)
    IN  Bang(Xor(x \cap mask, mask))

negate(x) == Plus(Not(x), {0})

isAsciiDigit(x) ==
    LET below(n) == Sar(Plus(x, negate(Literal(n))), 31)
    IN  Bang(below(48)) \cap Bang(Bang(below(58)))

conditional(x, y, z) ==
    LET mask == negate(Bang(Bang(x)))
    IN  (mask \cap y) \cup (Not(mask) \cap z)

isLessOrEqual(x, y) ==
    LET sx == Sar(x, 31) \cap {0}
        sy == Sar(y, 31) \cap {0}
        z == Plus(Plus(x, Not(y)), {0})
        less == (Sar(z, 31) \cap {0}) \cup Bang(z)
    IN  (Bang(Xor(sx, sy)) \cap less) \cup (sx \cap Bang(sy))

logicalNeg(x) == Sar(Not(x) \cap Not(negate(x)), 31) \cap {0}

\* A binary search for the highest one: each round asks whether there is a one
\* at or above position n, and if so shifts by n and counts it.
howManyBits(x) ==
    LET sign == Sar(x, 31)
        start == (sign \cap Not(x)) \cup (Not(sign) \cap x)
        bit(w, n) == IF Sar(w, n) # {} THEN n ELSE 0
        after(w, n) == Sar(w, bit(w, n))
        x8 == after(start, 16)
        x4 == after(x8, 8)
        x2 == after(x4, 4)
        x1 == after(x2, 2)
        x0 == after(x1, 1)
    IN  Plus(Literal(bit(start, 16) + bit(x8, 8) + bit(x4, 4) + bit(x2, 2) + bit(x1, 1)),
             Plus(x0, {0}))

-----------------------------------------------------------------------------
\* A float: the sign in bit 31, the exponent in bits 23..30, the fraction below.
ExponentBits == 23..30
FractionBits == 0..22
Sign(uf) == uf \cap {31}

float_twice(uf) ==
    LET exponent == uf \cap ExponentBits
        sum == Plus(uf, {23})
    IN  CASE exponent = {} -> Sign(uf) \cup Shl(uf \cap FractionBits, 1)
          [] exponent = ExponentBits -> uf
          [] OTHER -> IF ExponentBits \subseteq sum THEN Shl(Shr(sum, 23), 23) ELSE sum

\* A slip: a tie is always rounded up.
float_i2fHalfUp(x) ==
    LET absX == IF 31 \in x THEN negate(x) ELSE x
        shiftLeft == 32 - Highest(absX)
        afterShift == Shl(absX, shiftLeft)
        flag == IF 8 \in afterShift THEN {0} ELSE {}
    IN  IF x = {} THEN {}
        ELSE Plus(Plus(Plus(Sign(x), Shr(afterShift, 9)),
                       Shl(Literal(159 - shiftLeft), 23)), flag)

\* The loop ends when it has shifted the highest one out; what is left is the
\* fraction and, below it, nine bits that are rounded to the nearest, a tie to even.
float_i2f(x) ==
    LET absX == IF 31 \in x THEN negate(x) ELSE x
        shiftLeft == 32 - Highest(absX)
        afterShift == Shl(absX, shiftLeft)
        overHalf == 8 \in afterShift /\ afterShift \cap 0..7 # {}
        flag == IF overHalf \/ afterShift \cap 0..9 = {8, 9} THEN {0} ELSE {}
    IN  IF x = {} THEN {}
        ELSE Plus(Plus(Plus(Sign(x), Shr(afterShift, 9)),
                       Shl(Literal(159 - shiftLeft), 23)), flag)

float_f2i(uf) ==
    LET exp == Byte(Shr(uf, 23) \cap 0..7)
        e == exp - 127
        frac == (uf \cap FractionBits) \cup {23}
        shifted == IF e >= 23 THEN Shl(frac, e - 23) ELSE Shr(frac, 23 - e)
    IN  CASE exp = 0 \/ e < 0 -> {}
          [] e > 30 -> TMin
          [] OTHER -> IF 31 \in uf THEN Plus(Not(shifted), {0}) ELSE shifted

-----------------------------------------------------------------------------
\* tests.c.  Signed order is decided by the highest position where two words
\* differ; -x agrees with x up to its lowest one, and with ~x above it.
Truth(condition) == IF condition THEN {0} ELSE {}

AtMost(x, y) ==
    LET top == Highest(Xor(x, y)) IN x = y \/ IF top = 31 THEN 31 \in x ELSE top \in y

Minus(x) == {k \in Positions : (k \in x) # \E j \in 0..k-1 : j \in x}

test_isTmax(x) == Truth(x = TMax)
test_allOddBits(x) == Truth(\A i \in 0..15 : 2*i + 1 \in x)
test_isAsciiDigit(x) == Truth(AtMost(Literal(48), x) /\ AtMost(x, Literal(57)))
test_conditional(x, y, z) == IF x # {} THEN y ELSE z
test_isLessOrEqual(x, y) == Truth(AtMost(x, y))
test_logicalNeg(x) == Truth(x = {})

\* x, or -x-1, is shifted to the right until nothing is left.
test_howManyBits(x) ==
    LET a == IF 31 \in x THEN Not(x) ELSE x
    IN  IF a = {} THEN Literal(1) ELSE Literal(Highest(a) + 2)

\* The number that a float stands for, without its sign: the set of the
\* exponents of the powers of two that it is the sum of.
IsSpecial(uf) == ExponentBits \subseteq uf
Magnitude(uf) ==
    LET exp == Byte(Shr(uf, 23) \cap 0..7)
        fraction == uf \cap FractionBits
    IN  IF exp = 0 THEN {k - 149 : k \in fraction}
        ELSE {exp - 127} \cup {k - 150 + exp : k \in fraction}

\* The float for such a number, which has at most 24 digits, and infinity for
\* one that is too large.
Float(sign, number) ==
    LET e == Highest(number)
    IN  CASE number = {} -> sign
          [] number # {} /\ e < -126 -> sign \cup {p + 149 : p \in number}
          [] number # {} /\ e > 127 -> sign \cup ExponentBits
          [] OTHER -> sign \cup Shl(Literal(e + 127), 23)
                           \cup {p + 23 - e : p \in number \ {e}}

test_float_twice(uf) ==
    IF IsSpecial(uf) THEN uf ELSE Float(Sign(uf), {p + 1 : p \in Magnitude(uf)})

\* (float) x: the nearest number of 24 digits, of two the one whose last is 0.
Nearest(number) ==
    LET unit == Highest(number) - 23            \* its last digit
        low == {p \in number : p < unit}
        up == CHOOSE p \in unit..unit+24 : p \notin number /\ unit..p-1 \subseteq number
        isUp == unit - 1 \in low /\ (low # {unit - 1} \/ unit \in number)
    IN  CASE number = {} -> {}
          [] number # {} /\ ~isUp -> number \ low
          [] OTHER -> ((number \ low) \ (unit..up)) \cup {up}

test_float_i2f(x) == Float(Sign(x), Nearest(IF 31 \in x THEN Minus(x) ELSE x))

\* (int) f: towards zero; what does not fit, infinities and NaNs give the word
\* that the processor's conversion gives for them.
test_float_f2i(uf) ==
    LET whole == {p \in Magnitude(uf) : p >= 0}
    IN  IF IsSpecial(uf) \/ \E p \in whole : p > 30 THEN TMin
        ELSE IF 31 \in uf THEN Minus(whole) ELSE whole

-----------------------------------------------------------------------------
\* btest.c: the puzzles in the order of test_set, and how many arguments each has.
CONSTANTS
    TestRange,      \* TestRange[k]: values of each kind for one of k arguments
    RandomWords     \* RandomWords[k]: what random_val may give for them

VARIABLES
    puzzle,         \* position in test_set; behind its end when all are tested
    tested,         \* the arguments of the call that is compared, or none yet
    failures        \* puzzles that failed

testVars == <<puzzle, tested, failures>>

test_set ==
    <<"bitXor", "tmin", "isTmax", "allOddBits", "negate", "isAsciiDigit", "conditional",
      "isLessOrEqual", "logicalNeg", "howManyBits", "float_twice", "float_i2f", "float_f2i">>
FloatPuzzles == {"float_twice", "float_i2f", "float_f2i"}
Args(name) ==
    CASE name = "tmin" -> 0
      [] name \in {"bitXor", "isLessOrEqual"} -> 2
      [] name = "conditional" -> 3
      [] OTHER -> 1

\* Around zero, the least normalised float, one, below the greatest float, and
\* infinity and a NaN, each with both signs.
FloatVals(range) ==
    LET near == {Literal(i) : i \in 0..range-1}
        around(w) == {Plus(w, i) : i \in near} \cup {Plus(w, Minus(i)) : i \in near}
        below(w) == {Plus(w, Minus(i)) : i \in near}
        positive == near \cup around({23}) \cup around(23..29) \cup below(0..22 \cup 24..30)
                    \cup {ExponentBits, ExponentBits \cup {22}}
    IN  positive \cup {w \cup {31} : w \in positive}

gen_vals(name) ==
    LET range == TestRange[Args(name)]
        near == {Literal(i) : i \in 0..range-1}
    IN  IF name \in FloatPuzzles THEN FloatVals(range)
        ELSE near \cup {Minus(i) : i \in near} \cup {i \cup TMin : i \in near}
             \cup {TMax \ i : i \in near} \cup RandomWords[Args(name)]

Solution(name, x, y, z) ==
    CASE name = "bitXor" -> bitXor(x, y)
      [] name = "tmin" -> tmin
      [] name = "isTmax" -> isTmax(x)
      [] name = "allOddBits" -> allOddBits(x)
      [] name = "negate" -> negate(x)
      [] name = "isAsciiDigit" -> isAsciiDigit(x)
      [] name = "conditional" -> conditional(x, y, z)
      [] name = "isLessOrEqual" -> isLessOrEqual(x, y)
      [] name = "logicalNeg" -> logicalNeg(x)
      [] name = "howManyBits" -> howManyBits(x)
      [] name = "float_twice" -> float_twice(x)
      [] name = "float_i2f" -> float_i2f(x)
      [] name = "float_f2i" -> float_f2i(x)

TestFunction(name, x, y, z) ==
    CASE name = "bitXor" -> Xor(x, y)
      [] name = "tmin" -> TMin
      [] name = "isTmax" -> test_isTmax(x)
      [] name = "allOddBits" -> test_allOddBits(x)
      [] name = "negate" -> Minus(x)
      [] name = "isAsciiDigit" -> test_isAsciiDigit(x)
      [] name = "conditional" -> test_conditional(x, y, z)
      [] name = "isLessOrEqual" -> test_isLessOrEqual(x, y)
      [] name = "logicalNeg" -> test_logicalNeg(x)
      [] name = "howManyBits" -> test_howManyBits(x)
      [] name = "float_twice" -> test_float_twice(x)
      [] name = "float_i2f" -> test_float_i2f(x)
      [] name = "float_f2i" -> test_float_f2i(x)

Init == puzzle = 1 /\ tested = <<>> /\ failures = 0

\* test_function calls a solution on every combination of values, until one
\* differs.  The calls do not influence one another: a behaviour shows one.
TestPuzzle ==
    /\ puzzle <= Len(test_set) /\ tested = <<>>
    /\ LET name == test_set[puzzle]
           values(k) == IF k <= Args(name) THEN gen_vals(name) ELSE {{}}
       IN  \E x \in values(1), y \in values(2), z \in values(3) :
             /\ tested' = <<x, y, z>>
             /\ failures' = IF Solution(name, x, y, z) # TestFunction(name, x, y, z)
                          THEN failures + 1 ELSE failures
    /\ UNCHANGED puzzle

\* run_tests: on to the next puzzle.
NextPuzzle ==
    /\ puzzle <= Len(test_set)
    /\ puzzle' = puzzle + 1 /\ tested' = <<>>
    /\ UNCHANGED failures

Next == TestPuzzle \/ NextPuzzle

Spec == Init /\ [][Next]_testVars
=============================================================================
