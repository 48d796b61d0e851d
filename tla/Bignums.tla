------------------------------ MODULE Bignums ------------------------------
(***************************************************************************)
(* Integers of any size: what the traps of the arithmetic instructions and *)
(* the methods of bignum.oak compute, digit by digit, against what the     *)
(* numbers are.  A bignum is a sign and digits to a base, the lowest       *)
(* first; a number that is small enough is a fixnum.                       *)
(***************************************************************************)
EXTENDS Integers, Sequences, SequencesExt, FiniteSetsExt

CONSTANTS
    Radix, DigitsPerChunk,      \* ten, and decimal-digits-per-bignum-chunk
    FixnumBits,
    TradeoffPoint,              \* multiplication-tradeoff-point
    ChunkSize,                  \* bitop-chunk-size
    Xs, Ys                      \* bounds: the operands

Base     == Radix ^ DigitsPerChunk
Greatest == 2 ^ (FixnumBits - 1) - 1
Least    == -(2 ^ (FixnumBits - 1))

\* The comment on BIGNUM-BASE: the product of two digits and two carries are a fixnum.
BignumsAssumption ==
    (Base - 1) * (Base - 1) + 2 * (Base - 1) <= Greatest /\ TradeoffPoint >= 2 /\ ChunkSize <= Greatest

VARIABLES op, x, y, result, printed

vars == <<op, x, y, result, printed>>

----------------------------------------------------------------------------
(* Lists of digits.  fx-plus and fx-times do not trap: they wrap.          *)

Fx(n) == ((n - Least) % (2 ^ FixnumBits)) + Least

Digit(l, i)  == IF i \in DOMAIN l THEN l[i] ELSE 0
Stripped(l)  == SubSeq(l, 1, Max({0} \cup {i \in DOMAIN l : l[i] # 0}))
Finished(r)  == IF r.carry = 0 THEN r.digits ELSE Append(r.digits, r.carry)
Negative     == <<-1>>                                  \* the error of diff-digitlists

\* The loop that the operations on lists share: carry along sums and products.
Carried(sums) ==
    FoldLeft(LAMBDA r, s : LET d == Fx(r.carry + Fx(s))
                           IN  [digits |-> Append(r.digits, d % Base), carry |-> d \div Base],
             [digits |-> <<>>, carry |-> 0], sums)

RECURSIVE NormalizeDigitlist(_, _)
NormalizeDigitlist(l, carry) ==
    IF l # <<>> THEN <<(carry + Head(l)) % Base>> \o NormalizeDigitlist(Tail(l), (carry + Head(l)) \div Base)
    ELSE IF carry = 0 THEN <<>> ELSE NormalizeDigitlist(<<carry>>, 0)

DigitlistLess(l1, l2) ==
    IF Len(l1) # Len(l2) THEN Len(l1) < Len(l2)
    ELSE \E i \in DOMAIN l1 : l1[i] < l2[i] /\ \A j \in i + 1 .. Len(l1) : l1[j] = l2[j]

SumDigitlists(l1, l2) ==
    Finished(Carried([i \in 1 .. Max({Len(l1), Len(l2)}) |-> Digit(l1, i) + Digit(l2, i)]))

Unborrowed(r)            == IF r.carry = 0 THEN Stripped(r.digits) ELSE Negative
DiffDigitlists(l1, l2)   ==
    IF Len(l2) <= Len(l1) THEN Unborrowed(Carried([i \in DOMAIN l1 |-> l1[i] - Digit(l2, i)])) ELSE Negative

SimpleMultiplyStep(dig, l) == IF dig = 0 THEN <<>> ELSE Finished(Carried([i \in DOMAIN l |-> dig * l[i]]))

\* A row for every digit of the shorter list, added where it belongs.
LongMultiplication(l1, l2) ==
    FoldLeft(LAMBDA acc, j :
                IF l2[j] = 0 THEN acc
                ELSE LET row == Finished(Carried([i \in DOMAIN l1 |-> acc[i + j - 1] + l1[i] * l2[j]]))
                         n   == j - 1 + Len(row)
                     IN  SubSeq(acc, 1, j - 1) \o row \o SubSeq(acc, n + 1, Len(acc)),
             [i \in 1 .. Len(l1) + Len(l2) - 1 |-> 0], [j \in DOMAIN l2 |-> j])

ShiftSumDigitlists(l1, l2, d) ==
    [i \in 1 .. d |-> Digit(l2, i)] \o SumDigitlists(l1, SubSeq(l2, d + 1, Len(l2)))

\* Divide and conquer, for long lists.
RECURSIVE MultiplyDigitlists(_, _)
MultiplyDigitlists(l1, l2) ==
    LET long  == IF Len(l2) > Len(l1) THEN l2 ELSE l1
        short == IF Len(l2) > Len(l1) THEN l1 ELSE l2
        half  == Len(long) \div 2
        low(l)  == IF Len(l) > half THEN Stripped(SubSeq(l, 1, half)) ELSE l
        high(l) == SubSeq(l, half + 1, Len(l))
        whole(l) == SumDigitlists(high(l), low(l))
        w == MultiplyDigitlists(low(long), low(short))
        v == MultiplyDigitlists(high(long), high(short))
        u == MultiplyDigitlists(whole(long), whole(short))
    IN  CASE short = <<>> -> <<>>
          [] short # <<>> /\ Len(short) < TradeoffPoint -> LongMultiplication(long, short)
          [] Len(short) >= TradeoffPoint /\ high(short) # <<>> ->
                ShiftSumDigitlists(ShiftSumDigitlists(v, DiffDigitlists(u, SumDigitlists(v, w)), half), w, half)
          [] Len(short) >= TradeoffPoint /\ high(short) = <<>> ->
                ShiftSumDigitlists(DiffDigitlists(MultiplyDigitlists(whole(long), short), w), w, half)

----------------------------------------------------------------------------
(* Division.  One digit: [digit, rem, plus], where plus tells whether the  *)
(* branch was taken that prints a + because it "never happens".            *)

\* The leading digits times s, and what the next one adds to them.
Leading(l, s, n) ==
    LET top == Len(l)
    IN  Fx((IF n = 2 THEN Fx(Fx(l[top] * s) * Base) + Fx(l[top - 1] * s) ELSE Fx(l[top] * s))
           + Fx(l[top - n] * s) \div Base)

Scale(top) == Max({t \in {Radix ^ k : k \in 0 .. DigitsPerChunk} : t = 1 \/ top * t < Base})

GuessDigit(inlist, divisor, s) ==
    Max({1, Min({Base - 1, Leading(inlist, s, 2) \div Leading(divisor, s, IF Len(inlist) = Len(divisor) THEN 2 ELSE 1)})})

Short(l) == IF Len(l) >= 2 THEN Fx(Base * l[2] + l[1]) ELSE l[1]

\* The digit is too large by more, and by one if something is left.
TakenOff(dig, more, divisor) ==
    IF more.rem = <<>> THEN [more EXCEPT !.digit = dig - more.digit]
    ELSE [more EXCEPT !.digit = dig - more.digit - 1, !.rem = DiffDigitlists(divisor, more.rem)]

RECURSIVE QuoremToGetDigit(_, _), FixGuess(_, _, _, _, _)

FixGuess(inlist, divisor, dig, prod, first) ==
    IF DigitlistLess(inlist, prod)
    THEN IF first THEN FixGuess(inlist, divisor, dig - 1, DiffDigitlists(prod, divisor), FALSE)
         ELSE TakenOff(dig, QuoremToGetDigit(DiffDigitlists(prod, inlist), divisor), divisor)
    ELSE IF DigitlistLess(DiffDigitlists(inlist, divisor), prod)
         THEN [digit |-> dig, rem |-> DiffDigitlists(inlist, prod), plus |-> FALSE]
         ELSE [FixGuess(inlist, divisor, dig + 1, SumDigitlists(prod, divisor), FALSE) EXCEPT !.plus = TRUE]

TryGuess(inlist, divisor, guess) == FixGuess(inlist, divisor, guess, SimpleMultiplyStep(guess, divisor), TRUE)

QuoremToGetDigit(inlist, divisor) ==
    IF DigitlistLess(inlist, divisor) THEN [digit |-> 0, rem |-> inlist, plus |-> FALSE]
    ELSE IF Len(inlist) + Len(divisor) < 5
    THEN [digit |-> Short(inlist) \div Short(divisor),
          rem |-> NormalizeDigitlist(<<>>, Short(inlist) % Short(divisor)), plus |-> FALSE]
    ELSE TryGuess(inlist, divisor, GuessDigit(inlist, divisor, Scale(Last(inlist))))

\* The digits so far and the remainder, with one digit more of the dividend.
AccumulateDigit(old, r) ==
    [quo |-> IF r.digit = 0 /\ old.quo = <<>> THEN <<>> ELSE <<r.digit>> \o old.quo,
     rem |-> r.rem, plus |-> old.plus \/ r.plus]

NextDividend(digits, rem) == IF digits \o rem = <<0>> THEN <<>> ELSE digits \o rem

QuoremDigitlists(inlist, divisor) ==
    LET rest == Len(inlist) - Len(divisor)
        none == [quo |-> <<>>, rem |-> <<>>, plus |-> FALSE]
        pieces == [i \in 1 .. rest |-> <<inlist[i]>>] \o <<SubSeq(inlist, rest + 1, Len(inlist))>>
    IN  IF DigitlistLess(inlist, divisor) THEN [none EXCEPT !.quo = <<0>>, !.rem = inlist]
        ELSE FoldRight(LAMBDA digits, r : AccumulateDigit(r, QuoremToGetDigit(NextDividend(digits, r.rem), divisor)),
                       pieces, none)

----------------------------------------------------------------------------
(* Numbers, and the methods that traps lead to.                            *)

Fixnum(n)       == <<"fixnum", n>>
Bignum(s, l)    == <<"bignum", s, l>>
IsFixnum(a)     == a[1] = "fixnum"
BignumSign(a)   == IF ~ IsFixnum(a) THEN a[2] ELSE IF a[2] < 0 THEN -1 ELSE 1
BignumDigits(a) == IF ~ IsFixnum(a) THEN a[3] ELSE NormalizeDigitlist(<<>>, IF a[2] < 0 THEN -a[2] ELSE a[2])
Promoted(a)     == Bignum(BignumSign(a), BignumDigits(a))
IsNegative(a)   == IF IsFixnum(a) THEN a[2] < 0 ELSE a[2] = -1
IsZero(a)       == a = Fixnum(0)
IsPositive(a)   == ~ IsNegative(a) /\ ~ IsZero(a)

LeastPositive == NormalizeDigitlist(NormalizeDigitlist(<<Greatest>>, 0), 1)
LeastNegative == NormalizeDigitlist(LeastPositive, 1)

\* Places are multiplied, and digits added, without traps.
MaybeMakeBignum(s, l) ==
    IF DigitlistLess(l, IF s = 1 THEN LeastPositive ELSE LeastNegative)
    THEN Fixnum(Fx(FoldRight(LAMBDA d, total : total * Base + s * d, l, 0)))
    ELSE Bignum(s, l)

Fits(n)     == n \in Least .. Greatest
Fixnums2(a, b) == IsFixnum(a) /\ IsFixnum(b)

BigPlus(a, b) ==
    LET la == BignumDigits(a)  lb == BignumDigits(b)
        larger == DigitlistLess(lb, la)
    IN  MaybeMakeBignum(BignumSign(IF larger THEN a ELSE b),
            IF BignumSign(a) = BignumSign(b) THEN SumDigitlists(la, lb)
            ELSE DiffDigitlists(IF larger THEN la ELSE lb, IF larger THEN lb ELSE la))

\* plus/2 and times/2 dispatch on a bignum, and the instructions promote one operand.
Swaps(a, b) == IsFixnum(a) /\ ~ IsFixnum(b)

Plus(a, b) ==
    IF Fixnums2(a, b) /\ Fits(a[2] + b[2]) THEN Fixnum(a[2] + b[2])
    ELSE BigPlus(IF Swaps(a, b) THEN b ELSE Promoted(a), IF Swaps(a, b) THEN a ELSE b)

Minus(a) ==
    IF ~ IsFixnum(a) THEN MaybeMakeBignum(-a[2], a[3])
    ELSE IF a[2] = Least THEN Bignum(1, LeastPositive) ELSE Fixnum(-a[2])

Subtract(a, b) ==
    IF Fixnums2(a, b) /\ Fits(a[2] - b[2]) THEN Fixnum(a[2] - b[2]) ELSE Plus(a, Minus(b))

BigTimes(a, b) ==
    IF IsZero(b) THEN Fixnum(0)
    ELSE MaybeMakeBignum(BignumSign(a) * BignumSign(b),
            IF IsFixnum(b) /\ b[2] \in 1 - Base .. Base - 1 THEN SimpleMultiplyStep(BignumDigits(b)[1], BignumDigits(a))
            ELSE MultiplyDigitlists(BignumDigits(a), BignumDigits(b)))

Times(a, b) ==
    IF Fixnums2(a, b) /\ Fits(a[2] * b[2]) THEN Fixnum(a[2] * b[2])
    ELSE BigTimes(IF Swaps(a, b) THEN b ELSE Promoted(a), IF Swaps(a, b) THEN a ELSE b)

NumberLess(a, b) ==
    CASE Fixnums2(a, b)                   -> a[2] < b[2]
      [] ~ IsFixnum(a) /\ IsFixnum(b)     -> IsNegative(a)
      [] IsFixnum(a) /\ ~ IsFixnum(b)     -> ~ IsNegative(b)
      [] ~ IsFixnum(a) /\ ~ IsFixnum(b)   ->
            IF a[2] # b[2] THEN a[2] = -1
            ELSE IF a[2] = -1 THEN DigitlistLess(b[3], a[3]) ELSE DigitlistLess(a[3], b[3])

Magnitude(n)  == IF n < 0 THEN -n ELSE n
Toward0(n, d) == (IF (n < 0) = (d < 0) THEN 1 ELSE -1) * (Magnitude(n) \div Magnitude(d))

\* A bignum is taken to be larger than every fixnum.
Quotient(a, b) ==
    CASE Fixnums2(a, b) -> IF a[2] = Least /\ b[2] = -1 THEN Minus(a) ELSE Fixnum(Toward0(a[2], b[2]))
      [] IsFixnum(a) /\ ~ IsFixnum(b) -> Fixnum(0)
      [] ~ IsFixnum(a) -> MaybeMakeBignum(BignumSign(a) * BignumSign(b), QuoremDigitlists(a[3], BignumDigits(b)).quo)

Remainder(a, b) ==
    CASE Fixnums2(a, b) -> Fixnum(a[2] - b[2] * Toward0(a[2], b[2]))
      [] IsFixnum(a) /\ ~ IsFixnum(b) -> a
      [] ~ IsFixnum(a) -> MaybeMakeBignum(BignumSign(a), QuoremDigitlists(a[3], BignumDigits(b)).rem)

\* For fixnums the instruction: the same, on machine words.
Floored(q, a, b) ==
    IF \/ IsNegative(a) /\ ~ IsNegative(b) /\ NumberLess(a, Times(q, b))
       \/ IsNegative(b) /\ ~ IsNegative(a) /\ NumberLess(Times(q, b), a)
    THEN Subtract(q, Fixnum(1)) ELSE q

QuotientM(a, b) ==
    IF Swaps(a, b) THEN Fixnum(IF IsZero(a) \/ IsNegative(a) = IsNegative(b) THEN 0 ELSE -1)
    ELSE Floored(Quotient(a, b), a, b)

Raised(r, a, b) ==
    IF (IsNegative(r) /\ IsPositive(b)) \/ (IsNegative(b) /\ IsPositive(a) /\ IsPositive(r)) THEN Plus(r, b) ELSE r

Modulo(a, b) ==
    IF ~ Swaps(a, b) THEN Raised(Remainder(a, b), a, b)
    ELSE IF IsZero(a) \/ IsNegative(a) = IsNegative(b) THEN a ELSE Plus(a, b)

----------------------------------------------------------------------------
(* Bitwise operations on bignums, a chunk at a time; f gives one bit.      *)

Bit(n, i) == (n \div (2 ^ i)) % 2

OnBits(o) == [i, j \in {0, 1} |-> CASE o = "bit-and" -> i * j
                                    [] o = "bit-nor" -> (1 - i) * (1 - j)
                                    [] o = "bit-xor" -> (i + j) % 2]

OnChunks(f, ns) ==
    LET bits[i \in 0 .. FixnumBits] ==
            IF 2 ^ i >= ChunkSize THEN 0 ELSE 2 ^ i * f[Bit(ns[1], i), Bit(ns[2], i)] + bits[i + 1]
    IN  bits[0]

AllSign(a) == a \in {Fixnum(0), Fixnum(-1)}
Chunks(as) == [i \in 1 .. 2 |-> Modulo(as[i], Fixnum(ChunkSize))[2]]
Others(as) == [i \in 1 .. 2 |-> QuotientM(as[i], Fixnum(ChunkSize))]

RECURSIVE IntegerBitop(_, _, _, _)
IntegerBitop(f, as, place, acc) ==
    IF \A i \in 1 .. 2 : AllSign(as[i])
    THEN IF f[-as[1][2], -as[2][2]] = 1 THEN Subtract(acc, place) ELSE acc
    ELSE IntegerBitop(f, Others(as), Times(place, Fixnum(ChunkSize)),
                      Plus(acc, Times(place, Fixnum(OnChunks(f, Chunks(as))))))

----------------------------------------------------------------------------
Divisions == {"quotient", "remainder", "quotientm", "modulo"}
Bitops    == {"bit-and", "bit-nor", "bit-xor"}
Ops       == {"+", "-", "*", "<"} \cup Divisions \cup Bitops

Compute(o, a, b) ==
    CASE o = "+" -> Plus(a, b)                  [] o = "-" -> Subtract(a, b)
      [] o = "*" -> Times(a, b)                 [] o = "quotient" -> Quotient(a, b)
      [] o = "remainder" -> Remainder(a, b)     [] o = "quotientm" -> QuotientM(a, b)
      [] o = "modulo" -> Modulo(a, b)           [] o = "<" -> Fixnum(IF NumberLess(a, b) THEN 1 ELSE 0)
      [] o \in Bitops -> IntegerBitop(OnBits(o), <<a, b>>, Fixnum(1), Fixnum(0))

Number(n) == IF Fits(n) THEN Fixnum(n) ELSE Bignum(IF n < 0 THEN -1 ELSE 1, NormalizeDigitlist(<<>>, Magnitude(n)))
None == <<"none">>

\* Nobody divides by zero; the bitwise instructions do what is left out here.
Init ==
    /\ op \in Ops /\ x \in Xs /\ y \in Ys
    /\ op \in Divisions => y # 0
    /\ op \in Bitops => ~ (Fits(x) /\ Fits(y))
    /\ result = None /\ printed = FALSE

Step ==
    /\ result = None
    /\ result' = Compute(op, Number(x), Number(y))
    /\ printed' = (op \in Divisions /\ ~ Fits(x)
                     /\ QuoremDigitlists(BignumDigits(Number(x)), BignumDigits(Number(y))).plus)
    /\ UNCHANGED <<op, x, y>>

Done == result # None /\ UNCHANGED vars

Next == Step \/ Done

Spec == Init /\ [][Next]_vars

----------------------------------------------------------------------------
Agrees(o, r) ==
    CASE o = "+" -> r = x + y     [] o = "-" -> r = x - y     [] o = "*" -> r = x * y
      [] o = "quotient" -> Magnitude(x - r * y) < Magnitude(y) /\ x * (x - r * y) >= 0
      [] o = "remainder" -> Magnitude(r) < Magnitude(y) /\ x * r >= 0 /\ (x - r) % Magnitude(y) = 0
      [] o = "quotientm" -> Magnitude(x - r * y) < Magnitude(y) /\ y * (x - r * y) >= 0
      [] o = "modulo" -> Magnitude(r) < Magnitude(y) /\ y * r >= 0 /\ (x - r) % Magnitude(y) = 0
      [] o = "<" -> r = (IF x < y THEN 1 ELSE 0)
      [] o \in Bitops -> \A i \in 0 .. 15 : Bit(r, i) = OnBits(o)[Bit(x, i), Bit(y, i)]

Value(a) == IF IsFixnum(a) THEN a[2] ELSE a[2] * FoldRight(LAMBDA d, total : total * Base + d, a[3], 0)

Exact == result # None => Agrees(op, Value(result)) /\ result = Number(Value(result))

\* One pair of numbers of equal magnitude is a fixnum and a bignum.
TooLarge == x = Least /\ y = -Least /\ op \in {"quotient", "remainder"}

\* Every operation gives the number, in the one form that numbers have, although digits
\* are estimated and fx-plus and fx-times do not notice when they overflow; and the
\* branch of the division that "never happens" is not taken.  One division is wrong:
\* that of the most negative fixnum by the least positive bignum (see Exact).
IntegersExact == (~ TooLarge => Exact) /\ ~ printed
=============================================================================
