------------------------------ MODULE Fixnums ------------------------------
(***************************************************************************)
(* Arithmetic of the virtual machine on tagged words: what each            *)
(* instruction computes from the two words on top of the value stack, with *)
(* the tricks it plays on tags, against what the numbers are.  A word is   *)
(* its signed value; TLC runs all pairs of words of a small width.         *)
(***************************************************************************)
EXTENDS Integers

CONSTANT WordSize       \* OAK_WORD_SIZE

FixnumAssumption == WordSize \in Nat /\ WordSize >= 6 /\ WordSize % 2 = 0

VARIABLES instr, x, y, result, native

vars == <<instr, x, y, result, native>>

TagSize == 2
Width   == WordSize - TagSize                           \* bits of a fixnum
Words   == (-(2 ^ (WordSize - 1))) .. 2 ^ (WordSize - 1) - 1
Ints    == (-(2 ^ (Width - 1))) .. 2 ^ (Width - 1) - 1
Trap    == 2 ^ WordSize                                 \* outcomes that are no word

\* C's conversion to ssize_t.
Wrap(i) == ((i + 2 ^ (WordSize - 1)) % (2 ^ WordSize)) - 2 ^ (WordSize - 1)

IsInt(w)    == w % 4 = 0
RefToInt(r) == r \div 4
IntToRef(i) == Wrap(4 * i)
MinRef      == -(2 ^ (WordSize - 1))
Bit(w, i)   == (w \div (2 ^ i)) % 2
Sum(f)      == LET upto[n \in 0 .. WordSize] == IF n = 0 THEN 0 ELSE upto[n - 1] + f[n - 1] * 2 ^ (n - 1)
               IN  Wrap(upto[WordSize])
Abs(i)      == IF i < 0 THEN -i ELSE i
Sign(i)     == IF i < 0 THEN -1 ELSE IF i = 0 THEN 0 ELSE 1

\* C's / and %.
Truncated(a, b) == Sign(a) * Sign(b) * (Abs(a) \div Abs(b))
Rest(a, b)      == a - b * Truncated(a, b)

\* Mutant: two bits are looked at instead of three.
OverflownTwo(i) == (Wrap(i) \div (2 ^ (WordSize - TagSize))) % 4 \notin {0, 3}

\* OVERFLOWN_INT: the high three bits differ.
OverflownInt(i) == (Wrap(i) \div (2 ^ (WordSize - (TagSize + 1)))) % 8 \notin {0, 7}

Checked(i) == IF OverflownInt(i) THEN Trap ELSE IntToRef(i)

----------------------------------------------------------------------------
(* The instructions.                                                       *)

Plus(a, b)     == Checked(Wrap(RefToInt(a) + RefToInt(b)))
Subtract(a, b) == Checked(Wrap(RefToInt(a) - RefToInt(b)))
Negate(a, b)   == IF a = MinRef THEN Trap ELSE Wrap(-a)

\* The double word version, and the one by halves for compilers without.
TimesWide(a, b) ==
    LET p == RefToInt(a) * RefToInt(b)
    IN  IF p \div (2 ^ (WordSize - (TagSize + 1))) \notin {0, -1} THEN Trap ELSE IntToRef(p)

TimesHalves(a, b) ==
    LET half == 2 ^ (Width \div 2)
        ua   == Abs(RefToInt(a))
        ub   == Abs(RefToInt(b))
        hllh == (ua % half) * (ub \div half) + (ua \div half) * (ub % half)
        answer == Wrap(hllh * half + (ua % half) * (ub % half))
        neg  == (RefToInt(a) < 0) # (RefToInt(b) < 0)
    IN  IF (ua \div half) * (ub \div half) # 0 \/ hllh \div half # 0 THEN Trap
        ELSE Checked(IF neg THEN -answer ELSE answer)

Undivided(a, b) == b = 0 \/ (b = IntToRef(-1) /\ a = MinRef)

Div(a, b) == IF Undivided(a, b) THEN Trap ELSE IntToRef(Truncated(a, b))

Modulo(a, b) ==
    LET r == Rest(RefToInt(a), RefToInt(b))
    IN  IF b = 0 THEN Trap
        ELSE IntToRef(IF (r < 0 /\ b > 0) \/ (b < 0 /\ a > 0 /\ r > 0) THEN r + RefToInt(b) ELSE r)

Remainder(a, b) == IF b = 0 THEN Trap ELSE IntToRef(Rest(RefToInt(a), RefToInt(b)))

QuotientM(a, b) ==
    LET q == Truncated(a, b)
    IN  IF Undivided(a, b) THEN Trap
        ELSE IntToRef(IF (a < 0 /\ b > 0 /\ q * b > a) \/ (b < 0 /\ a > 0 /\ q * b < a) THEN q - 1 ELSE q)

\* Right shifts saturate; left shifts trap when bits are lost.
Ash(a, b) ==
    LET n == RefToInt(a)
        s == RefToInt(b)
        r == Wrap(n * 2 ^ s)
    IN  IF s < 0 THEN IF -s >= Width THEN IntToRef(IF n < 0 THEN -1 ELSE 0) ELSE IntToRef(n \div (2 ^ (-s)))
        ELSE IF n = 0 \/ s = 0 THEN IntToRef(n)
        ELSE IF s >= Width \/ r \div (2 ^ s) # n THEN Trap ELSE Checked(r)

\* The word is rotated as it is; what falls into the tag is masked off.
Rot(a, b) ==
    LET s == RefToInt(b) % Width
        u == a % (2 ^ WordSize)
    IN  IF s = 0 THEN a
        ELSE Sum([i \in 0 .. WordSize - 1 |->
                    IF i < TagSize THEN 0
                    ELSE LET shifted == (u * 2 ^ s) % (2 ^ WordSize)
                         IN  IF Bit(shifted, i) = 1 \/ Bit(u \div (2 ^ (Width - s)), i) = 1 THEN 1 ELSE 0])

FxPlus(a, b)  == Wrap(a + b)
FxTimes(a, b) == Wrap(RefToInt(a) * b)

\* LOG-NOT: complement, less the tag that complementing made; LOG-OP with the AND spec.
LogNot(a, b) == Wrap((-a) - 1 - 3)
LogAnd(a, b) == Sum([i \in 0 .. WordSize - 1 |-> IF i < TagSize THEN 0 ELSE Bit(a, i) * Bit(b, i)])

\* Native code: ON_TIMES and ON_FITS, oak_rt_ash, oak_rt_rot.
OnTimes(a, b) ==
    LET p == RefToInt(a) * RefToInt(b)
    IN  IF p \in Words /\ ~ OverflownInt(p) THEN IntToRef(p) ELSE Trap

OakRtAsh(a, b) ==
    LET n == RefToInt(a)
        s == RefToInt(b)
        r == Wrap(n * 2 ^ s)
    IN  CASE s < 0 /\ -s >= Width              -> IntToRef(IF n < 0 THEN -1 ELSE 0)
          [] s < 0 /\ -s < Width               -> IntToRef(n \div (2 ^ (-s)))
          [] s >= 0 /\ (n = 0 \/ s = 0)         -> IntToRef(n)
          [] OTHER -> IF s >= Width \/ r \div (2 ^ s) # n \/ OverflownInt(r) THEN Trap ELSE IntToRef(r)

----------------------------------------------------------------------------
Compute(i, a, b) ==
    CASE i = "plus" -> Plus(a, b)             [] i = "subtract" -> Subtract(a, b)
      [] i = "negate" -> Negate(a, b)         [] i = "times" -> TimesWide(a, b)
      [] i = "times halves" -> TimesHalves(a, b)
      [] i = "div" -> Div(a, b)               [] i = "modulo" -> Modulo(a, b)
      [] i = "remainder" -> Remainder(a, b)   [] i = "quotientm" -> QuotientM(a, b)
      [] i = "ash" -> Ash(a, b)               [] i = "rot" -> Rot(a, b)
      [] i = "fx-plus" -> FxPlus(a, b)        [] i = "fx-times" -> FxTimes(a, b)
      [] i = "log-not" -> LogNot(a, b)        [] i = "log-and" -> LogAnd(a, b)

Native(i, a, b) ==
    CASE i \in {"times", "times halves"} -> OnTimes(a, b)
      [] i = "ash" -> OakRtAsh(a, b)
      [] OTHER -> Compute(i, a, b)

Unary  == {"negate", "log-not"}
Instrs == {"plus", "subtract", "times", "times halves", "div", "modulo", "remainder", "quotientm",
           "ash", "rot", "fx-plus", "fx-times", "log-and"} \cup Unary

None == Trap + 1

Init ==
    /\ instr \in Instrs /\ result = None /\ native = None
    /\ x \in Words /\ y \in (IF instr \in Unary THEN {0} ELSE Words)

\* The tags are checked first.
Step ==
    /\ result = None
    /\ result' = IF IsInt(x) /\ IsInt(y) THEN Compute(instr, x, y) ELSE Trap
    /\ native' = IF IsInt(x) /\ IsInt(y) THEN Native(instr, x, y) ELSE Trap
    /\ UNCHANGED <<instr, x, y>>

Done == result # None /\ UNCHANGED vars

Next == Step \/ Done

Spec == Init /\ [][Next]_vars

----------------------------------------------------------------------------
\* What the numbers are: a set with the answer, empty when there is none.
Truth(i, a, b) ==
    CASE i = "plus" -> {a + b}         [] i = "subtract" -> {a - b}     [] i = "negate" -> {-a}
      [] i \in {"times", "times halves"} -> {a * b}
      [] i = "div" -> {q \in (-100) .. 100 : b # 0 /\ Abs(a - q * b) < Abs(b) /\ a * (a - q * b) >= 0}
      [] i = "remainder" -> {r \in (-100) .. 100 : b # 0 /\ Abs(r) < Abs(b) /\ a * r >= 0 /\ (a - r) % Abs(b) = 0}
      [] i = "modulo" -> {r \in (-100) .. 100 : b # 0 /\ Abs(r) < Abs(b) /\ b * r >= 0 /\ (a - r) % Abs(b) = 0}
      [] i = "quotientm" -> {q \in (-100) .. 100 : b # 0 /\ Abs(a - q * b) < Abs(b) /\ b * (a - q * b) >= 0}
      [] i = "ash" -> IF b >= 0 THEN {a * 2 ^ b} ELSE {a \div (2 ^ (-b))}
      [] i = "rot" -> {r \in Ints : \A n \in 0 .. Width - 1 : Bit(r, (n + b) % Width) = Bit(a, n)}
      [] i = "fx-plus" -> {r \in Ints : (r - (a + b)) % (2 ^ Width) = 0}
      [] i = "fx-times" -> {r \in Ints : (r - a * b) % (2 ^ Width) = 0}
      [] i = "log-not" -> {(-a) - 1}
      [] i = "log-and" -> {r \in Ints : \A n \in 0 .. Width - 1 : Bit(r, n) = Bit(a, n) * Bit(b, n)}

\* An instruction gives the number as a fixnum, and traps, to the generic operation
\* on bignums, exactly when there is no such fixnum or an operand is none; the
\* native version of it does the same.
ArithmeticExact ==
    result # None =>
        /\ result = (IF ~ (IsInt(x) /\ IsInt(y)) THEN Trap
                     ELSE LET t == Truth(instr, RefToInt(x), RefToInt(y)) \cap Ints
                          IN  IF t = {} THEN Trap ELSE 4 * (CHOOSE r \in t : TRUE))
        /\ native = result
=============================================================================
