-------------------------------- MODULE Alu --------------------------------
(***************************************************************************)
(* The arithmetic, shift and logic instructions (instructions.h), the      *)
(* flags they leave (flags.h) and the conditions of the branches that read *)
(* them (operands.h). A word is a number 0 .. 2 * Half - 1, as uint32_t is *)
(* 0 .. 2^32 - 1; Signed is its value as an int32_t. The debug build's     *)
(* mark of invalid flags is in Exec.                                       *)
(***************************************************************************)
EXTENDS Integers

CONSTANTS
    Width,      \* bits of a word
    Half,       \* 2^(Width - 1), the word 0x80000000
    Reg,        \* the general registers
    Immediate,  \* the words an immediate operand can be
    None

ASSUME WidthAssumption == /\ Width \in Nat \ {0}
                          /\ Half \in Nat \ {0} /\ Half = 2^(Width - 1)

\* the law of the powers of two, as far as shifts go (the provers lack it)
ASSUME PowerAssumption == 2^0 = 1 /\ \A n \in 0 .. Width - 1 : 2^(n + 1) = 2 * 2^n

Modulus == 2 * Half
Word    == 0 .. Modulus - 1
Bit     == 0 .. 1
Flags   == [sign : Bit, overflow : Bit, carry : Bit, parity : Bit, zero : Bit]

ASSUME OperandAssumption == Immediate \subseteq Word

IDT_DIVERROR_NUM == 40

Signed(x) == IF x < Half THEN x ELSE x - Modulus
Wrap(x)   == x % Modulus
Plus(x, y)  == IF x + y < Modulus THEN x + y ELSE x + y - Modulus
Minus(x, y) == IF x >= y THEN x - y ELSE x - y + Modulus
BitOf(x, i) == (x \div 2^i) % 2
Truth(p)  == IF p THEN 1 ELSE 0
msb(x)    == Truth(x >= Half)

VARIABLES
    GR, FLAGR,
    trap,       \* what interrupt_dispatch_nonmask was last asked for, or None
    killed,     \* an undefined division has ended the process
    last        \* history: the instruction that set the flags, its operands
                \* and its result; None for those the properties leave out

vars == <<GR, FLAGR, trap, killed, last>>

Told == [op : {"add", "sub", "neg", "shl", "shr", "sar", "rol", "ror"},
         dest : Word, src : Word, result : Word]

TypeOK == /\ GR \in [Reg -> Word]
          /\ FLAGR \in Flags
          /\ trap \in {IDT_DIVERROR_NUM, None}
          /\ killed \in BOOLEAN
          /\ last \in Told \union {None}

NoFlags == [sign |-> 0, overflow |-> 0, carry |-> 0, parity |-> 0, zero |-> 0]

Init == /\ GR = [r \in Reg |-> 0]
        /\ FLAGR = NoFlags
        /\ trap = None
        /\ killed = FALSE
        /\ last = None

-----------------------------------------------------------------------------
(* flags.h *)

\* mutant of make_flags: the complement keeps all its bits
make_flags_untruncated(value) ==
    [NoFlags EXCEPT !.zero = Truth(value = 0), !.parity = -1 - (value % 2),
                    !.sign = msb(value)]

make_flags(value) ==
    [NoFlags EXCEPT !.zero = Truth(value = 0), !.parity = 1 - (value % 2),
                    !.sign = msb(value)]

\* mutant of SumOverflows: the operands only have to differ from the result
SumOverflowsEither(result, dest, src) ==
    msb(dest) # msb(result) \/ msb(src) # msb(result)

SumOverflows(result, dest, src) ==
    msb(dest) # msb(result) /\ msb(src) # msb(result)

make_flags_add(result, dest, src) ==
    [make_flags(result) EXCEPT !.overflow = Truth(SumOverflows(result, dest, src)),
                               !.carry = Truth(dest + src >= Modulus)]

\* mutant of NoBorrow: subtracting zero borrows
NoBorrowAdded(dest, src) == dest + Minus(0, src) >= Modulus

NoBorrow(dest, src) == src = 0 \/ dest + Minus(0, src) >= Modulus

make_flags_sub(result, dest, src) ==
    [make_flags(result) EXCEPT
        !.overflow = Truth(msb(dest) # msb(result) /\ msb(dest) # msb(src)),
        !.carry = Truth(NoBorrow(dest, src))]

\* check_condition
Condition(c) ==
    \/ c = 0
    \/ c = 1  /\ FLAGR.zero = 1
    \/ c = 2  /\ FLAGR.zero = 0
    \/ c = 3  /\ FLAGR.sign = 1
    \/ c = 4  /\ FLAGR.sign = 0
    \/ c = 5  /\ FLAGR.parity = 1
    \/ c = 6  /\ FLAGR.parity = 0
    \/ c = 7  /\ FLAGR.overflow = 1
    \/ c = 8  /\ FLAGR.carry = 1
    \/ c = 9  /\ FLAGR.carry = 0
    \/ c = 10 /\ FLAGR.carry = 1 /\ FLAGR.zero = 0
    \/ c = 11 /\ (FLAGR.carry = 0 \/ FLAGR.zero = 1)
    \/ c = 12 /\ FLAGR.sign = FLAGR.overflow
    \/ c = 13 /\ FLAGR.sign # FLAGR.overflow
    \/ c = 14 /\ FLAGR.sign = FLAGR.overflow /\ FLAGR.zero = 0
    \/ c = 15 /\ (FLAGR.sign # FLAGR.overflow \/ FLAGR.zero = 1)

-----------------------------------------------------------------------------
(* instructions.h: d is the destination, s a source register, x the source *)
(* operand, a register or an immediate.                                    *)

Source == {GR[s] : s \in Reg} \union Immediate

\* An instruction writes v to d and leaves the flags f.
Sets(d, v, f) == /\ ~killed
                 /\ GR' = [GR EXCEPT ![d] = v]
                 /\ FLAGR' = f
                 /\ trap' = None
                 /\ UNCHANGED killed

Tells(op, dest, src, result) ==
    last' = [op |-> op, dest |-> dest, src |-> src, result |-> result]

\* i_add, i_addc, which writes the carry to d
Add(d, x) == LET sum == Plus(GR[d], x)
             IN  /\ Sets(d, sum, make_flags_add(sum, GR[d], x))
                 /\ Tells("add", GR[d], x, sum)
Addc(d, x) == LET sum == Plus(GR[d], x)
                  f   == make_flags_add(sum, GR[d], x)
              IN  Sets(d, f.carry, f) /\ Tells("add", GR[d], x, sum)

\* i_sub, i_cmp
Sub(d, x) == LET difference == Minus(GR[d], x)
             IN  /\ Sets(d, difference, make_flags_sub(difference, GR[d], x))
                 /\ Tells("sub", GR[d], x, difference)
Cmp(d, x) == LET difference == Minus(GR[d], x)
             IN  /\ Sets(d, GR[d], make_flags_sub(difference, GR[d], x))
                 /\ Tells("sub", GR[d], x, difference)

\* i_inc, i_dec: the flags are made of s as it is after d was written, so
\* they tell about this sum only if d is another register.
Inc(d, s) ==
    LET sum == Plus(GR[s], 1)
    IN  \/ d # s /\ Sets(d, sum, make_flags_add(sum, GR[s], 1)) /\ Tells("add", GR[s], 1, sum)
        \/ d = s /\ Sets(d, sum, make_flags_add(sum, sum, 1)) /\ last' = None
Dec(d, s) ==
    LET difference == Minus(GR[s], 1)
    IN  \/ /\ d # s
           /\ Sets(d, difference, make_flags_sub(difference, GR[s], 1))
           /\ Tells("sub", GR[s], 1, difference)
        \/ d = s /\ Sets(d, difference, make_flags_sub(difference, difference, 1)) /\ last' = None

\* i_neg
Neg(d, s) == LET result == Minus(0, GR[s])
             IN  /\ Sets(d, result, [make_flags(result) EXCEPT !.overflow = msb(result)])
                 /\ Tells("neg", 0, GR[s], result)

\* i_mull, i_mulh, i_umulh
Mul(d, x) == /\ \E result \in {GR[d] * x, (Signed(GR[d]) * Signed(x)) \div Modulus,
                               (GR[d] * x) \div Modulus} :
                   Sets(d, Wrap(result), NoFlags)
             /\ last' = None

\* C divides the magnitudes and rounds towards zero.
Magnitude(x) == IF x < 0 THEN -x ELSE x
Quotient(x, y)  == LET q == Magnitude(x) \div Magnitude(y)
                   IN  IF (x < 0) = (y < 0) THEN q ELSE -q
Remainder(x, y) == x - y * Quotient(x, y)

\* i_div, i_mod, i_udiv, i_umod
DivError == /\ ~killed
            /\ trap' = IDT_DIVERROR_NUM
            /\ UNCHANGED <<GR, FLAGR, killed, last>>
Div(d, x) == LET y == GR[d]
             IN  \/ x = 0 /\ DivError
                 \/ /\ x # 0
                    /\ \E result \in {y \div x, y % x, Quotient(Signed(y), Signed(x)),
                                      Remainder(Signed(y), Signed(x))} :
                          Sets(d, Wrap(result), NoFlags)
                    /\ last' = None
                 \* the quotient is no int32_t: x86 ends the process
                 \/ /\ Signed(y) = -Half /\ Signed(x) = -1
                    /\ ~killed /\ killed' = TRUE
                    /\ UNCHANGED <<GR, FLAGR, trap, last>>

\* A shift by the width or more is undefined: the result is that of the
\* remaining amount (x86) or of shifting all bits out (Arm).
Amounts(n) == IF n \in 0 .. Width - 1 THEN {n} ELSE {n % Width, Width}
Left(x, n)  == Wrap(x * 2^n)
Right(x, n) == Wrap(x \div 2^n)
SignedRight(x, n) == Wrap(Signed(x) \div 2^n)

\* mutant of Rest: one bit too few comes from the other end
RestOneLess(n) == Width - n - 1

Rest(n) == Width - n

Shifts(op, d, n, result, carry) ==
    /\ Sets(d, result, [make_flags(result) EXCEPT !.carry = carry])
    /\ Tells(op, GR[d], n, result)

\* i_shl, i_shr, i_sar
Shl(d, n) == \E k \in Amounts(n), j \in Amounts(Rest(n)) :
                Shifts("shl", d, n, Left(GR[d], k), Right(GR[d], j) % 2)
Shr(d, n) == \E k \in Amounts(n), j \in Amounts(n - 1) :
                Shifts("shr", d, n, Right(GR[d], k), Right(GR[d], j) % 2)
Sar(d, n) == \E k \in Amounts(n), j \in Amounts(n - 1) :
                Shifts("sar", d, n, SignedRight(GR[d], k), SignedRight(GR[d], j) % 2)

\* The word whose bits are table's for the pairs of bits of x and y.
Bitwise(x, y, table) ==
    {z \in Word : \A i \in 0 .. Width - 1 : BitOf(z, i) = table[<<BitOf(x, i), BitOf(y, i)>>]}
And == [p \in Bit \X Bit |-> p[1] * p[2]]
Or  == [p \in Bit \X Bit |-> Truth(p[1] + p[2] > 0)]
Xor == [p \in Bit \X Bit |-> Truth(p[1] # p[2])]
Negated(table) == [p \in Bit \X Bit |-> 1 - table[p]]

\* i_rol, i_ror
Rol(d, n) == \E k \in Amounts(n), j \in Amounts(Rest(n)) :
                \E z \in Bitwise(Left(GR[d], k), Right(GR[d], j), Or) :
                    Shifts("rol", d, n, z, z % 2)
Ror(d, n) == \E k \in Amounts(n), j \in Amounts(Rest(n)) :
                \E z \in Bitwise(Right(GR[d], k), Left(GR[d], j), Or) :
                    Shifts("ror", d, n, z, msb(z))

\* i_and, i_or, i_xor, i_nand, i_nor, i_xnor; i_test writes no register
Logic(d, s) == /\ \E table \in {And, Or, Xor, Negated(And), Negated(Or), Negated(Xor)} :
                     \E z \in Bitwise(GR[d], GR[s], table) : Sets(d, z, make_flags(z))
               /\ last' = None
Test(d, s)  == /\ \E z \in Bitwise(GR[d], GR[s], And) : Sets(d, GR[d], make_flags(z))
               /\ last' = None

\* i_max, i_min, i_umax, i_umin, i_not, i_move, i_lil and all that set a
\* register and leave the flags alone
Other(d) == /\ \E v \in Word : Sets(d, v, FLAGR)
            /\ UNCHANGED last

Terminated == killed /\ UNCHANGED vars

Next == \/ \E d \in Reg, x \in Source :
              \/ Add(d, x) \/ Addc(d, x) \/ Sub(d, x) \/ Cmp(d, x)
              \/ Mul(d, x) \/ Div(d, x)
              \/ Shl(d, x) \/ Shr(d, x) \/ Sar(d, x) \/ Rol(d, x) \/ Ror(d, x)
        \/ \E d, s \in Reg : Inc(d, s) \/ Dec(d, s) \/ Neg(d, s) \/ Logic(d, s) \/ Test(d, s)
        \/ \E d \in Reg : Other(d)
        \/ Terminated

Spec == Init /\ [][Next]_vars

-----------------------------------------------------------------------------
(* Properties *)

\* What condition c asks of two words that were compared or subtracted.
Compares(c, x, y) ==
    \/ c = 1  /\ x = y
    \/ c = 2  /\ x # y
    \/ c = 7  /\ Signed(x) - Signed(y) \notin -Half .. Half - 1
    \/ c = 8  /\ x >= y
    \/ c = 9  /\ x < y
    \/ c = 10 /\ x > y
    \/ c = 11 /\ x <= y
    \/ c = 12 /\ Signed(x) >= Signed(y)
    \/ c = 13 /\ Signed(x) < Signed(y)
    \/ c = 14 /\ Signed(x) > Signed(y)
    \/ c = 15 /\ Signed(x) <= Signed(y)

\* After a compare, a subtraction or a decrement, until the flags are set
\* again, every condition of a branch is the unsigned or signed order of the
\* operands, for all words: also zero and the least integer (make_flags_sub,
\* check_condition).
OrderTold ==
    last # None => (last.op = "sub" =>
        \A c \in {1, 2} \union 7 .. 15 : Condition(c) <=> Compares(c, last.dest, last.src))

\* After an addition the carry and the result are the whole unsigned sum, the
\* overflow says whether the signed sum is lost, and sign and overflow
\* together whether it is negative (make_flags_add).
SumTold ==
    last # None => (last.op = "add" =>
        LET sum == Signed(last.dest) + Signed(last.src)
        IN  /\ last.dest + last.src = last.result + FLAGR.carry * Modulus
            /\ FLAGR.overflow = 1 <=> sum \notin -Half .. Half - 1
            /\ Condition(13) <=> sum < 0
            /\ Condition(1) <=> last.result = 0)

\* A shift by 1 .. Width-1 leaves the last bit that it moved out in the carry,
\* sar divides by a power of two, and a rotation, also by 0, loses no bit
\* (i_shl, i_shr, i_sar, i_rol, i_ror).
ShiftTold ==
    last # None => (last.src \in 0 .. Width - 1 =>
        LET n == last.src
            Moved(i) == BitOf(last.dest, i)
        IN  /\ last.op = "shl" /\ n > 0 => FLAGR.carry = Moved(Width - n)
            /\ last.op \in {"shr", "sar"} /\ n > 0 => FLAGR.carry = Moved(n - 1)
            /\ last.op = "sar" => Signed(last.result) = Signed(last.dest) \div 2^n
            /\ \A i \in 0 .. Width - 1 :
                  /\ last.op = "rol" => BitOf(last.result, (i + n) % Width) = Moved(i)
                  /\ last.op = "ror" => Moved((i + n) % Width) = BitOf(last.result, i))
=============================================================================
