---------------------------------- MODULE Hc11 ----------------------------------
(***************************************************************************)
(* The MC68HC11 of the keypad computer: the instructions m68hc11_step()    *)
(* knows, their condition codes, and the interrupt entry.  The firmware is *)
(* a ROM the repository does not hold, so the next instruction is any, and *)
(* a read of memory or of a device gives any byte.  What is written goes   *)
(* to the device (KpcDevice); here only the order of a frame on the stack  *)
(* matters.  Addresses and cycle counts are left out.                      *)
(***************************************************************************)
EXTENDS Integers, Sequences

CONSTANTS
    Half,           \* 128: half the values of a byte
    Nibble,         \* 16: the values of its low digit
    MaxInstructions \* bound of the model: instructions after the start

ASSUME Hc11Assumption ==
    /\ Half \in Nat \ {0}
    /\ Nibble \in Nat \ {0}
    /\ MaxInstructions \in Nat

ByteSize == 2 * Half
WordSize == ByteSize * ByteSize
Byte == 0 .. ByteSize - 1
Word == 0 .. WordSize - 1
Flag == {"C", "V", "Z", "N", "I", "H", "X", "S"}

Registers == [a : Byte, b : Byte, x : Word, y : Word, pc : Word]

VARIABLES
    reg,        \* the registers; the stack pointer is where frames are
    ccr,        \* the condition codes that are set
    illegal,    \* an opcode the core does not know: it stands still
    compared,   \* the operands of the last comparison, while its flags stand
    steps

hc11Vars == <<reg, ccr, illegal, compared, steps>>

High(w) == w \div ByteSize
Low(w) == w % ByteSize
Join(high, low) == high * ByteSize + low
D == Join(reg.a, reg.b)
-------------------------------------------------------------------------------
(* Condition codes. *)

Negative(v, size) == v >= size \div 2

If(holds, flag) == IF holds THEN {flag} ELSE {}

NZ(v, size) == If(v = 0, "Z") \cup If(Negative(v, size), "N")

\* set_nzv8(), set_nzv16()
Moved(v, size) == (ccr \ {"N", "Z", "V"}) \cup NZ(v, size)

Minus(l, r, size) == IF l >= r THEN l - r ELSE l - r + size

\* Slip: the sign of the result alone.
SubFlagsNoOverflow(l, r, size) ==
    NZ(Minus(l, r, size), size) \cup If(l < r, "C")

\* set_sub8(), set_sub16(): a borrow, and an overflow by the three signs.
SubFlags(l, r, size) ==
    LET result == Minus(l, r, size)
    IN  NZ(result, size) \cup If(l < r, "C") \cup
        If(/\ Negative(l, size) # Negative(r, size)
           /\ Negative(l, size) # Negative(result, size), "V")

Subtracted(l, r, size) == (ccr \ {"N", "Z", "V", "C"}) \cup SubFlags(l, r, size)

\* set_add8(), set_add16() and ADCA
AddFlags(l, r, carry, size) ==
    LET result == (l + r + carry) % size
    IN  NZ(result, size) \cup If(l + r + carry >= size, "C") \cup
        If(/\ Negative(l, size) = Negative(r, size)
           /\ Negative(l, size) # Negative(result, size), "V")

HalfCarry(l, r, carry) == If((l % Nibble) + (r % Nibble) + carry >= Nibble, "H")

\* branch_condition()
Taken(condition, flags) ==
    LET c == "C" \in flags   v == "V" \in flags
        z == "Z" \in flags   n == "N" \in flags
    IN  CASE condition = "BHI" -> ~c /\ ~z    [] condition = "BLS" -> c \/ z
          [] condition = "BCC" -> ~c          [] condition = "BCS" -> c
          [] condition = "BNE" -> ~z          [] condition = "BEQ" -> z
          [] condition = "BVC" -> ~v          [] condition = "BVS" -> v
          [] condition = "BPL" -> ~n          [] condition = "BMI" -> n
          [] condition = "BGE" -> n = v       [] condition = "BLT" -> n # v
          [] condition = "BGT" -> ~z /\ n = v [] condition = "BLE" -> z \/ n # v
          [] condition = "BRA" -> TRUE        [] condition = "BRN" -> FALSE
-------------------------------------------------------------------------------
(* The frame of an interrupt, from its first byte on the stack. *)

\* push16() puts the low byte of a word first.
Frame(r, codes) ==
    <<Low(r.pc), High(r.pc), Low(r.y), High(r.y), Low(r.x), High(r.x),
      r.a, r.b, codes>>

\* Slip: the accumulators in the order they were pushed.
UnframedSwapped(f) ==
    [a |-> f[8], b |-> f[7], x |-> Join(f[6], f[5]), y |-> Join(f[4], f[3]),
     pc |-> Join(f[2], f[1])]

\* RTI pulls what was pushed last first.
Unframed(f) ==
    [b |-> f[8], a |-> f[7], x |-> Join(f[6], f[5]), y |-> Join(f[4], f[3]),
     pc |-> Join(f[2], f[1])]

\* RTI cannot set an X that is clear.
UnframedCodes(f, codes) == IF "X" \in codes THEN f[9] ELSE f[9] \ {"X"}
-------------------------------------------------------------------------------
(* What an instruction does to the registers and the codes. *)

Hc11Init ==
    /\ reg \in [a : Byte, b : Byte, x : {0, WordSize \div 2}, y : {1}, pc : {0}]
    /\ ccr \in {{"S", "X", "I"}, {"C", "N"}, {"Z", "V", "X"}}
    /\ illegal = FALSE
    /\ compared = <<>>
    /\ steps = 0

Runs == ~illegal /\ steps < MaxInstructions /\ steps' = steps + 1

\* An instruction that leaves the codes of another kind of result.
Result(registers, codes) ==
    /\ reg' = registers
    /\ ccr' = codes
    /\ compared' = <<>>
    /\ UNCHANGED illegal

WithD(w) == [reg EXCEPT !.a = High(w), !.b = Low(w)]

\* load_a(), load_b() and the word loads: from memory or from a register.
LoadByte(r, v) == Result([reg EXCEPT ![r] = v], Moved(v, ByteSize))
LoadWord(r, v) == Result([reg EXCEPT ![r] = v], Moved(v, WordSize))
LoadD(v) == Result(WithD(v), Moved(v, WordSize))

\* A store changes the codes only.
StoreByte(v) == Result(reg, Moved(v, ByteSize))
StoreWord(w) == Result(reg, Moved(w, WordSize))

Compare(l, v, size) ==
    /\ ccr' = Subtracted(l, v, size)
    /\ compared' = <<l, v, size>>
    /\ UNCHANGED <<reg, illegal>>

AddByte(r, v, carry) ==
    Result([reg EXCEPT ![r] = (@ + v + carry) % ByteSize],
           (ccr \ {"H", "N", "Z", "V", "C"}) \cup
           AddFlags(reg[r], v, carry, ByteSize) \cup HalfCarry(reg[r], v, carry))

AddD(v) ==
    Result(WithD((D + v) % WordSize),
           (ccr \ {"N", "Z", "V", "C"}) \cup AddFlags(D, v, 0, WordSize))

Exchange(r) == Result([WithD(reg[r]) EXCEPT ![r] = D], ccr)

\* INC and DEC by one: V at the end of the signed range.
Count(r, v, at) ==
    Result([reg EXCEPT ![r] = v], Moved(v, ByteSize) \cup If(reg[r] = at, "V"))

\* INX and DEX change Z only.
CountX(v) == Result([reg EXCEPT !.x = v], (ccr \ {"Z"}) \cup If(v = 0, "Z"))

\* COMA, ASLA, TSTA and CLRA, and the same of B
Complement(r) ==
    LET v == ByteSize - 1 - reg[r]
    IN  Result([reg EXCEPT ![r] = v], Moved(v, ByteSize) \cup {"C"})

ShiftLeft(r) ==
    LET v == (2 * reg[r]) % ByteSize
        c == Negative(reg[r], ByteSize)
    IN  Result([reg EXCEPT ![r] = v],
               (ccr \ {"N", "Z", "V", "C"}) \cup NZ(v, ByteSize) \cup
               If(c, "C") \cup If(Negative(v, ByteSize) # c, "V"))

Test(r) == Result(reg, Moved(reg[r], ByteSize) \ {"C"})
Cleared == (ccr \ {"N", "V", "C"}) \cup {"Z"}
ClearRegister(r) == Result([reg EXCEPT ![r] = 0], Cleared)

\* A jump leaves the codes, and what they say, alone.
JumpTo(t) ==
    /\ reg' = [reg EXCEPT !.pc = t]
    /\ UNCHANGED <<ccr, illegal, compared>>

Targets == {0, 1, WordSize - 1}     \* bound of the model
-------------------------------------------------------------------------------
(* m68hc11_step(), a run of opcodes at a time, in the order of the switch. *)

\* CPD
Page1A == Runs /\ \E v \in Word : Compare(D, v, WordSize)

\* DEY, CPY, XGDY; LDY, and A and B at an address by Y
Page18 ==
    /\ Runs
    /\ \/ LET v == Minus(reg.y, 1, WordSize)
          IN  Result([reg EXCEPT !.y = v],
                     Moved(v, WordSize) \cup If(reg.y = WordSize \div 2, "V"))
       \/ \E v \in Word : Compare(reg.y, v, WordSize) \/ LoadWord("y", v)
       \/ Exchange("y")
       \/ \E r \in {"a", "b"} : StoreByte(reg[r]) \/ \E v \in Byte : LoadByte(r, v)

\* 20 to 2f: the conditional branches, BLE the last of them
Branch ==
    /\ Runs
    /\ \E t \in Targets, condition \in
          {"BRA", "BRN", "BHI", "BLS", "BCC", "BCS", "BNE", "BEQ",
           "BVC", "BVS", "BPL", "BMI", "BGE", "BLT", "BGT", "BLE"} :
          JumpTo(IF Taken(condition, ccr) THEN t ELSE reg.pc)

\* IDIV, which gives all ones for a division by zero
Divide ==
    IF reg.x = 0
    THEN Result([reg EXCEPT !.x = WordSize - 1], (ccr \ {"Z"}) \cup {"V", "C"})
    ELSE LET q == D \div reg.x
         IN  Result([WithD(D % reg.x) EXCEPT !.x = q],
                    (ccr \ {"Z", "V", "C"}) \cup If(q = 0, "Z"))

\* IDIV, TAP, TPA, INX, DEX and the single codes; NOP
Opcodes00 ==
    /\ Runs
    /\ \/ Divide
       \/ \E codes \in SUBSET {"C", "Z", "I", "X"} : Result(reg, codes)
       \/ \E v \in Byte : Result([reg EXCEPT !.a = v], ccr)
       \/ CountX((reg.x + 1) % WordSize)
       \/ CountX(Minus(reg.x, 1, WordSize))
       \/ \E f \in {"V", "C", "I"} : Result(reg, ccr \ {f}) \/ Result(reg, ccr \cup {f})

\* SBA, a comparison that keeps its result
SubtractB ==
    /\ reg' = [reg EXCEPT !.a = Minus(reg.a, reg.b, ByteSize)]
    /\ ccr' = Subtracted(reg.a, reg.b, ByteSize)
    /\ compared' = <<reg.a, reg.b, ByteSize>>
    /\ UNCHANGED illegal

\* SBA; BRSET, BRCLR; BSET, BCLR; TAB, TBA; ABA
Opcodes10 ==
    /\ Runs
    /\ \/ SubtractB
       \/ \E t \in Targets : JumpTo(t)
       \/ \E v \in Byte : StoreByte(v)
       \/ LoadByte("b", reg.a)
       \/ LoadByte("a", reg.b)
       \/ AddByte("a", reg.b, 0)

\* TSX, PULA, PULB, RTS and ABX: what is pulled sets no codes
Opcodes30 ==
    /\ Runs
    /\ \/ \E v \in Word : Result([reg EXCEPT !.x = v], ccr)
       \/ \E r \in {"a", "b"}, v \in Byte : Result([reg EXCEPT ![r] = v], ccr)
       \/ \E t \in Targets : JumpTo(t)
       \/ Result([reg EXCEPT !.x = (@ + reg.b) % WordSize], ccr)

Multiply ==
    LET product == reg.a * reg.b
    IN  Result(WithD(product),
               (ccr \ {"C"}) \cup If(Negative(Low(product), ByteSize), "C"))

\* MUL; COM, ASL, INC, TST and CLR of A and B, and DECB, whose V is the 68HC11's
\* for a decrement of 80
Opcodes40 ==
    /\ Runs
    /\ \/ Multiply
       \/ \E r \in {"a", "b"} :
             \/ Complement(r) \/ ShiftLeft(r) \/ Test(r) \/ ClearRegister(r)
             \/ Count(r, (reg[r] + 1) % ByteSize, Half - 1)
       \/ Count("b", Minus(reg.b, 1, ByteSize), Half)

\* JMP, and CLR of a byte in memory
Opcodes60 ==
    /\ Runs
    /\ (\E t \in Targets : JumpTo(t)) \/ Result(reg, Cleared)

\* 81 to 89: A, X and the stack pointer with what follows the opcode; BSR, XGDX
Opcodes80 ==
    /\ Runs
    /\ \/ \E v \in Byte :
             \/ Compare(reg.a, v, ByteSize)
             \/ LoadByte("a", v)                             \* ANDA, ORAA, LDAA
             \/ AddByte("a", v, 0)
             \/ AddByte("a", v, IF "C" \in ccr THEN 1 ELSE 0)   \* ADCA
       \/ \E t \in Targets : JumpTo(t)
       \/ \E v \in Word : StoreWord(v) \/ Compare(reg.x, v, WordSize)
       \/ Exchange("x")

\* 96 to bd: A with a byte of memory; JSR
Opcodes90 ==
    /\ Runs
    /\ \/ \E v \in Byte : LoadByte("a", v) \/ Compare(reg.a, v, ByteSize)
       \/ StoreByte(reg.a)
       \/ \E t \in Targets : JumpTo(t)

\* cc to ce: B, D and X with memory or with what follows the opcode
OpcodesC0 ==
    /\ Runs
    /\ \/ \E v \in Word : LoadD(v) \/ AddD(v) \/ LoadWord("x", v)
       \/ \E v \in Byte :
             LoadByte("b", v) \/ Compare(reg.b, v, ByteSize) \/ AddByte("b", v, 0)
       \/ StoreByte(reg.b)
       \/ StoreWord(reg.x)
       \/ StoreWord(D)

\* Opcodes without a case: the core never runs again until it is reset.
Unknown ==
    /\ Runs
    /\ illegal' = TRUE
    /\ UNCHANGED <<reg, ccr, compared>>

\* m68hc11_interrupt(): the handler starts with the interrupts masked.
Interrupt ==
    /\ Runs
    /\ "I" \notin ccr
    /\ reg' = [reg EXCEPT !.pc = WordSize - 1]
    /\ ccr' = ccr \cup {"I"}
    /\ UNCHANGED <<illegal, compared>>

\* An interrupt, a handler that leaves its frame on the stack as it was, and its
\* RTI.  now: the codes the handler had when it ended.
InterruptAndReturn ==
    /\ ~illegal
    /\ "I" \notin ccr
    /\ \E now \in {ccr, {}} : ccr' = UnframedCodes(Frame(reg, ccr), now)
    /\ reg' = Unframed(Frame(reg, ccr))
    /\ UNCHANGED <<illegal, compared, steps>>

Hc11Next ==
    \/ Page1A \/ Page18 \/ Branch \/ Opcodes00 \/ Opcodes10 \/ Opcodes30
    \/ Opcodes40 \/ Opcodes60 \/ Opcodes80 \/ Opcodes90 \/ OpcodesC0
    \/ Unknown \/ Interrupt \/ InterruptAndReturn

Hc11Spec == Hc11Init /\ [][Hc11Next]_hc11Vars
-------------------------------------------------------------------------------
(* Properties. *)

Hc11TypeOK ==
    /\ reg \in Registers
    /\ ccr \subseteq Flag
    /\ illegal \in BOOLEAN
    /\ compared = <<>> \/ compared \in Word \X Word \X {ByteSize, WordSize}
    /\ steps \in 0 .. MaxInstructions

Signed(v, size) == IF Negative(v, size) THEN v - size ELSE v

\* What the names of the branches promise of l and r.
Ordered(flags, l, r, size) ==
    /\ Taken("BHI", flags) <=> l > r
    /\ Taken("BLS", flags) <=> l <= r
    /\ Taken("BCC", flags) <=> l >= r
    /\ Taken("BCS", flags) <=> l < r
    /\ Taken("BEQ", flags) <=> l = r
    /\ Taken("BNE", flags) <=> l # r
    /\ Taken("BGE", flags) <=> Signed(l, size) >= Signed(r, size)
    /\ Taken("BLT", flags) <=> Signed(l, size) < Signed(r, size)
    /\ Taken("BGT", flags) <=> Signed(l, size) > Signed(r, size)
    /\ Taken("BLE", flags) <=> Signed(l, size) <= Signed(r, size)

\* After a comparison, and whatever interrupts came since, every conditional
\* branch goes by the order of the operands, signed and unsigned.
BranchesMeanIt ==
    compared # <<>> => Ordered(ccr, compared[1], compared[2], compared[3])

\* An interrupt between any two instructions is not seen by the program that
\* was interrupted: RTI gives back every register and code, except an X that
\* the handler cleared.
FrameRestores ==
    LET frame == Frame(reg, ccr)
    IN  /\ Unframed(frame) = reg
        /\ \A now \in {ccr, {}} :
              UnframedCodes(frame, now) = ccr \ ({"X"} \ now)

\* The code of the keypad runs as it was written: what it compares decides its
\* branches, and no interrupt is seen between the two.
CodeRunsAsWritten == BranchesMeanIt /\ FrameRestores
================================================================================
