----------------------------- MODULE EffectsAlu -----------------------------
(***************************************************************************)
(* The arithmetic pipeline of the ES5510 (native/es5510_core.c).  A result *)
(* is committed one instruction after its operands were fetched, with      *)
(* flags that a later instruction is skipped on.  Values have Size instead *)
(* of 2^24 values.  The multiplier and the delay memory run beside it and  *)
(* are left out, as is the end of the program.                             *)
(***************************************************************************)
EXTENDS EffectsHost, Integers

CONSTANTS Size,       \* values of a register, 2^24
          MaxSteps    \* bound: instructions in one behaviour

ASSUME EffectsAluAssumption ==
    /\ Size \in Nat /\ \E n \in 1 .. Size : Size = 2 * n
    /\ MaxSteps \in Nat

VARIABLES gpr, ccr,
          alu,        \* the operation fetched and not yet committed
          last,       \* the operation committed last
          executed
effectsAluVars == <<gpr, ccr, alu, last, executed>>

Word == 0 .. Size - 1
Half == Size \div 2
Reg == {0, 1}
Flag == {"N", "C", "V", "LT", "Z"}
Op == {"add", "sub", "addWrap", "subWrap", "cmp", "logic", "abs", "mov",
       "shl", "neg", "asr"}
Nothing == [op |-> "mov", reg |-> 0, a |-> 0, b |-> 0, writes |-> FALSE, sets |-> FALSE]

EffectsAluInit ==
    /\ gpr \in [Reg -> Word]
    /\ ccr \in {{}, {"LT"}}                   \* what the last frame left
    /\ alu = Nothing
    /\ last = Nothing
    /\ executed = 0

-----------------------------------------------------------------------------
(***************************************************************************)
(* add24(), negate24(), saturate24(), shift_left(): results and flags.     *)
(***************************************************************************)
Negative(v) == v >= Half
Signed(v) == IF Negative(v) THEN v - Size ELSE v
Negated(v) == (Size - v) % Size
If(holds, flag) == IF holds THEN {flag} ELSE {}
Flags(f, changed, now) == (f \ changed) \cup now

Overflows(a, b) ==
    /\ Negative(a) = Negative(b)
    /\ Negative(a) # Negative((a + b) % Size)

\* Slip: "less than" is the sign of the result, also when it overflowed.
AddedPlain(f, a, b) ==
    LET r == (a + b) % Size
    IN [result |-> r,
        flags |-> If(a + b >= Size, "C") \cup If(Negative(r), "N") \cup If(r = 0, "Z")
                    \cup If(Overflows(a, b), "V") \cup If(Negative(r), "LT")]

Added(f, a, b) ==
    LET r == (a + b) % Size
    IN [result |-> r,
        flags |-> If(a + b >= Size, "C") \cup If(Negative(r), "N") \cup If(r = 0, "Z")
                    \cup If(Overflows(a, b), "V")
                    \cup If(Overflows(a, b) # Negative(r), "LT")]

Saturated(sum, negative) ==
    IF "V" \notin sum.flags THEN sum
    ELSE [result |-> IF negative THEN Half ELSE Half - 1,
          flags |-> Flags(sum.flags, {"N", "Z"}, If(negative, "N"))]

Logic(f, r) ==
    [result |-> r, flags |-> Flags(f, {"N", "Z"}, If(Negative(r), "N") \cup If(r = 0, "Z"))]

ShiftedLeft(f, v, by) ==
    LET exact == Signed(v) * by
        over == exact >= Half \/ exact < -Half
        r == IF over THEN IF exact < 0 THEN Half ELSE Half - 1 ELSE exact % Size
    IN [result |-> r,
        flags |-> Flags(f, {"C", "V", "N", "Z"},
                    If(((v * by) \div Size) % 2 = 1, "C") \cup If(over, "V")
                    \cup If(Negative(r), "N") \cup If(r = 0, "Z"))]

\* "logic": AND, OR and XOR by what matters here, any word can come out.
Outcomes(f, op, a, b) ==
    CASE op = "add" -> {Saturated(Added(f, a, b), Negative(a))}
      [] op = "sub" -> {Saturated(Added(f, a, Negated(b)), Negative(a))}
      [] op = "addWrap" -> {Added(f, a, b)}
      [] op = "subWrap" -> {Added(f, a, Negated(b))}
      [] op = "cmp" -> {[Added(f, a, Negated(b)) EXCEPT !.result = a]}
      [] op = "logic" -> {Logic(f, r) : r \in Word}
      [] op = "abs" -> LET r == IF Negative(b) THEN Size - 1 - b ELSE b
                       IN {[result |-> r, flags |-> Flags(f, {"N", "C", "Z"},
                               If(Negative(b), "C") \cup If(r = 0, "Z"))]}
      [] op = "mov" -> {[result |-> b, flags |-> f]}
      [] op = "shl" -> {ShiftedLeft(f, b, 4)}
      [] op = "neg" -> {Added(f, Half - 1, Negated(b))}
      [] op = "asr" -> {[result |-> (b \div 2) + (IF Negative(b) THEN Half ELSE 0),
                         flags |-> Flags(f, {"N", "C"},
                             If(Negative(b), "N") \cup If(b % 2 = 1, "C"))]}

(***************************************************************************)
(* One instruction of es5510_core_process(): whether it is skipped is      *)
(* decided first, then the previous one is committed, then its operands    *)
(* are fetched.  A comparison is neither skipped nor written.              *)
(***************************************************************************)
Skipped(skippable, mask, not) ==
    skippable /\ ((ccr \cap mask # {}) # not)

Instruction(op, a, b, skippable, mask, not) ==
    LET skip == Skipped(skippable, mask, not)
    IN /\ executed < MaxSteps
       /\ \E r \in IF alu.writes THEN Outcomes(ccr, alu.op, alu.a, alu.b)
                   ELSE {[result |-> 0, flags |-> ccr]} :
             /\ gpr' = IF alu.writes /\ alu.op # "cmp"
                       THEN [gpr EXCEPT ![alu.reg] = r.result] ELSE gpr
             /\ ccr' = IF alu.writes /\ alu.sets THEN r.flags ELSE ccr
       /\ alu' = [op |-> op, reg |-> a, a |-> gpr'[a], b |-> gpr'[b],
                  writes |-> ~skip \/ op = "cmp", sets |-> ~skippable \/ op = "cmp"]
       /\ last' = IF alu.writes THEN alu ELSE last
       /\ executed' = executed + 1

EffectsAluNext ==
    \E op \in Op, a \in Reg, skippable, not \in BOOLEAN :
        Instruction(op, a, 1 - a, skippable, {"LT"}, not)

EffectsAluSpec == EffectsAluInit /\ [][EffectsAluNext]_effectsAluVars

-----------------------------------------------------------------------------
EffectsAluTypeOK ==
    /\ gpr \in [Reg -> Word]
    /\ ccr \subseteq Flag
    /\ alu \in [op : Op, reg : Reg, a : Word, b : Word, writes : BOOLEAN, sets : BOOLEAN]
    /\ executed \in 0 .. MaxSteps

(***************************************************************************)
(* After a comparison or a subtraction has set the flags, "less than" is   *)
(* the order of the two signed operands, saturated or not.  The smallest   *)
(* value has no negative: as the right operand it is left out.             *)
(* (alu_operation(), add24(), negate24(), saturate24())                    *)
(***************************************************************************)
ComparisonMeansIt ==
    (last.writes /\ last.sets /\ last.op \in {"cmp", "sub", "subWrap"} /\ last.b # Half)
        => ("LT" \in ccr <=> Signed(last.a) < Signed(last.b))

\* The processor runs the program it was given: none before it is whole
\* (EffectsHost), and its flags mean what a skipped instruction takes them for.
EffectRunsAsWritten == NoHalfProgram /\ ComparisonMeansIt
=============================================================================
