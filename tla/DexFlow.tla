------------------------------- MODULE DexFlow -------------------------------
(***************************************************************************)
(* What static_apk_analysis.py makes of the methods of a DEX file: one     *)
(* pass over the code that keeps, for each register, the constant it holds *)
(* and a generation that tells whether two registers hold the same object  *)
(* (_scan_dex_invocations), the signals taken from the calls               *)
(* (_behavior_signals_for_method), and the budgets (_parse_dex_behavior).  *)
(* Beside it runs the machine the code is for: value is what each register *)
(* holds when control runs straight from the last branch.  (A jump to a    *)
(* label between two branches is not seen by the pass, and not here.)      *)
(***************************************************************************)
EXTENDS Integers, FiniteSets

CONSTANTS
  LastRegister,      \* registers are 0..LastRegister
  Constants,         \* constants the code can load, none of them a number
  Weak,              \* those that name a weak algorithm
  Unknown,           \* no constant is known
  MaxUnits, MaxInvocations,        \* budgets of a file
  MaxMethods, MaxSize              \* bounds: methods, instructions of a method

\* Registers have 16 bits.
RegisterSpace == 65536

ASSUME DexAssumption ==
  /\ LastRegister \in Nat /\ LastRegister < RegisterSpace
  /\ Weak \subseteq Constants /\ Unknown \notin Constants
  /\ MaxUnits \in Nat /\ MaxInvocations \in Nat /\ MaxMethods \in Nat /\ MaxSize \in Nat

\* An object is never mistaken for a constant.
ASSUME ObjectsAssumption == Constants \cap Int = {} /\ Unknown \notin Int

VARIABLES
  constants, generations, nextGeneration, flowEpoch,     \* of the method in hand
  randomGenerations, signals,
  left,              \* instructions of the method that are still to come
  unitsUsed, callsUsed, methods, dexLimits,
  value, nextValue, \* history: the machine
  randomValues,      \* history: objects that java.util.Random has filled
  causes,            \* history: what the calls of the method really got
  skipped            \* history: a method, or the rest of one, was not looked at

dexVars == <<constants, generations, nextGeneration, flowEpoch, randomGenerations, signals, left, unitsUsed,
             callsUsed, methods, dexLimits, value, nextValue, randomValues, causes, skipped>>
passVars == <<constants, generations, nextGeneration, flowEpoch>>
machineVars == <<value, nextValue>>
callVars == <<randomGenerations, signals, callsUsed, dexLimits, randomValues, causes, skipped>>
Registers == 0..LastRegister

DexTypeOK ==
  /\ constants \in [Registers -> Constants \cup {Unknown}]
  /\ generations \in [Registers -> Int] /\ nextGeneration \in Nat \ {0} /\ flowEpoch \in Nat
  /\ randomGenerations \subseteq Int /\ signals \subseteq {"weak", "predictable"}
  /\ left \in 0..MaxSize /\ unitsUsed \in 0..MaxUnits /\ callsUsed \in 0..MaxInvocations
  /\ methods \in 0..MaxMethods /\ dexLimits \subseteq {"code_units", "invocations", "opcode"}
  /\ value \in [Registers -> Constants \cup Nat] /\ nextValue \in Nat
  /\ randomValues \subseteq Constants \cup Nat /\ causes \subseteq {"weak", "predictable"} /\ skipped \in BOOLEAN

(***************************************************************************)
(* Registers                                                               *)
(***************************************************************************)
\* register_generation; 0 stands for a register that the dictionary lacks.
Generation(r) == IF generations[r] # 0 THEN generations[r] ELSE -(flowEpoch * RegisterSpace + r + 1)

Span(r, width) == {s \in Registers : s >= r /\ s < r + width}

\* define_register
Define(r, width) ==
  /\ constants' = [s \in Registers |-> IF s \in Span(r, width) THEN Unknown ELSE constants[s]]
  /\ generations' = [s \in Registers |-> IF s \in Span(r, width) THEN nextGeneration + (s - r) ELSE generations[s]]
  /\ nextGeneration' = nextGeneration + width

Running == left > 0
Next1 == left' = left - 1 /\ unitsUsed' = unitsUsed + 1

\* const/4 to const/high16, const-string.
LoadConstant(r, c) ==
  /\ Running /\ Next1
  /\ constants' = [constants EXCEPT ![r] = c]
  /\ generations' = [generations EXCEPT ![r] = nextGeneration] /\ nextGeneration' = nextGeneration + 1
  /\ value' = [value EXCEPT ![r] = c]
  /\ UNCHANGED <<flowEpoch, nextValue, callVars, methods>>

\* Every other instruction that writes: new values, wide constants and moves,
\* casts (which leave what was there), results and fields.
Write(r, width) ==
  /\ Running /\ Next1 /\ r + width - 1 <= LastRegister
  /\ Define(r, width)
  /\ \E known \in {r} \cup {s \in Registers : s + width - 1 <= LastRegister}, fresh \in BOOLEAN :
       value' = [s \in Registers |-> IF s \notin Span(r, width) THEN value[s]
                                     ELSE IF fresh THEN nextValue + (s - r) ELSE value[known + (s - r)]]
  /\ nextValue' = nextValue + width
  /\ UNCHANGED <<flowEpoch, callVars, methods>>

\* move, move-object: copy_register.
Copy(d, s) ==
  /\ Running /\ Next1
  /\ constants' = [constants EXCEPT ![d] = constants[s]]
  /\ generations' = [generations EXCEPT ![d] = Generation(s)]
  /\ value' = [value EXCEPT ![d] = value[s]]
  /\ UNCHANGED <<nextGeneration, flowEpoch, nextValue, callVars, methods>>

\* Mutation: the epoch stays.
BranchSameEpoch ==
  /\ Running /\ Next1
  /\ constants' = [r \in Registers |-> Unknown] /\ generations' = [r \in Registers |-> 0]
  /\ value' = [r \in Registers |-> nextValue + r] /\ nextValue' = nextValue + LastRegister + 1
  /\ UNCHANGED <<nextGeneration, flowEpoch, callVars, methods>>

\* goto, if, switch, throw: what comes next may be reached from elsewhere, with
\* anything in the registers (clear_flow_state).
Branch ==
  /\ Running /\ Next1
  /\ constants' = [r \in Registers |-> Unknown] /\ generations' = [r \in Registers |-> 0]
  /\ flowEpoch' = flowEpoch + 1
  /\ value' = [r \in Registers |-> nextValue + r] /\ nextValue' = nextValue + LastRegister + 1
  /\ UNCHANGED <<nextGeneration, callVars, methods>>

(***************************************************************************)
(* Calls                                                                   *)
(***************************************************************************)

\* A call enters the list, or the budget is used up and the method is left.
Call ==
  /\ Running
  /\ IF callsUsed < MaxInvocations
     THEN callsUsed' = callsUsed + 1 /\ Next1 /\ UNCHANGED <<dexLimits, skipped>>
     ELSE left' = 0 /\ dexLimits' = dexLimits \cup {"invocations"} /\ skipped' = TRUE /\ UNCHANGED <<callsUsed, unitsUsed>>
InList == callsUsed' # callsUsed

\* Random.nextBytes
FillAtRandom(r) ==
  /\ Call
  /\ randomGenerations' = randomGenerations \cup (IF InList THEN {Generation(r)} ELSE {})
  /\ randomValues' = randomValues \cup (IF InList THEN {value[r]} ELSE {})
  /\ UNCHANGED <<passVars, machineVars, signals, causes, methods>>

\* SecretKeySpec, IvParameterSpec, the PBE specifications
UseAsMaterial(r) ==
  /\ Call
  /\ signals' = signals \cup (IF InList /\ Generation(r) \in randomGenerations THEN {"predictable"} ELSE {})
  /\ causes' = causes \cup (IF InList /\ value[r] \in randomValues THEN {"predictable"} ELSE {})
  /\ UNCHANGED <<passVars, machineVars, randomGenerations, randomValues, methods>>

\* Cipher.getInstance, MessageDigest.getInstance, Mac.getInstance
ChooseAlgorithm(r) ==
  /\ Call
  /\ signals' = signals \cup (IF InList /\ constants[r] \in Weak THEN {"weak"} ELSE {})
  /\ causes' = causes \cup (IF InList /\ value[r] \in Weak THEN {"weak"} ELSE {})
  /\ UNCHANGED <<passVars, machineVars, randomGenerations, randomValues, methods>>

(***************************************************************************)
(* Methods                                                                 *)
(***************************************************************************)
\* An instruction of unknown width ends the pass over the method.
UnknownOpcode ==
  /\ Running /\ left' = 0
  /\ dexLimits' = dexLimits \cup {"opcode"} /\ skipped' = TRUE
  /\ UNCHANGED <<passVars, machineVars, randomGenerations, signals, callsUsed, randomValues, causes, unitsUsed, methods>>

Fresh ==
  /\ constants' = [r \in Registers |-> Unknown] /\ generations' = [r \in Registers |-> 0]
  /\ nextGeneration' = 1 /\ flowEpoch' = 0 /\ signals' = {} /\ causes' = {}
  /\ value' = [r \in Registers |-> nextValue + r] /\ nextValue' = nextValue + LastRegister + 1

\* The next encoded method of the file, if it fits into the budgets.
Enter(size) ==
  /\ left = 0 /\ methods < MaxMethods /\ methods' = methods + 1
  /\ size <= MaxUnits - unitsUsed /\ callsUsed < MaxInvocations
  /\ Fresh /\ left' = size /\ randomGenerations' = {} /\ randomValues' = {}
  /\ UNCHANGED <<unitsUsed, callsUsed, dexLimits, skipped>>

Skip(size) ==
  /\ left = 0 /\ methods < MaxMethods /\ methods' = methods + 1
  /\ \/ size > MaxUnits - unitsUsed /\ dexLimits' = dexLimits \cup {"code_units"}
     \/ size <= MaxUnits - unitsUsed /\ callsUsed >= MaxInvocations /\ dexLimits' = dexLimits \cup {"invocations"}
  /\ skipped' = TRUE
  /\ UNCHANGED <<passVars, machineVars, randomGenerations, signals, left, unitsUsed, callsUsed, randomValues, causes>>

DexInit ==
  /\ constants = [r \in Registers |-> Unknown] /\ generations = [r \in Registers |-> 0]
  /\ nextGeneration = 1 /\ flowEpoch = 0 /\ randomGenerations = {} /\ signals = {}
  /\ left = 0 /\ unitsUsed = 0 /\ callsUsed = 0 /\ methods = 0 /\ dexLimits = {}
  /\ value = [r \in Registers |-> r] /\ nextValue = LastRegister + 1
  /\ randomValues = {} /\ causes = {} /\ skipped = FALSE

DexNext ==
  \/ \E r \in Registers : \/ \E c \in Constants : LoadConstant(r, c)
                          \/ \E width \in 1..2 : Write(r, width)
                          \/ \E s \in Registers : Copy(r, s)
                          \/ FillAtRandom(r) \/ UseAsMaterial(r) \/ ChooseAlgorithm(r)
  \/ Branch \/ UnknownOpcode
  \/ \E size \in 1..MaxSize : Enter(size) \/ Skip(size)

DexSpec == DexInit /\ [][DexNext]_dexVars

(***************************************************************************)
(* Properties                                                              *)
(***************************************************************************)
\* A constant the pass knows is in the register when control runs straight.
ConstantsTrue == \A r \in Registers : constants[r] # Unknown => value[r] = constants[r]

\* Registers of one generation hold one object, whatever was copied, written
\* wide or branched over, and an object of a remembered generation is a
\* remembered object.
GenerationsTrue ==
  /\ \A r, s \in Registers : Generation(r) = Generation(s) => value[r] = value[s]
  /\ \A r \in Registers : Generation(r) \in randomGenerations => value[r] \in randomValues

\* A method is accused only of what one of its own calls does.
SignalsTrue == signals \subseteq causes

\* Whatever was left out of the file for its size is reported.
DexCutsReported == skipped => dexLimits # {}

\* What the pass believes of registers and objects is so, and so is what it reports.
FlowTrue == DexTypeOK /\ ConstantsTrue /\ GenerationsTrue /\ SignalsTrue /\ DexCutsReported
=============================================================================
