-------------------------------- MODULE Counting -------------------------------
(***************************************************************************)
(* combCount of utils.cpp, which `split' calls with the numbers of outputs *)
(* of two circuits, and of two clusters.  Its local function fact          *)
(* multiplies words of a fixed length, and the quotient of two words is    *)
(* the answer.                                                             *)
(***************************************************************************)
EXTENDS Integers, FiniteSetsExt

CONSTANTS MaxCount,   \* bound: the arguments
          Widths      \* the lengths of size_t in bits

ASSUME MaxCountAssumption == MaxCount \in Nat
ASSUME WidthsAssumption == Widths \subseteq Nat

VARIABLES args,     \* a and b
          width,    \* the length of size_t
          upTo,     \* n, the argument of the call of fact that is running
          factor,   \* i, its loop variable
          product,  \* its result, so far
          divisor,  \* what the first call returned, or Pending
          answer    \* Pending, Fault, or the number that is returned

countVars == <<args, width, upTo, factor, product, divisor, answer>>

Larger == Max({args.a, args.b})
\* Mutant: the divisor is fact of the smaller number.
Smaller == Min({args.a, args.b})
Difference == Max({args.a, args.b}) - Min({args.a, args.b})
Pending == -1

CountInit ==
    /\ args \in [a : 0..MaxCount, b : 0..MaxCount] /\ width \in Widths
    /\ upTo = Difference
    /\ factor = 1
    /\ product = 1
    /\ divisor = Pending
    /\ answer = Pending

\* result *= i
Multiply ==
    /\ answer = Pending /\ factor < upTo
    /\ product' = (product * factor) % 2^width
    /\ factor' = factor + 1
    /\ UNCHANGED <<args, width, upTo, divisor, answer>>

\* The compiler may call fact for either side of the quotient first.
FactReturns ==
    /\ answer = Pending /\ factor >= upTo /\ divisor = Pending
    /\ divisor' = product
    /\ upTo' = Larger /\ factor' = 1 /\ product' = 1
    /\ UNCHANGED <<args, width, answer>>

\* Division of a word by 0 is undefined; the machines of the build trap.
Fault == -2

Divide ==
    /\ answer = Pending /\ factor >= upTo /\ divisor # Pending
    /\ answer' = IF divisor = 0 THEN Fault ELSE product \div divisor
    /\ UNCHANGED <<args, width, upTo, factor, product, divisor>>

CountNext == Multiply \/ FactReturns \/ Divide

CountSpec == CountInit /\ [][CountNext]_countVars

-------------------------------------------------------------------------------
\* The ways to give each of the fewer outputs one of the others of its own.
Injections ==
    LET rest == Larger - Min({args.a, args.b})
        from[k \in rest .. Larger] == IF k = rest THEN 1 ELSE k * from[k - 1]
    IN  from[Larger]

\* The number is never larger than the number of ways to match the outputs,
\* also when both products wrapped.
NeverOvercounted == answer >= 0 => answer <= Injections

===============================================================================
