------------------------------- MODULE Money --------------------------------
(***************************************************************************)
(* Amounts of money (internal/domain/money): signed minor units of fixed   *)
(* width with checked arithmetic, and the decimal amounts of the wire.     *)
(* A decimal amount is its whole units and its cents; one that is not in   *)
(* the canonical form (a sign, leading zeros, another number of decimal    *)
(* places, a number instead of a string) is not told apart further.        *)
(***************************************************************************)
EXTENDS Integers

CONSTANTS
    MaxInt,    \* math.MaxInt64
    Cents,     \* minor units in a unit: 100
    MaxUnits   \* the largest whole part canonicalAmount accepts: 17 digits

ASSUME MoneyAssumption ==
    /\ MaxInt \in Nat \ {0}
    /\ Cents \in 1..MaxInt
    /\ MaxUnits \in 0..MaxInt
    /\ MaxInt < (MaxUnits + 1) * Cents   \* every amount has a canonical form

MinInt == (-MaxInt) - 1
Int64 == MinInt..MaxInt

(* Two's complement.  A sum or a difference of two Int64 wraps at most     *)
(* once.                                                                   *)
wrap(n) ==
    IF n > MaxInt THEN n - 2 * (MaxInt + 1)
    ELSE IF n < MinInt THEN n + 2 * (MaxInt + 1)
    ELSE n

exactly(n) == [ok |-> TRUE, minor |-> n]
ErrOverflow == [ok |-> FALSE, minor |-> 0]
ErrInvalidAmount == [ok |-> FALSE, minor |-> 0]

addExact(a, b) ==
    LET sum == wrap(a + b) IN
    IF (b > 0 /\ sum < a) \/ (b < 0 /\ sum > a) THEN ErrOverflow ELSE exactly(sum)

subExact(a, b) ==
    LET difference == wrap(a - b) IN
    IF (b < 0 /\ difference < a) \/ (b > 0 /\ difference > a) THEN ErrOverflow
    ELSE exactly(difference)

(* Mutant of parseMinorUnits: the largest whole part is refused.           *)
parseMinorUnits_OneLess(amount) ==
    IF ~amount.canonical \/ amount.units > MaxUnits THEN ErrInvalidAmount
    ELSE IF amount.units >= (MaxInt - amount.cents) \div Cents THEN ErrOverflow
    ELSE exactly(amount.units * Cents + amount.cents)

parseMinorUnits(amount) ==
    IF ~amount.canonical \/ amount.units > MaxUnits THEN ErrInvalidAmount
    ELSE IF amount.units > (MaxInt - amount.cents) \div Cents THEN ErrOverflow
    ELSE exactly(amount.units * Cents + amount.cents)

(* The magnitude is taken without negating MinInt.                         *)
splitMinorUnits(minor) ==
    LET magnitude == IF minor < 0 THEN (-(minor + 1)) + 1 ELSE minor IN
    [units |-> magnitude \div Cents, cents |-> magnitude % Cents]

(* Money.String; the sign makes an amount one that Parse refuses.          *)
String(minor) ==
    LET split == splitMinorUnits(minor) IN
    [canonical |-> minor >= 0, units |-> split.units, cents |-> split.cents]

=============================================================================
