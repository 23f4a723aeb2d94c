--------------------------- MODULE EntranceProofs ---------------------------
(***************************************************************************)
(* Theorems about the two doors, for every set of calls, credentials and   *)
(* operations, and about the arithmetic of money they rely on, for every   *)
(* width of integer.                                                       *)
(***************************************************************************)
EXTENDS Entrance, Sums

-----------------------------------------------------------------------------
(* The arithmetic of money.                                                *)

(* addExact notices every sum that does not fit although it only compares  *)
(* the wrapped sum with one operand, and returns every other sum exactly.  *)
THEOREM AddIsExact ==
    ASSUME NEW a \in Int64, NEW b \in Int64
    PROVE  addExact(a, b) = IF a + b \in Int64 THEN exactly(a + b) ELSE ErrOverflow
<1>1. a \in Int /\ b \in Int /\ MaxInt \in Int /\ MaxInt > 0
      /\ a >= (-MaxInt) - 1 /\ a <= MaxInt /\ b >= (-MaxInt) - 1 /\ b <= MaxInt
  BY MoneyAssumption DEF Int64, MinInt
<1>2. CASE a + b \in Int64
  <2>1. wrap(a + b) = a + b
    BY <1>1, <1>2 DEF wrap, Int64, MinInt
  <2>2. ~((b > 0 /\ a + b < a) \/ (b < 0 /\ a + b > a))
    BY <1>1
  <2> QED BY <1>2, <2>1, <2>2 DEF addExact
<1>3. CASE a + b \notin Int64
  <2>1. CASE b > 0
    <3>1. a + b > MaxInt
      BY <1>1, <1>3, <2>1 DEF Int64, MinInt
    <3>2. wrap(a + b) < a
      BY <1>1, <3>1 DEF wrap
    <3> QED BY <1>3, <2>1, <3>2 DEF addExact
  <2>2. CASE b <= 0
    <3>1. a + b < MinInt /\ b < 0
      BY <1>1, <1>3, <2>2 DEF Int64, MinInt
    <3>2. wrap(a + b) > a
      BY <1>1, <3>1 DEF wrap, MinInt
    <3> QED BY <1>3, <3>1, <3>2 DEF addExact
  <2> QED BY <1>1, <2>1, <2>2
<1> QED BY <1>2, <1>3

(* The same for subExact.                                                  *)
THEOREM SubIsExact ==
    ASSUME NEW a \in Int64, NEW b \in Int64
    PROVE  subExact(a, b) = IF a - b \in Int64 THEN exactly(a - b) ELSE ErrOverflow
<1>1. a \in Int /\ b \in Int /\ MaxInt \in Int /\ MaxInt > 0
      /\ a >= (-MaxInt) - 1 /\ a <= MaxInt /\ b >= (-MaxInt) - 1 /\ b <= MaxInt
  BY MoneyAssumption DEF Int64, MinInt
<1>2. CASE a - b \in Int64
  <2>1. wrap(a - b) = a - b
    BY <1>1, <1>2 DEF wrap, Int64, MinInt
  <2>2. ~((b < 0 /\ a - b < a) \/ (b > 0 /\ a - b > a))
    BY <1>1
  <2> QED BY <1>2, <2>1, <2>2 DEF subExact
<1>3. CASE a - b \notin Int64
  <2>1. CASE b < 0
    <3>1. a - b > MaxInt
      BY <1>1, <1>3, <2>1 DEF Int64, MinInt
    <3>2. wrap(a - b) < a
      BY <1>1, <3>1 DEF wrap
    <3> QED BY <1>3, <2>1, <3>2 DEF subExact
  <2>2. CASE b >= 0
    <3>1. a - b < MinInt /\ b > 0
      BY <1>1, <1>3, <2>2 DEF Int64, MinInt
    <3>2. wrap(a - b) > a
      BY <1>1, <3>1 DEF wrap, MinInt
    <3> QED BY <1>3, <3>1, <3>2 DEF subExact
  <2> QED BY <1>1, <2>1, <2>2
<1> QED BY <1>2, <1>3

(* What division by the cents of a unit leaves.                            *)
LEMMA Division ==
    ASSUME NEW n \in Nat
    PROVE  /\ n \div Cents \in Nat /\ n % Cents \in 0..(Cents - 1)
           /\ n = ((n \div Cents) * Cents) + (n % Cents)
  BY MoneyAssumption

(* The limit of parseMinorUnits, which never forms a product that does not *)
(* fit, refuses exactly the amounts that do not fit.                       *)
LEMMA LimitIsExact ==
    ASSUME NEW units \in Nat, NEW cents \in 0..(Cents - 1)
    PROVE  units > (MaxInt - cents) \div Cents <=> units * Cents + cents > MaxInt
<1> DEFINE rest == MaxInt - cents
           q == rest \div Cents
<1>1. rest \in Nat /\ Cents \in Nat /\ Cents > 0 /\ MaxInt \in Nat /\ cents \in Nat
  BY MoneyAssumption
<1>2. q \in Nat /\ rest % Cents \in 0..(Cents - 1) /\ rest = (q * Cents) + (rest % Cents)
  BY <1>1, Division
<1>3. ASSUME units > q PROVE units * Cents > rest
  <2>1. units >= q + 1
    BY <1>2, <1>3
  <2>2. units * Cents >= (q + 1) * Cents
    BY <1>1, <1>2, <2>1
  <2>3. (q + 1) * Cents = q * Cents + Cents
    BY <1>1, <1>2
  <2> HIDE DEF q, rest
  <2> QED BY <1>1, <1>2, <2>2, <2>3
<1>4. ASSUME units <= q PROVE units * Cents <= rest
  <2>1. units * Cents <= q * Cents
    BY <1>1, <1>2, <1>4
  <2> HIDE DEF q, rest
  <2> QED BY <1>1, <1>2, <2>1
<1>5. units * Cents \in Nat
  BY <1>1
<1> QED BY <1>1, <1>2, <1>3, <1>4, <1>5

(* Parsing an amount in the canonical form gives its exact value in minor  *)
(* units, or refuses it because that value does not fit.                   *)
THEOREM ParseIsExact ==
    ASSUME NEW units \in 0..MaxUnits, NEW cents \in 0..(Cents - 1)
    PROVE  parseMinorUnits([canonical |-> TRUE, units |-> units, cents |-> cents])
             = IF units * Cents + cents \in Int64 THEN exactly(units * Cents + cents)
               ELSE ErrOverflow
<1>1. MaxInt \in Nat /\ MaxUnits \in Nat /\ Cents \in Nat /\ units \in Nat /\ cents \in Nat
      /\ units * Cents \in Nat
  BY MoneyAssumption
<1>2. units > (MaxInt - cents) \div Cents <=> units * Cents + cents > MaxInt
  BY <1>1, LimitIsExact
<1>3. units * Cents + cents \in Int64 <=> ~(units * Cents + cents > MaxInt)
  BY <1>1 DEF Int64, MinInt
<1>4. ~(units > MaxUnits)
  BY <1>1
<1> QED BY <1>2, <1>3, <1>4 DEF parseMinorUnits

(* What String writes of an amount, Parse reads back as the same amount:   *)
(* an amount of one response can be sent in the next request.              *)
THEOREM AmountsSurvive ==
    ASSUME NEW minor \in 0..MaxInt
    PROVE  parseMinorUnits(String(minor)) = exactly(minor)
<1> DEFINE units == minor \div Cents
           cents == minor % Cents
<1>1. MaxInt \in Nat /\ MaxUnits \in Nat /\ Cents \in Nat /\ Cents > 0 /\ minor \in Nat
      /\ MaxInt < (MaxUnits + 1) * Cents
  BY MoneyAssumption
<1>2. units \in Nat /\ cents \in 0..(Cents - 1) /\ minor = (units * Cents) + cents
  BY <1>1, Division
<1>3. String(minor) = [canonical |-> TRUE, units |-> units, cents |-> cents]
  <2>1. splitMinorUnits(minor) = [units |-> units, cents |-> cents]
    BY <1>1 DEF splitMinorUnits
  <2>2. (minor >= 0) = TRUE
    BY <1>1
  <2> HIDE DEF units, cents
  <2>3. splitMinorUnits(minor).units = units /\ splitMinorUnits(minor).cents = cents
    BY <2>1
  <2>4. String(minor) = [canonical |-> minor >= 0, units |-> splitMinorUnits(minor).units,
                         cents |-> splitMinorUnits(minor).cents]
    BY DEF String
  <2> QED BY <2>2, <2>3, <2>4, Zenon
<1> HIDE DEF units, cents
<1>4. units <= MaxUnits
  <2> SUFFICES ASSUME units >= MaxUnits + 1 PROVE FALSE
    BY <1>1, <1>2
  <2>1. units * Cents >= (MaxUnits + 1) * Cents
    BY <1>1, <1>2
  <2>2. units * Cents \in Nat /\ (MaxUnits + 1) * Cents \in Nat
    BY <1>1, <1>2
  <2> QED BY <1>1, <1>2, <2>1, <2>2
<1>5. (units * Cents) + cents \in Int64
  BY <1>1, <1>2 DEF Int64, MinInt
<1> QED BY <1>1, <1>2, <1>3, <1>4, <1>5, ParseIsExact

-----------------------------------------------------------------------------
(* The book behind the doors.                                              *)

Outcomes == {"PENDING_REFERENCE", "PROCESSED", "REJECTED", "FAILED"}

BookInv ==
    /\ account \in [Wallets -> [balance : 0..MaxBalance, version : Nat]]
    /\ outcome \in [Requests -> Outcomes \cup {"ABSENT"}]

(* What may happen to it, through a door or elsewhere.                     *)
BookMoves ==
    \/ UNCHANGED bookVars
    \/ \E w \in Wallets, balance \in 0..MaxBalance : Open(w, balance)
    \/ \E r \in Requests : Park(r) \/ Lose(r) \/ Move(r) \/ Reject(r) \/ Fail(r)

CallsInv == call.stage # "idle" => call.request \in Calls

(* What a call carries for the route it takes.                             *)
LEMMA CallForms ==
    ASSUME NEW c \in Calls
    PROVE  /\ c.route \in {"submitTransaction", "message", "getTransaction"} => c.op \in Requests
           /\ c.route \in {"openWallet", "getWallet", "getLedger", "reconcile"}
                => c.wallet \in Wallets
           /\ c.route = "getLedger" => c.page \in {"first", "next"}
           /\ c.route = "getLedger" /\ refusal(c) = "none" => c.limit \in Nat \ {0}
           /\ c.route = "openWallet" =>
                c.amount \in [canonical : BOOLEAN, units : Nat, cents : 0..(Cents - 1)]
<1>1. c.route = "getLedger" /\ refusal(c) = "none" => c.form \notin {"tooLarge", "unreadable", "invalid"}
  BY DEF refusal
<1> QED
  BY <1>1, EntranceAssumption

(* An operation that is recorded is fresh no more.                         *)
LEMMA FreshIsAbsent ==
    ASSUME NEW r \in Requests, Fresh(r)
    PROVE  ~Recorded(r) /\ ~Taken(r)
BY DEF Fresh, Taken, SameIdentity

(* The book changes one operation at a time; what is settled or refused an *)
(* identity stays so.                                                      *)
LEMMA OutcomeForms ==
    ASSUME BookInv, BookMoves
    PROVE  \/ UNCHANGED outcome
           \/ \E r \in Requests, status \in Outcomes :
                /\ outcome' = [outcome EXCEPT ![r] = status]
                /\ Fresh(r) \/ outcome[r] = "PENDING_REFERENCE"
BY DEF BookMoves, bookVars, Open, Park, Lose, Move, Reject, Fail, Conclude, Unsettled, Outcomes

(* The book keeps its types.                                               *)
LEMMA BookStep ==
    ASSUME BookInv, BookMoves
    PROVE  BookInv'
<1>1. outcome' \in [Requests -> Outcomes \cup {"ABSENT"}]
  BY OutcomeForms DEF BookInv
<1>2. ASSUME NEW w \in Wallets, NEW balance \in 0..MaxBalance, Open(w, balance)
      PROVE  account' \in [Wallets -> [balance : 0..MaxBalance, version : Nat]]
  BY <1>2 DEF Open, BookInv
<1>3. ASSUME NEW r \in Requests, Move(r)
      PROVE  account' \in [Wallets -> [balance : 0..MaxBalance, version : Nat]]
  <2> DEFINE w == Request[r].wallet
  <2>1. w \in Wallets
    BY RequestAssumption DEF ValidRequest
  <2>2. PICK m \in Movements(r) :
          /\ Fits(r, m[1])
          /\ account' = [account EXCEPT ![w] =
                           [balance |-> applyDirection(account[w].balance, m[1], Request[r].amount),
                            version |-> account[w].version + 1]]
    BY <1>3 DEF Move
  <2>3. /\ applyDirection(account[w].balance, m[1], Request[r].amount) \in 0..MaxBalance
        /\ account[w].version + 1 \in Nat
    BY <2>1, <2>2 DEF Fits, BookInv
  <2> QED
    BY <2>1, <2>2, <2>3 DEF BookInv
<1>4. \/ UNCHANGED account
      \/ \E w \in Wallets, balance \in 0..MaxBalance : Open(w, balance)
      \/ \E r \in Requests : Move(r)
  BY DEF BookMoves, bookVars, Park, Lose, Reject, Fail
<1> QED
  BY <1>1, <1>2, <1>3, <1>4 DEF BookInv

(* A final outcome is final, and a record or an identity stays taken.      *)
LEMMA OutcomesStand ==
    ASSUME BookInv, BookMoves, NEW r \in Requests
    PROVE  /\ Terminal(outcome[r]) => outcome'[r] = outcome[r]
           /\ Recorded(r) => Recorded(r)'
           /\ ~Recorded(r) /\ Taken(r) => ~Recorded(r)' /\ Taken(r)'
<1>1. CASE UNCHANGED outcome
  BY <1>1 DEF Recorded, Taken
<1>2. ASSUME NEW o \in Requests, NEW status \in Outcomes,
             outcome' = [outcome EXCEPT ![o] = status],
             Fresh(o) \/ outcome[o] = "PENDING_REFERENCE"
      PROVE  /\ Terminal(outcome[r]) => outcome'[r] = outcome[r]
             /\ Recorded(r) => Recorded(r)'
             /\ ~Recorded(r) /\ Taken(r) => ~Recorded(r)' /\ Taken(r)'
  <2>1. \A p \in Requests : outcome'[p] = IF p = o THEN status ELSE outcome[p]
    BY <1>2 DEF BookInv
  <2>2. Fresh(o) => ~Recorded(o) /\ ~Taken(o)
    BY FreshIsAbsent
  <2>3. status # "ABSENT"
    BY DEF Outcomes
  <2>4. Terminal(outcome[r]) => r # o
    BY <1>2, <2>2 DEF Terminal, Recorded
  <2>5. ~Recorded(r) /\ Taken(r) => r # o
    BY <1>2, <2>2 DEF Recorded
  <2>6. \A p \in Requests : Recorded(p) => Recorded(p)'
    BY <2>1, <2>3 DEF Recorded
  <2>7. Taken(r) => Taken(r)'
    BY <2>6 DEF Taken, SameIdentity
  <2>8. r # o => outcome'[r] = outcome[r]
    BY <2>1
  <2> QED
    BY <2>4, <2>5, <2>6, <2>7, <2>8 DEF Recorded
<1> QED
  BY <1>1, <1>2, OutcomeForms

(* What the use case reports of an operation is what the book says, and    *)
(* what it refuses it does not record.                                     *)
LEMMA ExecuteForms ==
    ASSUME BookInv, NEW c, c.op \in Requests, NEW result, Execute(c, result)
    PROVE  /\ BookMoves
           /\ result \in Errors \/ (result \in Outcomes /\ result = outcome'[c.op])
           /\ result = "CONFLICT" => ~Recorded(c.op)' /\ Taken(c.op)'
           /\ result \in Errors \ Failures => outcome' = outcome
           /\ result \in OnlyOnTheQueue => c.route = "message"
           /\ result \in WageringErrors => result = "MISSING_FIELD" /\ c.correlation = "blank"
<1> DEFINE r == c.op
           Goal == /\ BookMoves
                   /\ result \in Errors \/ (result \in Outcomes /\ result = outcome'[r])
                   /\ result = "CONFLICT" => ~Recorded(r)' /\ Taken(r)'
                   /\ result \in Errors \ Failures => outcome' = outcome
                   /\ result \in OnlyOnTheQueue => c.route = "message"
                   /\ result \in WageringErrors => result = "MISSING_FIELD" /\ c.correlation = "blank"
<1> SUFFICES Goal
  OBVIOUS
<1>0. /\ OnlyOnTheQueue \subseteq Errors \ Failures /\ WageringErrors \subseteq OnlyOnTheQueue
      /\ Failures \subseteq Errors /\ Outcomes \cap Errors = {}
      /\ {"CONFLICT", "WALLET_NOT_FOUND"} \subseteq (Errors \ Failures) \ OnlyOnTheQueue
      /\ "PAYLOAD_MISMATCH" \in OnlyOnTheQueue \ WageringErrors
      /\ "MISSING_FIELD" \in WageringErrors /\ "CONFLICT" \notin OnlyOnTheQueue
      /\ "COMMIT_OUTCOME_UNKNOWN" \in Failures
  BY DEF OnlyOnTheQueue, Errors, Failures, WageringErrors, Outcomes
<1>1. ASSUME Settle(r) PROVE BookMoves /\ outcome'[r] \in Outcomes
  <2>1. BookMoves
    BY <1>1 DEF Settle, BookMoves
  <2>2. outcome'[r] \in Outcomes
    BY <1>1 DEF Settle, Park, Lose, Move, Reject, Conclude, Outcomes, BookInv
  <2> QED
    BY <2>1, <2>2
<1>2. ASSUME UNCHANGED bookVars
      PROVE  /\ BookMoves /\ outcome' = outcome
             /\ Recorded(r) => outcome[r] \in Outcomes
             /\ (Recorded(r)' <=> Recorded(r)) /\ (Taken(r)' <=> Taken(r))
  BY <1>2 DEF BookMoves, bookVars, Recorded, Taken, BookInv
<1>3. CASE Settle(r) /\ (result = outcome'[r] \/ result = "COMMIT_OUTCOME_UNKNOWN")
  BY <1>0, <1>1, <1>3
<1>4. CASE Recorded(r) /\ result = outcome[r] /\ UNCHANGED bookVars
  BY <1>0, <1>2, <1>4
<1>5. CASE c.route = "message" /\ result = "PAYLOAD_MISMATCH" /\ UNCHANGED bookVars
  BY <1>0, <1>2, <1>5
<1>6. CASE NewExternal(c) # "none" /\ result = NewExternal(c) /\ UNCHANGED bookVars
  <2>1. result = "MISSING_FIELD" /\ c.route = "message" /\ c.correlation = "blank"
    BY <1>6 DEF NewExternal
  <2> QED
    BY <1>0, <1>2, <1>6, <2>1
<1>7. CASE /\ \/ ~Recorded(r) /\ Taken(r) /\ result = "CONFLICT"
              \/ result \in Failures \cup {"WALLET_NOT_FOUND"}
           /\ UNCHANGED bookVars
  BY <1>0, <1>2, <1>7
<1> HIDE DEF Goal
<1>8. CASE /\ \/ Recorded(r) /\ result = outcome[r]
              \/ ~Recorded(r) /\ Taken(r) /\ result = "CONFLICT"
              \/ ~Taken(r) /\ ~Opened(Request[r].wallet) /\ result = "WALLET_NOT_FOUND"
           /\ UNCHANGED bookVars
  BY <1>4, <1>7, <1>8
<1>9. CASE result \in Failures /\ UNCHANGED bookVars
  BY <1>7, <1>9
<1>10. CASE /\ c.route = "message"
            /\ result = "PAYLOAD_MISMATCH" \/ (Recorded(r) /\ result = outcome[r])
            /\ UNCHANGED bookVars
  BY <1>4, <1>5, <1>10
<1> QED
  BY <1>3, <1>6, <1>8, <1>9, <1>10, Zenon DEF Execute


-----------------------------------------------------------------------------
(* Amounts.                                                                *)

(* Units and cents are told apart again by division.                       *)
LEMMA Quotient ==
    ASSUME NEW units \in Nat, NEW cents \in 0..(Cents - 1)
    PROVE  /\ (units * Cents + cents) \div Cents = units
           /\ (units * Cents + cents) % Cents = cents
<1>0. Cents \in Nat /\ Cents > 0 /\ cents \in Nat /\ cents < Cents /\ units * Cents \in Nat
  BY MoneyAssumption
<1> DEFINE n == units * Cents + cents
<1>1. n \in Nat
  BY <1>0
<1> HIDE DEF n
<1>2. /\ n \div Cents \in Nat /\ n % Cents \in 0..(Cents - 1)
      /\ n = ((n \div Cents) * Cents) + (n % Cents)
  BY <1>1, Division
<1> DEFINE q == n \div Cents
           rest == n % Cents
<1> HIDE DEF q, rest
<1>3. q \in Nat /\ rest \in 0..(Cents - 1) /\ units * Cents + cents = q * Cents + rest
  BY <1>2 DEF n, q, rest
<1>4. ASSUME q < units PROVE FALSE
  <2>1. (q + 1) * Cents <= units * Cents
    BY <1>0, <1>3, <1>4
  <2>2. (q + 1) * Cents = q * Cents + Cents /\ q * Cents \in Nat
    BY <1>0, <1>3
  <2> QED
    BY <1>0, <1>3, <2>1, <2>2
<1>5. ASSUME units < q PROVE FALSE
  <2>1. (units + 1) * Cents <= q * Cents
    BY <1>0, <1>3, <1>5
  <2>2. (units + 1) * Cents = units * Cents + Cents /\ q * Cents \in Nat
    BY <1>0, <1>3
  <2> QED
    BY <1>0, <1>3, <2>1, <2>2
<1>6. q = units
  BY <1>3, <1>4, <1>5
<1>7. rest = cents
  BY <1>0, <1>3, <1>6
<1> QED
  BY <1>6, <1>7 DEF n, q, rest

(* An opening balance that is let through fits, and is acknowledged as it  *)
(* was sent.                                                               *)
LEMMA Parsed ==
    ASSUME NEW amount \in [canonical : BOOLEAN, units : Nat, cents : 0..(Cents - 1)]
    PROVE  LET value == amount.units * Cents + amount.cents
               parsed == parseMinorUnits(amount)
           IN  /\ parsed.ok => /\ parsed.minor \in 0..MaxInt
                               /\ String(parsed.minor) = amount
               /\ ~parsed.ok => ~amount.canonical \/ value > MaxInt
<1> DEFINE units == amount.units
           cents == amount.cents
           value == units * Cents + cents
           parsed == parseMinorUnits(amount)
<1>0. /\ MaxInt \in Nat /\ MaxUnits \in Nat /\ Cents \in Nat /\ Cents > 0
      /\ MaxInt < (MaxUnits + 1) * Cents
      /\ units \in Nat /\ cents \in 0..(Cents - 1) /\ amount.canonical \in BOOLEAN
  BY MoneyAssumption
<1>1. CASE ~amount.canonical
  BY <1>1 DEF parseMinorUnits, ErrInvalidAmount
<1>2. CASE amount.canonical /\ units > MaxUnits
  <2>1. ~parsed.ok
    BY <1>2 DEF parseMinorUnits, ErrInvalidAmount
  <2>2. units * Cents >= (MaxUnits + 1) * Cents
    BY <1>0, <1>2
  <2>3. value > MaxInt
    <3> HIDE DEF units, cents
    <3>1. units * Cents \in Nat /\ (MaxUnits + 1) * Cents \in Nat
      BY <1>0
    <3> QED
      BY <1>0, <2>2, <3>1
  <2> QED
    BY <2>1, <2>3
<1>3. CASE amount.canonical /\ ~(units > MaxUnits)
  <2>1. units > (MaxInt - cents) \div Cents <=> value > MaxInt
    BY <1>0, LimitIsExact
  <2>2. CASE value > MaxInt
    BY <1>3, <2>1, <2>2 DEF parseMinorUnits, ErrOverflow
  <2>3. CASE ~(value > MaxInt)
    <3>1. parsed = exactly(value)
      BY <1>3, <2>1, <2>3 DEF parseMinorUnits
    <3>2. parsed.ok /\ parsed.minor = value
      BY <3>1 DEF exactly
    <3>3. value \in 0..MaxInt
      <4> HIDE DEF units, cents
      <4>1. units * Cents \in Nat
        BY <1>0
      <4> QED
        BY <1>0, <2>3, <4>1
    <3>4. String(value) = amount
      <4>1. value \div Cents = units /\ value % Cents = cents
        BY <1>0, Quotient
      <4>2. splitMinorUnits(value).units = units /\ splitMinorUnits(value).cents = cents
        <5> HIDE DEF value, units, cents
        <5> QED
          BY <3>3, <4>1 DEF splitMinorUnits
      <4>3. (value >= 0) = amount.canonical
        <5> HIDE DEF value
        <5>1. value >= 0
          BY <1>0, <3>3
        <5> QED
          BY <1>0, <1>3, <5>1
      <4>4. String(value) = [canonical |-> value >= 0, units |-> splitMinorUnits(value).units,
                             cents |-> splitMinorUnits(value).cents]
        BY DEF String
      <4>5. amount = [canonical |-> amount.canonical, units |-> units, cents |-> cents]
        OBVIOUS
      <4> HIDE DEF value, units, cents
      <4> QED
        BY <4>2, <4>3, <4>4, <4>5, Zenon
    <3> QED
      BY <3>2, <3>3, <3>4
  <2> QED
    BY <2>2, <2>3
<1> QED
  BY <1>0, <1>1, <1>2, <1>3

-----------------------------------------------------------------------------
(* What a step does to the book and to the call.                           *)

(* Every step of the doors is a step of the book, or leaves it alone.      *)
LEMMA StepIsOfBook ==
    ASSUME BookInv, CallsInv, [Next]_vars
    PROVE  BookMoves
<1>0. OpeningBalances \subseteq 0..MaxBalance /\ MaxInt = MaxBalance
  BY EntranceAssumption
<1>1. ASSUME Elsewhere PROVE BookMoves
  BY <1>0, <1>1 DEF Elsewhere, BookNext, BookMoves
<1>2. ASSUME OpenWallet PROVE BookMoves
  <2> DEFINE w == call.request.wallet
             minor == parseMinorUnits(call.request.amount).minor
  <2>1. call.request \in Calls /\ call.request.route = "openWallet" /\ refusal(call.request) = "none"
    BY <1>2 DEF OpenWallet, Serving, CallsInv
  <2>2. /\ w \in Wallets
        /\ call.request.amount \in [canonical : BOOLEAN, units : Nat, cents : 0..(Cents - 1)]
    BY <2>1, CallForms
  <2>3. parseMinorUnits(call.request.amount).ok
    BY <2>1 DEF refusal
  <2>4. minor \in 0..MaxInt
    BY <2>2, <2>3, Parsed
  <2>5. Open(w, minor) \/ UNCHANGED bookVars
    BY <1>2 DEF OpenWallet
  <2> QED
    BY <1>0, <2>2, <2>4, <2>5 DEF BookMoves
<1>3. ASSUME SubmitTransaction \/ HandleMessage PROVE BookMoves
  <2>1. call.request \in Calls /\ call.request.route \in {"submitTransaction", "message"}
    BY <1>3 DEF SubmitTransaction, HandleMessage, Serving, CallsInv
  <2>2. call.request.op \in Requests
    BY <2>1, CallForms
  <2>3. \E result : Execute(call.request, result)
    BY <1>3 DEF SubmitTransaction, HandleMessage
  <2> QED
    BY <2>2, <2>3, ExecuteForms
<1>4. UNCHANGED bookVars => BookMoves
  BY DEF BookMoves
<1> QED
  BY <1>1, <1>2, <1>3, <1>4
     DEF Next, vars, bookVars, Served, Send, Refuse, Shed, Break, Take, GetWallet, FindFirst,
         Reconcile, GetLedger, GetTransaction

(* Nothing is answered twice: what a step answers, it was asked.           *)
LEMMA AnsweredForms ==
    ASSUME [Next]_vars, call'.stage = "answered"
    PROVE  \/ UNCHANGED call
           \/ /\ call.stage \in {"received", "reading"}
              /\ call'.request = call.request
              /\ \/ /\ call'.status = refusal(call.request) /\ refusal(call.request) # "none"
                    /\ call'.view = Nothing /\ call'.body = Nothing
                 \/ /\ call'.status \in {"503", "500", "404"}
                    /\ call'.view = Nothing /\ call'.body = Nothing
                 \/ OpenWallet \/ GetWallet \/ Reconcile \/ GetLedger
                 \/ SubmitTransaction \/ HandleMessage \/ GetTransaction
<1>1. ASSUME NEW status, NEW view, NEW body, Answer(status, view, body)
      PROVE  /\ call'.request = call.request /\ call'.status = status
             /\ call'.view = view /\ call'.body = body
  BY <1>1 DEF Answer
<1>2. CASE UNCHANGED vars \/ Elsewhere
  BY <1>2 DEF vars, Elsewhere
<1>3. (\E c \in Calls : Send(c)) \/ Take => FALSE
  BY DEF Send, Take, NoCall
<1>4. CASE Refuse \/ Shed \/ Break
  BY <1>1, <1>4 DEF Refuse, Shed, Break
<1>5. CASE FindFirst
  <2>1. call'.stage # "reading"
    OBVIOUS
  <2>2. Answer("404", Nothing, Nothing) /\ call.stage = "received"
    BY <1>5, <2>1 DEF FindFirst, Serving
  <2> QED
    BY <1>1, <2>2
<1>6. CASE OpenWallet \/ GetWallet \/ SubmitTransaction \/ HandleMessage \/ GetTransaction
  <2>1. call.stage = "received"
    BY <1>6 DEF OpenWallet, GetWallet, SubmitTransaction, HandleMessage, GetTransaction, Serving
  <2>2. \E status, view, body : Answer(status, view, body)
    BY <1>6 DEF OpenWallet, GetWallet, SubmitTransaction, HandleMessage, GetTransaction
  <2> QED
    BY <1>1, <1>6, <2>1, <2>2
<1>7. CASE Reconcile \/ GetLedger
  <2>1. call.stage = "reading"
    BY <1>7 DEF Reconcile, GetLedger, Reading
  <2>2. \E status, view, body : Answer(status, view, body)
    BY <1>7 DEF Reconcile, GetLedger
  <2> QED
    BY <1>1, <1>7, <2>1, <2>2
<1> QED
  BY <1>2, <1>3, <1>4, <1>5, <1>6, <1>7 DEF Next, Served

(* Only what may be sent is served.                                        *)
LEMMA CallsStep == CallsInv /\ [Next]_vars => CallsInv'
<1> SUFFICES ASSUME CallsInv, [Next]_vars, call'.stage # "idle" PROVE call'.request \in Calls
  BY DEF CallsInv
<1>1. CASE call'.stage = "answered"
  BY <1>1, AnsweredForms DEF CallsInv
<1>2. CASE call'.stage # "answered"
  <2>1. ASSUME NEW c \in Calls, Send(c) PROVE call'.request \in Calls
    BY <2>1 DEF Send
  <2>2. ~Take
    BY DEF Take, NoCall
  <2>3. ASSUME NEW status, NEW view, NEW body, Answer(status, view, body) PROVE FALSE
    BY <1>2, <2>3 DEF Answer
  <2>4. CASE FindFirst
    <3>1. call'.request = call.request /\ call.stage = "received"
      BY <2>3, <2>4 DEF FindFirst, Serving
    <3> QED
      BY <3>1 DEF CallsInv
  <2>5. UNCHANGED call => call'.request \in Calls
    BY DEF CallsInv
  <2> QED
    BY <2>1, <2>2, <2>3, <2>4, <2>5
       DEF Next, vars, Elsewhere, Served, Refuse, Shed, Break, OpenWallet, GetWallet, Reconcile,
           GetLedger, SubmitTransaction, HandleMessage, GetTransaction
<1> QED
  BY <1>1, <1>2

(* The first state has these types.                                        *)
LEMMA InitForms == Init => BookInv /\ CallsInv
<1> SUFFICES ASSUME Init PROVE BookInv /\ CallsInv
  OBVIOUS
<1>1. MaxBalance \in Nat
  BY ConstantsAssumption
<1> QED
  BY <1>1 DEF Init, BookInit, BookInv, CallsInv, NoCall


-----------------------------------------------------------------------------
(* Answers.                                                                *)

(* The note of an answer: what it says of the operation holds for good.    *)
Stands(r, status) ==
    /\ status = "201" => outcome[r] = "PROCESSED"
    /\ status = "422" => outcome[r] \in {"REJECTED", "FAILED"}
    /\ status \in {"202", "deleted", "PENDING_REFERENCE"} => Recorded(r)
    /\ status = "409" => ~Recorded(r) /\ Taken(r)
    /\ Terminal(status) => outcome[r] = status

NotesInv == notes.kind = "answer" => notes.op \in Requests /\ Stands(notes.op, notes.status)

(* An answer that is true of an operation stays true.                      *)
LEMMA StandsOn ==
    ASSUME BookInv, BookMoves, NEW r \in Requests, NEW status, Stands(r, status)
    PROVE  Stands(r, status)'
<1>1. /\ Terminal(outcome[r]) => outcome'[r] = outcome[r]
      /\ Recorded(r) => Recorded(r)'
      /\ ~Recorded(r) /\ Taken(r) => ~Recorded(r)' /\ Taken(r)'
  BY OutcomesStand
<1>2. outcome[r] \in {"PROCESSED", "REJECTED", "FAILED"} => outcome'[r] = outcome[r]
  BY <1>1 DEF Terminal
<1>3. /\ status = "201" => outcome'[r] = "PROCESSED"
      /\ status = "422" => outcome'[r] \in {"REJECTED", "FAILED"}
      /\ status \in {"202", "deleted", "PENDING_REFERENCE"} => Recorded(r)'
      /\ status = "409" => ~Recorded(r)' /\ Taken(r)'
      /\ Terminal(status) => outcome'[r] = status
  BY <1>1, <1>2 DEF Stands, Terminal
<1> QED
  BY <1>3 DEF Stands

(* The answers of both doors stand when they are given.                    *)
LEMMA ExecuteStands ==
    ASSUME BookInv, NEW c, NEW r \in Requests, r = c.op, NEW result, Execute(c, result),
           NEW status \in {httpAnswer(result), queueAnswer(result)}
    PROVE  Stands(r, status)'
<1>1. /\ result \in Errors \/ (result \in Outcomes /\ result = outcome'[r])
      /\ result = "CONFLICT" => ~Recorded(r)' /\ Taken(r)'
  BY ExecuteForms
<1>2. CASE result \in Errors
  <2>1. \/ status = "409" /\ result = "CONFLICT"
        \/ status \in {"404", "503", "500", "deadLetter", "stays"}
    BY <1>2 DEF httpAnswer, failProcessing, queueAnswer, Errors
  <2>2. status = "409" => ~Recorded(r)' /\ Taken(r)'
    BY <1>1, <2>1
  <2>3. status \notin {"201", "422", "202", "deleted", "PENDING_REFERENCE"} /\ ~Terminal(status)
    BY <2>1 DEF Terminal
  <2> QED
    BY <2>2, <2>3 DEF Stands
<1>3. CASE result \in Outcomes /\ result = outcome'[r]
  <2>1. result \notin Errors
    BY <1>3 DEF Outcomes, Errors, Failures, WageringErrors
  <2>2. status = statusOf(result) \/ status = "deleted"
    BY <2>1 DEF httpAnswer, queueAnswer, Errors
  <2>3. Recorded(r)'
    BY <1>3 DEF Recorded, Outcomes
  <2>4. /\ status = "201" => outcome'[r] = "PROCESSED"
        /\ status = "422" => outcome'[r] \in {"REJECTED", "FAILED"}
        /\ status # "409" /\ ~Terminal(status)
    BY <1>3, <2>2 DEF statusOf, Outcomes, Terminal
  <2> QED
    BY <2>3, <2>4 DEF Stands
<1> QED
  BY <1>1, <1>2, <1>3

(* So do the answers a caller has kept.                                    *)
LEMMA NotesStep ==
    BookInv /\ CallsInv /\ NotesInv /\ [Next]_vars => NotesInv'
<1> SUFFICES ASSUME BookInv, CallsInv, NotesInv, [Next]_vars, notes'.kind = "answer",
                    NEW r, NEW status, r = notes'.op, status = notes'.status
             PROVE  r \in Requests /\ Stands(r, status)'
  BY DEF NotesInv, Stands, Recorded, Taken, SameIdentity, Terminal
<1>1. CASE notes' = notes
  <2>1. r \in Requests /\ Stands(r, status)
    BY <1>1 DEF NotesInv
  <2> QED
    BY <2>1, StepIsOfBook, StandsOn
<1>2. CASE notes' # notes
  <2>1. ASSUME NEW o, NEW s, Keep(o, s) PROVE o = r /\ s = status
    BY <1>2, <2>1 DEF Keep
  <2>2. ASSUME SubmitTransaction \/ HandleMessage PROVE r \in Requests /\ Stands(r, status)'
    <3>1. call.request.op \in Requests
      BY <2>2, CallForms DEF SubmitTransaction, HandleMessage, Serving, CallsInv
    <3>2. PICK result : \E s \in {httpAnswer(result), queueAnswer(result)} :
                          Execute(call.request, result) /\ Keep(call.request.op, s)
      BY <2>2 DEF SubmitTransaction, HandleMessage
    <3>3. /\ r = call.request.op /\ status \in {httpAnswer(result), queueAnswer(result)}
          /\ Execute(call.request, result)
      BY <2>1, <3>2
    <3> QED
      BY <3>1, <3>3, ExecuteStands
  <2>3. ASSUME GetTransaction PROVE r \in Requests /\ Stands(r, status)'
    <3>1. /\ call.request.route = "getTransaction" /\ call.request \in Calls
          /\ lookUp(call.request, {o \in Requests : Recorded(o)}) = "200"
          /\ Keep(call.request.op, outcome[call.request.op]) /\ UNCHANGED bookVars
      BY <1>2, <2>3 DEF GetTransaction, Serving, CallsInv
    <3>2. r = call.request.op /\ status = outcome[r] /\ r \in Requests
      BY <2>1, <3>1, CallForms
    <3>3. Recorded(r)
      BY <3>1, <3>2 DEF lookUp
    <3>4. outcome'[r] = status /\ status \in Outcomes
      BY <3>1, <3>2, <3>3 DEF bookVars, Recorded, BookInv
    <3>5. status \notin {"201", "422", "202", "deleted", "409", "ABSENT"}
      BY <3>4 DEF Outcomes
    <3> QED
      BY <3>2, <3>4, <3>5 DEF Stands, Recorded
  <2>4. ~GetLedger
    <3>1. GetLedger => \E wallet, next, entries :
                         notes' = [kind |-> "listing", wallet |-> wallet, next |-> next,
                                   entries |-> entries]
      BY Zenon DEF GetLedger
    <3> QED
      BY <3>1
  <2> QED
    BY <1>2, <2>2, <2>3, <2>4
       DEF Next, vars, Elsewhere, Served, Send, Refuse, Shed, Break, Take, OpenWallet, GetWallet,
           FindFirst, Reconcile
<1> QED
  BY <1>1, <1>2

(* An answer keeps its word, whatever is settled afterwards (statusOf,     *)
(* failProcessing and getTransaction of the HTTP handlers, Handle of the   *)
(* listener).                                                              *)
THEOREM AnswersKeepTheirWord == Spec => []AnswersStand
<1>1. Init => NotesInv
  BY DEF Init, NotesInv, NoNotes
<1>2. NotesInv => AnswersStand
  BY DEF NotesInv, Stands, AnswersStand, Recorded
<1>3. BookInv /\ CallsInv /\ [Next]_vars => BookInv'
  BY StepIsOfBook, BookStep
<1> QED
  BY <1>1, <1>2, <1>3, InitForms, CallsStep, NotesStep, PTL DEF Spec


-----------------------------------------------------------------------------
(* Lookups.                                                                *)

LookupsInv ==
    /\ Answered("getTransaction") \/ Answered("getProviderTransaction")
    /\ call.view # Nothing
    => call.status = lookUp(call.request, call.view.rows)

(* A provider learns nothing about the operations of other providers       *)
(* (getTransaction and getProviderTransaction of the HTTP handlers).       *)
THEOREM LookupsStayIsolated == Spec => []LookupsIsolated
<1>1. Init => LookupsInv
  BY DEF Init, NoCall, LookupsInv, Answered
<1>2. LookupsInv /\ [Next]_vars => LookupsInv'
  <2> SUFFICES ASSUME LookupsInv, [Next]_vars, call'.stage = "answered", call'.view # Nothing,
                      call'.request.route \in {"getTransaction", "getProviderTransaction"}
               PROVE  call'.status = lookUp(call'.request, call'.view.rows)
    BY DEF LookupsInv, Answered, lookUp, Own, Internal
  <2>1. CASE UNCHANGED call
    BY <2>1 DEF LookupsInv, Answered
  <2>2. CASE GetTransaction
    <3> DEFINE rows == {r \in Requests : Recorded(r)}
    <3>1. Answer(lookUp(call.request, rows), [rows |-> rows], Nothing)
      BY <2>2 DEF GetTransaction
    <3> HIDE DEF rows
    <3> QED
      BY <3>1 DEF Answer
  <2>3. call'.request = call.request =>
          ~(OpenWallet \/ GetWallet \/ Reconcile \/ GetLedger \/ SubmitTransaction \/ HandleMessage)
    BY DEF OpenWallet, GetWallet, Reconcile, GetLedger, SubmitTransaction, HandleMessage, Serving,
           Reading
  <2> QED
    BY <2>1, <2>2, <2>3, AnsweredForms
<1>3. LookupsInv => LookupsIsolated
  <2>1. ASSUME NEW c, NEW rows, ~Internal(c.by)
        PROVE  lookUp(c, rows) = lookUp(c, {r \in rows : Own(c.by, Request[r].provider)})
    <3> DEFINE own == {r \in rows : Own(c.by, Request[r].provider)}
               found(s) == IF c.route = "getTransaction" THEN {c.op} \cap s
                           ELSE {r \in s : Request[r].provider = c.provider /\ Request[r].ext = c.ext}
    <3>1. (\E r \in found(rows) : Own(c.by, Request[r].provider))
            <=> (\E r \in found(own) : Own(c.by, Request[r].provider))
      OBVIOUS
    <3> QED
      BY <3>1 DEF lookUp
  <2> QED
    BY <2>1 DEF LookupsInv, LookupsIsolated
<1> QED
  BY <1>1, <1>2, <1>3, PTL DEF Spec

-----------------------------------------------------------------------------
(* The two doors.                                                          *)

DoorsInv ==
    LET c == call.request
        result == call.body.result
    IN  /\ Answered("submitTransaction") \/ Answered("message")
        /\ call.body # Nothing
        => /\ result \in Outcomes \cup Errors
           /\ result \in Errors \ Failures => ~call.body.records
           /\ result \in OnlyOnTheQueue => c.route = "message"
           /\ result \in WageringErrors => result = "MISSING_FIELD" /\ c.correlation = "blank"

(* A result means the same at both doors, but for those that only a        *)
(* message can end in (failProcessing of the HTTP handlers,                *)
(* rejectionReason of the listener, process of the consumer).              *)
LEMMA SameMeaning ==
    ASSUME NEW result \in Outcomes \cup Errors
    PROVE  \/ queueAnswer(result) = "stays" /\ httpAnswer(result) \in {"500", "503"}
           \/ /\ queueAnswer(result) = "deadLetter" /\ result \in Errors \ Failures
              /\ httpAnswer(result) \in {"404", "409"} \/ result \in OnlyOnTheQueue
           \/ queueAnswer(result) = "deleted" /\ httpAnswer(result) \in {"201", "202", "422"}
<1>1. CASE result \in {"CONFLICT", "WALLET_NOT_FOUND"}
  BY <1>1 DEF queueAnswer, httpAnswer, failProcessing, Errors, Failures
<1>2. CASE result \in OnlyOnTheQueue
  BY <1>2 DEF queueAnswer, OnlyOnTheQueue, WageringErrors, Errors, Failures
<1>3. CASE result \in Failures
  BY <1>3 DEF queueAnswer, httpAnswer, failProcessing, WageringErrors, Errors, Failures
<1>4. CASE result \in Outcomes
  <2>1. result \notin Errors
    BY <1>4 DEF Outcomes, Errors, Failures, WageringErrors
  <2>2. httpAnswer(result) \in {"201", "202", "422"}
    BY <2>1 DEF httpAnswer, statusOf
  <2>3. queueAnswer(result) = "deleted"
    BY <2>1 DEF queueAnswer, Errors
  <2> QED
    BY <2>2, <2>3
<1> QED
  BY <1>1, <1>2, <1>3, <1>4 DEF Errors, OnlyOnTheQueue

(* The queue follows the rules of HTTP, but for the results that only a    *)
(* message can end in, and neither door records what it refuses.           *)
THEOREM DoorsAlwaysAgree == Spec => []DoorsAgree
<1>1. Init => DoorsInv
  BY DEF Init, NoCall, DoorsInv, Answered
<1>2. BookInv /\ CallsInv /\ DoorsInv /\ [Next]_vars => DoorsInv'
  <2> DEFINE Right(c, result, records) ==
               /\ result \in Outcomes \cup Errors
               /\ result \in Errors \ Failures => ~records
               /\ result \in OnlyOnTheQueue => c.route = "message"
               /\ result \in WageringErrors => result = "MISSING_FIELD" /\ c.correlation = "blank"
  <2> SUFFICES ASSUME BookInv, CallsInv, DoorsInv, [Next]_vars,
                      call'.stage = "answered", call'.body # Nothing,
                      call'.request.route \in {"submitTransaction", "message"}
               PROVE  Right(call'.request, call'.body.result, call'.body.records)
    BY DEF DoorsInv, Answered
  <2>1. CASE UNCHANGED call
    BY <2>1 DEF DoorsInv, Answered
  <2>2. CASE SubmitTransaction \/ HandleMessage
    <3> DEFINE c == call.request
    <3>1. c.op \in Requests
      BY <2>2, CallForms DEF SubmitTransaction, HandleMessage, Serving, CallsInv
    <3>2. PICK result \in Statuses \cup Errors :
            /\ Execute(c, result)
            /\ \E status : Answer(status, Nothing, Recount(c.op, result))
      BY <2>2 DEF SubmitTransaction, HandleMessage
    <3>3. /\ call'.request = c /\ call'.body.result = result
          /\ call'.body.records = (outcome'[c.op] # outcome[c.op])
      BY <3>2 DEF Answer, Recount
    <3>4. Right(c, result, outcome'[c.op] # outcome[c.op])
      BY <3>1, <3>2, ExecuteForms
    <3> HIDE DEF c
    <3> QED
      BY <3>3, <3>4
  <2>3. call'.request = call.request =>
          ~(OpenWallet \/ GetWallet \/ Reconcile \/ GetLedger \/ GetTransaction)
    BY DEF OpenWallet, GetWallet, Reconcile, GetLedger, GetTransaction, Serving, Reading
  <2> QED
    BY <2>1, <2>2, <2>3, AnsweredForms
<1>3. DoorsInv => DoorsAgree
  BY SameMeaning DEF DoorsInv, DoorsAgree
<1>4. BookInv /\ CallsInv /\ [Next]_vars => BookInv'
  BY StepIsOfBook, BookStep
<1> QED
  BY <1>1, <1>2, <1>3, <1>4, InitForms, CallsStep, PTL DEF Spec


-----------------------------------------------------------------------------
(* Amounts at the door.                                                    *)

Value(amount) == amount.units * Cents + amount.cents

(* What is shown of a balance is the balance.                              *)
LEMMA ShownExactly ==
    ASSUME NEW minor \in 0..MaxInt
    PROVE  String(minor).canonical /\ Value(String(minor)) = minor
<1>1. minor \in Nat /\ minor >= 0
  BY MoneyAssumption
<1>2. splitMinorUnits(minor) = [units |-> minor \div Cents, cents |-> minor % Cents]
  BY <1>1 DEF splitMinorUnits
<1>3. /\ String(minor).canonical = (minor >= 0)
      /\ String(minor).units = splitMinorUnits(minor).units
      /\ String(minor).cents = splitMinorUnits(minor).cents
  BY DEF String
<1>4. splitMinorUnits(minor).units = minor \div Cents /\ splitMinorUnits(minor).cents = minor % Cents
  BY <1>2
<1>5. minor = ((minor \div Cents) * Cents) + (minor % Cents)
  BY <1>1, Division
<1>6. Value(String(minor)) = minor
  BY <1>3, <1>4, <1>5, Zenon DEF Value
<1> QED
  BY <1>1, <1>3, <1>6

(* The answer of a new call about an opening or a wallet.                  *)
LEMMA AmountForms ==
    ASSUME BookInv, CallsInv, [Next]_vars, call'.stage = "answered", ~UNCHANGED call
    PROVE  /\ call'.request.route = "openWallet" /\ call'.status = "201"
                => call'.body = call'.request.amount
           /\ /\ call'.request.route = "openWallet" /\ call'.status = "400"
              /\ call'.request.form = "ok"
              => ~call'.request.amount.canonical \/ Value(call'.request.amount) > MaxInt
           /\ call'.request.route = "getWallet" /\ call'.status = "200"
                => call'.body.canonical /\ Value(call'.body) = call'.view.balance
<1> DEFINE c == call.request
<1>0. call'.request = c /\ c \in Calls
  BY AnsweredForms DEF CallsInv
<1>1. CASE call'.status \in {"503", "500", "404"}
  BY <1>1
<1>2. CASE call'.status = refusal(c) /\ refusal(c) # "none"
  <2>1. ASSUME c.route = "openWallet", c.form = "ok", refusal(c) = "400"
        PROVE  ~c.amount.canonical \/ Value(c.amount) > MaxInt
    <3>1. c.amount \in [canonical : BOOLEAN, units : Nat, cents : 0..(Cents - 1)]
      BY <1>0, <2>1, CallForms
    <3>2. ~parseMinorUnits(c.amount).ok
      BY <2>1 DEF refusal
    <3> QED
      BY <3>1, <3>2, Parsed DEF Value
  <2>2. refusal(c) \in {"none", "deadLetter", "400", "401", "403", "413"}
    BY DEF refusal
  <2> QED
    BY <1>0, <1>2, <2>1, <2>2
<1>3. CASE OpenWallet
  <2> DEFINE parsed == parseMinorUnits(c.amount)
  <2>1. c.route = "openWallet" /\ refusal(c) = "none"
    BY <1>3 DEF OpenWallet, Serving
  <2>2. parsed.ok
    BY <2>1 DEF refusal
  <2>3. String(parsed.minor) = c.amount
    BY <1>0, <2>1, <2>2, CallForms, Parsed
  <2>4. \/ Answer("201", Nothing, String(parsed.minor))
        \/ \E status \in {"503", "409", "500"} : Answer(status, Nothing, Nothing)
    BY <1>3 DEF OpenWallet
  <2>5. \/ call'.status = "201" /\ call'.body = String(parsed.minor)
        \/ call'.status \in {"503", "409", "500"}
    BY <2>4 DEF Answer
  <2> QED
    BY <1>0, <2>1, <2>3, <2>5
<1>4. CASE GetWallet
  <2> DEFINE minor == account[c.wallet].balance
  <2>1. c.route = "getWallet"
    BY <1>4 DEF GetWallet, Serving
  <2>2. minor \in 0..MaxInt
    BY <1>0, <2>1, CallForms, EntranceAssumption DEF BookInv
  <2>3. \/ call'.status = "200" /\ call'.view = account[c.wallet] /\ call'.body = String(minor)
        \/ call'.status = "404"
    BY <1>4 DEF GetWallet, Answer
  <2> QED
    BY <1>0, <2>1, <2>2, <2>3, ShownExactly
<1>5. CASE Reconcile \/ GetLedger \/ SubmitTransaction \/ HandleMessage \/ GetTransaction
  <2>1. c.route \notin {"openWallet", "getWallet"}
    BY <1>5 DEF Reconcile, GetLedger, SubmitTransaction, HandleMessage, GetTransaction, Serving,
                Reading
  <2> QED
    BY <1>0, <2>1
<1> QED
  BY <1>1, <1>2, <1>3, <1>4, <1>5, AnsweredForms

(* Amounts pass the door unchanged: what is parsed of a request is what    *)
(* was sent, and what is shown of a wallet is its balance (openWallet and  *)
(* getWallet of the HTTP handlers, Parse and String of money.go).          *)
THEOREM AmountsStayExact == Spec => []AmountsExact
<1>1. Init => AmountsExact
  BY DEF Init, NoCall, AmountsExact, Answered
<1>2. BookInv /\ CallsInv /\ AmountsExact /\ [Next]_vars => AmountsExact'
  <2> SUFFICES ASSUME BookInv, CallsInv, AmountsExact, [Next]_vars PROVE AmountsExact'
    OBVIOUS
  <2>1. CASE UNCHANGED call
    BY <2>1 DEF AmountsExact, Answered
  <2>2. CASE ~UNCHANGED call /\ call'.stage = "answered"
    BY <2>2, AmountForms DEF AmountsExact, Answered, Value
  <2>3. CASE call'.stage # "answered"
    BY <2>3 DEF AmountsExact, Answered
  <2> QED
    BY <2>1, <2>2, <2>3
<1>3. BookInv /\ CallsInv /\ [Next]_vars => BookInv'
  BY StepIsOfBook, BookStep
<1> QED
  BY <1>1, <1>2, <1>3, InitForms, CallsStep, PTL DEF Spec

-----------------------------------------------------------------------------
(* Wallets and their ledgers.                                              *)

(* A wallet holds the sum of its entries, one for each of its versions at  *)
(* most.                                                                   *)
Agrees(row, entries) ==
    /\ row.balance \in 0..MaxBalance /\ row.version \in Nat
    /\ IsFiniteSet(entries)
    /\ \A e \in entries : e.version \in 1..row.version /\ e.amount \in Nat
    /\ \A e, f \in entries : e.version = f.version => e = f
    /\ Totals(entries).balance = row.balance

BooksAgree == DOMAIN book = Wallets /\ \A w \in Wallets : Agrees(account[w], book[w])

(* What an entry adds to the balance is a number of money units.           *)
LEMMA SignedType ==
    ASSUME NEW e, e.amount \in Nat
    PROVE  signed(e) \in Int
BY DEF signed

(* The sum of no entries.                                                  *)
LEMMA NothingAgrees ==
    ASSUME NEW row, row.version \in Nat
    PROVE  /\ Agrees(row, {}) => row.balance = 0
           /\ row.balance = 0 => Agrees(row, {})
<1> DEFINE values == [e \in {} |-> signed(e)]
<1>1. DOMAIN values = {} /\ IsFiniteSet({}) /\ \A e \in DOMAIN values : values[e] \in Int
  BY FS_EmptySet
<1>2. Totals({}).balance = SumFunction(values)
  BY DEF Totals
<1> HIDE DEF values
<1>3. SumFunction(values) = 0
  BY <1>1, SumType
<1> QED
  BY <1>1, <1>2, <1>3, ConstantsAssumption DEF Agrees

(* The next entry moves the balance by what it says.                       *)
LEMMA AgreesMore ==
    ASSUME NEW row, NEW entries, Agrees(row, entries),
           NEW e, e.version = row.version + 1, e.amount \in Nat,
           NEW next, next.version = row.version + 1, next.balance \in 0..MaxBalance,
           next.balance = row.balance + signed(e)
    PROVE  Agrees(next, entries \cup {e})
<1> DEFINE u == [f \in entries |-> signed(f)]
           v == [f \in entries \cup {e} |-> signed(f)]
<1>0. /\ row.version \in Nat /\ IsFiniteSet(entries)
      /\ \A f \in entries : f.version \in 1..row.version /\ f.amount \in Nat
      /\ \A f, g \in entries : f.version = g.version => f = g
      /\ Totals(entries).balance = row.balance
  BY DEF Agrees
<1>1. e \notin entries
  BY <1>0
<1>2. /\ IsFiniteSet(DOMAIN u) /\ e \notin DOMAIN u /\ DOMAIN v = DOMAIN u \cup {e}
      /\ v[e] = signed(e) /\ v[e] \in Int
      /\ \A f \in DOMAIN u : v[f] = u[f] /\ u[f] \in Int
  BY <1>0, <1>1, SignedType
<1>3. Totals(entries).balance = SumFunction(u) /\ Totals(entries \cup {e}).balance = SumFunction(v)
  BY DEF Totals
<1> HIDE DEF u, v
<1>4. SumFunction(v) = SumFunction(u) + v[e]
  BY <1>2, SumOfMore
<1>5. Totals(entries \cup {e}).balance = next.balance
  BY <1>0, <1>2, <1>3, <1>4
<1>6. IsFiniteSet(entries \cup {e})
  BY <1>0, FS_AddElement
<1>7. \A f \in entries \cup {e} : f.version \in 1..next.version /\ f.amount \in Nat
  BY <1>0
<1>8. \A f, g \in entries \cup {e} : f.version = g.version => f = g
  BY <1>0
<1> QED
  BY <1>0, <1>5, <1>6, <1>7, <1>8 DEF Agrees

(* A step adds at most the next entry to a wallet.                         *)
LEMMA BookForms ==
    ASSUME BookInv, BooksAgree, BookMoves, NEW w \in Wallets
    PROVE  /\ Agrees(account'[w], book'[w])
           /\ account'[w].version \in Nat /\ account'[w].version >= account[w].version
           /\ book[w] \subseteq book'[w]
           /\ \A e \in book'[w] \ book[w] : e.version = account[w].version + 1
<1> DEFINE Grows == /\ Agrees(account'[w], book'[w])
                    /\ account'[w].version \in Nat /\ account'[w].version >= account[w].version
                    /\ book[w] \subseteq book'[w]
                    /\ \A e \in book'[w] \ book[w] : e.version = account[w].version + 1
<1>0. /\ Agrees(account[w], book[w]) /\ DOMAIN book = Wallets /\ MaxBalance \in Nat
      /\ account[w].version \in Nat /\ account[w].balance \in 0..MaxBalance
      /\ DOMAIN account = Wallets
  BY ConstantsAssumption DEF BooksAgree, BookInv, Agrees
<1>1. CASE account'[w] = account[w] /\ book'[w] = book[w]
  BY <1>0, <1>1
<1>2. ASSUME NEW row, NEW e, account'[w] = row, book'[w] = book[w] \cup {e},
             row.balance \in 0..MaxBalance, row.version = account[w].version + 1,
             row.balance = account[w].balance + signed(e),
             e.version = account[w].version + 1, e.amount \in Nat
      PROVE  Grows
  <2>1. Agrees(row, book[w] \cup {e})
    BY <1>0, <1>2, AgreesMore
  <2> QED
    BY <1>0, <1>2, <2>1
<1>3. ASSUME NEW v \in Wallets, NEW balance \in 0..MaxBalance, Open(v, balance) PROVE Grows
  <2>1. CASE v # w
    BY <1>0, <1>1, <1>3, <2>1 DEF Open
  <2>2. CASE v = w
    <3> DEFINE row == [balance |-> balance, version |-> 1]
               e == [version |-> 1, op |-> w, direction |-> "CREDIT",
                     amount |-> balance, before |-> 0, after |-> balance]
    <3>1. /\ account[w].version = 0 /\ account'[w] = row
          /\ book'[w] = IF balance = 0 THEN book[w] ELSE {e}
      BY <1>0, <1>3, <2>2 DEF Open
    <3>2. book[w] = {}
      BY <1>0, <3>1 DEF Agrees
    <3>3. account[w].balance = 0
      BY <1>0, <3>2, NothingAgrees
    <3>4. CASE balance = 0
      BY <1>0, <3>1, <3>2, <3>4, NothingAgrees
    <3>5. CASE balance # 0
      <4>1. book'[w] = book[w] \cup {e}
        BY <3>1, <3>2, <3>5
      <4>2. /\ row.balance = balance /\ row.version = 1
            /\ e.version = 1 /\ e.amount = balance /\ signed(e) = balance
        BY DEF signed
      <4> HIDE DEF row, e
      <4> QED
        BY <1>0, <1>2, <3>1, <3>3, <4>1, <4>2
    <3> QED
      BY <3>4, <3>5
  <2> QED
    BY <2>1, <2>2
<1>4. ASSUME NEW r \in Requests, Move(r) PROVE Grows
  <2> DEFINE v == Request[r].wallet
             amount == Request[r].amount
             after(m) == applyDirection(account[v].balance, m[1], amount)
             row(m) == [balance |-> after(m), version |-> account[v].version + 1]
             e(m) == [version |-> account[v].version + 1, op |-> r, direction |-> m[1],
                      amount |-> amount, before |-> account[v].balance, after |-> after(m)]
  <2>1. v \in Wallets /\ amount \in Nat
    BY RequestAssumption, ConstantsAssumption DEF ValidRequest
  <2>2. PICK m \in Movements(r) :
          /\ Fits(r, m[1])
          /\ account' = [account EXCEPT ![v] = row(m)]
          /\ book' = [book EXCEPT ![v] = @ \cup {e(m)}]
    BY <1>4 DEF Move
  <2>3. m[1] \in {"DEBIT", "CREDIT"}
    BY <2>2 DEF Movements, reversalDirection
  <2>4. CASE v # w
    BY <1>0, <1>1, <2>2, <2>4
  <2>5. CASE v = w
    <3>1. /\ account'[w] = row(m) /\ book'[w] = book[w] \cup {e(m)}
      BY <1>0, <2>2, <2>5
    <3>2. /\ row(m).balance = after(m) /\ row(m).version = account[w].version + 1
          /\ e(m).version = account[w].version + 1 /\ e(m).amount = amount
          /\ e(m).direction = m[1]
      BY <2>5
    <3>3. after(m) \in 0..MaxBalance
      BY <2>2 DEF Fits
    <3>4. after(m) = account[w].balance + signed(e(m))
      <4>1. CASE m[1] = "CREDIT"
        BY <1>0, <2>1, <2>5, <3>2, <4>1 DEF applyDirection, signed
      <4>2. CASE m[1] = "DEBIT"
        <5>1. after(m) = account[w].balance - amount
          BY <2>5, <4>2 DEF applyDirection
        <5>2. signed(e(m)) = 0 - amount
          BY <3>2, <4>2 DEF signed
        <5> HIDE DEF v, amount, after, e
        <5> QED
          BY <1>0, <2>1, <5>1, <5>2
      <4> QED
        BY <2>3, <4>1, <4>2
    <3> HIDE DEF v, amount, after, row, e
    <3> QED
      BY <1>2, <2>1, <3>1, <3>2, <3>3, <3>4
  <2> QED
    BY <2>4, <2>5
<1>5. \/ UNCHANGED <<account, book>>
      \/ \E v \in Wallets, balance \in 0..MaxBalance : Open(v, balance)
      \/ \E r \in Requests : Move(r)
  BY DEF BookMoves, bookVars, Park, Lose, Reject, Fail
<1> HIDE DEF Grows
<1>6. Grows
  <2>1. UNCHANGED <<account, book>> => Grows
    BY <1>0, <1>1 DEF Grows
  <2> QED
    BY <1>3, <1>4, <1>5, <2>1
<1> QED
  BY <1>6 DEF Grows

(* Every step of the book keeps account and ledger in agreement.           *)
LEMMA BooksAgreeStep ==
    ASSUME BookInv, BooksAgree, BookMoves
    PROVE  BooksAgree'
<1>1. DOMAIN book' = DOMAIN book
  BY DEF BookMoves, bookVars, Open, Park, Lose, Move, Reject, Fail
<1>2. \A w \in Wallets : Agrees(account'[w], book'[w])
  BY BookForms
<1>3. \A w \in Wallets : Agrees(account[w], book[w])'
  BY <1>2 DEF Agrees, Totals
<1> QED
  BY <1>1, <1>3 DEF BooksAgree

(* Before a wallet is opened both are empty.                               *)
LEMMA BooksAgreeInit == Init => BooksAgree
<1> SUFFICES ASSUME Init, NEW w \in Wallets PROVE Agrees(account[w], book[w])
  BY DEF Init, BookInit, BooksAgree
<1>1. account[w].balance = 0 /\ account[w].version = 0 /\ book[w] = {}
  BY DEF Init, BookInit
<1> QED
  BY <1>1, NothingAgrees

-----------------------------------------------------------------------------
(* What a statement sees.                                                  *)

(* Between its two statements a reader holds a wallet and the entries that *)
(* it had then.                                                            *)
SeenInv ==
    call.stage = "reading" =>
        LET seen == call.view
            w == call.request.wallet
        IN  /\ w \in Wallets /\ call.request.route \in {"getLedger", "reconcile"}
            /\ refusal(call.request) = "none"
            /\ Agrees(seen.account, seen.entries)
            /\ seen.account.version <= account[w].version
            /\ seen.entries = {e \in book[w] : e.version <= seen.account.version}

(* A snapshot stays a beginning of the ledger while others add to it.      *)
LEMMA SeenStep ==
    ASSUME BookInv, BooksAgree, CallsInv, SeenInv, [Next]_vars
    PROVE  SeenInv'
<1> SUFFICES ASSUME call'.stage = "reading", NEW c, c = call'.request, NEW seen, seen = call'.view,
                    NEW w, w = c.wallet
             PROVE  /\ w \in Wallets /\ c.route \in {"getLedger", "reconcile"}
                    /\ refusal(c) = "none"
                    /\ Agrees(seen.account, seen.entries)
                    /\ seen.account.version <= account'[w].version
                    /\ seen.entries = {e \in book'[w] : e.version <= seen.account.version}
  BY DEF SeenInv, Agrees, Totals, signed, refusal, Admitted, Internal, Provider, Own,
         parseMinorUnits, ErrInvalidAmount, ErrOverflow, exactly
<1>1. ASSUME NEW status, NEW view, NEW body, Answer(status, view, body) PROVE FALSE
  BY <1>1 DEF Answer
<1>2. ASSUME UNCHANGED call
      PROVE  /\ w \in Wallets /\ c.route \in {"getLedger", "reconcile"}
             /\ refusal(c) = "none"
             /\ Agrees(seen.account, seen.entries)
             /\ seen.account.version <= account'[w].version
             /\ seen.entries = {e \in book'[w] : e.version <= seen.account.version}
  <2>1. /\ w \in Wallets /\ c.route \in {"getLedger", "reconcile"}
        /\ refusal(c) = "none"
        /\ Agrees(seen.account, seen.entries)
        /\ seen.account.version <= account[w].version
        /\ seen.entries = {e \in book[w] : e.version <= seen.account.version}
    BY <1>2 DEF SeenInv
  <2>2. /\ account'[w].version \in Nat /\ account'[w].version >= account[w].version
        /\ book[w] \subseteq book'[w]
        /\ \A e \in book'[w] \ book[w] : e.version = account[w].version + 1
    BY <2>1, BookForms, StepIsOfBook
  <2>3. account[w].version \in Nat /\ seen.account.version \in Nat
    BY <2>1 DEF BookInv, Agrees
  <2>4. \A e \in book'[w] : e.version <= seen.account.version => e \in book[w]
    BY <2>1, <2>2, <2>3
  <2> QED
    BY <2>1, <2>2, <2>3, <2>4
<1>3. ASSUME FindFirst
      PROVE  /\ w \in Wallets /\ c.route \in {"getLedger", "reconcile"}
             /\ refusal(c) = "none"
             /\ Agrees(seen.account, seen.entries)
             /\ seen.account.version <= account'[w].version
             /\ seen.entries = {e \in book'[w] : e.version <= seen.account.version}
  <2>1. /\ c = call.request /\ seen.account = account[w] /\ seen.entries = book[w]
        /\ c.route \in {"getLedger", "reconcile"} /\ refusal(c) = "none"
        /\ UNCHANGED bookVars /\ c \in Calls
    BY <1>1, <1>3 DEF FindFirst, Serving, CallsInv
  <2>2. w \in Wallets
    BY <2>1, CallForms
  <2>3. Agrees(account[w], book[w]) /\ account' = account /\ book' = book
    BY <2>1, <2>2 DEF BooksAgree, bookVars
  <2>4. account[w].version \in Nat /\ \A e \in book[w] : e.version <= account[w].version
    BY <2>3 DEF Agrees
  <2>5. Agrees(seen.account, seen.entries)
    BY <2>1, <2>3
  <2>6. /\ seen.account.version <= account'[w].version
        /\ seen.entries = {e \in book'[w] : e.version <= seen.account.version}
    <3>1. seen.account.version = account[w].version /\ account'[w] = account[w]
      BY <2>1, <2>3
    <3>2. seen.entries = book'[w]
      BY <2>1, <2>3
    <3> QED
      BY <2>3, <2>4, <3>1, <3>2
  <2> QED
    BY <2>1, <2>2, <2>5, <2>6
<1>4. \/ UNCHANGED call \/ FindFirst
      \/ \E status, view, body : Answer(status, view, body)
  <2>1. ~Take /\ ~\E d \in Calls : Send(d)
    BY DEF Take, NoCall, Send
  <2> QED
    BY <2>1 DEF Next, vars, Elsewhere, Served, Refuse, Shed, Break, OpenWallet, GetWallet, Reconcile,
                GetLedger, SubmitTransaction, HandleMessage, GetTransaction
<1> QED
  BY <1>1, <1>2, <1>3, <1>4

-----------------------------------------------------------------------------
(* Reconciliation.                                                         *)

(* A reconciliation never reports a divergence that is not there, although *)
(* settlements commit between its two statements (Execute of               *)
(* reconcile_wallet.go in a transaction of UnitOfWork.Read).               *)
THEOREM ReconciliationIsConsistent == Spec => []ReconciliationConsistent
<1>1. Init => ReconciliationConsistent /\ SeenInv
  BY DEF Init, NoCall, ReconciliationConsistent, Answered, SeenInv
<1>2. BookInv /\ BooksAgree /\ SeenInv /\ ReconciliationConsistent /\ [Next]_vars
        => ReconciliationConsistent'
  <2> SUFFICES ASSUME BookInv, BooksAgree, SeenInv, ReconciliationConsistent, [Next]_vars,
                      call'.stage = "answered", call'.request.route = "reconcile",
                      call'.status = "200"
               PROVE  /\ call'.body.consistent
                      /\ call'.body.checked = Cardinality(call'.view.entries)
    BY DEF ReconciliationConsistent, Answered
  <2>1. CASE UNCHANGED call
    BY <2>1 DEF ReconciliationConsistent, Answered
  <2>2. CASE Reconcile
    <3> DEFINE totals == Totals(call.view.entries)
               balance == call.view.account.balance
               difference == subExact(balance, totals.balance)
    <3>1. /\ call'.view = call.view /\ call'.body.checked = totals.entries
          /\ call'.body.consistent = (difference = exactly(0))
          /\ call.stage = "reading"
      BY <2>2 DEF Reconcile, Answer, Reading, Snapshot
    <3>2. totals.balance = balance /\ balance \in 0..MaxBalance
      BY <3>1 DEF SeenInv, Agrees
    <3>3. totals.entries = Cardinality(call.view.entries)
      BY DEF Totals
    <3> HIDE DEF totals
    <3>4. difference = exactly(0)
      <4>1. MaxInt \in Nat /\ MaxBalance = MaxInt
        BY MoneyAssumption, EntranceAssumption
      <4> HIDE DEF balance
      <4>2. balance \in Int64 /\ balance - balance = 0 /\ 0 \in Int64
        BY <3>2, <4>1 DEF Int64, MinInt
      <4> QED
        BY <3>2, <4>2, SubIsExact
    <3> QED
      BY <3>1, <3>3, <3>4
  <2>3. call'.request = call.request =>
          ~(OpenWallet \/ GetWallet \/ GetLedger \/ SubmitTransaction \/ HandleMessage
              \/ GetTransaction)
    BY DEF OpenWallet, GetWallet, GetLedger, SubmitTransaction, HandleMessage, GetTransaction,
           Serving, Reading
  <2>4. refusal(call.request) # "200"
    BY DEF refusal
  <2> QED
    BY <2>1, <2>2, <2>3, <2>4, AnsweredForms
<1>3. BookInv /\ CallsInv /\ BooksAgree /\ [Next]_vars => BookInv' /\ BooksAgree'
  BY StepIsOfBook, BookStep, BooksAgreeStep
<1> QED
  BY <1>1, <1>2, <1>3, InitForms, BooksAgreeInit, CallsStep, SeenStep, PTL DEF Spec

-----------------------------------------------------------------------------
(* Pages.                                                                  *)

(* s lists the lowest versions of S in order, leaving none out.            *)
Begins(s, S) ==
    /\ s \in Seq(S)
    /\ \A i, j \in 1..Len(s) : i < j => s[i].version < s[j].version
    /\ \A i \in 1..Len(s) : \A e \in S :
         e.version <= s[i].version => \E j \in 1..Len(s) : e = s[j]

(* It leaves none out; it ends at a version; a cursor follows it.          *)
Whole(s, S) == \A e \in S : \E i \in 1..Len(s) : e = s[i]
EndsAt(s, version) == s # << >> /\ version = s[Len(s)].version
Follows(s, after) == IF s = << >> THEN after = 0 ELSE EndsAt(s, after)

(* S has one entry for each version at most.                               *)
Versioned(S) ==
    /\ IsFiniteSet(S)
    /\ \A e \in S : e.version \in Nat \ {0}
    /\ \A e, f \in S : e.version = f.version => e = f

(* The place of an entry in the order of the versions.                     *)
UpTo(S, e) == {f \in S : f.version <= e.version}
Place(S, e) == Cardinality(UpTo(S, e))

(* Every place is taken by one entry, in the order of the versions.        *)
LEMMA Places ==
    ASSUME NEW S, Versioned(S)
    PROVE  /\ Cardinality(S) \in Nat
           /\ \A e \in S : Place(S, e) \in 1..Cardinality(S)
           /\ \A e, f \in S : e.version < f.version => Place(S, e) < Place(S, f)
           /\ \A i \in 1..Cardinality(S) : \E e \in S : Place(S, e) = i
<1>0. /\ IsFiniteSet(S) /\ \A e \in S : e.version \in Nat
      /\ \A e, f \in S : e.version = f.version => e = f
  BY DEF Versioned
<1> DEFINE n == Cardinality(S)
<1>1. n \in Nat
  BY <1>0, FS_CardinalityType
<1>2. ASSUME NEW e \in S PROVE Place(S, e) \in 1..n
  <2>1. UpTo(S, e) \in SUBSET S /\ e \in UpTo(S, e)
    BY <1>0 DEF UpTo
  <2>2. IsFiniteSet(UpTo(S, e)) /\ Cardinality(UpTo(S, e)) <= n
    BY <1>0, <2>1, FS_Subset
  <2>3. Cardinality(UpTo(S, e)) \in Nat /\ Cardinality(UpTo(S, e)) # 0
    BY <2>1, <2>2, FS_CardinalityType, FS_EmptySet
  <2> QED
    BY <1>1, <2>2, <2>3 DEF Place
<1>3. ASSUME NEW e \in S, NEW f \in S, e.version < f.version
      PROVE  Place(S, e) < Place(S, f)
  <2>1. /\ UpTo(S, f) \in SUBSET S
        /\ UpTo(S, e) \in SUBSET UpTo(S, f) /\ f \in UpTo(S, f) /\ f \notin UpTo(S, e)
    BY <1>0, <1>3 DEF UpTo
  <2>2. IsFiniteSet(UpTo(S, f))
    BY <1>0, <2>1, FS_Subset
  <2>3. /\ Cardinality(UpTo(S, e)) <= Cardinality(UpTo(S, f))
        /\ Cardinality(UpTo(S, e)) # Cardinality(UpTo(S, f))
    BY <2>1, <2>2, FS_Subset
  <2>4. Place(S, e) \in Nat /\ Place(S, f) \in Nat
    BY <1>1, <1>2
  <2> QED
    BY <2>3, <2>4 DEF Place
<1>4. \A i \in 1..n : \E e \in S : Place(S, e) = i
  <2> DEFINE place == [e \in S |-> Place(S, e)]
  <2>1. place \in [S -> 1..n]
    BY <1>2
  <2>2. \A e, f \in S : e # f => place[e] # place[f]
    <3> SUFFICES ASSUME NEW e \in S, NEW f \in S, e # f PROVE place[e] # place[f]
      OBVIOUS
    <3>1. e.version < f.version \/ f.version < e.version
      BY <1>0
    <3>2. Place(S, e) \in Nat /\ Place(S, f) \in Nat
      BY <1>1, <1>2
    <3> QED
      BY <1>3, <3>1, <3>2
  <2>3. IsFiniteSet(1..n) /\ Cardinality(1..n) = n
    BY <1>1, FS_Interval
  <2> HIDE DEF place
  <2>4. place \in Injection(S, 1..n)
    BY <2>1, <2>2 DEF Injection, IsInjective
  <2>5. place \in Surjection(S, 1..n)
    BY <2>3, <2>4, FS_Injection
  <2>6. \A i \in 1..n : \E e \in S : place[e] = i
    BY <2>5 DEF Surjection
  <2> QED
    BY <2>6 DEF place
<1> QED
  BY <1>1, <1>2, <1>3, <1>4

(* The smaller of two limits.                                              *)
LEMMA MinOfTwo ==
    ASSUME NEW a \in Nat, NEW b \in Nat
    PROVE  Min({a, b}) = IF a <= b THEN a ELSE b
BY DEF Min

(* The entries beyond a cursor.                                            *)
Beyond(entries, after) == {e \in entries : e.version > after}

(* What the query returns: the lowest versions in order, and all of them   *)
(* if the limit allows.                                                    *)
LEMMA QueryForms ==
    ASSUME NEW entries, Versioned(entries), NEW after \in Nat, NEW limit \in Nat,
           NEW later, later = Beyond(entries, after),
           NEW rows, rows = ListAfterVersion(entries, after, limit)
    PROVE  /\ Begins(rows, later) /\ Len(rows) <= limit
           /\ Len(rows) < limit => \A e \in later : \E i \in 1..Len(rows) : e = rows[i]
<1> DEFINE n == Cardinality(later)
           m == Min({limit, n})
<1>1. Versioned(later)
  <2>1. later \in SUBSET entries
    BY DEF Beyond
  <2>2. IsFiniteSet(later)
    BY <2>1, FS_Subset DEF Versioned
  <2> QED
    BY <2>1, <2>2 DEF Versioned
<1>2. /\ n \in Nat
      /\ \A e \in later : Place(later, e) \in 1..n
      /\ \A e, f \in later : e.version < f.version => Place(later, e) < Place(later, f)
      /\ \A i \in 1..n : \E e \in later : Place(later, e) = i
  BY <1>1, Places
<1>3. rows = [i \in 1..m |-> CHOOSE e \in later : Place(later, e) = i]
  BY DEF ListAfterVersion, Beyond, Place, UpTo
<1> HIDE DEF n
<1>4. m \in Nat /\ m <= n /\ m <= limit /\ (m < limit => m = n)
  BY <1>2, MinOfTwo
<1> HIDE DEF m
<1>5. ASSUME NEW i \in 1..m PROVE rows[i] \in later /\ Place(later, rows[i]) = i
  <2>1. rows[i] = CHOOSE e \in later : Place(later, e) = i
    BY <1>3
  <2>2. i \in 1..n
    BY <1>2, <1>4
  <2>3. \E e \in later : Place(later, e) = i
    BY <1>2, <2>2
  <2> QED
    BY <2>1, <2>3
<1>6. rows \in Seq(later) /\ Len(rows) = m
  <2>1. rows \in [1..m -> later]
    BY <1>3, <1>5
  <2> QED
    BY <1>4, <2>1
<1>7. \A e \in later : e.version \in Nat
  BY <1>1 DEF Versioned
<1>8. ASSUME NEW e \in later, Place(later, e) <= m PROVE \E i \in 1..m : e = rows[i]
  <2> DEFINE i == Place(later, e)
  <2>1. i \in 1..n /\ i <= m
    BY <1>2, <1>8
  <2>2. i \in 1..m
    BY <1>2, <1>4, <2>1
  <2>3. rows[i] \in later /\ Place(later, rows[i]) = i
    BY <1>5, <2>2
  <2>4. ~(e.version < rows[i].version) /\ ~(rows[i].version < e.version)
    BY <1>2, <2>1, <2>3
  <2>5. e.version = rows[i].version
    BY <1>7, <2>3, <2>4
  <2>6. e = rows[i]
    BY <1>1, <2>3, <2>5 DEF Versioned
  <2> QED
    BY <2>2, <2>6
<1>9. ASSUME NEW i \in 1..m, NEW j \in 1..m, i < j PROVE rows[i].version < rows[j].version
  <2>1. rows[i] \in later /\ rows[j] \in later /\ Place(later, rows[i]) = i /\ Place(later, rows[j]) = j
    BY <1>5
  <2>2. ~(rows[j].version < rows[i].version)
    BY <1>2, <1>9, <2>1
  <2>3. rows[i].version # rows[j].version
    BY <1>1, <1>9, <2>1 DEF Versioned
  <2> QED
    BY <1>7, <2>1, <2>2, <2>3
<1>10. ASSUME NEW i \in 1..m, NEW e \in later, e.version <= rows[i].version
       PROVE  \E j \in 1..m : e = rows[j]
  <2>1. rows[i] \in later /\ Place(later, rows[i]) = i
    BY <1>5
  <2>2. ~(rows[i].version < e.version)
    BY <1>7, <1>10, <2>1
  <2>3. Place(later, e) <= i
    <3>1. CASE e.version = rows[i].version
      BY <1>1, <1>4, <2>1, <3>1 DEF Versioned
    <3>2. CASE e.version < rows[i].version
      BY <1>2, <2>1, <3>2
    <3> QED
      BY <1>7, <1>10, <2>1, <3>1, <3>2
  <2> QED
    BY <1>2, <1>4, <1>8, <2>3
<1>11. Begins(rows, later)
  BY <1>6, <1>9, <1>10 DEF Begins
<1>12. m < limit => \A e \in later : \E i \in 1..m : e = rows[i]
  BY <1>2, <1>4, <1>8
<1> QED
  BY <1>4, <1>6, <1>11, <1>12

(* The first entries of a list that begins a set begin it as well.         *)
LEMMA BeginningBegins ==
    ASSUME NEW S, \A e \in S : e.version \in Nat, NEW s, Begins(s, S),
           NEW n \in Nat, n <= Len(s)
    PROVE  Begins(SubSeq(s, 1, n), S) /\ Len(SubSeq(s, 1, n)) = n
<1> DEFINE t == SubSeq(s, 1, n)
<1>0. /\ s \in Seq(S) /\ Len(s) \in Nat
      /\ \A i, j \in 1..Len(s) : i < j => s[i].version < s[j].version
      /\ \A i \in 1..Len(s) : \A e \in S :
           e.version <= s[i].version => \E j \in 1..Len(s) : e = s[j]
  BY DEF Begins
<1>1. t \in Seq(S) /\ Len(t) = n /\ \A i \in 1..n : t[i] = s[i] /\ s[i] \in S
  BY <1>0
<1> HIDE DEF t
<1>2. ASSUME NEW i \in 1..n, NEW j \in 1..n, i < j PROVE t[i].version < t[j].version
  <2>1. i \in 1..Len(s) /\ j \in 1..Len(s)
    BY <1>0
  <2> QED
    BY <1>0, <1>1, <1>2, <2>1
<1>3. ASSUME NEW i \in 1..n, NEW e \in S, e.version <= t[i].version
      PROVE  \E j \in 1..n : e = t[j]
  <2>1. PICK j \in 1..Len(s) : e = s[j]
    BY <1>0, <1>1, <1>3
  <2>2. j <= n
    <3>1. i < j => s[i].version < e.version
      BY <1>0, <2>1
    <3>2. e.version <= s[i].version /\ s[i].version \in Nat /\ e.version \in Nat
      BY <1>1, <1>3
    <3> QED
      BY <3>1, <3>2
  <2> QED
    BY <1>1, <2>1, <2>2
<1> QED
  BY <1>1, <1>2, <1>3 DEF Begins, t

(* A page begins what is beyond the cursor; its own cursor is its last     *)
(* entry, and without one it leaves nothing out.                           *)
LEMMA PageForms ==
    ASSUME NEW entries, Versioned(entries), NEW after \in Nat, NEW limit \in Nat \ {0},
           NEW later, later = Beyond(entries, after),
           NEW page, page = LedgerPage(ListAfterVersion(entries, after, limit + 1), limit)
    PROVE  /\ Begins(page.entries, later)
           /\ page.next = NoCursor => Whole(page.entries, later)
           /\ page.next # NoCursor => EndsAt(page.entries, page.next)
<1> DEFINE more == limit + 1
           rows == ListAfterVersion(entries, after, more)
<1>0. more \in Nat
  OBVIOUS
<1>1. /\ Begins(rows, later) /\ Len(rows) <= limit + 1
      /\ Len(rows) < limit + 1 => \A e \in later : \E i \in 1..Len(rows) : e = rows[i]
  <2>1. more = limit + 1
    OBVIOUS
  <2> HIDE DEF more
  <2>2. /\ Begins(rows, later) /\ Len(rows) <= more
        /\ Len(rows) < more => \A e \in later : \E i \in 1..Len(rows) : e = rows[i]
    <3> HIDE DEF rows
    <3>1. rows = ListAfterVersion(entries, after, more)
      BY DEF rows
    <3> QED
      BY <1>0, <3>1, QueryForms
  <2> QED
    BY <2>1, <2>2
<1>2. page = LedgerPage(rows, limit)
  OBVIOUS
<1> HIDE DEF rows
<1>3. /\ \A e \in later : e.version \in Nat \ {0}
      /\ rows \in Seq(later) /\ Len(rows) \in Nat
  BY <1>1 DEF Versioned, Begins, Beyond
<1>4. CASE Len(rows) > limit
  <2> DEFINE first == SubSeq(rows, 1, limit)
  <2>1. page.entries = first /\ page.next = rows[limit].version
    BY <1>2, <1>4 DEF LedgerPage
  <2>2. Begins(first, later) /\ Len(first) = limit
    BY <1>1, <1>3, <1>4, BeginningBegins
  <2>3. first[limit] = rows[limit] /\ rows[limit] \in later
    BY <1>3, <1>4
  <2>4. first # << >>
    <3> HIDE DEF first
    <3> QED
      BY <2>2
  <2>5. page.next # NoCursor
    BY <1>3, <2>1, <2>3 DEF NoCursor
  <2> HIDE DEF first
  <2> QED
    BY <2>1, <2>2, <2>3, <2>4, <2>5 DEF EndsAt
<1>5. CASE ~(Len(rows) > limit)
  <2>1. page.entries = rows /\ page.next = NoCursor
    BY <1>2, <1>5 DEF LedgerPage
  <2>2. Len(rows) < limit + 1
    BY <1>3, <1>5
  <2>3. \A e \in later : \E i \in 1..Len(rows) : e = rows[i]
    BY <1>1, <2>2
  <2>4. Begins(page.entries, later)
    BY <1>1, <2>1
  <2>5. Whole(page.entries, later)
    BY <2>1, <2>3 DEF Whole
  <2> QED
    BY <2>1, <2>4, <2>5
<1> QED
  BY <1>4, <1>5

(* What comes later does not disturb what a list begins.                   *)
LEMMA BeginsOn ==
    ASSUME NEW S, NEW T, S \subseteq T, NEW s, Begins(s, S),
           \A e \in S : e.version \in Nat,
           \A f \in T \ S : f.version \in Nat /\ \A e \in S : e.version < f.version
    PROVE  Begins(s, T)
<1>1. s \in Seq(S) /\ \A i \in 1..Len(s) : s[i] \in S
  BY DEF Begins
<1>2. s \in Seq(T)
  BY <1>1
<1>3. ASSUME NEW i \in 1..Len(s), NEW e \in T, e.version <= s[i].version
      PROVE  e \in S
  BY <1>1, <1>3
<1> QED
  BY <1>2, <1>3 DEF Begins

(* Nor does leaving out what the list does not contain.                    *)
LEMMA BeginsLess ==
    ASSUME NEW S, NEW T, S \subseteq T, NEW s, Begins(s, T), \A i \in 1..Len(s) : s[i] \in S
    PROVE  Begins(s, S)
<1>1. s \in Seq(T) /\ s \in [1..Len(s) -> T] /\ Len(s) \in Nat
  BY DEF Begins
<1>2. s \in [1..Len(s) -> S]
  BY <1>1
<1>3. s \in Seq(S)
  BY <1>1, <1>2
<1> QED
  BY <1>3 DEF Begins

(* The next page goes on where the list ended.                             *)
LEMMA BeginsFurther ==
    ASSUME NEW S, Versioned(S), NEW s, Begins(s, S),
           NEW after \in Nat, Follows(s, after),
           NEW later, later = Beyond(S, after),
           NEW t, Begins(t, later), NEW both, both = s \o t
    PROVE  /\ Begins(both, S)
           /\ \A version : EndsAt(t, version) => EndsAt(both, version)
           /\ Whole(t, later) => Whole(both, S)
<1>0. /\ s \in Seq(S) /\ t \in Seq(later) /\ t \in Seq(S) /\ Len(s) \in Nat /\ Len(t) \in Nat
      /\ \A i, j \in 1..Len(s) : i < j => s[i].version < s[j].version
      /\ \A i, j \in 1..Len(t) : i < j => t[i].version < t[j].version
  <2>1. s \in Seq(S) /\ t \in Seq(later)
    BY DEF Begins
  <2>2. t \in Seq(S)
    BY <2>1 DEF Beyond
  <2>3. Len(s) \in Nat /\ Len(t) \in Nat
    BY <2>1, <2>2
  <2>4. /\ \A i, j \in 1..Len(s) : i < j => s[i].version < s[j].version
        /\ \A i, j \in 1..Len(t) : i < j => t[i].version < t[j].version
    BY DEF Begins
  <2> QED
    BY <2>1, <2>2, <2>3, <2>4
<1>1. /\ both \in Seq(S) /\ Len(both) = Len(s) + Len(t)
      /\ \A i \in 1..Len(s) : both[i] = s[i]
      /\ \A i \in 1..Len(t) : both[Len(s) + i] = t[i]
  BY <1>0
<1>2. /\ \A e \in S : e.version \in Nat \ {0}
      /\ \A i \in 1..Len(s) : s[i] \in S
      /\ \A i \in 1..Len(t) : t[i] \in S /\ t[i].version > after
  BY <1>0 DEF Versioned, Beyond
<1>2a. /\ s = << >> => after = 0
       /\ s # << >> => after = s[Len(s)].version
  BY DEF Follows, EndsAt
<1>3. ASSUME NEW i \in 1..Len(s) PROVE s[i].version <= after
  <2>1. s # << >> /\ Len(s) \in 1..Len(s)
    BY <1>0, <1>3
  <2>2. after = s[Len(s)].version /\ (i < Len(s) => s[i].version < s[Len(s)].version)
    BY <1>0, <1>2a, <2>1
  <2>3. i < Len(s) \/ i = Len(s)
    BY <1>0
  <2>4. s[i].version \in Nat
    BY <1>2
  <2> QED
    BY <2>2, <2>3, <2>4
<1>4. ASSUME NEW e \in S, e.version <= after PROVE \E i \in 1..Len(s) : e = s[i]
  <2>1. s # << >>
    BY <1>2, <1>2a, <1>4
  <2>2. Len(s) \in 1..Len(s) /\ after = s[Len(s)].version
    BY <1>0, <1>2a, <2>1
  <2> QED
    BY <1>4, <2>2 DEF Begins
<1>5. ASSUME NEW k \in 1..Len(both)
      PROVE  \/ k \in 1..Len(s) /\ both[k] = s[k]
             \/ \E i \in 1..Len(t) : k = Len(s) + i /\ both[k] = t[i]
  <2>1. CASE k <= Len(s)
    BY <1>0, <1>1, <2>1
  <2>2. CASE k > Len(s)
    <3>1. k - Len(s) \in 1..Len(t) /\ k = Len(s) + (k - Len(s))
      BY <1>0, <1>1, <2>2
    <3> QED
      BY <1>1, <3>1
  <2> QED
    BY <1>0, <1>1, <2>1, <2>2
<1>6. ASSUME NEW k \in 1..Len(both), NEW l \in 1..Len(both), k < l
      PROVE  both[k].version < both[l].version
  <2>1. CASE k \in 1..Len(s) /\ both[k] = s[k] /\ l \in 1..Len(s) /\ both[l] = s[l]
    BY <1>0, <1>6, <2>1
  <2>2. ASSUME k \in 1..Len(s), both[k] = s[k], NEW i \in 1..Len(t), both[l] = t[i]
        PROVE  both[k].version < both[l].version
    <3>1. s[k].version <= after /\ t[i].version > after
      BY <1>2, <1>3, <2>2
    <3>2. s[k].version \in Nat /\ t[i].version \in Nat
      BY <1>2, <2>2
    <3>3. \A m, n \in Nat : m <= after /\ n > after => m < n
      OBVIOUS
    <3>4. s[k].version < t[i].version
      BY <3>1, <3>2, <3>3, Zenon
    <3>5. both[k].version = s[k].version /\ both[l].version = t[i].version
      BY <2>2
    <3> QED
      BY <3>4, <3>5
  <2>3. ASSUME NEW i \in 1..Len(t), k = Len(s) + i, l \in 1..Len(s) PROVE FALSE
    BY <1>0, <1>6, <2>3
  <2>4. ASSUME NEW i \in 1..Len(t), NEW j \in 1..Len(t), k = Len(s) + i, l = Len(s) + j,
               both[k] = t[i], both[l] = t[j]
        PROVE  both[k].version < both[l].version
    <3>1. i < j
      BY <1>0, <1>6, <2>4
    <3> QED
      BY <1>0, <2>4, <3>1
  <2> QED
    BY <1>5, <2>1, <2>2, <2>3, <2>4
<1>7. ASSUME NEW e \in later, \E i \in 1..Len(t) : e = t[i]
      PROVE  \E k \in 1..Len(both) : e = both[k]
  <2>1. PICK i \in 1..Len(t) : e = t[i]
    BY <1>7
  <2>2. Len(s) + i \in 1..Len(both) /\ both[Len(s) + i] = e
    BY <1>0, <1>1, <2>1
  <2> QED
    BY <2>2
<1>8. ASSUME NEW e \in S, e.version <= after PROVE \E k \in 1..Len(both) : e = both[k]
  <2>1. PICK i \in 1..Len(s) : e = s[i]
    BY <1>4, <1>8
  <2>2. i \in 1..Len(both) /\ both[i] = e
    BY <1>0, <1>1, <2>1
  <2> QED
    BY <2>2
<1>9. ASSUME NEW k \in 1..Len(both), NEW e \in S, e.version <= both[k].version
      PROVE  \E l \in 1..Len(both) : e = both[l]
  <2>1. CASE e.version <= after
    BY <1>8, <2>1
  <2>2. CASE e.version > after
    <3>1. ~(k \in 1..Len(s) /\ both[k] = s[k])
      <4>1. k \in 1..Len(s) => s[k].version <= after /\ s[k].version \in Nat
        BY <1>2, <1>3
      <4>2. e.version \in Nat
        BY <1>2
      <4> QED
        BY <1>9, <2>2, <4>1, <4>2
    <3>2. PICK i \in 1..Len(t) : both[k] = t[i]
      BY <1>5, <3>1
    <3>3. e \in later
      BY <2>2 DEF Beyond
    <3>4. \E j \in 1..Len(t) : e = t[j]
      BY <1>9, <3>2, <3>3 DEF Begins
    <3> QED
      BY <1>7, <3>3, <3>4
  <2> QED
    BY <1>2, <2>1, <2>2
<1>10. Begins(both, S)
  BY <1>1, <1>6, <1>9 DEF Begins
<1>11. t # << >> => both # << >> /\ both[Len(both)] = t[Len(t)]
  <2>1. t # << >> => Len(t) \in 1..Len(t)
    BY <1>0
  <2>2. t # << >> => Len(both) > 0 /\ both[Len(both)] = t[Len(t)]
    BY <1>0, <1>1, <2>1
  <2> QED
    BY <1>1, <2>2
<1>12. ASSUME \A e \in later : \E i \in 1..Len(t) : e = t[i], NEW e \in S
       PROVE  \E i \in 1..Len(both) : e = both[i]
  <2>1. e.version <= after \/ e \in later
    BY <1>2 DEF Beyond
  <2> QED
    BY <1>7, <1>8, <1>12, <2>1
<1>13. \A version : EndsAt(t, version) => EndsAt(both, version)
  BY <1>11 DEF EndsAt
<1>14. Whole(t, later) => Whole(both, S)
  BY <1>12 DEF Whole
<1> QED
  BY <1>10, <1>13, <1>14

(* A page put after the pages before it.                                   *)
LEMMA PageFollows ==
    ASSUME NEW entries, Versioned(entries), NEW old, Begins(old, entries),
           NEW after \in Nat, Follows(old, after), NEW limit \in Nat \ {0},
           NEW page, page = LedgerPage(ListAfterVersion(entries, after, limit + 1), limit),
           NEW pages, pages = old \o page.entries
    PROVE  /\ Begins(pages, entries)
           /\ page.next # NoCursor => EndsAt(pages, page.next)
           /\ page.next = NoCursor => Whole(pages, entries)
<1>1. PICK later : later = Beyond(entries, after)
  OBVIOUS
<1>2. PICK fresh : fresh = page.entries
  OBVIOUS
<1>3. /\ Begins(fresh, later)
      /\ page.next # NoCursor => EndsAt(fresh, page.next)
      /\ page.next = NoCursor => Whole(fresh, later)
  BY <1>1, <1>2, PageForms
<1>4. /\ Begins(pages, entries)
      /\ \A version : EndsAt(fresh, version) => EndsAt(pages, version)
      /\ Whole(fresh, later) => Whole(pages, entries)
  <2>1. pages = old \o fresh
    BY <1>2
  <2> QED
    BY <1>1, <1>3, <2>1, BeginsFurther
<1> QED
  BY <1>3, <1>4

(* The pages a caller has are a beginning of the ledger, as far as its     *)
(* cursor.                                                                 *)
ListingInv ==
    notes.kind = "listing" =>
        LET pages == notes.entries IN
        /\ notes.wallet \in Wallets /\ Begins(pages, book[notes.wallet])
        /\ notes.next # NoCursor => EndsAt(pages, notes.next)

(* A call for the next page is made by who has the pages before, and they  *)
(* are among what the call sees.                                           *)
CursorInv ==
    /\ call.stage \in {"received", "reading"}
    /\ call.request.route = "getLedger" /\ call.request.page # "first"
    => /\ notes.kind = "listing" /\ notes.wallet = call.request.wallet /\ notes.next # NoCursor
       /\ call.stage = "reading" =>
            \A i \in 1..Len(notes.entries) : notes.entries[i] \in call.view.entries

(* Without a next cursor the pages are all that the last call could see.   *)
LastPageInv ==
    /\ notes.kind = "listing" /\ Answered("getLedger") /\ call.status = "200"
    /\ notes.next = NoCursor
    => Begins(notes.entries, call.view.entries) /\ Whole(notes.entries, call.view.entries)

LedgerInv == BookInv /\ BooksAgree /\ CallsInv /\ SeenInv /\ ListingInv /\ CursorInv /\ LastPageInv

(* What the entries of a reader are like.                                  *)
LEMMA AgreesVersioned ==
    ASSUME NEW row, NEW entries, Agrees(row, entries)
    PROVE  /\ Versioned(entries) /\ row.version \in Nat
           /\ \A e \in entries : e.version \in Nat \ {0} /\ e.version <= row.version
BY DEF Agrees, Versioned

(* A step adds to the ledger only beyond what is there.                    *)
LEMMA BeginsStays ==
    ASSUME BookInv, BooksAgree, BookMoves, NEW w \in Wallets, NEW s, Begins(s, book[w])
    PROVE  Begins(s, book'[w])
<1>1. /\ book[w] \subseteq book'[w]
      /\ \A e \in book'[w] \ book[w] : e.version = account[w].version + 1
      /\ account[w].version \in Nat
      /\ \A e \in book[w] : e.version \in Nat /\ e.version <= account[w].version
  <2>1. Agrees(account[w], book[w])
    BY DEF BooksAgree
  <2> QED
    BY <2>1, BookForms, AgreesVersioned
<1>2. \A f \in book'[w] \ book[w] : f.version \in Nat /\ \A e \in book[w] : e.version < f.version
  BY <1>1
<1> QED
  BY <1>1, <1>2, BeginsOn

(* A page that is read continues what the caller has.                      *)
LEMMA PageRead ==
    ASSUME LedgerInv, GetLedger, NEW seen, seen = call.view.entries,
           NEW w, w = call.request.wallet, NEW pages, pages = notes'.entries,
           NEW next, next = notes'.next
    PROVE  /\ notes'.kind = "listing" /\ notes'.wallet = w /\ w \in Wallets
           /\ Begins(pages, seen) /\ Begins(pages, book[w])
           /\ next # NoCursor => EndsAt(pages, next)
           /\ next = NoCursor => Whole(pages, seen)
           /\ call'.stage = "answered" /\ call'.view = call.view /\ UNCHANGED bookVars
<1> DEFINE c == call.request
           row == call.view.account
           first == c.page = "first"
           after == IF first THEN NoCursor ELSE notes.next
           old == IF first THEN << >> ELSE notes.entries
           page == LedgerPage(ListAfterVersion(seen, after, c.limit + 1), c.limit)
<1>1. /\ call.stage = "reading" /\ c.route = "getLedger" /\ c \in Calls
      /\ notes'.kind = "listing" /\ notes'.wallet = w /\ next = page.next /\ pages = old \o page.entries
      /\ call'.stage = "answered" /\ call'.view = call.view /\ UNCHANGED bookVars
  BY DEF GetLedger, Reading, Answer, Snapshot, LedgerInv, CallsInv
<1>2. /\ w \in Wallets /\ refusal(c) = "none"
      /\ Agrees(row, seen)
      /\ seen = {e \in book[w] : e.version <= row.version}
  BY <1>1 DEF LedgerInv, SeenInv
<1>3. c.limit \in Nat \ {0} /\ c.page \in {"first", "next"}
  BY <1>1, <1>2, CallForms
<1>4. Versioned(seen) /\ row.version \in Nat
      /\ \A e \in seen : e.version \in Nat \ {0} /\ e.version <= row.version
  BY <1>2, AgreesVersioned
<1>5. /\ Begins(old, seen) /\ after \in Nat
      /\ Follows(old, after)
  <2>1. CASE first
    <3>1. old = << >> /\ after = 0
      BY <2>1 DEF NoCursor
    <3>2. Begins(<< >>, seen)
      BY DEF Begins
    <3>3. Follows(<< >>, 0)
      BY DEF Follows
    <3> QED
      BY <3>1, <3>2, <3>3
  <2>2. CASE ~first
    <3>1. old = notes.entries /\ after = notes.next
      BY <2>2
    <3>2. /\ notes.kind = "listing" /\ notes.wallet = w /\ notes.next # NoCursor
          /\ \A i \in 1..Len(notes.entries) : notes.entries[i] \in seen
      BY <1>1, <2>2 DEF LedgerInv, CursorInv
    <3>3. /\ Begins(notes.entries, book[w])
          /\ notes.entries # << >> /\ notes.next = notes.entries[Len(notes.entries)].version
      BY <3>2 DEF LedgerInv, ListingInv, EndsAt
    <3> HIDE DEF old, after
    <3>4. Begins(old, book[w]) /\ \A i \in 1..Len(old) : old[i] \in seen
      BY <3>1, <3>2, <3>3
    <3>5. Begins(old, seen)
      <4>1. seen \subseteq book[w]
        BY <1>2
      <4> QED
        BY <3>4, <4>1, BeginsLess
    <3>6. old # << >> /\ after = old[Len(old)].version
      BY <3>1, <3>3
    <3>7. old[Len(old)] \in seen
      <4>1. Len(old) \in 1..Len(old)
        BY <3>5, <3>6 DEF Begins
      <4> QED
        BY <3>4, <4>1
    <3>8. after \in Nat
      BY <1>4, <3>6, <3>7
    <3> QED
      BY <3>5, <3>6, <3>8 DEF Follows, EndsAt
  <2> QED
    BY <2>1, <2>2
<1> DEFINE limit == c.limit
<1>6. page = LedgerPage(ListAfterVersion(seen, after, limit + 1), limit) /\ limit \in Nat \ {0}
  BY <1>3
<1> HIDE DEF page, limit, after, old
<1>7. /\ Begins(pages, seen)
      /\ next # NoCursor => EndsAt(pages, next)
      /\ next = NoCursor => Whole(pages, seen)
  <2>1. Versioned(seen) /\ Begins(old, seen) /\ after \in Nat /\ Follows(old, after)
    BY <1>4, <1>5
  <2>2. PICK read : read = page /\ pages = old \o read.entries /\ next = read.next
    BY <1>1
  <2>3. read = LedgerPage(ListAfterVersion(seen, after, limit + 1), limit)
    BY <1>6, <2>2
  <2>4. /\ Begins(pages, seen)
        /\ read.next # NoCursor => EndsAt(pages, read.next)
        /\ read.next = NoCursor => Whole(pages, seen)
    BY <1>6, <2>1, <2>2, <2>3, PageFollows
  <2> QED
    BY <2>2, <2>4
<1>8. Begins(pages, book[w])
  <2>1. Agrees(account[w], book[w])
    BY <1>2 DEF LedgerInv, BooksAgree
  <2>2. \A e \in book[w] : e.version \in Nat
    BY <2>1, AgreesVersioned
  <2>3. /\ seen \subseteq book[w]
        /\ \A f \in book[w] \ seen : f.version \in Nat /\ \A e \in seen : e.version < f.version
    BY <1>2, <1>4, <2>2
  <2> QED
    BY <1>4, <1>7, <2>3, BeginsOn
<1> QED
  BY <1>1, <1>2, <1>7, <1>8

(* Only a listing or an answer about an operation changes the notes.       *)
LEMMA NotesForms ==
    ASSUME [Next]_vars
    PROVE  \/ UNCHANGED notes
           \/ GetLedger
           \/ /\ notes'.kind = "answer" /\ call.stage = "received"
              /\ call.request.route \in {"submitTransaction", "message", "getTransaction"}
<1>1. ASSUME NEW r, NEW s, Keep(r, s) PROVE notes' = notes \/ notes'.kind = "answer"
  BY <1>1 DEF Keep
<1>2. SubmitTransaction \/ HandleMessage =>
        /\ notes' = notes \/ notes'.kind = "answer"
        /\ call.stage = "received" /\ call.request.route \in {"submitTransaction", "message"}
  BY <1>1 DEF SubmitTransaction, HandleMessage, Serving
<1>3. GetTransaction =>
        \/ UNCHANGED notes
        \/ /\ notes' = notes \/ notes'.kind = "answer"
           /\ call.stage = "received" /\ call.request.route = "getTransaction"
  BY <1>1 DEF GetTransaction, Serving
<1> QED
  BY <1>2, <1>3
     DEF Next, vars, Elsewhere, Served, Send, Refuse, Shed, Break, Take, OpenWallet, GetWallet,
         FindFirst, Reconcile

(* The pages a caller has stay a beginning of the ledger.                  *)
LEMMA ListingStep ==
    ASSUME LedgerInv, [Next]_vars
    PROVE  ListingInv'
<1> SUFFICES ASSUME notes'.kind = "listing", NEW pages, pages = notes'.entries,
                    NEW w, w = notes'.wallet, NEW next, next = notes'.next
             PROVE  /\ w \in Wallets /\ Begins(pages, book'[w])
                    /\ next # NoCursor => EndsAt(pages, next)
  BY DEF ListingInv, Begins, EndsAt
<1>1. CASE UNCHANGED notes
  <2>1. /\ w \in Wallets /\ Begins(pages, book[w])
        /\ next # NoCursor => EndsAt(pages, next)
    BY <1>1 DEF LedgerInv, ListingInv
  <2> QED
    BY <2>1, StepIsOfBook, BeginsStays DEF LedgerInv
<1>2. CASE GetLedger
  <2>1. /\ w \in Wallets /\ Begins(pages, book[w]) /\ UNCHANGED bookVars
        /\ next # NoCursor => EndsAt(pages, next)
    BY <1>2, PageRead
  <2> QED
    BY <2>1 DEF bookVars
<1> QED
  BY <1>1, <1>2, NotesForms

(* A cursor is still good when the call that uses it is served.            *)
LEMMA CursorStep ==
    ASSUME LedgerInv, [Next]_vars
    PROVE  CursorInv'
<1> SUFFICES ASSUME call'.stage \in {"received", "reading"}, call'.request.route = "getLedger",
                    call'.request.page # "first"
             PROVE  /\ notes'.kind = "listing" /\ notes'.wallet = call'.request.wallet
                    /\ notes'.next # NoCursor
                    /\ call'.stage = "reading" =>
                         \A i \in 1..Len(notes'.entries) : notes'.entries[i] \in call'.view.entries
  BY DEF CursorInv
<1>1. ASSUME NEW status, NEW view, NEW body, Answer(status, view, body) PROVE FALSE
  BY <1>1 DEF Answer
<1>2. ASSUME UNCHANGED call
      PROVE  /\ notes'.kind = "listing" /\ notes'.wallet = call'.request.wallet
             /\ notes'.next # NoCursor
             /\ call'.stage = "reading" =>
                  \A i \in 1..Len(notes'.entries) : notes'.entries[i] \in call'.view.entries
  <2>1. /\ notes.kind = "listing" /\ notes.wallet = call.request.wallet /\ notes.next # NoCursor
        /\ call.stage = "reading" =>
             \A i \in 1..Len(notes.entries) : notes.entries[i] \in call.view.entries
    BY <1>2 DEF LedgerInv, CursorInv
  <2>2. UNCHANGED notes
    BY <1>1, <1>2, NotesForms DEF GetLedger
  <2> QED
    BY <1>2, <2>1, <2>2
<1>3. ASSUME NEW c \in Calls, Send(c)
      PROVE  /\ notes'.kind = "listing" /\ notes'.wallet = call'.request.wallet
             /\ notes'.next # NoCursor /\ call'.stage # "reading"
  <2>1. call'.request = c /\ call'.stage = "received" /\ UNCHANGED notes
    BY <1>3 DEF Send
  <2>2. c.page = "next"
    BY <2>1, CallForms
  <2> QED
    BY <1>3, <2>1, <2>2 DEF Send
<1>4. ASSUME FindFirst
      PROVE  /\ notes'.kind = "listing" /\ notes'.wallet = call'.request.wallet
             /\ notes'.next # NoCursor
             /\ \A i \in 1..Len(notes'.entries) : notes'.entries[i] \in call'.view.entries
  <2>1. /\ call.stage = "received" /\ call'.request = call.request
        /\ call'.view.entries = book[call.request.wallet] /\ UNCHANGED notes
    BY <1>1, <1>4 DEF FindFirst, Serving
  <2>2. notes.kind = "listing" /\ notes.wallet = call.request.wallet /\ notes.next # NoCursor
    BY <2>1 DEF LedgerInv, CursorInv
  <2>3. notes.entries \in Seq(book[call.request.wallet])
    BY <2>2 DEF LedgerInv, ListingInv, Begins
  <2>4. \A i \in 1..Len(notes.entries) : notes.entries[i] \in book[call.request.wallet]
    BY <2>3
  <2> QED
    BY <2>1, <2>2, <2>4
<1>5. \/ UNCHANGED call \/ FindFirst \/ \E c \in Calls : Send(c)
      \/ \E status, view, body : Answer(status, view, body)
  <2>1. ~Take
    BY DEF Take, NoCall
  <2> QED
    BY <2>1 DEF Next, vars, Elsewhere, Served, Refuse, Shed, Break, OpenWallet, GetWallet, Reconcile,
                GetLedger, SubmitTransaction, HandleMessage, GetTransaction
<1> QED
  BY <1>1, <1>2, <1>3, <1>4, <1>5

(* The page without a cursor is the last of what was there to see.         *)
LEMMA LastPageStep ==
    ASSUME LedgerInv, [Next]_vars
    PROVE  LastPageInv'
<1> SUFFICES ASSUME notes'.kind = "listing", call'.stage = "answered",
                    call'.request.route = "getLedger", call'.status = "200",
                    notes'.next = NoCursor, NEW pages, pages = notes'.entries,
                    NEW seen, seen = call'.view.entries
             PROVE  Begins(pages, seen) /\ Whole(pages, seen)
  <2>1. /\ Begins(notes'.entries, call'.view.entries) <=> Begins(notes.entries, call.view.entries)'
        /\ Whole(notes'.entries, call'.view.entries) <=> Whole(notes.entries, call.view.entries)'
    BY DEF Begins, Whole
  <2> QED
    BY <2>1 DEF LastPageInv, Answered
<1>1. CASE GetLedger
  <2>1. call'.view = call.view
    BY <1>1, PageRead
  <2> QED
    BY <1>1, <2>1, PageRead
<1>2. CASE ~GetLedger
  <2>1. UNCHANGED call
    <3>1. call'.request = call.request =>
            ~(OpenWallet \/ GetWallet \/ Reconcile \/ SubmitTransaction \/ HandleMessage
                \/ GetTransaction)
      BY DEF OpenWallet, GetWallet, Reconcile, SubmitTransaction, HandleMessage, GetTransaction,
             Serving, Reading
    <3>2. refusal(call.request) # "200"
      BY DEF refusal
    <3> QED
      BY <1>2, <3>1, <3>2, AnsweredForms
  <2>2. UNCHANGED notes
    BY <1>2, <2>1, NotesForms
  <2> QED
    BY <2>1, <2>2 DEF LedgerInv, LastPageInv, Answered
<1> QED
  BY <1>1, <1>2

(* The pages are what they should be.                                      *)
LEMMA PagesAreComplete == ListingInv /\ LastPageInv /\ BooksAgree => PagesComplete
<1> SUFFICES ASSUME ListingInv, LastPageInv, BooksAgree, notes.kind = "listing",
                    NEW pages, pages = notes.entries, NEW w, w = notes.wallet
             PROVE  /\ \A i \in 1..(Len(pages) - 1) : pages[i].version < pages[i + 1].version
                    /\ pages # << >> =>
                         ToSet(pages) = {e \in book[w] : e.version <= Last(pages).version}
                    /\ Answered("getLedger") /\ call.status = "200" /\ notes.next = NoCursor =>
                         ToSet(pages) = call.view.entries
  BY DEF PagesComplete
<1>1. w \in Wallets /\ Begins(pages, book[w])
  BY DEF ListingInv
<1>2. /\ Len(pages) \in Nat /\ DOMAIN pages = 1..Len(pages) /\ pages \in Seq(book[w])
      /\ \A i \in 1..Len(pages) : pages[i] \in book[w]
      /\ \A i, j \in 1..Len(pages) : i < j => pages[i].version < pages[j].version
      /\ \A i \in 1..Len(pages) : \A e \in book[w] :
           e.version <= pages[i].version => \E j \in 1..Len(pages) : e = pages[j]
  BY <1>1 DEF Begins
<1>3. \A e \in book[w] : e.version \in Nat
  BY <1>1, AgreesVersioned DEF BooksAgree
<1>4. ASSUME NEW i \in 1..(Len(pages) - 1) PROVE pages[i].version < pages[i + 1].version
  BY <1>2
<1>5. ASSUME pages # << >>
      PROVE  ToSet(pages) = {e \in book[w] : e.version <= Last(pages).version}
  <2>1. Len(pages) \in 1..Len(pages) /\ Last(pages) = pages[Len(pages)]
    BY <1>2, <1>5 DEF Last
  <2>2. ASSUME NEW i \in 1..Len(pages) PROVE pages[i].version <= pages[Len(pages)].version
    <3>1. i = Len(pages) \/ i < Len(pages)
      BY <1>2
    <3>2. pages[i].version \in Nat /\ pages[Len(pages)].version \in Nat
      BY <1>2, <1>3, <2>1
    <3> QED
      BY <1>2, <2>1, <3>1, <3>2
  <2>3. \A e \in book[w] : e.version <= Last(pages).version => \E j \in 1..Len(pages) : e = pages[j]
    BY <1>2, <2>1
  <2> QED
    BY <1>2, <2>1, <2>2, <2>3 DEF ToSet
<1>6. ASSUME Answered("getLedger"), call.status = "200", notes.next = NoCursor
      PROVE  ToSet(pages) = call.view.entries
  <2>1. /\ Begins(pages, call.view.entries)
        /\ \A e \in call.view.entries : \E i \in 1..Len(pages) : e = pages[i]
    BY <1>6 DEF LastPageInv, Whole
  <2>2. \A i \in 1..Len(pages) : pages[i] \in call.view.entries
    BY <2>1 DEF Begins
  <2>3. ToSet(pages) \subseteq call.view.entries
    BY <1>2, <2>2 DEF ToSet
  <2>4. call.view.entries \subseteq ToSet(pages)
    BY <1>2, <2>1 DEF ToSet
  <2> QED
    BY <2>3, <2>4
<1> QED
  BY <1>4, <1>5, <1>6

(* A caller that follows the cursors gets every entry once and in order,   *)
(* however many are added while it reads (Execute of                       *)
(* list_wallet_ledger.go, LedgerPage, and the cursor of getLedger).        *)
THEOREM PagesAlwaysComplete == Spec => []PagesComplete
<1>1. Init => SeenInv /\ ListingInv /\ CursorInv /\ LastPageInv
  BY DEF Init, NoCall, NoNotes, SeenInv, ListingInv, CursorInv, LastPageInv, Answered
<1>2. Init => LedgerInv
  BY <1>1, InitForms, BooksAgreeInit DEF LedgerInv
<1>3. LedgerInv /\ [Next]_vars => LedgerInv'
  <2>1. BookInv /\ CallsInv /\ BooksAgree /\ [Next]_vars => BookInv' /\ BooksAgree'
    BY StepIsOfBook, BookStep, BooksAgreeStep
  <2> QED
    BY <2>1, CallsStep, SeenStep, ListingStep, CursorStep, LastPageStep DEF LedgerInv
<1>4. LedgerInv => PagesComplete
  BY PagesAreComplete DEF LedgerInv
<1> QED
  BY <1>2, <1>3, <1>4, PTL DEF Spec

=============================================================================
