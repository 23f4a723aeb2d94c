------------------------------ MODULE Wagering ------------------------------
(***************************************************************************)
(* The wagering domain: kinds, statuses and failure codes of an operation, *)
(* and the pure decision the service takes about one operation once it     *)
(* holds the wallet lock (internal/domain/wagering).                       *)
(*                                                                         *)
(* A provider operation is a member of Requests and Request[r] holds the   *)
(* immutable columns of its row.  One member of Requests stands for one    *)
(* payload: a retry or a redelivery of the same payload is the same        *)
(* member, a different payload under a reused key is another member.       *)
(***************************************************************************)
EXTENDS Integers

CONSTANTS
    Requests,      \* operations the providers may submit
    Request,       \* Request[r]: the immutable columns of operation r
    Wallets,       \* wallets that may be opened, one per (player, currency)
    Wallet,        \* Wallet[w]: its player and its currency
    Exts,          \* external transaction identifiers
    NoExt,         \* the empty referenceExternalTransactionId
    NoTx,          \* the nil UUID in reference_transaction_id
    MaxBalance     \* the largest balance money can hold (2^63 - 1 in the code)

Kinds == {"BET", "WIN", "LOSS", "REFUND", "ROLLBACK"}

Reversal(kind) == kind \in {"REFUND", "ROLLBACK"}

Terminal(status) == status \in {"PROCESSED", "REJECTED", "FAILED"}

(* "ABSENT" is the row that does not exist.  "PENDING" is the status of a  *)
(* row inside the transaction that inserted it.                            *)
Statuses == {"ABSENT", "PENDING", "PENDING_REFERENCE",
             "PROCESSED", "REJECTED", "FAILED"}

NoCode == "NONE"

FailureCodes ==
    {"INSUFFICIENT_FUNDS", "REVERSAL_INSUFFICIENT_FUNDS",
     "BALANCE_LIMIT_EXCEEDED", "REFERENCE_NOT_FOUND",
     "REFERENCE_NOT_PROCESSED", "REFERENCE_MISMATCH",
     "REFERENCE_KIND_NOT_ALLOWED", "ALREADY_REVERSED",
     "CURRENCY_MISMATCH", "WALLET_PLAYER_MISMATCH", "PERMANENT_FAILURE"}

ASSUME ConstantsAssumption ==
    /\ MaxBalance \in Nat
    /\ NoTx \notin Requests
    /\ NoExt \notin Exts
    /\ Requests \cap Wallets = {}

(* What input.Validate and NewExternal let through: an external kind, a    *)
(* positive amount (zero for a LOSS), a reference where the kind needs one *)
(* and none where it forbids one.                                          *)
ValidRequest(r) ==
    /\ Request[r].kind \in Kinds
    /\ Request[r].wallet \in Wallets
    /\ Request[r].ext \in Exts
    /\ Request[r].refExt \in Exts \cup {NoExt}
    /\ Request[r].amount \in 0..MaxBalance
    /\ (Request[r].kind = "LOSS") <=> (Request[r].amount = 0)
    /\ Reversal(Request[r].kind) => Request[r].refExt # NoExt
    /\ Request[r].kind \in {"BET", "LOSS"} => Request[r].refExt = NoExt

ASSUME RequestAssumption == \A r \in Requests : ValidRequest(r)

-----------------------------------------------------------------------------
(* Decisions.                                                              *)

Directions == {"DEBIT", "CREDIT", "NONE"}

Decisions == [outcome   : {"process", "reject", "wait"},
              code      : FailureCodes \cup {NoCode},
              direction : Directions,
              ref       : Requests \cup {NoTx}]

process(direction, ref) ==
    [outcome |-> "process", code |-> NoCode, direction |-> direction, ref |-> ref]

reject(code) ==
    [outcome |-> "reject", code |-> code, direction |-> "NONE", ref |-> NoTx]

waitReference ==
    [outcome |-> "wait", code |-> NoCode, direction |-> "NONE", ref |-> NoTx]

(* What resolveReference found: the operation that owns the referenced     *)
(* external identifier (NoTx when there is none), its status, and whether  *)
(* a processed reversal of it exists.                                      *)
References == [id : Requests \cup {NoTx}, status : Statuses, reversed : BOOLEAN]

noReference == [id |-> NoTx, status |-> "ABSENT", reversed |-> FALSE]

sameRound(r, o) ==
    /\ Request[r].provider = Request[o].provider
    /\ Request[r].player = Request[o].player
    /\ Request[r].wallet = Request[o].wallet
    /\ Request[r].round = Request[o].round
    /\ Request[r].currency = Request[o].currency

reversible(reversal, original) ==
    \/ reversal = "REFUND" /\ original = "BET"
    \/ reversal = "ROLLBACK" /\ original \in {"BET", "WIN", "REFUND"}

reversalDirection(reversal, original) ==
    IF reversal = "REFUND" \/ original = "BET" THEN "CREDIT" ELSE "DEBIT"

(* Mutant of overflows: the sum is never checked.                          *)
overflows_Never(balance, amount) == FALSE

(* Money.Add refuses a sum that does not fit; Money.Cmp orders balances.   *)
overflows(balance, amount) == balance + amount > MaxBalance

decideBet(balance, r) ==
    IF balance < Request[r].amount THEN reject("INSUFFICIENT_FUNDS")
    ELSE process("DEBIT", NoTx)

decideWin(balance, r, reference) ==
    LET o == reference.id
        resolved == Request[r].refExt # NoExt /\ o # NoTx
    IN  IF resolved /\ Request[o].kind # "BET" THEN reject("REFERENCE_KIND_NOT_ALLOWED")
        ELSE IF resolved /\ ~sameRound(r, o) THEN reject("REFERENCE_MISMATCH")
        ELSE IF overflows(balance, Request[r].amount) THEN reject("BALANCE_LIMIT_EXCEEDED")
        ELSE process("CREDIT", IF resolved THEN o ELSE NoTx)

(* The order of the tests is the order in which the code reports them.     *)
decideReversal(balance, r, reference, expired) ==
    LET o == reference.id
        amount == Request[r].amount
        direction == reversalDirection(Request[r].kind, Request[o].kind)
    IN  IF o = NoTx
          THEN IF expired THEN reject("REFERENCE_NOT_FOUND") ELSE waitReference
        ELSE IF reference.status \in {"PENDING", "PENDING_REFERENCE"}
          THEN IF expired THEN reject("REFERENCE_NOT_PROCESSED") ELSE waitReference
        ELSE IF reference.status \in {"REJECTED", "FAILED"}
          THEN reject("REFERENCE_NOT_PROCESSED")
        ELSE IF ~reversible(Request[r].kind, Request[o].kind)
          THEN reject("REFERENCE_KIND_NOT_ALLOWED")
        ELSE IF ~sameRound(r, o) \/ amount # Request[o].amount
          THEN reject("REFERENCE_MISMATCH")
        ELSE IF reference.reversed THEN reject("ALREADY_REVERSED")
        ELSE IF direction = "DEBIT" /\ balance < amount
          THEN reject("REVERSAL_INSUFFICIENT_FUNDS")
        ELSE IF direction = "CREDIT" /\ overflows(balance, amount)
          THEN reject("BALANCE_LIMIT_EXCEEDED")
        ELSE process(direction, o)

(* Decide for operation r on its own wallet, whose balance was read under  *)
(* the wallet lock.                                                        *)
Decide(balance, r, reference, expired) ==
    LET w == Request[r].wallet IN
    IF Request[r].player # Wallet[w].player THEN reject("WALLET_PLAYER_MISMATCH")
    ELSE IF Request[r].currency # Wallet[w].currency THEN reject("CURRENCY_MISMATCH")
    ELSE IF Request[r].kind = "BET" THEN decideBet(balance, r)
    ELSE IF Request[r].kind = "WIN" THEN decideWin(balance, r, reference)
    ELSE IF Request[r].kind = "LOSS" THEN process("NONE", NoTx)
    ELSE decideReversal(balance, r, reference, expired)

(* applyDirection: the balance a movement leaves.                          *)
applyDirection(balance, direction, amount) ==
    IF direction = "CREDIT" THEN balance + amount
    ELSE IF direction = "DEBIT" THEN balance - amount
    ELSE balance

=============================================================================
