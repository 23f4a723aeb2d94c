----------------------------- MODULE WalletBook -----------------------------
(***************************************************************************)
(* What the service promises to whoever looks at the committed tables: a   *)
(* book in which every operation is recorded at most once, settled at most *)
(* once and in one step, processed only if it may be and rejected only if  *)
(* it may not.  There are no processes, locks, transactions or failures    *)
(* here; Settlement is shown to implement this book.                       *)
(***************************************************************************)
EXTENDS Wagering, FiniteSets

CONSTANT OpeningBalances   \* initial balances a wallet may be opened with

VARIABLES
    account,   \* balance and version of each wallet; version 0: not opened
    book,      \* the ledger entries of each wallet
    outcome,   \* the status of each operation
    undoes     \* the operation a processed reversal undoes

bookVars == <<account, book, outcome, undoes>>

BookInit ==
    /\ account = [w \in Wallets |-> [balance |-> 0, version |-> 0]]
    /\ book = [w \in Wallets |-> {}]
    /\ outcome = [r \in Requests |-> "ABSENT"]
    /\ undoes = [r \in Requests |-> NoTx]

Open(w, balance) ==
    /\ account[w].version = 0
    /\ account' = [account EXCEPT ![w] = [balance |-> balance, version |-> 1]]
    /\ book' = IF balance = 0 THEN book
               ELSE [book EXCEPT ![w] = {[version |-> 1, op |-> w, direction |-> "CREDIT",
                                          amount |-> balance, before |-> 0, after |-> balance]}]
    /\ UNCHANGED <<outcome, undoes>>

-----------------------------------------------------------------------------
Recorded(r) == outcome[r] # "ABSENT"

(* Two operations of one provider that share a unique key.                 *)
SameIdentity(r, o) ==
    /\ Request[r].provider = Request[o].provider
    /\ Request[r].key = Request[o].key \/ Request[r].ext = Request[o].ext

(* An operation that may still be recorded, and one that may be settled.   *)
Fresh(r) ==
    /\ account[Request[r].wallet].version > 0
    /\ ~\E o \in Requests : Recorded(o) /\ SameIdentity(r, o)

Unsettled(r) == Fresh(r) \/ outcome[r] = "PENDING_REFERENCE"

Names(r, o) ==
    /\ Request[r].provider = Request[o].provider
    /\ Request[r].refExt = Request[o].ext

OwnWallet(r) ==
    LET wallet == Wallet[Request[r].wallet] IN
    Request[r].player = wallet.player /\ Request[r].currency = wallet.currency

Fits(r, direction) ==
    applyDirection(account[Request[r].wallet].balance, direction, Request[r].amount)
        \in 0..MaxBalance

(* A win that names something else than a bet of its own round.            *)
Misnamed(r, o) ==
    /\ Names(r, o)
    /\ Recorded(o) \/ o = r
    /\ Request[o].kind # "BET" \/ ~sameRound(r, o)

(* Operation o stands processed, is what r may reverse, and nothing has    *)
(* reversed it.                                                            *)
MayUndo(r, o) ==
    /\ Names(r, o)
    /\ outcome[o] = "PROCESSED"
    /\ reversible(Request[r].kind, Request[o].kind)
    /\ sameRound(r, o) /\ Request[r].amount = Request[o].amount
    /\ ~\E s \in Requests : undoes[s] = o

(* The directions in which an operation may move its wallet, each with the *)
(* operation it undoes.                                                    *)
Movements(r) ==
    CASE Request[r].kind = "BET" -> {<<"DEBIT", NoTx>>}
      [] Request[r].kind = "WIN" -> {<<"CREDIT", NoTx>>}
      [] Request[r].kind = "LOSS" -> {}
      [] OTHER -> {<<reversalDirection(Request[r].kind, Request[o].kind), o>> :
                     o \in {o \in Requests : MayUndo(r, o)}}

(* What keeps an operation from being processed.  An operation of another  *)
(* wallet that a win names may be recorded while the win is being settled, *)
(* so it justifies a rejection but does not demand one.                    *)
Barred(r) ==
    \/ ~OwnWallet(r)
    \/ Request[r].kind # "LOSS" /\ ~\E m \in Movements(r) : Fits(r, m[1])
    \/ /\ Request[r].kind = "WIN"
       /\ \E o \in Requests : Misnamed(r, o) /\ Request[o].wallet = Request[r].wallet

Excused(r) == Request[r].kind = "WIN" /\ \E o \in Requests : Misnamed(r, o)

-----------------------------------------------------------------------------
Conclude(r, status) == outcome' = [outcome EXCEPT ![r] = status]

(* Only a reversal may wait.                                               *)
Park(r) ==
    /\ Conclude(r, "PENDING_REFERENCE")
    /\ Fresh(r)
    /\ Reversal(Request[r].kind)
    /\ UNCHANGED <<account, book, undoes>>

(* A loss moves nothing.                                                   *)
Lose(r) ==
    /\ Conclude(r, "PROCESSED")
    /\ Unsettled(r) /\ ~Barred(r)
    /\ Request[r].kind = "LOSS"
    /\ UNCHANGED <<account, book, undoes>>

(* The operation, its wallet and its ledger entry change together.         *)
Move(r) ==
    LET w == Request[r].wallet
        old == account[w]
    IN  /\ Conclude(r, "PROCESSED")
        /\ Unsettled(r) /\ ~Barred(r)
        /\ \E m \in Movements(r) :
             LET after == applyDirection(old.balance, m[1], Request[r].amount) IN
             /\ Fits(r, m[1])
             /\ account' = [account EXCEPT ![w] = [balance |-> after,
                                                   version |-> old.version + 1]]
             /\ book' = [book EXCEPT ![w] = @ \cup
                           {[version |-> old.version + 1, op |-> r, direction |-> m[1],
                             amount |-> Request[r].amount, before |-> old.balance,
                             after |-> after]}]
             /\ undoes' = [undoes EXCEPT ![r] = m[2]]

Reject(r) ==
    /\ Conclude(r, "REJECTED")
    /\ Unsettled(r)
    /\ Barred(r) \/ Excused(r)
    /\ UNCHANGED <<account, book, undoes>>

(* Giving up is left to operations that wait.                              *)
Fail(r) ==
    /\ Conclude(r, "FAILED")
    /\ outcome[r] = "PENDING_REFERENCE"
    /\ UNCHANGED <<account, book, undoes>>

BookNext ==
    \/ \E w \in Wallets, balance \in OpeningBalances : Open(w, balance)
    \/ \E r \in Requests : Park(r) \/ Lose(r) \/ Move(r) \/ Reject(r) \/ Fail(r)

BookSpec == BookInit /\ [][BookNext]_bookVars

=============================================================================
