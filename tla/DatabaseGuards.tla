--------------------------- MODULE DatabaseGuards ---------------------------
(***************************************************************************)
(* What PostgreSQL and the rehydration of a row check again: constraints,  *)
(* unique indexes, guards and deferred triggers of                         *)
(* migrations/000001_init.up.sql, and Snapshot.validate.                   *)
(*                                                                         *)
(* They are stated over one step, from the committed tables to the tables  *)
(* after the commit.  None of them guards an action of Settlement: that no *)
(* step ever meets a refusal is what is checked.  A refusal would be a     *)
(* permanent error, which makes a worker give an operation up, and a row   *)
(* that cannot be rehydrated would stop every batch that claims it.        *)
(***************************************************************************)
EXTENDS SettlementProperties

(* wallets_guard and the checks of the table.                              *)
WalletsGuard(w) ==
    LET old == wallets[w]
        new == wallets'[w]
    IN  /\ new.balance >= 0
        /\ IF old.version = 0 THEN new.version = 1
           ELSE new.version = IF new.balance # old.balance THEN old.version + 1
                              ELSE old.version

(* wallets_balance_change_check: the version a wallet reached is explained *)
(* by the entry of that version.                                           *)
WalletsBalanceChangeCheck(w) ==
    LET old == wallets[w]
        new == wallets'[w]
        entry == {e \in ledger'[w] : e.version = new.version}
    IN  IF old.version = 0
          THEN IF new.balance = 0 THEN entry = {}
               ELSE \E e \in entry : /\ e.direction = "CREDIT"
                                     /\ e.before = 0
                                     /\ e.after = new.balance
        ELSE new.balance # old.balance =>
               \E e \in entry : e.before = old.balance /\ e.after = new.balance

(* The direction wallet_ledger_entries_chain_check expects of an entry.    *)
ExpectedDirection(w, e) ==
    IF e.op \in Wallets THEN {"CREDIT"}
    ELSE CASE Request[e.op].kind = "BET" -> {"DEBIT"}
           [] Request[e.op].kind \in {"WIN", "REFUND"} -> {"CREDIT"}
           [] Request[e.op].kind = "LOSS" -> {}
           [] Request[e.op].kind = "ROLLBACK" ->
                LET o == txs'[e.op].ref IN
                {IF f.direction = "CREDIT" THEN "DEBIT" ELSE "CREDIT" :
                   f \in {g \in ledger'[w] : /\ g.op = o
                                             /\ txs'[o].status = "PROCESSED"
                                             /\ Request[o].wallet = w}}

(* wallet_ledger_entries_chain_check, and the unique keys and checks of    *)
(* the table, for an entry e of wallet w.                                  *)
LedgerChainCheck(w, e) ==
    LET at(v) == {f \in ledger'[w] : f.version = v}
        wallet == wallets'[w]
    IN  /\ e.version \in 1..wallet.version
        /\ e.amount > 0 /\ e.before >= 0 /\ e.after >= 0
        /\ e.after = applyDirection(e.before, e.direction, e.amount)
        /\ at(e.version) = {e}
        /\ \A v \in Wallets : \A f \in ledger'[v] : f.op = e.op => v = w /\ f = e
        /\ e.op \in Requests => /\ txs'[e.op].status = "PROCESSED"
                                /\ Request[e.op].amount = e.amount
                                /\ Request[e.op].wallet = w
        /\ e.direction \in ExpectedDirection(w, e)
        /\ (e.version = 1) <=> (e.op = w)
        /\ IF e.version = 1 THEN e.before = 0
           ELSE IF at(e.version - 1) # {} THEN \A f \in at(e.version - 1) : f.after = e.before
           ELSE e.version = 2 /\ e.before = 0
        /\ IF e.version = wallet.version THEN e.after = wallet.balance
           ELSE at(e.version + 1) # {} /\ \A f \in at(e.version + 1) : f.before = e.after

(* wager_transactions_guard: terminal rows are final and a parked row does *)
(* not go back.                                                            *)
TransactionsGuard(r) ==
    LET old == txs[r].status
        new == txs'[r].status
    IN  /\ ~Terminal(old)
        /\ old = "ABSENT" => new \in {"PROCESSED", "REJECTED", "PENDING_REFERENCE"}
        /\ old = "PENDING_REFERENCE" =>
             new \in {"PROCESSED", "REJECTED", "FAILED", "PENDING_REFERENCE"}

(* The checks of wager_transactions, its unique keys, and the index that   *)
(* admits one successful reversal of an operation.                         *)
TransactionsConstraints(r) ==
    LET row == txs'[r]
        reversal == Reversal(Request[r].kind)
    IN  /\ row.ref # r
        /\ (row.code # NoCode) <=> row.status \in {"REJECTED", "FAILED"}
        /\ (row.result # NoBalance) <=> row.status \in {"PROCESSED", "REJECTED"}
        /\ row.status = "PROCESSED" /\ reversal => row.ref # NoTx
        /\ row.status = "PENDING_REFERENCE" => row.nextAt # 0 /\ row.deadline # 0
        /\ \A o \in Requests : txs'[o].status # "ABSENT" /\ Conflicts(r, o) => o = r
        /\ row.status = "PROCESSED" /\ reversal =>
             ~\E o \in Requests \ {r} : /\ txs'[o].status = "PROCESSED"
                                        /\ Reversal(Request[o].kind)
                                        /\ txs'[o].ref = row.ref

(* wager_transactions_settlement_check *)
SettlementCheck(r) ==
    LET entries == {e \in UNION {ledger'[w] : w \in Wallets} : e.op = r}
        expected == IF txs'[r].status = "PROCESSED" /\ Request[r].kind # "LOSS" THEN 1 ELSE 0
    IN  txs'[r].status # "PENDING" /\ Cardinality(entries) = expected

(* outbox_events_guard: what was appended stays.                           *)
OutboxGuard(o) ==
    /\ Len(outbox'[o]) >= Len(outbox[o])
    /\ SubSeq(outbox'[o], 1, Len(outbox[o])) = outbox[o]

(* The database accepts every commit of the service: no check, unique      *)
(* index, guard or deferred trigger ever refuses what the domain decided,  *)
(* in whatever order handlers and workers commit.                          *)
DatabaseAccepts ==
    [][/\ \A w \in Wallets : wallets'[w] # wallets[w] =>
            WalletsGuard(w) /\ WalletsBalanceChangeCheck(w)
       /\ \A w \in Wallets : \A e \in ledger'[w] \ ledger[w] : LedgerChainCheck(w, e)
       /\ \A r \in Requests : txs'[r] # txs[r] =>
            TransactionsGuard(r) /\ TransactionsConstraints(r) /\ SettlementCheck(r)
       /\ \A o \in Operations : OutboxGuard(o)]_vars

-----------------------------------------------------------------------------
(* Snapshot.validate, as Rehydrate runs it on every row that is read.      *)
ValidSnapshot(r) ==
    LET row == txs[r]
        reversal == Reversal(Request[r].kind)
        currency == Wallet[Request[r].wallet].currency
    IN  /\ row.ref # r
        /\ row.ref # NoTx => Request[r].refExt # NoExt
        /\ IF row.status = "PENDING_REFERENCE" THEN reversal /\ row.nextAt # 0 /\ row.deadline # 0
           ELSE row.nextAt = 0 /\ row.deadline = 0
        /\ CASE row.status = "PROCESSED" -> /\ row.result >= 0 /\ row.code = NoCode
                                            /\ currency = Request[r].currency
                                            /\ reversal => row.ref # NoTx
             [] row.status = "REJECTED"  -> /\ row.result >= 0
                                            /\ row.code \in FailureCodes \ {"PERMANENT_FAILURE"}
             [] row.status = "FAILED"    -> /\ reversal /\ row.result = NoBalance
                                            /\ row.code = "PERMANENT_FAILURE"
             [] OTHER -> row.code = NoCode /\ row.result = NoBalance /\ row.ref = NoTx

(* Every stored operation can be read back: Rehydrate refuses none, so no  *)
(* row poisons a replay, a lookup of a reference or a batch of the worker. *)
RowsRehydrate == \A r \in Requests : Stored(r) => ValidSnapshot(r)

=============================================================================
