--------------------------- MODULE SettlementBook ---------------------------
(***************************************************************************)
(* The settlement of provider operations implements the book of            *)
(* WalletBook: the committed tables are the book, and what processes hold  *)
(* and have not committed is not part of it.                               *)
(***************************************************************************)
EXTENDS SettlementProperties

Book == INSTANCE WalletBook WITH
    account <- wallets,
    book    <- ledger,
    outcome <- [r \in Requests |-> txs[r].status],
    undoes  <- [r \in Requests |->
                  IF Reversal(Request[r].kind) THEN txs[r].ref ELSE NoTx]

(* Whatever handlers and workers interleave, retry, roll back or leave     *)
(* with an unknown commit, every step leaves the tables alone or is one    *)
(* step of the book: an operation is recorded once per key, settled once,  *)
(* together with its wallet and its entry, processed only while nothing    *)
(* bars it at that very moment, and rejected only while something does.    *)
ImplementsBook == Book!BookSpec

=============================================================================
