----------------------------- MODULE MCConsumer -----------------------------
(***************************************************************************)
(* Instances of the consumer for TLC: a message of a wallet followed by    *)
(* another one, which the listener rejects, with or without a message of a *)
(* second wallet.                                                          *)
(***************************************************************************)
EXTENDS Consumer, TLC

TwoWallets == [w1 |-> <<"a1", "bad">>, w2 |-> <<"b1">>]
TwoMessages == [w1 |-> <<"a1", "a2">>]

=============================================================================
