------------------------------ MODULE MCOutbox ------------------------------
(***************************************************************************)
(* Instances of the outbox for TLC.                                        *)
(***************************************************************************)
EXTENDS Outbox

OneWallet == [w1 |-> <<"a1", "a2">>]

=============================================================================
