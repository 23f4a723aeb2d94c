---------------------------- MODULE MCSettlement ----------------------------
(***************************************************************************)
(* Instances of the settlement for TLC: each scenario is a set of          *)
(* operations, the deliveries that carry them, and the wallets they touch. *)
(***************************************************************************)
EXTENDS DatabaseGuards, SettlementBook, TLC

HandlerSymmetry == Permutations(Handlers)
ProcessSymmetry == Permutations(Handlers) \cup Permutations(Workers)

(* Operations of provider p1 by alice in wallet w1 and round g1, unless    *)
(* said otherwise.                                                         *)
op(kind, key, ext, refExt, amount) ==
    [kind |-> kind, provider |-> "p1", key |-> key, ext |-> ext,
     refExt |-> refExt, player |-> "alice", wallet |-> "w1", round |-> "g1",
     currency |-> "BRL", amount |-> amount]

http(r) == [request |-> r, message |-> NoMessage, body |-> r]

queued(r, m) == [request |-> r, message |-> m, body |-> r]

MCExts == {"e1", "e2", "e3", "e4", "e5", "e6"}

MCWallet == [w1 |-> [player |-> "alice", currency |-> "BRL"],
             w2 |-> [player |-> "bob", currency |-> "BRL"]]

(* Submissions: a bet; another payload under its key (a loss), also under  *)
(* its message identifier; another key with its external identifier, by a  *)
(* player the wallet does not belong to; a refund in another wallet that   *)
(* names the bet; a win there that names it or reaches the largest         *)
(* balance.                                                                *)
SubmissionRequest ==
    [bet      |-> op("BET", "k1", "e1", NoExt, 1),
     tampered |-> op("LOSS", "k1", "e4", NoExt, 0),
     reused   |-> [op("BET", "k2", "e1", NoExt, 1) EXCEPT !.player = "bob"],
     foreign  |-> [op("REFUND", "k3", "e2", "e1", 1) EXCEPT
                     !.wallet = "w2", !.player = "bob"],
     win      |-> [op("WIN", "k4", "e3", "e1", 2) EXCEPT
                     !.wallet = "w2", !.player = "bob"]]
SubmissionRequests == DOMAIN SubmissionRequest
SubmissionDeliveries ==
    {http("bet"), queued("bet", "m1"), queued("tampered", "m1"),
     http("reused"), http("foreign"), http("win")}

(* Without workers nothing depends on the clock.                           *)
TimeStands == clock = 1

(* Every deadline that can be set has passed at the third instant: the     *)
(* last one adds nothing, and before the third nothing expires.            *)
UntilExpiry == clock <= 3

BeforeExpiry == clock <= 2

(* Reversals: a bet, and a refund and a rollback that compete for it.      *)
ReversalRequest ==
    [bet      |-> op("BET", "k1", "e1", NoExt, 1),
     refund   |-> op("REFUND", "k2", "e2", "e1", 1),
     rollback |-> op("ROLLBACK", "k3", "e3", "e1", 1)]
ReversalRequests == DOMAIN ReversalRequest
ReversalDeliveries == {http(r) : r \in ReversalRequests}

(* Chains: a bet, a refund of it, and a rollback of the refund, which has  *)
(* to wait for an operation that itself waits.  Queued chains: a second    *)
(* rollback of the refund, and the first one also arrives by the queue.    *)
ChainRequest ==
    [bet    |-> op("BET", "k1", "e1", NoExt, 1),
     refund |-> op("REFUND", "k2", "e2", "e1", 1),
     undo   |-> op("ROLLBACK", "k3", "e3", "e2", 1)]
ChainRequests == DOMAIN ChainRequest
ChainDeliveries == {http(r) : r \in ChainRequests}

QueuedChainRequest ==
    [bet    |-> op("BET", "k1", "e1", NoExt, 1),
     refund |-> op("REFUND", "k2", "e2", "e1", 1),
     undo   |-> op("ROLLBACK", "k3", "e3", "e2", 1),
     again  |-> op("ROLLBACK", "k4", "e4", "e2", 1)]
QueuedChainRequests == DOMAIN QueuedChainRequest
QueuedChainDeliveries ==
    {http(r) : r \in QueuedChainRequests} \cup {queued("undo", "m1")}

(* Cycles: two rollbacks that reference each other and a refund that       *)
(* references itself.                                                      *)
CycleRequest ==
    [there |-> op("ROLLBACK", "k1", "e1", "e2", 1),
     back  |-> op("ROLLBACK", "k2", "e2", "e1", 1),
     self  |-> op("REFUND", "k3", "e3", "e3", 1)]
CycleRequests == DOMAIN CycleRequest
CycleDeliveries == {http(r) : r \in CycleRequests}

=============================================================================
