----------------------------- MODULE MCEntrance -----------------------------
(***************************************************************************)
(* The doors of the service for TLC: two providers, one wallet, and one    *)
(* call of every kind, well formed or not.                                 *)
(***************************************************************************)
EXTENDS Entrance

(* A bet, a refund of it that may come first, another payload under the    *)
(* key of the bet, and a bet of another provider.                          *)
op(kind, provider, key, ext, refExt, amount) ==
    [kind |-> kind, provider |-> provider, key |-> key, ext |-> ext, refExt |-> refExt,
     player |-> "alice", wallet |-> "w1", round |-> "g1", currency |-> "BRL", amount |-> amount]

MCRequest ==
    [bet    |-> op("BET", "p1", "k1", "e1", NoExt, 1),
     refund |-> op("REFUND", "p1", "k2", "e2", "e1", 1),
     reused |-> op("BET", "p1", "k1", "e3", NoExt, 2),
     other  |-> op("BET", "p2", "k1", "e1", NoExt, 3)]
MCRequests == DOMAIN MCRequest

MCWallet == [w1 |-> [player |-> "alice", currency |-> "BRL"]]

token(valid, roles, provider) == [valid |-> valid, roles |-> roles, provider |-> provider]
MCCredential ==
    [missing  |-> token(FALSE, {}, NoProvider),
     internal |-> token(TRUE, {"internal"}, NoProvider),
     p1       |-> token(TRUE, {"provider"}, "p1"),
     unnamed  |-> token(TRUE, {"provider"}, NoProvider)]
MCCredentials == DOMAIN MCCredential

wire(units, cents) == [canonical |-> TRUE, units |-> units, cents |-> cents]

(* Nothing, the largest amount, the next one, and a malformed one.         *)
Wires == {wire(0, 0), wire(2, 1), wire(2, 2), [canonical |-> FALSE, units |-> 0, cents |-> 1]}

(* Every route in good form, and what is refused for its credential or its *)
(* form, once; the operations of p1 at both doors, one of them with a      *)
(* blank correlation, that of p2 only looked up (it is recorded by other   *)
(* callers).                                                               *)
MCCalls ==
    [route : {"openWallet"}, by : {"internal"}, form : {"ok"}, wallet : Wallets, amount : Wires]
    \cup [route : {"openWallet"}, by : {"missing", "p1"}, form : {"ok"}, wallet : Wallets,
          amount : {wire(0, 0)}]
    \cup [route : {"getWallet", "reconcile"}, by : {"internal"}, form : {"ok"}, wallet : Wallets]
    \cup [route : {"getLedger"}, by : {"internal"}, form : {"ok"}, wallet : Wallets,
          page : {"first", "next"}, limit : {1}]
    \cup [route : {"submitTransaction"}, by : {"p1"}, form : {"ok"},
          op : {"bet", "refund", "reused"}]
    \cup [route : {"submitTransaction"}, by : {"p1"}, form : {"tooLarge", "unreadable", "invalid"},
          op : {"other"}]
    \cup [route : {"submitTransaction"}, by : {"unnamed"}, form : {"ok"}, op : {"bet"}]
    \cup [route : {"message"}, form : {"ok"}, op : {"bet", "reused"}, correlation : {"named"}]
    \cup [route : {"message"}, form : {"ok"}, op : {"bet"}, correlation : {"blank"}]
    \cup [route : {"message"}, form : {"invalid"}, op : {"bet"}, correlation : {"named"}]
    \cup [route : {"getTransaction"}, by : {"internal", "p1"}, form : {"ok"}, op : {"other"}]
    \cup [route : {"getTransaction"}, by : {"p1"}, form : {"ok"}, op : {"refund"}]
    \cup [route : {"getProviderTransaction"}, by : {"internal", "p1"}, form : {"ok"},
          provider : {"p2"}, ext : {"e1"}]
    \cup [route : {"getProviderTransaction"}, by : {"p1"}, form : {"ok"},
          provider : {"p1"}, ext : {"e1"}]

=============================================================================
