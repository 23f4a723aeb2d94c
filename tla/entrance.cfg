SPECIFICATION Spec
CONSTANTS
    Requests <- MCRequests
    Request <- MCRequest
    Wallets = {"w1"}
    Wallet <- MCWallet
    Exts = {"e1", "e2", "e3"}
    NoExt = "no ext"
    NoTx = "no tx"
    NoProvider = "no provider"
    MaxBalance = 7
    MaxInt = 7
    Cents = 3
    MaxUnits = 3
    OpeningBalances = {7}
    Credentials <- MCCredentials
    Credential <- MCCredential
    Calls <- MCCalls
INVARIANTS
    ReconciliationConsistent
    PagesComplete
    LookupsIsolated
    AnswersStand
    DoorsAgree
    AmountsExact
