------------------------------ MODULE Entrance ------------------------------
(***************************************************************************)
(* The two doors of the service: the HTTP API with its middleware, its     *)
(* handlers and the read-only use cases behind them, and the listener of   *)
(* the queue.  Behind the doors is the book of WalletBook, which Settlement *)
(* implements and which other callers and the workers move at any moment.  *)
(*                                                                         *)
(* One caller is followed at a time, from its request to its answer; calls *)
(* meet only in the book.  A queue message is a call of its own.           *)
(***************************************************************************)
EXTENDS WalletBook, Money, Sequences, FiniteSetsExt, SequencesExt

CONSTANTS
    Credentials,   \* bearer tokens, and none
    Credential,    \* Credential[c]: what Verify makes of it
    NoProvider,    \* an empty provider_id claim
    Calls          \* what is sent to the doors

ASSUME EntranceAssumption ==
    /\ MaxInt = MaxBalance
    /\ \A c \in Credentials :
         Credential[c] \in [valid : BOOLEAN, roles : SUBSET {"internal", "provider"},
                            provider : {Request[r].provider : r \in Requests} \cup {NoProvider}]
    /\ OpeningBalances \subseteq 0..MaxInt
    /\ \A c \in Calls :
         /\ c.form \in {"ok", "tooLarge", "unreadable", "invalid"}
         /\ IF c.route = "message" THEN c.correlation \in {"named", "blank"}
            ELSE c.by \in Credentials
         /\ c.route \in {"submitTransaction", "message", "getTransaction"} => c.op \in Requests
         /\ c.route \in {"openWallet", "getWallet", "getLedger", "reconcile"} => c.wallet \in Wallets
         /\ c.route = "openWallet" =>
              c.amount \in [canonical : BOOLEAN, units : Nat, cents : 0..(Cents - 1)]
         /\ c.route = "getLedger" =>
              c.page \in {"first", "next"} /\ (c.form = "ok" => c.limit \in Nat \ {0})

VARIABLES
    call,   \* the call being served
    notes   \* what the caller keeps: an answer about an operation, or a listing

vars == <<account, book, outcome, undoes, call, notes>>

NoCall == [stage |-> "idle"]
NoNotes == [kind |-> "nothing"]
NoCursor == 0   \* no cursor: the first page, or no page left

Init == BookInit /\ call = NoCall /\ notes = NoNotes

-----------------------------------------------------------------------------
(* Middleware.                                                             *)

Internal(c) == "internal" \in Credential[c].roles
Provider(c) == "provider" \in Credential[c].roles /\ Credential[c].provider # NoProvider

(* The groups of NewRouter.                                                *)
Admitted(route, c) ==
    CASE route \in {"openWallet", "getWallet", "getLedger", "reconcile"} -> Internal(c)
      [] route = "submitTransaction" -> Provider(c)
      [] OTHER -> Provider(c) \/ Internal(c)

Limited(route) == route \in {"openWallet", "reconcile", "submitTransaction"}

(* Only the provider's own operations, unless the caller is internal.      *)
Own(c, provider) == Internal(c) \/ provider = Credential[c].provider

(* What is answered before any statement, in the order of the tests: the   *)
(* token, the role, the body (its size, then its form, its money           *)
(* included), whose operation it is, the fields.  "form" tells a body that *)
(* is too large and a body or path that cannot be read from one whose      *)
(* fields fail the validation.                                             *)
refusal(c) ==
    IF c.route = "message" THEN (IF c.form = "ok" THEN "none" ELSE "deadLetter")
    ELSE IF ~Credential[c.by].valid THEN "401"
    ELSE IF ~Admitted(c.route, c.by) THEN "403"
    ELSE IF c.form = "tooLarge" THEN "413"
    ELSE IF c.form = "unreadable" THEN "400"
    ELSE IF c.route = "openWallet" /\ ~parseMinorUnits(c.amount).ok THEN "400"
    ELSE IF /\ c.route = "submitTransaction"
            /\ Request[c.op].provider # Credential[c.by].provider THEN "403"
    ELSE IF c.route = "getProviderTransaction" /\ ~Own(c.by, c.provider) THEN "403"
    ELSE IF c.form = "invalid" THEN "400"
    ELSE "none"

-----------------------------------------------------------------------------
(* Calls.                                                                  *)

Serving(route) ==
    call.stage = "received" /\ call.request.route = route /\ refusal(call.request) = "none"

(* view: what the statements saw; body: what the answer says.              *)
Answer(status, view, body) ==
    call' = [stage |-> "answered", request |-> call.request,
             status |-> status, view |-> view, body |-> body]

Nothing == [nothing |-> TRUE]

(* A listing goes on from the cursor of its last page.                     *)
Send(c) ==
    /\ call = NoCall
    /\ c.route = "getLedger" /\ c.page = "next" =>
         notes.kind = "listing" /\ notes.wallet = c.wallet /\ notes.next # NoCursor
    /\ call' = [stage |-> "received", request |-> c]
    /\ UNCHANGED <<bookVars, notes>>

Refuse ==
    /\ call.stage = "received"
    /\ refusal(call.request) # "none"
    /\ Answer(refusal(call.request), Nothing, Nothing)
    /\ UNCHANGED <<bookVars, notes>>

(* limited, after the role and before the body.                            *)
Shed ==
    /\ call.stage = "received"
    /\ Limited(call.request.route)
    /\ refusal(call.request) # "401" /\ Admitted(call.request.route, call.request.by)
    /\ Answer("503", Nothing, Nothing)
    /\ UNCHANGED <<bookVars, notes>>

(* A statement, or the end of a read-only transaction, fails: nothing has  *)
(* been written.  503 for what fail knows as transient, 500 for the rest.  *)
Break ==
    /\ \/ call.stage = "reading"
       \/ /\ call.stage = "received" /\ refusal(call.request) = "none"
          /\ call.request.route \notin {"submitTransaction", "message"}
    /\ \E status \in {"503", "500"} : Answer(status, Nothing, Nothing)
    /\ UNCHANGED <<bookVars, notes>>

Take ==
    /\ call.stage = "answered"
    /\ call' = NoCall
    /\ UNCHANGED <<bookVars, notes>>

(* The caller may keep an answer about an operation.                       *)
Keep(r, status) ==
    notes' \in {notes, [kind |-> "answer", op |-> r, status |-> status]}

-----------------------------------------------------------------------------
(* Wallets.                                                                *)

Opened(w) == account[w].version > 0

(* One wallet per player and currency: the unique index refuses a second,  *)
(* and a read looks for the first to name it in the answer.                *)
OpenWallet ==
    LET w == call.request.wallet
        minor == parseMinorUnits(call.request.amount).minor
    IN  /\ Serving("openWallet")
        /\ \/ Open(w, minor) /\ Answer("201", Nothing, String(minor))
           \/ /\ Open(w, minor) \/ (~Opened(w) /\ UNCHANGED bookVars)
              /\ Answer("503", Nothing, Nothing)   \* nobody knows the commit
           \/ /\ Opened(w) /\ UNCHANGED bookVars
              /\ Answer("409", Nothing, Nothing) \/ Answer("500", Nothing, Nothing)
        /\ UNCHANGED notes

GetWallet ==
    LET w == call.request.wallet IN
    /\ Serving("getWallet")
    /\ IF Opened(w) THEN Answer("200", account[w], String(account[w].balance))
       ELSE Answer("404", Nothing, Nothing)
    /\ UNCHANGED <<bookVars, notes>>

(* UnitOfWork.Read is REPEATABLE READ: the first SELECT, Wallets().Find,   *)
(* takes the snapshot that the second one reads.                           *)
FindFirst ==
    LET w == call.request.wallet IN
    /\ Serving("getLedger") \/ Serving("reconcile")
    /\ IF Opened(w)
         THEN call' = [stage |-> "reading", request |-> call.request,
                       view |-> [account |-> account[w], entries |-> book[w]]]
         ELSE Answer("404", Nothing, Nothing)
    /\ UNCHANGED <<bookVars, notes>>

Reading(route) == call.stage = "reading" /\ call.request.route = route

(* Mutant of Snapshot: READ COMMITTED, every statement sees the present.   *)
Snapshot_Current == book[call.request.wallet]

Snapshot == call.view.entries

(* Totals: SUM and COUNT over the ledger of the wallet.                    *)
signed(e) == IF e.direction = "CREDIT" THEN e.amount ELSE 0 - e.amount

Totals(entries) ==
    [balance |-> SumFunction([e \in entries |-> signed(e)]), entries |-> Cardinality(entries)]

Reconcile ==
    LET totals == Totals(Snapshot)
        difference == subExact(call.view.account.balance, totals.balance)
    IN  /\ Reading("reconcile")
        /\ Answer("200", call.view, [consistent |-> difference = exactly(0),
                                     checked |-> totals.entries])
        /\ UNCHANGED <<bookVars, notes>>

(* ListAfterVersion: the entries beyond a version, ordered by version, as  *)
(* far as the limit.                                                       *)
ListAfterVersion(entries, after, limit) ==
    LET later == {e \in entries : e.version > after}
        place(e) == Cardinality({f \in later : f.version <= e.version})
    IN  [i \in 1..Min({limit, Cardinality(later)}) |-> CHOOSE e \in later : place(e) = i]

(* Mutant of LedgerPage: the cursor is the entry that did not fit.         *)
LedgerPage_NextEntry(entries, limit) ==
    IF Len(entries) > limit
      THEN [entries |-> SubSeq(entries, 1, limit), next |-> entries[limit + 1].version]
      ELSE [entries |-> entries, next |-> NoCursor]

LedgerPage(entries, limit) ==
    IF Len(entries) > limit
      THEN [entries |-> SubSeq(entries, 1, limit), next |-> entries[limit].version]
      ELSE [entries |-> entries, next |-> NoCursor]

GetLedger ==
    LET c == call.request
        first == c.page = "first"
        after == IF first THEN NoCursor ELSE notes.next
        page == LedgerPage(ListAfterVersion(Snapshot, after, c.limit + 1), c.limit)
    IN  /\ Reading("getLedger")
        /\ Answer("200", call.view, Nothing)
        /\ notes' = [kind |-> "listing", wallet |-> c.wallet, next |-> page.next,
                     entries |-> (IF first THEN << >> ELSE notes.entries) \o page.entries]
        /\ UNCHANGED bookVars

-----------------------------------------------------------------------------
(* Operations.                                                             *)

(* The errors of the domain that the listener knows (wagering.Err...).     *)
WageringErrors ==
    {"INVALID_KIND", "INVALID_AMOUNT", "INVALID_ORIGIN", "MISSING_FIELD", "MISSING_IDENTIFIER",
     "INVALID_PAYLOAD_HASH", "REFERENCE_REQUIRED", "REFERENCE_FORBIDDEN"}

(* What a statement or the commit may end in at any moment.                *)
Failures == {"COMMIT_OUTCOME_UNKNOWN", "LOCK_TIMEOUT", "TRANSIENT", "INTERNAL"}

Errors == WageringErrors \cup Failures \cup {"CONFLICT", "WALLET_NOT_FOUND", "PAYLOAD_MISMATCH"}

Taken(r) == \E o \in Requests : Recorded(o) /\ SameIdentity(r, o)

Settle(r) == Fresh(r) /\ (Park(r) \/ Lose(r) \/ Move(r) \/ Reject(r))

(* NewExternal repeats what the validation has checked at both doors, but  *)
(* for the correlation identifier: the one that comes with a message may   *)
(* be nothing but spaces, which CorrelationID accepts.  HTTP trims its     *)
(* header and makes up an identifier when nothing is left.                 *)
NewExternal(c) ==
    IF c.route = "message" /\ c.correlation = "blank" THEN "MISSING_FIELD" ELSE "none"

(* ProcessWagerTransaction.Execute: a status or an error, with what it did *)
(* to the book.  The inbox is in Settlement: here it may know a message    *)
(* whose operation is recorded, or the same identifier with another body.  *)
Execute(c, result) ==
    LET r == c.op IN
    \/ /\ c.route = "message"
       /\ result = "PAYLOAD_MISMATCH" \/ (Recorded(r) /\ result = outcome[r])
       /\ UNCHANGED bookVars
    \/ NewExternal(c) # "none" /\ result = NewExternal(c) /\ UNCHANGED bookVars
    \/ /\ NewExternal(c) = "none"
       /\ Settle(r)
       /\ result = outcome'[r] \/ result = "COMMIT_OUTCOME_UNKNOWN"
    \/ /\ NewExternal(c) = "none"
       /\ \/ Recorded(r) /\ result = outcome[r]
          \/ ~Recorded(r) /\ Taken(r) /\ result = "CONFLICT"
          \/ ~Taken(r) /\ ~Opened(Request[r].wallet) /\ result = "WALLET_NOT_FOUND"
       /\ UNCHANGED bookVars
    \/ result \in Failures /\ UNCHANGED bookVars

(* Mutant of statusOf: what is not processed is refused.                   *)
statusOf_TwoWays(status) == IF status = "PROCESSED" THEN "201" ELSE "422"

statusOf(status) ==
    CASE status = "PROCESSED" -> "201"
      [] status = "PENDING_REFERENCE" -> "202"
      [] OTHER -> "422"

(* failProcessing, failValidation and fail, which knows no error of the    *)
(* domain but the two that something does not exist.                       *)
failProcessing(err) ==
    CASE err = "CONFLICT" -> "409"
      [] err = "WALLET_NOT_FOUND" -> "404"
      [] err \in {"COMMIT_OUTCOME_UNKNOWN", "LOCK_TIMEOUT", "TRANSIENT"} -> "503"
      [] OTHER -> "500"

httpAnswer(result) == IF result \in Errors THEN failProcessing(result) ELSE statusOf(result)

(* Mutant of queueAnswer: a message whose wallet is missing comes again.   *)
queueAnswer_WalletMayCome(result) ==
    CASE result \notin Errors -> "deleted"
      [] result \in {"CONFLICT", "PAYLOAD_MISMATCH"} \cup WageringErrors -> "deadLetter"
      [] OTHER -> "stays"

(* Handle and rejectionReason: done, rejected, or not settled yet.         *)
queueAnswer(result) ==
    CASE result \notin Errors -> "deleted"
      [] result \in {"CONFLICT", "PAYLOAD_MISMATCH", "WALLET_NOT_FOUND"} \cup WageringErrors ->
           "deadLetter"
      [] OTHER -> "stays"

(* The answer remembers the result and whether this call recorded it.      *)
Recount(r, result) == [result |-> result, records |-> outcome'[r] # outcome[r]]

SubmitTransaction ==
    LET c == call.request IN
    /\ Serving("submitTransaction")
    /\ \E result \in Statuses \cup Errors :
         /\ Execute(c, result)
         /\ Answer(httpAnswer(result), Nothing, Recount(c.op, result))
         /\ Keep(c.op, httpAnswer(result))

HandleMessage ==
    LET c == call.request IN
    /\ Serving("message")
    /\ \E result \in Statuses \cup Errors :
         /\ Execute(c, result)
         /\ Answer(queueAnswer(result), Nothing, Recount(c.op, result))
         /\ Keep(c.op, queueAnswer(result))

(* Mutant of lookUp: an operation of somebody else is forbidden, not       *)
(* unknown.                                                                *)
lookUp_Forbidden(c, rows) ==
    LET found == IF c.route = "getTransaction" THEN {c.op} \cap rows
                 ELSE {r \in rows : Request[r].provider = c.provider /\ Request[r].ext = c.ext}
    IN  IF found = {} THEN "404"
        ELSE IF ~\E r \in found : Own(c.by, Request[r].provider) THEN "403"
        ELSE "200"

(* getTransaction and getProviderTransaction over the operations in rows.  *)
lookUp(c, rows) ==
    LET found == IF c.route = "getTransaction" THEN {c.op} \cap rows
                 ELSE {r \in rows : Request[r].provider = c.provider /\ Request[r].ext = c.ext}
    IN  IF \E r \in found : Own(c.by, Request[r].provider) THEN "200" ELSE "404"

GetTransaction ==
    LET rows == {r \in Requests : Recorded(r)}
        status == lookUp(call.request, rows)
    IN  /\ Serving("getTransaction") \/ Serving("getProviderTransaction")
        /\ Answer(status, [rows |-> rows], Nothing)
        /\ IF call.request.route = "getTransaction" /\ status = "200"
             THEN Keep(call.request.op, outcome[call.request.op])
             ELSE UNCHANGED notes
        /\ UNCHANGED bookVars

-----------------------------------------------------------------------------
Served ==
    \/ Refuse \/ Shed \/ Break \/ Take
    \/ OpenWallet \/ GetWallet \/ FindFirst \/ Reconcile \/ GetLedger
    \/ SubmitTransaction \/ HandleMessage \/ GetTransaction

(* Other callers and the workers.                                          *)
Elsewhere == BookNext /\ UNCHANGED <<call, notes>>

Next == (\E c \in Calls : Send(c)) \/ Served \/ Elsewhere

Spec == Init /\ [][Next]_vars

-----------------------------------------------------------------------------
TypeOK ==
    /\ \A w \in Wallets : account[w].balance \in 0..MaxBalance
    /\ \A w \in Wallets : \A e \in book[w] : e.amount \in 1..MaxBalance
    /\ call.stage \in {"idle", "received", "reading", "answered"}
    /\ call # NoCall => call.request \in Calls
    /\ notes.kind \in {"nothing", "answer", "listing"}

Answered(route) == call.stage = "answered" /\ call.request.route = route

(* A reconciliation never reports a divergence that is not there, although *)
(* it reads the wallet and its ledger in two statements while settlements  *)
(* commit in between, and it has checked every entry of the wallet it read.*)
ReconciliationConsistent ==
    Answered("reconcile") /\ call.status = "200" =>
        call.body.consistent /\ call.body.checked = Cardinality(call.view.entries)

(* A caller that follows the cursors gets every entry once and in order,   *)
(* however many are added while it reads: the pages together are the       *)
(* ledger up to the last entry, and without a next cursor they are all     *)
(* that the last page could see.                                           *)
PagesComplete ==
    notes.kind = "listing" =>
        LET pages == notes.entries IN
        /\ \A i \in 1..(Len(pages) - 1) : pages[i].version < pages[i + 1].version
        /\ pages # << >> =>
             ToSet(pages) = {e \in book[notes.wallet] : e.version <= Last(pages).version}
        /\ Answered("getLedger") /\ call.status = "200" /\ notes.next = NoCursor =>
             ToSet(pages) = call.view.entries

(* A provider learns nothing about the operations of other providers: a    *)
(* lookup is answered as if theirs were not there.                         *)
LookupsIsolated ==
    /\ Answered("getTransaction") \/ Answered("getProviderTransaction")
    /\ call.view # Nothing
    /\ ~Internal(call.request.by)
    => call.status = lookUp(call.request,
                            {r \in call.view.rows : Own(call.request.by, Request[r].provider)})

(* An answer keeps its word: an operation answered with 201 stays          *)
(* processed and one answered with 422 stays refused; 202 and a deleted    *)
(* message mean that the operation is recorded; 409 means that it never    *)
(* will be; and a lookup that shows a terminal status shows the last one.  *)
AnswersStand ==
    notes.kind = "answer" =>
        LET status == outcome[notes.op] IN
        /\ notes.status = "201" => status = "PROCESSED"
        /\ notes.status = "422" => status \in {"REJECTED", "FAILED"}
        /\ notes.status \in {"202", "deleted", "PENDING_REFERENCE"} => status # "ABSENT"
        /\ notes.status = "409" => status = "ABSENT"
        /\ Terminal(notes.status) => status = notes.status

(* What only a message can end in: another body came with its identifier,  *)
(* or it is not a valid command although its door let it pass.             *)
OnlyOnTheQueue == {"PAYLOAD_MISMATCH"} \cup WageringErrors

(* The queue does not follow rules of its own: a message stays in it       *)
(* exactly when the same result makes HTTP ask for a retry, goes to the    *)
(* dead letters exactly when HTTP answers with an error of the caller, and *)
(* is deleted exactly when HTTP answers with an outcome.  HTTP would call  *)
(* the results that only a message can end in an internal error; they are  *)
(* dead-lettered, and a field is only missing when the correlation is      *)
(* blank.  Neither door records an operation that it refuses.              *)
DoorsAgree ==
    LET c == call.request
        queue == queueAnswer(call.body.result)
        http == httpAnswer(call.body.result)
    IN  /\ Answered("submitTransaction") \/ Answered("message")
        /\ call.body # Nothing
        => /\ \/ /\ queue = "stays" /\ http \in {"500", "503"}
              \/ /\ queue = "deadLetter" /\ ~call.body.records
                 /\ \/ http \in {"404", "409"}
                    \/ c.route = "message" /\ call.body.result \in OnlyOnTheQueue
              \/ queue = "deleted" /\ http \in {"201", "202", "422"}
           /\ call.body.result \in WageringErrors =>
                call.body.result = "MISSING_FIELD" /\ c.correlation = "blank"

(* Amounts pass the door unchanged: an opening is acknowledged with the    *)
(* amount that was sent, a wallet shows exactly its balance, and an amount *)
(* in the canonical form is refused only if it does not fit.               *)
AmountsExact ==
    LET value(amount) == amount.units * Cents + amount.cents IN
    /\ Answered("openWallet") /\ call.status = "201" => call.body = call.request.amount
    /\ Answered("openWallet") /\ call.status = "400" /\ call.request.form = "ok" =>
         ~call.request.amount.canonical \/ value(call.request.amount) > MaxInt
    /\ Answered("getWallet") /\ call.status = "200" =>
         call.body.canonical /\ value(call.body) = call.view.balance

=============================================================================
