---------------------------- MODULE TransferForm ----------------------------
(***************************************************************************)
(* The transfer form of the web dashboard: one browser, its session        *)
(* cookie, the backend-for-frontend (BFF) that proxies its calls, and the  *)
(* API behind it.  A call may be lost on either hop after it has been      *)
(* passed on, so the form may learn nothing of a transfer that happened,   *)
(* or is about to, or the status of its answer and not the body.  The API  *)
(* itself is reduced to what Ledger shows of it: a transfer happens at one *)
(* instant, at most once under a key.                                      *)
(***************************************************************************)
EXTENDS Integers, Sequences, SequencesExt

CONSTANTS
  Accounts,    \* the accounts a user may see
  CurrencyOf,  \* the currency of each
  Lists,       \* the lists of accounts the API may return
  Decimals,    \* the decimals that a user may type
  Texts,       \* those of them that are typed into the amount field
  Keys,        \* what the key field may hold
  Calls,       \* the calls the browser may make
  None         \* an empty field, or one that holds no decimal

INSTANCE Money WITH NoAmount <- None

ASSUME FormAssumption ==
  /\ Lists \subseteq Seq(Accounts) \ {<<>>}
  /\ Lists # {}
  /\ Decimals \subseteq [whole : Seq(0..9) \ {<<>>}, fraction : Seq(0..9)]
  /\ Texts \subseteq Decimals
  /\ None \notin Seq(0..9)
  /\ \A field \in {Accounts, Texts, Keys, Calls} : None \notin field

VARIABLES
  page,      \* what the browser shows; "broken" is the framework's error page
  cookie,    \* is there a session cookie?
  accounts,  \* the list the form was rendered with
  fields,    \* the form's fields
  state,     \* the form's State: its kind, and the receipt of a success
  mounted,   \* the calls submitted by the form on the screen
  calls,     \* each call on its way
  inbox,     \* the calls the API has received and not yet served
  moved,     \* the transfers that happened
  asked      \* did the user, since the last submission, type an amount, see a
             \* failure, or open the form anew?

form == <<accounts, fields, state, mounted, asked>>
vars == <<page, cookie, form, calls, inbox, moved>>

Unused == [at |-> "unused", body |-> None, key |-> None, session |-> FALSE,
           reply |-> "none", receipt |-> None, pending |-> FALSE]

Options(list, from) ==
  {a \in ToSet(list) : a # from /\ CurrencyOf[a] = CurrencyOf[from]}

\* The option that comes first in the list.
FirstOption(list, from) ==
  LET places == {i \in DOMAIN list : list[i] \in Options(list, from)}
  IN  IF places = {} THEN None
      ELSE list[CHOOSE i \in places : \A j \in places : i <= j]

EmptyFields(list) ==
  [from |-> Head(list), to |-> FirstOption(list, Head(list)),
   amount |-> None, key |-> None]

NoFields == [from |-> None, to |-> None, amount |-> None, key |-> None]

Idle == [kind |-> "idle", receipt |-> None]

Init ==
  /\ page = "dashboard"
  /\ cookie = TRUE
  /\ accounts = <<>>
  /\ fields = NoFields
  /\ state = Idle
  /\ mounted = {}
  /\ calls = [c \in Calls |-> Unused]
  /\ inbox = {}
  /\ moved = {}
  /\ asked = TRUE

-----------------------------------------------------------------------------
(* The fields                                                               *)

\* Faulty variant: the destination that was chosen once.
StaleTo == fields.to

\* A destination that is no option any more is shown, and sent, as the first.
EffectiveTo ==
  IF fields.to \in Options(accounts, fields.from) THEN fields.to
  ELSE FirstOption(accounts, fields.from)

\* What the typed amount is in the currency of the account selected now.
MinorUnits ==
  IF fields.amount = None THEN None
  ELSE toMinorUnits(fields.amount, CurrencyOf[fields.from])

CanSubmit ==
  /\ EffectiveTo # None
  /\ MinorUnits \notin {None, <<0>>}
  /\ state.kind # "saving"

Edit(field, value) ==
  /\ page = "form"
  /\ fields' = [fields EXCEPT ![field] = value]
  /\ asked' = (asked \/ (field = "amount" /\ value # None))
  /\ UNCHANGED <<page, cookie, accounts, state, mounted, calls, inbox, moved>>

Type ==
  \/ \E a \in ToSet(accounts) : Edit("from", a)
  \/ \E a \in Options(accounts, fields.from) : Edit("to", a)
  \/ \E x \in Texts \cup {None} : Edit("amount", x)
  \/ \E k \in Keys \cup {None} : Edit("key", k)

\* submit() up to its await: the call carries what the form shows.
Submit(c) ==
  /\ page = "form"
  /\ CanSubmit
  /\ calls[c].at = "unused"
  /\ calls' = [calls EXCEPT ![c] =
       [at |-> "sent", key |-> fields.key, session |-> cookie,
        body |-> [from |-> fields.from, to |-> EffectiveTo,
                  amount |-> MinorUnits],
        reply |-> "none", receipt |-> None, pending |-> TRUE]]
  /\ state' = [Idle EXCEPT !.kind = "saving"]
  /\ mounted' = mounted \cup {c}
  /\ asked' = FALSE
  /\ UNCHANGED <<page, cookie, accounts, fields, inbox, moved>>

-----------------------------------------------------------------------------
(* The BFF and the API                                                      *)

Reply(c, reply, receipt) ==
  [calls EXCEPT ![c].at = "replied", ![c].reply = reply, ![c].receipt = receipt]

\* Faulty variant: the header is not forwarded.
NoKeyForwarded(c) == None

\* The header is forwarded if there is one.
ForwardedKey(c) == calls[c].key

\* Without a session the BFF answers 401 itself; with one it calls the API.
Proxy(c) ==
  /\ calls[c].at = "sent"
  /\ IF calls[c].session
     THEN /\ calls' = [calls EXCEPT ![c].at = "proxied"]
          /\ inbox' = inbox \cup {c}
     ELSE /\ calls' = Reply(c, "unauthorized", None)
          /\ UNCHANGED inbox
  /\ UNCHANGED <<page, cookie, form, moved>>

\* Faulty variant: a failed call counts as a missing session.
CaughtAsUnauthorized == "unauthorized"

\* What the BFF answers when its call throws.
CaughtReply == "unavailable"

\* The BFF's call throws; the API may have served it, or may yet.
Catch(c) ==
  /\ calls[c].at = "proxied"
  /\ calls' = Reply(c, CaughtReply, None)
  /\ UNCHANGED <<page, cookie, form, inbox, moved>>

\* The API's answer, if the BFF still waits for it.
Answer(c, reply, receipt) ==
  /\ c \in inbox
  /\ inbox' = inbox \ {c}
  /\ IF calls[c].at = "proxied" THEN calls' = Reply(c, reply, receipt)
                                ELSE UNCHANGED calls
  /\ UNCHANGED <<page, cookie, form>>

Spent(c) == {m \in moved : ForwardedKey(c) # None /\ m.key = ForwardedKey(c)}

\* The call is turned away by the guards, refused by the ledger, or fails.
Decline(c) ==
  /\ \E reply \in {"unauthorized", "unavailable", "refused", "failed"} :
       Answer(c, reply, None)
  /\ UNCHANGED moved

\* The money moves, even if the answer says that the request failed.
Move(c) ==
  /\ Spent(c) = {}
  /\ LET m == [id |-> c, body |-> calls[c].body, key |-> ForwardedKey(c)]
     IN  /\ moved' = moved \cup {m}
         /\ Answer(c, "created", m) \/ Answer(c, "failed", None)

\* A key that was used before: its receipt again, or a conflict.
Replay(c) ==
  /\ \E m \in Spent(c) :
       IF m.body = calls[c].body THEN Answer(c, "created", m)
                                 ELSE Answer(c, "refused", None)
  /\ UNCHANGED moved

-----------------------------------------------------------------------------
(* The answer                                                               *)

\* Faulty variant: any answer with a body counts as a success.
InterpretLoosely(reply) ==
  IF reply \in {"unauthorized", "unavailable"} THEN reply ELSE "ok"

\* interpret(): the four kinds of ApiResult, by the status alone.
Interpret(reply) ==
  IF reply = "unauthorized" THEN "unauthorized"
  ELSE IF reply = "unavailable" THEN "unavailable"
  ELSE IF reply \in {"refused", "failed"} THEN "error"
  ELSE "ok"

\* Leaving the form takes its state with it.
Navigate(target) ==
  /\ page' = target
  /\ accounts' = <<>>
  /\ fields' = NoFields
  /\ state' = Idle
  /\ mounted' = {}
  /\ asked' = TRUE

\* The login page sends a browser with a cookie on to the dashboard.
LoginPage == IF cookie THEN "dashboard" ELSE "login"

\* Faulty variant: whatever comes back is shown as a success.
ShownAsPosted(result, receipt) == [kind |-> "ok", receipt |-> receipt]

\* Faulty variant: a failure leaves the form in "Sending".
ShownIfOk(result, receipt) ==
  IF result = "ok" THEN [kind |-> "ok", receipt |-> receipt]
  ELSE [kind |-> "saving", receipt |-> None]

Shown(result, receipt) ==
  IF result = "ok" THEN [kind |-> "ok", receipt |-> receipt]
  ELSE [kind |-> "error", receipt |-> None]

\* Faulty variant: the amount stays after a success.
AmountKept(result) == fields.amount

AmountAfter(result) == IF result = "ok" THEN None ELSE fields.amount

\* What submit() leaves on the screen.
Show(result, receipt) ==
  /\ state' = Shown(result, receipt)
  /\ fields' = [fields EXCEPT !.amount = AmountAfter(result)]
  /\ asked' = (asked \/ result # "ok")
  /\ UNCHANGED <<page, accounts, mounted>>

\* A success without a receipt: the card cannot be rendered, no error boundary
\* of the application catches it, and the form is gone.
Unshowable(result, receipt) == result = "ok" /\ receipt = None

\* submit() after its await.  A form that is gone shows nothing, but a 401
\* still navigates, unless the error page has no router any more.
Resume(c, result, receipt) ==
  /\ calls[c].pending
  /\ calls' = [calls EXCEPT ![c].pending = FALSE]
  /\ \/ result = "unauthorized" /\ Navigate(LoginPage)
     \/ /\ result # "unauthorized" /\ c \in mounted
        /\ IF Unshowable(result, receipt) THEN Navigate("broken")
                                         ELSE Show(result, receipt)
     \/ /\ c \notin mounted /\ (result = "unauthorized" => page = "broken")
        /\ UNCHANGED <<page, form>>
  /\ UNCHANGED <<cookie, inbox, moved>>

\* The status of the answer arrives, its body perhaps not: interpret() then goes
\* on with null for it.
Hear(c) ==
  /\ calls[c].at = "replied"
  /\ \E body \in {calls[c].receipt, None} :
       Resume(c, Interpret(calls[c].reply), body)

\* The browser's fetch throws, wherever the call is.
Lose(c) == Resume(c, "unavailable", None)

-----------------------------------------------------------------------------
(* Pages and the session                                                    *)

\* The transfer page: the API's list of accounts, and a form without a past.
OpenForm(list) ==
  /\ page = "dashboard"
  /\ cookie
  /\ page' = "form"
  /\ accounts' = list
  /\ fields' = EmptyFields(list)
  /\ UNCHANGED <<cookie, state, mounted, asked, calls, inbox, moved>>

\* router.refresh(): the fields stay, the list may be another one.
Refresh(list) ==
  /\ page = "form"
  /\ cookie
  /\ ToSet(accounts) \subseteq ToSet(list)
  /\ accounts' = list
  /\ UNCHANGED <<page, cookie, fields, state, mounted, asked, calls, inbox, moved>>

\* Another page, or a list that cannot be read when the page is rendered anew.
Leave ==
  /\ page = "form"
  /\ Navigate("dashboard")
  /\ UNCHANGED <<cookie, calls, inbox, moved>>

\* The error page is left by loading a page anew, where no submit() goes on.
Reload ==
  /\ page = "broken"
  /\ calls' = [c \in Calls |-> [calls[c] EXCEPT !.pending = FALSE]]
  /\ Navigate("dashboard")
  /\ UNCHANGED <<cookie, inbox, moved>>

\* A page that is rendered anew without a cookie.
Redirect ==
  /\ page \in {"form", "dashboard"}
  /\ ~cookie
  /\ Navigate("login")
  /\ UNCHANGED <<cookie, calls, inbox, moved>>

\* The logout route, if the call reaches it, clears the cookie.
EndSession(reached) == cookie' = (cookie /\ ~reached)

\* handleLogout: the login page is asked for even if the call is lost.
Logout ==
  /\ page \in {"form", "dashboard"}
  /\ \E reached \in BOOLEAN :
       /\ EndSession(reached)
       /\ IF reached THEN Navigate("login") ELSE Navigate(LoginPage)
  /\ UNCHANGED <<calls, inbox, moved>>

\* The login route sets the cookie if AccessCore accepts the credentials.
StartSession(accepted) == cookie' = (cookie \/ accepted)

\* The login card: the dashboard follows the answer to an accepted login; one
\* that is refused, fails or is not heard leaves the card, with an error.
Login ==
  /\ page = "login"
  /\ \E accepted, heard \in BOOLEAN :
       /\ StartSession(accepted)
       /\ page' = IF accepted /\ heard THEN "dashboard" ELSE "login"
  /\ UNCHANGED <<form, calls, inbox, moved>>

\* The login page is asked for again, with the cookie of a login whose answer
\* was not heard.
Revisit ==
  /\ page = "login"
  /\ page' = LoginPage
  /\ UNCHANGED <<cookie, form, calls, inbox, moved>>

\* The cookie's age is limited.
Expire ==
  /\ cookie
  /\ cookie' = FALSE
  /\ UNCHANGED <<page, form, calls, inbox, moved>>

Carry(c) == Proxy(c) \/ Catch(c) \/ Decline(c) \/ Move(c) \/ Replay(c)

Settle(c) == Hear(c) \/ Lose(c)

Next ==
  \/ \E c \in Calls : Submit(c) \/ Carry(c) \/ Settle(c)
  \/ \E list \in Lists : OpenForm(list) \/ Refresh(list)
  \/ Type \/ Leave \/ Reload \/ Redirect \/ Logout \/ Login \/ Revisit \/ Expire

Spec == Init /\ [][Next]_vars

-----------------------------------------------------------------------------
(* What the user may rely on                                                *)

\* The receipt card prints a field the API's receipt may or may not have.
FieldOf(receipt, name) ==
  IF name \in DOMAIN receipt THEN receipt[name] ELSE None

ShownId == FieldOf(state.receipt, "transactionId")

\* The card formats amounts in the currency of the account selected now.
ShownAmount == formatMoney(state.receipt.body.amount, CurrencyOf[fields.from])

\* What the form may send.
Bodies ==
  {b \in [from : Accounts, to : Accounts, amount : Seq(0..9)] :
     b.from # b.to /\ CurrencyOf[b.from] = CurrencyOf[b.to]}

Movements == [id : Calls, body : Bodies, key : Keys \cup {None}]

\* What the browser, the BFF and the API remember; no call is from an account
\* to itself or across currencies, whatever was selected before or refreshed.
TypeOK ==
  /\ page \in {"login", "dashboard", "form", "broken"}
  /\ cookie \in BOOLEAN
  /\ IF page = "form" THEN accounts \in Lists /\ fields.from \in Accounts
                      ELSE accounts = <<>> /\ fields = NoFields /\ state = Idle
  /\ fields \in [from : Accounts \cup {None}, to : Accounts \cup {None},
                 amount : Texts \cup {None}, key : Keys \cup {None}]
  /\ state \in [kind : {"idle", "saving", "ok", "error"},
                receipt : Movements \cup {None}]
  /\ state.kind = "ok" => state.receipt \in Movements
  /\ mounted \subseteq Calls
  /\ inbox \subseteq Calls
  /\ moved \subseteq Movements
  /\ asked \in BOOLEAN
  /\ \A c \in Calls : calls[c].at = "unused" \/ calls[c].body \in Bodies

\* Reusing a key is safe whatever was lost, abandoned or answered late: money
\* moves once under a key that the user typed (hint of the key field).
KeySpendsOnce ==
  \A m1, m2 \in moved :
    LET typed(m) == calls[m.id].key
    IN  typed(m1) # None /\ typed(m1) = typed(m2) => m1 = m2

\* The transfer m is what call c asked for: its own, or the one of its key.
Made(c, m) ==
  /\ m.body = calls[c].body
  /\ m.id = c \/ (m.key # None /\ m.key = calls[c].key)

\* A success on the screen is a transfer that happened, and it is what the
\* form sent, not what its fields have become.
PostedIsTrue ==
  state.kind = "ok" =>
    /\ state.receipt \in moved
    /\ \E c \in mounted : ~calls[c].pending /\ Made(c, state.receipt)

\* The form breaks over no refusal and no failure: what it waited for when it
\* broke has happened, though the screen says nothing of it (interpret() without
\* a body, and the receipt card).
BreaksOnlyPosted ==
  [][page' = "broken" /\ page # "broken" =>
       \E c \in mounted, m \in moved :
         calls[c].pending /\ ~calls'[c].pending /\ Made(c, m)]_vars

\* Whoever is told of a refusal, or sent to the login page, by an answer to a
\* call will not find later that the call moved money.
ToldNothingMoved ==
  \A m \in moved : calls[m.id].at = "replied" =>
    calls[m.id].reply \notin {"unauthorized", "refused"}

\* No second payment without being asked: a submission follows a new amount, a
\* failure on the screen, or a newly opened form, never a double click or a
\* success that left the form ready to be sent again.
NothingTwiceUnasked == [][(\E c \in Calls : Submit(c)) => asked]_vars

ExactIn ==
  [currency \in {CurrencyOf[a] : a \in Accounts} |-> Exact(Decimals, currency)]

\* Whatever account the form shows, and whatever may be typed for it: the number
\* that is sent is the one that was typed, and is shown as such (toMinorUnits,
\* formatMoney).
AmountsExact == fields.from # None => ExactIn[CurrencyOf[fields.from]]

\* A form that shows "Sending", and so cannot be used, waits for a call that it
\* made itself and that will come to an end.
SendingWaits ==
  state.kind = "saving" => \E c \in mounted : calls[c].pending

\* The receipt card names the transfer it is about.
ReceiptNamesTransfer ==
  state.kind = "ok" => \E m \in moved : m.id = ShownId

\* The receipt card shows both legs as amounts of their currency.
ReceiptInItsCurrency ==
  state.kind = "ok" =>
    LET sent == state.receipt.body
    IN  ShownAmount = formatMoney(sent.amount, CurrencyOf[sent.from])
=============================================================================
