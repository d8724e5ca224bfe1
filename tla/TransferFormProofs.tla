------------------------- MODULE TransferFormProofs -------------------------
(***************************************************************************)
(* Proofs about TransferForm, for any accounts, keys and number of calls:  *)
(* money moves once under a key that the user typed, what the screen says  *)
(* of a transfer is true, a form that shows it is sending waits for a call *)
(* of its own, and nothing is sent a second time that nobody asked for.    *)
(* Amounts, of however many digits, are sent and shown as what they are.   *)
(*                                                                         *)
(* An answer may find the form left, or opened anew. The invariants        *)
(* therefore say of each call whether the form on the screen has made it,  *)
(* and of the form which of its calls it waits for.                        *)
(***************************************************************************)
EXTENDS TransferForm, SumTheorems, SequenceTheorems, TLAPS

\* Each call is a record with these fields.
CallsAreRecords ==
  /\ calls = [c \in Calls |-> calls[c]]
  /\ \A c \in Calls :
       calls[c] = [at |-> calls[c].at, body |-> calls[c].body,
                   key |-> calls[c].key, session |-> calls[c].session,
                   reply |-> calls[c].reply, receipt |-> calls[c].receipt,
                   pending |-> calls[c].pending]

\* The API has a call that was passed on; the BFF waits for it or has given up.
InboxPassedOn ==
  \A c \in inbox :
    /\ c \in Calls
    /\ \/ calls[c].at = "proxied"
       \/ calls[c].at = "replied" /\ calls[c].reply = "unavailable"

\* A transfer is that of a call which the API is done with, under its key, and
\* the answer, if any is left to give, does not deny it.
MovedAnswered ==
  \A m \in moved :
    /\ m.id \in Calls \ inbox
    /\ m.key = calls[m.id].key
    /\ calls[m.id].at = "replied"
    /\ calls[m.id].reply \in {"created", "failed", "unavailable"}

\* A key that is one moved money once.
KeysSpentOnce ==
  \A m1, m2 \in moved : m1.key # None /\ m1.key = m2.key => m1 = m2

FormInv ==
  /\ CallsAreRecords
  /\ InboxPassedOn
  /\ MovedAnswered
  /\ KeysSpentOnce

-----------------------------------------------------------------------------

\* The pages, the fields and the session do not matter here.
LEMMA Unchanged ==
  ASSUME FormInv, UNCHANGED <<calls, inbox, moved>>
  PROVE  FormInv'
BY DEF FormInv, CallsAreRecords, InboxPassedOn, MovedAnswered, KeysSpentOnce

LEMMA InitEstablishes ==
  ASSUME Init
  PROVE  FormInv
BY DEF Init, Unused, FormInv, CallsAreRecords, InboxPassedOn, MovedAnswered,
       KeysSpentOnce

\* A call that is used for the first time: nobody knew of it.
LEMMA SubmitKeeps ==
  ASSUME FormInv, NEW c \in Calls, Submit(c)
  PROVE  FormInv'
<1>. DEFINE body == [from |-> fields.from, to |-> EffectiveTo,
                     amount |-> MinorUnits]
            call == [at |-> "sent", body |-> body, key |-> fields.key,
                     session |-> cookie, reply |-> "none", receipt |-> None,
                     pending |-> TRUE]
<1>1. /\ calls[c].at = "unused"
      /\ UNCHANGED <<inbox, moved>>
      /\ calls' = [calls EXCEPT ![c] = call]
  BY DEF Submit
<1>2. CallsAreRecords'
  BY <1>1 DEF FormInv, CallsAreRecords
<1>3. c \notin inbox /\ \A m \in moved : m.id # c
  BY <1>1 DEF FormInv, InboxPassedOn, MovedAnswered
<1>4. \A d \in Calls \ {c} : calls'[d] = calls[d]
  BY <1>1 DEF FormInv, CallsAreRecords
<1>5. InboxPassedOn' /\ MovedAnswered' /\ KeysSpentOnce'
  BY <1>1, <1>3, <1>4 DEF FormInv, InboxPassedOn, MovedAnswered, KeysSpentOnce
<1>. QED
  BY <1>2, <1>5 DEF FormInv

\* The BFF passes a call on, or turns it away; the API never had it before.
LEMMA ProxyKeeps ==
  ASSUME FormInv, NEW c \in Calls, Proxy(c)
  PROVE  FormInv'
<1>1. /\ calls[c].at = "sent"
      /\ UNCHANGED moved
      /\ \/ /\ calls' = [calls EXCEPT ![c].at = "proxied"]
            /\ inbox' = inbox \cup {c}
         \/ /\ calls' = Reply(c, "unauthorized", None)
            /\ UNCHANGED inbox
  BY DEF Proxy
<1>2. CallsAreRecords'
  BY <1>1 DEF FormInv, CallsAreRecords, Reply
<1>3. c \notin inbox /\ \A m \in moved : m.id # c
  BY <1>1 DEF FormInv, InboxPassedOn, MovedAnswered
<1>4. \A d \in Calls \ {c} : calls'[d] = calls[d]
  BY <1>1 DEF FormInv, CallsAreRecords, Reply
<1>5. c \in inbox' => calls'[c].at = "proxied"
  BY <1>1, <1>3 DEF FormInv, CallsAreRecords
<1>6. InboxPassedOn'
  BY <1>1, <1>4, <1>5 DEF FormInv, InboxPassedOn
<1>7. MovedAnswered' /\ KeysSpentOnce'
  BY <1>1, <1>3, <1>4 DEF FormInv, MovedAnswered, KeysSpentOnce
<1>. QED
  BY <1>2, <1>6, <1>7 DEF FormInv

\* The BFF gives a call up: no transfer is of a call it still waits for.
LEMMA CatchKeeps ==
  ASSUME FormInv, NEW c \in Calls, Catch(c)
  PROVE  FormInv'
<1>1. /\ calls[c].at = "proxied"
      /\ UNCHANGED <<inbox, moved>>
      /\ calls' = Reply(c, "unavailable", None)
  BY DEF Catch, CaughtReply
<1>2. CallsAreRecords'
  BY <1>1 DEF FormInv, CallsAreRecords, Reply
<1>3. \A m \in moved : m.id # c
  BY <1>1 DEF FormInv, MovedAnswered
<1>4. \A d \in Calls \ {c} : calls'[d] = calls[d]
  BY <1>1 DEF FormInv, CallsAreRecords, Reply
<1>5. calls'[c].at = "replied" /\ calls'[c].reply = "unavailable"
  BY <1>1 DEF FormInv, CallsAreRecords, Reply
<1>6. InboxPassedOn' /\ MovedAnswered' /\ KeysSpentOnce'
  BY <1>1, <1>3, <1>4, <1>5
  DEF FormInv, InboxPassedOn, MovedAnswered, KeysSpentOnce
<1>. QED
  BY <1>2, <1>6 DEF FormInv

\* What an answer of the API does to the calls, whatever it says.
LEMMA Answered ==
  ASSUME FormInv, NEW c \in Calls, NEW reply, NEW receipt,
         Answer(c, reply, receipt)
  PROVE  /\ CallsAreRecords' /\ InboxPassedOn'
         /\ c \in inbox /\ inbox' = inbox \ {c}
         /\ \A d \in Calls \ {c} : calls'[d] = calls[d]
         /\ calls'[c].at = "replied"
         /\ calls'[c].key = calls[c].key
         /\ calls'[c].reply \in {reply, "unavailable"}
<1>1. /\ c \in inbox
      /\ inbox' = inbox \ {c}
      /\ \/ calls[c].at = "proxied" /\ calls' = Reply(c, reply, receipt)
         \/ calls[c].at # "proxied" /\ calls' = calls
  BY DEF Answer
<1>2. CallsAreRecords'
  BY <1>1 DEF FormInv, CallsAreRecords, Reply
<1>3. \A d \in Calls \ {c} : calls'[d] = calls[d]
  BY <1>1 DEF FormInv, CallsAreRecords, Reply
<1>4. InboxPassedOn'
  BY <1>1, <1>3 DEF FormInv, InboxPassedOn
<1>5. /\ calls'[c].at = "replied"
      /\ calls'[c].key = calls[c].key
      /\ calls'[c].reply \in {reply, "unavailable"}
  <2>1. CASE calls[c].at = "proxied"
    <3>1. calls'[c] = [calls[c] EXCEPT !.at = "replied", !.reply = reply,
                                       !.receipt = receipt]
      BY <1>1, <2>1 DEF FormInv, CallsAreRecords, Reply
    <3>2. DOMAIN calls[c] = {"at", "body", "key", "session", "reply", "receipt",
                             "pending"}
      BY DEF FormInv, CallsAreRecords
    <3>. QED
      BY <3>1, <3>2
  <2>2. CASE calls[c].at # "proxied"
    BY <1>1, <2>2 DEF FormInv, InboxPassedOn
  <2>. QED
    BY <2>1, <2>2
<1>. QED
  BY <1>1, <1>2, <1>3, <1>4, <1>5

\* An answer without a transfer.
LEMMA AnswerKeeps ==
  ASSUME FormInv, NEW c \in Calls, NEW reply, NEW receipt,
         Answer(c, reply, receipt), UNCHANGED moved
  PROVE  FormInv'
<1>1. \A m \in moved : m.id # c
  BY Answered DEF FormInv, MovedAnswered
<1>2. MovedAnswered' /\ KeysSpentOnce'
  BY <1>1, Answered DEF FormInv, MovedAnswered, KeysSpentOnce
<1>. QED
  BY <1>2, Answered DEF FormInv

\* The money moves: the key, if there is one, has not been used.
LEMMA MoveKeeps ==
  ASSUME FormInv, NEW c \in Calls, Move(c)
  PROVE  FormInv'
<1>. DEFINE m == [id |-> c, body |-> calls[c].body, key |-> calls[c].key]
<1>1. /\ Spent(c) = {}
      /\ moved' = moved \cup {m}
      /\ Answer(c, "created", m) \/ Answer(c, "failed", None)
  BY DEF Move, ForwardedKey
<1>2. /\ CallsAreRecords' /\ InboxPassedOn'
      /\ c \in inbox /\ inbox' = inbox \ {c}
      /\ \A d \in Calls \ {c} : calls'[d] = calls[d]
      /\ calls'[c].at = "replied"
      /\ calls'[c].key = calls[c].key
      /\ calls'[c].reply \in {"created", "failed", "unavailable"}
  <2>1. CASE Answer(c, "created", m)
    BY <2>1, Answered
  <2>2. CASE Answer(c, "failed", None)
    BY <2>2, Answered
  <2>. QED
    BY <1>1, <2>1, <2>2
<1>3. \A n \in moved : n.id # c
  BY <1>2 DEF FormInv, MovedAnswered
<1>4. MovedAnswered'
  BY <1>1, <1>2, <1>3 DEF FormInv, MovedAnswered
<1>5. \A n \in moved : m.key # None => n.key # m.key
  BY <1>1 DEF Spent, ForwardedKey
<1>6. KeysSpentOnce'
  BY <1>1, <1>5 DEF FormInv, KeysSpentOnce
<1>. QED
  BY <1>2, <1>4, <1>6 DEF FormInv

\* The browser stops waiting for a call.
LEMMA ResumeKeeps ==
  ASSUME FormInv, NEW c \in Calls, NEW result, NEW receipt,
         Resume(c, result, receipt)
  PROVE  FormInv'
<1>1. /\ calls' = [calls EXCEPT ![c].pending = FALSE]
      /\ UNCHANGED <<inbox, moved>>
  BY DEF Resume
<1>2. CallsAreRecords'
  BY <1>1 DEF FormInv, CallsAreRecords
<1>3. \A d \in Calls : /\ calls'[d].at = calls[d].at
                       /\ calls'[d].key = calls[d].key
                       /\ calls'[d].reply = calls[d].reply
  BY <1>1 DEF FormInv, CallsAreRecords
<1>4. InboxPassedOn' /\ MovedAnswered' /\ KeysSpentOnce'
  BY <1>1, <1>3 DEF FormInv, InboxPassedOn, MovedAnswered, KeysSpentOnce
<1>. QED
  BY <1>2, <1>4 DEF FormInv

\* A page that is loaded anew waits for no call; the calls go their way.
LEMMA ReloadCalls ==
  ASSUME FormInv, Reload
  PROVE  /\ CallsAreRecords'
         /\ UNCHANGED <<cookie, inbox, moved>>
         /\ \A d \in Calls : /\ calls'[d].at = calls[d].at
                             /\ calls'[d].body = calls[d].body
                             /\ calls'[d].key = calls[d].key
                             /\ calls'[d].reply = calls[d].reply
                             /\ calls'[d].receipt = calls[d].receipt
<1>1. /\ calls' = [c \in Calls |-> [calls[c] EXCEPT !.pending = FALSE]]
      /\ UNCHANGED <<cookie, inbox, moved>>
  BY DEF Reload
<1>2. ASSUME NEW d \in Calls
      PROVE  calls'[d] = [at |-> calls[d].at, body |-> calls[d].body,
                          key |-> calls[d].key, session |-> calls[d].session,
                          reply |-> calls[d].reply, receipt |-> calls[d].receipt,
                          pending |-> FALSE]
  <2>1. calls'[d] = [calls[d] EXCEPT !.pending = FALSE]
    BY <1>1, Zenon
  <2>2. calls[d] = [at |-> calls[d].at, body |-> calls[d].body,
                    key |-> calls[d].key, session |-> calls[d].session,
                    reply |-> calls[d].reply, receipt |-> calls[d].receipt,
                    pending |-> calls[d].pending]
    BY DEF FormInv, CallsAreRecords
  <2> QED
    BY <2>1, <2>2
<1>3. calls' = [c \in Calls |-> calls'[c]]
  <2> DEFINE after(c) == [calls[c] EXCEPT !.pending = FALSE]
  <2>1. calls' = [c \in Calls |-> after(c)]
    BY <1>1
  <2> HIDE DEF after
  <2> QED
    BY <2>1
<1>4. ASSUME NEW d \in Calls
      PROVE  /\ calls'[d].at = calls[d].at
             /\ calls'[d].body = calls[d].body
             /\ calls'[d].key = calls[d].key
             /\ calls'[d].session = calls[d].session
             /\ calls'[d].reply = calls[d].reply
             /\ calls'[d].receipt = calls[d].receipt
             /\ calls'[d].pending = FALSE
  <2>1. calls'[d] = [at |-> calls[d].at, body |-> calls[d].body,
                     key |-> calls[d].key, session |-> calls[d].session,
                     reply |-> calls[d].reply, receipt |-> calls[d].receipt,
                     pending |-> FALSE]
    BY <1>2
  <2> QED
    BY <2>1
<1>5. CallsAreRecords'
  BY <1>2, <1>3, <1>4 DEF CallsAreRecords
<1>6. UNCHANGED <<cookie, inbox, moved>>
  BY <1>1
<1>. QED
  BY <1>4, <1>5, <1>6

LEMMA ReloadKeeps ==
  ASSUME FormInv, Reload
  PROVE  FormInv'
BY ReloadCalls DEF FormInv, InboxPassedOn, MovedAnswered, KeysSpentOnce

LEMMA NextKeeps ==
  ASSUME FormInv, [Next]_vars
  PROVE  FormInv'
<1>1. ASSUME NEW c \in Calls, Submit(c) \/ Carry(c) \/ Settle(c)
      PROVE  FormInv'
  <2>1. CASE Submit(c)
    BY <2>1, SubmitKeeps
  <2>2. CASE Proxy(c)
    BY <2>2, ProxyKeeps
  <2>3. CASE Catch(c)
    BY <2>3, CatchKeeps
  <2>4. CASE Decline(c)
    BY <2>4, AnswerKeeps DEF Decline
  <2>5. CASE Move(c)
    BY <2>5, MoveKeeps
  <2>6. CASE Replay(c)
    BY <2>6, AnswerKeeps DEF Replay
  <2>7. CASE Settle(c)
    BY <2>7, ResumeKeeps DEF Settle, Hear, Lose
  <2>. QED
    BY <1>1, <2>1, <2>2, <2>3, <2>4, <2>5, <2>6, <2>7 DEF Carry
<1>2. ASSUME NEW list \in Lists, OpenForm(list) \/ Refresh(list)
      PROVE  FormInv'
  BY <1>2, Unchanged DEF OpenForm, Refresh
<1>3. CASE Type \/ Leave \/ Redirect \/ Logout \/ Login \/ Revisit
            \/ Expire
  BY <1>3, Unchanged
  DEF Type, Edit, Leave, Redirect, Logout, EndSession, Login, StartSession,
      Revisit, Expire
<1>4. CASE Reload
  BY <1>4, ReloadKeeps
<1>5. CASE UNCHANGED vars
  BY <1>5, Unchanged DEF vars
<1>. QED
  BY <1>1, <1>2, <1>3, <1>4, <1>5 DEF Next

\* Money moves as the calls say in every reachable state.
LEMMA InvariantHolds == Spec => []FormInv
BY InitEstablishes, NextKeeps, PTL DEF Spec

-----------------------------------------------------------------------------

\* Whatever is lost, abandoned or answered late, and however many calls there
\* are: a key that was typed into the form moves money once.
THEOREM TypedKeySpendsOnce == Spec => []KeySpendsOnce
<1>1. FormInv => KeySpendsOnce
  BY DEF FormInv, MovedAnswered, KeysSpentOnce, KeySpendsOnce
<1>. QED
  BY <1>1, InvariantHolds, PTL

\* No call that moved money was answered with a refusal or a missing session,
\* even if the BFF gave it up before the API served it.
THEOREM DenialsAreTrue == Spec => []ToldNothingMoved
<1>1. FormInv => ToldNothingMoved
  BY DEF FormInv, MovedAnswered, ToldNothingMoved
<1>. QED
  BY <1>1, InvariantHolds, PTL
-----------------------------------------------------------------------------
(* What the form sends                                                      *)

\* A list has members, and they are accounts.
LEMMA ListMembers ==
  ASSUME NEW list \in Lists
  PROVE  /\ list \in Seq(Accounts) /\ list # <<>>
         /\ Head(list) \in Accounts
         /\ \A a \in ToSet(list) : a \in Accounts
<1>1. list \in Seq(Accounts) /\ list # <<>>
  BY FormAssumption
<1>2. Head(list) \in Accounts
  BY <1>1
<1>3. \A i \in DOMAIN list : list[i] \in Accounts
  BY <1>1
<1> QED
  BY <1>1, <1>2, <1>3 DEF ToSet

\* The destination that is preselected is an option, or there is none.
LEMMA FirstOptionIs ==
  ASSUME NEW list \in Lists, NEW from
  PROVE  FirstOption(list, from) \in Options(list, from) \cup {None}
<1> DEFINE places == {i \in DOMAIN list : list[i] \in Options(list, from)}
<1>1. CASE places = {}
  BY <1>1 DEF FirstOption
<1>2. CASE places # {}
  <2>1. places \in SUBSET Nat
    BY ListMembers
  <2>2. \E i \in places : \A j \in places : i <= j
    BY <1>2, <2>1, SmallestIndex
  <2>3. (CHOOSE i \in places : \A j \in places : i <= j) \in places
    <3> HIDE DEF places
    <3> QED
      BY <2>2
  <2> QED
    BY <1>2, <2>3 DEF FirstOption
<1> QED
  BY <1>1, <1>2

\* An option is another account in the same currency.
LEMMA OptionsAre ==
  ASSUME NEW list \in Lists, NEW from
  PROVE  \A a \in Options(list, from) :
           a \in Accounts /\ a # from /\ CurrencyOf[a] = CurrencyOf[from]
  BY ListMembers DEF Options

\* Removing zeros leaves digits.
LEMMA StrippedType ==
  ASSUME NEW digits \in Seq(0..9)
  PROVE  Stripped(digits) \in Seq(0..9)
<1> DEFINE significant == {i \in DOMAIN digits : digits[i] # 0}
<1>1. CASE significant = {}
  BY <1>1 DEF Stripped
<1>2. CASE significant # {}
  <2>1. significant \in SUBSET Nat
    OBVIOUS
  <2>2. \E i \in significant : \A j \in significant : i <= j
    BY <1>2, <2>1, SmallestIndex
  <2> DEFINE first == CHOOSE i \in significant : \A j \in significant : i <= j
  <2>3. first \in significant
    <3> HIDE DEF significant
    <3> QED
      BY <2>2
  <2>4. first \in Int /\ first >= 1 /\ Len(digits) \in Int
    BY <2>3
  <2>5. \A i \in first..Len(digits) : digits[i] \in 0..9
    BY <2>4
  <2>6. SubSeq(digits, first, Len(digits)) \in Seq(0..9)
    <3> HIDE DEF first
    <3> QED
      BY <2>4, <2>5, SubSeqProperties
  <2> QED
    BY <1>2, <2>6 DEF Stripped
<1> QED
  BY <1>1, <1>2

\* Minor units are digits.
LEMMA UnitsType ==
  ASSUME NEW text \in Texts, NEW currency
  PROVE  toMinorUnits(text, currency) \in Seq(0..9) \cup {None}
<1> DEFINE missing == scaleOf(currency) - Len(text.fraction)
<1>1. text.whole \in Seq(0..9) /\ text.fraction \in Seq(0..9)
  BY FormAssumption
<1>2. Zeros(missing) \in Seq(0..9)
  <2>1. missing \in Int
    BY <1>1 DEF scaleOf
  <2>2. CASE missing > 0
    <3>1. [i \in 1..missing |-> 0] \in Seq(0..9)
      BY <2>1, <2>2
    <3> QED
      BY <2>2, <3>1 DEF Zeros
  <2>3. CASE ~(missing > 0)
    BY <2>3 DEF Zeros
  <2> QED
    BY <2>2, <2>3
<1>3. text.whole \o text.fraction \o Zeros(missing) \in Seq(0..9)
  BY <1>1, <1>2
<1> QED
  BY <1>3, StrippedType DEF toMinorUnits
-----------------------------------------------------------------------------
(* The calls and what they moved                                            *)

\* A call that is on its way is one that a form may send, and an answer that
\* counts as a success is the receipt of a transfer of what was sent.
CallTrue(c) ==
  /\ calls[c].at # "unused" =>
       calls[c].body \in Bodies /\ calls[c].key \in Keys \cup {None}
  /\ calls[c].at = "replied" /\ Interpret(calls[c].reply) = "ok" =>
       calls[c].receipt \in moved /\ Made(c, calls[c].receipt)

CallsInv ==
  /\ \A c \in Calls : CallTrue(c)
  /\ moved \subseteq Movements

\* The fields of the form, while it is on the screen.
FieldsInv ==
  /\ page \in {"login", "dashboard", "form", "broken"}
  /\ page = "form" => accounts \in Lists /\ fields.from \in Accounts
  /\ page # "form" => accounts = <<>> /\ fields = NoFields /\ state = Idle
  /\ fields \in [from : Accounts \cup {None}, to : Accounts \cup {None},
                 amount : Texts \cup {None}, key : Keys \cup {None}]
  /\ cookie \in BOOLEAN

\* What a reply makes of a call, and of the others nothing.
LEMMA ReplyFields ==
  ASSUME FormInv, NEW c \in Calls, NEW reply, NEW receipt,
         calls' = Reply(c, reply, receipt)
  PROVE  /\ calls'[c] =
              [at |-> "replied", body |-> calls[c].body, key |-> calls[c].key,
               session |-> calls[c].session, reply |-> reply, receipt |-> receipt,
               pending |-> calls[c].pending]
         /\ \A d \in Calls \ {c} : calls'[d] = calls[d]
<1>1. DOMAIN calls = Calls
  BY DEF FormInv, CallsAreRecords
<1>2. calls[c] = [at |-> calls[c].at, body |-> calls[c].body,
                  key |-> calls[c].key, session |-> calls[c].session,
                  reply |-> calls[c].reply, receipt |-> calls[c].receipt,
                  pending |-> calls[c].pending]
  BY DEF FormInv, CallsAreRecords
<1>3. calls'[c] =
        [calls[c] EXCEPT !.at = "replied", !.reply = reply, !.receipt = receipt]
  BY <1>1 DEF Reply
<1>4. \A d \in Calls \ {c} : calls'[d] = calls[d]
  BY <1>1 DEF Reply
<1> QED
  BY <1>2, <1>3, <1>4

\* A call keeps what was sent with it; only a form that waits for it lets go.
Carried ==
  \A d \in Calls : /\ calls[d].at # "unused" => /\ calls'[d].at # "unused"
                                                /\ calls'[d].body = calls[d].body
                                                /\ calls'[d].key = calls[d].key
                   /\ calls'[d].pending = calls[d].pending

\* The BFF and the API carry a call on, whatever they make of it.
LEMMA CarryCarries ==
  ASSUME FormInv, NEW c \in Calls, Carry(c)
  PROVE  /\ Carried
         /\ UNCHANGED <<page, cookie, form>>
         /\ moved \subseteq moved'
<1>1. ASSUME NEW reply, NEW receipt, calls[c].at # "unused",
             calls' = Reply(c, reply, receipt)
      PROVE  Carried
  <2>2. /\ calls'[c] = [at |-> "replied", body |-> calls[c].body, key |-> calls[c].key,
                       session |-> calls[c].session, reply |-> reply,
                       receipt |-> receipt, pending |-> calls[c].pending]
        /\ \A d \in Calls \ {c} : calls'[d] = calls[d]
    BY <1>1, ReplyFields
  <2> QED
    BY <2>2 DEF Carried
<1>2. CASE Proxy(c)
  <2>1. CASE calls' = [calls EXCEPT ![c].at = "proxied"]
    BY <1>2, <2>1 DEF Proxy, FormInv, CallsAreRecords, Carried
  <2> QED
    BY <1>1, <1>2, <2>1 DEF Proxy
<1>3. CASE Catch(c)
  BY <1>1, <1>3 DEF Catch
<1>4. ASSUME NEW reply, NEW receipt, Answer(c, reply, receipt)
      PROVE  Carried /\ UNCHANGED <<page, cookie, form>>
  BY <1>1, <1>4 DEF Answer, Carried
<1>5. CASE Decline(c)
  BY <1>4, <1>5 DEF Decline
<1>6. CASE Move(c)
  BY <1>4, <1>6 DEF Move
<1>7. CASE Replay(c)
  BY <1>4, <1>7 DEF Replay
<1> QED
  BY <1>2, <1>3, <1>5, <1>6, <1>7 DEF Carry, Proxy, Catch

\* A call that is answered with a success is answered with its receipt.
LEMMA AnswerIsTrue ==
  ASSUME FormInv, CallsInv, NEW c \in Calls, NEW reply, NEW receipt,
         calls[c].at # "unused", calls' = Reply(c, reply, receipt) \/ UNCHANGED calls,
         Interpret(reply) = "ok" =>
           receipt \in moved' /\ Made(c, receipt),
         moved \subseteq moved', moved' \subseteq Movements
  PROVE  CallsInv'
<1>1. CASE UNCHANGED calls
  BY <1>1 DEF CallsInv, CallTrue, Made
<1>2. CASE calls' = Reply(c, reply, receipt)
  <2>2. /\ calls'[c] = [at |-> "replied", body |-> calls[c].body, key |-> calls[c].key,
                       session |-> calls[c].session, reply |-> reply,
                       receipt |-> receipt, pending |-> calls[c].pending]
        /\ \A d \in Calls \ {c} : calls'[d] = calls[d]
    BY <1>2, ReplyFields
  <2>3. CallTrue(c)'
    BY <2>2 DEF CallsInv, CallTrue, Made
  <2>4. \A d \in Calls \ {c} : CallTrue(d)'
    BY <2>2 DEF CallsInv, CallTrue, Made
  <2> QED
    BY <2>3, <2>4 DEF CallsInv
<1> QED
  BY <1>1, <1>2

\* Carrying a call on keeps what is known of it.
LEMMA CarryKeepsCalls ==
  ASSUME FormInv, CallsInv, NEW c \in Calls, Carry(c)
  PROVE  CallsInv'
<1>1. CASE Proxy(c)
  <2>1. CASE calls' = [calls EXCEPT ![c].at = "proxied"]
    <3>1. \A d \in Calls \ {c} : CallTrue(d)'
      BY <1>1, <2>1 DEF Proxy, FormInv, CallsAreRecords, CallsInv, CallTrue, Made
    <3>2. /\ calls[c].at # "unused" /\ calls'[c].at = "proxied"
          /\ calls'[c].body = calls[c].body /\ calls'[c].key = calls[c].key
      BY <1>1, <2>1 DEF Proxy, FormInv, CallsAreRecords
    <3>3. CallTrue(c)'
      BY <3>2 DEF CallsInv, CallTrue
    <3> QED
      BY <1>1, <3>1, <3>3 DEF Proxy, CallsInv
  <2>2. CASE calls' = Reply(c, "unauthorized", None)
    BY <1>1, <2>2, AnswerIsTrue DEF Proxy, Interpret, CallsInv
  <2> QED
    BY <1>1, <2>1, <2>2 DEF Proxy
<1>2. CASE Catch(c)
  BY <1>2, AnswerIsTrue DEF Catch, CaughtReply, Interpret, CallsInv
<1>3. ASSUME c \in inbox PROVE calls[c].at # "unused"
  BY <1>3 DEF FormInv, InboxPassedOn
<1>4. ASSUME NEW reply, NEW receipt, Answer(c, reply, receipt),
             Interpret(reply) = "ok" =>
               receipt \in moved' /\ Made(c, receipt),
             moved \subseteq moved', moved' \subseteq Movements
      PROVE  CallsInv'
  <2>1. c \in inbox /\ (calls' = Reply(c, reply, receipt) \/ UNCHANGED calls)
    BY <1>4 DEF Answer
  <2> QED
    BY <1>3, <1>4, <2>1, AnswerIsTrue
<1>5. CASE Decline(c)
  <2>1. PICK reply \in {"unauthorized", "unavailable", "refused", "failed"} :
          Answer(c, reply, None)
    BY <1>5 DEF Decline
  <2>2. UNCHANGED moved /\ Interpret(reply) # "ok"
    BY <1>5 DEF Decline, Interpret
  <2> QED
    BY <1>4, <2>1, <2>2 DEF CallsInv
<1>6. CASE Move(c)
  <2> DEFINE m == [id |-> c, body |-> calls[c].body, key |-> calls[c].key]
  <2>1. /\ moved' = moved \cup {m}
        /\ Answer(c, "created", m) \/ Answer(c, "failed", None)
    BY <1>6 DEF Move, ForwardedKey
  <2>2. calls[c].at # "unused"
    BY <1>3, <2>1 DEF Answer
  <2>3. m \in Movements
    BY <2>2 DEF CallsInv, CallTrue, Movements
  <2>4. moved \subseteq moved' /\ moved' \subseteq Movements
    BY <2>1, <2>3 DEF CallsInv
  <2>5. CASE Answer(c, "created", m)
    <3>1. m \in moved' /\ Made(c, m)
      BY <2>1 DEF Made
    <3> QED
      BY <1>4, <2>4, <2>5, <3>1
  <2>6. CASE Answer(c, "failed", None)
    BY <1>4, <2>4, <2>6 DEF Interpret
  <2> QED
    BY <2>1, <2>5, <2>6
<1>7. CASE Replay(c)
  <2>1. PICK m \in Spent(c) : IF m.body = calls[c].body THEN Answer(c, "created", m)
                                                        ELSE Answer(c, "refused", None)
    BY <1>7 DEF Replay
  <2>2. UNCHANGED moved /\ m \in moved
    BY <1>7, <2>1 DEF Replay, Spent
  <2>3. CASE m.body = calls[c].body
    <3>1. Made(c, m)
      BY <2>1, <2>3 DEF Spent, ForwardedKey, Made
    <3> QED
      BY <1>4, <2>1, <2>2, <2>3, <3>1 DEF CallsInv
  <2>4. CASE m.body # calls[c].body
    BY <1>4, <2>1, <2>2, <2>4 DEF CallsInv, Interpret
  <2> QED
    BY <2>3, <2>4
<1> QED
  BY <1>1, <1>2, <1>5, <1>6, <1>7 DEF Carry

\* What the form shows is something that it may send.
LEMMA SubmitKeepsCalls ==
  ASSUME FormInv, CallsInv, FieldsInv, NEW c \in Calls, Submit(c)
  PROVE  CallsInv'
<1> DEFINE body == [from |-> fields.from, to |-> EffectiveTo, amount |-> MinorUnits]
<1>1. /\ UNCHANGED moved /\ page = "form"
      /\ EffectiveTo # None /\ MinorUnits # None
      /\ calls' = [calls EXCEPT ![c] =
           [at |-> "sent", body |-> body, key |-> fields.key, session |-> cookie,
            reply |-> "none", receipt |-> None, pending |-> TRUE]]
  BY DEF Submit, CanSubmit
<1>2. fields.from \in Accounts /\ accounts \in Lists
  BY <1>1 DEF FieldsInv
<1>3. EffectiveTo \in Options(accounts, fields.from)
  BY <1>1, <1>2, FirstOptionIs DEF EffectiveTo
<1>4. /\ EffectiveTo \in Accounts /\ EffectiveTo # fields.from
      /\ CurrencyOf[EffectiveTo] = CurrencyOf[fields.from]
  BY <1>2, <1>3, OptionsAre
<1>5. MinorUnits \in Seq(0..9)
  <2>1. fields.amount \in Texts
    BY <1>1 DEF MinorUnits, FieldsInv
  <2> QED
    BY <1>1, <2>1, UnitsType DEF MinorUnits
<1>6. body \in Bodies
  BY <1>2, <1>4, <1>5 DEF Bodies
<1>7. fields.key \in Keys \cup {None}
  BY DEF FieldsInv
<1>8. /\ calls'[c].at = "sent" /\ calls'[c].body = body /\ calls'[c].key = fields.key
      /\ \A d \in Calls \ {c} : calls'[d] = calls[d]
  BY <1>1 DEF FormInv, CallsAreRecords
<1>9. CallTrue(c)'
  BY <1>6, <1>7, <1>8 DEF CallTrue
<1>10. \A d \in Calls \ {c} : CallTrue(d)'
  BY <1>1, <1>8 DEF CallsInv, CallTrue, Made
<1> QED
  BY <1>1, <1>9, <1>10 DEF CallsInv

\* What an answer does to the screen: it navigates, breaks the form that waited
\* for it, is shown there, or does nothing.
LEMMA ResumeCases ==
  ASSUME NEW c \in Calls, NEW result, NEW receipt, Resume(c, result, receipt)
  PROVE  /\ UNCHANGED cookie
         /\ \/ Navigate(LoginPage)
            \/ /\ c \in mounted /\ Navigate("broken")
               /\ calls[c].pending /\ result = "ok"
            \/ /\ c \in mounted /\ Show(result, receipt)
               /\ result = "ok" => receipt # None
            \/ c \notin mounted /\ UNCHANGED <<page, form>>
BY DEF Resume, Unshowable

\* The browser stops waiting for a call, and nothing else becomes of it.
LEMMA ResumeCalls ==
  ASSUME FormInv, NEW c \in Calls, NEW result, NEW receipt,
         Resume(c, result, receipt)
  PROVE  /\ UNCHANGED moved
         /\ ~calls'[c].pending
         /\ \A d \in Calls : /\ calls'[d].at = calls[d].at
                             /\ calls'[d].body = calls[d].body
                             /\ calls'[d].key = calls[d].key
                             /\ calls'[d].reply = calls[d].reply
                             /\ calls'[d].receipt = calls[d].receipt
                             /\ d # c => calls'[d].pending = calls[d].pending
<1>1. calls' = [calls EXCEPT ![c].pending = FALSE] /\ UNCHANGED moved
  BY DEF Resume
<1>2. \A d \in Calls \ {c} : calls'[d] = calls[d]
  BY <1>1 DEF FormInv, CallsAreRecords
<1>3. calls[c] = [at |-> calls[c].at, body |-> calls[c].body,
                  key |-> calls[c].key, session |-> calls[c].session,
                  reply |-> calls[c].reply, receipt |-> calls[c].receipt,
                  pending |-> calls[c].pending]
  BY DEF FormInv, CallsAreRecords
<1>4. calls'[c] = [calls[c] EXCEPT !.pending = FALSE]
  BY <1>1 DEF FormInv, CallsAreRecords
<1>5. calls'[c] = [at |-> calls[c].at, body |-> calls[c].body,
                   key |-> calls[c].key, session |-> calls[c].session,
                   reply |-> calls[c].reply, receipt |-> calls[c].receipt,
                   pending |-> FALSE]
  BY <1>3, <1>4
<1>6. /\ ~calls'[c].pending
      /\ calls'[c].at = calls[c].at /\ calls'[c].body = calls[c].body
      /\ calls'[c].key = calls[c].key /\ calls'[c].reply = calls[c].reply
      /\ calls'[c].receipt = calls[c].receipt
  BY <1>5
<1> QED
  BY <1>1, <1>2, <1>6

LEMMA NextKeepsCalls ==
  ASSUME FormInv, CallsInv, FieldsInv, [Next]_vars
  PROVE  CallsInv'
<1>1. ASSUME NEW c \in Calls, Submit(c) \/ Carry(c) PROVE CallsInv'
  BY <1>1, SubmitKeepsCalls, CarryKeepsCalls
<1>2. ASSUME NEW c \in Calls, Settle(c) PROVE CallsInv'
  <2>1. PICK result, receipt : Resume(c, result, receipt)
    BY <1>2 DEF Settle, Hear, Lose
  <2> QED
    BY <2>1, ResumeCalls DEF CallsInv, CallTrue, Made
<1>3. CASE UNCHANGED <<calls, moved>>
  BY <1>3 DEF CallsInv, CallTrue, Made
<1>4. ASSUME NEW list \in Lists, OpenForm(list) \/ Refresh(list)
      PROVE  UNCHANGED <<calls, moved>>
  BY <1>4 DEF OpenForm, Refresh
<1>5. ASSUME Type \/ Leave \/ Redirect \/ Logout \/ Login \/ Revisit \/ Expire
      PROVE  UNCHANGED <<calls, moved>>
  BY <1>5 DEF Type, Edit, Leave, Redirect, Logout, Login, Revisit, Expire
<1>6. CASE Reload
  BY <1>6, ReloadCalls DEF CallsInv, CallTrue, Made
<1> QED
  BY <1>1, <1>2, <1>3, <1>4, <1>5, <1>6 DEF Next, vars

-----------------------------------------------------------------------------
(* The fields                                                               *)

FieldSet == [from : Accounts \cup {None}, to : Accounts \cup {None},
             amount : Texts \cup {None}, key : Keys \cup {None}]

LEMMA NavigateKeepsFields ==
  ASSUME NEW target \in {"login", "dashboard", "broken"}, Navigate(target), cookie' \in BOOLEAN
  PROVE  FieldsInv'
  BY DEF Navigate, NoFields, FieldsInv

LEMMA EditKeepsFields ==
  ASSUME FieldsInv,
         \/ \E a \in Accounts : Edit("from", a) \/ Edit("to", a)
         \/ \E x \in Texts \cup {None} : Edit("amount", x)
         \/ \E k \in Keys \cup {None} : Edit("key", k)
  PROVE  FieldsInv'
<1>1. page = "form" /\ UNCHANGED <<page, cookie, accounts, state>>
  BY DEF Edit
<1>2. fields \in FieldSet /\ fields.from \in Accounts
  BY <1>1 DEF FieldsInv, FieldSet
<1>3. CASE \E a \in Accounts : Edit("from", a)
  <2>1. fields' \in FieldSet /\ fields'.from \in Accounts
    BY <1>2, <1>3 DEF Edit, FieldSet
  <2> QED
    BY <1>1, <2>1 DEF FieldsInv, FieldSet
<1>4. CASE \E a \in Accounts : Edit("to", a)
  <2>1. fields' \in FieldSet /\ fields'.from \in Accounts
    BY <1>2, <1>4 DEF Edit, FieldSet
  <2> QED
    BY <1>1, <2>1 DEF FieldsInv, FieldSet
<1>5. CASE \E x \in Texts \cup {None} : Edit("amount", x)
  <2>1. fields' \in FieldSet /\ fields'.from \in Accounts
    BY <1>2, <1>5 DEF Edit, FieldSet
  <2> QED
    BY <1>1, <2>1 DEF FieldsInv, FieldSet
<1>6. CASE \E k \in Keys \cup {None} : Edit("key", k)
  <2>1. fields' \in FieldSet /\ fields'.from \in Accounts
    BY <1>2, <1>6 DEF Edit, FieldSet
  <2> QED
    BY <1>1, <2>1 DEF FieldsInv, FieldSet
<1> QED
  BY <1>3, <1>4, <1>5, <1>6

\* Only accounts of the list can be chosen, and only what the fields may hold.
LEMMA TypeEdits ==
  ASSUME FieldsInv, Type
  PROVE  \/ \E a \in Accounts : Edit("from", a) \/ Edit("to", a)
         \/ \E x \in Texts \cup {None} : Edit("amount", x)
         \/ \E k \in Keys \cup {None} : Edit("key", k)
<1>1. page = "form" => accounts \in Lists
  BY DEF FieldsInv
<1>2. ASSUME NEW a \in ToSet(accounts), Edit("from", a) PROVE a \in Accounts
  BY <1>1, <1>2, ListMembers DEF Edit
<1>3. ASSUME NEW a \in Options(accounts, fields.from), Edit("to", a) PROVE a \in Accounts
  BY <1>1, <1>3, OptionsAre DEF Edit
<1> QED
  BY <1>2, <1>3 DEF Type

LEMMA OpenKeepsFields ==
  ASSUME FieldsInv, NEW list \in Lists, OpenForm(list)
  PROVE  FieldsInv'
<1>1. /\ page' = "form" /\ accounts' = list /\ UNCHANGED cookie
      /\ fields' = [from |-> Head(list), to |-> FirstOption(list, Head(list)),
                    amount |-> None, key |-> None]
  BY DEF OpenForm, EmptyFields
<1>2. Head(list) \in Accounts
  BY ListMembers
<1>3. FirstOption(list, Head(list)) \in Accounts \cup {None}
  BY FirstOptionIs, OptionsAre
<1>4. fields' \in FieldSet /\ fields'.from \in Accounts
  BY <1>1, <1>2, <1>3 DEF FieldSet
<1> QED
  BY <1>1, <1>4 DEF FieldsInv, FieldSet

LEMMA ResumeKeepsFields ==
  ASSUME FieldsInv, NEW c \in Calls, NEW result, NEW receipt,
         mounted # {} => page = "form", Resume(c, result, receipt)
  PROVE  FieldsInv'
<1>1. CASE Navigate(LoginPage) \/ Navigate("broken")
  BY <1>1, ResumeCases, NavigateKeepsFields DEF LoginPage, FieldsInv
<1>2. CASE c \in mounted /\ Show(result, receipt)
  <2>1. /\ page = "form" /\ UNCHANGED <<page, accounts, cookie>>
        /\ fields' = [fields EXCEPT !.amount = AmountAfter(result)]
    BY <1>2, ResumeCases DEF Show
  <2>2. fields \in FieldSet /\ AmountAfter(result) \in Texts \cup {None}
    BY DEF FieldsInv, FieldSet, AmountAfter
  <2>3. fields' \in FieldSet /\ fields'.from = fields.from
    BY <2>1, <2>2 DEF FieldSet
  <2> QED
    BY <2>1, <2>3 DEF FieldsInv, FieldSet
<1>3. CASE UNCHANGED <<page, form>>
  BY <1>3, ResumeCases DEF form, FieldsInv
<1> QED
  BY <1>1, <1>2, <1>3, ResumeCases

LEMMA NextKeepsFields ==
  ASSUME FormInv, FieldsInv, mounted # {} => page = "form", [Next]_vars
  PROVE  FieldsInv'
<1>1. ASSUME NEW c \in Calls, Submit(c) PROVE FieldsInv'
  BY <1>1 DEF Submit, FieldsInv
<1>2. ASSUME NEW c \in Calls, Carry(c) PROVE FieldsInv'
  BY <1>2, CarryCarries DEF form, FieldsInv
<1>3. ASSUME NEW c \in Calls, Settle(c) PROVE FieldsInv'
  BY <1>3, ResumeKeepsFields DEF Settle, Hear, Lose
<1>4. ASSUME NEW list \in Lists, OpenForm(list) PROVE FieldsInv'
  BY <1>4, OpenKeepsFields
<1>5. ASSUME NEW list \in Lists, Refresh(list) PROVE FieldsInv'
  BY <1>5 DEF Refresh, FieldsInv
<1>6. CASE Type
  BY <1>6, TypeEdits, EditKeepsFields
<1>7. CASE Leave \/ Reload \/ Redirect
  BY <1>7, NavigateKeepsFields DEF Leave, Reload, Redirect, FieldsInv
<1>8. CASE Logout
  BY <1>8, NavigateKeepsFields DEF Logout, EndSession, LoginPage, FieldsInv
<1>9. CASE Login
  BY <1>9 DEF Login, StartSession, form, FieldsInv
<1>10. CASE Revisit
  BY <1>10 DEF Revisit, LoginPage, form, FieldsInv
<1>11. CASE Expire \/ UNCHANGED vars
  BY <1>11 DEF Expire, vars, form, FieldsInv
<1> QED
  BY <1>1, <1>2, <1>3, <1>4, <1>5, <1>6, <1>7, <1>8, <1>9, <1>10, <1>11 DEF Next
-----------------------------------------------------------------------------
(* The screen                                                               *)

States == [kind : {"idle", "saving", "ok", "error"}, receipt : Movements \cup {None}]

\* A form knows the calls that it made; where no amount has been typed, nothing
\* has failed and no form was opened since a submission, it waits or is empty.
ScreenInv ==
  /\ mounted \subseteq Calls
  /\ \A c \in mounted : calls[c].at # "unused"
  /\ page # "form" => mounted = {} /\ asked
  /\ asked \in BOOLEAN
  /\ ~asked => state.kind = "saving" \/ fields.amount = None
  /\ state \in States
  /\ PostedIsTrue
  /\ SendingWaits

\* A step that leaves the form alone and carries its calls.
LEMMA CarryKeepsScreen ==
  ASSUME ScreenInv, UNCHANGED <<page, form>>, moved \subseteq moved', Carried
  PROVE  ScreenInv'
<1>1. \A c \in mounted : /\ c \in Calls /\ calls'[c].at # "unused"
                         /\ calls'[c].body = calls[c].body
                         /\ calls'[c].key = calls[c].key
                         /\ calls'[c].pending = calls[c].pending
  BY DEF ScreenInv, Carried
<1>2. PostedIsTrue'
  BY <1>1 DEF ScreenInv, PostedIsTrue, Made, form
<1>3. SendingWaits'
  BY <1>1 DEF ScreenInv, SendingWaits, form
<1> QED
  BY <1>1, <1>2, <1>3 DEF ScreenInv, form

LEMMA NavigateKeepsScreen ==
  ASSUME NEW target, Navigate(target)
  PROVE  ScreenInv'
<1>1. Idle \in States /\ Idle.kind = "idle"
  BY DEF Idle, States
<1> QED
  BY <1>1 DEF Navigate, ScreenInv, PostedIsTrue, SendingWaits, States

LEMMA SubmitKeepsScreen ==
  ASSUME FormInv, ScreenInv, NEW c \in Calls, Submit(c)
  PROVE  ScreenInv'
<1>1. /\ page = "form" /\ page' = page
      /\ mounted' = mounted \cup {c} /\ asked' = FALSE
      /\ state' = [kind |-> "saving", receipt |-> None]
  BY DEF Submit, Idle
<1>2. /\ calls'[c].pending /\ calls'[c].at = "sent"
      /\ \A d \in Calls \ {c} : calls'[d] = calls[d]
  BY DEF Submit, FormInv, CallsAreRecords
<1>3. state' \in States /\ state'.kind = "saving"
  BY <1>1 DEF States
<1>4. mounted' \subseteq Calls /\ \A d \in mounted' : calls'[d].at # "unused"
  BY <1>1, <1>2 DEF ScreenInv
<1>5. PostedIsTrue' /\ SendingWaits'
  BY <1>1, <1>2, <1>3 DEF PostedIsTrue, SendingWaits
<1> QED
  BY <1>1, <1>3, <1>4, <1>5 DEF ScreenInv, States

\* A success that is shown is one that the call was answered with.
LEMMA ResumeKeepsScreen ==
  ASSUME FormInv, CallsInv, FieldsInv, ScreenInv,
         NEW c \in Calls, NEW result, NEW receipt, Resume(c, result, receipt),
         result = "ok" /\ receipt # None => receipt \in moved /\ Made(c, receipt)
  PROVE  ScreenInv'
<1>1. /\ UNCHANGED moved /\ ~calls'[c].pending
      /\ \A d \in Calls : /\ calls'[d].at = calls[d].at
                          /\ calls'[d].body = calls[d].body
                          /\ calls'[d].key = calls[d].key
      /\ \A d \in Calls \ {c} : calls'[d].pending = calls[d].pending
  BY ResumeCalls
<1>2. CASE Navigate(LoginPage) \/ Navigate("broken")
  BY <1>2, NavigateKeepsScreen
<1>3. CASE c \in mounted /\ Show(result, receipt) /\ (result = "ok" => receipt # None)
  <2>1. /\ state' = Shown(result, receipt) /\ UNCHANGED <<page, mounted>>
        /\ fields' = [fields EXCEPT !.amount = AmountAfter(result)]
        /\ asked' = (asked \/ result # "ok")
    BY <1>3 DEF Show
  <2>2. fields'.amount = AmountAfter(result)
    BY <2>1 DEF FieldsInv
  <2>3. CASE result = "ok"
    <3>1. /\ state' = [kind |-> "ok", receipt |-> receipt]
          /\ receipt \in moved /\ receipt \in Movements /\ Made(c, receipt)
          /\ fields'.amount = None /\ asked' = asked
      BY <1>3, <2>1, <2>2, <2>3 DEF Shown, AmountAfter, CallsInv, ScreenInv
    <3>2. state' \in States /\ state'.kind = "ok" /\ state'.receipt = receipt
      BY <3>1 DEF States
    <3>3. PostedIsTrue' /\ SendingWaits'
      BY <1>1, <1>3, <2>1, <3>1, <3>2 DEF PostedIsTrue, SendingWaits, Made
    <3> QED
      BY <1>1, <2>1, <3>1, <3>2, <3>3 DEF ScreenInv, States
  <2>4. CASE result # "ok"
    <3>1. state' = [kind |-> "error", receipt |-> None] /\ asked' = TRUE
      BY <2>1, <2>4 DEF Shown
    <3>2. state' \in States /\ state'.kind = "error"
      BY <3>1 DEF States
    <3>3. PostedIsTrue' /\ SendingWaits'
      BY <3>2 DEF PostedIsTrue, SendingWaits
    <3> QED
      BY <1>1, <2>1, <3>1, <3>2, <3>3 DEF ScreenInv, States
  <2> QED
    BY <2>3, <2>4
<1>4. CASE c \notin mounted /\ UNCHANGED <<page, form>>
  <2>2. \A d \in mounted : /\ d \in Calls /\ calls'[d].pending = calls[d].pending
                           /\ calls'[d].at = calls[d].at
                           /\ calls'[d].body = calls[d].body
                           /\ calls'[d].key = calls[d].key
    BY <1>1, <1>4 DEF ScreenInv
  <2>3. PostedIsTrue'
    BY <1>1, <1>4, <2>2 DEF ScreenInv, PostedIsTrue, Made, form
  <2>4. SendingWaits'
    BY <1>4, <2>2 DEF ScreenInv, SendingWaits, form
  <2> QED
    BY <1>4, <2>2, <2>3, <2>4 DEF ScreenInv, form
<1> QED
  BY <1>2, <1>3, <1>4, ResumeCases

\* Whatever is heard of a success, a receipt that is read is that of the call.
LEMMA HeardIsTrue ==
  ASSUME CallsInv, NEW c \in Calls, NEW body \in {calls[c].receipt, None},
         calls[c].at = "replied", Interpret(calls[c].reply) = "ok", body # None
  PROVE  body \in moved /\ Made(c, body)
BY DEF CallsInv, CallTrue

LEMMA SettleKeepsScreen ==
  ASSUME FormInv, CallsInv, FieldsInv, ScreenInv, NEW c \in Calls, Settle(c)
  PROVE  ScreenInv'
<1>1. CASE Hear(c)
  <2>1. PICK body \in {calls[c].receipt, None} :
          Resume(c, Interpret(calls[c].reply), body)
    BY <1>1 DEF Hear
  <2>2. calls[c].at = "replied"
    BY <1>1 DEF Hear
  <2> QED
    BY <2>1, <2>2, HeardIsTrue, ResumeKeepsScreen
<1>2. CASE Lose(c)
  BY <1>2, ResumeKeepsScreen DEF Lose
<1> QED
  BY <1>1, <1>2 DEF Settle

\* Typing changes a field, and an amount that is typed is a request.
LEMMA EditKeepsScreen ==
  ASSUME FieldsInv, ScreenInv, NEW field \in {"from", "to", "amount", "key"}, NEW value,
         Edit(field, value)
  PROVE  ScreenInv'
<1>1. /\ UNCHANGED <<page, state, mounted, calls, moved>> /\ page = "form"
      /\ fields' = [fields EXCEPT ![field] = value]
      /\ asked' = (asked \/ (field = "amount" /\ value # None))
  BY DEF Edit
<1>2. ~asked' => ~asked /\ (fields.amount = None => fields'.amount = None)
  BY <1>1 DEF FieldsInv, ScreenInv
<1>3. PostedIsTrue' /\ SendingWaits'
  BY <1>1 DEF ScreenInv, PostedIsTrue, SendingWaits, Made
<1> QED
  BY <1>1, <1>2, <1>3 DEF ScreenInv, States

LEMMA OpenKeepsScreen ==
  ASSUME ScreenInv, NEW list \in Lists, OpenForm(list)
  PROVE  ScreenInv'
<1>1. /\ UNCHANGED <<state, mounted, asked, calls, moved>>
      /\ page = "dashboard" /\ page' = "form"
  BY DEF OpenForm
<1>2. PostedIsTrue' /\ SendingWaits'
  BY <1>1 DEF ScreenInv, PostedIsTrue, SendingWaits, Made
<1> QED
  BY <1>1, <1>2 DEF ScreenInv, States

LEMMA NextKeepsScreen ==
  ASSUME FormInv, CallsInv, FieldsInv, ScreenInv, [Next]_vars
  PROVE  ScreenInv'
<1>1. ASSUME NEW c \in Calls, Submit(c) PROVE ScreenInv'
  BY <1>1, SubmitKeepsScreen
<1>2. ASSUME NEW c \in Calls, Carry(c) PROVE ScreenInv'
  BY <1>2, CarryCarries, CarryKeepsScreen
<1>3. ASSUME NEW c \in Calls, Settle(c) PROVE ScreenInv'
  BY <1>3, SettleKeepsScreen
<1>4. ASSUME NEW list \in Lists, OpenForm(list) PROVE ScreenInv'
  BY <1>4, OpenKeepsScreen
<1>5. ASSUME UNCHANGED <<page, fields, state, mounted, asked, calls, moved>>
      PROVE  ScreenInv'
  BY <1>5 DEF ScreenInv, PostedIsTrue, SendingWaits, Made, States
<1>6. ASSUME NEW list \in Lists, Refresh(list) PROVE ScreenInv'
  BY <1>5, <1>6 DEF Refresh
<1>7. CASE Type
  BY <1>7, EditKeepsScreen DEF Type
<1>8. CASE Leave \/ Reload \/ Redirect \/ Logout
  BY <1>8, NavigateKeepsScreen DEF Leave, Reload, Redirect, Logout
<1>9. ASSUME page' # "form" \/ page' = page, page # "form" \/ page' = page,
             UNCHANGED <<form, calls, moved>>
      PROVE  ScreenInv'
  BY <1>9 DEF ScreenInv, PostedIsTrue, SendingWaits, Made, States, form
<1>10. CASE Login \/ Revisit \/ Expire
  BY <1>9, <1>10 DEF Login, Revisit, LoginPage, Expire
<1>11. CASE UNCHANGED vars
  BY <1>9, <1>11 DEF vars
<1> QED
  BY <1>1, <1>2, <1>3, <1>4, <1>6, <1>7, <1>8, <1>10, <1>11 DEF Next

WholeInv == FormInv /\ CallsInv /\ FieldsInv /\ ScreenInv /\ inbox \subseteq Calls

\* All four parts hold in every reachable state.
LEMMA WholeInvariant == Spec => []WholeInv
<1>1. Init => WholeInv
  <2> SUFFICES ASSUME Init PROVE WholeInv
    OBVIOUS
  <2>1. CallsInv
    BY DEF Init, Unused, CallsInv, CallTrue
  <2>2. FieldsInv
    BY DEF Init, NoFields, FieldsInv
  <2>3. ScreenInv
    BY DEF Init, Idle, ScreenInv, States, PostedIsTrue, SendingWaits
  <2> QED
    BY <2>1, <2>2, <2>3, InitEstablishes DEF Init, WholeInv
<1>2. WholeInv /\ [Next]_vars => WholeInv'
  <2> SUFFICES ASSUME WholeInv, [Next]_vars PROVE WholeInv'
    OBVIOUS
  <2>1. FormInv' /\ inbox' \subseteq Calls
    BY NextKeeps DEF WholeInv, FormInv, InboxPassedOn
  <2>2. CallsInv' /\ ScreenInv'
    BY NextKeepsCalls, NextKeepsScreen DEF WholeInv
  <2>3. FieldsInv'
    BY NextKeepsFields DEF WholeInv, ScreenInv
  <2> QED
    BY <2>1, <2>2, <2>3 DEF WholeInv
<1> QED
  BY <1>1, <1>2, PTL DEF Spec

\* What the browser, the BFF and the API remember keeps its type; no call asks
\* for a transfer from an account to itself or across currencies, however the
\* list of accounts and the fields change.
THEOREM FormTypeCorrect == Spec => []TypeOK
<1>1. WholeInv => TypeOK
  BY DEF WholeInv, FieldsInv, ScreenInv, States, CallsInv, CallTrue, PostedIsTrue, TypeOK
<1> QED
  BY <1>1, WholeInvariant, PTL

\* A success on the screen is a transfer that happened, as the form sent it.
THEOREM PostedIsAlwaysTrue == Spec => []PostedIsTrue
<1>1. WholeInv => PostedIsTrue
  BY DEF WholeInv, ScreenInv
<1> QED
  BY <1>1, WholeInvariant, PTL

\* If the form breaks, what it waited for has happened: the answer was that of a
\* success, and only its receipt was lost.
THEOREM OnlyPostedBreaks == Spec => BreaksOnlyPosted
<1>1. ASSUME WholeInv, [Next]_vars, page' = "broken", page # "broken"
      PROVE  \E c \in mounted, m \in moved :
               calls[c].pending /\ ~calls'[c].pending /\ Made(c, m)
  <2>1. ASSUME NEW c \in Calls, Submit(c) \/ Carry(c) PROVE FALSE
    BY <1>1, <2>1, CarryCarries DEF Submit, WholeInv
  <2>2. ASSUME NEW c \in Calls, Lose(c) PROVE FALSE
    <3>1. Resume(c, "unavailable", None) /\ "unavailable" # "ok"
      BY <2>2 DEF Lose
    <3>2. \/ Navigate(LoginPage)
          \/ Show("unavailable", None)
          \/ UNCHANGED <<page, form>>
      BY <3>1, ResumeCases
    <3> QED
      BY <1>1, <3>2 DEF Navigate, Show, LoginPage
  <2>3. ASSUME NEW c \in Calls, Hear(c)
        PROVE  \E d \in mounted, m \in moved :
                 calls[d].pending /\ ~calls'[d].pending /\ Made(d, m)
    <3>1. PICK body : Resume(c, Interpret(calls[c].reply), body)
      BY <2>3 DEF Hear
    <3>2. /\ c \in mounted /\ calls[c].pending
          /\ Interpret(calls[c].reply) = "ok"
      BY <1>1, <3>1, ResumeCases DEF Navigate, Show, LoginPage
    <3>3. calls[c].receipt \in moved /\ Made(c, calls[c].receipt)
      BY <1>1, <2>3, <3>2 DEF Hear, WholeInv, CallsInv, CallTrue
    <3>4. ~calls'[c].pending
      BY <1>1, <3>1, ResumeCalls DEF WholeInv
    <3> QED
      BY <3>2, <3>3, <3>4
  <2>4. ASSUME NEW list \in Lists, OpenForm(list) \/ Refresh(list) PROVE FALSE
    BY <1>1, <2>4 DEF OpenForm, Refresh
  <2>5. CASE Type \/ Leave \/ Reload \/ Redirect \/ Expire \/ UNCHANGED vars
    BY <1>1, <2>5
    DEF Type, Edit, Leave, Reload, Redirect, Expire, vars, Navigate
  <2>6. CASE Logout \/ Login \/ Revisit
    <3>1. page' \in {"login", "dashboard"}
      BY <2>6 DEF Logout, Login, Revisit, Navigate, LoginPage
    <3> QED
      BY <1>1, <3>1
  <2> QED
    BY <1>1, <2>1, <2>2, <2>3, <2>4, <2>5, <2>6 DEF Next, Settle
<1>2. WholeInv /\ [Next]_vars =>
        [page' = "broken" /\ page # "broken" =>
           \E c \in mounted, m \in moved :
             calls[c].pending /\ ~calls'[c].pending /\ Made(c, m)]_vars
  BY <1>1
<1> QED
  BY <1>2, WholeInvariant, PTL DEF Spec, BreaksOnlyPosted

\* A form that cannot be used waits for a call of its own.
THEOREM SendingAlwaysWaits == Spec => []SendingWaits
<1>1. WholeInv => SendingWaits
  BY DEF WholeInv, ScreenInv
<1> QED
  BY <1>1, WholeInvariant, PTL

\* Whatever else happens in between, a form is sent again only after the user
\* typed an amount, was shown a failure, or opened the form anew.
THEOREM NothingSentUnasked == Spec => NothingTwiceUnasked
<1>1. WholeInv /\ [Next]_vars => [(\E c \in Calls : Submit(c)) => asked]_vars
  BY DEF WholeInv, ScreenInv, Submit, CanSubmit, MinorUnits
<1> QED
  BY <1>1, WholeInvariant, PTL DEF Spec, NothingTwiceUnasked

-----------------------------------------------------------------------------
(* What digits stand for                                                    *)

\* g reads the digits d from the first one on.
Reads(g, d) ==
  g = [n \in 0..Len(d) |-> IF n = 0 THEN 0 ELSE 10 * g[n - 1] + d[n]]

\* That is what Number does.
LEMMA NumberReads ==
  ASSUME NEW d
  PROVE  Number(d) = (CHOOSE g : Reads(g, d))[Len(d)]
BY DEF Number, Reads

\* One can read any digits: the first n of them, for every n.
LEMMA ReadsExists ==
  ASSUME NEW d \in Seq(Int)
  PROVE  \E g : Reads(g, d)
<1> DEFINE Upto(g, n) == g = [k \in 0..n |-> IF k = 0 THEN 0 ELSE 10 * g[k - 1] + d[k]]
           Bad == {n \in Nat : ~\E g : Upto(g, n)}
<1>1. SUFFICES ASSUME Bad # {} PROVE FALSE
  <2>1. Len(d) \in Nat
    OBVIOUS
  <2> QED
    BY <2>1 DEF Reads
<1>2. PICK n \in Bad : \A k \in Bad : n <= k
  BY <1>1, SmallestIndex
<1>3. CASE n = 0
  <2> DEFINE g == [k \in 0..0 |-> 0]
  <2>1. Upto(g, 0)
    OBVIOUS
  <2> QED
    BY <1>3, <2>1
<1>4. CASE n # 0
  <2>1. n - 1 \in Nat /\ n - 1 \notin Bad
    <3>1. n \in Nat /\ n - 1 \in Nat /\ ~(n <= n - 1)
      BY <1>4
    <3> HIDE DEF Bad
    <3> QED
      BY <1>2, <3>1
  <2>2. PICK h : Upto(h, n - 1)
    BY <2>1
  <2> DEFINE g == [k \in 0..n |-> IF k = 0 THEN 0 ELSE 10 * h[k - 1] + d[k]]
  <2>3. \A k \in 0..n : k # 0 => k - 1 \in 0..n - 1 /\ k - 1 \in 0..n
    BY <2>1
  <2>4. \A k \in 0..n - 1 : k \in 0..n /\ g[k] = h[k]
    <3> SUFFICES ASSUME NEW k \in 0..n - 1 PROVE k \in 0..n /\ g[k] = h[k]
      OBVIOUS
    <3>1. h[k] = IF k = 0 THEN 0 ELSE 10 * h[k - 1] + d[k]
      BY <2>2
    <3> QED
      BY <2>1, <3>1
  <2>5. \A k \in 0..n : k # 0 => g[k - 1] = h[k - 1]
    BY <2>3, <2>4
  <2>6. Upto(g, n)
    BY <2>5
  <2> QED
    BY <2>6
<1> QED
  BY <1>3, <1>4

\* What the first n digits of d stand for.
Prefix(d, n) == (CHOOSE g : Reads(g, d))[n]

\* Digit by digit, each time ten times more.
LEMMA PrefixStep ==
  ASSUME NEW d \in Seq(Int)
  PROVE  /\ Number(d) = Prefix(d, Len(d))
         /\ Prefix(d, 0) = 0
         /\ \A n \in 1..Len(d) : Prefix(d, n) = 10 * Prefix(d, n - 1) + d[n]
<1> DEFINE g == CHOOSE g : Reads(g, d)
<1>1. Reads(g, d)
  BY ReadsExists
<1>2. Number(d) = g[Len(d)]
  BY NumberReads
<1> HIDE DEF g
<1>3. Len(d) \in Nat
  OBVIOUS
<1>4. g[0] = 0 /\ \A n \in 1..Len(d) : g[n] = 10 * g[n - 1] + d[n]
  BY <1>1, <1>3 DEF Reads
<1>5. \A n : Prefix(d, n) = g[n]
  BY DEF Prefix, g
<1> QED
  BY <1>2, <1>4, <1>5

\* Numbers are integers.
LEMMA PrefixInt ==
  ASSUME NEW d \in Seq(Int)
  PROVE  \A n \in 0..Len(d) : Prefix(d, n) \in Int
<1> DEFINE Bad == {n \in 0..Len(d) : Prefix(d, n) \notin Int}
<1>1. SUFFICES ASSUME Bad # {} PROVE FALSE
  OBVIOUS
<1>2. PICK n \in Bad : \A k \in Bad : n <= k
  <2>1. Bad \in SUBSET Nat
    OBVIOUS
  <2> QED
    BY <1>1, <2>1, SmallestIndex
<1>3. n # 0
  BY PrefixStep
<1>4. n - 1 \in 0..Len(d) /\ n \in 1..Len(d) /\ n - 1 \notin Bad
  BY <1>2, <1>3
<1>5. Prefix(d, n) = 10 * Prefix(d, n - 1) + d[n] /\ d[n] \in Int
  BY <1>4, PrefixStep
<1> QED
  BY <1>4, <1>5

\* Zeros in front stand for nothing.
LEMMA PrefixZero ==
  ASSUME NEW e \in Seq(Int), NEW m \in 0..Len(e), \A i \in 1..m : e[i] = 0
  PROVE  Prefix(e, m) = 0
<1> DEFINE Bad == {n \in 0..m : Prefix(e, n) # 0}
<1>1. SUFFICES ASSUME Bad # {} PROVE FALSE
  OBVIOUS
<1>2. PICK n \in Bad : \A k \in Bad : n <= k
  <2>1. Bad \in SUBSET Nat
    OBVIOUS
  <2> QED
    BY <1>1, <2>1, SmallestIndex
<1>3. n # 0
  BY PrefixStep
<1>4. n - 1 \in 0..m /\ n \in 1..m /\ n \in 1..Len(e) /\ n - 1 \notin Bad
  BY <1>2, <1>3
<1>5. Prefix(e, n) = 10 * Prefix(e, n - 1) + e[n] /\ e[n] = 0
  BY <1>4, PrefixStep
<1> QED
  BY <1>4, <1>5

\* After nothing, the digits of d stand for what they stand for in d.
LEMMA PrefixSame ==
  ASSUME NEW e \in Seq(Int), NEW d \in Seq(Int), NEW m \in Nat, NEW n \in Nat,
         n <= Len(d), m + n <= Len(e), Prefix(e, m) = 0,
         \A i \in 1..n : e[m + i] = d[i]
  PROVE  Prefix(e, m + n) = Prefix(d, n)
<1> DEFINE Bad == {k \in 0..n : Prefix(e, m + k) # Prefix(d, k)}
<1>1. SUFFICES ASSUME n \in Bad PROVE FALSE
  OBVIOUS
<1>2. PICK k \in Bad : \A j \in Bad : k <= j
  <2>1. Bad \in SUBSET Nat
    OBVIOUS
  <2> QED
    BY <1>1, <2>1, SmallestIndex
<1>3. k # 0
  <2>1. m + 0 = m
    OBVIOUS
  <2>2. Prefix(e, m + 0) = Prefix(d, 0)
    BY <2>1, PrefixStep
  <2> QED
    BY <1>2, <2>2
<1>4. /\ k - 1 \in 0..n /\ k \in 1..n /\ k \in 1..Len(d) /\ m + k \in 1..Len(e)
      /\ k - 1 \notin Bad /\ (m + k) - 1 = m + (k - 1)
  <2>1. k \in 0..n /\ Len(d) \in Nat /\ Len(e) \in Nat
    OBVIOUS
  <2>2. /\ k - 1 \in 0..n /\ k \in 1..n /\ k \in 1..Len(d) /\ m + k \in 1..Len(e)
        /\ (m + k) - 1 = m + (k - 1) /\ ~(k <= k - 1)
    BY <1>3, <2>1, SMTT(30)
  <2> HIDE DEF Bad
  <2> QED
    BY <1>2, <2>2
<1>5. Prefix(e, m + k) = 10 * Prefix(e, m + (k - 1)) + e[m + k]
  BY <1>4, PrefixStep
<1>6. Prefix(d, k) = 10 * Prefix(d, k - 1) + d[k]
  BY <1>4, PrefixStep
<1>7. Prefix(e, m + (k - 1)) = Prefix(d, k - 1) /\ e[m + k] = d[k]
  BY <1>4
<1>8. Prefix(e, m + k) # Prefix(d, k)
  BY <1>2
<1> HIDE DEF Bad
<1> QED
  BY <1>5, <1>6, <1>7, <1>8

\* Digits behind zeros stand for what they stand for alone.
LEMMA NumberOfTail ==
  ASSUME NEW e \in Seq(Int), NEW m \in 0..Len(e), \A i \in 1..m : e[i] = 0,
         NEW d \in Seq(Int), Len(d) = Len(e) - m, \A i \in 1..Len(d) : d[i] = e[m + i]
  PROVE  Number(d) = Number(e)
<1>1. Prefix(e, m) = 0
  BY PrefixZero
<1> DEFINE n == Len(d)
<1>2. n \in Nat /\ m \in Nat /\ m + n = Len(e)
  OBVIOUS
<1>3. n <= Len(d) /\ m + n <= Len(e) /\ \A i \in 1..n : e[m + i] = d[i]
  BY <1>2
<1> HIDE DEF n
<1>4. Prefix(e, m + n) = Prefix(d, n)
  BY <1>1, <1>2, <1>3, PrefixSame
<1>5. Number(d) = Prefix(d, n) /\ Number(e) = Prefix(e, m + n)
  BY <1>2, PrefixStep DEF n
<1> QED
  BY <1>4, <1>5

\* A zero behind the digits makes ten times as much of them.
LEMMA NumberOfAppend ==
  ASSUME NEW d \in Seq(Int)
  PROVE  /\ Append(d, 0) \in Seq(Int)
         /\ Number(Append(d, 0)) = 10 * Number(d)
         /\ Number(d) \in Int
<1> DEFINE e == Append(d, 0)
           n == Len(d)
<1>1. /\ e \in Seq(Int) /\ Len(e) = n + 1 /\ e[n + 1] = 0 /\ n \in Nat
      /\ n <= Len(d) /\ 0 + n <= Len(e) /\ 0 \in Nat
      /\ \A i \in 1..n : e[0 + i] = d[i]
  OBVIOUS
<1> HIDE DEF e, n
<1>2. Prefix(e, 0) = 0
  BY <1>1, PrefixStep
<1>3. Prefix(e, n) = Prefix(d, n)
  <2>1. Prefix(e, 0 + n) = Prefix(d, n)
    BY <1>1, <1>2, PrefixSame
  <2>2. 0 + n = n
    BY <1>1
  <2> QED
    BY <2>1, <2>2
<1>4. Prefix(e, n + 1) = 10 * Prefix(e, n) + e[n + 1]
  BY <1>1, PrefixStep
<1>5. Number(e) = Prefix(e, n + 1) /\ Number(d) = Prefix(d, n)
  BY <1>1, PrefixStep DEF n
<1>6. Prefix(d, n) \in Int
  BY <1>1, PrefixInt DEF n
<1>7. Number(e) = 10 * Number(d)
  BY <1>1, <1>3, <1>4, <1>5, <1>6
<1> QED
  BY <1>1, <1>5, <1>6, <1>7 DEF e

-----------------------------------------------------------------------------
(* Amounts                                                                  *)

\* The zeros that are filled in.
LEMMA ZerosAre ==
  ASSUME NEW n \in Int
  PROVE  /\ Zeros(n) \in Seq(0..9)
         /\ Len(Zeros(n)) = IF n > 0 THEN n ELSE 0
         /\ \A i \in 1..Len(Zeros(n)) : Zeros(n)[i] = 0
<1>1. CASE n > 0
  BY <1>1 DEF Zeros
<1>2. CASE ~(n > 0)
  BY <1>2 DEF Zeros
<1> QED
  BY <1>1, <1>2

\* Removing zeros changes no number, and leaves none in front of other digits.
LEMMA StrippedSame ==
  ASSUME NEW d \in Seq(0..9)
  PROVE  /\ Stripped(d) \in Seq(0..9)
         /\ Number(Stripped(d)) = Number(d)
         /\ Len(Stripped(d)) > 0
         /\ Len(Stripped(d)) > 1 => Stripped(d)[1] # 0
<1> DEFINE significant == {i \in DOMAIN d : d[i] # 0}
           first == CHOOSE i \in significant : \A j \in significant : i <= j
<1>1. d \in Seq(Int) /\ Len(d) \in Nat /\ DOMAIN d = 1..Len(d)
  OBVIOUS
<1>2. CASE significant = {}
  <2>1. Stripped(d) = <<0>>
    BY <1>2 DEF Stripped
  <2>2. <<0>> \in Seq(Int) /\ Len(<<0>>) = 1 /\ <<0>>[1] = 0
    OBVIOUS
  <2>3. Prefix(<<0>>, 1) = 0
    <3> DEFINE z == <<0>>
    <3>1. z \in Seq(Int) /\ 1 \in 0..Len(z) /\ \A i \in 1..1 : z[i] = 0
      OBVIOUS
    <3> HIDE DEF z
    <3>2. Prefix(z, 1) = 0
      BY <3>1, PrefixZero
    <3> QED
      BY <3>2 DEF z
  <2>4. \A i \in 1..Len(d) : d[i] = 0
    BY <1>1, <1>2
  <2>5. Prefix(d, Len(d)) = 0
    BY <1>1, <2>4, PrefixZero
  <2>6. Number(<<0>>) = Prefix(<<0>>, 1)
    BY <2>2, PrefixStep
  <2>7. Number(<<0>>) = Number(d)
    BY <1>1, <2>3, <2>5, <2>6, PrefixStep
  <2> QED
    BY <2>1, <2>7
<1>3. CASE significant # {}
  <2>1. first \in significant /\ \A j \in significant : first <= j
    <3>1. significant \in SUBSET Nat
      BY <1>1
    <3> HIDE DEF significant
    <3> QED
      BY <1>3, <3>1, SmallestIndex
  <2>2. Stripped(d) = SubSeq(d, first, Len(d))
    BY <1>3 DEF Stripped
  <2> HIDE DEF first
  <2>3. first \in 1..Len(d) /\ d[first] # 0 /\ \A i \in 1..(first - 1) : d[i] = 0
    BY <1>1, <2>1
  <2> DEFINE e == SubSeq(d, first, Len(d))
  <2>4. /\ e \in Seq(0..9) /\ Len(e) = Len(d) - (first - 1)
        /\ \A i \in 1..Len(e) : e[i] = d[(first - 1) + i]
    BY <2>3, SubSeqProperties
  <2> HIDE DEF e
  <2>5. e \in Seq(Int) /\ first - 1 \in 0..Len(d)
    BY <2>3, <2>4
  <2>6. Number(e) = Number(d)
    BY <1>1, <2>3, <2>4, <2>5, NumberOfTail
  <2>7. Len(e) > 0 /\ e[1] # 0
    BY <2>3, <2>4
  <2> QED
    BY <2>2, <2>4, <2>6, <2>7 DEF e
<1> QED
  BY <1>2, <1>3

\* The powers of ten that the scales of currencies need.
LEMMA Powers == 10 ^ 0 = 1 /\ 10 ^ 1 = 10 /\ 10 ^ 2 = 100
OBVIOUS

\* Two zeros are filled in one by one.
LEMMA TwoZeros ==
  ASSUME NEW d \in Seq(Int)
  PROVE  d \o [i \in 1..2 |-> 0] = Append(Append(d, 0), 0)
<1> DEFINE zeros == [i \in 1..2 |-> 0]
           e == d \o zeros
           once == Append(d, 0)
           twice == Append(once, 0)
<1>1. zeros \in Seq(Int) /\ Len(zeros) = 2 /\ zeros[1] = 0 /\ zeros[2] = 0
  OBVIOUS
<1> HIDE DEF zeros
<1>2. /\ e \in Seq(Int) /\ Len(e) = Len(d) + 2 /\ Len(d) \in Nat
      /\ \A i \in 1..Len(e) : e[i] = IF i <= Len(d) THEN d[i] ELSE 0
  <2>1. /\ e \in Seq(Int) /\ Len(e) = Len(d) + 2 /\ Len(d) \in Nat
        /\ \A i \in 1..Len(e) : e[i] = IF i <= Len(d) THEN d[i] ELSE zeros[i - Len(d)]
    <3>1. Len(d) \in Nat
      OBVIOUS
    <3>2. /\ d \o zeros \in Seq(Int) /\ Len(d \o zeros) = Len(d) + Len(zeros)
          /\ \A i \in 1..Len(d) + Len(zeros) :
               (d \o zeros)[i] = IF i <= Len(d) THEN d[i] ELSE zeros[i - Len(d)]
      BY <1>1, ConcatProperties
    <3> QED
      BY <1>1, <3>1, <3>2
  <2> HIDE DEF e
  <2>2. SUFFICES ASSUME NEW i \in 1..Len(e)
                 PROVE  e[i] = IF i <= Len(d) THEN d[i] ELSE 0
    BY <2>1
  <2>3. e[i] = IF i <= Len(d) THEN d[i] ELSE zeros[i - Len(d)]
    BY <2>1
  <2>4. i <= Len(d) \/ i - Len(d) = 1 \/ i - Len(d) = 2
    <3>1. ASSUME NEW n \in Nat, NEW j \in 1..(n + 2)
          PROVE  j <= n \/ j - n = 1 \/ j - n = 2
      OBVIOUS
    <3>2. i \in 1..(Len(d) + 2) /\ Len(d) \in Nat
      BY <2>1
    <3> QED
      BY <3>1, <3>2
  <2>5. i <= Len(d) \/ zeros[i - Len(d)] = 0
    BY <1>1, <2>4
  <2> QED
    BY <2>3, <2>5
<1>3. /\ once \in Seq(Int) /\ Len(once) = Len(d) + 1
      /\ \A i \in 1..Len(once) : once[i] = IF i <= Len(d) THEN d[i] ELSE 0
  OBVIOUS
<1> HIDE DEF once
<1>4. /\ twice \in Seq(Int) /\ Len(twice) = Len(d) + 2
      /\ \A i \in 1..Len(twice) : twice[i] = IF i <= Len(d) THEN d[i] ELSE 0
  BY <1>2, <1>3
<1> HIDE DEF twice, e
<1>5. e = twice
  BY <1>2, <1>4, SeqEqual
<1> QED
  BY <1>5 DEF e, twice, once, zeros

\* What is sent for a decimal, and what it stands for.
LEMMA SentIs ==
  ASSUME NEW t \in [whole : Seq(0..9) \ {<<>>}, fraction : Seq(0..9)],
         NEW currency, Len(t.fraction) <= scaleOf(currency)
  PROVE  LET sent == toMinorUnits(t, currency)
             digits == t.whole \o t.fraction
         IN  /\ sent \in Seq(0..9) /\ Len(sent) > 0
             /\ Len(sent) > 1 => sent[1] # 0
             /\ Number(digits) \in Int
             /\ Number(sent) = Number(digits) * 10 ^ (scaleOf(currency) - Len(t.fraction))
<1> DEFINE digits == t.whole \o t.fraction
           missing == scaleOf(currency) - Len(t.fraction)
           filled == t.whole \o t.fraction \o Zeros(missing)
<1>1. /\ digits \in Seq(0..9) /\ digits \in Seq(Int)
      /\ scaleOf(currency) \in {0, 2} /\ missing \in 0..2
  <2>1. t.whole \in Seq(0..9) /\ t.fraction \in Seq(0..9) /\ Len(t.fraction) \in Nat
    OBVIOUS
  <2>2. scaleOf(currency) \in {0, 2}
    BY DEF scaleOf
  <2> QED
    BY <2>1, <2>2
<1>2. filled \in Seq(0..9)
  <2>1. missing \in Int
    BY <1>1
  <2>2. t.whole \o t.fraction \in Seq(0..9)
    BY <1>1
  <2> HIDE DEF missing
  <2>3. Zeros(missing) \in Seq(0..9)
    BY <2>1, ZerosAre
  <2> QED
    BY <2>2, <2>3
<1>3. filled = digits \o Zeros(missing)
  OBVIOUS
<1>4. toMinorUnits(t, currency) = Stripped(filled)
  BY <1>1 DEF toMinorUnits
<1> HIDE DEF digits, missing
<1>5. Number(filled) = Number(digits) * 10 ^ missing /\ Number(digits) \in Int
  <2> DEFINE once == Append(digits, 0)
             twice == Append(once, 0)
  <2>1. once \in Seq(Int) /\ Number(once) = 10 * Number(digits) /\ Number(digits) \in Int
    BY <1>1, NumberOfAppend
  <2> HIDE DEF once
  <2>2. Number(twice) = 10 * Number(once)
    BY <2>1, NumberOfAppend
  <2>3. CASE missing = 0
    <3>1. filled = digits
      BY <1>1, <1>3, <2>3 DEF Zeros
    <3>2. 10 ^ missing = 1
      BY <2>3, Powers
    <3> QED
      BY <2>1, <3>1, <3>2
  <2>4. CASE missing = 1
    <3>1. filled = once
      BY <1>1, <1>3, <2>4, SMTT(30) DEF Zeros, once
    <3>2. 10 ^ missing = 10
      BY <2>4, Powers
    <3> QED
      BY <2>1, <3>1, <3>2
  <2>5. CASE missing = 2
    <3>1. filled = twice
      <4>1. Zeros(missing) = [i \in 1..2 |-> 0]
        BY <2>5 DEF Zeros
      <4>2. digits \in Seq(Int) /\ filled = digits \o [i \in 1..2 |-> 0]
        BY <1>1, <1>3, <4>1
      <4> HIDE DEF filled
      <4> QED
        BY <4>2, TwoZeros DEF once
    <3>2. 10 ^ missing = 100
      BY <2>5, Powers
    <3> QED
      BY <2>1, <2>2, <3>1, <3>2
  <2> QED
    BY <1>1, <2>3, <2>4, <2>5
<1> HIDE DEF filled
<1> QED
  BY <1>2, <1>4, <1>5, StrippedSame DEF digits, missing

\* What is shown for an amount stands for it, with the decimals of its currency.
LEMMA ShownIs ==
  ASSUME NEW d \in Seq(0..9), Len(d) > 0, NEW currency
  PROVE  LET shown == formatMoney(d, currency)
         IN  /\ Number(shown.whole \o shown.fraction) = Number(d)
             /\ Len(shown.fraction) = scaleOf(currency)
<1> DEFINE scale == scaleOf(currency)
           zeros == Zeros(scale + 1 - Len(d))
           padded == zeros \o d
           point == Len(padded) - scale
<1>1. scale \in {0, 2} /\ Len(d) \in Nat
  BY DEF scaleOf
<1>2. /\ zeros \in Seq(0..9) /\ \A i \in 1..Len(zeros) : zeros[i] = 0
      /\ Len(zeros) = IF scale + 1 - Len(d) > 0 THEN scale + 1 - Len(d) ELSE 0
  <2>1. scale + 1 - Len(d) \in Int
    BY <1>1
  <2> HIDE DEF scale
  <2> QED
    BY <2>1, ZerosAre
<1> HIDE DEF zeros, scale
<1>3. /\ padded \in Seq(0..9) /\ Len(padded) = Len(zeros) + Len(d)
      /\ \A i \in 1..Len(zeros) : padded[i] = 0
      /\ \A i \in 1..Len(d) : d[i] = padded[Len(zeros) + i]
  BY <1>2, SMTT(30)
<1> HIDE DEF padded
<1>4. point \in 1..Len(padded) /\ Len(padded) - point = scale
  BY <1>1, <1>2, <1>3
<1>5. Number(padded) = Number(d)
  <2>1. /\ padded \in Seq(Int) /\ d \in Seq(Int) /\ Len(zeros) \in 0..Len(padded)
        /\ Len(d) = Len(padded) - Len(zeros)
    BY <1>1, <1>2, <1>3, SMTT(30)
  <2> QED
    BY <1>3, <2>1, NumberOfTail
<1> DEFINE whole == SubSeq(padded, 1, point)
           fraction == SubSeq(padded, point + 1, Len(padded))
<1>6. whole \o fraction = padded /\ Len(fraction) = scale
  BY <1>1, <1>3, <1>4
<1>7. formatMoney(d, currency) = [whole |-> whole, fraction |-> fraction]
  BY DEF formatMoney, padded, zeros, scale
<1> HIDE DEF whole, fraction, point
<1>8. /\ formatMoney(d, currency).whole = whole
      /\ formatMoney(d, currency).fraction = fraction
  BY <1>7
<1> QED
  BY <1>5, <1>6, <1>8 DEF scale

\* All decimals a user may type, in any currency.
LEMMA ExactForAll == ASSUME NEW currency PROVE Exact(Decimals, currency)
<1> DEFINE sent == [t \in Decimals |-> toMinorUnits(t, currency)]
           scale == scaleOf(currency)
<1>1. ASSUME NEW t \in Decimals, ~(Len(t.fraction) > scaleOf(currency))
      PROVE  /\ SameNumber(formatMoney(sent[t], currency), t)
             /\ Len(sent[t]) > 1 => sent[t][1] # 0
  <2> DEFINE shown == formatMoney(sent[t], currency)
             n == Len(t.fraction)
  <2>1. /\ t \in [whole : Seq(0..9) \ {<<>>}, fraction : Seq(0..9)]
        /\ n \in Nat /\ scale \in {0, 2} /\ n <= scale
    BY <1>1, FormAssumption DEF scaleOf
  <2>2. /\ sent[t] \in Seq(0..9) /\ Len(sent[t]) > 0
        /\ Len(sent[t]) > 1 => sent[t][1] # 0
        /\ Number(t.whole \o t.fraction) \in Int
        /\ Number(sent[t]) = Number(t.whole \o t.fraction) * 10 ^ (scale - n)
    BY <2>1, SentIs
  <2>3. /\ Number(shown.whole \o shown.fraction) = Number(sent[t])
        /\ Len(shown.fraction) = scale
    BY <2>2, ShownIs
  <2> HIDE DEF shown, sent
  <2> DEFINE number == Number(t.whole \o t.fraction)
  <2> HIDE DEF n, scale, number
  <2>4. \/ n = 0 /\ scale = 0 /\ scale - n = 0
        \/ n = 0 /\ scale = 2 /\ scale - n = 2
        \/ n = 1 /\ scale = 2 /\ scale - n = 1
        \/ n = 2 /\ scale = 2 /\ scale - n = 0
    BY <2>1
  <2>5. \/ 10 ^ n = 1 /\ 10 ^ scale = 1 /\ 10 ^ (scale - n) = 1
        \/ 10 ^ n = 1 /\ 10 ^ scale = 100 /\ 10 ^ (scale - n) = 100
        \/ 10 ^ n = 10 /\ 10 ^ scale = 100 /\ 10 ^ (scale - n) = 10
        \/ 10 ^ n = 100 /\ 10 ^ scale = 100 /\ 10 ^ (scale - n) = 1
    BY <2>4, Powers
  <2>6. number \in Int /\ Number(sent[t]) = number * 10 ^ (scale - n)
    BY <2>2 DEF number, scale, n
  <2>7. Number(sent[t]) * 10 ^ n = number * 10 ^ scale
    BY <2>5, <2>6
  <2>8. SameNumber(shown, t)
    BY <2>3, <2>7 DEF SameNumber, number, n
  <2> QED
    BY <2>2, <2>8 DEF shown
<1>2. ASSUME NEW t \in Decimals, sent[t] # None PROVE ~(Len(t.fraction) > scale)
  <2>1. Len(t.fraction) \in Nat /\ scale \in Int
    BY FormAssumption DEF scaleOf
  <2> HIDE DEF scale
  <2>2. ~(scale - Len(t.fraction) < 0)
    BY <1>2 DEF toMinorUnits, scale
  <2> QED
    BY <2>1, <2>2
<1>3. ASSUME NEW t \in Decimals, sent[t] = None PROVE Len(t.fraction) > scale
  <2>1. /\ t \in [whole : Seq(0..9) \ {<<>>}, fraction : Seq(0..9)]
        /\ Len(t.fraction) \in Nat /\ scale \in Int
    BY FormAssumption DEF scaleOf
  <2>2. Len(t.fraction) <= scale => sent[t] \in Seq(0..9)
    BY <2>1, SentIs
  <2> HIDE DEF scale, sent
  <2> QED
    BY <1>3, <2>1, <2>2, FormAssumption
<1>4. \A t \in Decimals : sent[t] # None <=> ~(Len(t.fraction) > scale)
  BY <1>2, <1>3
<1> QED
  BY <1>1, <1>4 DEF Exact

\* Every decimal a user may type, however long, is sent as the number that it
\* is, in the only spelling without zeros in front, and is shown as that number
\* again (toMinorUnits, formatMoney).
THEOREM AmountsAlwaysExact == Spec => []AmountsExact
<1>1. TypeOK => AmountsExact
  <2> SUFFICES ASSUME TypeOK, fields.from # None
               PROVE  ExactIn[CurrencyOf[fields.from]]
    BY DEF AmountsExact
  <2>1. fields.from \in Accounts
    BY DEF TypeOK, NoFields
  <2> DEFINE currency == CurrencyOf[fields.from]
  <2>2. currency \in {CurrencyOf[a] : a \in Accounts}
    BY <2>1
  <2> HIDE DEF currency
  <2>3. Exact(Decimals, currency)
    BY ExactForAll
  <2>4. ExactIn[currency] = Exact(Decimals, currency)
    BY <2>2 DEF ExactIn
  <2> QED
    BY <2>3, <2>4 DEF currency
<1> QED
  BY <1>1, FormTypeCorrect, PTL
=============================================================================
