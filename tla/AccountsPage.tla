---------------------------- MODULE AccountsPage -----------------------------
(***************************************************************************)
(* The accounts page of the dashboard beside the write side and the other  *)
(* pages: the API lists the accounts a user may see in one statement and   *)
(* reads each balance in one of its own; the form above the list opens     *)
(* accounts, with calls that carry no key and may be lost, and has the     *)
(* page rendered again.                                                    *)
(***************************************************************************)
EXTENDS LedgerReaders

CONSTANTS
  User,      \* the owner who is logged in
  Openings   \* the calls to open an account the page may make

ASSUME PageAssumption ==
  User \in Owners /\ None \notin Openings

VARIABLES
  list,      \* is the page on the screen, with which list, and is one being
             \* rendered; that one, the accounts it still needs the balance of;
             \* whether a refresh is due, and whether the journal has stood
             \* still since the accounts were last read
  opening,   \* the form: the call it waits for, its error, the accounts it
             \* was told of
  calls      \* each call: where it is, and the account it opened

pageVars == <<list, opening, calls>>
dashboard == <<allVars, pageVars>>

\* A list without rows: nothing on the screen but, at most, an error.
NoList == <<>>

ListClosed == [shown |-> FALSE, screen |-> NoList, rendering |-> FALSE,
               next |-> NoList, todo |-> {}, due |-> FALSE, quiet |-> TRUE]

FormIdle == [waiting |-> None, error |-> FALSE, told |-> {}]

PageInit ==
  /\ ReadersInit
  /\ list = ListClosed
  /\ opening = FormIdle
  /\ calls = [c \in Openings |-> [at |-> "unused", account |-> None]]

-----------------------------------------------------------------------------
(* The list                                                                 *)

\* listVisibleTo: the user's own accounts and the system's.
Visible == {a \in opened : OwnerOf[a] = User \/ a \in SystemAccounts}

\* The browser shows one page at a time.
OtherPagesClosed == view.stage = "closed" /\ audit.stage = "idle"

\* The page is opened or rendered again: first the accounts.  Renderings of one
\* page do not overlap.
ListAccounts ==
  /\ OtherPagesClosed
  /\ ~list.rendering
  /\ ConnectionFree
  /\ list' = [list EXCEPT !.rendering = TRUE, !.next = NoList, !.todo = Visible,
                          !.due = FALSE, !.quiet = TRUE]
  /\ UNCHANGED <<allVars, opening, calls>>

\* ... then the balance of each, in any order.
ReadListedBalance(a) ==
  /\ a \in list.todo
  /\ ConnectionFree
  /\ list' = [list EXCEPT !.todo = @ \ {a},
                          !.next = [b \in DOMAIN @ \cup {a} |->
                             IF b = a THEN balance[a].balance ELSE @[b]]]
  /\ UNCHANGED <<allVars, opening, calls>>

\* The rendering replaces what is on the screen.
ShowList ==
  /\ list.rendering
  /\ list.todo = {}
  /\ list' = [list EXCEPT !.shown = TRUE, !.screen = list.next,
                          !.rendering = FALSE, !.next = NoList]
  /\ UNCHANGED <<allVars, opening, calls>>

\* A read fails: an error in place of the list.
FailList ==
  /\ list.rendering
  /\ list' = [list EXCEPT !.shown = TRUE, !.screen = NoList,
                          !.rendering = FALSE, !.next = NoList, !.todo = {}]
  /\ UNCHANGED <<allVars, opening, calls>>

\* Another page, or the login page; the form goes with this one.
LeavePage ==
  /\ list' = ListClosed
  /\ opening' = FormIdle

InUse == list.shown \/ list.rendering

Leave ==
  /\ InUse
  /\ LeavePage
  /\ UNCHANGED <<allVars, calls>>

-----------------------------------------------------------------------------
(* The form                                                                 *)

\* submit() up to its await.
Submit(c) ==
  /\ list.shown
  /\ opening.waiting = None
  /\ calls[c].at = "unused"
  /\ calls' = [calls EXCEPT ![c].at = "sent"]
  /\ opening' = [opening EXCEPT !.waiting = c, !.error = FALSE]
  /\ UNCHANGED <<allVars, list>>

\* AccountsService.open, for a call that may have been given up.
OpenFor(c, a) ==
  /\ calls[c].at = "sent"
  /\ OwnerOf[a] = User
  /\ OpenAccount(a)
  /\ calls' = [calls EXCEPT ![c] = [at |-> "opened", account |-> a]]
  /\ UNCHANGED <<readers, list, opening>>

\* The controller's balanceOf and the answer; a read that fails makes it a 500
\* although the account is there.
AnswerOpening(c) ==
  /\ calls[c].at = "opened"
  /\ \E reply \in {"created", "failed"} : calls' = [calls EXCEPT ![c].at = reply]
  /\ UNCHANGED <<allVars, list, opening>>

\* No session, an unknown currency, or a failure before the commit.
DeclineOpening(c) ==
  /\ calls[c].at = "sent"
  /\ \E reply \in {"unauthorized", "failed"} :
       calls' = [calls EXCEPT ![c].at = reply]
  /\ UNCHANGED <<allVars, list, opening>>

\* Faulty variant: an account without the refresh.
ToldWithoutRefresh(c) ==
  /\ opening' = [opening EXCEPT !.waiting = None, !.told = @ \cup {calls[c].account}]
  /\ UNCHANGED list

\* submit() after its await: an account, and a refresh.
Told(c) ==
  /\ opening' = [opening EXCEPT !.waiting = None, !.told = @ \cup {calls[c].account}]
  /\ list' = [list EXCEPT !.due = TRUE]

\* ... or an error, after which the list stays as it is.
Failed ==
  /\ opening' = [opening EXCEPT !.waiting = None, !.error = TRUE]
  /\ UNCHANGED list

Hear(c) ==
  /\ opening.waiting = c
  /\ \/ calls[c].at = "created" /\ Told(c)
     \/ calls[c].at = "failed" /\ Failed
     \/ calls[c].at = "unauthorized" /\ LeavePage
  /\ UNCHANGED <<allVars, calls>>

\* The call is lost on either hop, before or after the API has served it.
LoseOpening(c) ==
  /\ opening.waiting = c
  /\ Failed
  /\ UNCHANGED <<allVars, calls>>

-----------------------------------------------------------------------------

ListSteps ==
  \/ ListAccounts \/ ShowList \/ FailList \/ Leave
  \/ \E a \in Accounts : ReadListedBalance(a)

FormSteps ==
  \E c \in Openings :
    \/ Submit(c) \/ AnswerOpening(c) \/ DeclineOpening(c)
    \/ Hear(c) \/ LoseOpening(c)
    \/ \E a \in Accounts : OpenFor(c, a)

\* The steps of the other pages and of the write side.
OtherSteps ==
  /\ Write \/ (~InUse /\ (Browse \/ Verify))
  /\ list' = [list EXCEPT !.quiet =
                @ /\ (InUse => journal' = journal)]
  /\ UNCHANGED <<opening, calls>>

PageNext == OtherSteps \/ ListSteps \/ FormSteps

PageSpec == PageInit /\ [][PageNext]_dashboard

-----------------------------------------------------------------------------
(* Properties                                                               *)

\* An account the user was told of is on the list once the refresh that follows
\* has been rendered (open-account-form.tsx), even if that rendering had to
\* wait for an older one that began before the account was there.
ToldIsListed ==
  list.screen # NoList /\ ~list.due /\ ~list.rendering =>
    opening.told \subseteq DOMAIN list.screen

\* The balances of the list come from as many statements as there are accounts;
\* as long as no transaction has committed since the first of them, together
\* they are the balances the statements of the accounts end at, half-done
\* transfers notwithstanding (accounts.controller.ts, list).
ListedAtRest ==
  list.quiet /\ ~list.rendering =>
    \A a \in DOMAIN list.screen :
      list.screen[a] = LastBalance(PostingsOf(a))
=============================================================================
