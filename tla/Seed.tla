-------------------------------- MODULE Seed --------------------------------
(***************************************************************************)
(* The demo seed: a script that looks for an account of the owner and, if  *)
(* there is none, opens three, posts a history of transfers under fixed    *)
(* keys, and reverses the last of them.  Every step is a transaction of    *)
(* its own on the ledger; the script is not one.  Runs may overlap, stop   *)
(* anywhere, be started again and be started for another owner, owners     *)
(* open accounts themselves, and the demo is reset to nothing.  The ledger *)
(* is reduced to what Ledger shows of it: a transfer happens once under a  *)
(* key.                                                                    *)
(***************************************************************************)
EXTENDS Integers, Sequences, FiniteSets

CONSTANTS
  Runs,       \* the processes that may be started
  Owners,     \* the values of DEMO_OWNER_SUBJECT
  Movements,  \* the transfers in order: their keys, and which of the three
              \* accounts they move between; 0 is @world
  None

\* What the seed posts is known by its keys, and never world to world; an
\* account that an owner opens is that of no run.
ASSUME SeedAssumption ==
  /\ Movements \in Seq([key : STRING, from : 0..3, to : 0..3])
  /\ Movements # <<>>
  /\ \A i \in DOMAIN Movements : Movements[i].from # Movements[i].to
  /\ \A i, j \in DOMAIN Movements :
       Movements[i].key = Movements[j].key => i = j
  /\ None \notin Runs

VARIABLES
  accounts,   \* the accounts of owners: whose, and opened by which run
  journal,    \* the transfers that seeds posted, in the order of their seq
  reversed,   \* the transfers among them that were reversed
  runs        \* each run: where it is, how many of its steps there it has
              \* done, for whom it runs, and had a run for that owner been
              \* applied when it started?

vars == <<accounts, journal, reversed, runs>>

Unused == [at |-> "unused", done |-> 0, owner |-> None, again |-> FALSE]

Init ==
  /\ accounts = {}
  /\ journal = <<>>
  /\ reversed = {}
  /\ runs = [r \in Runs |-> Unused]

Goto(r, stage) == runs' = [runs EXCEPT ![r].at = stage, ![r].done = 0]

\* The next of n steps at this stage, or on to the following one.
Advance(r, n, stage) ==
  IF runs[r].done + 1 = n THEN Goto(r, stage)
                          ELSE runs' = [runs EXCEPT ![r].done = @ + 1]

Posted == {journal[i] : i \in DOMAIN journal}

\* DEMO_OWNER_SUBJECT is read and the application context starts.
Start(r, owner) ==
  /\ runs[r].at = "unused"
  /\ runs' = [runs EXCEPT ![r] =
       [at |-> "check", done |-> 0, owner |-> owner,
        again |-> \E q \in Runs : runs[q].at = "applied" /\ runs[q].owner = owner]]
  /\ UNCHANGED <<accounts, journal, reversed>>

\* Faulty variant: no look at what is there.
HasAccountUnchecked(owner) == FALSE

HasAccount(owner) == \E a \in accounts : a.owner = owner

Check(r) ==
  /\ runs[r].at = "check"
  /\ Goto(r, IF HasAccount(runs[r].owner) THEN "already" ELSE "open")
  /\ UNCHANGED <<accounts, journal, reversed>>

Open(r) ==
  /\ runs[r].at = "open"
  /\ accounts' = accounts \cup
       {[owner |-> runs[r].owner, run |-> r, nr |-> runs[r].done + 1]}
  /\ Advance(r, 3, "post")
  /\ UNCHANGED <<journal, reversed>>

\* The ids differ from run to run, except that of @world.
AccountId(r, nr) == IF nr = 0 THEN <<None, 0>> ELSE <<r, nr>>

\* Faulty variant: a key of its own for each run.
KeyPerRun(r, m) == <<r, m.key>>

\* The idempotency key of a movement.
KeyOf(r, m) == m.key

Transfer(r, m) ==
  [key |-> KeyOf(r, m), from |-> AccountId(r, m.from), to |-> AccountId(r, m.to)]

NextTransfer(r) == Transfer(r, Movements[runs[r].done + 1])

KeyUsed(r) == \E p \in Posted : p.key = NextTransfer(r).key

\* post(), under a key nobody used.
Post(r) ==
  /\ runs[r].at = "post"
  /\ ~KeyUsed(r)
  /\ journal' = Append(journal, NextTransfer(r))
  /\ Advance(r, Len(Movements), "reverse")
  /\ UNCHANGED <<accounts, reversed>>

\* Faulty variant: the result of the transfer is not looked at.
ConflictIgnored(r) ==
  /\ runs[r].at = "post"
  /\ KeyUsed(r)
  /\ Advance(r, Len(Movements), "reverse")
  /\ UNCHANGED <<accounts, journal, reversed>>

\* Another run used the key, and for its own accounts: idempotency_conflict,
\* and the script throws.
Conflict(r) ==
  /\ runs[r].at = "post"
  /\ KeyUsed(r)
  /\ Goto(r, "failed")
  /\ UNCHANGED <<accounts, journal, reversed>>

Last == Movements[Len(Movements)]

\* The duplicate charge is undone; the answer may be lost.
Reverse(r) ==
  /\ runs[r].at = "reverse"
  /\ reversed' = reversed \cup {Transfer(r, Last)}
  /\ \E stage \in {"applied", "failed"} : Goto(r, stage)
  /\ UNCHANGED <<accounts, journal>>

\* A step is refused (the owner has moved the funds on), fails, or the process
\* stops: before the step's COMMIT, which is also after the one before it.
Running == {"check", "open", "post", "reverse"}

Stop(r) ==
  /\ runs[r].at \in Running
  /\ Goto(r, "failed")
  /\ UNCHANGED <<accounts, journal, reversed>>

OwnerOpens(owner) ==
  /\ accounts' = accounts \cup {[owner |-> owner, run |-> None, nr |-> 0]}
  /\ UNCHANGED <<journal, reversed, runs>>

\* demo-reset.sh up to the seed that it starts: the database goes with its
\* volume and every run with its container; the migrations run again.
Reset ==
  /\ accounts' = {}
  /\ journal' = <<>>
  /\ reversed' = {}
  /\ runs' = [r \in Runs |-> Unused]

Next ==
  \/ \E r \in Runs :
       \/ \E owner \in Owners : Start(r, owner)
       \/ Check(r) \/ Open(r) \/ Post(r) \/ Conflict(r) \/ Reverse(r) \/ Stop(r)
  \/ \E owner \in Owners : OwnerOpens(owner)
  \/ Reset

Spec == Init /\ [][Next]_vars

-----------------------------------------------------------------------------
(* What a seed may leave behind                                             *)

\* Runs and what they have done.
TypeOK ==
  /\ accounts \subseteq
       [owner : Owners, run : Runs \cup {None}, nr : 0..3]
  /\ runs \in [Runs -> [at : Running \cup {"unused", "already", "applied", "failed"},
                        done : Nat, owner : Owners \cup {None}, again : BOOLEAN]]
  /\ \A r \in Runs : /\ runs[r].at = "open" => runs[r].done < 3
                     /\ runs[r].at = "post" => runs[r].done < Len(Movements)
  /\ reversed \subseteq Posted

\* Whatever overlaps and stops, the ledger holds a beginning of one history,
\* in its order, between the accounts of one run.
OneHistory ==
  /\ Len(journal) <= Len(Movements)
  /\ journal # <<>> => \E r \in Runs : \A i \in DOMAIN journal :
       journal[i] = Transfer(r, Movements[i])

\* The history of a run is there, with its reversal.
Applied(r) ==
  /\ \A nr \in 1..3 : [owner |-> runs[r].owner, run |-> r, nr |-> nr] \in accounts
  /\ Len(journal) = Len(Movements)
  /\ \A i \in DOMAIN journal : journal[i] = Transfer(r, Movements[i])
  /\ reversed = {Transfer(r, Last)}

\* A run that says "Seed applied" has applied all of it.
AppliedIsComplete == \A r \in Runs : runs[r].at = "applied" => Applied(r)

\* Running it twice is a no-op (docs/deployment.md): a run that starts after
\* one for the same owner was applied writes nothing.
TwiceIsNoOp ==
  \A r \in Runs : runs[r].again =>
    /\ runs[r].at \notin {"open", "post", "reverse", "applied"}
    /\ \A a \in accounts : a.run # r

Of(owner) == {q \in Runs : runs[q].owner = owner}

\* Where only seeds opened accounts and none is running, a run that says "Seed
\* already applied" is right.
AlreadyIsApplied ==
  \A r \in Runs :
    /\ runs[r].at = "already"
    /\ \A a \in accounts : a.owner = runs[r].owner => a.run # None
    /\ \A q \in Of(runs[r].owner) : runs[q].at \notin Running
    => \E q \in Of(runs[r].owner) : Applied(q)
=============================================================================
