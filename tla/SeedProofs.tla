----------------------------- MODULE SeedProofs -----------------------------
(***************************************************************************)
(* Proofs about Seed, for any movements and any number of runs and owners: *)
(* however runs overlap and stop, the journal holds a beginning of one     *)
(* history, and a run that says so has posted all of it. The idempotency   *)
(* key of the first movement decides whose history it is.                  *)
(*                                                                         *)
(* Then about its Deployment, for any number of images: it implements      *)
(* Seed, no API is ready on a schema older than its image, and a reset     *)
(* that is reported is one.                                                *)
(***************************************************************************)
EXTENDS Deployment, SequenceTheorems, TLAPS

\* The journal is the beginning of the history of r.
WrittenBy(r) == \A i \in DOMAIN journal : journal[i] = Transfer(r, Movements[i])

RunsTyped ==
  /\ runs = [r \in Runs |-> runs[r]]
  /\ \A r \in Runs :
       /\ runs[r] = [at |-> runs[r].at, done |-> runs[r].done,
                     owner |-> runs[r].owner, again |-> runs[r].again]
       /\ runs[r].done \in Nat
       /\ runs[r].at = "post" => runs[r].done < Len(Movements)

JournalTyped ==
  /\ journal \in Seq([key : STRING, from : (Runs \cup {None}) \X (0..3),
                      to : (Runs \cup {None}) \X (0..3)])
  /\ Len(journal) <= Len(Movements)

\* A run that is past its first movement wrote what is there, up to where it is.
WriterKnows ==
  \A r \in Runs : runs[r].at = "post" /\ runs[r].done > 0 =>
    WrittenBy(r) /\ Len(journal) = runs[r].done

SeedInv ==
  /\ RunsTyped
  /\ JournalTyped
  /\ WriterKnows
  /\ journal # <<>> => \E r \in Runs : WrittenBy(r)

-----------------------------------------------------------------------------

LEMMA InitEstablishes ==
  ASSUME Init
  PROVE  SeedInv
<1>1. RunsTyped /\ WriterKnows
  BY DEF Init, Unused, RunsTyped, WriterKnows
<1>2. JournalTyped
  <2>1. Len(Movements) \in Nat
    BY SeedAssumption
  <2>. QED
    BY <2>1 DEF Init, JournalTyped
<1>. QED
  BY <1>1, <1>2 DEF Init, SeedInv

\* A transfer tells the run by its accounts: one of them is not @world's.
LEMMA TransferNamesRun ==
  ASSUME NEW r \in Runs, NEW q \in Runs, NEW i \in DOMAIN Movements,
         Transfer(r, Movements[i]) = Transfer(q, Movements[i])
  PROVE  r = q
<1>1. /\ AccountId(r, Movements[i].from) = AccountId(q, Movements[i].from)
      /\ AccountId(r, Movements[i].to) = AccountId(q, Movements[i].to)
  BY DEF Transfer
<1>2. Movements[i].from # 0 \/ Movements[i].to # 0
  BY SeedAssumption
<1>. QED
  BY <1>1, <1>2 DEF AccountId

\* Only r moves on, and it stays a run.
OnlyMoves(r) ==
  /\ runs' = [q \in Runs |-> runs'[q]]
  /\ \A q \in Runs \ {r} : runs'[q] = runs[q]
  /\ runs'[r] = [at |-> runs'[r].at, done |-> runs'[r].done,
                 owner |-> runs'[r].owner, again |-> runs'[r].again]
  /\ runs'[r].done \in Nat

\* What Goto does to the run.
LEMMA GotoMoves ==
  ASSUME RunsTyped, NEW r \in Runs, NEW stage, Goto(r, stage)
  PROVE  OnlyMoves(r) /\ runs'[r].at = stage /\ runs'[r].done = 0
<1>1. runs'[r] = [runs[r] EXCEPT !.at = stage, !.done = 0]
  BY DEF Goto, RunsTyped
<1>2. DOMAIN runs[r] = {"at", "done", "owner", "again"}
  BY DEF RunsTyped
<1>3. /\ runs'[r].at = stage
      /\ runs'[r].done = 0
      /\ runs'[r] = [at |-> runs'[r].at, done |-> runs'[r].done,
                     owner |-> runs'[r].owner, again |-> runs'[r].again]
  BY <1>1, <1>2
<1>4. \A q \in Runs \ {r} : runs'[q] = runs[q]
  BY DEF Goto, RunsTyped
<1>5. runs' = [q \in Runs |-> runs'[q]]
  BY DEF Goto, RunsTyped
<1>. QED
  BY <1>3, <1>4, <1>5 DEF OnlyMoves

\* What Advance does to the run.
LEMMA AdvanceMoves ==
  ASSUME RunsTyped, NEW r \in Runs, NEW n, NEW stage, Advance(r, n, stage)
  PROVE  /\ OnlyMoves(r)
         /\ \/ /\ runs[r].done + 1 = n
               /\ runs'[r].at = stage /\ runs'[r].done = 0
            \/ /\ runs[r].done + 1 # n
               /\ runs'[r].at = runs[r].at
               /\ runs'[r].done = runs[r].done + 1
<1>1. CASE runs[r].done + 1 = n
  BY <1>1, GotoMoves DEF Advance
<1>2. CASE runs[r].done + 1 # n
  BY <1>2 DEF Advance, OnlyMoves, RunsTyped
<1>. QED
  BY <1>1, <1>2

\* Where the journal does not change, a run may go anywhere but further into
\* the movements.
LEMMA StepKeeps ==
  ASSUME SeedInv, UNCHANGED journal, NEW r \in Runs, OnlyMoves(r),
         runs'[r].at = "post" => runs'[r].done = 0
  PROVE  SeedInv'
<1>1. Len(Movements) \in Nat \ {0}
  BY SeedAssumption
<1>2. RunsTyped'
  BY <1>1 DEF SeedInv, RunsTyped, OnlyMoves
<1>3. WriterKnows'
  BY DEF SeedInv, WriterKnows, WrittenBy, OnlyMoves
<1>. QED
  BY <1>2, <1>3 DEF SeedInv, JournalTyped, WrittenBy

LEMMA GotoKeeps ==
  ASSUME SeedInv, UNCHANGED journal, NEW r \in Runs, NEW stage, Goto(r, stage)
  PROVE  SeedInv'
BY GotoMoves, StepKeeps DEF SeedInv

LEMMA OpenKeeps ==
  ASSUME SeedInv, NEW r \in Runs, Open(r)
  PROVE  SeedInv'
<1>1. /\ UNCHANGED journal
      /\ runs[r].at = "open"
      /\ Advance(r, 3, "post")
  BY DEF Open
<1>. QED
  BY <1>1, AdvanceMoves, StepKeeps DEF SeedInv

LEMMA StartKeeps ==
  ASSUME SeedInv, NEW r \in Runs, NEW owner \in Owners, Start(r, owner)
  PROVE  SeedInv'
<1>1. /\ UNCHANGED journal
      /\ OnlyMoves(r)
      /\ runs'[r].at = "check"
  BY DEF Start, OnlyMoves, SeedInv, RunsTyped
<1>. QED
  BY <1>1, StepKeeps

\* The entry of a movement is a record with the fields of a transfer.
LEMMA TransferTyped ==
  ASSUME NEW r \in Runs, NEW i \in DOMAIN Movements
  PROVE  Transfer(r, Movements[i]) \in
           [key : STRING, from : (Runs \cup {None}) \X (0..3),
            to : (Runs \cup {None}) \X (0..3)]
<1>1. /\ Movements[i].key \in STRING
      /\ Movements[i].from \in 0..3
      /\ Movements[i].to \in 0..3
  <2>1. Movements[i] \in [key : STRING, from : 0..3, to : 0..3]
    <3>. DEFINE S == [key : STRING, from : 0..3, to : 0..3]
    <3>1. Movements \in Seq(S)
      BY SeedAssumption
    <3>. HIDE DEF S
    <3>2. i \in 1..Len(Movements)
      BY <3>1
    <3>3. Movements[i] \in S
      BY <3>1, <3>2, ElementOfSeq
    <3>. QED
      BY <3>3 DEF S
  <2>. QED
    BY <2>1
<1>2. \A nr \in 0..3 : AccountId(r, nr) \in (Runs \cup {None}) \X (0..3)
  BY DEF AccountId
<1>. QED
  BY <1>1, <1>2 DEF Transfer, KeyOf

\* The step that matters: the key of a run's next movement is unused only if
\* the journal is exactly what this run has written.
LEMMA PostExtends ==
  ASSUME SeedInv, NEW r \in Runs, Post(r)
  PROVE  /\ Len(Movements) \in Nat /\ runs[r].done \in Nat
         /\ runs[r].done < Len(Movements)
         /\ WrittenBy(r) /\ Len(journal) = runs[r].done
<1>. DEFINE d == runs[r].done
<1>1. /\ runs[r].at = "post"
      /\ d \in Nat /\ d < Len(Movements)
      /\ Len(Movements) \in Nat /\ d + 1 \in DOMAIN Movements
      /\ ~KeyUsed(r)
      /\ journal' = Append(journal, Transfer(r, Movements[d + 1]))
      /\ Advance(r, Len(Movements), "reverse")
  BY SeedAssumption DEF Post, NextTransfer, SeedInv, RunsTyped
<1>2. WrittenBy(r) /\ Len(journal) = d
  <2>1. CASE d > 0
    BY <1>1, <2>1 DEF SeedInv, WriterKnows
  <2>2. CASE d = 0
    <3>1. SUFFICES ASSUME journal # <<>>
                   PROVE  FALSE
      BY <2>2 DEF WrittenBy
    <3>2. PICK q \in Runs : WrittenBy(q)
      BY <3>1 DEF SeedInv
    <3>3. 1 \in DOMAIN journal
      BY <3>1 DEF SeedInv, JournalTyped
    <3>4. journal[1].key = Movements[1].key
      BY <3>2, <3>3 DEF WrittenBy, Transfer, KeyOf
    <3>5. NextTransfer(r).key = Movements[1].key
      BY <2>2 DEF NextTransfer, Transfer, KeyOf
    <3>. QED
      BY <1>1, <3>3, <3>4, <3>5 DEF KeyUsed, Posted
  <2>. QED
    BY <1>1, <2>1, <2>2
<1> QED
  BY <1>1, <1>2

LEMMA PostKeeps ==
  ASSUME SeedInv, NEW r \in Runs, Post(r)
  PROVE  SeedInv'
<1>. DEFINE d == runs[r].done
<1>1. /\ runs[r].at = "post"
      /\ d \in Nat /\ d < Len(Movements)
      /\ Len(Movements) \in Nat /\ d + 1 \in DOMAIN Movements
      /\ ~KeyUsed(r)
      /\ journal' = Append(journal, Transfer(r, Movements[d + 1]))
      /\ Advance(r, Len(Movements), "reverse")
  BY SeedAssumption DEF Post, NextTransfer, SeedInv, RunsTyped
<1>2. WrittenBy(r) /\ Len(journal) = d
  BY PostExtends
<1>3. /\ Len(journal') = d + 1
      /\ DOMAIN journal' = 1..(d + 1)
      /\ \A i \in 1..d : journal'[i] = journal[i]
      /\ journal'[d + 1] = Transfer(r, Movements[d + 1])
  BY <1>1, <1>2 DEF SeedInv, JournalTyped
<1>4. WrittenBy(r)'
  BY <1>1, <1>2, <1>3 DEF WrittenBy, SeedInv, JournalTyped
<1>5. JournalTyped'
  BY <1>1, <1>3, TransferTyped DEF SeedInv, JournalTyped
<1>6. \A q \in Runs \ {r} : ~(runs[q].at = "post" /\ runs[q].done > 0)
  <2>1. SUFFICES ASSUME NEW q \in Runs \ {r},
                        runs[q].at = "post", runs[q].done > 0
                 PROVE  FALSE
    OBVIOUS
  <2>2. WrittenBy(q) /\ Len(journal) > 0
    BY <2>1 DEF SeedInv, WriterKnows
  <2>3. 1 \in DOMAIN journal /\ 1 \in DOMAIN Movements
    BY <1>1, <2>2 DEF SeedInv, JournalTyped
  <2>4. Transfer(r, Movements[1]) = Transfer(q, Movements[1])
    BY <1>2, <2>2, <2>3 DEF WrittenBy
  <2>. QED
    BY <2>1, <2>3, <2>4, TransferNamesRun
<1>7. /\ OnlyMoves(r)
      /\ runs'[r].at = "post" => /\ runs'[r].done = d + 1
                                 /\ d + 1 < Len(Movements)
  BY <1>1, AdvanceMoves DEF SeedInv
<1>8. RunsTyped'
  BY <1>7 DEF SeedInv, RunsTyped, OnlyMoves
<1>9. WriterKnows'
  BY <1>3, <1>4, <1>6, <1>7 DEF WriterKnows, OnlyMoves
<1>. QED
  BY <1>4, <1>5, <1>8, <1>9 DEF SeedInv

LEMMA ResetKeeps ==
  ASSUME Reset
  PROVE  SeedInv'
<1>1. RunsTyped' /\ WriterKnows'
  BY DEF Reset, Unused, RunsTyped, WriterKnows
<1>2. Len(Movements) \in Nat
  BY SeedAssumption
<1>. QED
  BY <1>1, <1>2 DEF Reset, JournalTyped, SeedInv

LEMMA NextKeeps ==
  ASSUME SeedInv, [Next]_vars
  PROVE  SeedInv'
<1>1. ASSUME NEW r \in Runs, NEW owner \in Owners, Start(r, owner)
      PROVE  SeedInv'
  BY <1>1, StartKeeps
<1>2. ASSUME NEW r \in Runs, Check(r) \/ Conflict(r) \/ Reverse(r) \/ Stop(r)
      PROVE  SeedInv'
  BY <1>2, GotoKeeps DEF Check, Conflict, Reverse, Stop
<1>3. ASSUME NEW r \in Runs, Open(r)
      PROVE  SeedInv'
  BY <1>3, OpenKeeps
<1>4. ASSUME NEW r \in Runs, Post(r)
      PROVE  SeedInv'
  BY <1>4, PostKeeps
<1>5. ASSUME UNCHANGED <<journal, runs>>
      PROVE  SeedInv'
  BY <1>5 DEF SeedInv, RunsTyped, JournalTyped, WriterKnows, WrittenBy
<1>6. ASSUME Reset
      PROVE  SeedInv'
  BY <1>6, ResetKeeps
<1>. QED
  BY <1>1, <1>2, <1>3, <1>4, <1>5, <1>6 DEF Next, OwnerOpens, vars

\* However many runs overlap, stop anywhere and are started again, for one
\* owner or several: the journal holds a beginning of one history, by one run.
THEOREM OneHistoryEver == Spec => []OneHistory
<1>1. SeedInv => OneHistory
  BY DEF SeedInv, JournalTyped, WrittenBy, OneHistory
<1>. QED
  BY <1>1, InitEstablishes, NextKeeps, PTL DEF Spec

-----------------------------------------------------------------------------
(* What a run has done                                                      *)

\* The record of an account that a run opened.
OwnAccount(r, nr) == [owner |-> runs[r].owner, run |-> r, nr |-> nr]

HasOwn(r) == \E a \in accounts : a.run = r

\* The whole history is there, and it is that of r.
Written(r) == WrittenBy(r) /\ Len(journal) = Len(Movements)

RunTyped(r) ==
  /\ runs[r].at \in Running \cup {"unused", "already", "applied", "failed"}
  /\ runs[r].owner \in Owners \cup {None}
  /\ runs[r].at \in Running => runs[r].owner \in Owners
  /\ runs[r].again \in BOOLEAN
  /\ runs[r].at = "open" => runs[r].done < 3

RunDone(r) ==
  /\ runs[r].at = "open" => \A nr \in 1..runs[r].done : OwnAccount(r, nr) \in accounts
  /\ runs[r].at \in {"post", "reverse", "applied"} =>
       \A nr \in 1..3 : OwnAccount(r, nr) \in accounts
  /\ runs[r].at \in {"reverse", "applied"} => Written(r)
  /\ runs[r].at = "applied" => Transfer(r, Last) \in reversed

\* What a run that found an account, or was to find one, has left alone.
RunKeptOff(r) ==
  /\ runs[r].at = "already" \/ runs[r].again => HasAccount(runs[r].owner)
  /\ runs[r].at \in {"unused", "check", "already"} \/ runs[r].again => ~HasOwn(r)
  /\ runs[r].again => runs[r].at \in {"check", "already", "failed"}

RunInv(r) == RunTyped(r) /\ RunDone(r) /\ RunKeptOff(r)

AccountsTyped == accounts \subseteq [owner : Owners, run : Runs \cup {None}, nr : 0..3]

\* Only the last transfer of a whole history is reversed.
ReversedInv ==
  \A t \in reversed : Len(journal) = Len(Movements) /\ t = journal[Len(Movements)]

WorkInv ==
  /\ AccountsTyped
  /\ ReversedInv
  /\ \A r \in Runs : RunInv(r)

\* The runs beside the one that makes a step: their accounts stay and are not
\* added to, and a history that one of them has written stays as it is.
LEMMA OthersKept ==
  ASSUME NEW q \in Runs, RunInv(q), runs'[q] = runs[q],
         accounts \subseteq accounts', \A a \in accounts' \ accounts : a.run # q,
         Written(q) => UNCHANGED journal, reversed \subseteq reversed'
  PROVE  RunInv(q)'
<1>1. RunTyped(q)'
  BY DEF RunInv, RunTyped
<1>2. RunDone(q)'
  BY DEF RunInv, RunDone, OwnAccount, Written, WrittenBy
<1>3. RunKeptOff(q)'
  BY DEF RunInv, RunKeptOff, HasAccount, HasOwn
<1> QED
  BY <1>1, <1>2, <1>3 DEF RunInv

\* A step that writes nothing and moves r.
LEMMA MoveKeepsWork ==
  ASSUME WorkInv, UNCHANGED <<accounts, journal, reversed>>, NEW r \in Runs,
         OnlyMoves(r), RunInv(r)'
  PROVE  WorkInv'
<1>1. \A q \in Runs \ {r} : RunInv(q)'
  BY OthersKept DEF WorkInv, OnlyMoves
<1> QED
  BY <1>1 DEF WorkInv, AccountsTyped, ReversedInv

\* Goto and Advance leave a run its owner and its past.
LEMMA GotoSameRun ==
  ASSUME RunsTyped, NEW r \in Runs, NEW stage, Goto(r, stage)
  PROVE  runs'[r].owner = runs[r].owner /\ runs'[r].again = runs[r].again
<1>1. runs'[r] = [runs[r] EXCEPT !.at = stage, !.done = 0]
  BY DEF Goto, RunsTyped
<1>2. DOMAIN runs[r] = {"at", "done", "owner", "again"}
  BY DEF RunsTyped
<1> QED
  BY <1>1, <1>2

\* A step forward changes neither the owner of a run nor what was there before it.
LEMMA AdvanceSameRun ==
  ASSUME RunsTyped, NEW r \in Runs, NEW n, NEW stage, Advance(r, n, stage)
  PROVE  runs'[r].owner = runs[r].owner /\ runs'[r].again = runs[r].again
<1>1. CASE runs[r].done + 1 = n
  BY <1>1, GotoSameRun DEF Advance
<1>2. CASE runs[r].done + 1 # n
  <2>1. runs'[r] = [runs[r] EXCEPT !.done = runs[r].done + 1]
    BY <1>2 DEF Advance, RunsTyped
  <2>2. DOMAIN runs[r] = {"at", "done", "owner", "again"}
    BY DEF RunsTyped
  <2> QED
    BY <2>1, <2>2
<1> QED
  BY <1>1, <1>2

LEMMA StartKeepsWork ==
  ASSUME SeedInv, WorkInv, NEW r \in Runs, NEW owner \in Owners, Start(r, owner)
  PROVE  WorkInv'
<1>1. /\ UNCHANGED <<accounts, journal, reversed>>
      /\ runs[r].at = "unused"
      /\ runs'[r].at = "check" /\ runs'[r].owner = owner
      /\ runs'[r].again =
           \E q \in Runs : runs[q].at = "applied" /\ runs[q].owner = owner
      /\ OnlyMoves(r)
  BY DEF Start, OnlyMoves, SeedInv, RunsTyped
<1>2. runs'[r].again => HasAccount(owner)
  <2>1. SUFFICES ASSUME NEW q \in Runs, runs[q].at = "applied", runs[q].owner = owner
                 PROVE  HasAccount(owner)
    BY <1>1
  <2>2. OwnAccount(q, 1) \in accounts
    BY <2>1 DEF WorkInv, RunInv, RunDone
  <2> QED
    BY <2>1, <2>2 DEF HasAccount, OwnAccount
<1>3. ~HasOwn(r)
  BY <1>1 DEF WorkInv, RunInv, RunKeptOff
<1>4. RunTyped(r)'
  BY <1>1 DEF RunTyped, Running
<1>5. RunDone(r)'
  BY <1>1 DEF RunDone
<1>6. RunKeptOff(r)'
  BY <1>1, <1>2, <1>3 DEF RunKeptOff, HasAccount, HasOwn
<1> QED
  BY <1>1, <1>4, <1>5, <1>6, MoveKeepsWork DEF RunInv

LEMMA CheckKeepsWork ==
  ASSUME SeedInv, WorkInv, NEW r \in Runs, Check(r)
  PROVE  WorkInv'
<1> DEFINE stage == IF HasAccount(runs[r].owner) THEN "already" ELSE "open"
<1>1. UNCHANGED <<accounts, journal, reversed>> /\ runs[r].at = "check" /\ Goto(r, stage)
  BY DEF Check
<1>2. /\ OnlyMoves(r) /\ runs'[r].at = stage /\ runs'[r].done = 0
      /\ runs'[r].owner = runs[r].owner /\ runs'[r].again = runs[r].again
  BY <1>1, GotoMoves, GotoSameRun DEF SeedInv
<1>3. RunTyped(r) /\ RunKeptOff(r)
  BY DEF WorkInv, RunInv
<1>4. RunTyped(r)'
  BY <1>1, <1>2, <1>3 DEF RunTyped, Running
<1>5. RunDone(r)'
  BY <1>1, <1>2 DEF RunDone
<1>6. RunKeptOff(r)'
  BY <1>1, <1>2, <1>3 DEF RunKeptOff, HasAccount, HasOwn
<1> QED
  BY <1>1, <1>2, <1>4, <1>5, <1>6, MoveKeepsWork DEF RunInv

\* Conflict, Stop, and the end of a reversal that fails.
LEMMA FailKeepsWork ==
  ASSUME SeedInv, WorkInv, UNCHANGED <<accounts, journal, reversed>>,
         NEW r \in Runs, Goto(r, "failed"), runs[r].at \in Running
  PROVE  WorkInv'
<1>1. /\ OnlyMoves(r) /\ runs'[r].at = "failed" /\ runs'[r].done = 0
      /\ runs'[r].owner = runs[r].owner /\ runs'[r].again = runs[r].again
  BY GotoMoves, GotoSameRun DEF SeedInv
<1>2. RunTyped(r) /\ RunKeptOff(r)
  BY DEF WorkInv, RunInv
<1>3. RunTyped(r)'
  BY <1>1, <1>2 DEF RunTyped, Running
<1>4. RunDone(r)'
  BY <1>1 DEF RunDone
<1>5. RunKeptOff(r)'
  BY <1>1, <1>2 DEF RunKeptOff, HasAccount, HasOwn
<1> QED
  BY <1>1, <1>3, <1>4, <1>5, MoveKeepsWork DEF RunInv

LEMMA OpenKeepsWork ==
  ASSUME SeedInv, WorkInv, NEW r \in Runs, Open(r)
  PROVE  WorkInv'
<1> DEFINE a == OwnAccount(r, runs[r].done + 1)
<1>1. /\ UNCHANGED <<journal, reversed>> /\ runs[r].at = "open"
      /\ accounts' = accounts \cup {a} /\ Advance(r, 3, "post")
  BY DEF Open, OwnAccount
<1>2. /\ OnlyMoves(r)
      /\ runs'[r].owner = runs[r].owner /\ runs'[r].again = runs[r].again
      /\ \/ runs[r].done + 1 = 3 /\ runs'[r].at = "post" /\ runs'[r].done = 0
         \/ /\ runs[r].done + 1 # 3 /\ runs'[r].at = "open"
            /\ runs'[r].done = runs[r].done + 1
  BY <1>1, AdvanceMoves, AdvanceSameRun DEF SeedInv
<1>3. /\ RunTyped(r) /\ RunDone(r) /\ RunKeptOff(r)
      /\ runs[r].done \in Nat /\ runs[r].done < 3 /\ runs[r].owner \in Owners
  BY <1>1 DEF WorkInv, RunInv, RunTyped, SeedInv, RunsTyped, Running
<1>4. \A nr : OwnAccount(r, nr)' = OwnAccount(r, nr)
  BY <1>2 DEF OwnAccount
<1>5. \A nr \in 1..(runs[r].done + 1) : OwnAccount(r, nr) \in accounts'
  BY <1>1, <1>3 DEF RunDone
<1>6. RunTyped(r)'
  BY <1>2, <1>3 DEF RunTyped, Running
<1>7. RunDone(r)'
  BY <1>2, <1>3, <1>4, <1>5 DEF RunDone
<1>8. RunKeptOff(r)'
  BY <1>1, <1>2, <1>3 DEF RunKeptOff
<1>9. \A q \in Runs \ {r} : RunInv(q)'
  BY <1>1, <1>2, OthersKept DEF WorkInv, OnlyMoves, OwnAccount
<1>10. AccountsTyped'
  BY <1>1, <1>3 DEF WorkInv, AccountsTyped, OwnAccount
<1>11. ReversedInv'
  BY <1>1 DEF WorkInv, ReversedInv
<1> QED
  BY <1>6, <1>7, <1>8, <1>9, <1>10, <1>11 DEF WorkInv, RunInv

\* A run that posts has written all that is there, so that no history is whole
\* and nothing is reversed.
LEMMA PostKeepsWork ==
  ASSUME SeedInv, SeedInv', WorkInv, NEW r \in Runs, Post(r)
  PROVE  WorkInv'
<1> DEFINE d == runs[r].done
<1>1. /\ UNCHANGED <<accounts, reversed>> /\ runs[r].at = "post"
      /\ journal' = Append(journal, Transfer(r, Movements[d + 1]))
      /\ Advance(r, Len(Movements), "reverse")
  BY DEF Post, NextTransfer
<1>2. /\ Len(Movements) \in Nat /\ d \in Nat /\ d < Len(Movements)
      /\ WrittenBy(r) /\ Len(journal) = d
  BY PostExtends
<1>3. /\ OnlyMoves(r)
      /\ runs'[r].owner = runs[r].owner /\ runs'[r].again = runs[r].again
      /\ \/ d + 1 = Len(Movements) /\ runs'[r].at = "reverse" /\ runs'[r].done = 0
         \/ runs'[r].at = "post"
  BY <1>1, AdvanceMoves, AdvanceSameRun DEF SeedInv
<1>4. RunTyped(r) /\ RunDone(r) /\ RunKeptOff(r)
  BY DEF WorkInv, RunInv
<1>5. reversed = {} /\ \A q \in Runs : ~Written(q)
  BY <1>2 DEF WorkInv, ReversedInv, Written
<1>6. /\ Len(journal') = d + 1
      /\ \A i \in DOMAIN journal' : journal'[i] = Transfer(r, Movements[i])
  BY <1>1, <1>2 DEF SeedInv, JournalTyped, WrittenBy
<1>7. RunTyped(r)'
  BY <1>1, <1>3, <1>4 DEF RunTyped, Running
<1>8. RunDone(r)'
  BY <1>1, <1>3, <1>4, <1>6 DEF RunDone, OwnAccount, Written, WrittenBy
<1>9. RunKeptOff(r)'
  BY <1>1, <1>3, <1>4 DEF RunKeptOff, HasAccount, HasOwn
<1>10. \A q \in Runs \ {r} : RunInv(q)'
  BY <1>1, <1>3, <1>5, OthersKept DEF WorkInv, OnlyMoves
<1>11. AccountsTyped' /\ ReversedInv'
  BY <1>1, <1>5 DEF WorkInv, AccountsTyped, ReversedInv
<1> QED
  BY <1>7, <1>8, <1>9, <1>10, <1>11 DEF WorkInv, RunInv

LEMMA ReverseKeepsWork ==
  ASSUME SeedInv, WorkInv, NEW r \in Runs, Reverse(r)
  PROVE  WorkInv'
<1>1. /\ UNCHANGED <<accounts, journal>> /\ runs[r].at = "reverse"
      /\ reversed' = reversed \cup {Transfer(r, Last)}
  BY DEF Reverse
<1>2. PICK stage \in {"applied", "failed"} : Goto(r, stage)
  BY DEF Reverse
<1>3. /\ OnlyMoves(r) /\ runs'[r].at = stage /\ runs'[r].done = 0
      /\ runs'[r].owner = runs[r].owner /\ runs'[r].again = runs[r].again
  BY <1>2, GotoMoves, GotoSameRun DEF SeedInv
<1>4. RunTyped(r) /\ RunDone(r) /\ RunKeptOff(r) /\ Written(r)
  BY <1>1 DEF WorkInv, RunInv, RunDone
<1>5. Transfer(r, Last) = journal[Len(Movements)]
  <2>1. Len(Movements) \in Nat \ {0}
    BY SeedAssumption
  <2>2. Len(Movements) \in DOMAIN journal
    BY <1>4, <2>1 DEF Written, SeedInv, JournalTyped
  <2> QED
    BY <1>4, <2>2 DEF Written, WrittenBy, Last
<1>6. RunTyped(r)'
  BY <1>1, <1>3, <1>4 DEF RunTyped, Running
<1>7. RunDone(r)'
  BY <1>1, <1>3, <1>4 DEF RunDone, OwnAccount, Written, WrittenBy
<1>8. RunKeptOff(r)'
  BY <1>1, <1>3, <1>4 DEF RunKeptOff, HasAccount, HasOwn
<1>9. \A q \in Runs \ {r} : RunInv(q)'
  BY <1>1, <1>3, OthersKept DEF WorkInv, OnlyMoves
<1>10. AccountsTyped' /\ ReversedInv'
  BY <1>1, <1>4, <1>5 DEF WorkInv, AccountsTyped, ReversedInv, Written
<1> QED
  BY <1>6, <1>7, <1>8, <1>9, <1>10 DEF WorkInv, RunInv

LEMMA OwnerOpensKeepsWork ==
  ASSUME WorkInv, NEW owner \in Owners, OwnerOpens(owner)
  PROVE  WorkInv'
<1>1. /\ accounts' = accounts \cup {[owner |-> owner, run |-> None, nr |-> 0]}
      /\ UNCHANGED <<journal, reversed, runs>>
  BY DEF OwnerOpens
<1>2. \A q \in Runs : RunInv(q)'
  BY <1>1, OthersKept, SeedAssumption DEF WorkInv
<1> QED
  BY <1>1, <1>2 DEF WorkInv, AccountsTyped, ReversedInv

\* Nothing is there yet, or nothing any more.
LEMMA NothingWorks ==
  ASSUME accounts = {}, reversed = {}, runs = [r \in Runs |-> Unused]
  PROVE  WorkInv
<1>1. ASSUME NEW r \in Runs PROVE RunInv(r)
  BY DEF Unused, RunInv, RunTyped, RunDone, RunKeptOff, HasOwn, Running
<1> QED
  BY <1>1 DEF WorkInv, AccountsTyped, ReversedInv

LEMMA NextKeepsWork ==
  ASSUME SeedInv, SeedInv', WorkInv, [Next]_vars
  PROVE  WorkInv'
<1>1. ASSUME NEW r \in Runs, NEW owner \in Owners, Start(r, owner)
      PROVE  WorkInv'
  BY <1>1, StartKeepsWork
<1>2. ASSUME NEW r \in Runs,
             Check(r) \/ Open(r) \/ Post(r) \/ Conflict(r) \/ Reverse(r) \/ Stop(r)
      PROVE  WorkInv'
  <2>1. CASE Check(r)
    BY <2>1, CheckKeepsWork
  <2>2. CASE Open(r)
    BY <2>2, OpenKeepsWork
  <2>3. CASE Post(r)
    BY <2>3, PostKeepsWork
  <2>4. CASE Conflict(r) \/ Stop(r)
    BY <2>4, FailKeepsWork DEF Conflict, Stop, Running
  <2>5. CASE Reverse(r)
    BY <2>5, ReverseKeepsWork
  <2> QED
    BY <1>2, <2>1, <2>2, <2>3, <2>4, <2>5
<1>3. ASSUME NEW owner \in Owners, OwnerOpens(owner)
      PROVE  WorkInv'
  BY <1>3, OwnerOpensKeepsWork
<1>4. CASE Reset
  <2>1. accounts' = {} /\ reversed' = {} /\ runs' = [r \in Runs |-> Unused]
    BY <1>4 DEF Reset
  <2>2. ASSUME NEW r \in Runs PROVE RunInv(r)'
    BY <2>1 DEF Unused, RunInv, RunTyped, RunDone, RunKeptOff, HasOwn, Running
  <2> QED
    BY <2>1, <2>2 DEF WorkInv, AccountsTyped, ReversedInv
<1>5. CASE UNCHANGED vars
  <2>1. \A q \in Runs : RunInv(q)'
    BY <1>5, OthersKept DEF WorkInv, vars
  <2> QED
    BY <1>5, <2>1 DEF vars, WorkInv, AccountsTyped, ReversedInv
<1> QED
  BY <1>1, <1>2, <1>3, <1>4, <1>5 DEF Next

\* What the runs have done is in the ledger in every reachable state.
LEMMA WorkInvariant == Spec => [](SeedInv /\ WorkInv)
<1>1. Init => SeedInv /\ WorkInv
  BY InitEstablishes, NothingWorks DEF Init
<1>2. SeedInv /\ WorkInv /\ [Next]_vars => (SeedInv /\ WorkInv)'
  BY NextKeeps, NextKeepsWork
<1> QED
  BY <1>1, <1>2, PTL DEF Spec

\* Runs, accounts and reversals keep their types, and nothing is reversed that
\* was not posted.
THEOREM SeedTypeCorrect == Spec => []TypeOK
<1>1. SeedInv /\ WorkInv => TypeOK
  <2> SUFFICES ASSUME SeedInv, WorkInv PROVE TypeOK
    OBVIOUS
  <2>1. ASSUME NEW r \in Runs
        PROVE  /\ runs[r] \in [at : Running \cup {"unused", "already", "applied", "failed"},
                               done : Nat, owner : Owners \cup {None}, again : BOOLEAN]
               /\ runs[r].at = "open" => runs[r].done < 3
               /\ runs[r].at = "post" => runs[r].done < Len(Movements)
    BY DEF SeedInv, RunsTyped, WorkInv, RunInv, RunTyped
  <2>2. runs = [r \in Runs |-> runs[r]]
    BY DEF SeedInv, RunsTyped
  <2>3. reversed \subseteq Posted
    <3>1. Len(Movements) \in Nat \ {0}
      BY SeedAssumption
    <3>2. ASSUME NEW t \in reversed PROVE t \in Posted
      BY <3>1 DEF WorkInv, ReversedInv, Posted, SeedInv, JournalTyped
    <3> QED
      BY <3>2
  <2> QED
    BY <2>1, <2>2, <2>3 DEF TypeOK, WorkInv, AccountsTyped
<1> QED
  BY <1>1, WorkInvariant, PTL

\* A run that has applied found its history complete.
LEMMA AppliedHere ==
  ASSUME SeedInv, WorkInv, NEW r \in Runs, runs[r].at = "applied"
  PROVE  Applied(r)
<1>1. /\ \A nr \in 1..3 : OwnAccount(r, nr) \in accounts
      /\ Written(r) /\ Transfer(r, Last) \in reversed
  BY DEF WorkInv, RunInv, RunDone
<1>2. reversed = {Transfer(r, Last)}
  BY <1>1 DEF WorkInv, ReversedInv
<1> QED
  BY <1>1, <1>2 DEF Applied, OwnAccount, Written, WrittenBy

\* "Seed applied" is said of nothing less: three accounts, every transfer of the
\* history in its order, and the reversal, whatever ran beside the run.
THEOREM AppliedIsAlwaysComplete == Spec => []AppliedIsComplete
<1>1. SeedInv /\ WorkInv => AppliedIsComplete
  BY AppliedHere DEF AppliedIsComplete
<1> QED
  BY <1>1, WorkInvariant, PTL

\* A run that is started after one for the same owner was applied opens, posts
\* and reverses nothing.
THEOREM TwiceIsAlwaysNoOp == Spec => []TwiceIsNoOp
<1>1. WorkInv => TwiceIsNoOp
  BY DEF WorkInv, RunInv, RunKeptOff, HasOwn, TwiceIsNoOp
<1> QED
  BY <1>1, WorkInvariant, PTL

-----------------------------------------------------------------------------
(* The deployment                                                           *)

\* A step of the deployment is a step of Seed or changes nothing it knows.
LEMMA DeployStepIsSeedStep ==
  ASSUME [DeployNext]_deployVars
  PROVE  [Next]_vars
<1>1. CASE Users
  BY <1>1 DEF Users, SeedStep, Next
<1>2. CASE ResetVolume
  BY <1>2 DEF ResetVolume, Next
<1>3. ASSUME NEW r \in Runs, NEW subject \in Owners, ResetSeed(r, subject)
      PROVE  [Next]_vars
  BY <1>3 DEF ResetSeed, Next
<1>4. CASE UNCHANGED vars
  BY <1>4
<1>5. ASSUME NEW image \in 1..Images, Deploy(image) \/ ResetUp(image)
      PROVE  UNCHANGED vars
  BY <1>5 DEF Deploy, ResetUp
<1>6. ASSUME \/ PostgresStart \/ PostgresStop \/ ApiStart \/ MigrateAndServe
             \/ ApiStop \/ ResetContainers \/ ResetWait \/ ResetReport \/ ResetAbort
             \/ UNCHANGED deployVars
      PROVE  UNCHANGED vars
  BY <1>6 DEF PostgresStart, PostgresStop, ApiStart, MigrateAndServe, ApiStop,
              ResetContainers, ResetWait, ResetReport, ResetAbort, deployVars, vars
<1>. QED
  BY <1>1, <1>2, <1>3, <1>4, <1>5, <1>6 DEF DeployNext, ResetScript

\* Containers, images and the reset script only choose among the steps of Seed:
\* what was proved of seeds holds of them in the deployment.
LEMMA SeedInDeployment == DeploySpec => Spec
BY DeployStepIsSeedStep, PTL DEF DeploySpec, DeployInit, Spec

\* The API serves only after the migrations of its image, and a volume is
\* wiped, or booted for the first time, only where no API has come that far.
MigratedInv ==
  /\ db = [init |-> db.init, role |-> db.role, schema |-> db.schema, up |-> db.up]
  /\ db.schema \in Nat
  /\ api = [at |-> api.at, image |-> api.image]
  /\ api.image \in Nat
  /\ api.at = "serve" => db.init # "none" /\ db.schema >= api.image

LEMMA MigratedInit ==
  ASSUME DeployInit
  PROVE  MigratedInv
BY DEF DeployInit, EmptyVolume, NoContainer, MigratedInv

LEMMA PostgresStartKeeps ==
  ASSUME MigratedInv, PostgresStart
  PROVE  MigratedInv'
<1>1. CASE db.init = "none"
  <2>1. db' \in FirstBoots
    BY <1>1 DEF PostgresStart
  <2>2. /\ db' = [init |-> db'.init, role |-> db'.role, schema |-> db'.schema, up |-> db'.up]
        /\ db'.schema = 0
    BY <2>1 DEF FirstBoots, EmptyVolume
  <2>. QED
    BY <1>1, <2>2 DEF PostgresStart, MigratedInv
<1>2. CASE db.init # "none"
  BY <1>2 DEF PostgresStart, MigratedInv
<1>. QED
  BY <1>1, <1>2

LEMMA MigrateKeeps ==
  ASSUME MigratedInv, MigrateAndServe
  PROVE  MigratedInv'
<1>1. /\ db' = [init |-> db'.init, role |-> db'.role, schema |-> db'.schema, up |-> db'.up]
      /\ db'.init = "database"
      /\ db'.schema \in Nat
      /\ db'.schema >= api.image
  <2>1. db' = Migrated(db) /\ db.init = "database"
    BY DEF MigrateAndServe, CanMigrate
  <2>2. db' = [init |-> db.init,
               role |-> IF db.role = "none" THEN "nologin" ELSE db.role,
               schema |-> IF api.image > db.schema THEN api.image ELSE db.schema,
               up |-> db.up]
    BY <2>1, Zenon DEF Migrated, MigratedInv
  <2>. QED
    BY <2>1, <2>2 DEF MigratedInv
<1>2. api' = [at |-> "serve", image |-> api.image]
  BY DEF MigrateAndServe, MigratedInv
<1>. QED
  BY <1>1, <1>2 DEF MigratedInv

LEMMA UpKeeps ==
  ASSUME MigratedInv, UNCHANGED db, NEW image \in 1..Images, Up(image)
  PROVE  MigratedInv'
BY ImagesAssumption DEF MigratedInv, Up

LEMMA MigratedKept ==
  ASSUME MigratedInv, [DeployNext]_deployVars
  PROVE  MigratedInv'
<1>1. CASE PostgresStart
  BY <1>1, PostgresStartKeeps
<1>2. CASE PostgresStop
  BY <1>2 DEF PostgresStop, MigratedInv
<1>3. ASSUME NEW image \in 1..Images, Deploy(image) \/ ResetUp(image)
      PROVE  MigratedInv'
  BY <1>3, UpKeeps DEF Deploy, ResetUp, MigratedInv
<1>4. CASE ApiStart \/ ApiStop
  BY <1>4 DEF ApiStart, ApiStop, MigratedInv
<1>5. CASE MigrateAndServe
  BY <1>5, MigrateKeeps
<1>6. CASE ResetContainers
  BY <1>6 DEF ResetContainers, NoContainer, MigratedInv
<1>7. CASE ResetVolume
  BY <1>7 DEF ResetVolume, EmptyVolume, MigratedInv
<1>8. CASE UNCHANGED <<db, api>>
  BY <1>8 DEF MigratedInv
<1>9. ASSUME NEW r \in Runs, NEW subject \in Owners, ResetSeed(r, subject)
      PROVE  UNCHANGED <<db, api>>
  BY <1>9 DEF ResetSeed
<1>10. ASSUME Users \/ ResetWait \/ ResetReport \/ ResetAbort \/ UNCHANGED deployVars
       PROVE  UNCHANGED <<db, api>>
  BY <1>10 DEF Users, ResetWait, ResetReport, ResetAbort, deployVars
<1>. QED
  BY <1>1, <1>2, <1>3, <1>4, <1>5, <1>6, <1>7, <1>8, <1>9, <1>10
     DEF DeployNext, ResetScript

\* No API answers /ready before the migrations of its image are in the schema,
\* for any number of images, deployed and rolled back in any order.
THEOREM AlwaysServesMigrated == DeploySpec => []ServesMigrated
<1>1. MigratedInv => ServesMigrated
  BY DEF MigratedInv, ServesMigrated, Ready
<1>. QED
  BY <1>1, MigratedInit, MigratedKept, PTL DEF DeploySpec
-----------------------------------------------------------------------------
(* The reset script                                                         *)

\* From its last command on, the script looks at a run; what it reports is a run
\* that has come to one of the two good ends, where it stays.
ScriptInv ==
  /\ script.at \in {"seed", "reported"} => script.run \in Runs
  /\ script.at = "reported" => runs[script.run].at \in {"applied", "already"}

\* A run that has ended stays as it is, whatever another does.
LEMMA EndedStays ==
  ASSUME SeedInv, SeedStep, NEW r \in Runs, runs[r].at \in {"applied", "already"}
  PROVE  runs'[r] = runs[r]
<1>1. ASSUME NEW q \in Runs, NEW stage, Goto(q, stage), q # r PROVE runs'[r] = runs[r]
  BY <1>1, GotoMoves DEF SeedInv, OnlyMoves
<1>2. ASSUME NEW q \in Runs, NEW n, NEW stage, Advance(q, n, stage), q # r
      PROVE  runs'[r] = runs[r]
  BY <1>2, AdvanceMoves DEF SeedInv, OnlyMoves
<1>3. ASSUME NEW q \in Runs, NEW owner \in Owners, Start(q, owner)
      PROVE  runs'[r] = runs[r]
  BY <1>3 DEF Start, SeedInv, RunsTyped
<1>4. ASSUME NEW q \in Runs, Check(q) \/ Conflict(q) \/ Reverse(q)
      PROVE  runs'[r] = runs[r]
  BY <1>4, <1>1 DEF Check, Conflict, Reverse
<1>5. ASSUME NEW q \in Runs, Stop(q)
      PROVE  runs'[r] = runs[r]
  BY <1>5, <1>1 DEF Stop, Running
<1>6. ASSUME NEW q \in Runs, Open(q) \/ Post(q)
      PROVE  runs'[r] = runs[r]
  BY <1>6, <1>2 DEF Open, Post
<1> QED
  BY <1>3, <1>4, <1>5, <1>6 DEF SeedStep

LEMMA ScriptKept ==
  ASSUME SeedInv, ScriptInv, [DeployNext]_deployVars
  PROVE  ScriptInv'
<1>1. CASE Users
  <2>1. UNCHANGED script
    BY <1>1 DEF Users
  <2>2. CASE UNCHANGED runs
    BY <2>1, <2>2 DEF ScriptInv
  <2>3. CASE SeedStep
    BY <2>1, <2>3, EndedStays DEF ScriptInv
  <2> QED
    BY <1>1, <2>2, <2>3 DEF Users, OwnerOpens
<1>2. CASE ResetReport
  BY <1>2 DEF ResetReport, ScriptInv, At, vars
<1>3. ASSUME NEW r \in Runs, NEW subject \in Owners, ResetSeed(r, subject)
      PROVE  ScriptInv'
  BY <1>3 DEF ResetSeed, ScriptInv, At
<1>4. ASSUME NEW image \in 1..Images, ResetUp(image)
      PROVE  ScriptInv'
  BY <1>4 DEF ResetUp, ScriptInv, At
<1>5. CASE ResetContainers \/ ResetVolume \/ ResetWait \/ ResetAbort
  BY <1>5 DEF ResetContainers, ResetVolume, ResetWait, ResetAbort, ScriptInv, At
<1>6. CASE UNCHANGED <<runs, script>>
  BY <1>6 DEF ScriptInv
<1>7. ASSUME \/ PostgresStart \/ PostgresStop \/ ApiStart \/ MigrateAndServe \/ ApiStop
             \/ (\E image \in 1..Images : Deploy(image)) \/ UNCHANGED deployVars
      PROVE  UNCHANGED <<runs, script>>
  BY <1>7 DEF PostgresStart, PostgresStop, ApiStart, MigrateAndServe, ApiStop, Deploy,
              deployVars, vars
<1> QED
  BY <1>1, <1>2, <1>3, <1>4, <1>5, <1>6, <1>7 DEF DeployNext, ResetScript

\* "miniledger wiped and reseeded" is true: the whole history is there, unless an
\* account that somebody else opened for the owner was taken for a seed.
THEOREM ReportIsTrue == DeploySpec => []ReportedIsReseeded
<1>1. DeployInit => ScriptInv
  BY DEF DeployInit, At, ScriptInv
<1>2. SeedInv /\ WorkInv /\ ScriptInv => ReportedIsReseeded
  <2> SUFFICES ASSUME SeedInv, WorkInv, ScriptInv, script.at = "reported"
               PROVE  \/ Applied(script.run)
                      \/ \E a \in accounts : /\ a.owner = runs[script.run].owner
                                             /\ a.run # script.run
    BY DEF ReportedIsReseeded
  <2>1. script.run \in Runs /\ runs[script.run].at \in {"applied", "already"}
    BY DEF ScriptInv
  <2>2. CASE runs[script.run].at = "applied"
    BY <2>1, <2>2, AppliedHere
  <2>3. CASE runs[script.run].at = "already"
    BY <2>1, <2>3 DEF WorkInv, RunInv, RunKeptOff, HasAccount, HasOwn
  <2> QED
    BY <2>1, <2>2, <2>3
<1>3. DeploySpec => [](SeedInv /\ WorkInv)
  BY SeedInDeployment, WorkInvariant
<1> QED
  BY <1>1, <1>2, <1>3, ScriptKept, PTL DEF DeploySpec
=============================================================================
