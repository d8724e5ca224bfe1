-------------------------- MODULE AuditTrailProofs ---------------------------
(***************************************************************************)
(* What the audit can tell of a store that was edited behind the           *)
(* application, for every value of the constants of AuditTrail and any     *)
(* number of edits: an account reported as intact is intact while its head *)
(* is the poster's, the first broken link is the first departure while its *)
(* hashes are, no posting silences an alarm, and a balance that is hidden  *)
(* from every check takes two rewritten heads.                             *)
(*                                                                         *)
(* A hash determines the contents it covers, so a chain that verifies up   *)
(* to a row is known from that row's hash alone, and a hash that ends in   *)
(* an account is one the poster computed for it unless an edit computed    *)
(* it.                                                                     *)
(***************************************************************************)
EXTENDS AuditTrail, SumTheorems, SequenceTheorems, TLAPS

-----------------------------------------------------------------------------
(* Chains                                                                   *)

ContentSet ==
  [id : Transactions, account : Accounts, amount : Int, balanceAfter : Int]

RowSet ==
  [seq : Int, id : Transactions, account : Accounts, amount : Int,
   balanceAfter : Int, prevHash : Seq(ContentSet), hash : Seq(ContentSet)]

\* The contents of a row are well typed.
LEMMA ContentType ==
  ASSUME NEW p \in RowSet
  PROVE  Content(p) \in ContentSet
  BY DEF RowSet, Content, ContentSet

\* The hash of a row up to which the links hold covers exactly the rows so far:
\* verifyChain recomputes every hash from the beginning.
LEMMA HashesCoverRows ==
  ASSUME NEW s \in Seq(RowSet), NEW n \in 1..Len(s), \A i \in 1..n : LinkHolds(s, i)
  PROVE  s[n].hash = [i \in 1..n |-> Content(s[i])]
<1> DEFINE Covers(i) == s[i].hash = [j \in 1..i |-> Content(s[j])]
           Bad == {i \in 1..n : ~Covers(i)}
<1>1. SUFFICES ASSUME Bad # {} PROVE FALSE
  <2>1. n \in 1..n
    OBVIOUS
  <2> QED
    BY <2>1
<1>2. PICK i \in Bad : \A k \in Bad : i <= k
  <2>1. Bad \in SUBSET Nat
    OBVIOUS
  <2> QED
    BY <1>1, <2>1, SmallestIndex
<1>3. i \in 1..n /\ i \in 1..Len(s) /\ ~Covers(i)
  BY <1>2
<1>4. /\ LinkHolds(s, i)
      /\ s[i] \in RowSet
      /\ Content(s[i]) \in ContentSet
  BY <1>3, ContentType
<1>5. CASE i = 1
  <2>1. s[i].hash = <<Content(s[i])>>
    BY <1>4, <1>5 DEF LinkHolds, PrevOf, HashPosting, NoHash
  <2> QED
    BY <2>1, <1>3, <1>5
<1>6. CASE i # 1
  <2>1. i - 1 \in 1..n /\ Covers(i - 1)
    BY <1>2, <1>3, <1>6
  <2>2. s[i].hash = Append(s[i - 1].hash, Content(s[i]))
    BY <1>4, <1>6 DEF LinkHolds, PrevOf, HashPosting
  <2>3. \A j \in 1..(i - 1) : Content(s[j]) \in ContentSet
    BY <1>3, ContentType
  <2>4. [j \in 1..(i - 1) |-> Content(s[j])] \in Seq(ContentSet)
    BY <2>3, <1>3, <1>6
  <2>5. Append([j \in 1..(i - 1) |-> Content(s[j])], Content(s[i])) =
          [j \in 1..i |-> Content(s[j])]
    BY <2>4, <1>3, <1>4, <1>6
  <2> QED
    BY <2>1, <2>2, <2>5, <1>3
<1> QED
  BY <1>5, <1>6

\* Two chains that verify and end in the same hash are the same row by row.
LEMMA HeadDeterminesRows ==
  ASSUME NEW s \in Seq(RowSet), NEW t \in Seq(RowSet),
         ChainValid(s), ChainValid(t), HeadOf(s) = HeadOf(t)
  PROVE  SameRows(s, t) /\ AmountsOf(s) = AmountsOf(t)
<1> DEFINE Covered(u) == [i \in 1..Len(u) |-> Content(u[i])]
<1>0. /\ \A i \in 1..Len(s) : LinkHolds(s, i)
      /\ \A i \in 1..Len(t) : LinkHolds(t, i)
  BY DEF ChainValid, BrokenLinks
<1>1. HeadOf(s) = Covered(s)
  <2>1. CASE s = <<>>
    BY <2>1 DEF HeadOf, NoHash
  <2>2. CASE s # <<>>
    BY <1>0, <2>2, HashesCoverRows DEF HeadOf
  <2> QED
    BY <2>1, <2>2
<1>2. HeadOf(t) = Covered(t)
  <2>1. CASE t = <<>>
    BY <2>1 DEF HeadOf, NoHash
  <2>2. CASE t # <<>>
    BY <1>0, <2>2, HashesCoverRows DEF HeadOf
  <2> QED
    BY <2>1, <2>2
<1>3. Covered(s) = Covered(t)
  BY <1>1, <1>2
<1>4. Len(s) = Len(t)
  <2>1. 1..Len(s) = 1..Len(t)
    BY <1>3
  <2> QED
    BY <2>1
<1>5. \A i \in 1..Len(s) : Content(s[i]) = Content(t[i])
  BY <1>3, <1>4
<1>6. \A i \in 1..Len(s) : s[i].hash = t[i].hash
  <2> TAKE i \in 1..Len(s)
  <2>1. s[i].hash = [j \in 1..i |-> Content(s[j])]
    BY <1>0, HashesCoverRows
  <2>2. t[i].hash = [j \in 1..i |-> Content(t[j])]
    BY <1>0, HashesCoverRows, <1>4, SMTT(30)
  <2>3. \A j \in 1..i : Content(s[j]) = Content(t[j])
    BY <1>5
  <2> QED
    BY <2>1, <2>2, <2>3
<1>7. \A i \in 1..Len(s) : SameRow(s[i], t[i])
  <2> TAKE i \in 1..Len(s)
  <2>1. PrevOf(s, i) = PrevOf(t, i)
    BY <1>6 DEF PrevOf
  <2>2. LinkHolds(s, i) /\ LinkHolds(t, i)
    BY <1>4 DEF ChainValid, BrokenLinks
  <2> QED
    BY <1>5, <1>6, <2>1, <2>2 DEF SameRow, LinkHolds
<1>8. AmountsOf(s) = AmountsOf(t)
  <2>1. \A i \in 1..Len(s) : s[i].amount = t[i].amount
    BY <1>5 DEF Content
  <2> QED
    BY <2>1, <1>4 DEF AmountsOf
<1> QED
  BY <1>4, <1>7, <1>8 DEF SameRows

\* A chain goes on verifying when a posting is chained to its head.
LEMMA AppendChain ==
  ASSUME NEW s \in Seq(RowSet), ChainValid(s), NEW p \in RowSet,
         p.prevHash = HeadOf(s), p.hash = HashPosting(HeadOf(s), p)
  PROVE  ChainValid(Append(s, p)) /\ HeadOf(Append(s, p)) = p.hash
<1> DEFINE t == Append(s, p)
<1>1. /\ t \in Seq(RowSet) /\ Len(t) = Len(s) + 1 /\ t[Len(t)] = p
      /\ \A i \in 1..Len(s) : t[i] = s[i]
  OBVIOUS
<1>2. \A i \in 1..Len(s) : LinkHolds(t, i)
  <2> TAKE i \in 1..Len(s)
  <2>1. PrevOf(t, i) = PrevOf(s, i) /\ t[i] = s[i]
    BY <1>1 DEF PrevOf
  <2>2. LinkHolds(s, i)
    BY DEF ChainValid, BrokenLinks
  <2> QED
    BY <2>1, <2>2 DEF LinkHolds
<1>3. LinkHolds(t, Len(t))
  <2>1. PrevOf(t, Len(t)) = HeadOf(s)
    BY <1>1 DEF PrevOf, HeadOf
  <2> QED
    BY <1>1, <2>1 DEF LinkHolds
<1>4. ChainValid(t)
  <2>1. \A i \in DOMAIN t : LinkHolds(t, i)
    BY <1>1, <1>2, <1>3
  <2> QED
    BY <2>1 DEF ChainValid, BrokenLinks
<1>5. HeadOf(t) = p.hash
  <2>1. t # <<>>
    BY <1>1
  <2> QED
    BY <1>1, <2>1 DEF HeadOf
<1> QED
  BY <1>4, <1>5

-----------------------------------------------------------------------------
(* The history and its head                                                 *)

StoreOK ==
  /\ rows \in [Accounts -> Seq(RowSet)]
  /\ balance \in [Accounts -> [balance : Int, chainHash : Seq(ContentSet)]]
  /\ nextSeq \in Int
  /\ used \in SUBSET Transactions
  /\ posted \in [Accounts -> Seq(RowSet)]
  /\ reheaded \in SUBSET Accounts

\* What the poster wrote is a chain, and the balance row holds its head, as
\* long as no edit has written chain_hash: every posting goes on from there.
HeadInv ==
  \A a \in Accounts \ reheaded :
    ChainValid(posted[a]) /\ balance[a].chainHash = HeadOf(posted[a])

TrailInv == StoreOK /\ HeadInv

\* No hash covers nothing.
LEMMA NoHashType == NoHash \in Seq(ContentSet)
  BY DEF NoHash

\* The hash of the last row, or none, is a hash.
LEMMA HeadType ==
  ASSUME NEW s \in Seq(RowSet)
  PROVE  HeadOf(s) \in Seq(ContentSet)
<1>1. CASE s = <<>>
  BY <1>1 DEF HeadOf, NoHash
<1>2. CASE s # <<>>
  <2>1. s[Len(s)] \in RowSet
    BY <1>2
  <2> QED
    BY <1>2, <2>1 DEF HeadOf, RowSet
<1> QED
  BY <1>1, <1>2

\* So is the hash before a row.
LEMMA PrevType ==
  ASSUME NEW s \in Seq(RowSet), NEW i \in 1..Len(s)
  PROVE  PrevOf(s, i) \in Seq(ContentSet)
<1>1. CASE i = 1
  BY <1>1, NoHashType DEF PrevOf
<1>2. CASE i # 1
  <2>1. s[i - 1] \in RowSet
    BY <1>2
  <2> QED
    BY <1>2, <2>1 DEF PrevOf, RowSet
<1> QED
  BY <1>1, <1>2

\* A row that is chained anew stays well typed.
LEMMA ChainedType ==
  ASSUME NEW h \in Seq(ContentSet), NEW q \in Int, NEW p,
         Content(p) \in ContentSet
  PROVE  /\ Chained(h, p, q) \in RowSet
         /\ Chained(h, p, q).prevHash = h
         /\ Chained(h, p, q).hash = HashPosting(h, Chained(h, p, q))
<1>1. /\ p.id \in Transactions /\ p.account \in Accounts
      /\ p.amount \in Int /\ p.balanceAfter \in Int
  BY DEF Content, ContentSet
<1>2. HashPosting(h, p) \in Seq(ContentSet)
  BY DEF HashPosting
<1>3. Content(Chained(h, p, q)) = Content(p)
  BY DEF Content, Chained
<1> QED
  BY <1>1, <1>2, <1>3 DEF Chained, RowSet, HashPosting

LEMMA TrailInit == Init => TrailInv
<1> SUFFICES ASSUME Init PROVE TrailInv
  OBVIOUS
<1>1. StoreOK
  BY DEF Init, StoreOK, NoHash
<1>2. HeadInv
  BY DEF Init, HeadInv, ChainValid, BrokenLinks, HeadOf
<1> QED
  BY <1>1, <1>2 DEF TrailInv

\* The two rows of a transfer, and what becomes of the tables: each continues
\* the history of its account from what the balance row holds.
Legs(new, id, from, to) ==
  /\ from # to
  /\ \A a \in {from, to} :
       /\ new[a] \in RowSet
       /\ new[a].account = a
       /\ new[a].prevHash = balance[a].chainHash
       /\ new[a].hash = HashPosting(balance[a].chainHash, new[a])
       /\ new[a].balanceAfter = balance[a].balance + new[a].amount
  /\ new[from].amount + new[to].amount = 0
  /\ new[from].seq = nextSeq /\ new[to].seq = nextSeq + 1
  /\ rows' = [a \in Accounts |->
       IF a \in {from, to} THEN Append(rows[a], new[a]) ELSE rows[a]]
  /\ posted' = [a \in Accounts |->
       IF a \in {from, to} THEN Append(posted[a], new[a]) ELSE posted[a]]
  /\ balance' = [a \in Accounts |->
       IF a \in {from, to}
       THEN [balance |-> new[a].balanceAfter, chainHash |-> new[a].hash]
       ELSE balance[a]]
  /\ nextSeq' = nextSeq + 2 /\ used' = used \cup {id}
  /\ UNCHANGED <<rehashed, reheaded, edits>>

\* What a transfer does to the tables, said of its two rows.
LEMMA PostLegs ==
  ASSUME StoreOK, NEW id \in Transactions, NEW from \in Accounts,
         NEW to \in Accounts, NEW amount \in Amounts, Post(id, from, to, amount)
  PROVE  \E new : Legs(new, id, from, to)
<1> DEFINE new == [a \in {from, to} |->
                     IF a = from THEN Row(id, from, -amount, nextSeq)
                                 ELSE Row(id, to, amount, nextSeq + 1)]
<1>1. /\ from # to
      /\ rows' = [a \in Accounts |->
           IF a \in {from, to} THEN Append(rows[a], new[a]) ELSE rows[a]]
      /\ posted' = [a \in Accounts |->
           IF a \in {from, to} THEN Append(posted[a], new[a]) ELSE posted[a]]
      /\ balance' = [a \in Accounts |->
           IF a \in {from, to}
           THEN [balance |-> new[a].balanceAfter, chainHash |-> new[a].hash]
           ELSE balance[a]]
      /\ nextSeq' = nextSeq + 2 /\ used' = used \cup {id}
      /\ UNCHANGED <<rehashed, reheaded, edits>>
  BY DEF Post, SeqsDrawn, UpdatedBalance
<1>2. ASSUME NEW a \in Accounts, NEW n \in Int, NEW q \in Int
      PROVE  /\ Row(id, a, n, q) \in RowSet
             /\ Row(id, a, n, q).account = a
             /\ Row(id, a, n, q).amount = n /\ Row(id, a, n, q).seq = q
             /\ Row(id, a, n, q).balanceAfter = balance[a].balance + n
             /\ Row(id, a, n, q).prevHash = balance[a].chainHash
             /\ Row(id, a, n, q).hash =
                  HashPosting(balance[a].chainHash, Row(id, a, n, q))
  <2>1. balance[a].chainHash \in Seq(ContentSet) /\ balance[a].balance \in Int
    BY DEF StoreOK
  <2>2. Content(Line(id, a, n)) \in ContentSet
    BY <2>1 DEF Content, ContentSet, Line
  <2>3. /\ Row(id, a, n, q) \in RowSet
        /\ Row(id, a, n, q).prevHash = balance[a].chainHash
        /\ Row(id, a, n, q).hash =
             HashPosting(balance[a].chainHash, Row(id, a, n, q))
    BY <2>1, <2>2, ChainedType DEF Row
  <2>4. /\ Row(id, a, n, q).account = a
        /\ Row(id, a, n, q).amount = n /\ Row(id, a, n, q).seq = q
        /\ Row(id, a, n, q).balanceAfter = balance[a].balance + n
    BY DEF Row, Chained, Line
  <2> QED
    BY <2>3, <2>4
<1>3. amount \in Int /\ -amount \in Int /\ nextSeq \in Int /\ nextSeq + 1 \in Int
  BY AmountsAssumption DEF StoreOK
<1>4. /\ new[from] = Row(id, from, -amount, nextSeq)
      /\ new[to] = Row(id, to, amount, nextSeq + 1)
  BY <1>1
<1> HIDE DEF new
<1>5. \A a \in {from, to} :
        /\ new[a] \in RowSet
        /\ new[a].account = a
        /\ new[a].prevHash = balance[a].chainHash
        /\ new[a].hash = HashPosting(balance[a].chainHash, new[a])
        /\ new[a].balanceAfter = balance[a].balance + new[a].amount
  <2>1. ASSUME NEW a \in {from, to}, NEW n \in Int, NEW q \in Int,
               new[a] = Row(id, a, n, q)
        PROVE  /\ new[a] \in RowSet
               /\ new[a].account = a
               /\ new[a].prevHash = balance[a].chainHash
               /\ new[a].hash = HashPosting(balance[a].chainHash, new[a])
               /\ new[a].balanceAfter = balance[a].balance + new[a].amount
    BY <1>2, <2>1
  <2> QED
    BY <1>3, <1>4, <2>1
<1>6. /\ new[from].amount + new[to].amount = 0
      /\ new[from].seq = nextSeq /\ new[to].seq = nextSeq + 1
  BY <1>2, <1>3, <1>4
<1>7. Legs(new, id, from, to)
  BY <1>1, <1>5, <1>6 DEF Legs
<1> QED
  BY <1>7

LEMMA PostKeeps ==
  ASSUME TrailInv, NEW id \in Transactions, NEW from \in Accounts,
         NEW to \in Accounts, NEW amount \in Amounts, Post(id, from, to, amount)
  PROVE  TrailInv'
<1>1. PICK new : Legs(new, id, from, to)
  BY PostLegs DEF TrailInv
<1>2. StoreOK'
  <2>1. \A a \in {from, to} :
          [balance |-> new[a].balanceAfter, chainHash |-> new[a].hash]
            \in [balance : Int, chainHash : Seq(ContentSet)]
    BY <1>1 DEF Legs, RowSet
  <2>2. \A a \in {from, to} : /\ Append(rows[a], new[a]) \in Seq(RowSet)
                              /\ Append(posted[a], new[a]) \in Seq(RowSet)
    BY <1>1 DEF Legs, TrailInv, StoreOK
  <2>3. /\ rows' \in [Accounts -> Seq(RowSet)] /\ posted' \in [Accounts -> Seq(RowSet)]
        /\ balance' \in [Accounts -> [balance : Int, chainHash : Seq(ContentSet)]]
    BY <1>1, <2>1, <2>2 DEF Legs, TrailInv, StoreOK
  <2>4. nextSeq' = nextSeq + 2 /\ used' = used \cup {id} /\ reheaded' = reheaded
    BY <1>1, Zenon DEF Legs
  <2> QED
    BY <2>3, <2>4, SMTT(30) DEF TrailInv, StoreOK
<1>3. HeadInv'
  <2> SUFFICES ASSUME NEW a \in Accounts \ reheaded
               PROVE  ChainValid(posted'[a]) /\
                      balance'[a].chainHash = HeadOf(posted'[a])
    BY <1>1 DEF HeadInv, Legs
  <2>1. /\ ChainValid(posted[a]) /\ balance[a].chainHash = HeadOf(posted[a])
        /\ posted[a] \in Seq(RowSet)
    BY DEF TrailInv, HeadInv, StoreOK
  <2>2. CASE a \in {from, to}
    <3>1. /\ posted'[a] = Append(posted[a], new[a])
          /\ balance'[a].chainHash = new[a].hash
      BY <1>1, <2>2 DEF Legs
    <3>2. /\ new[a] \in RowSet /\ new[a].prevHash = HeadOf(posted[a])
          /\ new[a].hash = HashPosting(HeadOf(posted[a]), new[a])
      BY <1>1, <2>1, <2>2 DEF Legs
    <3> QED
      BY <2>1, <3>1, <3>2, AppendChain
  <2>3. CASE a \notin {from, to}
    BY <1>1, <2>1, <2>3 DEF Legs
  <2> QED
    BY <2>2, <2>3
<1> QED
  BY <1>2, <1>3 DEF TrailInv

\* An edit of the rows of the tables leaves rows of their types behind.
LEMMA EditedRowsType ==
  ASSUME TrailInv, Edit
  PROVE  rows' \in [Accounts -> Seq(RowSet)] /\ nextSeq' \in Int
<1> USE DEF TrailInv, StoreOK
<1>1. PICK a \in Accounts :
        \/ \E i \in DOMAIN rows[a] :
             \/ EditField(a, i) \/ DeleteRow(a, i)
             \/ SwapRows(a, i) \/ RehashRow(a, i)
             \/ \E b \in Accounts :
                  \/ \E k \in 0..Len(rows[b]) : MoveRow(a, i, b, k)
                  \/ \E j \in DOMAIN rows[b] : RepeatRows(a, i, b, j)
        \/ EditBalance(a) \/ EditHead(a)
  BY DEF Edit
<1>2. CASE EditBalance(a) \/ EditHead(a)
  BY <1>2 DEF EditBalance, EditHead
<1>3. ASSUME NEW i \in DOMAIN rows[a],
             \/ EditField(a, i) \/ DeleteRow(a, i)
             \/ SwapRows(a, i) \/ RehashRow(a, i)
             \/ \E b \in Accounts :
                  \/ \E k \in 0..Len(rows[b]) : MoveRow(a, i, b, k)
                  \/ \E j \in DOMAIN rows[b] : RepeatRows(a, i, b, j)
      PROVE  rows' \in [Accounts -> Seq(RowSet)] /\ nextSeq' \in Int
  <2>1. rows[a] \in Seq(RowSet) /\ i \in 1..Len(rows[a]) /\ rows[a][i] \in RowSet
    BY <1>3
  <2>2. CASE EditField(a, i)
    <3>1. ASSUME NEW p \in RowSet, rows' = [rows EXCEPT ![a][i] = p]
          PROVE  rows' \in [Accounts -> Seq(RowSet)]
      BY <2>1, <3>1
    <3>2. \A v \in Int : /\ [rows[a][i] EXCEPT !.amount = v] \in RowSet
                         /\ [rows[a][i] EXCEPT !.balanceAfter = v] \in RowSet
      BY <2>1 DEF RowSet
    <3>3. \A id \in Transactions : [rows[a][i] EXCEPT !.id = id] \in RowSet
      BY <2>1 DEF RowSet
    <3>4. [rows[a][i] EXCEPT !.prevHash = NoHash] \in RowSet
      BY <2>1, NoHashType DEF RowSet
    <3> QED
      BY <2>2, <3>1, <3>2, <3>3, <3>4, AmountsAssumption DEF EditField
  <2>3. CASE DeleteRow(a, i)
    <3>1. SubSeq(rows[a], 1, i - 1) \in Seq(RowSet) /\
          SubSeq(rows[a], i + 1, Len(rows[a])) \in Seq(RowSet)
      BY <2>1
    <3> QED
      BY <2>3, <3>1 DEF DeleteRow
  <2>4. CASE SwapRows(a, i)
    <3>1. i + 1 \in 1..Len(rows[a]) /\ rows[a][i + 1] \in RowSet
      BY <2>1, <2>4 DEF SwapRows
    <3>2. /\ [rows[a][i + 1] EXCEPT !.seq = rows[a][i].seq] \in RowSet
          /\ [rows[a][i] EXCEPT !.seq = rows[a][i + 1].seq] \in RowSet
      BY <2>1, <3>1 DEF RowSet
    <3> QED
      BY <2>1, <2>4, <3>1, <3>2 DEF SwapRows
  <2>5. CASE RehashRow(a, i)
    <3>1. PrevOf(rows[a], i) \in Seq(ContentSet)
      BY <2>1, PrevType
    <3>2. Chained(PrevOf(rows[a], i), rows[a][i], rows[a][i].seq) \in RowSet
      BY <2>1, <3>1, ContentType, ChainedType DEF RowSet
    <3> QED
      BY <2>1, <2>5, <3>2 DEF RehashRow
  <2>6. ASSUME NEW b \in Accounts, NEW k \in 0..Len(rows[b]), MoveRow(a, i, b, k)
        PROVE  rows' \in [Accounts -> Seq(RowSet)] /\ nextSeq' \in Int
    <3>1. SubSeq(rows[a], 1, i - 1) \in Seq(RowSet) /\
          SubSeq(rows[a], i + 1, Len(rows[a])) \in Seq(RowSet)
      BY <2>1, SMTT(30)
    <3>2. SubSeq(rows[b], 1, k) \in Seq(RowSet) /\
          SubSeq(rows[b], k + 1, Len(rows[b])) \in Seq(RowSet)
      OBVIOUS
    <3> DEFINE p == [rows[a][i] EXCEPT !.account = b]
               x == SubSeq(rows[a], 1, i - 1) \o SubSeq(rows[a], i + 1, Len(rows[a]))
               y == SubSeq(rows[b], 1, k) \o <<p>> \o SubSeq(rows[b], k + 1, Len(rows[b]))
    <3>3. p \in RowSet
      BY <2>1 DEF RowSet
    <3>4. x \in Seq(RowSet)
      BY <3>1
    <3>5. y \in Seq(RowSet)
      <4> HIDE DEF p
      <4>1. <<p>> \in Seq(RowSet)
        BY <3>3
      <4> QED
        BY <3>2, <4>1
    <3>6. a # b /\ rows' = [rows EXCEPT ![a] = x, ![b] = y] /\ nextSeq' = nextSeq
      BY <2>6 DEF MoveRow
    <3> HIDE DEF x, y, p
    <3> QED
      BY <3>4, <3>5, <3>6
  <2>7. ASSUME NEW b \in Accounts, NEW j \in DOMAIN rows[b], RepeatRows(a, i, b, j)
        PROVE  rows' \in [Accounts -> Seq(RowSet)] /\ nextSeq' \in Int
    <3>1. /\ [rows[a][i] EXCEPT !.seq = nextSeq] \in RowSet
          /\ [rows[b][j] EXCEPT !.seq = nextSeq + 1] \in RowSet
      <4>1. rows[b][j] \in RowSet
        BY <2>7
      <4>2. nextSeq \in Int /\ nextSeq + 1 \in Int
        OBVIOUS
      <4>3. ASSUME NEW p \in RowSet, NEW q \in Int
            PROVE  [p EXCEPT !.seq = q] \in RowSet
        BY DEF RowSet
      <4> QED
        BY <2>1, <4>1, <4>2, <4>3
    <3> DEFINE x == Append(rows[a], [rows[a][i] EXCEPT !.seq = nextSeq])
               y == Append(rows[b], [rows[b][j] EXCEPT !.seq = nextSeq + 1])
    <3>2. x \in Seq(RowSet) /\ y \in Seq(RowSet)
      BY <3>1
    <3>3. a # b /\ rows' = [rows EXCEPT ![a] = x, ![b] = y] /\ nextSeq' = nextSeq + 2
      BY <2>7 DEF RepeatRows
    <3> HIDE DEF x, y
    <3>4. rows' \in [Accounts -> Seq(RowSet)]
      BY <3>2, <3>3
    <3>5. nextSeq' \in Int
      BY <3>3
    <3> QED
      BY <3>4, <3>5
  <2>8. nextSeq' \in Int
    BY <1>3, <2>6, <2>7 DEF EditField, DeleteRow, SwapRows, RehashRow
  <2> QED
    BY <1>3, <2>2, <2>3, <2>4, <2>5, <2>6, <2>7, <2>8
<1> QED
  BY <1>1, <1>2, <1>3

\* The only edit of a chain head marks its account; no edit rewrites history.
LEMMA EditKeeps ==
  ASSUME TrailInv, Edit
  PROVE  TrailInv'
<1>1. used' = used /\ posted' = posted
  BY DEF Edit
<1>2. /\ balance' \in [Accounts -> [balance : Int, chainHash : Seq(ContentSet)]]
      /\ reheaded' \in SUBSET Accounts
      /\ reheaded \subseteq reheaded'
      /\ \A a \in Accounts \ reheaded' : balance'[a].chainHash = balance[a].chainHash
  <2>1. PICK a \in Accounts :
          \/ EditBalance(a) \/ EditHead(a)
          \/ UNCHANGED <<balance, reheaded>>
    <3>1. \A a \in Accounts : \A i \in DOMAIN rows[a] :
            EditField(a, i) \/ DeleteRow(a, i) \/ SwapRows(a, i) \/ RehashRow(a, i)
              => UNCHANGED <<balance, reheaded>>
      BY DEF EditField, DeleteRow, SwapRows, RehashRow
    <3>2. \A a, b \in Accounts : \A i \in DOMAIN rows[a] :
            /\ \A k \in 0..Len(rows[b]) :
                 MoveRow(a, i, b, k) => UNCHANGED <<balance, reheaded>>
            /\ \A j \in DOMAIN rows[b] :
                 RepeatRows(a, i, b, j) => UNCHANGED <<balance, reheaded>>
      BY DEF MoveRow, RepeatRows
    <3> QED
      BY <3>1, <3>2, Zenon DEF Edit
  <2>2. CASE EditBalance(a)
    BY <2>2, AmountsAssumption, ZenonT(60) DEF EditBalance, TrailInv, StoreOK
  <2>3. CASE EditHead(a)
    <3>1. HeadOf(rows[a]) \in Seq(ContentSet)
      BY HeadType DEF TrailInv, StoreOK
    <3> QED
      BY <2>3, <3>1 DEF EditHead, TrailInv, StoreOK
  <2>4. CASE UNCHANGED <<balance, reheaded>>
    BY <2>4 DEF TrailInv, StoreOK
  <2> QED
    BY <2>1, <2>2, <2>3, <2>4
<1>3. StoreOK'
  BY <1>1, <1>2, EditedRowsType DEF TrailInv, StoreOK
<1>4. HeadInv'
  BY <1>1, <1>2 DEF TrailInv, HeadInv
<1> QED
  BY <1>3, <1>4 DEF TrailInv

LEMMA TrailStep == TrailInv /\ [Next]_vars => TrailInv'
<1> SUFFICES ASSUME TrailInv, [Next]_vars PROVE TrailInv'
  OBVIOUS
<1>1. CASE Transfer
  BY <1>1, PostKeeps DEF Transfer
<1>2. CASE Edit
  BY <1>2, EditKeeps
<1>3. CASE UNCHANGED vars
  BY <1>3 DEF vars, TrailInv, StoreOK, HeadInv
<1> QED
  BY <1>1, <1>2, <1>3 DEF Next

\* An account whose head is the poster's and whose chain verifies up to it has
\* the poster's rows.
LEMMA TrailImpliesIntactIsTrue == TrailInv => IntactIsTrue
<1> SUFFICES ASSUME TrailInv, NEW a \in Accounts \ reheaded, Intact(a)
             PROVE  /\ SameRows(rows[a], posted[a])
                    /\ balance[a].balance = TotalOf(posted[a])
  BY DEF IntactIsTrue
<1>1. /\ rows[a] \in Seq(RowSet) /\ posted[a] \in Seq(RowSet)
      /\ ChainValid(rows[a]) /\ ChainValid(posted[a])
      /\ HeadOf(rows[a]) = HeadOf(posted[a])
  BY DEF TrailInv, StoreOK, HeadInv, Intact, HeadMatches
<1>2. SameRows(rows[a], posted[a]) /\ AmountsOf(rows[a]) = AmountsOf(posted[a])
  BY <1>1, HeadDeterminesRows
<1>3. balance[a].balance = TotalOf(rows[a])
  BY DEF Intact, ReconciledAccount
<1> QED
  BY <1>2, <1>3 DEF TotalOf

\* For every number of accounts, postings and edits: an account reported as
\* intact, whose chain_hash no edit has written, has exactly the postings the
\* poster wrote and the balance they add up to (hash-chain.ts, verifyChain;
\* audit.service.ts, verifyAccount).
THEOREM IntactAlwaysTrue == Spec => []IntactIsTrue
<1>1. Init => TrailInv
  BY TrailInit
<1>2. TrailInv /\ [Next]_vars => TrailInv'
  BY TrailStep
<1>3. TrailInv => IntactIsTrue
  BY TrailImpliesIntactIsTrue
<1> QED
  BY <1>1, <1>2, <1>3, PTL DEF Spec

-----------------------------------------------------------------------------
(* Sums of amounts                                                          *)

\* What folds over a function add up to.
LEMMA FoldIsSum ==
  ASSUME NEW f, IsFiniteSet(DOMAIN f)
  PROVE  FoldFunction(+, 0, f) = SumOf(f, DOMAIN f)
<1> DEFINE S == DOMAIN f
           Folds(g) == g = [t \in SUBSET S |->
             IF t = {} THEN 0 ELSE f[Pick(t)] + g[t \ {Pick(t)}]]
<1>1. \A g : Folds(g) <=> Adds(g, f, S)
  BY DEF Adds
<1>2. PICK g : Adds(g, f, S) /\ SumOf(f, S) = g[S]
  BY SumAdds
<1>3. \E h : Folds(h)
  BY <1>1, <1>2
<1>4. \E h : Folds(h) /\ FoldFunction(+, 0, f) = h[S]
  BY <1>3 DEF FoldFunction, FoldFunctionOnSet, MapThenFoldSet, Pick
<1>5. PICK h : Adds(h, f, S) /\ FoldFunction(+, 0, f) = h[S]
  BY <1>1, <1>4
<1>6. \A T : IsFiniteSet(T) /\ Adds(g, f, T) /\ Adds(h, f, T) => g[T] = h[T]
  <2> TAKE T
  <2> HAVE IsFiniteSet(T) /\ Adds(g, f, T) /\ Adds(h, f, T)
  <2>1. T \in SUBSET T /\ \A x \in T : f[x] = f[x]
    OBVIOUS
  <2> QED
    BY <2>1, AddsAgree
<1> QED
  BY <1>2, <1>5, <1>6

\* What the audit adds up for an account is a sum over its postings.
LEMMA TotalOfIsSum ==
  ASSUME NEW s \in Seq(RowSet)
  PROVE  TotalOf(s) = SumOf(AmountsOf(s), DOMAIN s)
<1>1. DOMAIN AmountsOf(s) = DOMAIN s /\ IsFiniteSet(DOMAIN s)
  BY FS_Interval DEF AmountsOf
<1> QED
  BY <1>1, FoldIsSum DEF TotalOf

\* A total is an integer.
LEMMA TotalOfInt ==
  ASSUME NEW s \in Seq(RowSet)
  PROVE  TotalOf(s) \in Int
<1>1. DOMAIN s = 1..Len(s) /\ Len(s) \in Nat /\ \A i \in 1..Len(s) : s[i] \in RowSet
  OBVIOUS
<1>2. \A r \in RowSet : r.amount \in Int
  BY DEF RowSet
<1>3. \A i \in DOMAIN s : AmountsOf(s)[i] \in Int
  BY <1>1, <1>2 DEF AmountsOf
<1>4. IsFiniteSet(DOMAIN s)
  BY <1>1, FS_Interval
<1> HIDE DEF AmountsOf
<1> QED
  BY <1>3, <1>4, SumInt, TotalOfIsSum

\* A posting adds its amount.
LEMMA TotalOfAppend ==
  ASSUME NEW s \in Seq(RowSet), NEW p \in RowSet
  PROVE  TotalOf(s) \in Int /\ TotalOf(Append(s, p)) = TotalOf(s) + p.amount
<1> DEFINE t == Append(s, p)
           n == Len(s) + 1
           f == AmountsOf(s)
           e == AmountsOf(t)
<1>1. /\ t \in Seq(RowSet) /\ DOMAIN t = 1..n /\ DOMAIN s = 1..Len(s)
      /\ (1..n) \ {n} = 1..Len(s) /\ n \in 1..n
      /\ Len(s) \in Nat /\ n \in Nat
  OBVIOUS
<1>2. /\ \A i \in 1..Len(s) : e[i] = f[i] /\ f[i] \in Int
      /\ e[n] = p.amount /\ p.amount \in Int
  <2>1. \A r \in RowSet : r.amount \in Int
    BY DEF RowSet
  <2>2. /\ \A i \in 1..Len(s) : t[i] = s[i] /\ s[i] \in RowSet
        /\ t[n] = p
    OBVIOUS
  <2>3. /\ \A i \in 1..Len(s) : e[i] = t[i].amount /\ f[i] = s[i].amount
        /\ e[n] = t[n].amount
    BY <1>1 DEF AmountsOf
  <2> QED
    BY <2>1, <2>2, <2>3
<1>3. \A i \in 1..n : e[i] \in Int
  BY <1>1, <1>2
<1>4. IsFiniteSet(1..n) /\ IsFiniteSet(1..Len(s))
  BY <1>1, FS_Interval
<1>5. TotalOf(t) = SumOf(e, 1..n) /\ TotalOf(s) = SumOf(f, 1..Len(s))
  BY <1>1, TotalOfIsSum
<1> HIDE DEF t, n, f, e
<1>6. SumOf(e, 1..n) = e[n] + SumOf(e, (1..n) \ {n})
  BY <1>1, <1>3, <1>4, SumSplit
<1>7. SumOf(e, 1..Len(s)) = SumOf(f, 1..Len(s)) /\ SumOf(f, 1..Len(s)) \in Int
  BY <1>2, <1>4, SumSame, SumInt
<1>8. TotalOf(t) = p.amount + TotalOf(s) /\ TotalOf(s) \in Int
  BY <1>1, <1>2, <1>5, <1>6, <1>7
<1> QED
  BY <1>2, <1>8 DEF t

-----------------------------------------------------------------------------
(* Alarms                                                                   *)

\* A longer chain that verifies goes on from one that verifies, at its head.
LEMMA PrefixOfChain ==
  ASSUME NEW s \in Seq(RowSet), NEW p \in RowSet, ChainValid(Append(s, p))
  PROVE  ChainValid(s) /\ p.prevHash = HeadOf(s)
<1> DEFINE t == Append(s, p)
<1>1. /\ t \in Seq(RowSet) /\ Len(t) = Len(s) + 1 /\ t[Len(t)] = p
      /\ \A i \in 1..Len(s) : t[i] = s[i]
      /\ Len(s) \in Nat
  OBVIOUS
<1>2. \A i \in 1..Len(t) : LinkHolds(t, i)
  BY <1>1 DEF ChainValid, BrokenLinks
<1> HIDE DEF t
<1>3. \A i \in 1..Len(s) : LinkHolds(s, i)
  <2> TAKE i \in 1..Len(s)
  <2>1. PrevOf(t, i) = PrevOf(s, i) /\ t[i] = s[i] /\ i \in 1..Len(t)
    BY <1>1 DEF PrevOf
  <2> QED
    BY <1>2, <2>1 DEF LinkHolds
<1>4. p.prevHash = HeadOf(s)
  <2>1. PrevOf(t, Len(t)) = HeadOf(s)
    BY <1>1 DEF PrevOf, HeadOf
  <2>2. Len(t) \in 1..Len(t)
    BY <1>1
  <2> QED
    BY <1>1, <1>2, <2>1, <2>2 DEF LinkHolds
<1> QED
  BY <1>3, <1>4 DEF ChainValid, BrokenLinks

\* A posting makes a chain that verifies, up to its head, only out of one.
LEMMA PostKeepsAlarm ==
  ASSUME StoreOK, NEW new, NEW id, NEW from \in Accounts, NEW to \in Accounts,
         Legs(new, id, from, to), NEW a \in Accounts
  PROVE  /\ (ChainValid(rows[a]) /\ HeadMatches(a))' => ChainValid(rows[a]) /\ HeadMatches(a)
         /\ TotalOf(rows[a])' = balance[a].balance' => TotalOf(rows[a]) = balance[a].balance
<1>1. CASE a \in {from, to}
  <2>1. /\ new[a] \in RowSet /\ rows[a] \in Seq(RowSet)
        /\ new[a].prevHash = balance[a].chainHash
        /\ new[a].balanceAfter = balance[a].balance + new[a].amount
        /\ rows'[a] = Append(rows[a], new[a])
        /\ balance'[a].balance = new[a].balanceAfter
        /\ balance[a].balance \in Int
    BY <1>1 DEF Legs, StoreOK
  <2>2. new[a].amount \in Int
    BY <2>1 DEF RowSet
  <2>3. ChainValid(rows'[a]) => ChainValid(rows[a]) /\ new[a].prevHash = HeadOf(rows[a])
    BY <2>1, PrefixOfChain
  <2>4. TotalOf(rows[a]) \in Int /\ TotalOf(rows'[a]) = TotalOf(rows[a]) + new[a].amount
    BY <2>1, TotalOfAppend
  <2>5. ChainValid(rows'[a]) => ChainValid(rows[a]) /\ HeadMatches(a)
    BY <2>1, <2>3 DEF HeadMatches
  <2>6. TotalOf(rows'[a]) = balance'[a].balance => TotalOf(rows[a]) = balance[a].balance
    BY <2>1, <2>2, <2>4
  <2> QED
    BY <2>5, <2>6
<1>2. CASE a \notin {from, to}
  <2>1. rows'[a] = rows[a] /\ balance'[a] = balance[a]
    BY <1>2 DEF Legs
  <2> QED
    BY <2>1 DEF HeadMatches
<1> QED
  BY <1>1, <1>2

\* Only edits are counted.
LEMMA EditsCounted == Spec => [](edits \in 0..MaxEdits)
<1>1. Init => edits \in 0..MaxEdits
  BY AmountsAssumption DEF Init
<1>2. edits \in 0..MaxEdits /\ [Next]_vars => (edits \in 0..MaxEdits)'
  <2>1. CASE Transfer
    BY <2>1 DEF Transfer, Post
  <2>2. CASE Edit
    BY <2>2, AmountsAssumption DEF Edit
  <2>3. CASE UNCHANGED vars
    BY <2>3 DEF vars
  <2> QED
    BY <2>1, <2>2, <2>3 DEF Next
<1> QED
  BY <1>1, <1>2, PTL DEF Spec

\* The history is a chain in every reachable store.
LEMMA TrailInvariant == Spec => []TrailInv
  BY TrailInit, TrailStep, PTL DEF Spec

\* What an edit broke, no posting repairs: neither a chain nor its head, nor a
\* balance that is not the sum (ledger-poster.ts builds on both as they are).
THEOREM AlarmsStay == Spec => AlarmStays
<1>1. TrailInv /\ edits \in 0..MaxEdits /\ [Next]_vars =>
        [edits' = edits =>
           \A a \in Accounts :
             /\ ~(ChainValid(rows[a]) /\ HeadMatches(a)) =>
                  ~(ChainValid(rows[a])' /\ HeadMatches(a)')
             /\ TotalOf(rows[a]) # balance[a].balance =>
                  TotalOf(rows[a])' # balance[a].balance']_vars
  <2> SUFFICES ASSUME TrailInv, edits \in 0..MaxEdits, Next, edits' = edits,
                      NEW a \in Accounts
               PROVE  /\ ~(ChainValid(rows[a]) /\ HeadMatches(a)) =>
                           ~(ChainValid(rows[a])' /\ HeadMatches(a)')
                      /\ TotalOf(rows[a]) # balance[a].balance =>
                           TotalOf(rows[a])' # balance[a].balance'
    OBVIOUS
  <2>1. edits + 1 # edits
    BY AmountsAssumption
  <2>2. Transfer
    BY <2>1 DEF Next, Edit
  <2>3. PICK id \in Transactions, from \in Accounts, to \in Accounts, amount \in Amounts :
          Post(id, from, to, amount)
    BY <2>2 DEF Transfer
  <2>4. PICK new : Legs(new, id, from, to)
    BY <2>3, PostLegs DEF TrailInv
  <2> QED
    BY <2>4, PostKeepsAlarm DEF TrailInv
<1> QED
  BY <1>1, TrailInvariant, EditsCounted, PTL DEF Spec, AlarmStays

-----------------------------------------------------------------------------
(* Conservation                                                             *)

\* What verifyConservation adds up is a sum over the accounts.
LEMMA LedgerTotalIsSum ==
  ASSUME IsFiniteSet(Accounts)
  PROVE  LedgerTotal(Accounts) = SumOf([a \in Accounts |-> TotalOf(rows[a])], Accounts)
<1> DEFINE f == [a \in Accounts |-> TotalOf(rows[a])]
           Folds(g) == g = [s \in SUBSET Accounts |->
             IF s = {} THEN 0 ELSE TotalOf(rows[Pick(s)]) + g[s \ {Pick(s)}]]
<1>1. \A s \in SUBSET Accounts : s # {} => f[Pick(s)] = TotalOf(rows[Pick(s)])
  BY Picked
<1>2. \A g : Folds(g) <=> Adds(g, f, Accounts)
  BY <1>1 DEF Adds
<1>3. PICK g : Adds(g, f, Accounts) /\ SumOf(f, Accounts) = g[Accounts]
  BY SumAdds
<1>4. \E h : Folds(h)
  BY <1>2, <1>3
<1>5. \E h : Folds(h) /\ LedgerTotal(Accounts) = h[Accounts]
  BY <1>4 DEF LedgerTotal, MapThenSumSet, MapThenFoldSet, Pick
<1>6. PICK h : Adds(h, f, Accounts) /\ LedgerTotal(Accounts) = h[Accounts]
  BY <1>2, <1>5
<1>7. Accounts \in SUBSET Accounts /\ \A x \in Accounts : f[x] = f[x]
  OBVIOUS
<1> HIDE DEF f
<1>8. g[Accounts] = h[Accounts]
  BY <1>3, <1>6, <1>7, AddsAgree
<1>9. LedgerTotal(Accounts) = SumOf(f, Accounts)
  BY <1>3, <1>6, <1>8
<1> QED
  BY <1>9 DEF f

\* What was posted adds up to nothing.
PostedInv == SumOf([a \in Accounts |-> TotalOf(posted[a])], Accounts) = 0

\* Nothing posted adds up to nothing.
LEMMA PostedInit ==
  ASSUME IsFiniteSet(Accounts), Init
  PROVE  PostedInv
<1>1. TotalOf(<<>>) = 0
  <2>1. <<>> \in Seq(RowSet) /\ DOMAIN <<>> = {}
    OBVIOUS
  <2>2. TotalOf(<<>>) = SumOf(AmountsOf(<<>>), {})
    BY <2>1, TotalOfIsSum
  <2> QED
    BY <2>2, SumEmpty
<1>2. \A a \in Accounts : [b \in Accounts |-> TotalOf(posted[b])][a] = 0
  BY <1>1 DEF Init
<1> QED
  BY <1>2, SumOfZeros DEF PostedInv

\* A transfer takes from one account what it gives to another.
LEMMA PostedStep ==
  ASSUME IsFiniteSet(Accounts), TrailInv, PostedInv, [Next]_vars
  PROVE  PostedInv'
<1>1. CASE UNCHANGED posted
  BY <1>1 DEF PostedInv
<1>2. CASE Transfer
  <2>1. PICK id \in Transactions, from \in Accounts, to \in Accounts, amount \in Amounts :
          Post(id, from, to, amount)
    BY <1>2 DEF Transfer
  <2>2. PICK new : Legs(new, id, from, to)
    BY <2>1, PostLegs DEF TrailInv
  <2> DEFINE f == [a \in Accounts |-> TotalOf(posted[a])]
             e == [a \in Accounts |-> TotalOf(posted'[a])]
  <2>3. ASSUME NEW a \in {from, to}
        PROVE  f[a] \in Int /\ new[a].amount \in Int /\ e[a] = f[a] + new[a].amount
    <3>1. /\ posted[a] \in Seq(RowSet) /\ new[a] \in RowSet
          /\ posted'[a] = Append(posted[a], new[a])
      BY <2>2 DEF Legs, TrailInv, StoreOK
    <3>2. TotalOf(posted[a]) \in Int /\ TotalOf(posted'[a]) = TotalOf(posted[a]) + new[a].amount
      BY <3>1, TotalOfAppend
    <3> QED
      BY <3>1, <3>2 DEF RowSet
  <2>4. ASSUME NEW a \in Accounts \ {from, to}
        PROVE  f[a] \in Int /\ e[a] = f[a]
    <3>1. posted[a] \in Seq(RowSet) /\ posted'[a] = posted[a]
      BY <2>2 DEF Legs, TrailInv, StoreOK
    <3> QED
      BY <3>1, TotalOfInt
  <2>5. from # to /\ new[from].amount + new[to].amount = 0
    BY <2>2 DEF Legs
  <2> HIDE DEF f, e
  <2>6. f[from] + f[to] = e[from] + e[to]
    BY <2>3, <2>5
  <2>7. \A a \in Accounts : f[a] \in Int /\ e[a] \in Int
    BY <2>3, <2>4
  <2>8. SumOf(f, Accounts) = SumOf(e, Accounts)
    BY <2>4, <2>5, <2>6, <2>7, SumMoved
  <2> QED
    BY <2>8 DEF f, e, PostedInv
<1> QED
  BY <1>1, <1>2 DEF Next, Edit, vars

\* If one account's rows alone are other than what was posted, what is stored
\* does not add up to zero unless its own total is as posted.
LEMMA OneWrongShows ==
  ASSUME IsFiniteSet(Accounts), TrailInv, PostedInv, AllClear,
         \A a, b \in reheaded : a = b, NEW a \in Accounts
  PROVE  balance[a].balance = TotalOf(posted[a])
<1> DEFINE f == [b \in Accounts |-> TotalOf(rows[b])]
           e == [b \in Accounts |-> TotalOf(posted[b])]
<1>1. ASSUME NEW b \in Accounts \ reheaded PROVE balance[b].balance = TotalOf(posted[b])
  BY <1>1, TrailImpliesIntactIsTrue DEF AllClear, IntactIsTrue
<1>2. \A b \in Accounts : balance[b].balance = f[b] /\ f[b] \in Int
  BY DEF AllClear, Intact, ReconciledAccount, TrailInv, StoreOK
<1>3. CASE a \notin reheaded
  BY <1>1, <1>3
<1>4. CASE a \in reheaded
  <2>1. \A b \in Accounts \ {a} : f[b] = e[b]
    BY <1>1, <1>2, <1>4
  <2>2. \A b \in Accounts : e[b] \in Int
    <3> SUFFICES ASSUME NEW b \in Accounts PROVE TotalOf(posted[b]) \in Int
      OBVIOUS
    <3>1. posted[b] \in Seq(RowSet)
      BY DEF TrailInv, StoreOK
    <3> QED
      BY <3>1, TotalOfInt
  <2>3. SumOf(f, Accounts) = 0 /\ SumOf(e, Accounts) = 0
    BY LedgerTotalIsSum DEF AllClear, ConservationReported, PostedInv
  <2> HIDE DEF f, e
  <2>4. /\ SumOf(f, Accounts) = f[a] + SumOf(f, Accounts \ {a})
        /\ SumOf(e, Accounts) = e[a] + SumOf(e, Accounts \ {a})
    BY <1>2, <2>2, SumSplit
  <2>5. IsFiniteSet(Accounts \ {a})
    BY FS_Subset
  <2>6. /\ SumOf(f, Accounts \ {a}) = SumOf(e, Accounts \ {a})
        /\ SumOf(f, Accounts \ {a}) \in Int
    BY <1>2, <2>1, <2>5, SumSame, SumInt
  <2>7. f[a] = e[a]
    BY <1>2, <2>2, <2>3, <2>4, <2>6
  <2> QED
    BY <1>2, <2>7 DEF e
<1> QED
  BY <1>3, <1>4

\* Whatever was edited, however often: where every account verifies and the sum
\* of all postings is zero although a balance is not what was posted, the heads
\* of two accounts have been rewritten (verifyAccount, verifyConservation).
THEOREM WrongTakesTwo ==
  ASSUME IsFiniteSet(Accounts)
  PROVE  Spec => []WrongNeedsTwoRewrites
<1>1. Init => PostedInv
  BY PostedInit
<1>2. TrailInv /\ PostedInv /\ [Next]_vars => PostedInv'
  BY PostedStep
<1>3. TrailInv /\ PostedInv => WrongNeedsTwoRewrites
  BY OneWrongShows DEF WrongNeedsTwoRewrites
<1> QED
  BY <1>1, <1>2, <1>3, TrailInvariant, PTL DEF Spec

-----------------------------------------------------------------------------
(* The order of the rows                                                    *)

\* Rows of account a in the order of their seqs, all below n.
Ordered(s, a, n) ==
  \A i \in DOMAIN s :
    /\ s[i].account = a
    /\ s[i].seq \in 1..(n - 1)
    /\ \A j \in 1..(i - 1) : s[j].seq < s[i].seq

SeqsOf(s) == {s[i].seq : i \in DOMAIN s}

\* No seq is given twice: without it a row that is moved to another account
\* could meet its own seq there.
OrderInv ==
  /\ nextSeq \in Nat \ {0}
  /\ \A a \in Accounts : Ordered(rows[a], a, nextSeq)
  /\ \A a, b \in Accounts : a # b => SeqsOf(rows[a]) \cap SeqsOf(rows[b]) = {}

\* The rows without row i, and with row p after the first k.
Without(s, i) == SubSeq(s, 1, i - 1) \o SubSeq(s, i + 1, Len(s))

With(s, k, p) == SubSeq(s, 1, k) \o <<p>> \o SubSeq(s, k + 1, Len(s))

\* Rows move up by one place where one was taken out.
LEMMA WithoutRows ==
  ASSUME NEW s \in Seq(RowSet), NEW i \in 1..Len(s)
  PROVE  /\ Without(s, i) \in Seq(RowSet) /\ Len(Without(s, i)) = Len(s) - 1
         /\ \A j \in 1..(Len(s) - 1) :
              Without(s, i)[j] = IF j < i THEN s[j] ELSE s[j + 1]
<1> DEFINE x == SubSeq(s, 1, i - 1)
           y == SubSeq(s, i + 1, Len(s))
<1>1. /\ x \in Seq(RowSet) /\ Len(x) = i - 1
      /\ \A j \in 1..(i - 1) : x[j] = s[j]
  OBVIOUS
<1>2. /\ y \in Seq(RowSet) /\ Len(y) = Len(s) - i
      /\ \A j \in 1..(Len(s) - i) : y[j] = s[i + j]
  OBVIOUS
<1>3. Without(s, i) = x \o y
  BY DEF Without
<1> HIDE DEF x, y
<1>4. x \o y \in Seq(RowSet) /\ Len(x \o y) = Len(s) - 1
  BY <1>1, <1>2
<1>5. ASSUME NEW j \in 1..(Len(s) - 1)
      PROVE  (x \o y)[j] = IF j < i THEN s[j] ELSE s[j + 1]
  <2>1. CASE j < i
    BY <1>1, <1>2, <2>1
  <2>2. CASE ~(j < i)
    <3>1. j - (i - 1) \in 1..(Len(s) - i) /\ i + (j - (i - 1)) = j + 1
      BY <2>2
    <3>2. (x \o y)[j] = y[j - (i - 1)]
      BY <1>1, <1>2, <2>2
    <3>3. y[j - (i - 1)] = s[i + (j - (i - 1))]
      BY <1>2, <3>1
    <3> QED
      BY <2>2, <3>1, <3>2, <3>3
  <2> QED
    BY <2>1, <2>2
<1> QED
  BY <1>3, <1>4, <1>5

\* Rows move down by one place where one was put in.
LEMMA WithRows ==
  ASSUME NEW s \in Seq(RowSet), NEW k \in 0..Len(s), NEW p \in RowSet
  PROVE  /\ With(s, k, p) \in Seq(RowSet) /\ Len(With(s, k, p)) = Len(s) + 1
         /\ \A j \in 1..(Len(s) + 1) :
              With(s, k, p)[j] =
                IF j <= k THEN s[j] ELSE IF j = k + 1 THEN p ELSE s[j - 1]
<1> DEFINE x == SubSeq(s, 1, k)
           y == SubSeq(s, k + 1, Len(s))
           z == x \o <<p>>
<1>1. /\ x \in Seq(RowSet) /\ Len(x) = k
      /\ \A j \in 1..k : x[j] = s[j]
  OBVIOUS
<1>2. /\ y \in Seq(RowSet) /\ Len(y) = Len(s) - k
      /\ \A j \in 1..(Len(s) - k) : y[j] = s[k + j]
  OBVIOUS
<1>3. With(s, k, p) = z \o y
  BY DEF With
<1> HIDE DEF x, y
<1>4. /\ z \in Seq(RowSet) /\ Len(z) = k + 1
      /\ \A j \in 1..k : z[j] = s[j]
      /\ z[k + 1] = p
  BY <1>1
<1> HIDE DEF z
<1>5. z \o y \in Seq(RowSet) /\ Len(z \o y) = Len(s) + 1
  <2>1. z \o y \in Seq(RowSet) /\ Len(z \o y) = Len(z) + Len(y)
    BY <1>2, <1>4, ConcatProperties
  <2>2. k \in Int /\ Len(s) \in Int
    OBVIOUS
  <2> QED
    BY <1>2, <1>4, <2>1, <2>2
<1>6. ASSUME NEW j \in 1..(Len(s) + 1)
      PROVE  (z \o y)[j] = IF j <= k THEN s[j] ELSE IF j = k + 1 THEN p ELSE s[j - 1]
  <2>1. CASE j <= k + 1
    BY <1>2, <1>4, <2>1
  <2>2. CASE ~(j <= k + 1)
    <3>1. j - (k + 1) \in 1..(Len(s) - k) /\ k + (j - (k + 1)) = j - 1
      BY <2>2
    <3>2. (z \o y)[j] = y[j - (k + 1)]
      BY <1>2, <1>4, <2>2
    <3>3. y[j - (k + 1)] = s[k + (j - (k + 1))]
      BY <1>2, <3>1
    <3> QED
      BY <2>2, <3>1, <3>2, <3>3
  <2> QED
    BY <2>1, <2>2
<1> QED
  BY <1>3, <1>5, <1>6

\* Every row that is left was there.
LEMMA WithoutFrom ==
  ASSUME NEW s \in Seq(RowSet), NEW i \in 1..Len(s)
  PROVE  \A j \in DOMAIN Without(s, i) : \E l \in DOMAIN s : Without(s, i)[j] = s[l]
<1> DEFINE t == Without(s, i)
<1>1. /\ t \in Seq(RowSet) /\ Len(t) = Len(s) - 1
      /\ \A j \in 1..(Len(s) - 1) : t[j] = IF j < i THEN s[j] ELSE s[j + 1]
  BY WithoutRows
<1> HIDE DEF t
<1> SUFFICES ASSUME NEW j \in DOMAIN t PROVE \E l \in DOMAIN s : t[j] = s[l]
  BY DEF t
<1>2. j \in 1..(Len(s) - 1) /\ DOMAIN s = 1..Len(s) /\ Len(s) \in Nat
  BY <1>1
<1>3. j \in DOMAIN s /\ j + 1 \in DOMAIN s
  BY <1>2
<1> QED
  BY <1>1, <1>2, <1>3

\* Every row was there, or is the one that was put in.
LEMMA WithFrom ==
  ASSUME NEW s \in Seq(RowSet), NEW k \in 0..Len(s), NEW p \in RowSet
  PROVE  \A j \in DOMAIN With(s, k, p) :
           With(s, k, p)[j] = p \/ \E l \in DOMAIN s : With(s, k, p)[j] = s[l]
<1> DEFINE t == With(s, k, p)
<1>1. /\ t \in Seq(RowSet) /\ Len(t) = Len(s) + 1
      /\ \A j \in 1..(Len(s) + 1) :
           t[j] = IF j <= k THEN s[j] ELSE IF j = k + 1 THEN p ELSE s[j - 1]
  BY WithRows
<1> HIDE DEF t
<1> SUFFICES ASSUME NEW j \in DOMAIN t PROVE t[j] = p \/ \E l \in DOMAIN s : t[j] = s[l]
  BY DEF t
<1>2. j \in 1..(Len(s) + 1) /\ DOMAIN s = 1..Len(s) /\ Len(s) \in Nat
  BY <1>1
<1>3. CASE j <= k
  BY <1>1, <1>2, <1>3
<1>4. CASE j = k + 1
  BY <1>1, <1>2, <1>4
<1>5. CASE ~(j <= k + 1)
  <2>1. j - 1 \in DOMAIN s
    BY <1>2, <1>5
  <2> QED
    BY <1>1, <1>2, <1>5, <2>1
<1> QED
  BY <1>2, <1>3, <1>4, <1>5

\* Rows with the same accounts and seqs are in the same order.
LEMMA SameKeys ==
  ASSUME NEW s, NEW t, NEW a, NEW n, Ordered(s, a, n), DOMAIN t = DOMAIN s,
         \A i \in DOMAIN s : t[i].account = s[i].account /\ t[i].seq = s[i].seq,
         NEW m \in Nat, DOMAIN s = 1..m
  PROVE  Ordered(t, a, n) /\ SeqsOf(t) = SeqsOf(s)
<1>1. SeqsOf(t) = SeqsOf(s)
  BY DEF SeqsOf
<1>2. ASSUME NEW i \in DOMAIN t
      PROVE  /\ t[i].account = a
             /\ t[i].seq \in 1..(n - 1)
             /\ \A j \in 1..(i - 1) : t[j].seq < t[i].seq
  <2>1. \A j \in 1..(i - 1) : j \in DOMAIN s
    OBVIOUS
  <2> QED
    BY <2>1 DEF Ordered
<1> QED
  BY <1>1, <1>2 DEF Ordered

\* A row with a seq above all others stands at the end.
LEMMA AppendOrdered ==
  ASSUME NEW s \in Seq(RowSet), NEW a, NEW n \in Nat \ {0}, Ordered(s, a, n),
         NEW p \in RowSet, NEW m \in Nat, p.account = a, p.seq \in n..(m - 1), n <= m
  PROVE  Ordered(Append(s, p), a, m) /\ SeqsOf(Append(s, p)) = SeqsOf(s) \cup {p.seq}
<1> DEFINE t == Append(s, p)
<1>1. /\ DOMAIN t = 1..(Len(s) + 1) /\ DOMAIN s = 1..Len(s) /\ Len(s) \in Nat
      /\ t[Len(s) + 1] = p
      /\ \A i \in 1..Len(s) : t[i] = s[i]
  OBVIOUS
<1> HIDE DEF t
<1>2. ASSUME NEW i \in DOMAIN t
      PROVE  /\ t[i].account = a
             /\ t[i].seq \in 1..(m - 1)
             /\ \A j \in 1..(i - 1) : t[j].seq < t[i].seq
  <2>1. CASE i \in 1..Len(s)
    BY <1>1, <2>1 DEF Ordered
  <2>2. CASE i = Len(s) + 1
    BY <1>1, <2>2 DEF Ordered
  <2> QED
    BY <1>1, <2>1, <2>2
<1>3. SeqsOf(t) = SeqsOf(s) \cup {p.seq}
  BY <1>1 DEF SeqsOf
<1> QED
  BY <1>2, <1>3 DEF Ordered, t

\* Taking a row out leaves the others in their order, without its seq.
LEMMA WithoutOrdered ==
  ASSUME NEW s \in Seq(RowSet), NEW a, NEW n, Ordered(s, a, n), NEW i \in 1..Len(s)
  PROVE  /\ Ordered(Without(s, i), a, n)
         /\ SeqsOf(Without(s, i)) \subseteq SeqsOf(s) \ {s[i].seq}
<1> DEFINE t == Without(s, i)
           At(j) == IF j < i THEN j ELSE j + 1
<1>1. /\ DOMAIN t = 1..(Len(s) - 1) /\ DOMAIN s = 1..Len(s) /\ Len(s) \in Nat
      /\ \A j \in 1..(Len(s) - 1) : t[j] = s[At(j)]
  <2>1. /\ t \in Seq(RowSet) /\ Len(t) = Len(s) - 1
        /\ \A j \in 1..(Len(s) - 1) : t[j] = IF j < i THEN s[j] ELSE s[j + 1]
    BY WithoutRows
  <2> HIDE DEF t
  <2>2. DOMAIN t = 1..(Len(s) - 1) /\ DOMAIN s = 1..Len(s) /\ Len(s) \in Nat
    BY <2>1
  <2> QED
    BY <2>1, <2>2
<1> HIDE DEF t
<1>2. /\ \A j \in 1..(Len(s) - 1) : At(j) \in 1..Len(s) /\ At(j) # i
      /\ \A j \in 1..(Len(s) - 1) : \A k \in 1..(j - 1) : At(k) \in 1..(At(j) - 1)
  OBVIOUS
<1> HIDE DEF At
<1>3. \A j, k \in 1..Len(s) : s[j].seq \in Int /\ (j < k => s[j].seq < s[k].seq)
  BY <1>1 DEF Ordered
<1>4. ASSUME NEW j \in DOMAIN t
      PROVE  /\ t[j].account = a
             /\ t[j].seq \in 1..(n - 1)
             /\ \A k \in 1..(j - 1) : t[k].seq < t[j].seq
  <2>1. \A k \in 1..(j - 1) : k \in 1..(Len(s) - 1)
    BY <1>1
  <2> QED
    BY <1>1, <1>2, <2>1 DEF Ordered
<1>5. ASSUME NEW j \in DOMAIN t PROVE t[j].seq \in SeqsOf(s) /\ t[j].seq # s[i].seq
  <2>1. At(j) \in 1..Len(s) /\ At(j) # i /\ t[j] = s[At(j)]
    BY <1>1, <1>2
  <2>2. At(j) < i \/ i < At(j)
    BY <2>1
  <2> QED
    BY <1>1, <1>3, <2>1, <2>2 DEF SeqsOf
<1>6. SeqsOf(t) \subseteq SeqsOf(s) \ {s[i].seq}
  BY <1>5 DEF SeqsOf
<1> QED
  BY <1>4, <1>6 DEF Ordered, t

\* A row that is put in where its seq belongs keeps the order.
LEMMA WithOrdered ==
  ASSUME NEW s \in Seq(RowSet), NEW a, NEW n, Ordered(s, a, n),
         NEW k \in 0..Len(s), NEW p \in RowSet,
         p.account = a, p.seq \in 1..(n - 1), p.seq \notin SeqsOf(s),
         \A j \in DOMAIN s : j <= k <=> s[j].seq < p.seq
  PROVE  Ordered(With(s, k, p), a, n) /\ SeqsOf(With(s, k, p)) = SeqsOf(s) \cup {p.seq}
<1> DEFINE t == With(s, k, p)
<1>1. /\ DOMAIN t = 1..(Len(s) + 1) /\ DOMAIN s = 1..Len(s) /\ Len(s) \in Nat
      /\ \A j \in 1..(Len(s) + 1) :
           t[j] = IF j <= k THEN s[j] ELSE IF j = k + 1 THEN p ELSE s[j - 1]
  BY WithRows
<1> HIDE DEF t
<1>2. /\ \A j \in 1..k : t[j] = s[j] /\ j \in 1..Len(s)
      /\ t[k + 1] = p
      /\ \A j \in (k + 2)..(Len(s) + 1) : t[j] = s[j - 1] /\ j - 1 \in 1..Len(s)
  BY <1>1
<1>3. /\ \A j \in 1..Len(s) : s[j].account = a /\ s[j].seq \in 1..(n - 1)
      /\ \A j, l \in 1..Len(s) : j < l => s[j].seq < s[l].seq
  BY <1>1 DEF Ordered
<1>4. /\ \A j \in 1..k : s[j].seq < p.seq
      /\ \A j \in (k + 1)..Len(s) : p.seq < s[j].seq
  <2>1. \A j \in 1..k : j \in DOMAIN s /\ j <= k
    BY <1>1
  <2>2. ASSUME NEW j \in (k + 1)..Len(s) PROVE p.seq < s[j].seq
    <3>1. j \in DOMAIN s /\ ~(j <= k)
      BY <1>1
    <3>2. ~(s[j].seq < p.seq) /\ s[j].seq # p.seq
      BY <3>1 DEF SeqsOf
    <3>3. s[j].seq \in Int /\ p.seq \in Int
      BY <1>1, <1>3, <3>1
    <3> QED
      BY <3>2, <3>3
  <2> QED
    BY <2>1, <2>2
<1>5. ASSUME NEW j \in DOMAIN t
      PROVE  /\ t[j].account = a
             /\ t[j].seq \in 1..(n - 1)
             /\ \A l \in 1..(j - 1) : t[l].seq < t[j].seq
  <2>1. CASE j \in 1..k
    <3>1. \A l \in 1..(j - 1) : l \in 1..k /\ l < j
      BY <2>1
    <3> QED
      BY <1>2, <1>3, <2>1, <3>1
  <2>2. CASE j = k + 1
    BY <1>2, <1>4, <2>2
  <2>3. CASE j \in (k + 2)..(Len(s) + 1)
    <3>1. t[j] = s[j - 1] /\ j - 1 \in (k + 1)..Len(s) /\ j - 1 \in 1..Len(s)
      BY <1>2, <2>3
    <3>2. ASSUME NEW l \in 1..(j - 1) PROVE t[l].seq < t[j].seq
      <4>1. CASE l \in 1..k
        BY <1>2, <1>3, <3>1, <4>1
      <4>2. CASE l = k + 1
        BY <1>2, <1>4, <3>1, <4>2
      <4>3. CASE l \in (k + 2)..(j - 1)
        <5>1. l \in (k + 2)..(Len(s) + 1) /\ l - 1 < j - 1
          BY <2>3, <4>3
        <5> QED
          BY <1>2, <1>3, <3>1, <5>1
      <4> QED
        BY <4>1, <4>2, <4>3
    <3> QED
      BY <1>3, <3>1, <3>2
  <2> QED
    BY <1>1, <2>1, <2>2, <2>3
<1>6. SeqsOf(t) = SeqsOf(s) \cup {p.seq}
  <2>1. ASSUME NEW j \in DOMAIN t PROVE t[j].seq \in SeqsOf(s) \cup {p.seq}
    <3>1. j \in 1..k \/ j = k + 1 \/ j \in (k + 2)..(Len(s) + 1)
      BY <1>1
    <3> QED
      BY <1>1, <1>2, <3>1 DEF SeqsOf
  <2>2. ASSUME NEW j \in DOMAIN s PROVE s[j].seq \in SeqsOf(t)
    <3>1. CASE j <= k
      BY <1>1, <1>2, <3>1 DEF SeqsOf
    <3>2. CASE ~(j <= k)
      <4>1. j + 1 \in (k + 2)..(Len(s) + 1) /\ (j + 1) - 1 = j /\ j + 1 \in DOMAIN t
        BY <1>1, <3>2
      <4>2. t[j + 1] = s[j]
        BY <1>2, <4>1
      <4> QED
        BY <4>1, <4>2 DEF SeqsOf
    <3> QED
      BY <3>1, <3>2
  <2>3. p.seq \in SeqsOf(t)
    <3>1. k + 1 \in DOMAIN t
      BY <1>1
    <3> QED
      BY <1>2, <3>1 DEF SeqsOf
  <2> QED
    BY <2>1, <2>2, <2>3 DEF SeqsOf
<1> QED
  BY <1>5, <1>6 DEF Ordered, t

\* Two rows are appended under the next two seqs.
LEMMA PairOrdered ==
  ASSUME StoreOK, OrderInv, NEW a \in Accounts, NEW b \in Accounts, a # b,
         NEW p \in RowSet, NEW q \in RowSet, p.account = a, q.account = b,
         p.seq = nextSeq, q.seq = nextSeq + 1, nextSeq' = nextSeq + 2,
         rows' = [rows EXCEPT ![a] = Append(@, p), ![b] = Append(@, q)]
  PROVE  OrderInv'
<1>1. /\ nextSeq \in Nat \ {0} /\ nextSeq + 2 \in Nat \ {0}
      /\ p.seq \in nextSeq..((nextSeq + 2) - 1) /\ q.seq \in nextSeq..((nextSeq + 2) - 1)
  BY DEF OrderInv
<1>2. /\ rows'[a] = Append(rows[a], p) /\ rows'[b] = Append(rows[b], q)
      /\ \A c \in Accounts \ {a, b} : rows'[c] = rows[c]
      /\ \A c \in Accounts : rows[c] \in Seq(RowSet)
  BY DEF StoreOK
<1>3. /\ Ordered(rows'[a], a, nextSeq') /\ SeqsOf(rows'[a]) = SeqsOf(rows[a]) \cup {nextSeq}
      /\ Ordered(rows'[b], b, nextSeq') /\ SeqsOf(rows'[b]) = SeqsOf(rows[b]) \cup {nextSeq + 1}
  <2>1. \A c \in Accounts : Ordered(rows[c], c, nextSeq)
    BY DEF OrderInv
  <2>2. /\ nextSeq' \in Nat /\ nextSeq <= nextSeq' /\ nextSeq' = nextSeq + 2
        /\ p.seq \in nextSeq..(nextSeq' - 1) /\ q.seq \in nextSeq..(nextSeq' - 1)
    BY <1>1
  <2>3. ASSUME NEW c \in Accounts, NEW r \in RowSet, NEW m \in Nat, nextSeq <= m,
               r.account = c, r.seq \in nextSeq..(m - 1)
        PROVE  /\ Ordered(Append(rows[c], r), c, m)
               /\ SeqsOf(Append(rows[c], r)) = SeqsOf(rows[c]) \cup {r.seq}
    BY <1>1, <1>2, <2>1, <2>3, AppendOrdered
  <2>4. /\ Ordered(Append(rows[a], p), a, nextSeq')
        /\ Ordered(Append(rows[b], q), b, nextSeq')
    BY <2>2, <2>3
  <2>5. /\ SeqsOf(Append(rows[a], p)) = SeqsOf(rows[a]) \cup {p.seq}
        /\ SeqsOf(Append(rows[b], q)) = SeqsOf(rows[b]) \cup {q.seq}
    BY <2>2, <2>3
  <2> QED
    BY <1>2, <2>4, <2>5
<1>4. \A c \in Accounts : SeqsOf(rows[c]) \subseteq 1..(nextSeq - 1)
  BY DEF OrderInv, Ordered, SeqsOf
<1>5. ASSUME NEW c \in Accounts \ {a, b}
      PROVE  Ordered(rows'[c], c, nextSeq') /\ SeqsOf(rows'[c]) = SeqsOf(rows[c])
  <2>1. rows'[c] = rows[c] /\ Ordered(rows[c], c, nextSeq)
    BY <1>2 DEF OrderInv
  <2>2. 1..(nextSeq - 1) \subseteq 1..(nextSeq' - 1)
    BY <1>1
  <2> QED
    BY <2>1, <2>2 DEF Ordered
<1>6. \A c \in Accounts : Ordered(rows'[c], c, nextSeq')
  BY <1>3, <1>5
<1>7. \A c, d \in Accounts : c # d => SeqsOf(rows'[c]) \cap SeqsOf(rows'[d]) = {}
  <2>1. /\ nextSeq \notin 1..(nextSeq - 1) /\ nextSeq + 1 \notin 1..(nextSeq - 1)
        /\ nextSeq # nextSeq + 1
    BY <1>1
  <2>2. \A c, d \in Accounts : c # d => SeqsOf(rows[c]) \cap SeqsOf(rows[d]) = {}
    BY DEF OrderInv
  <2>3. ASSUME NEW c \in Accounts, NEW x \in SeqsOf(rows'[c])
        PROVE  \/ x \in SeqsOf(rows[c]) /\ x # nextSeq /\ x # nextSeq + 1
               \/ x = nextSeq /\ c = a
               \/ x = nextSeq + 1 /\ c = b
    <3>1. x \in SeqsOf(rows[c]) => x # nextSeq /\ x # nextSeq + 1
      BY <1>4, <2>1
    <3> QED
      BY <1>3, <1>5, <3>1
  <2> SUFFICES ASSUME NEW c \in Accounts, NEW d \in Accounts, c # d,
                      NEW x \in SeqsOf(rows'[c]), x \in SeqsOf(rows'[d])
               PROVE  FALSE
    OBVIOUS
  <2>4. ~(x \in SeqsOf(rows[c]) /\ x \in SeqsOf(rows[d]))
    BY <2>2
  <2> QED
    BY <1>1, <2>1, <2>3, <2>4
<1> QED
  BY <1>1, <1>6, <1>7 DEF OrderInv

\* The rows of each account are replaced by rows in order, and no seq comes from
\* another account but with its row.
LEMMA EditOrdered ==
  ASSUME StoreOK, OrderInv, Edit
  PROVE  OrderInv'
<1>1. PICK a \in Accounts :
        \/ \E i \in DOMAIN rows[a] :
             \/ EditField(a, i) \/ DeleteRow(a, i)
             \/ SwapRows(a, i) \/ RehashRow(a, i)
             \/ \E b \in Accounts :
                  \/ \E k \in 0..Len(rows[b]) : MoveRow(a, i, b, k)
                  \/ \E j \in DOMAIN rows[b] : RepeatRows(a, i, b, j)
        \/ EditBalance(a) \/ EditHead(a)
  BY DEF Edit
<1>2. CASE EditBalance(a) \/ EditHead(a)
  BY <1>2 DEF EditBalance, EditHead, OrderInv
<1>3. \A c \in Accounts : /\ rows[c] \in Seq(RowSet) /\ DOMAIN rows[c] = 1..Len(rows[c])
                          /\ Len(rows[c]) \in Nat
                          /\ Ordered(rows[c], c, nextSeq)
  BY DEF StoreOK, OrderInv
<1>4. ASSUME NEW t, rows' = [rows EXCEPT ![a] = t], nextSeq' = nextSeq,
             Ordered(t, a, nextSeq), SeqsOf(t) \subseteq SeqsOf(rows[a])
      PROVE  OrderInv'
  <2>1. rows'[a] = t /\ \A c \in Accounts \ {a} : rows'[c] = rows[c]
    BY <1>4 DEF StoreOK
  <2>2. \A c \in Accounts : /\ Ordered(rows'[c], c, nextSeq')
                            /\ SeqsOf(rows'[c]) \subseteq SeqsOf(rows[c])
    BY <1>3, <1>4, <2>1
  <2> QED
    BY <1>4, <2>2 DEF OrderInv
<1>5. ASSUME NEW t, rows' = [rows EXCEPT ![a] = t], nextSeq' = nextSeq,
             DOMAIN t = DOMAIN rows[a],
             \A i \in DOMAIN rows[a] :
               t[i].account = rows[a][i].account /\ t[i].seq = rows[a][i].seq
      PROVE  OrderInv'
  BY <1>3, <1>4, <1>5, SameKeys
<1>6. ASSUME NEW i \in DOMAIN rows[a],
             \/ EditField(a, i) \/ DeleteRow(a, i)
             \/ SwapRows(a, i) \/ RehashRow(a, i)
             \/ \E b \in Accounts :
                  \/ \E k \in 0..Len(rows[b]) : MoveRow(a, i, b, k)
                  \/ \E j \in DOMAIN rows[b] : RepeatRows(a, i, b, j)
      PROVE  OrderInv'
  <2>1. rows[a] \in Seq(RowSet) /\ i \in 1..Len(rows[a]) /\ rows[a][i] \in RowSet
    BY <1>3, <1>6
  <2>2. ASSUME NEW p, rows' = [rows EXCEPT ![a][i] = p], nextSeq' = nextSeq,
               p.account = rows[a][i].account, p.seq = rows[a][i].seq
        PROVE  OrderInv'
    <3> DEFINE t == [rows[a] EXCEPT ![i] = p]
    <3>1. rows' = [rows EXCEPT ![a] = t] /\ DOMAIN t = DOMAIN rows[a]
      BY <2>2 DEF StoreOK
    <3>2. \A j \in DOMAIN rows[a] :
            t[j].account = rows[a][j].account /\ t[j].seq = rows[a][j].seq
      BY <2>2
    <3> QED
      BY <1>5, <2>2, <3>1, <3>2
  <2>3. CASE EditField(a, i)
    <3>1. nextSeq' = nextSeq /\ \E p :
            /\ rows' = [rows EXCEPT ![a][i] = p]
            /\ \/ \E v : p = [rows[a][i] EXCEPT !.amount = v]
               \/ \E v : p = [rows[a][i] EXCEPT !.balanceAfter = v]
               \/ \E v : p = [rows[a][i] EXCEPT !.id = v]
               \/ \E v : p = [rows[a][i] EXCEPT !.prevHash = v]
      BY <2>3 DEF EditField
    <3>2. \A v : /\ [rows[a][i] EXCEPT !.amount = v].account = rows[a][i].account
                 /\ [rows[a][i] EXCEPT !.amount = v].seq = rows[a][i].seq
                 /\ [rows[a][i] EXCEPT !.balanceAfter = v].account = rows[a][i].account
                 /\ [rows[a][i] EXCEPT !.balanceAfter = v].seq = rows[a][i].seq
                 /\ [rows[a][i] EXCEPT !.id = v].account = rows[a][i].account
                 /\ [rows[a][i] EXCEPT !.id = v].seq = rows[a][i].seq
                 /\ [rows[a][i] EXCEPT !.prevHash = v].account = rows[a][i].account
                 /\ [rows[a][i] EXCEPT !.prevHash = v].seq = rows[a][i].seq
      BY <2>1 DEF RowSet
    <3> QED
      BY <2>2, <3>1, <3>2
  <2>4. CASE DeleteRow(a, i)
    <3>1. rows' = [rows EXCEPT ![a] = Without(rows[a], i)] /\ nextSeq' = nextSeq
      BY <2>4 DEF DeleteRow, Without
    <3>2. /\ Ordered(Without(rows[a], i), a, nextSeq)
          /\ SeqsOf(Without(rows[a], i)) \subseteq SeqsOf(rows[a])
      BY <1>3, <2>1, WithoutOrdered
    <3> QED
      BY <1>4, <3>1, <3>2
  <2>5. CASE SwapRows(a, i)
    <3> DEFINE p == [rows[a][i + 1] EXCEPT !.seq = rows[a][i].seq]
               q == [rows[a][i] EXCEPT !.seq = rows[a][i + 1].seq]
               t == [rows[a] EXCEPT ![i] = p, ![i + 1] = q]
    <3>1. i + 1 \in 1..Len(rows[a]) /\ rows[a][i + 1] \in RowSet /\ i # i + 1
      BY <2>1, <2>5 DEF SwapRows
    <3>2. rows[a][i].account = a /\ rows[a][i + 1].account = a
      BY <1>3, <2>1, <3>1 DEF Ordered
    <3>3. /\ p.seq = rows[a][i].seq /\ p.account = rows[a][i].account
          /\ q.seq = rows[a][i + 1].seq /\ q.account = rows[a][i + 1].account
      BY <2>1, <3>1, <3>2 DEF RowSet
    <3>4. rows' = [rows EXCEPT ![a][i] = p, ![a][i + 1] = q] /\ nextSeq' = nextSeq
      BY <2>5 DEF SwapRows
    <3> HIDE DEF p, q
    <3>5. rows' = [rows EXCEPT ![a] = t] /\ DOMAIN t = DOMAIN rows[a]
      BY <3>4 DEF StoreOK
    <3>6. \A j \in DOMAIN rows[a] :
            t[j].account = rows[a][j].account /\ t[j].seq = rows[a][j].seq
      BY <3>1, <3>3
    <3> QED
      BY <1>5, <3>4, <3>5, <3>6
  <2>6. CASE RehashRow(a, i)
    <3> DEFINE p == Chained(PrevOf(rows[a], i), rows[a][i], rows[a][i].seq)
    <3>1. p.account = rows[a][i].account /\ p.seq = rows[a][i].seq
      BY DEF Chained
    <3>2. rows' = [rows EXCEPT ![a][i] = p] /\ nextSeq' = nextSeq
      BY <2>6 DEF RehashRow
    <3> HIDE DEF p
    <3> QED
      BY <2>2, <3>1, <3>2
  <2>7. ASSUME NEW b \in Accounts, NEW k \in 0..Len(rows[b]), MoveRow(a, i, b, k)
        PROVE  OrderInv'
    <3> DEFINE p == [rows[a][i] EXCEPT !.account = b]
               x == Without(rows[a], i)
               y == With(rows[b], k, p)
    <3>1. p \in RowSet /\ p.account = b /\ p.seq = rows[a][i].seq
      BY <2>1 DEF RowSet
    <3>2. /\ a # b /\ rows' = [rows EXCEPT ![a] = x, ![b] = y] /\ nextSeq' = nextSeq
          /\ \A j \in DOMAIN rows[b] : j <= k <=> rows[b][j].seq < p.seq
      BY <2>7 DEF MoveRow, Without, With
    <3> HIDE DEF p
    <3>3. p.seq \in SeqsOf(rows[a]) /\ p.seq \in 1..(nextSeq - 1)
      BY <1>3, <2>1, <3>1 DEF SeqsOf, Ordered
    <3>4. \A c, d \in Accounts : c # d => SeqsOf(rows[c]) \cap SeqsOf(rows[d]) = {}
      BY DEF OrderInv
    <3>5. Ordered(x, a, nextSeq) /\ SeqsOf(x) \subseteq SeqsOf(rows[a]) \ {p.seq}
      BY <1>3, <2>1, <3>1, WithoutOrdered
    <3>6. Ordered(y, b, nextSeq) /\ SeqsOf(y) = SeqsOf(rows[b]) \cup {p.seq}
      <4>1. p.seq \notin SeqsOf(rows[b])
        BY <3>2, <3>3, <3>4
      <4> QED
        BY <1>3, <3>1, <3>2, <3>3, <4>1, WithOrdered
    <3> HIDE DEF x, y
    <3>7. rows'[a] = x /\ rows'[b] = y /\ \A c \in Accounts \ {a, b} : rows'[c] = rows[c]
      BY <3>2 DEF StoreOK
    <3>8. \A c \in Accounts : Ordered(rows'[c], c, nextSeq')
      BY <1>3, <3>2, <3>5, <3>6, <3>7
    <3>9. \A c, d \in Accounts : c # d => SeqsOf(rows'[c]) \cap SeqsOf(rows'[d]) = {}
      <4>1. ASSUME NEW c \in Accounts, NEW n \in SeqsOf(rows'[c])
            PROVE  \/ n \in SeqsOf(rows[c]) /\ n # p.seq
                   \/ n = p.seq /\ c = b
        <5>1. c # a /\ c # b => n \in SeqsOf(rows[c]) /\ n # p.seq
          <6>1. CASE c # a /\ c # b
            <7>1. rows'[c] = rows[c]
              BY <3>7, <6>1
            <7>2. p.seq \notin SeqsOf(rows[c])
              BY <3>3, <3>4, <6>1
            <7> QED
              BY <7>1, <7>2
          <6> QED
            BY <6>1
        <5>2. c = b => n \in SeqsOf(rows[c]) \/ n = p.seq
          BY <3>6, <3>7
        <5>3. c = b /\ n \in SeqsOf(rows[c]) => n # p.seq
          BY <3>2, <3>3, <3>4
        <5>4. c = a => n \in SeqsOf(rows[c]) /\ n # p.seq
          BY <3>5, <3>7
        <5> QED
          BY <5>1, <5>2, <5>3, <5>4
      <4> QED
        BY <3>4, <4>1
    <3> QED
      BY <3>2, <3>8, <3>9 DEF OrderInv
  <2>8. ASSUME NEW b \in Accounts, NEW j \in DOMAIN rows[b], RepeatRows(a, i, b, j)
        PROVE  OrderInv'
    <3> DEFINE p == [rows[a][i] EXCEPT !.seq = nextSeq]
               q == [rows[b][j] EXCEPT !.seq = nextSeq + 1]
    <3>1. rows[b][j] \in RowSet /\ rows[a][i].account = a /\ rows[b][j].account = b
      BY <1>3, <2>1 DEF Ordered
    <3>2. /\ p \in RowSet /\ p.account = a /\ p.seq = nextSeq
          /\ q \in RowSet /\ q.account = b /\ q.seq = nextSeq + 1
      <4>1. nextSeq \in Int /\ nextSeq + 1 \in Int
        BY DEF StoreOK
      <4>2. ASSUME NEW r \in RowSet, NEW n \in Int
            PROVE  /\ [r EXCEPT !.seq = n] \in RowSet /\ [r EXCEPT !.seq = n].seq = n
                   /\ [r EXCEPT !.seq = n].account = r.account
        BY DEF RowSet
      <4> QED
        BY <2>1, <3>1, <4>1, <4>2
    <3>3. /\ a # b /\ nextSeq' = nextSeq + 2
          /\ rows' = [rows EXCEPT ![a] = Append(@, p), ![b] = Append(@, q)]
      BY <2>8 DEF RepeatRows
    <3> HIDE DEF p, q
    <3> QED
      BY <3>2, <3>3, PairOrdered
  <2> QED
    BY <1>6, <2>3, <2>4, <2>5, <2>6, <2>7, <2>8
<1> QED
  BY <1>1, <1>2, <1>6

LEMMA OrderStep == TrailInv /\ OrderInv /\ [Next]_vars => OrderInv'
<1> SUFFICES ASSUME TrailInv, OrderInv, [Next]_vars PROVE OrderInv'
  OBVIOUS
<1>1. CASE Transfer
  <2>1. PICK id \in Transactions, from \in Accounts, to \in Accounts, amount \in Amounts :
          Post(id, from, to, amount)
    BY <1>1 DEF Transfer
  <2>2. PICK new : Legs(new, id, from, to)
    BY <2>1, PostLegs DEF TrailInv
  <2>3. rows' = [rows EXCEPT ![from] = Append(@, new[from]), ![to] = Append(@, new[to])]
    BY <2>2 DEF Legs, TrailInv, StoreOK
  <2>4. /\ from # to /\ new[from] \in RowSet /\ new[to] \in RowSet
        /\ new[from].account = from /\ new[to].account = to
        /\ new[from].seq = nextSeq /\ new[to].seq = nextSeq + 1
        /\ nextSeq' = nextSeq + 2
    BY <2>2 DEF Legs
  <2> QED
    BY <2>3, <2>4, PairOrdered DEF TrailInv
<1>2. CASE Edit
  BY <1>2, EditOrdered DEF TrailInv
<1>3. CASE UNCHANGED vars
  BY <1>3 DEF vars, OrderInv
<1> QED
  BY <1>1, <1>2, <1>3 DEF Next

LEMMA OrderInit == Init => OrderInv
<1> SUFFICES ASSUME Init PROVE OrderInv
  OBVIOUS
<1>1. nextSeq \in Nat \ {0}
  BY DEF Init
<1>2. \A a \in Accounts : rows[a] = <<>>
  BY DEF Init
<1>3. \A a \in Accounts : DOMAIN rows[a] = {}
  BY <1>2
<1> QED
  BY <1>1, <1>3 DEF OrderInv, Ordered, SeqsOf

\* Which accounts the edits marked.
LEMMA MarksStep ==
  ASSUME rehashed \in SUBSET Accounts, [Next]_vars
  PROVE  rehashed' \in SUBSET Accounts /\ rehashed \subseteq rehashed'
<1>1. CASE Transfer
  BY <1>1 DEF Transfer, Post
<1>2. CASE Edit
  <2>1. \E a \in Accounts : rehashed' = rehashed \cup {a} \/ rehashed' = rehashed
    <3>1. \A a \in Accounts : \A i \in DOMAIN rows[a] :
            EditField(a, i) \/ DeleteRow(a, i) \/ SwapRows(a, i) \/ RehashRow(a, i)
              => rehashed' = rehashed \cup {a} \/ rehashed' = rehashed
      BY DEF EditField, DeleteRow, SwapRows, RehashRow
    <3>2. \A a, b \in Accounts : \A i \in DOMAIN rows[a] :
            /\ \A k \in 0..Len(rows[b]) : MoveRow(a, i, b, k) => rehashed' = rehashed
            /\ \A j \in DOMAIN rows[b] : RepeatRows(a, i, b, j) => rehashed' = rehashed
      BY DEF MoveRow, RepeatRows
    <3>3. \A a \in Accounts : EditBalance(a) \/ EditHead(a) => rehashed' = rehashed
      BY DEF EditBalance, EditHead
    <3> QED
      BY <1>2, <3>1, <3>2, <3>3, Zenon DEF Edit
  <2> QED
    BY <2>1
<1>3. CASE UNCHANGED vars
  BY <1>3 DEF vars
<1> QED
  BY <1>1, <1>2, <1>3 DEF Next

\* In every store that edits and postings can produce, an account's rows stand
\* in the order of their seqs (findByAccount orders by seq; postings.schema.ts
\* draws it from one identity sequence).
THEOREM TrailTypeCorrect == Spec => []TypeOK
<1>1. Init => rehashed \in SUBSET Accounts
  BY DEF Init
<1>2. rehashed \in SUBSET Accounts /\ [Next]_vars => (rehashed \in SUBSET Accounts)'
  BY MarksStep
<1>3. /\ TrailInv /\ OrderInv /\ rehashed \in SUBSET Accounts /\ edits \in 0..MaxEdits
      => TypeOK
  BY DEF TrailInv, StoreOK, OrderInv, Ordered, TypeOK
<1> QED
  BY <1>1, <1>2, <1>3, OrderInit, OrderStep, TrailInvariant, EditsCounted, PTL DEF Spec

-----------------------------------------------------------------------------
(* The place where a chain breaks                                           *)

\* The account whose content a hash covers last: the one that was hashed.
Signer(h) == h[Len(h)].account

HashesOf(s) == {s[i].hash : i \in DOMAIN s}

\* Unless an edit hashed a row of the account anew, the poster computed the hash.
Written(h) ==
  h # NoHash /\ (Signer(h) \in rehashed \/ h \in HashesOf(posted[Signer(h)]))

\* Wherever a row was moved, swapped or repeated to, its hash is one that was
\* computed for a row of its signer.
OriginInv ==
  /\ rehashed \in SUBSET Accounts
  /\ \A a \in Accounts : \A h \in HashesOf(rows[a]) : Written(h)

\* The signer of a new hash is the account of the row.
LEMMA SignerOf ==
  ASSUME NEW h \in Seq(ContentSet), NEW p \in RowSet
  PROVE  /\ HashPosting(h, p) \in Seq(ContentSet) /\ HashPosting(h, p) # NoHash
         /\ Signer(HashPosting(h, p)) = p.account
<1>1. Content(p) \in ContentSet /\ Content(p).account = p.account
  BY ContentType DEF Content
<1>2. /\ Append(h, Content(p)) \in Seq(ContentSet)
      /\ Append(h, Content(p))[Len(Append(h, Content(p)))] = Content(p)
      /\ Append(h, Content(p)) # <<>>
  BY <1>1
<1> QED
  BY <1>1, <1>2 DEF HashPosting, Signer, NoHash

\* The signer of a hash that some row holds is an account.
LEMMA SignerType ==
  ASSUME NEW s \in Seq(RowSet), NEW h \in HashesOf(s), h # NoHash
  PROVE  Signer(h) \in Accounts
<1>1. PICK i \in DOMAIN s : h = s[i].hash
  BY DEF HashesOf
<1>2. s[i] \in RowSet
  BY <1>1
<1>3. h \in Seq(ContentSet)
  BY <1>1, <1>2 DEF RowSet
<1>4. h[Len(h)] \in ContentSet
  BY <1>3 DEF NoHash
<1> QED
  BY <1>4 DEF Signer, ContentSet

\* An edit brings no hash into an account but one of another row, or one it
\* computed for the account.
LEMMA EditHashes ==
  ASSUME StoreOK, OrderInv, Edit, NEW c \in Accounts, NEW h \in HashesOf(rows'[c])
  PROVE  \/ \E d \in Accounts : h \in HashesOf(rows[d])
         \/ h # NoHash /\ Signer(h) \in rehashed'
<1>1. PICK a \in Accounts :
        \/ \E i \in DOMAIN rows[a] :
             \/ EditField(a, i) \/ DeleteRow(a, i)
             \/ SwapRows(a, i) \/ RehashRow(a, i)
             \/ \E b \in Accounts :
                  \/ \E k \in 0..Len(rows[b]) : MoveRow(a, i, b, k)
                  \/ \E j \in DOMAIN rows[b] : RepeatRows(a, i, b, j)
        \/ EditBalance(a) \/ EditHead(a)
  BY DEF Edit
<1>2. CASE EditBalance(a) \/ EditHead(a)
  BY <1>2 DEF EditBalance, EditHead
<1>3. \A d \in Accounts : /\ rows[d] \in Seq(RowSet) /\ DOMAIN rows[d] = 1..Len(rows[d])
                          /\ Len(rows[d]) \in Nat
  BY DEF StoreOK
<1> DEFINE Old == UNION {HashesOf(rows[d]) : d \in Accounts}
<1>4. \A d \in Accounts : \A j \in DOMAIN rows[d] : rows[d][j].hash \in Old
  BY DEF HashesOf
<1>5. h \in Old => \E d \in Accounts : h \in HashesOf(rows[d])
  OBVIOUS
<1>6. \A d \in Accounts : HashesOf(rows[d]) \subseteq Old
  OBVIOUS
<1> HIDE DEF Old
<1>7. ASSUME NEW t, rows' = [rows EXCEPT ![a] = t],
             \A j \in DOMAIN t : t[j].hash \in Old
      PROVE  h \in Old
  <2>1. rows'[a] = t /\ \A d \in Accounts \ {a} : rows'[d] = rows[d]
    BY <1>7 DEF StoreOK
  <2> QED
    BY <1>4, <1>7, <2>1 DEF HashesOf
<1>8. ASSUME NEW i \in DOMAIN rows[a],
             \/ EditField(a, i) \/ DeleteRow(a, i)
             \/ SwapRows(a, i) \/ RehashRow(a, i)
             \/ \E b \in Accounts :
                  \/ \E k \in 0..Len(rows[b]) : MoveRow(a, i, b, k)
                  \/ \E j \in DOMAIN rows[b] : RepeatRows(a, i, b, j)
      PROVE  h \in Old \/ (h # NoHash /\ Signer(h) \in rehashed')
  <2>1. rows[a] \in Seq(RowSet) /\ i \in 1..Len(rows[a]) /\ rows[a][i] \in RowSet
    BY <1>3, <1>8
  <2>2. CASE EditField(a, i)
    <3>1. \E p :
            /\ rows' = [rows EXCEPT ![a][i] = p]
            /\ \/ \E v : p = [rows[a][i] EXCEPT !.amount = v]
               \/ \E v : p = [rows[a][i] EXCEPT !.balanceAfter = v]
               \/ \E v : p = [rows[a][i] EXCEPT !.id = v]
               \/ \E v : p = [rows[a][i] EXCEPT !.prevHash = v]
      BY <2>2 DEF EditField
    <3>2. \A v : /\ [rows[a][i] EXCEPT !.amount = v].hash = rows[a][i].hash
                 /\ [rows[a][i] EXCEPT !.balanceAfter = v].hash = rows[a][i].hash
                 /\ [rows[a][i] EXCEPT !.id = v].hash = rows[a][i].hash
                 /\ [rows[a][i] EXCEPT !.prevHash = v].hash = rows[a][i].hash
      BY <2>1 DEF RowSet
    <3>3. PICK p : rows' = [rows EXCEPT ![a][i] = p] /\ p.hash = rows[a][i].hash
      BY <3>1, <3>2, ZenonT(60)
    <3> DEFINE t == [rows[a] EXCEPT ![i] = p]
    <3>4. rows' = [rows EXCEPT ![a] = t] /\ \A j \in DOMAIN t : t[j].hash = rows[a][j].hash
      BY <3>3 DEF StoreOK
    <3>5. \A j \in DOMAIN t : t[j].hash \in Old
      BY <1>4, <3>4
    <3> QED
      BY <1>7, <3>4, <3>5
  <2>3. CASE DeleteRow(a, i)
    <3> DEFINE t == Without(rows[a], i)
    <3>1. rows' = [rows EXCEPT ![a] = t]
      BY <2>3 DEF DeleteRow, Without
    <3>2. \A j \in DOMAIN t : \E l \in DOMAIN rows[a] : t[j] = rows[a][l]
      BY <1>3, <2>1, WithoutFrom
    <3>3. \A j \in DOMAIN t : t[j].hash \in Old
      BY <1>4, <3>2
    <3> QED
      BY <1>7, <3>1, <3>3
  <2>4. CASE SwapRows(a, i)
    <3> DEFINE p == [rows[a][i + 1] EXCEPT !.seq = rows[a][i].seq]
               q == [rows[a][i] EXCEPT !.seq = rows[a][i + 1].seq]
               t == [rows[a] EXCEPT ![i] = p, ![i + 1] = q]
    <3>1. i + 1 \in 1..Len(rows[a]) /\ rows[a][i + 1] \in RowSet
      BY <2>1, <2>4 DEF SwapRows
    <3>2. p.hash \in Old /\ q.hash \in Old
      <4>1. p.hash = rows[a][i + 1].hash /\ q.hash = rows[a][i].hash
        BY <2>1, <3>1 DEF RowSet
      <4> QED
        BY <1>3, <1>4, <2>1, <3>1, <4>1
    <3>3. rows' = [rows EXCEPT ![a][i] = p, ![a][i + 1] = q]
      BY <2>4 DEF SwapRows
    <3> HIDE DEF p, q
    <3>4. rows' = [rows EXCEPT ![a] = t]
      BY <3>3 DEF StoreOK
    <3>5. \A j \in DOMAIN t : t[j].hash \in Old
      BY <1>4, <3>2
    <3> QED
      BY <1>7, <3>4, <3>5
  <2>5. CASE RehashRow(a, i)
    <3> DEFINE p == Chained(PrevOf(rows[a], i), rows[a][i], rows[a][i].seq)
               t == [rows[a] EXCEPT ![i] = p]
    <3>1. PrevOf(rows[a], i) \in Seq(ContentSet)
      BY <2>1, PrevType
    <3>2. p.hash # NoHash /\ Signer(p.hash) = a
      <4>1. p.hash = HashPosting(PrevOf(rows[a], i), rows[a][i]) /\ rows[a][i].account = a
        BY <2>1 DEF Chained, OrderInv, Ordered
      <4> QED
        BY <2>1, <3>1, <4>1, SignerOf
    <3>3. rows' = [rows EXCEPT ![a][i] = p] /\ rehashed' = rehashed \cup {a}
      BY <2>5 DEF RehashRow
    <3> HIDE DEF p
    <3>4. rows'[a] = t /\ \A d \in Accounts \ {a} : rows'[d] = rows[d]
      BY <3>3 DEF StoreOK
    <3>5. \A j \in DOMAIN t : t[j].hash \in Old \/ t[j].hash = p.hash
      BY <1>4
    <3>6. h \in Old \/ h = p.hash
      BY <1>4, <3>4, <3>5 DEF HashesOf
    <3> QED
      BY <3>2, <3>3, <3>6
  <2>6. ASSUME NEW b \in Accounts, NEW k \in 0..Len(rows[b]), MoveRow(a, i, b, k)
        PROVE  h \in Old
    <3> DEFINE p == [rows[a][i] EXCEPT !.account = b]
               x == Without(rows[a], i)
               y == With(rows[b], k, p)
    <3>1. p \in RowSet /\ p.hash \in Old
      <4>1. p \in RowSet /\ p.hash = rows[a][i].hash
        BY <2>1 DEF RowSet
      <4> QED
        BY <1>4, <4>1
    <3>2. a # b /\ rows' = [rows EXCEPT ![a] = x, ![b] = y]
      BY <2>6 DEF MoveRow, Without, With
    <3> HIDE DEF p
    <3>3. /\ \A j \in DOMAIN x : \E l \in DOMAIN rows[a] : x[j] = rows[a][l]
          /\ \A j \in DOMAIN y : y[j] = p \/ \E l \in DOMAIN rows[b] : y[j] = rows[b][l]
      BY <1>3, <2>1, <3>1, WithoutFrom, WithFrom
    <3> HIDE DEF x, y
    <3>4. rows'[a] = x /\ rows'[b] = y /\ \A d \in Accounts \ {a, b} : rows'[d] = rows[d]
      BY <3>2 DEF StoreOK
    <3>5. \A d \in Accounts : \A j \in DOMAIN rows'[d] : rows'[d][j].hash \in Old
      BY <1>4, <3>1, <3>3, <3>4
    <3> QED
      BY <3>5 DEF HashesOf
  <2>7. ASSUME NEW b \in Accounts, NEW j \in DOMAIN rows[b], RepeatRows(a, i, b, j)
        PROVE  h \in Old
    <3> DEFINE p == [rows[a][i] EXCEPT !.seq = nextSeq]
               q == [rows[b][j] EXCEPT !.seq = nextSeq + 1]
               x == Append(rows[a], p)
               y == Append(rows[b], q)
    <3>1. p.hash \in Old /\ q.hash \in Old
      <4>1. p.hash = rows[a][i].hash /\ q.hash = rows[b][j].hash
        <5>1. rows[b][j] \in RowSet
          BY <1>3, <2>7
        <5> QED
          BY <2>1, <5>1 DEF RowSet
      <4> QED
        BY <1>4, <4>1
    <3>2. a # b /\ rows' = [rows EXCEPT ![a] = x, ![b] = y]
      BY <2>7 DEF RepeatRows
    <3> HIDE DEF p, q
    <3>3. /\ \A l \in DOMAIN x : x[l] = p \/ (l \in DOMAIN rows[a] /\ x[l] = rows[a][l])
          /\ \A l \in DOMAIN y : y[l] = q \/ (l \in DOMAIN rows[b] /\ y[l] = rows[b][l])
      <4>1. ASSUME NEW u \in Seq(RowSet), NEW r, NEW l \in DOMAIN Append(u, r)
            PROVE  \/ Append(u, r)[l] = r
                   \/ l \in DOMAIN u /\ Append(u, r)[l] = u[l]
        <5>1. l \in 1..(Len(u) + 1) /\ DOMAIN u = 1..Len(u) /\ Len(u) \in Nat
          OBVIOUS
        <5> QED
          BY <5>1
      <4> QED
        BY <1>3, <4>1
    <3> HIDE DEF x, y
    <3>4. rows'[a] = x /\ rows'[b] = y /\ \A d \in Accounts \ {a, b} : rows'[d] = rows[d]
      BY <3>2 DEF StoreOK
    <3>5. \A d \in Accounts : \A l \in DOMAIN rows'[d] : rows'[d][l].hash \in Old
      BY <1>4, <3>1, <3>3, <3>4
    <3> QED
      BY <3>5 DEF HashesOf
  <2> QED
    BY <1>8, <2>2, <2>3, <2>4, <2>5, <2>6, <2>7
<1> QED
  BY <1>1, <1>2, <1>5, <1>8

\* A posting signs its hash as the poster, an edit marks the account it hashes for.
LEMMA OriginStep == TrailInv /\ OrderInv /\ OriginInv /\ [Next]_vars => OriginInv'
<1> SUFFICES ASSUME TrailInv, OrderInv, OriginInv, [Next]_vars PROVE OriginInv'
  OBVIOUS
<1>1. rehashed' \in SUBSET Accounts /\ rehashed \subseteq rehashed'
  BY MarksStep DEF OriginInv
<1>2. CASE Transfer
  <2>1. PICK id \in Transactions, from \in Accounts, to \in Accounts, amount \in Amounts :
          Post(id, from, to, amount)
    BY <1>2 DEF Transfer
  <2>2. PICK new : Legs(new, id, from, to)
    BY <2>1, PostLegs DEF TrailInv
  <2>3. \A a \in Accounts : rows[a] \in Seq(RowSet) /\ posted[a] \in Seq(RowSet)
    BY DEF TrailInv, StoreOK
  <2>4. ASSUME NEW a \in {from, to}
        PROVE  /\ HashesOf(rows'[a]) = HashesOf(rows[a]) \cup {new[a].hash}
               /\ HashesOf(posted'[a]) = HashesOf(posted[a]) \cup {new[a].hash}
               /\ new[a].hash # NoHash /\ Signer(new[a].hash) = a
    <3>1. /\ rows'[a] = Append(rows[a], new[a]) /\ posted'[a] = Append(posted[a], new[a])
          /\ new[a] \in RowSet /\ new[a].account = a
          /\ new[a].hash = HashPosting(balance[a].chainHash, new[a])
          /\ balance[a].chainHash \in Seq(ContentSet)
      BY <2>2 DEF Legs, TrailInv, StoreOK
    <3>2. ASSUME NEW s \in Seq(RowSet)
          PROVE  HashesOf(Append(s, new[a])) = HashesOf(s) \cup {new[a].hash}
      <4> DEFINE t == Append(s, new[a])
      <4>1. /\ DOMAIN t = DOMAIN s \cup {Len(s) + 1} /\ t[Len(s) + 1] = new[a]
            /\ \A i \in DOMAIN s : t[i] = s[i]
        OBVIOUS
      <4> QED
        BY <4>1 DEF HashesOf
    <3> QED
      BY <2>3, <3>1, <3>2, SignerOf
  <2>5. ASSUME NEW a \in Accounts \ {from, to}
        PROVE  rows'[a] = rows[a] /\ posted'[a] = posted[a]
    BY <2>2 DEF Legs
  <2>6. \A a \in Accounts : HashesOf(posted[a]) \subseteq HashesOf(posted'[a])
    BY <2>4, <2>5
  <2>7. ASSUME NEW a \in Accounts, NEW h \in HashesOf(rows'[a])
        PROVE  Written(h)'
    <3>1. CASE h \in HashesOf(rows[a])
      <4>1. Written(h)
        BY <3>1 DEF OriginInv
      <4>2. Signer(h) \in Accounts =>
              HashesOf(posted[Signer(h)]) \subseteq HashesOf(posted'[Signer(h)])
        BY <2>6
      <4>3. Signer(h) \in Accounts
        BY <3>1, SignerType DEF TrailInv, StoreOK, OriginInv, Written
      <4> QED
        BY <1>1, <4>1, <4>2, <4>3 DEF Written
    <3>2. CASE h \notin HashesOf(rows[a])
      <4>1. a \in {from, to} /\ h = new[a].hash
        BY <2>4, <2>5, <3>2
      <4> QED
        BY <2>4, <4>1 DEF Written
    <3> QED
      BY <3>1, <3>2
  <2> QED
    BY <1>1, <2>7 DEF OriginInv
<1>3. CASE Edit
  <2>1. posted' = posted
    BY <1>3 DEF Edit
  <2>2. ASSUME NEW a \in Accounts, NEW h \in HashesOf(rows'[a])
        PROVE  Written(h)'
    <3>1. CASE h # NoHash /\ Signer(h) \in rehashed'
      BY <3>1 DEF Written
    <3>2. CASE \E d \in Accounts : h \in HashesOf(rows[d])
      BY <1>1, <2>1, <3>2 DEF OriginInv, Written
    <3> QED
      BY <1>3, <3>1, <3>2, EditHashes DEF TrailInv
  <2> QED
    BY <1>1, <2>2 DEF OriginInv
<1>4. CASE UNCHANGED vars
  BY <1>4 DEF vars, OriginInv, Written
<1> QED
  BY <1>2, <1>3, <1>4 DEF Next

LEMMA OriginInit == Init => OriginInv
<1> SUFFICES ASSUME Init PROVE OriginInv
  OBVIOUS
<1>1. \A a \in Accounts : rows[a] = <<>>
  BY DEF Init
<1>2. \A a \in Accounts : DOMAIN rows[a] = {}
  BY <1>1
<1>3. rehashed = {}
  BY DEF Init
<1> QED
  BY <1>2, <1>3 DEF OriginInv, HashesOf

\* Rows that are as posted link up as posted.
LEMMA AsPostedHolds ==
  ASSUME TrailInv, NEW a \in Accounts \ reheaded, NEW i \in DOMAIN rows[a],
         \A j \in 1..i : j \notin Departures(a)
  PROVE  LinkHolds(rows[a], i)
<1> DEFINE s == rows[a]
           t == posted[a]
<1>1. s \in Seq(RowSet) /\ t \in Seq(RowSet) /\ ChainValid(t)
  BY DEF TrailInv, StoreOK, HeadInv
<1>2. \A j \in 1..i : j \in DOMAIN s /\ j <= Len(t) /\ SameRow(s[j], t[j])
  <2>1. \A j \in 1..i : j \in DOMAIN s
    BY <1>1
  <2>2. Len(t) \in Nat
    BY <1>1
  <2> QED
    BY <2>1, <2>2 DEF Departures
<1>3. i \in 1..Len(s) /\ i \in 1..i
  BY <1>1
<1>4. i \in DOMAIN t
  BY <1>1, <1>2, <1>3
<1>5. LinkHolds(t, i)
  BY <1>1, <1>4 DEF ChainValid, BrokenLinks
<1>6. PrevOf(s, i) = PrevOf(t, i)
  <2>1. CASE i = 1
    BY <2>1 DEF PrevOf
  <2>2. CASE i # 1
    <3>1. i - 1 \in 1..i
      BY <1>3, <2>2
    <3> QED
      BY <1>2, <2>2, <3>1 DEF PrevOf, SameRow
  <2> QED
    BY <2>1, <2>2
<1>7. SameRow(s[i], t[i])
  BY <1>2, <1>3
<1> QED
  BY <1>5, <1>6, <1>7 DEF LinkHolds, SameRow, HashPosting

\* Links that hold up to a row lead to the row that was posted there.
LEMMA HoldsAsPosted ==
  ASSUME TrailInv, OrderInv, OriginInv, NEW a \in Accounts \ (rehashed \cup reheaded),
         NEW i \in DOMAIN rows[a], \A j \in 1..i : LinkHolds(rows[a], j)
  PROVE  i \notin Departures(a)
<1> DEFINE s == rows[a]
           t == posted[a]
           h == s[i].hash
<1>1. s \in Seq(RowSet) /\ t \in Seq(RowSet) /\ ChainValid(t)
  BY DEF TrailInv, StoreOK, HeadInv
<1>2. i \in 1..Len(s) /\ i \in 1..i /\ s[i] \in RowSet /\ s[i].account = a
  BY <1>1 DEF OrderInv, Ordered
<1>3. h = [j \in 1..i |-> Content(s[j])]
  BY <1>1, <1>2, HashesCoverRows
<1>4. PrevOf(s, i) \in Seq(ContentSet)
  BY <1>1, <1>2, PrevType
<1>5. h = HashPosting(PrevOf(s, i), s[i]) /\ s[i].prevHash = PrevOf(s, i)
  BY <1>2 DEF LinkHolds
<1>6. Signer(h) = a
  BY <1>2, <1>4, <1>5, SignerOf
<1>7. h \in HashesOf(t)
  <2>1. h \in HashesOf(rows[a])
    BY DEF HashesOf
  <2> QED
    BY <1>6, <2>1 DEF OriginInv, Written
<1>8. PICK j \in DOMAIN t : t[j].hash = h
  BY <1>7 DEF HashesOf
<1>9. \A k \in 1..Len(t) : LinkHolds(t, k)
  BY <1>1 DEF ChainValid, BrokenLinks
<1>10. j \in 1..Len(t) /\ t[j] \in RowSet
  BY <1>1, <1>8
<1>11. t[j].hash = [k \in 1..j |-> Content(t[k])]
  <2>1. \A k \in 1..j : LinkHolds(t, k)
    BY <1>9, <1>10
  <2> QED
    BY <1>1, <1>10, <2>1, HashesCoverRows
<1>12. j = i
  <2>1. 1..j = 1..i
    BY <1>3, <1>8, <1>11
  <2> QED
    BY <1>2, <1>10, <2>1
<1>13. /\ t[i].hash = HashPosting(PrevOf(t, i), t[i]) /\ t[i].prevHash = PrevOf(t, i)
       /\ PrevOf(t, i) \in Seq(ContentSet)
  BY <1>1, <1>9, <1>10, <1>12, PrevType DEF LinkHolds
<1>14. PrevOf(s, i) = PrevOf(t, i) /\ Content(s[i]) = Content(t[i])
  <2>1. Append(PrevOf(s, i), Content(s[i])) = Append(PrevOf(t, i), Content(t[i]))
    BY <1>5, <1>8, <1>12, <1>13 DEF HashPosting
  <2>2. Content(s[i]) \in ContentSet /\ Content(t[i]) \in ContentSet
    BY <1>2, <1>10, <1>12, ContentType
  <2> QED
    BY <1>4, <1>13, <2>1, <2>2, AppendInjective
<1>15. SameRow(s[i], t[i])
  BY <1>5, <1>8, <1>12, <1>13, <1>14 DEF SameRow
<1>16. ~(i > Len(t))
  BY <1>1, <1>10, <1>12
<1> QED
  BY <1>15, <1>16 DEF Departures

\* Up to a row, the links hold exactly if nothing departs from what was posted.
LEMMA BreaksAtDeparture ==
  ASSUME TrailInv, OrderInv, OriginInv
  PROVE  BrokenAtFirstDeparture
<1> SUFFICES ASSUME NEW a \in Accounts \ (rehashed \cup reheaded)
             PROVE  /\ ChainValid(rows[a]) <=> Departures(a) = {}
                    /\ \A i \in Departures(a) :
                         (\A j \in Departures(a) : i <= j) =>
                           BrokenAtSeq(rows[a]) = rows[a][i].seq
  BY DEF BrokenAtFirstDeparture
<1> DEFINE s == rows[a]
<1>1. s \in Seq(RowSet) /\ DOMAIN s = 1..Len(s) /\ Len(s) \in Nat
  BY DEF TrailInv, StoreOK
<1>2. \A i \in 1..Len(s) : (\A j \in 1..i : j \notin Departures(a)) => LinkHolds(s, i)
  BY <1>1, AsPostedHolds
<1>3. \A i \in 1..Len(s) : (\A j \in 1..i : LinkHolds(s, j)) => i \notin Departures(a)
  BY <1>1, HoldsAsPosted
<1>4. Departures(a) \subseteq 1..Len(s)
  BY <1>1 DEF Departures
<1>5. \A i \in 1..Len(s) : \A j \in 1..i : j \in 1..Len(s)
  BY <1>1
<1> HIDE DEF s
<1>6. ChainValid(s) <=> \A i \in 1..Len(s) : LinkHolds(s, i)
  BY <1>1 DEF ChainValid, BrokenLinks
<1>7. ChainValid(s) <=> Departures(a) = {}
  BY <1>2, <1>3, <1>4, <1>5, <1>6
<1>8. ASSUME NEW i \in Departures(a), \A j \in Departures(a) : i <= j
      PROVE  BrokenAtSeq(s) = s[i].seq
  <2>1. i \in 1..Len(s) /\ i \in Nat
    BY <1>1, <1>4
  <2>2. \A j \in 1..(i - 1) : j \in 1..Len(s) /\ LinkHolds(s, j)
    <3> SUFFICES ASSUME NEW j \in 1..(i - 1)
                 PROVE  j \in 1..Len(s) /\ LinkHolds(s, j)
      OBVIOUS
    <3>1. j \in 1..Len(s) /\ \A k \in 1..j : ~(i <= k)
      BY <1>1, <2>1
    <3>2. \A k \in 1..j : k \notin Departures(a)
      BY <1>8, <3>1
    <3> QED
      BY <1>2, <3>1, <3>2
  <2>3. ~LinkHolds(s, i)
    <3>1. CASE LinkHolds(s, i)
      <4>1. \A j \in 1..i : LinkHolds(s, j)
        <5>1. \A j \in 1..i : j = i \/ j \in 1..(i - 1)
          BY <2>1
        <5> QED
          BY <2>2, <3>1, <5>1
      <4> QED
        BY <1>3, <2>1, <4>1
    <3> QED
      BY <3>1
  <2>4. i \in BrokenLinks(s) /\ \A j \in BrokenLinks(s) : i <= j
    <3>1. ASSUME NEW j \in BrokenLinks(s) PROVE i <= j
      <4>1. j \in 1..Len(s) /\ ~LinkHolds(s, j)
        BY <1>1 DEF BrokenLinks
      <4>2. j \notin 1..(i - 1)
        BY <2>2, <4>1
      <4> QED
        BY <2>1, <4>1, <4>2
    <3> QED
      BY <1>1, <2>1, <2>3, <3>1 DEF BrokenLinks
  <2>5. FirstBroken(s) = i
    <3>1. BrokenLinks(s) \subseteq Nat
      BY <1>1 DEF BrokenLinks
    <3>2. ASSUME NEW k \in BrokenLinks(s), \A j \in BrokenLinks(s) : k <= j
          PROVE  k = i
      <4>1. k <= i /\ i <= k /\ k \in Nat
        BY <2>4, <3>1, <3>2
      <4> QED
        BY <2>1, <4>1
    <3> QED
      BY <2>4, <3>2 DEF FirstBroken
  <2> QED
    BY <2>4, <2>5 DEF BrokenAtSeq, ChainValid
<1> QED
  BY <1>7, <1>8 DEF s

\* "The verifier flags exactly where the chain diverges" (ADR-008): as long as
\* an account's hashes are the poster's, verifyAccount's brokenAtSeq is the
\* first stored posting that is not the one posted at its place, whatever was
\* overwritten, deleted, moved, swapped or repeated (hash-chain.ts, verifyChain).
THEOREM BreaksWhereItDeparts == Spec => []BrokenAtFirstDeparture
<1>1. TrailInv /\ OrderInv /\ OriginInv => BrokenAtFirstDeparture
  BY BreaksAtDeparture
<1> QED
  BY <1>1, OrderInit, OrderStep, OriginInit, OriginStep, TrailInvariant, PTL DEF Spec
=============================================================================
