-------------------------------- MODULE Money --------------------------------
(***************************************************************************)
(* What the dashboard does to amounts: the user types decimals, the ledger *)
(* knows whole minor units, and both are strings, never numbers.  Digits   *)
(* are sequences of 0..9 here; a decimal has digits before and behind the  *)
(* point.  A minus sign, which only the ledger writes, passes through, and *)
(* the grouping of thousands is left out.                                  *)
(***************************************************************************)
LOCAL INSTANCE Integers
LOCAL INSTANCE Sequences

CONSTANT NoAmount  \* null: an input that is no amount

\* The decimals of a currency.
scaleOf(currency) == IF currency = "JPY" THEN 0 ELSE 2

Zeros(n) == IF n > 0 THEN [i \in 1..n |-> 0] ELSE <<>>

\* Without the zeros in front, of which the last one stays if it is the only digit.
Stripped(digits) ==
  LET significant == {i \in DOMAIN digits : digits[i] # 0}
      first == CHOOSE i \in significant : \A j \in significant : i <= j
  IN  IF significant = {} THEN <<0>> ELSE SubSeq(digits, first, Len(digits))

\* Faulty variant: the decimals that were not typed are not filled in.
UnpaddedUnits(text, currency) ==
  IF Len(text.fraction) > scaleOf(currency) THEN NoAmount
  ELSE Stripped(text.whole \o text.fraction)

\* The digits to send for a decimal with at most the currency's decimals.
toMinorUnits(text, currency) ==
  LET missing == scaleOf(currency) - Len(text.fraction)
  IN  IF missing < 0 THEN NoAmount
      ELSE Stripped(text.whole \o text.fraction \o Zeros(missing))

\* The decimal to show for an amount.
formatMoney(digits, currency) ==
  LET scale  == scaleOf(currency)
      padded == Zeros(scale + 1 - Len(digits)) \o digits
      point  == Len(padded) - scale
  IN  [whole |-> SubSeq(padded, 1, point),
       fraction |-> SubSeq(padded, point + 1, Len(padded))]

-----------------------------------------------------------------------------
(* The numbers that are meant                                               *)

\* read[n] is the number that the first n digits stand for.
Number(digits) ==
  LET read[n \in 0..Len(digits)] ==
        IF n = 0 THEN 0 ELSE 10 * read[n - 1] + digits[n]
  IN  read[Len(digits)]

SameNumber(a, b) ==
  Number(a.whole \o a.fraction) * 10 ^ Len(b.fraction) =
  Number(b.whole \o b.fraction) * 10 ^ Len(a.fraction)

\* For every decimal among these: it is refused only for decimals that the
\* currency has not; what is sent for it is shown as the same number, in the
\* only spelling of that number (the test for '0' and the API's comparison of
\* a retried request with the first one both compare spellings).
Exact(texts, currency) ==
  LET sent == [t \in texts |-> toMinorUnits(t, currency)]
      accepted == {t \in texts : sent[t] # NoAmount}
  IN  /\ \A t \in texts \ accepted : Len(t.fraction) > scaleOf(currency)
      /\ \A t \in accepted :
           /\ SameNumber(formatMoney(sent[t], currency), t)
           /\ Len(sent[t]) > 1 => sent[t][1] # 0
=============================================================================
