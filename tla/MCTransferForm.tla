--------------------------- MODULE MCTransferForm ---------------------------
(***************************************************************************)
(* Small instances of TransferForm: an account in yen, one in dollars, and *)
(* another in dollars that may be opened later.                            *)
(***************************************************************************)
EXTENDS TransferForm, TLC

MCAccounts == 1..3
MCCurrencyOf == [a \in MCAccounts |-> IF a = 1 THEN "JPY" ELSE "USD"]
MCLists == {<<2, 1>>, <<2, 3, 1>>}

\* What is typed: half a dollar, which is no amount in yen.
MCTexts == {[whole |-> <<0>>, fraction |-> <<5>>]}

\* The bound of Decimals: up to three digits before the point and behind.
SomeDigits(n) == UNION {[1..k -> {0, 5, 9}] : k \in n..3}

MCDecimals == [whole : SomeDigits(1), fraction : SomeDigits(0)]

\* Bound: when all calls have been made, nothing is typed any more, since it
\* cannot be sent.
TypedToBeSent == (\E c \in Calls : calls[c].at = "unused") \/ ~Type

CallSymmetry == Permutations(Calls)
=============================================================================
