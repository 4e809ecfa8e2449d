------------------------------- MODULE Word -------------------------------
(***************************************************************************)
(* What a word log promises (WordLog.ts, "The word"): receipts in          *)
(* admission order, marks dense from zero, append-only.  One append adds   *)
(* one receipt at the next mark; nothing is removed, replaced or           *)
(* renumbered.                                                             *)
(***************************************************************************)
EXTENDS Naturals, Sequences

CONSTANT Admitted     \* what a receipt is about

VARIABLE word

Receipt == [seq : Nat, of : Admitted]

Init == word = <<>>

AppendOne == \E a \in Admitted : word' = Append(word, [seq |-> Len(word), of |-> a])

Next == AppendOne

Spec == Init /\ [][Next]_word
============================================================================
