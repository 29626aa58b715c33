----------------------------- MODULE Selection -----------------------------
(* The elements of a sequence that belong to a set, in their order.          *)
EXTENDS Naturals, Sequences

\* ... among the first n, for every n
Selecting(seq, S) ==
  LET sel[n \in 0..Len(seq)] ==
        IF n = 0 THEN <<>>
        ELSE IF seq[n] \in S THEN Append(sel[n - 1], seq[n]) ELSE sel[n - 1]
  IN  sel
Selected(seq, S) == Selecting(seq, S)[Len(seq)]
=============================================================================
