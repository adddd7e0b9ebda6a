------------------------------ MODULE GoStrings ------------------------------
(***************************************************************************)
(* The functions of Go's strings package that did.go calls, on byte        *)
(* sequences, by what they do.  Indices are 1-based; "absent" is 0 where   *)
(* Go returns -1.                                                          *)
(***************************************************************************)
EXTENDS Naturals, Sequences, SequencesExt

\* s[i+1..Len(s)], Go's s[i:] for a 0-based i.
Drop(s, i) == SubSeq(s, i + 1, Len(s))

\* strings.IndexAny(s, chars) as a 1-based index, 0 when absent.
IndexAny(s, S) == SelectInSeq(s, LAMBDA c : c \in S)

\* strings.LastIndex(s, <<c>>), 1-based, 0 when absent.
LastIndexOf(s, c) == SelectLastInSeq(s, LAMBDA x : x = c)

\* strings.SplitN(s, <<sep>>, n): at most n pieces, the last one keeping the
\* remainder; n <= 0 splits at every separator (strings.Split).
RECURSIVE SplitN(_, _, _)
SplitN(s, sep, n) ==
  LET i == IndexAny(s, {sep}) IN
  IF n = 1 \/ i = 0 THEN <<s>>
  ELSE <<SubSeq(s, 1, i - 1)>> \o SplitN(Drop(s, i), sep, n - 1)

\* strings.Cut(s, <<c>>)
Cut(s, c) ==
  LET i == IndexAny(s, {c})
  IN  IF i = 0 THEN [before |-> s, after |-> <<>>]
      ELSE [before |-> SubSeq(s, 1, i - 1), after |-> Drop(s, i)]

=============================================================================
