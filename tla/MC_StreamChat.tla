--------------------------- MODULE MC_StreamChat ---------------------------
(***************************************************************************)
(* Instances of StreamChat for TLC.                                        *)
(***************************************************************************)
EXTENDS StreamChat

\* One-word replies: a one-byte word, a two-byte word, an empty line, and a
\* word with spaces around it.
WordLines == {<<"w">>, <<"w", "w">>, <<>>, <<"sp", "w", "sp">>}

\* Replies with more than one word.
SentenceLines == {<<"w", "sp", "w">>, <<"w", "sp", "w", "w">>}

AnyLines == WordLines \cup SentenceLines
=============================================================================
