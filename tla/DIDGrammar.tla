----------------------------- MODULE DIDGrammar -----------------------------
(***************************************************************************)
(* The DID syntax that spec.md (sections 3, 4.1, 4.2, 8) and the unit     *)
(* tests in src/did/did_test.go require of Parse.  The hand-written       *)
(* scanner those tests exercise (parser, errorf, isNotValidIDChar, ...) is *)
(* not in the source tree; this module states the grammar it implements,  *)
(* as the reference the regex-based Parse of did.go is compared with.     *)
(***************************************************************************)
EXTENDS Naturals, Sequences, SequencesExt, GoStrings, DIDChars

\* A string over the byte class C in which '%' only starts an escape
\* "%" HEXDIG HEXDIG (spec 4.1, "Percent-encoding").
RECURSIVE Encoded(_, _)
Encoded(s, C) ==
  \/ s = <<>>
  \/ s[1] \in C /\ Encoded(Tail(s), C)
  \/ /\ s[1] = Percent /\ Len(s) >= 3
     /\ s[2] \in HexDigits /\ s[3] \in HexDigits
     /\ Encoded(Drop(s, 3), C)

\* "did:" method ":" idstring *(":" idstring): the method is one or more of
\* [a-z0-9]; every idstring is non-empty and made of ID chars and escapes
\* (spec 4.2 states 1-3; did_test.go:159-253).
GrammarDID(s) ==
  LET r    == Drop(s, 4)
      i    == IndexAny(r, {Colon})
      segs == SplitN(Drop(r, i), Colon, 0)
  IN  /\ IsPrefix(DidScheme \o <<Colon>>, s)
      /\ i > 1
      /\ \A j \in 1..i - 1 : r[j] \in GrammarMethodChars
      /\ \A k \in 1..Len(segs) : segs[k] # <<>> /\ Encoded(segs[k], GrammarIdChars)

=============================================================================
