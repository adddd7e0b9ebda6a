------------------------------- MODULE MC_DID -------------------------------
(***************************************************************************)
(* Bounded inputs for DID.  Bytes are written by their ASCII codes.        *)
(***************************************************************************)
EXTENDS DIDConformance

\* "did:" followed by every string of up to ParseLen bytes over ParseBytes:
\* lowercase a, uppercase B, digit 1, ':', '%', '&'.  With 5 bytes after
\* "did:" there are DIDs with one- and two-byte ids, empty id segments,
\* '%' and '&' in every position, and three colons after the scheme.
ParseBytes == {97, 66, 49, Colon, Percent, Amp}
ParseLen   == 6
ParseInputs ==
  {DidScheme \o <<Colon>> \o r : r \in BoundedSeq(ParseBytes, ParseLen)}
  \cup {<<100, 105, 120, Colon, 97, Colon, 49, 49>>,   \* "dix:a:11"
        <<>>}

\* A valid DID, "did:a:12", followed by every string of up to URLLen bytes
\* over the bytes ParseDIDURL and net/url tell apart: the separators / ? #,
\* '%' with hex (a, 1) and non-hex (^) bytes after it, '@' and ':' of an
\* authority, and '&', '=', '+' of a query.
URLBytes == {Slash, Question, Hash, Percent, 97, 49, At, Colon, Caret, Amp,
             Equals, Plus}
URLLen   == 4
URLInputs ==
  {<<100, 105, 100, Colon, 97, Colon, 49, 50>> \o r : r \in BoundedSeq(URLBytes, URLLen)}

\* Both input sets, checked in one run.
AllInputs == ParseInputs \cup URLInputs

=============================================================================
