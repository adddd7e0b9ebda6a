--------------------------- MODULE DIDConformance ---------------------------
(***************************************************************************)
(* What spec.md and the tests of did_test.go say of Parse and ParseDIDURL, *)
(* stated over the client of module DID.  Each property is checked in a   *)
(* run of its own; where the code disagrees, TLC's trace is the witness.  *)
(***************************************************************************)
EXTENDS DID, DIDGrammar

\* The text of a DID URL from the first '/', '?' or '#' on, as ParseDIDURL
\* splits it (did.go:64-72).
URLSuffix(s) ==
  LET split == IndexAny(s, {Question, Slash, Hash})
  IN  IF split = 0 THEN <<>> ELSE Drop(s, split - 1)

\* The path of a DID URL as written: its suffix up to the first '?' or '#',
\* without the '/' that starts it.
PathText(s) ==
  LET suffix == URLSuffix(s)
      end    == IndexAny(suffix, {Question, Hash})
  IN  Tail(IF end = 0 THEN suffix ELSE SubSeq(suffix, 1, end - 1))

\* When ParseDIDURL accepts a DID URL with a path (did.go:86-105), the path
\* is non-empty, its segments hold only path chars and well-formed escapes,
\* and Path is that text as written: "did:a:123:456/a/%20a" gives Path
\* "a/%20a" (spec 4.2 state 5 and section 8; did_test.go:424-428, 439-443,
\* 460-463 for "/" alone, 475-478 for '^').
PathKeptAsWritten ==
  call = "ParseDIDURL" /\ res.ok /\ IsPrefix(<<Slash>>, URLSuffix(arg))
    => /\ PathText(arg) # <<>>
       /\ Encoded(PathText(arg), GrammarPathChars \cup {Slash})
       /\ res.Path = PathText(arg)

\* When ParseDIDURL accepts a DID URL with a '#', the fragment after it holds
\* only fragment chars and well-formed escapes, and Fragment is that text as
\* written: "did:a:123:456#aaaaaa%20a" gives Fragment "aaaaaa%20a" (spec 4.2
\* state 7; did_test.go:541-545, and 562-565 for '^').
FragmentKeptAsWritten ==
  call = "ParseDIDURL" /\ res.ok /\ Hash \in Range(arg)
    => /\ Encoded(Cut(arg, Hash).after, GrammarFragmentChars)
       /\ res.Fragment = Cut(arg, Hash).after

\* Parse accepts exactly the DIDs the grammar allows (spec section 3): it
\* accepts "did:a:1" (did_test.go:211-215, "succeeds if it has did prefix
\* and length is greater than 7") and methods with digits (did_test.go:227),
\* and rejects an empty idstring ("did:a::123:456", did_test.go:187-199) and
\* a byte outside the ID class ("did:a:1&&111", did_test.go:250-253).
ParseAcceptsExactlyGrammarDIDs ==
  call = "Parse" => (res.ok <=> GrammarDID(arg))

\* ParseDIDURL fails when the first path segment is empty, that is when
\* the path starts "//" (did_test.go:465-468, spec 4.2 state 5).
EmptyFirstPathSegmentRejected ==
  call = "ParseDIDURL" /\ res.ok => ~IsPrefix(<<Slash, Slash>>, URLSuffix(arg))

=============================================================================
