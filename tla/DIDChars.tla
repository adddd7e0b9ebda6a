------------------------------ MODULE DIDChars ------------------------------
(***************************************************************************)
(* Byte classes used by the DID parser of src/did/did.go and by the parts  *)
(* of Go's net/url that ParseDIDURL calls.  A Go string is a sequence of   *)
(* bytes; here a string is a sequence of naturals in 0..255, and a class   *)
(* is a set of bytes.  Only ASCII bytes are ever put into an input, so the *)
(* rune-versus-byte distinction of Go's regexp package never arises.       *)
(***************************************************************************)
EXTENDS Naturals, Sequences

\* Single bytes that the grammar, the regex or net/url treat specially.
Space     == 32
Bang      == 33
Hash      == 35
Dollar    == 36
Percent   == 37
Amp       == 38
Plus      == 43
Comma     == 44
Dash      == 45
Dot       == 46
Slash     == 47
Colon     == 58
Semicolon == 59
Equals    == 61
Question  == 63
At        == 64
LBracket  == 91
Caret     == 94
Under     == 95
Tilde     == 126
Del       == 127

Digits       == 48..57
UpperLetters == 65..90
LowerLetters == 97..122
Letters      == UpperLetters \cup LowerLetters
Alnum        == Letters \cup Digits
HexDigits    == Digits \cup 65..70 \cup 97..102

\* Mutant: lowercase hex digits given the uppercase offset.
HexValCaseBug(c) == IF c \in Digits THEN c - 48 ELSE c - 55

\* Value of a hex digit byte (net/url unhex).
HexVal(c) == IF c \in Digits THEN c - 48
             ELSE IF c \in 65..70 THEN c - 55
             ELSE c - 87

\* The literal "did" of did.go (Scheme field, and the regex prefix).
DidScheme == <<100, 105, 100>>

(***************************************************************************)
(* Classes of the regex built in Parse (did.go:27-29):                     *)
(*   idChar     = `a-zA-Z0-9-_\.`                                          *)
(*   methodChar = `a-zA-Z0-9`                                              *)
(* In the Go regex class `0-9-_`, the dash after a range is a literal.     *)
(***************************************************************************)
RegexIdChars     == Alnum \cup {Dash, Under, Dot}
RegexMethodChars == Alnum

(***************************************************************************)
(* Classes of net/url (Go standard library) reached from ParseDIDURL.      *)
(***************************************************************************)
\* stringContainsCTLByte: b < ' ' or b = 0x7f.
CTLBytes == 0..31 \cup {Del}

\* Bytes that shouldEscape(c, encodeHost) accepts unescaped in a host.
HostBytes == Alnum \cup {Dash, Under, Dot, Tilde, Bang, Dollar, Amp, 39, 40,
                         41, 42, Plus, Comma, Semicolon, Equals, Colon,
                         LBracket, 93, 60, 62, 34}

\* validUserinfo: the bytes accepted in the userinfo of an authority.
UserinfoBytes == Alnum \cup {Dash, Dot, Under, Colon, Tilde, Bang, Dollar,
                             Amp, 39, 40, 41, 42, Plus, Comma, Semicolon,
                             Equals, Percent, At}

(***************************************************************************)
(* Classifiers of the hand-written scanner that spec.md section 4.1 and    *)
(* the unit tests of did_test.go describe (that scanner is not part of     *)
(* the source tree; these sets follow the tests, which are more specific   *)
(* than the spec's table).                                                  *)
(***************************************************************************)
\* isNotValidIDChar is false exactly on ALPHA, DIGIT, '.', '-'.
GrammarIdChars == Alnum \cup {Dot, Dash}
\* The method: lowercase letters and digits.
GrammarMethodChars == LowerLetters \cup Digits
\* Spec 4.1's "unreserved or sub-delim": A-Za-z0-9 - . _ ~ ! $ & ' ( ) * + , ; =
UnreservedSubdelims == Alnum \cup {Dash, Dot, Under, Tilde, Bang, Dollar, Amp,
                                   39, 40, 41, 42, Plus, Comma, Semicolon, Equals}
\* A valid path char (spec 4.1): unreserved or sub-delim, ':' or '@'.
GrammarPathChars == UnreservedSubdelims \cup {Colon, At}
\* A valid query or fragment char (spec 4.1): a path char, '/' or '?'.
GrammarFragmentChars == GrammarPathChars \cup {Slash, Question}

=============================================================================
