--------------------------------- MODULE DID ---------------------------------
(***************************************************************************)
(* The package src/did (did.go): Parse, DID.String and ParseDIDURL.        *)
(* Strings are byte sequences (see DIDChars).  The package has no state of *)
(* its own; the variables record the last call a client made and what it   *)
(* returned, so that properties can relate a result to its input.        *)
(***************************************************************************)
EXTENDS Naturals, Sequences, SequencesExt, GoStrings, DIDChars, Regex

CONSTANTS
  Inputs      \* the strings a client passes to Parse and ParseDIDURL

ASSUME Inputs \subseteq Seq(0..127)

-----------------------------------------------------------------------------
(* DID and Parse (did.go:11-48).                                           *)

\* A DID value; a nil *DID is NoDID.
DIDRec == [Scheme : Seq(0..255), Method : Seq(0..255),
           MethodSpecificID : Seq(0..255)]
NoDID == [Scheme |-> <<>>, Method |-> <<>>, MethodSpecificID |-> <<>>]

\* Mutant: the method written with the methodChar constant, [a-zA-Z0-9]+.
DIDRegexMethodCharBug ==
  Cat(<< Word(DidScheme \o <<Colon>>),
         Rep1(Cls(RegexMethodChars)),
         Lit(Colon),
         Rep0(Alt(Rep1(Lit(Colon)),
                  Rep1(Cls({Colon} \cup RegexMethodChars)))),
         Rep1(Cls({Percent, Colon} \cup RegexIdChars)),
         NegCls({Colon}) >>)

\* The expression fmt.Sprintf builds at did.go:29 from methodChar and idChar,
\*   ^did:[a-z]+:(:+|[:a-zA-Z0-9]+)*[%:a-zA-Z0-9-_\.]+[^:]$
DIDRegex ==
  Cat(<< Word(DidScheme \o <<Colon>>),
         Rep1(Cls(LowerLetters)),
         Lit(Colon),
         Rep0(Alt(Rep1(Lit(Colon)),
                  Rep1(Cls({Colon} \cup RegexMethodChars)))),
         Rep1(Cls({Percent, Colon} \cup RegexIdChars)),
         NegCls({Colon}) >>)

\* Mutant: strings.Split(did, ":") in place of SplitN(did, ":", 3).
ParseSplitAll(did) ==
  IF ~Match(DIDRegex, did)
  THEN [ok |-> FALSE, did |-> NoDID]
  ELSE LET parts == SplitN(did, Colon, 0)
       IN  [ok  |-> TRUE,
            did |-> [Scheme |-> DidScheme, Method |-> parts[2],
                     MethodSpecificID |-> parts[3]]]

\* Parse: match the regex, then SplitN(did, ":", 3).  The regexp.Compile
\* error branch cannot be taken: the expression is a constant that compiles.
Parse(did) ==
  IF ~Match(DIDRegex, did)
  THEN [ok |-> FALSE, did |-> NoDID]
  ELSE LET parts == SplitN(did, Colon, 3)
       IN  [ok  |-> TRUE,
            did |-> [Scheme |-> DidScheme, Method |-> parts[2],
                     MethodSpecificID |-> parts[3]]]

\* String: fmt.Sprintf("%s:%s:%s", Scheme, Method, MethodSpecificID).
String(d) == d.Scheme \o <<Colon>> \o d.Method \o <<Colon>> \o d.MethodSpecificID

-----------------------------------------------------------------------------
(* The parts of Go's net/url that ParseDIDURL calls (did.go:92-105).       *)
(* url.Parse is only ever given a string that begins with "/", so the     *)
(* scheme, opaque and "*" branches of net/url are unreachable and left     *)
(* out; so is the IPv6 "[...]" host branch (Inputs hold no '[').  The      *)
(* ForceQuery branch ("?" as last and only '?') leaves the same path and   *)
(* empty RawQuery as the general branch, so it is not told apart.          *)

\* unescape(s, mode) fails on a '%' not followed by two hex digits; in a
\* host it also fails on an escape of an ASCII byte other than %25 and on
\* an ASCII byte that shouldEscape(c, encodeHost) rejects.
UnescapeOK(s, mode) ==
  /\ \A i \in 1..Len(s) : s[i] = Percent =>
        /\ i + 2 <= Len(s)
        /\ s[i + 1] \in HexDigits /\ s[i + 2] \in HexDigits
        /\ mode = "host" =>
              HexVal(s[i + 1]) >= 8 \/ SubSeq(s, i, i + 2) = <<Percent, 50, 53>>
  /\ mode = "host" =>
        \A i \in 1..Len(s) : s[i] # Percent => s[i] >= 128 \/ s[i] \in HostBytes

\* The decoded string unescape returns; '+' is a space in a query component.
\* (The hex test only keeps the operator total on strings it is not used on.)
RECURSIVE Unescape(_, _)
Unescape(s, mode) ==
  IF s = <<>> THEN <<>>
  ELSE IF s[1] = Percent /\ Len(s) >= 3 /\ {s[2], s[3]} \subseteq HexDigits
       THEN <<16 * HexVal(s[2]) + HexVal(s[3])>> \o Unescape(Drop(s, 3), mode)
       ELSE <<IF s[1] = Plus /\ mode = "queryComponent" THEN Space ELSE s[1]>>
              \o Unescape(Drop(s, 1), mode)

\* parseHost for a host without '[': an optional ":digits" port, then
\* unescape(host, encodeHost).
HostOK(host) ==
  LET c == LastIndexOf(host, Colon)
  IN  /\ c > 0 => \A i \in c + 1..Len(host) : host[i] \in Digits
      /\ UnescapeOK(host, "host")

\* parseAuthority: host after the last '@'; userinfo before it must pass
\* validUserinfo and unescape(_, encodeUserPassword) (splitting it at ':'
\* first changes neither outcome).
AuthorityOK(authority) ==
  LET at       == LastIndexOf(authority, At)
      userinfo == SubSeq(authority, 1, at - 1)
  IN  /\ HostOK(Drop(authority, at))
      /\ at > 0 => /\ \A i \in 1..Len(userinfo) : userinfo[i] \in UserinfoBytes
                   /\ UnescapeOK(userinfo, "userPassword")

\* url.Parse(raw) for raw beginning with "/": cut the fragment at the first
\* '#', reject control bytes, cut the query at the first '?', take an
\* authority when the rest starts with "//" but not "///", then setPath and
\* setFragment unescape.
URLParse(raw) ==
  LET u        == Cut(raw, Hash).before
      frag     == Cut(raw, Hash).after
      rest     == Cut(u, Question).before
      hasAuth  == IsPrefix(<<Slash, Slash>>, rest) /\ ~IsPrefix(<<Slash, Slash, Slash>>, rest)
      afterSS  == Drop(rest, 2)
      j        == IndexAny(afterSS, {Slash})
      auth     == IF j = 0 THEN afterSS ELSE SubSeq(afterSS, 1, j - 1)
      path     == IF ~hasAuth THEN rest ELSE IF j = 0 THEN <<>> ELSE Drop(afterSS, j - 1)
  IN  [ok       |-> /\ \A i \in 1..Len(u) : u[i] \notin CTLBytes
                    /\ hasAuth => AuthorityOK(auth)
                    /\ UnescapeOK(path, "path")
                    /\ frag # <<>> => UnescapeOK(frag, "fragment"),
       Path     |-> Unescape(path, "path"),
       RawQuery |-> Cut(u, Question).after,
       Fragment |-> Unescape(frag, "fragment")]

\* URL.Query() = ParseQuery(RawQuery) with its error dropped: pieces split at
\* '&'; a piece with ';', an empty piece, or one whose key or value does not
\* unescape is skipped; the rest are appended to m[key] in order.
ParseQuery(q) ==
  LET key(p)   == Cut(p, Equals).before
      val(p)   == Cut(p, Equals).after
      good(p)  == /\ p # <<>>
                  /\ \A i \in 1..Len(p) : p[i] # Semicolon
                  /\ UnescapeOK(key(p), "queryComponent")
                  /\ UnescapeOK(val(p), "queryComponent")
      kept     == SelectSeq(SplitN(q, Amp, 0), good)
      pairs    == [i \in 1..Len(kept) |->
                     <<Unescape(key(kept[i]), "queryComponent"),
                       Unescape(val(kept[i]), "queryComponent")>>]
      keys     == {pairs[i][1] : i \in DOMAIN pairs}
      vals(k)  == LET ps == SelectSeq(pairs, LAMBDA pr : pr[1] = k)
                  IN  [i \in 1..Len(ps) |-> ps[i][2]]
  IN  [k \in keys |-> vals(k)]

-----------------------------------------------------------------------------
(* DIDURL and ParseDIDURL (did.go:54-108).                                 *)

NoURL == [ok |-> FALSE, did |-> NoDID, Path |-> <<>>,
          Queries |-> ParseQuery(<<>>), Fragment |-> <<>>]

ParseDIDURL(didURL) ==
  LET split   == IndexAny(didURL, {Question, Slash, Hash})
      didPart == IF split = 0 THEN didURL ELSE SubSeq(didURL, 1, split - 1)
      pqf     == IF split = 0 THEN <<>> ELSE Drop(didURL, split - 1)
      retDID  == Parse(didPart)
      hasPath == pqf # <<>> /\ pqf[1] = Slash
      urlPart == URLParse(IF hasPath THEN pqf ELSE <<Slash>> \o pqf)
  IN  CASE ~retDID.ok   -> NoURL
        [] pqf = <<>>   -> [NoURL EXCEPT !.ok = TRUE, !.did = retDID.did]
        [] ~urlPart.ok  -> NoURL
        [] OTHER        -> [ok       |-> TRUE,
                            did      |-> retDID.did,
                            Path     |-> IF hasPath THEN urlPart.Path ELSE <<>>,
                            Queries  |-> ParseQuery(urlPart.RawQuery),
                            Fragment |-> urlPart.Fragment]

-----------------------------------------------------------------------------
(* A client of the package holding one string, input.  Each step is one  *)
(* call on it.                                                             *)

VARIABLES
  input,  \* the client's string, one of Inputs
  call,   \* the last call: "none", "Parse" or "ParseDIDURL"
  arg,    \* its argument
  res     \* its result

vars == <<input, call, arg, res>>

Init ==
  /\ input \in Inputs
  /\ call = "none"
  /\ arg  = <<>>
  /\ res  = NoURL

\* d, err := did.Parse(input)
CallParse ==
  /\ call' = "Parse"
  /\ arg'  = input
  /\ res'  = Parse(input)
  /\ UNCHANGED input

\* u, err := did.ParseDIDURL(input)
CallParseDIDURL ==
  /\ call' = "ParseDIDURL"
  /\ arg'  = input
  /\ res'  = ParseDIDURL(input)
  /\ UNCHANGED input

Next ==
  \/ CallParse
  \/ CallParseDIDURL

Spec == Init /\ [][Next]_vars

-----------------------------------------------------------------------------
(* Properties.                                                             *)

TypeOK ==
  /\ input \in Seq(0..255)
  /\ call \in {"none", "Parse", "ParseDIDURL"}
  /\ arg \in Seq(0..255)
  /\ res.ok \in BOOLEAN /\ res.did \in DIDRec
  /\ call = "ParseDIDURL" =>
        res.Path \in Seq(0..255) /\ res.Fragment \in Seq(0..255)

\* The language the regex of Parse accepts, stated directly: "did:", a
\* non-empty lowercase method, ':', then at least two bytes of which all
\* but the last are idChar, ':' or '%' and the last is anything but ':'.
RegexLanguage(s) ==
  LET r == Drop(s, 4)
      i == IndexAny(r, {Colon})
      w == Drop(r, i)
  IN  /\ IsPrefix(DidScheme \o <<Colon>>, s)
      /\ i > 1
      /\ \A j \in 1..i - 1 : r[j] \in LowerLetters
      /\ Len(w) >= 2
      /\ \A j \in 1..Len(w) - 1 : w[j] \in RegexIdChars \cup {Colon, Percent}
      /\ Last(w) # Colon

\* Parse (did.go:25-48) accepts exactly RegexLanguage: the character classes
\* of did.go:27-29 and their place in the expression say what they mean.
ParseAcceptsRegexLanguage ==
  call = "Parse" => (res.ok <=> RegexLanguage(arg))

\* Round trip: when Parse succeeds, String() of the DID (did.go:19-21) gives
\* back the input byte for byte; SplitN's limit of 3 keeps every later ':'
\* inside MethodSpecificID.
ParseRoundTrip ==
  call = "Parse" /\ res.ok => String(res.did) = arg



=============================================================================
