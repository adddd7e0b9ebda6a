------------------------------- MODULE Regex -------------------------------
(***************************************************************************)
(* The language of an anchored regular expression, as used by              *)
(* regexp.MatchString in Parse (did.go:31-36).  An expression is a record  *)
(* term; Match(r, s) holds iff the byte string s, as a whole, is in the    *)
(* language of r.  Only whole-string (^...$) matching is needed, so the    *)
(* leftmost-first preference of Go's engine plays no part: MatchString     *)
(* answers language membership.                                            *)
(***************************************************************************)
EXTENDS Naturals, Sequences

\* A one-byte class [..], a negated class [^..], a concatenation, an
\* alternation, and the repetitions + and *.
Cls(S)    == [k |-> "cls",  s |-> S,  rs |-> <<>>]
Lit(c)    == Cls({c})
NegCls(S) == [k |-> "neg",  s |-> S,  rs |-> <<>>]
Cat(rs)   == [k |-> "cat",  s |-> {}, rs |-> rs]
Alt(a, b) == [k |-> "alt",  s |-> {}, rs |-> <<a, b>>]
Rep1(r)   == [k |-> "plus", s |-> {}, rs |-> <<r>>]
Rep0(r)   == [k |-> "star", s |-> {}, rs |-> <<r>>]

\* The literal byte string w as a concatenation of one-byte classes.
Word(w) == Cat([i \in 1..Len(w) |-> Lit(w[i])])

(***************************************************************************)
(* Membership, computed as Go's engine does it: by the set of positions   *)
(* the expression can reach, never by backtracking.  Ends(r, s, P) is the *)
(* set of j such that s[i+1..j] is in the language of r for some i in P;  *)
(* positions are 0..Len(s).                                                *)
(***************************************************************************)
RECURSIVE Ends(_, _, _), CatEnds(_, _, _, _), RepEnds(_, _, _, _)

Ends(r, s, P) ==
  CASE r.k = "cls"  -> {i + 1 : i \in {i \in P : i < Len(s) /\ s[i + 1] \in r.s}}
    [] r.k = "neg"  -> {i + 1 : i \in {i \in P : i < Len(s) /\ s[i + 1] \notin r.s}}
    [] r.k = "alt"  -> Ends(r.rs[1], s, P) \cup Ends(r.rs[2], s, P)
    [] r.k = "cat"  -> CatEnds(r.rs, 1, s, P)
    [] r.k = "plus" -> RepEnds(r.rs[1], s, Ends(r.rs[1], s, P), {})
    [] r.k = "star" -> P \cup RepEnds(r.rs[1], s, Ends(r.rs[1], s, P), {})

\* Positions after rs[n], rs[n+1], ... in turn.
CatEnds(rs, n, s, P) ==
  IF n > Len(rs) THEN P ELSE CatEnds(rs, n + 1, s, Ends(rs[n], s, P))

\* Closure of the positions reached by one more repetition of r: new is the
\* frontier not yet in acc.  Terminates since positions are bounded.
RepEnds(r, s, new, acc) ==
  IF new \subseteq acc THEN acc
  ELSE RepEnds(r, s, Ends(r, s, new \ acc), acc \cup new)

\* regexp.MatchString of an anchored expression: the whole of s matches.
Match(r, s) == Len(s) \in Ends(r, s, {0})

=============================================================================
