---------------------------- MODULE Conversation ----------------------------
(***************************************************************************)
(* What one stream of the chat server promises its client, with the reply  *)
(* itself left out: the stream is opened, the client asks questions and    *)
(* may half-close or cancel; the server takes the questions in order,      *)
(* answers each once with the next number, 1 first, before it takes the    *)
(* next one, and ends the stream on EOF, on cancellation, or when the      *)
(* server process exits.  How the reply is read is not visible here: in     *)
(* StreamChat those steps are stuttering steps of this specification.      *)
(***************************************************************************)
EXTENDS Naturals, Sequences

CONSTANT MaxQ   \* questions per stream

VARIABLES
  cl,      \* the client side: "none", "open", "half", "cancel", "done"
  inbox,   \* questions sent and not yet taken
  asked,   \* questions sent on this stream
  got,     \* the numbers of the answers sent, in order
  phase,   \* the server side: "idle", "recv", or "busy" with a question
  alive    \* the server process has not exited

vars == <<cl, inbox, asked, got, phase, alive>>

Init ==
  /\ cl = "none"
  /\ inbox = <<>>
  /\ asked = 0
  /\ got = <<>>
  /\ phase = "idle"
  /\ alive

Open ==
  /\ alive /\ phase = "idle" /\ cl \in {"none", "done"}
  /\ cl' = "open" /\ inbox' = <<>> /\ asked' = 0 /\ got' = <<>>
  /\ phase' = "recv"
  /\ UNCHANGED alive

Ask ==
  /\ cl = "open" /\ asked < MaxQ
  /\ asked' = asked + 1
  /\ inbox' = Append(inbox, asked + 1)
  /\ UNCHANGED <<cl, got, phase, alive>>

CloseSend ==
  /\ cl = "open"
  /\ cl' = "half"
  /\ UNCHANGED <<inbox, asked, got, phase, alive>>

Cancel ==
  /\ cl \in {"open", "half"}
  /\ cl' = "cancel"
  /\ UNCHANGED <<inbox, asked, got, phase, alive>>

Take ==
  /\ phase = "recv" /\ inbox # <<>>
  /\ inbox' = Tail(inbox)
  /\ phase' = "busy"
  /\ UNCHANGED <<cl, asked, got, alive>>

Answer ==
  /\ phase = "busy" /\ cl # "cancel"
  /\ got' = Append(got, Len(got) + 1)
  /\ phase' = "recv"
  /\ UNCHANGED <<cl, inbox, asked, alive>>

\* The stream ends: EOF after a half-close with nothing queued, or an
\* error once cancelled (at a receive, or at the answer).
End ==
  /\ \/ phase = "recv" /\ inbox = <<>> /\ cl = "half"
     \/ phase # "idle" /\ cl = "cancel"
  /\ phase' = "idle" /\ cl' = "done"
  /\ UNCHANGED <<inbox, asked, got, alive>>

\* The server process exits: a stream in progress ends with it, and no
\* stream opens again.
Crash ==
  /\ alive
  /\ alive' = FALSE
  /\ phase' = "idle"
  /\ cl' = IF phase = "idle" THEN cl ELSE "done"
  /\ UNCHANGED <<inbox, asked, got>>

Next == Open \/ Ask \/ CloseSend \/ Cancel \/ Take \/ Answer \/ End \/ Crash

Spec == Init /\ [][Next]_vars

=============================================================================
