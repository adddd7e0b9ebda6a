----------------------------- MODULE StreamChat -----------------------------
(***************************************************************************)
(* The bidirectional-streaming chat server of src/grpc_CS/server/server.go.*)
(* gRPC runs one Conversations handler per stream, concurrently.  Each     *)
(* handler loops: Recv a question, prompt the operator, read the reply     *)
(* with fmt.Scanln(&ans) from the process's one os.Stdin, Send it numbered *)
(* by its own counter n.                                                   *)
(*                                                                         *)
(* os.Stdin is not an io.RuneScanner, so Scanln reads it one rune (here:   *)
(* one byte) per read call, keeping at most one unread rune of its own.   *)
(* Two handlers in Scanln at once read the same stdin, rune by rune, in   *)
(* any interleaving.  The terminal hands over whole lines, so the operator *)
(* appends a whole line, newline included, in one step.                    *)
(*                                                                         *)
(* The stream clients are not part of the repository; a client opens a     *)
(* stream, sends questions, and may half-close (CloseSend) or cancel.      *)
(***************************************************************************)
EXTENDS Naturals, Sequences

CONSTANTS
  Slots,     \* streams that can be open at the same time
  MaxCalls,  \* streams opened, per slot
  MaxQ,      \* questions sent, per stream
  MaxLines,  \* lines the operator types
  Shapes     \* lines the operator may type: sequences of "w" (a non-space
             \* byte) and "sp" (a space); the newline is added by Type

VARIABLES
  srv,       \* main: "init", "serving", or "failed" (log.Fatalf)
  cl,        \* per slot: the client side of the stream
  inbox,     \* per slot: questions sent, not yet returned by Recv
  asked,     \* per slot: questions sent on the current stream
  got,       \* per slot: answers the client has been sent, [n, ans]
  calls,     \* per slot: streams opened so far
  pc,        \* per slot: where the Conversations handler is
  ph,        \* per slot: phase of the Scanln in progress
  pend,      \* per slot: the rune Scanln has read and unread
  acc,       \* per slot: the token Scanln has read so far
  n,         \* per slot: the handler's local counter n
  stdin,     \* runes typed and not yet read
  lines,     \* history: every line typed, in order
  answered   \* history: every value of ans that Scanln left, in order

vars == <<srv, cl, inbox, asked, got, calls, pc, ph, pend, acc, n, stdin,
          lines, answered>>

(***************************************************************************)
(* A rune of stdin: the line it was typed in, its position in that line,   *)
(* and its class.  A reply is the sequence of runes it was made of.        *)
(***************************************************************************)
RuneClass == {"w", "sp", "nl"}
Rune == [l : Nat, i : Nat, c : RuneClass]
NoRune == [l |-> 0, i |-> 0, c |-> "none"]

\* The runes of line k typed with shape sh, newline last.
LineRunes(k, sh) ==
  [i \in 1..Len(sh) + 1 |-> [l |-> k, i |-> i,
                             c |-> IF i <= Len(sh) THEN sh[i] ELSE "nl"]]

\* isSpace of package fmt, restricted to the classes here (not '\n').
IsWord(r) == r.c = "w"

\* The non-space runes of a typed line: what a reply of it should carry.
WordRunes(line) == SelectSeq(line, IsWord)

Init ==
  /\ srv = "init"
  /\ cl = [s \in Slots |-> "none"]
  /\ inbox = [s \in Slots |-> <<>>]
  /\ asked = [s \in Slots |-> 0]
  /\ got = [s \in Slots |-> <<>>]
  /\ calls = [s \in Slots |-> 0]
  /\ pc = [s \in Slots |-> "idle"]
  /\ ph = [s \in Slots |-> "skip"]
  /\ pend = [s \in Slots |-> NoRune]
  /\ acc = [s \in Slots |-> <<>>]
  /\ n = [s \in Slots |-> 1]
  /\ stdin = <<>>
  /\ lines = <<>>
  /\ answered = <<>>

(***************************************************************************)
(* main: net.Listen on :8000 fails (the port is in use) and log.Fatalf     *)
(* ends the process, or it succeeds and Serve accepts streams.             *)
(***************************************************************************)
Listen ==
  /\ srv = "init"
  /\ srv' \in {"serving", "failed"}
  /\ UNCHANGED <<cl, inbox, asked, got, calls, pc, ph, pend, acc, n, stdin,
                 lines, answered>>

(***************************************************************************)
(* The client side, abstract: open a stream (gRPC starts Conversations,    *)
(* which sets n := 1), send a question, half-close, or cancel.             *)
(***************************************************************************)
\* Mutant: a counter that lives on from the previous stream of the slot.
ConnectKeepCount(s) == n[s]

\* Conversations, line 19: n := 1 at the start of every stream.
ConnectReset(s) == 1

Connect(s) ==
  /\ srv = "serving"
  /\ pc[s] = "idle"
  /\ cl[s] \in {"none", "done"}
  /\ calls[s] < MaxCalls
  /\ calls' = [calls EXCEPT ![s] = @ + 1]
  /\ cl' = [cl EXCEPT ![s] = "open"]
  /\ inbox' = [inbox EXCEPT ![s] = <<>>]
  /\ asked' = [asked EXCEPT ![s] = 0]
  /\ got' = [got EXCEPT ![s] = <<>>]
  /\ pc' = [pc EXCEPT ![s] = "recv"]
  /\ n' = [n EXCEPT ![s] = ConnectReset(s)]
  /\ UNCHANGED <<srv, ph, pend, acc, stdin, lines, answered>>

ClientSend(s) ==
  /\ cl[s] = "open"
  /\ asked[s] < MaxQ
  /\ asked' = [asked EXCEPT ![s] = @ + 1]
  /\ inbox' = [inbox EXCEPT ![s] = Append(@, asked[s] + 1)]
  /\ UNCHANGED <<srv, cl, got, calls, pc, ph, pend, acc, n, stdin, lines,
                 answered>>

ClientCloseSend(s) ==
  /\ cl[s] = "open"
  /\ cl' = [cl EXCEPT ![s] = "half"]
  /\ UNCHANGED <<srv, inbox, asked, got, calls, pc, ph, pend, acc, n, stdin,
                 lines, answered>>

ClientCancel(s) ==
  /\ cl[s] \in {"open", "half"}
  /\ cl' = [cl EXCEPT ![s] = "cancel"]
  /\ UNCHANGED <<srv, inbox, asked, got, calls, pc, ph, pend, acc, n, stdin,
                 lines, answered>>

\* The operator types one line; the terminal delivers it with its newline.
Type(sh) ==
  /\ Len(lines) < MaxLines
  /\ stdin' = stdin \o LineRunes(Len(lines) + 1, sh)
  /\ lines' = Append(lines, LineRunes(Len(lines) + 1, sh))
  /\ UNCHANGED <<srv, cl, inbox, asked, got, calls, pc, ph, pend, acc, n,
                 answered>>

(***************************************************************************)
(* Conversations, lines 21-27: srv.Recv().  The handler returns when it    *)
(* yields io.EOF (client half-closed, nothing queued) or an error (the     *)
(* stream was cancelled); the stream is then over for the client.  When a  *)
(* question is queued and the stream is cancelled, gRPC's receive path     *)
(* selects between the two, so either may happen.                          *)
(***************************************************************************)
HandlerReturns(s) ==
  /\ pc' = [pc EXCEPT ![s] = "idle"]
  /\ cl' = [cl EXCEPT ![s] = "done"]

RecvQuestion(s) ==
  /\ pc[s] = "recv"
  /\ inbox[s] # <<>>
  /\ inbox' = [inbox EXCEPT ![s] = Tail(@)]
  /\ pc' = [pc EXCEPT ![s] = "scan"]
  /\ ph' = [ph EXCEPT ![s] = "skip"]
  /\ pend' = [pend EXCEPT ![s] = NoRune]
  /\ acc' = [acc EXCEPT ![s] = <<>>]
  /\ UNCHANGED <<srv, cl, asked, got, calls, n, stdin, lines, answered>>

RecvEOF(s) ==
  /\ pc[s] = "recv"
  /\ inbox[s] = <<>>
  /\ cl[s] = "half"
  /\ HandlerReturns(s)
  /\ UNCHANGED <<srv, inbox, asked, got, calls, ph, pend, acc, n, stdin,
                 lines, answered>>

RecvError(s) ==
  /\ pc[s] = "recv"
  /\ cl[s] = "cancel"
  /\ HandlerReturns(s)
  /\ UNCHANGED <<srv, inbox, asked, got, calls, ph, pend, acc, n, stdin,
                 lines, answered>>

(***************************************************************************)
(* Conversations, line 31: fmt.Scanln(&ans), one rune per step.  A rune    *)
(* comes from the handler's own unread rune if it has one, else from       *)
(* stdin; with neither, the read blocks.  The phases follow fmt's doScan:  *)
(*   "skip"  SkipSpace: spaces are dropped; a newline is consumed and is   *)
(*           the error "unexpected newline", ans stays "";                 *)
(*   "tok"   token(notSpace): bytes are appended until a space or newline, *)
(*           which is unread; then ans is assigned the token;              *)
(*   "nl"    the nlIsEnd loop: spaces are dropped, a newline ends the      *)
(*           call, any other rune is consumed and is "expected newline".  *)
(* Scanln's error is ignored (line 31), so every end of the call goes on   *)
(* to Send with ans.                                                       *)
(***************************************************************************)
CanRead(s) == pend[s] # NoRune \/ stdin # <<>>

NextRune(s) == IF pend[s] # NoRune THEN pend[s] ELSE Head(stdin)

\* stdin after NextRune(s) has been taken.
StdinAfterRead(s) == IF pend[s] # NoRune THEN stdin ELSE Tail(stdin)

\* Scanln returns; ans is the token read so far (empty before "tok").
ScanDone(s) ==
  /\ pc' = [pc EXCEPT ![s] = "send"]
  /\ answered' = Append(answered, acc[s])

SkipSpace(s) ==
  LET r == NextRune(s) IN
  /\ pc[s] = "scan" /\ ph[s] = "skip" /\ CanRead(s)
  /\ stdin' = StdinAfterRead(s)
  /\ \/ /\ r.c = "nl"
        /\ pend' = [pend EXCEPT ![s] = NoRune]
        /\ ScanDone(s)
        /\ UNCHANGED ph
     \/ /\ r.c = "sp"
        /\ pend' = [pend EXCEPT ![s] = NoRune]
        /\ UNCHANGED <<pc, ph, answered>>
     \/ /\ r.c = "w"
        /\ pend' = [pend EXCEPT ![s] = r]
        /\ ph' = [ph EXCEPT ![s] = "tok"]
        /\ UNCHANGED <<pc, answered>>
  /\ UNCHANGED <<srv, cl, inbox, asked, got, calls, acc, n, lines>>

ReadToken(s) ==
  LET r == NextRune(s) IN
  /\ pc[s] = "scan" /\ ph[s] = "tok" /\ CanRead(s)
  /\ stdin' = StdinAfterRead(s)
  /\ \/ /\ r.c = "w"
        /\ pend' = [pend EXCEPT ![s] = NoRune]
        /\ acc' = [acc EXCEPT ![s] = Append(@, r)]
        /\ UNCHANGED ph
     \/ /\ r.c # "w"
        /\ pend' = [pend EXCEPT ![s] = r]
        /\ ph' = [ph EXCEPT ![s] = "nl"]
        /\ UNCHANGED acc
  /\ UNCHANGED <<srv, cl, inbox, asked, got, calls, pc, n, lines, answered>>

\* Mutant: the newline that ends the reply is left for the next Scanln.
CheckNewlineKeepsNL(s) ==
  LET r == NextRune(s) IN
  /\ pc[s] = "scan" /\ ph[s] = "nl" /\ CanRead(s)
  /\ \/ /\ r.c = "nl"
        /\ stdin' = IF pend[s] # NoRune THEN <<r>> \o stdin ELSE stdin
        /\ pend' = [pend EXCEPT ![s] = NoRune]
        /\ ScanDone(s)
     \/ /\ r.c = "sp"
        /\ stdin' = StdinAfterRead(s)
        /\ pend' = [pend EXCEPT ![s] = NoRune]
        /\ UNCHANGED <<pc, answered>>
     \/ /\ r.c = "w"
        /\ stdin' = StdinAfterRead(s)
        /\ pend' = [pend EXCEPT ![s] = NoRune]
        /\ ScanDone(s)
  /\ UNCHANGED <<srv, cl, inbox, asked, got, calls, ph, acc, n, lines>>

CheckNewline(s) ==
  LET r == NextRune(s) IN
  /\ pc[s] = "scan" /\ ph[s] = "nl" /\ CanRead(s)
  /\ stdin' = StdinAfterRead(s)
  /\ pend' = [pend EXCEPT ![s] = NoRune]
  /\ \/ /\ r.c \in {"nl", "w"}
        /\ ScanDone(s)
     \/ /\ r.c = "sp"
        /\ UNCHANGED <<pc, answered>>
  /\ UNCHANGED <<srv, cl, inbox, asked, got, calls, ph, acc, n, lines>>

(***************************************************************************)
(* Conversations, lines 32-38: Send the numbered answer, return the error  *)
(* if the stream is gone, else n++ and back to Recv.                       *)
(***************************************************************************)
Send(s) ==
  /\ pc[s] = "send"
  /\ \/ /\ cl[s] = "cancel"
        /\ HandlerReturns(s)
        /\ UNCHANGED <<got, n>>
     \/ /\ cl[s] # "cancel"
        /\ got' = [got EXCEPT ![s] = Append(@, [n |-> n[s], ans |-> acc[s]])]
        /\ n' = [n EXCEPT ![s] = @ + 1]
        /\ pc' = [pc EXCEPT ![s] = "recv"]
        /\ UNCHANGED cl
  /\ UNCHANGED <<srv, inbox, asked, calls, ph, pend, acc, stdin, lines,
                 answered>>

(***************************************************************************)
(* main, lines 63-66: Serve returns an error (the listener fails) and      *)
(* log.Fatalf exits the process: every handler dies where it is, and every *)
(* open stream ends for its client.                                        *)
(***************************************************************************)
ServeFails ==
  /\ srv = "serving"
  /\ srv' = "failed"
  /\ pc' = [s \in Slots |-> "idle"]
  /\ cl' = [s \in Slots |-> IF pc[s] = "idle" THEN cl[s] ELSE "done"]
  /\ UNCHANGED <<inbox, asked, got, calls, ph, pend, acc, n, stdin, lines,
                 answered>>

\* The steps of the Conversations handler of slot s.
Handler(s) ==
  \/ RecvQuestion(s) \/ RecvEOF(s) \/ RecvError(s)
  \/ SkipSpace(s) \/ ReadToken(s) \/ CheckNewline(s) \/ Send(s)

Next ==
  \/ Listen
  \/ ServeFails
  \/ \E sh \in Shapes : Type(sh)
  \/ \E s \in Slots :
        \/ Connect(s) \/ ClientSend(s) \/ ClientCloseSend(s) \/ ClientCancel(s)
        \/ Handler(s)

Spec == Init /\ [][Next]_vars

(***************************************************************************)
(* Each handler is a goroutine the Go scheduler runs whenever it is not    *)
(* blocked: weak fairness on its steps.  The clients, the operator and the *)
(* listener's failure get none.                                            *)
(***************************************************************************)
FairSpec == Spec /\ \A s \in Slots : WF_vars(Handler(s))

-----------------------------------------------------------------------------
TypeOK ==
  /\ srv \in {"init", "serving", "failed"}
  /\ cl \in [Slots -> {"none", "open", "half", "cancel", "done"}]
  /\ pc \in [Slots -> {"idle", "recv", "scan", "send"}]
  /\ ph \in [Slots -> {"skip", "tok", "nl"}]
  /\ pend \in [Slots -> Rune \cup {NoRune}]
  /\ \A s \in Slots : acc[s] \in Seq(Rune) /\ got[s] \in Seq([n : Nat, ans : Seq(Rune)])
  /\ stdin \in Seq(Rune)

(***************************************************************************)
(* Every value Scanln leaves in ans (line 31) is the text of a typed line,  *)
(* and the k-th such value is the k-th line the operator typed: no reply   *)
(* is cut short, made of parts of two lines, or left behind for the next   *)
(* question; and no reply is read that the operator has not typed.         *)
(***************************************************************************)
RepliesAreTypedLines ==
  /\ Len(answered) <= Len(lines)
  /\ \A k \in 1..Len(answered) : answered[k] = WordRunes(lines[k])

(***************************************************************************)
(* Each stream, seen by its client, behaves as Conversation specifies:     *)
(* questions are taken in order, each answered once, numbered 1, 2, ... by *)
(* n (lines 19, 33, 38) before the next Recv, and the stream ends only on  *)
(* EOF, on cancellation or with the process.  Reading the reply is a       *)
(* stuttering step of the abstract stream.                                 *)
(***************************************************************************)
Conv(s) == INSTANCE Conversation WITH
  cl <- cl[s], inbox <- inbox[s], asked <- asked[s],
  got <- [k \in DOMAIN got[s] |-> got[s][k].n],
  phase <- IF pc[s] \in {"scan", "send"} THEN "busy" ELSE pc[s],
  alive <- srv # "failed"

\* \A s \in Slots : Conv(s)!Spec, with the quantifier moved inside [] so
\* that TLC can check it.
ConversationsRefined ==
  /\ \A s \in Slots : Conv(s)!Init
  /\ [][\A s \in Slots : [Conv(s)!Next]_(Conv(s)!vars)]_vars

(***************************************************************************)
(* A handler whose client has cancelled the stream eventually returns, as  *)
(* gRPC expects of a handler once the stream's context is done, so its    *)
(* goroutine and the operator's next reply are not held by a dead stream. *)
(***************************************************************************)
CancelledStreamEnds ==
  \A s \in Slots : cl[s] = "cancel" ~> pc[s] = "idle"

=============================================================================
