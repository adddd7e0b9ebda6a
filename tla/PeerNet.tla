------------------------------ MODULE PeerNet ------------------------------
(***************************************************************************)
(* The demo programs of the repository that serve or call the Endorser     *)
(* service on localhost:3600, and the chat demo on 127.0.0.1:9988:         *)
(*   "main"        src/main.go: Listen :3600, Serve an Endorser whose      *)
(*                 ProcessProposal is unimplemented, then go RunClient().  *)
(*   "peer_server" src/peer_server/main.go: peer.NewGRPCServer(":3600")    *)
(*                 with PeerServer (src/peer/peer.go), then s.Start().     *)
(*   "peer_test"   src/peer/peer_test.go: Test_server_ProcessProposal      *)
(*                 (Listen :3600, Serve an unimplemented Endorser), then   *)
(*                 Test_client_ProcessProposal, run in order by go test.   *)
(*   "peer_client" src/peer_client/main.go: one ProcessProposal, 10 s.     *)
(*   Chat          "src/test/chat _test/peer/main.go", started once per    *)
(*                 terminal: "y" calls ProcessRequest, else serves it.     *)
(* A program's pc walks through its main function; a server's Serve        *)
(* blocks until it returns an error or the process is killed.              *)
(***************************************************************************)
EXTENDS Naturals, FiniteSets

CONSTANTS
  Chats      \* instances of the chat demo started in terminals

VARIABLES
  pc,        \* per program: where its main (or test sequence) is
  owner,     \* per port: the program whose listener holds it, or "none"
  outcome,   \* per program: the result of its one RPC
  status     \* per program: how it exited: "none" yet, "zero" (returned
             \* from main), "fatal" (log.Fatalf, grpclog.Fatal*), "killed"

vars == <<pc, owner, outcome, status>>

Endorsers == {"main", "peer_server", "peer_test"}
Programs == Endorsers \cup {"peer_client"} \cup Chats

Ports == {3600, 9988}

\* The port a program listens on or dials (the flags' defaults, line 21-22
\* of main.go, peer_test.go:24-25, peer_client/main.go:15, chat Address).
PortOf(p) == IF p \in Chats THEN 9988 ELSE 3600

\* Programs whose registered service implements the method a client of
\* port PortOf(p) calls: PeerServer.ProcessProposal (peer.go:33-48) and
\* helloService.ProcessRequest (chat main.go:24-30).  The servers of
\* main.go:16-18 and peer_test.go:19-21 only embed
\* UnimplementedEndorserServer, which answers codes.Unimplemented.
Implements == {"peer_server"} \cup Chats

\* Clients that set context.WithTimeout(…, 10*time.Second); the chat
\* client calls with context.Background().
HasDeadline == {"main", "peer_test", "peer_client"}

\* Programs that check the error of Serve and log.Fatalf on it (main.go:43-45,
\* peer_test.go:37-39); peer_server drops the result of s.Start() (line 63)
\* and the chat server that of s.Serve (line 67).
ChecksServeError == {"main", "peer_test"}

Init ==
  /\ pc = [p \in Programs |-> "start"]
  /\ owner = [o \in Ports |-> "none"]
  /\ outcome = [p \in Programs |-> "none"]
  /\ status = [p \in Programs |-> "none"]

\* A program is started from a terminal (or by go test).
Launch(p) ==
  /\ p \notin Chats
  /\ pc[p] = "start"
  /\ pc' = [pc EXCEPT ![p] = IF p = "peer_client" THEN "call" ELSE "listen"]
  /\ UNCHANGED <<owner, outcome, status>>

\* The chat demo reads y/n with fmt.Scan (chat main.go:33-36): "y" or "Y"
\* calls, anything else serves.
ChatChoose(p) ==
  /\ p \in Chats
  /\ pc[p] = "start"
  /\ \E x \in {"call", "listen"} : pc' = [pc EXCEPT ![p] = x]
  /\ UNCHANGED <<owner, outcome, status>>

(***************************************************************************)
(* net.Listen("tcp", ...): it fails when another process holds the port,   *)
(* and every program then ends in log.Fatalf (main.go:36-39, peer.go:55-58 *)
(* via peer_server/main.go:59-62, peer_test.go:30-33, chat main.go:57-60). *)
(* Otherwise the program registers its service and blocks in Serve.        *)
(***************************************************************************)
Listen(p) ==
  /\ pc[p] = "listen"
  /\ \/ /\ owner[PortOf(p)] = "none"
        /\ owner' = [owner EXCEPT ![PortOf(p)] = p]
        /\ pc' = [pc EXCEPT ![p] = "serving"]
        /\ UNCHANGED status
     \/ /\ owner[PortOf(p)] # "none"
        /\ pc' = [pc EXCEPT ![p] = "exited"]
        /\ status' = [status EXCEPT ![p] = "fatal"]
        /\ UNCHANGED owner
  /\ UNCHANGED outcome

\* The process is killed while it serves; the OS frees its port.
Kill(p) ==
  /\ pc[p] = "serving"
  /\ pc' = [pc EXCEPT ![p] = "exited"]
  /\ owner' = [owner EXCEPT ![PortOf(p)] = "none"]
  /\ status' = [status EXCEPT ![p] = "killed"]
  /\ UNCHANGED outcome

(***************************************************************************)
(* Serve returns only with an error (the listener fails); Stop, which     *)
(* would make it return nil, is called nowhere.  main.go:43-45 and        *)
(* peer_test.go:37-39 then log.Fatalf, so `go RunClient()` (main.go:47)    *)
(* and Test_client_ProcessProposal are never reached; peer_server ignores *)
(* the error of s.Start() (line 63) and the chat server that of s.Serve  *)
(* (line 67), and both return from main.                                   *)
(***************************************************************************)
ServeReturns(p) ==
  /\ pc[p] = "serving"
  /\ pc' = [pc EXCEPT ![p] = "exited"]
  /\ owner' = [owner EXCEPT ![PortOf(p)] = "none"]
  /\ status' = [status EXCEPT ![p] =
                   IF p \in ChecksServeError THEN "fatal" ELSE "zero"]
  /\ UNCHANGED outcome

(***************************************************************************)
(* A client: grpc.Dial does not block, so it cannot fail for a missing     *)
(* server; the RPC is sent (Call) and answered by whatever process holds   *)
(* the port when it arrives (Handle): no process gives codes.Unavailable   *)
(* at once (the call is fail-fast), an unimplemented Endorser gives        *)
(* codes.Unimplemented.  Any error ends the client in log.Fatalf or        *)
(* grpclog.Fatalln, a reply in a log line; either way the program exits.   *)
(* A client with a deadline may instead get DeadlineExceeded.              *)
(***************************************************************************)
Call(p) ==
  /\ pc[p] = "call"
  /\ pc' = [pc EXCEPT ![p] = "waiting"]
  /\ UNCHANGED <<owner, outcome, status>>

\* A client logs the reply and returns from main, or ends in log.Fatalf
\* (grpclog.Fatalln for the chat client) on any error (peer_client/main.go
\* :34-39, chat main.go:50-55).
ClientExit(o) == IF o = "ok" THEN "zero" ELSE "fatal"

\* UnimplementedEndorserServer.ProcessProposal: codes.Unimplemented.
UnimplementedReply == "unimplemented"

\* What the server o answers: the generated handler dispatches to the
\* registered service (no interceptor is set), whose own ProcessProposal
\* answers, or the one it embeds from UnimplementedEndorserServer.
ServerReply(o) == IF o \in Implements THEN "ok" ELSE UnimplementedReply

\* The result of an RPC from p when o holds its port: the client stub's
\* Invoke returns the server's answer, or Unavailable when no one listens.
Reply(p, o) == IF o = "none" THEN "unavailable" ELSE ServerReply(o)

Handle(p) ==
  /\ pc[p] = "waiting"
  /\ outcome' = [outcome EXCEPT ![p] = Reply(p, owner[PortOf(p)])]
  /\ pc' = [pc EXCEPT ![p] = "exited"]
  /\ status' = [status EXCEPT ![p] = ClientExit(Reply(p, owner[PortOf(p)]))]
  /\ UNCHANGED owner

Deadline(p) ==
  /\ p \in HasDeadline
  /\ pc[p] = "waiting"
  /\ outcome' = [outcome EXCEPT ![p] = "deadline"]
  /\ pc' = [pc EXCEPT ![p] = "exited"]
  /\ status' = [status EXCEPT ![p] = ClientExit("deadline")]
  /\ UNCHANGED owner

Next ==
  \E p \in Programs :
    \/ Launch(p) \/ ChatChoose(p) \/ Listen(p) \/ Kill(p) \/ ServeReturns(p)
    \/ Call(p) \/ Handle(p) \/ Deadline(p)

(***************************************************************************)
(* The gRPC runtime delivers or fails every RPC sent, and a deadline       *)
(* timer fires: weak fairness on Handle and Deadline.  No client passes    *)
(* grpc.WaitForReady, so a call with no server fails at once rather than   *)
(* waiting.  Starting, killing and the chat answer are the operator's,     *)
(* and get no fairness.                                                    *)
(***************************************************************************)
Fairness == \A p \in Programs : WF_vars(Handle(p)) /\ WF_vars(Deadline(p))

Spec == Init /\ [][Next]_vars /\ Fairness

-----------------------------------------------------------------------------
TypeOK ==
  /\ pc \in [Programs -> {"start", "listen", "serving", "call", "waiting",
                          "exited"}]
  /\ owner \in [Ports -> Programs \cup {"none"}]
  /\ outcome \in [Programs -> {"none", "ok", "unavailable", "unimplemented",
                               "deadline"}]
  /\ status \in [Programs -> {"none", "zero", "fatal", "killed"}]

(***************************************************************************)
(* main.go and peer_test.go each serve first and then run a client against *)
(* their own server: once such a program serves, its client eventually     *)
(* sends its RPC.                                                          *)
(***************************************************************************)
DemoClientsRun ==
  \A p \in {"main", "peer_test"} : pc[p] = "serving" ~> outcome[p] # "none"

(***************************************************************************)
(* A program exits with status 0 only when it did what it was started for: *)
(* its RPC got a reply.  A server exits only because Serve failed (Stop is  *)
(* called nowhere), so it must report that, as main.go:43-45 and the       *)
(* commented-out serve loop of peer_server/main.go:53-55 do.               *)
(***************************************************************************)
ExitZeroMeansSuccess ==
  \A p \in Programs : status[p] = "zero" => outcome[p] = "ok"

=============================================================================
