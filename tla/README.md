# TLA+ models of zFusion

This directory holds TLA+ models of the Go code under `src/`, the TLC
configurations that check them, and `PROJECT.json`. `PROJECT.json` records the
components, the runs, the mutants, the mapping from each definition to source
lines, the findings and the hazards.

## 1. Inventory

### Components

| Component | Source | State | Operations | Interacts with |
|---|---|---|---|---|
| DID parser | `src/did/did.go` 11-52 | none. Each call returns a fresh `*DID` | `Parse`, `DID.String`, `DID.Marshal` | Go `regexp`, `strings.SplitN`, `fmt.Sprintf`, `encoding/json` |
| DID URL parser | `src/did/did.go` 54-108 | none. Returns a fresh `*DIDURL` | `ParseDIDURL` | `Parse`, `strings.IndexAny`, `net/url.Parse`, `URL.Query` |
| Spec'd DID scanner | only in `src/did/did_test.go` and `spec.md` | cursor, current state, first error | `Parse` with params, path, query and fragment | its character classifiers |
| Endorser gRPC server | `src/peer/peer.go` | `GRPCServer{address, listener, server, lock, ...}` | `NewGRPCServer`, `NewGRPCServerFromListener`, `Start` (blocking `Serve`), `Stop`, `PeerServer.ProcessProposal` | gRPC runtime, TCP port |
| Peer programs | `src/peer_server/main.go`, `src/peer_client/main.go`, `src/main.go`, `src/peer/peer_test.go` | a bound port; a client connection and a 10 s deadline | listen, serve, dial, one `ProcessProposal` call, fatal exits | each other, through port 3600 |
| Peer configuration | `src/peer/config.go` | `Config.PeerAddr` | `Config.load`, `getLocalAddress`, `getLocalIP` | viper settings, network interfaces |
| Stream chat server | `src/grpc_CS/server/server.go` | per stream: counter `n`; shared: the process's stdin | `Conversations` loop: `Recv`, prompt, `fmt.Scanln`, `Send` | stream clients, the operator at the terminal |
| Chat demo | `src/test/chat _test/peer/main.go` | a mode chosen at start (`y` = client, else server) | `ProcessRequest`, a dial and one call, or listen and serve | itself, through 127.0.0.1:9988 |
| Generated gRPC code | `src/peer/peer_grpc.pb.go`, `src/peer/request.pb.go` | none | message getters, client stub, service registration | gRPC runtime |
| Logging shims | `src/common/flogging`, `src/common/logging` | none | type alias and `MustGetLogger` | Fabric logging |

### Hard behaviour

* **DID parsing.** The regex of `Parse` (did.go:29) decides which strings are
  DIDs. Its character classes, its repetition boundaries and its last
  `[^:]` position set the accepted language. `SplitN(did, ":", 3)` then cuts
  method from id. The round-trip properties depend on that limit.
* **DID URL parsing.** `ParseDIDURL` splits the input at the first `?`, `/` or
  `#`. It prepends `/` when there is no path and hands the rest to
  `net/url.Parse`. That function applies its own rules: it cuts at the first
  `#` and `?`, rejects control bytes, reads `//x` as an authority, unescapes
  the path and fragment, and drops query pairs that do not parse. The
  interaction between the two splitters is where inputs get lost or
  reinterpreted.
* **Concurrency in the programs.** gRPC runs each RPC in its own goroutine.
  `Serve` blocks until the server stops. Several programs of the repository
  bind the same port, 3600. The stream chat server reads the operator's
  answers with `fmt.Scanln` on one stdin, which all of its concurrent stream
  handlers share. If a line holds more than one word, the part Scanln leaves
  unread becomes the next answer.
* **Failure paths.** A listen can fail, a dial or an RPC can fail or hit its
  deadline, and `log.Fatalf` ends the process. No interface can be detected
  when there is no non-loopback IPv4 interface.

### What makes each component correct

* DID parser: it accepts exactly the DID grammar. `String()` returns any
  accepted input unchanged.
* DID URL parser: it agrees with `Parse` on the DID part. Path, query and
  fragment come from their own parts of the input, and nothing is silently
  dropped. The path's first segment is non-empty. Escapes are kept as
  written, which is what the tests expect.
* Peer programs: a client's call ends, either with a response or with an
  error by its deadline. A demo client that is meant to run does run. A
  response comes from a handler that implements the RPC.
* Stream chat server: each answer goes to the stream whose question it
  answers, and it was typed after that question was shown. A stream whose
  client closed its side ends.
* Peer configuration: an explicit, specified address is returned as it is.
  Auto-detection is used only for an unspecified host or when the flag is
  set.

## 2. Plan and status

Modules, in the order they are built:

1. `DIDChars`, `GoStrings`, `Regex`, `DID`, `MC_DID`. These model
   `did.go` at the byte level. **Done.**
2. `DIDGrammar`, `DIDConformance`. These state the DID grammar from the
   spec and the tests, and compare `did.go` with it. **Done: the DID
   language, the path (its first segment, characters and value) and the
   fragment (characters and value).**
3. `StreamChat`, `MC_StreamChat`: `Conversations`, its clients, the
   shared stdin and `Serve`'s failure. `Conversation` is the abstract
   stream that `StreamChat` refines. **Done.**
4. `PeerNet`, `MC_PeerNet`: the programs that bind ports 3600 and 9988,
   and their clients. **Done.**
5. `PeerConfig`, `MC_PeerConfig`: `Config.load`, `getLocalAddress` and
   `getLocalIP`. **Done.**
6. Not done: a `DIDScanner` module for the scanner state machine of spec
   section 4.2. That scanner is not in `src/`; only the spec and
   `did_test.go` describe it. Its accepted language is already stated as
   `DIDGrammar` and compared with `did.go` by `did_accepts_grammar`. A
   state machine written from the spec alone would check the spec against
   itself, not the code. See section 7.

## 3. The DID modules

### Representation

A Go string is a sequence of bytes. Here it is a sequence of naturals, and
every byte class is a set of naturals (`DIDChars`). The models are written
from the code:

* `DIDRegex` is the expression that `fmt.Sprintf` builds at did.go:29, as a
  term of `Regex`: `^did:[a-z]+:(:+|[:a-zA-Z0-9]+)*[%:a-zA-Z0-9-_\.]+[^:]$`.
  The group's class is built from `methodChar`, the last class from
  `idChar`. That includes `%%` becoming `%`, and the `-` after `0-9` being a
  literal.
* `Match` answers what `regexp.MatchString` answers for an anchored
  expression. It computes the set of end positions reachable from position
  0. Go's RE2 engine works the same way; it never backtracks.
* `Parse` matches and then splits with `SplitN(did, ":", 3)`. The compile
  error branch is unreachable, because the expression is a constant.
* `String` concatenates `Scheme ":" Method ":" MethodSpecificID`.
* `ParseDIDURL` does the following, as the code does:
  1. splits at `IndexAny(?/#)`;
  2. parses the DID part;
  3. returns early when there is no suffix;
  4. prepends `/` when the suffix is not a path;
  5. calls `URLParse`, then `ParseQuery`.
* `URLParse` is the part of `net/url.Parse` reachable from a string that
  begins with `/`. It cuts at the first `#` and rejects control bytes. It
  cuts at the first `?`. When the path starts `//` but not `///`, it takes an
  authority (a port of digits, host bytes, userinfo bytes, escapes). It
  unescapes path and fragment. The scheme, opaque and IPv6 branches cannot be
  reached from `ParseDIDURL` with these inputs.

`DID` also has a client state machine. `input` is fixed in `Init`, one
behaviour per input. The steps are `CallParse` and `CallParseDIDURL`. The
properties relate a result to its input (`arg`). There is no concurrency
here. The package is pure, and the model says so.

`DIDConformance` states what spec.md and `did_test.go` require, over the
same client: the DID grammar (`GrammarDID`), and the path and fragment kept
as written, with the character classes of spec section 4.1
(`GrammarPathChars`, `GrammarFragmentChars` in `DIDChars`).

### Runs

| Run | Inputs | Checks | Result |
|---|---|---|---|
| `did_all` (`MC_DID_All.cfg`) | `AllInputs`: `did:` + every string of ≤ 6 bytes over {a, B, 1, `:`, `%`, `&`}, plus `dix:a:11` and the empty string (`ParseInputs`, 56k), and `did:a:12` + every string of ≤ 4 bytes over {`/ ? # % a 1 @ : ^ & = +`} (`URLInputs`, 22k) | `TypeOK`, `ParseAcceptsRegexLanguage`, `ParseRoundTrip` | pass, 235,830 states, about 60 s |
| `did_accepts_grammar` | `ParseInputs` | `ParseAcceptsExactlyGrammarDIDs` | violation: a method of digits (`did:1:1` or `did:1:B`, whichever worker gets there first) is rejected |
| `did_url_empty_segment` | `URLInputs` | `EmptyFirstPathSegmentRejected` | violation: `did:a:12//` is accepted |
| `did_path_raw` | `URLInputs` | `PathKeptAsWritten` | violation: `did:a:12/` is accepted, with Path `/` |
| `did_fragment_raw` | `URLInputs` | `FragmentKeptAsWritten` | violation: `did:a:12##` is accepted, with Fragment `#` |

* `ParseAcceptsRegexLanguage`: `Parse` accepts exactly `RegexLanguage`, the
  language of the regex written out by hand.
* `ParseRoundTrip`: `String()` of an accepted DID is the input, byte for
  byte. `SplitN`'s limit of 3 keeps every later `:` in the id.
* `ParseAcceptsExactlyGrammarDIDs`: `Parse` accepts exactly the grammar of
  the spec and tests.
* `EmptyFirstPathSegmentRejected`: a path starting `//` is an error.
* `PathKeptAsWritten`: an accepted path is non-empty, holds only path
  characters and well-formed escapes, and `Path` is that text without its
  leading `/` (`a/%20a`, did_test.go:439-443).
* `FragmentKeptAsWritten`: an accepted fragment holds only fragment
  characters and well-formed escapes, and `Fragment` is that text
  (`aaaaaa%20a`, did_test.go:541-545).

Why these bounds are enough:

* Six bytes after `did:` cover the following inputs:
  * one-byte and two-byte ids;
  * methods in either case and with digits;
  * empty id segments;
  * `%` and `&` at every position;
  * three colons after the scheme, which is what tells `SplitN(…, 3)`
    apart from `Split`.
* Four bytes after a valid DID cover the following:
  * each separator alone and in every order;
  * `%` followed by hex, by non-hex and by nothing;
  * `//x` authorities, with `@` and `:` in them;
  * query pairs with `&`, `=` and `+`.
* `%` followed by two hex digits needs 3 bytes.
* An authority with a host byte needs 3 bytes.

### Findings

These are also in `PROJECT.json`.

* `did.go:29` has two problems:
  * It rejects DIDs that the tests require: `did:a:1` and a method with
    digits. The regex needs at least two bytes after the second `:`, and
    its method is `[a-z]+`. TLC's trace is a method of digits.
  * It accepts malformed DIDs. `%` is not checked, empty idstrings are
    allowed, and the last byte may be anything other than `:`.
  * Spec section 4.1's table would admit `&` and the other sub-delims in
    an idstring, but did_test.go:250-253 rejects `did:a:1&&111`.
    `GrammarIdChars` follows the tests.
* `did.go:92`: a path starting `//` becomes a URL authority. The text is
  silently dropped (`did:a:12//x/y` gives Path `/y`), or the input is
  rejected, depending on the bytes of `x`. did_test.go:465-468 requires an
  error.
* `did.go:104`: `Path` is url.Parse's `Path`, unescaped and with its
  leading `/`, and any byte url.Parse takes is accepted. TLC's trace is
  `did:a:12/`, accepted with Path `/`, where did_test.go:460-463 requires an
  error. The tests and spec section 8 require `a/%20a` for
  `did:a:123:456/a/%20a`, which the code gives as `/a/ a`.
* `did.go:100`: `Fragment` is url.Parse's `Fragment`, unescaped, and any
  byte but a control byte is accepted. TLC's trace is `did:a:12##`. The
  tests require `aaaaaa%20a` kept as written and `^` rejected.
* `did_test.go` tests a different implementation. It uses the fields `ID`,
  `IDStrings`, `Params`, `Path`, `Query` and `Fragment`, and the functions
  `parser` and `isNotValid*Char`. None of these exist in `did.go`, so the
  tests do not compile against it. `DIDGrammar` states what those tests
  require.

## 4. `StreamChat`: the stream chat server

### What it models

`StreamChat` models `src/grpc_CS/server/server.go`.

The state is kept per stream slot (`Slots`); each slot carries one
stream at a time:

* the client side `cl`: open, half-closed, cancelled or done;
* the questions queued for `Recv` (`inbox`) and the answers sent (`got`);
* the handler's position `pc` and its counter `n`;
* the Scanln state: phase `ph`, the unread rune `pend` and the token
  read so far `acc`.

Two variables are shared by all slots: `stdin`, the runes typed and not
yet read, and `srv`, the state of `main`. The history variables `lines`
and `answered` record what the operator typed and what each Scanln left
in `ans`.

| Code | Action |
|---|---|
| `main`, lines 50-63 | `Listen`: serving, or `log.Fatalf` |
| `main`, lines 63-66 | `ServeFails`: `Serve` returns an error, `log.Fatalf` ends every handler |
| a stream opens; line 19 sets `n := 1` | `Connect` |
| `Recv`, lines 21-27 | `RecvQuestion`, `RecvEOF`, `RecvError` |
| `fmt.Scanln(&ans)`, line 31 | `SkipSpace`, `ReadToken`, `CheckNewline` (one rune per step) |
| `Send` and `n++`, lines 32-38 | `Send` |
| the client, which is not in the repository | `ClientSend`, `ClientCloseSend`, `ClientCancel` |
| the operator | `Type` appends one whole line; the terminal delivers whole lines |

Scanln is modelled from Go's `fmt` package, not the identity. `os.Stdin`
has no `ReadRune`, so Scanln reads one byte per call and keeps one unread
rune of its own. Its three phases are:

* `SkipSpace`: a newline here is the error "unexpected newline", and
  `ans` stays "".
* `token`: it reads up to a space or newline, and the `ans` assignment
  follows.
* the newline check: spaces are dropped, and any other byte is consumed
  as the error "expected newline".

The error is ignored at line 31.

When a stream is cancelled with questions still queued, gRPC's receive
path selects between the data and the cancellation. So `RecvQuestion`
and `RecvError` are both enabled. `Send` on a cancelled stream fails, and
the handler returns.

`Handler(s)` groups the seven steps of slot `s`'s goroutine. `FairSpec`
adds weak fairness on each: the Go scheduler runs a goroutine that is not
blocked. The clients, the operator and the listener's failure get none.

### The abstract stream: `Conversation`

`Conversation` says what one stream promises its client, with the reply
text left out. Its state is the client side `cl`, the queued questions,
the count asked, the numbers of the answers sent (`got`), the server's
`phase` (idle, recv, busy) and whether the process is `alive`. Its
actions are `Open`, `Ask`, `CloseSend`, `Cancel`, `Take`, `Answer` (the
next number, only on a stream not cancelled), `End` (EOF after a
half-close with nothing queued, or cancellation) and `Crash`.

`StreamChat` defines `Conv(s) == INSTANCE Conversation WITH ...`, one
instance per slot. The refinement mapping:

* `cl`, `inbox` and `asked` are the slot's own;
* `got` keeps only the numbers `n` of the answers sent;
* `phase` is `busy` while the handler is in Scanln or Send;
* `alive` is `srv # "failed"`.

The Scanln steps and `Type` are stuttering steps of every instance.
`ConversationsRefined` is `\A s \in Slots : Conv(s)!Spec`, written with
the quantifier inside `[]` so that TLC can check it.

### Properties and runs

| Run | Bounds | Checks | Result |
|---|---|---|---|
| `stream_one` (`MC_StreamChat_OneStream.cfg`) | 1 slot, 2 streams in turn, 2 questions per stream, 3 lines of one word (1 or 2 bytes, empty, spaces around) | `RepliesAreTypedLines`, `ConversationsRefined` | pass, 27,750 states |
| `stream_replies` (`MC_StreamChat_Replies.cfg`) | 2 slots, one-word and multi-word lines | `RepliesAreTypedLines` | violation |
| `stream_cancel` (`MC_StreamChat_CancelledStreamEnds.cfg`, `FairSpec`) | 1 slot, 1 stream, 1 question, 1 line | `CancelledStreamEnds` | violation |

* `RepliesAreTypedLines`: the k-th value Scanln leaves in `ans` is the
  text of the k-th typed line, and no reply is read that was not typed.
  * It holds for one stream with one-word lines.
  * It fails in the shortest counterexample. Two handlers are both in
    Scanln. The first reads the word and the second the newline, so the
    second stream is sent the empty string, and the first, still in
    Scanln, reads on into the operator's next line.
  * A multi-word line fails it too: "a bc" answers "a", and then "c"
    answers the next question.
* `ConversationsRefined`: each slot implements `Conversation`. Its
  questions are taken in order and each is answered once, numbered 1, 2,
  … from the start of its stream, before the next `Recv`. A stream ends
  only on EOF, on cancellation or with the process. It holds through
  reconnects, cancels and `Serve`'s failure. The mutant that keeps `n`
  across streams breaks it. `Conversation`'s `Take` has no cancel guard,
  because gRPC's `Recv` may still return a question queued before the
  cancel (hazard at server.go:21).
* `CancelledStreamEnds`: a handler whose client cancelled eventually
  returns. It fails. The client cancels while its question is queued or
  being answered; the handler is blocked in Scanln, which never looks at
  the stream's context. It stays blocked while the operator types
  nothing. When a line comes, the handler consumes it and its `Send`
  fails, so that reply is lost.

Two streams per slot make the reset of `n` matter. Two questions make the
numbering and the queued-question-after-cancel case happen. Lines of 2
bytes and of 3 runes exercise every Scanln phase.

Deadlock checking is off. The server really does wait forever on stdin or
on a client once the bounds are used up, and after `log.Fatalf` nothing
runs.

## 5. `PeerNet`: the peer demo programs

### What it models

`PeerNet` has one `pc` per program:

* `main` (`src/main.go`);
* `peer_server`, which uses `peer.NewGRPCServer` and `Start`;
* `peer_test` (`Test_server_ProcessProposal`, then
  `Test_client_ProcessProposal`);
* `peer_client`;
* the instances of the chat demo (`Chats`).

`owner` records the holder of each port. `outcome` records the result of
each program's RPC. `status` records how
each program exited: returning from `main` (status 0), `log.Fatalf` or
`grpclog.Fatal*` (status 1), or killed.

The actions follow each `main`:

1. `Launch`, or `ChatChoose` for the chat demo's y/n.
2. `Listen`. It binds the port, or fails and ends in `log.Fatalf`.
3. `Kill`, or `ServeReturns`. `Serve` returns only with an error; `Stop`
   is called nowhere. So `main.go` and `peer_test.go` reach `log.Fatalf`,
   never their client.
4. `Call`. `grpc.Dial` does not block.
5. `Handle`, which replies with the result of the current port holder
   (`Reply`, the client stub's `Invoke` in `peer_grpc.pb.go`, and
   `ServerReply`, the generated handler's dispatch):
   * none holds the port: `Unavailable`, at once (fail-fast);
   * an unimplemented Endorser: `Unimplemented`, from the embedded
     `UnimplementedEndorserServer`;
   * `PeerServer` or `helloService`: a reply.
6. `Deadline`, only for clients with the 10 s deadline.

The exit status follows the code at each end: a failed `Listen` and any
client error end in a fatal log call, and a client that gets a reply
returns (`ClientExit`). When `Serve` fails, `main.go` and `peer_test.go`
log.Fatalf (`ChecksServeError`), while `peer_server` and the chat server
drop the error and return from `main`.

Fairness: weak fairness on `Handle` and `Deadline`. The gRPC runtime
answers or fails every RPC it sent, and a deadline timer fires. No client
passes `grpc.WaitForReady`, so a call with no server fails at once; the
model takes that as given, so it cannot show a call hanging. Starting
and killing programs, and the chat answer, belong to the operator and
have no fairness.

### Runs

| Run | Checks | Result |
|---|---|---|
| `peer_demo_clients` (`MC_PeerNet_DemoClientsRun.cfg`) | `DemoClientsRun` | violation |
| `peer_exit_status` (`MC_PeerNet_ExitZeroMeansSuccess.cfg`) | `ExitZeroMeansSuccess` | violation |

* `DemoClientsRun`: the client code after `Serve` in `main.go` and in
  `peer_test.go` never runs.
* `ExitZeroMeansSuccess`: a program exits with status 0 only when its RPC
  got a reply. A server exits only when `Serve` fails, because `Stop` is
  called nowhere. It fails: a chat server or `peer_server` whose `Serve`
  returns an error exits with status 0. `peer_server` also logs nothing.
  `main.go`, `peer_test.go` and `peer_server`'s own commented-out serve
  loop (lines 53-55) log.Fatalf on that error.

Both runs use two chat instances. Deadlock checking is off, because every
program can exit. There is no passing `PeerNet` run. The properties one
could check that hold (a reply comes from an implemented server, a call
ends) follow from `ServerReply` and from the fairness of `Handle`, so they
show nothing about the code.

## 6. `PeerConfig`: the peer address

`PeerConfig` models `src/peer/config.go`. `Init` fixes the inputs of one
behaviour:

* the `peer.address` setting: unset, not host:port, or host and port;
* `peer.addressAutoDetect`;
* what `net.InterfaceAddrs` returns.

`Load` then applies `Config.load`. That is `getLocalAddress`, with its
early returns in the code's order, and `getLocalIP`, which takes the first
non-loopback IPv4 address.

| Run | Inputs | Checks | Result |
|---|---|---|---|
| `peer_config` | 4 hosts (`0.0.0.0`, `::`, a name, an address) × 2 ports, plus unset and no-port; both flag values; every list of ≤ 2 of {loopback v4, loopback v6, link-local v6, LAN v4}, and a failing call (440 inputs) | `AddressIsUsable` | pass |
| `peer_config_explicit` | the same | `ExplicitAddressHonoured` | violation |

* `AddressIsUsable`: an address that is returned keeps the configured
  port. Its host is either a specified configured host, with
  auto-detection off, or a non-loopback IPv4 address of the machine.
* `ExplicitAddressHonoured` fails. `getLocalIP`'s error is returned
  before the host or the flag is looked at (line 52). So `peer0:7051`
  with auto-detection off fails when `getLocalIP` fails. TLC's trace has
  `net.InterfaceAddrs` return an error. A machine with no non-loopback
  IPv4 address takes the same early return.

## 7. Not modelled

* The hand-written DID scanner of spec section 4.2 (`parser`, `errorf`,
  `isNotValid*Char`). It exists only in the spec and `did_test.go`, not in
  `src/`. Its language is `DIDGrammar`; its parameter, query and fragment
  states have no counterpart in `did.go` to check them against.
* `Config.load` called twice. Nothing in the repository calls `load` more
  than once, so the hazard at config.go:37 (a failing reload clears
  `PeerAddr`) cannot happen in this code.
* No property of the query values `ParseDIDURL` returns. `ParseQuery` is
  modelled, and `URLInputs` reach it.

* `DID.Marshal`: a call to `encoding/json`.
* `request.pb.go`: message types and getters. Of `peer_grpc.pb.go`, only
  the client stub's result, the handler's dispatch and the unimplemented
  method are modelled. The interceptor branch is unreachable, because no
  server sets an interceptor.
* The logging shims: type aliases.
* Inputs with bytes ≥ 0x80. Go's regexp reads runes, so a multi-byte UTF-8
  character counts as one at the `[^:]` position. All inputs here are ASCII.
* IPv6 hosts (`[`): no input holds `[`.
* `GRPCServer.Stop` and `Server()`: called nowhere.
* The empty-address check of `NewGRPCServer`: every caller passes
  `":3600"`.
* The contents of replies, and log output.
* The stream client: it is not in the repository. Its steps are those
  `Recv` can observe.
* Stdin reaching EOF (Ctrl-D): Scanln would then return at once with "".
  The operator is modelled as keeping the terminal open.
