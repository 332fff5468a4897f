# A TLA+ model of wolfCert

wolfCert is a certificate enrolment library in C on top of wolfSSL: an EST
(RFC 7030) and SCEP (RFC 8894) client, a command-line client, and an in-tree
server with a local CA that plays both protocols for tests and small
deployments. This directory models the parts of it that keep state across calls,
threads, messages or crashes, the way they work together in an enrolment, and
the algorithms that decide what they do. TLC checks the models on small
instances; TLAPS proves all but one of their safety and action properties for
every value of their constants, the algorithms' for inputs of every length.
`PROJECT.json` maps every definition to the source lines it models.

## 1. The system

| Part | Source | State it keeps | Operations |
|---|---|---|---|
| HTTP client session | `src/src/http.c` | the connection, `sm_state`, the request being sent, the receive buffer, the caller's response object | open, close, request (blocking), request_nb |
| SCEP client session | `src/src/scep/scep_client.c` | the operation in flight, its nonce, transactionID, keys, output | GetCACaps, GetCACert, GetNextCACert, PKCSReq, RenewalReq, GetCertInitial, GetCert, each blocking and `_nb` |
| EST client session | `src/src/est/est_client.c` | the operation in flight, credentials, output | cacerts, csrattrs, simpleenroll, simplereenroll, each blocking and `_nb` |
| Command-line client | `src/cli/wolfcert_client.c`, `src/src/client.c` | a key and a CSR while it runs, two files afterwards | enroll, reenroll, with their poll loops |
| Server thread | `src/src/server.c` | `stopping`, the deadline, `tls_current`, `keep_alive`, the accepted socket | start, run, serve_fd, stop, free |
| SCEP server | `src/src/scep/scep_server.c` | requests parked for approval, the registry of issued certificates | the PKIOperation messages |
| EST server | `src/src/est/est_server.c` | hashes of parked CSRs, the connection's client identity | cacerts, csrattrs, simpleenroll, simplereenroll |
| Local CA | `src/src/ca_issue.c` | the CA pair in memory and in the store | load, generate, save, issue, free |
| Credential stores | `src/src/store.c` | files, or values in memory | read, write, remove |
| Messages and policies | `src/src/scep/scep_msg.c`, `src/src/est/csr_attrs.c`, `src/src/csr.c` | none | build, parse, choose, enforce |
| Dialling | `src/src/net_posix.c` | none | connect |

How they interact: a protocol session owns one HTTP session and drives it by
repeated calls; a call returns `WANT_READ` / `WANT_WRITE` and is made again by
the caller. The command-line client opens one session per request, polls while
the CA says PENDING or 202, and writes the certificate and its key to two files,
which a later renewal reads. The server thread takes one connection at a time,
gives it to the protocol's handler, and is stopped by another thread through one
atomic flag. The server loads its CA from a store, or mints it and saves it
there.

What makes these parts hard: requests that are interrupted at any byte and
resumed by a caller that may call something else; responses that are early,
short, excessive or meant for an earlier request; requests that arrive after
their sender has given up, and answers that never arrive; failures at every
allocation; parked requests that several clients resend and poll in any order;
a stop that races a slow peer; processes killed between two file operations and
machines that lose power. Each place is listed in `PROJECT.json` under
`hazards`, with the property that guards it.

## 2. Modules

| Module | Models | Notes |
|---|---|---|
| `HttpContract` | what an HTTP session promises its user | abstract; the two protocol sessions are built on it |
| `HttpSession` | the `sm_*` state machine, its calls, and a server at the other end | a byte stream is a sequence of units tagged with the request they belong to, which the code does not see |
| `ScepSession`, `EstSession` | the protocol sessions | each EXTENDS `HttpContract`, so its steps are the composition of the two layers |
| `ServerLoop` | `wolfcert_server_run`, the I/O helpers, `stop` | any peer, any answer lengths |
| `ScepServer`, `EstServer` | the request handlers | one action per way a handler can end |
| `Cli` | a process of `wolfcert-client`, from the key to the files | shared by the two compositions |
| `ScepEnroll`, `EstEnroll` | client, network, server and other clients together | EXTEND the server module and `Cli` |
| `AtomicStore` | the contract of `wolfcert/store.h` | abstract |
| `PosixStore`, `MemStore` | the two shipped backends | each is compared with `AtomicStore` |
| `CaStore` | `wolfcert_server_start`'s load / generate / save / roll back | uses `AtomicStore`'s actions as its store |
| `CaOnDisk` | `CaStore` on the system calls of `PosixStore` | composes the two |
| `CaSelect` | the trusted set, its pins, the certificate to encrypt to | pure |
| `ChunkScan` | the scanner and the decoder of a chunked body | pure |
| `RetryAfter` | Retry-After, its number and its dates | pure |
| `Dial` | `wolfcert_posix_connect` | pure, with time as a number |
| `CsrAttrs` | the /csrattrs policy, built, parsed, applied, enforced | pure |
| `ScepMsg` | the signed attributes of a pkiMessage | pure |
| `Algorithms` | a call of one of the pure modules on one of its inputs | what an input may be is `InputsAssumption` |
| `MCAlgorithms` | the inputs TLC runs them on, `ChunkScan` included | |
| `HttpSessionProofs` | | theorems about `HttpSession`: what it keeps and sends, what it receives |
| `ScepSessionProofs` | | theorems about `ScepSession` |
| `EstProofs` | | theorems about `EstSession`, `EstServer` and `EstEnroll` |
| `ServerProofs` | | theorems about `PosixStore`, `CaOnDisk` and `ServerLoop` |
| `ScepEnrollProofs` | | theorems about `ScepServer` and `ScepEnroll`: each state, and the runs one after another |
| `AlgorithmProofs` | | theorems about `CaSelect`, `CsrAttrs` and `ScepMsg` |
| `TransportProofs` | | theorems about `Dial` and `RetryAfter` |
| `InductionLemmas` | | induction on numbers and on the passes of a loop, for the two before |
| other `MC*` | symmetry sets and model values for TLC | |

Definitions keep the source's names (`SmReadHead` is `sm_read_head`,
`HasRoom` the test in `pending_add`). Definitions with a suffix, such as
`SmFail_StaysOpen`, are deliberate mistakes: each property is known to fail
when one of them takes the place of the definition it is named after.

### HttpSession

State: the fields of `struct WolfCertHttpSession` (`closed`, `state`, `head`,
`txOff`, `bodyLen`, `rx`, `hdrEnd`, `interim`, `resp`), the response objects
`pub`, the call being executed, and the connection. One action per `sm_*`
function and outcome. `nb_write` takes any part of what is left, `nb_read_some`
delivers any part of what has arrived, so every fragmentation occurs. A blocking
call is the same machine that is not allowed to return `WANT`. The server may
answer before the request is complete, send interim responses, malformed heads,
bodies framed by length, chunks or close, and may close at any point. It may also
send what nobody has asked for, stray units (`SrvExcess`) or a whole second
response (`SrvSecond`), at once or long after the answer. A non-blocking read may
find nothing, so a call may return `WANT_READ` anywhere in a head or a body.
Header text is reduced to what `inspect_headers` decides from it.
`Connection:` in a response is not modelled, as the client does not read it.

### ScepSession and EstSession

State: the `in_*` fields and the caller's output objects. The lower layer's
steps are those of `HttpContract`, which `HttpSession` is shown to implement.
Replies come from a network that may deliver any signed reply of the CA to any
request, or something unsigned. Cryptographic checks are symbolic: a reply is
signed or not, and is for one request.

### ServerLoop

A request is a number of units to receive, an answer a header part and a body
part to send. `within` says that the thread is inside the retry loop of
`wolfcert_io_recv` or `_send`, so the check at the entry and the one in the
loop are separate steps, between which the clock, the peer and the stopping
thread can act. Both functions may also fail for a reason of their own, such as
memory or buffer space (`RecvErrors`, `SendErrors`); `send_all` does not tell its
caller, so after such an error the handler goes on as if it had sent. A handler's verdict is free: any request may succeed or fail
and ask for a close. The TLS handshake is one library call that succeeds, fails
or wants I/O.

### ScepServer and EstServer

One message is one action, as the server is single-threaded. Every step that
allocates, draws randomness or calls the CA may fail, and the failure is
modelled with the reply it leads to and with what is kept in the queue.
`certs` and `parks` are history. `cfg` is the server's configuration: it is
chosen once, from those that `wolfcert_server_start` and `tls_setup` accept.

### Cli, ScepEnroll and EstEnroll

`Cli` is one process after another over the same two files. `run` is what the
process holds, `disk` what the files hold, `Torn` a file that was truncated and
not filled. `write_file` is two steps, truncate and fill, for the certificate
and then for the key; a write may fail with or without the process noticing, and
the process may be killed in between. `spoiled` records that any of this
happened. In `ScepEnroll` a request stays on the `wire` until the server reads
it, which may be long after its run has given up; an answer to a request nobody
waits for is lost, and so is one whose run gives up first. Which answer the
client takes for which request is `ScepSession`'s subject and is not modelled
again. `mode` is `--txid-mode`; with "none" the client stays off and the other
clients send everything they can, which is the server on its own. In `EstEnroll`
requests travel on the server's one connection (`line`), and a connection that
breaks does not recall a request the server has read. `mode` is whether CSR
signatures are randomised (ECDSA) or not, since the server tells CSRs apart by
their hash. Both add an operator who takes longer than the in-tree server's one
poll (`StillPending`, external).

### Stores and the CA

`PosixStore` has one action per system call of `posix_write` that matters to
another process; a writer may die at any of them. At a power failure a rename
may be undone, as the directory is not synced, and a file that was not synced may
come back torn; `boot` flips, so that a property can speak of the time between
failures. `MemStore` splits a write that runs out of memory from one that
does not. `CaStore` has one action per store access; `users`, the servers that
ever started on the store, tells a store of one's own from a shared one.
`CaOnDisk` replaces each write of `CaStore` by the calls of `PosixStore`, so that
a server may be killed inside a write, and adds power failures, after which every
server is off and the files are what the disk kept.

### The pure modules

Each is a set of operators with the shape of the C functions, and a definition
of what they should compute, written without looking at how. A loop of the code
is a function from the number of passes to what it holds then (`StatesOf`,
`DigitsAfter`, `HintsAfter`, `AttribsAfter`, `ResultsAfter`), so that a proof can
speak of every pass. `CaCall`, `WaitCall`, `DialCall`, `PolicyCall`, `ListCall`,
`WriteCall` and `ReadCall` say what the functions may be called with.
`Algorithms` chooses one call per state. Bytes, names and keys are members of
small sets; lengths, sizes and dates are numbers. `ChunkScan` resumes the scanner at every
pair of cuts of a body; `RetryAfter` counts days by a calendar, year by
year; `CaSelect` is run on every short list of certificates that differ in role,
usage, issuer and key.

## 3. What TLC checks

Sizes are distinct states.

| Run | States | What it shows |
|---|---|---|
| `http_session` | 4.7 M | nothing of an exchange outlives it; a published response is whole, and answers the request it is published for unless the server has sent an unasked response before; requests reach the server in order and whole; the session implements `HttpContract` (one request at a time, a refused call changes nothing, a failed session never acts again, one disconnect per connect) |
| `http_live` | 172 k | every request ends, even if the server sends only interim responses; the receive buffer and the bodies are bounded |
| `scep_session` | 83 k | no secret and no caller pointer is kept; a status comes only from the answer to that very request; status, failure and certificate are consistent |
| `est_session` | 29 k | protocol and HTTP layer agree on whether a request is in flight; return code, status and data of an enrol call are consistent |
| `server_loop` | 35 k | `stop` makes `run` return; every request ends; nothing is carried from one connection to the next; at most one transfer past the deadline or the stop; nothing follows an answer given up for the deadline, the stop or a reset peer |
| `scep_enroll` | 619 k | the SCEP server's queue and registry, alone and with a client behind a network that loses and delays: one entry per transaction, one certificate per approval and per run, entries released by their owner only, the client ends with the certificate for its own CSR, its files belong together, every run ends |
| `est_enroll` | 922 k | the same for EST in four configurations: certificates go only to admitted clients, one per parking, each run leaves one request at most, every run ends |
| `ca_on_disk` | 238 k | two servers, system call by system call: `posix_write` implements the atomic write, nothing read is torn, a served CA is kept while there is power, a mixed pair is never served, half a pair is never overwritten |
| `algorithms` | 530 k | the six pure modules agree with their reference definitions on every listed input |

Three further runs end in a counterexample, where code and text disagree:

* `scep_parking`: `src/src/scep/scep_server.c:877` says of the check before
  parking "Refuse now a CSR that could never issue, rather than park it." The
  check is `wolfcert_csr_verify`, which only parses the CSR and verifies its
  signature. A CSR that `wolfcert_ca_issue` refuses for another reason, such as
  an otherName in its subjectAltName, is parked and fails when it is released.
* `est_polling`: the usage text of `wolfcert-client` says that `--poll-attempts`
  applies to "EST /simpleenroll / /simplereenroll". `cmd_reenroll` makes one EST
  request and gives up on a 202, and so does `enroll --pha`.
* `mem_store`: `wolfcert/store.h:37` says "Write or replace key atomically".
  `mem_write` frees the old value first, so a write that cannot allocate the new
  one returns an error and the old value is gone.

### Bounds

`HttpSession`: two response objects are enough for "another object's call", two
requests for "left over from the one before". One unasked response or stray unit
per connection comes at any time after the first request. In `http_session` the
connection holds three units towards the client, which is a head with its header
lines, or a bare head with the longest body; a second response is behind the
first on the wire if both are short, or once part of the first has been read; a
request has a body of one unit. `http_live` has one response object and one session, and a connection
of five units, so that a chunked body outgrows the buffer and answers
exceed the body limit by one unit.

`ScepEnroll`: the queue holds two entries and three transactionIDs contend, so it
is full and the swap in `pending_remove` moves an entry; the registry holds two
of three certificates; two of the four keys are the client's, one for each of
two runs, so that a run meets what the one before has left at the server, on the
wire and on the disk. One poll per run: a second one adds no state the first did
not have, since a poll forgets everything but the count.

`EstEnroll`: a queue of two, with two clients and the client's own CSRs
contending; each way of admitting a client is a configuration of its own, and
the kinds of CSR are those the handler tells apart (subject, SAN, policy).

`CaOnDisk`: two servers and five starts are a first start, a restart after a
crash, and a competitor; one power failure.

`MCAlgorithms`: lists of up to three certificates out of ten that cover the
roles, usages, key types and issuers the code distinguishes; bodies of up to four
pieces, chosen so that every test of the scanner is decided both ways, with a size
limit of 15 in place of `SIZE_MAX`; dates around leap days, the fifty-year
window, the epoch and the clock's own value; up to three addresses; policies of
up to three items; messages of up to three attributes, with a scratch buffer that
the longer ones outgrow.

`MaxReqs`, `MaxOpens`, `MaxExcess`, `MaxIssues`, `MaxParks`, `MaxRuns`,
`MaxWrites`, `MaxCas`, `MaxStarts` and `MaxOutages` only make the state space
finite. Runs that switch the deadlock check off are of systems that really stop:
the caller has used up its sessions, the processes or the starts are used up,
`run` has returned, the algorithm has been called.

### Fairness

`http_live` assumes that the process runs its own code, that the caller of an
`_nb` function calls again after `WANT_*` (ARCHITECTURE.md, section 4.3), and
that the server reads and says something while it owes an answer. The last is
needed. A blocking call has no timeout: it waits with `poll(-1)`
(`http.c:1827`, `net_posix.c:175`; ARCHITECTURE.md:533-534 says "A negative value asks
it to block until bytes move"), and against a server that goes silent on an open
connection it does not return. As a read may find nothing, what is assumed of the
process is strong fairness of the steps that get it on: data that has arrived is
found in the end. `server_loop` assumes that the thread is scheduled and that the
clock moves. A blocking call returns, because the socket timeouts are armed
before the first one. Nothing is assumed of the peer: success of a handshake or
of post-handshake authentication is not part of the fair actions, and neither is
an error of the system. `scep_enroll` and `est_enroll` assume that the client's
process runs unless it is killed, and of the other side that it does not stay
silent for ever: in `scep_enroll` the request that is waited on is answered
(`Answered`), in `est_enroll` whoever is connected is answered or dropped, and a
client that waits for the server's one connection gets its turn. The command-line
client makes blocking calls and sets no timeout, so `EnrollEnds` would be false
without this. No failure (`Fails`) is counted on to end a wait. What
`EnrollEnds` adds to the assumption is that a CA that always answers PENDING or
202 does not keep a run alive.

## 4. What is proved

All theorems hold for every value of the constants allowed by
`SessionAssumption`, `ScepAssumption`, `EstAssumption`, `LoopAssumption`,
`PosixStoreAssumption`, `CaStoreAssumption`, `CaOnDiskAssumption`,
`ScepServerAssumption`, `EstServerAssumption`, `CliAssumption`,
`ScepEnrollAssumption`, `EstEnrollAssumption`, `ScratchAssumption` and
`InputsAssumption`. They say only that sizes and
limits are natural numbers, some of them not zero; that markers such as "no
value" or "no key" are not values; that options such as the transactionID mode
have one of their settings; that a protocol session has one response object of
its own; that the CA's writers, files and values are those of the store below;
that the client's own keys are keys with a transactionID each; that a CSR is a
record of what the EST server looks at, its subject a client; and that there is
a CSR of another client the EST server would accept; and that an algorithm is
called with what its parser or its caller can hand it.

`HttpSessionProofs`: `TypeOK`, `OneRequest`, `NothingLeftOver`, `RxBounded`,
`DisconnectOnce` and the action property `ClosedIsFinal`. `RxBounded` is not
inductive: that `sm_read_body_cl` stays below the limit depends on what
`inspect_headers` let through earlier. `ReceiveState` records that: where the
header block ends in the buffer, that the unit there is a final head, that its
framing chose the state, and that a declared length is within the limit.
`SessionInv` is the conjunction, and the proof has one step per `sm_*` function.

The second half of it proves `RequestsInOrder`. Every step of an `sm_*` function
is first shown to be of one of a few kinds (`StepKinds`): it returns `WANT`,
stops with an error, finishes the handshake, writes part of the head or of the
body, reads, drops an interim response, takes a head, or publishes. `OrderInv`
adds to the property that the units written grow with request and offset and
that none is beyond the request under way (`SentInv`), and that the last one is
where the current request has been left, or the end of one (`LastInv`): the
property compares neighbours, and what a resumed write appends is a neighbour
only because `sm_tx_off` is where the last call stopped.

Its last part proves the action property `ResponseMatches` and the refinement
`ImplementsContract`. The invariant is about `stream`, the buffer followed by what
is still in the socket. `WholeInv` holds for every server: each final head in the
stream is followed by its own body as far as it has been sent, and by nothing of
another response before that. It is what makes a published response whole,
also when a second response is right behind it. `AnswerInv` is about connections on which
the server has sent no unasked response: it owes one answer at most, to the
newest request, whose head it has read; the stream holds one final head at most,
to that same request; and an open session between requests is owed nothing and
has no final head to come. There a reused connection is safe, because a response
is published only with its final head, and anything else closes the session; the
theorem says nothing of whom a response answers on the other connections, where
it may be the wrong request (section 5). That a head is read once by the server
(`HeadOnce`) rests on `OrderInv`. The refinement goes by the kinds of step again;
`HttpContract` promises that a response object is filled for its own request, not
which request the server meant.

`ScepSessionProofs`: `NothingKept`, `AnswersOwnRequest` and `ResultConsistent`,
for any number of requests, outputs, keys and certificates. The property speaks
of finished outputs, and what makes one right is known only while its request is
in flight. `InFlight` carries it: the request in flight is the newest one, the
nonce, the transactionID and the certificate asked for are those of that
request, and its output stays cleared until `scep_finish`, whatever the caller
calls meanwhile. `OutputOK` then says of each output that it was filled from a
reply to one request in the log, and is kept because the log only grows.

`EstProofs`, the session: `InStep` and `VerdictConsistent`, in the same way. Both
sessions are modelled on `HttpContract`, which `HttpSession` is proved to
implement, so nothing is assumed of the layer below that is not proved of it.

`ServerProofs`, the store and the CA: `PosixTypeOK`, `NeverTorn` and the
refinement `WritesAtomically` of `PosixStore`, for any number of writers. `TmpInv`
says what has been established of the temporary file at each call: it is whole
after the write loop and on the disk after `fsync`; so what `rename` shows is a
whole value. For servers on that store, `DiskIsPosix` shows every step of
`CaOnDisk` to be a step of `PosixStore` or to leave it alone. So `CaOnDiskSpec`
implements `PosixSpec` (`ServersUsePosix`) and inherits its theorems
(`CaFilesWhole`). `ServesMatchedPair`, `KeptWhilePowered` and the action property
`HalfPairOutlivesCrash` need `CaInv` besides: the store that `CaStore` reads is the
directory, a write in progress is the save its server has got to (`SaveInv`), a
server that has a CA has both halves of one (`PairOK`), and a server that is
alone on its store knows what is in the files at each stage of its start
(`SoleOK`). The last is what fails as soon as a second server has started.

`ServerProofs`, the serving thread: `LoopTypeOK`, `NothingCarriedOver`,
`OneLateTransfer` and the action property `GivenUpIsLast`, with and without
TLS. The argument for
`OneLateTransfer`: a late transfer leaves `io_should_stop` true, no transfer is
entered while it is true, and the deadline is re-armed only by a loop that has
just found it false (`LateInv`). For `GivenUpIsLast`: the stop, the deadline or
the reset for which an answer was given up is never undone on that connection,
for the same reason (`GaveUpInv`). It does not speak of answers cut by another
error, after which the server goes on (section 5).

`ScepEnrollProofs`, the server: `OneEntryPerTransaction`, `IssuedOncePerApproval`,
`RegistryKeepsNewest` and the action property `ParkedUntilReleased`, for any
number of clients, keys and transactions and any queue and registry size. The
handlers have many exits, so every message is first shown to be one of five kinds
of step: it changes nothing (`Silent`), parks an entry, drops one, releases one
with its certificate, or grants a certificate at once (`Step`). The invariant is
then proved for the kinds. `RegistryKeepsNewest` is not inductive, as it says
nothing of serials; `RegistryInv` adds that the registry is the tail of what
was recorded and that every serial in it was issued.

`ScepEnrollProofs`, the composition: `OwnCertificate`, `PairOnDisk`, and all of
the server's properties again. `EnrollInv` adds to the server's invariant:
what the files hold at each point of a run that has not gone wrong (`FilesInv`);
that an entry under one of the client's keys holds the client's CSR, since only
the client signs with its keys (`QueueInv`); that requests on the wire are the
client's (`NetInv`); and that a SUCCESS the client can open carries a
certificate issued for its CSR (`OwnInv`). `OwnCertificate` needs all of them,
because what a poll releases was parked by an earlier message, possibly of
an earlier run.

`ScepEnrollProofs`, the runs: `OneCertPerRun` and `ParkedForPoll`. The first says nothing of
requests that may yet be granted, so it is not inductive. `CountInv` counts them:
certificates issued to the client, its entries in the queue, its requests on the
wire that are not polls, and the request a run is still to send are together no
more than the runs so far. Each kind of step moves one unit at most from a later
place to an earlier one, a dropped entry or a refusal loses one, and another
client moves none, as it signs with no key of this one (`ForeignStep`).
`ParkedForPoll` needs to know who goes by which transactionID. With random ones
(`DrawnInv`) no request on the wire but the awaited one goes by that of the run,
so that no late poll of an earlier run can take its entry, and PENDING is answered
only about a request that is in the queue (`DeliverPending`); with derived ones
(`DerivedInv`) every entry of the client goes by the transactionID of its key, and
one entry per transaction is one per key. Both invariants were first checked by
TLC on the instance of `scep_enroll`.

`EstProofs`, the server: `OnceParkedOnceIssued`, `IssuedToAdmitted` and the
action property `WaitsForOwnPost`, for the EST server with any clients and again in the
composition, for every configuration the server starts with. `EstInv` adds
`ConnInv`: the configuration passed the start-up checks, and a TLS connection of
a server that asks for certificates in the handshake has a client certificate.
`GateAdmits` is the heart of it: together with the tests in `handle_request` and
`handler_enroll` these leave no way to an unadmitted client. `OneRequestPerRun`
holds by a count like `CountInv`: what a run may still be given is the
request it is about to make, one on the line for a CSR that is not parked, or the
one that follows its fetch of the CA certificates. A poll asks for nothing new,
because `AskInv` says that the CSR of a run that sleeps, or that has just been
told 202, is in the queue.

`InductionLemmas` is what the theorems about the algorithms rest on. A loop of
the model is a recursive function, and of such a definition the provers know
only that it is a choice among the functions that satisfy its equations.
`LeastNatural` gets the least element of a set of numbers from the library's
theorem that `<` is well founded; `NatSetInduction` is induction on numbers,
stated for a set instead of a predicate; `RecursionExists` shows that a loop's
function exists, so that its definition may be unfolded; `LoopInduction` is
induction on the passes of a loop, and `LastWins` its commonest use: a value that
some passes overwrite ends as the last of them left it.

`AlgorithmProofs`: `TrustedRecipient`, `PolicyFollowed` and `MessagesAsWritten`
for lists of certificates, policies and messages of every length.

* `OnlyPinned` goes by the two ways a certificate gets into the bundle. For
  `AnyOrder`, the passes of `wolfcert_scep_select_ra_cert` are shown to keep the
  same certificates of two bundles that hold the same ones, each as often, in any
  places (`Survivors` is carried along by a renaming of places), so that both
  fail alike or pick the same key. The pinned certificate is the delicate case: it
  stands in front in both bundles but may have been served twice, at different
  places.
* `PolicyHonoured`: key type, curve and hash are each a value that some items
  overwrite, so each is what the last of them left (`LastWins`). The hash is
  chosen by the last item that names one, even when a later item names the key.
* `WrittenAsRead` follows the six attributes through the writer and the reader;
  the reader meets each name once because the writer's order has no repetition.
  `ReadUnambiguously` is an induction over the attributes read: what has been seen
  is what has been read, each from one place (`seen`).

`TransportProofs`: `WaitsRight`, for any number of addresses, digits, and every
date.

* `WithinTimeout`: as long as the loop goes on, the clock stands at `Spent`, or at
  the timeout when `Spent` is beyond it; no address passed without a connection
  would have answered in time; and the one that is open is the first that
  connects (`DialledSoFar`, which `DialStep` shows each pass to keep).
* `CalendarRight`: the day number of `date_to_unix_time` is the number of days
  that the calendar counts. The closed form `Leaps` grows by one at each leap year
  (`LeapStep`), so inductions forwards and backwards from 1970 show it to count
  them; `EraDays` finds it in the code's arithmetic on 400-year eras; and the month
  formula is compared with the sum of the months for each of the twelve.
* `WaitsByTheCalendar` adds the number of digits, which stops being exact only
  once it is beyond the cap, and the two-digit year: the first year that is less
  than fifty years back is the last one that is not more than fifty years ahead,
  as long as the clock is before the year 2800 (`ClockEnd`), which is where the
  ten centuries that `FullYear` goes through end.

The type invariants and `OneRequest`, `ClosedIsFinal` and `DisconnectOnce` are
proved and not part of a run.

Only model-checked:

* liveness (`RequestEnds`, `StopReturns`, `RequestComesToEnd` and `EnrollEnds` of
  both enrolments), which is out of the prover's reach;
* `ChunksAsSent`: the two readers of a chunked body are written with operators
  that call themselves at a place they have just computed, as the code's loops
  do, and the prover has no rule for those;
* `MemStore`, `scep_parking` and `est_polling`, where a counterexample is the
  result.

## 5. Observations

What the models show about the code beside the three disagreements of section 3:

* What a server sends beyond its response closes the session if it has been read
  with the response. If it arrives later it stays in the socket, and `sm_begin`
  does not look there. Stray bytes then make the next request fail; a whole
  second response is published as the answer to the next request.
  `ResponseMatches` therefore has the condition that the server has sent no such
  response. A body delimited by close may be cut without notice;
  `ResponseMatches` says so.
* A blocking call waits without a timeout, and the command-line client sets none:
  against a server that accepts the connection and then says nothing it does not
  end. ARCHITECTURE.md describes it so; the liveness properties assume a server
  that answers or drops the connection (section 3).
* `send_all` of both servers ignores that a send failed. After the deadline, the
  stop or a reset peer nothing more is sent (`GivenUpIsLast`). After another
  error of `wolfSSL_write` or `send()` the body is still sent behind a cut header,
  and the connection is kept for the next request.
* The comment at `net_posix.c:134` says "timeout_ms bounds the whole connect
  across all candidate addresses." `WaitsRight` confirms it, as long as no signal
  arrives: an interrupted `poll` is restarted with its full timeout.
* Requests that are parked for approval and never polled again stay until the
  server ends. `SCEP_PENDING_MAX` of them, and every further enrolment is
  refused. An unsigned request cannot be released by any poll. Parked requests
  live in memory and are lost with the server.
* A lost SUCCESS costs that one certificate: the entry is gone, and the next run
  is a new request.
* With transactionIDs derived from the key, a poll that arrives after its run has
  given up may release what a later run of the same key has parked; that run then
  polls in vain. With random ones this does not happen (`ParkedForPoll`).
* The client writes certificate and key in place, one after the other. A kill in
  between leaves a new certificate beside an old key, or a torn file, and the key
  that belongs to the certificate is lost. An error that `fclose` meets, and a
  failing `wolfcert_key_to_pem`, do not change the exit status. `PairOnDisk`
  excludes these cases through `spoiled`.
* A /csrattrs policy that names a key type or a signature algorithm as a bare OID
  is a hint to this client. With `est_require_csr_attributes` the server takes
  it for an attribute the CSR has to contain, which no CSR of this client does.
  `preferred_rsa_bits` is never set by the parser.
* If the pinned CA certificate and a pinned RA certificate of the same rank have
  the same key, `wolfcert_scep_select_ra_cert` picks the CA's, which comes first,
  and the client refuses it as not being the RA.
* Two servers that first start on one empty store may overwrite each other's CA;
  each serves a matched pair, but the loser's is gone after a restart.
* A crash between the two writes of `wolfcert_ca_save` leaves a store that every
  later start refuses, as the code intends (`HalfPairOutlivesCrash`).
* The directory is not synced after the rename, so a power failure soon after the
  first start may take back a CA that was already served (`KeptWhilePowered`
  holds up to the failure).

## 6. Not modelled

wolfSSL is external: a handshake, a read and a write are single steps that
succeed, fail or want I/O, so how long wolfSSL itself stays inside one call is
not covered, and cryptography is symbolic. Key generation, DER, PEM, base64 and
the PKCS#7 helpers (`keygen.c`, `key_algs.c`, `pkcs7_util.c`, most of `csr.c` and
`internal.c`, the certificate builder of `ca_issue.c`) keep no state between calls
and are conversions whose correctness is the encoding itself; the modules use
their outcomes. The character-level parsers of URLs and header lines are
abstracted to their decisions. `GetCACaps`, `GetCACert` and `GetNextCACert` on
the server, and `getcacerts`, `getcert` and `getnextca` of the client, only read.
Option parsing and output of the command-line tools are left out, as are the
faults that the server's test hooks inject. `wolfcert_init`
and `wolfcert_cleanup` are wrappers of wolfSSL's.
