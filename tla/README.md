# Verification of evsocks

evsocks is a SOCKS5 proxy in C++98 on libev: one process, one event loop, no threads.
This directory holds TLA+ modules that model it, configurations with which TLC checks
them on small instances, and proofs that TLAPS checks for every value of the constants.
Source paths below are relative to the repository root (`src/server.cpp`, ...).

## 1. The system

| part | source | state | operations |
|---|---|---|---|
| **IOChannel** | `src/iochannel.h/.cpp` | `buf`, `producer_eof`, whether the producer's reader and the consumer's writer watcher run | `write`, `on_write`, `flush`, `producer_done` |
| **BufQueue** | `src/bufqueue.h` | a string and an offset | `push`, `peek`, `pop`, `shrink`, `swap` |
| **Server** | `src/server.h/.cpp` | clients (state, input, channels, remote, UDP peers), `term_req`, `listen_fd`, timer | libev callbacks, `cmd_connect`, `cmd_udp`, `on_client_done`, `stop_listen`, `term`, `force_term` |
| **Timeout lists** | `src/timeout_list.hpp`, `src/dlist.hpp` | three intrusive lists ordered by last activity: `client_timeouts` (5 s), `remote_timeouts` (5 s), `idle_timeouts` (600 s) | `touch`, `remove`, `each_timeouts` |
| **Authentication** | `src/auth.h/.cpp` | a client's `auth_ctx` | `auth_begin`, `auth_perform`, `auth_end` |
| **Termination** | `src/main.cpp` | number of SIGINTs | `sigint_cb`, `term_cb`, end of `main` |
| **UDP association** | `src/server.cpp` | two sockets and their families, the client's address | `cmd_udp`, `create_udp_peer`, `udp_client_recv_cb`, `udp_remote_recv_cb`, `parse_udp_packet`, `pack_udp_packet` |
| **Message parsing** | `src/server.cpp`, `src/auth.cpp` | the client's input | the handshake loop of `client_recv_cb`, `auth_perform` |
| **Sockets, addresses** | `src/net.cpp`, `src/addr.cpp` | the descriptor of a `_net_listen` in progress | `_net_listen`, wrappers of system calls, `Addr` |
| **Support** | `src/error.h`, `src/ctxlog/`, `src/*_util.hpp`, `src/stb_sprintf.h` (vendored) | log context stack | formatting, logging |

How they interact. `server_accept_cb` creates a `ClientConn` in state INIT and puts it
in `client_timeouts`. `client_recv_cb` runs the handshake loop (INIT, AUTH, CMD); a
CONNECT creates a `RemoteConn` and turns the client into a STREAM, a UDP ASSOCIATE
creates two `UDPPeer`s. A STREAM session has two IOChannels, `client.iochan` (remote to
client) and `remote.iochan` (client to remote); each one's producer watcher is the other
side's reader. Every write or flush moves a connection into or out of a timeout list;
`on_timer` ends whoever has been in one for too long. Any end of a client is
`on_client_done`, which also decides, by `check_term_cb`, whether a server that was asked
to terminate has no client left, and then breaks the loop. SIGINT asks for termination;
a second one calls `force_term`.

What is hard in it: there are no threads, so the interleavings are those of callbacks,
but a callback may delete the client whose loop is still running; writes are partial;
back-pressure stops and starts watchers that belong to the other side; the two ends of a
session finish in either order, with bytes still buffered; timeouts, deletion and
termination are decided from list memberships that many functions update; and setups of
several system calls fail half-way. PROJECT.json lists each hazard at its line.

## 2. The modules

| module | models | implements / uses |
|---|---|---|
| `Pipe` | what one direction of a relay promises | |
| `IOChannel` | `src/iochannel.cpp` and the callbacks of `src/server.cpp` that own a channel | |
| `IOChannelPipe` | the refinement mapping of `IOChannel` to `Pipe`, apart so that `Relay` can instantiate `IOChannel` twice | `ImplementsPipe` |
| `IOChannelProofs` | theorems about `IOChannel` | |
| `Server` | the life of clients, sessions and the server: `src/server.cpp`, `src/auth.h`, `src/main.cpp` | |
| `ServerProofs` | theorems about `Server` | |
| `TimeoutQueue` | what a timeout list promises | |
| `TimeoutList` | `src/timeout_list.hpp` over `src/dlist.hpp`, down to the pointers | implements `TimeoutQueue` (`ImplementsQueue`) |
| `TimeoutListProofs` | theorems about `TimeoutList` | |
| `Timers` | the clock, the three lists and `on_timer` of `src/server.cpp` | uses a list as `TimeoutQueue` describes it |
| `TimersProofs` | theorems about `Timers` | |
| `Relay` | the two channels of a STREAM session: `cmd_connect`, the four stream callbacks and both end-of-file handlers | each direction is an `IOChannel` (`ChannelsAreIOChannels`) |
| `RelayProofs` | theorems about `Relay` | |
| `Messages` | the messages of the protocol as byte strings, and its codes | |
| `Dialogue` | what the handshake promises a client | extends `Messages` |
| `Handshake` | the message loop of `client_recv_cb` and `src/auth.cpp`, over `src/bufqueue.h` | implements `Dialogue` (`ImplementsDialogue`); what its messages lead to is in `Server` and `Relay` |
| `HandshakeProofs`, `SequenceParts` | theorems about `Handshake`; lemmas on parts of sequences | |
| `NetListen` | `_net_listen` of `src/net.cpp` with the process's descriptors | |
| `UdpRelay` | a listener, a client and its UDP association: `cmd_udp`, both datagram callbacks, parsing and packing, `src/addr.cpp` | extends `NetListen` |
| `UdpRelayProofs` | theorems about `UdpRelay` | |
| `MCIOChannel`, `MCServer`, `MCTimeoutList`, `MCTimers`, `MCRelay`, `MCHandshake`, `MCUdpRelay` | instances for TLC | |

### IOChannel

`buf`, `producer_eof` are the fields of the same names; `producerOn` and `consumerOn` say
whether the two watchers are started. `out`, `sndq`, `fin` and `reset` are the kernel's
side of `consumer->fd`: every byte it accepted, how many of them its peer has not read,
whether a shutdown succeeded and whether the peer reset the connection. `Input` is the
whole byte stream the producer's peer sends and `nread` how much of it was read, `Early`
how much of it came with the CONNECT request and is in the buffer from the start
(`cmd_connect`, `buf.swap`).

`Read` is a read callback with the `write()` it makes (every split between what the
kernel takes and what is buffered, or an error), `Send` and `SendFails` the
write-readiness callback with `on_write()`, `Eof` end of file with `producer_done()`,
`Teardown` any other end of the session. A write takes any part of the data that fits the
send buffer, none if it is interrupted; a shutdown may fail, which `on_client_eof` ignores
with a comment that calls it impossible (a reset by the peer makes it possible). `BufQueue`
is a FIFO here. What is external: the socket, the peer, and libev's level-triggered events.
A connection that is still being established is a socket that takes no bytes yet; that a
shutdown of such a socket aborts the attempt is not modelled.

### Server

`conn[c]` holds the client's and its remote's control state: `state`, how many handshake
messages (a part of one counts) its `input` holds, whether `client.iochan` (`cbuf`) and
`remote.iochan` (`rbuf`) have bytes waiting, whose end of file was seen (`ceof`, `reof`),
which UDP peers exist, and (a ghost) what became of its authentication context. The three
lists are sets. `cur` names the running callback when it is one that loops: a client's
handshake loop, `on_timer` or `force_term` are a sequence of steps, one iteration or one
member each, during which nothing else runs. All other callbacks are one step.
`proc` is the process: "running", "breaking" (after `ev_break`: events that are already
pending are still delivered), "exited", "crashed" (undefined behaviour), or the assertion
that failed. `fds` counts open sockets.

| action | code |
|---|---|
| `Accept` | `on_connection` |
| `Recv`, `RecvStream`, `RecvFails`, `RecvEof` | `client_recv_cb` up to the loop, `on_client_eof` |
| `Return`, `Reject`, `Methods`, `Authenticated`, `Unsupported`, `ConnectFails`, `Connect`, `ConnectReplyFails`, `AssociateFails`, `Associate`, `AssociateReplyFails` | the outcomes of an iteration of the loop |
| `RemoteRecv`, `RemoteEof`, `ClientSend`, `RemoteSend` | `remote_recv_cb`, `on_remote_eof`, `client_send_cb`, `remote_send_cb` |
| `TimerFires`, `Expires`, `TimerEnds` | `on_timer` |
| `Interrupt`, `Forces`, `ForceEnds`, `Exit` | `sigint_cb`, `term`, `force_term`, the end of `main` |
| `Done`, `Delete` | `on_client_done`, part of every action that ends a client |

`Asserts` is the build. `CMakeLists.txt` sets `-O2 -g` and no `NDEBUG`, so a plain build
has `Asserts = TRUE`, where a failed assertion is the end of the process; `FALSE` is what
`-DCMAKE_BUILD_TYPE=Release` gives. Undefined behaviour is a choice: after a failed reply
the loop reads a deleted client (`ConnectReplyFails`, `AssociateReplyFails`), and a
half-made UDP association leaves a peer whose watcher is stopped uninitialised
(`UninitialisedPeer`); both either crash or go on.

Left out of `Server`: the contents of bytes and messages, the pausing of readers by full
buffers (see `IOChannel`), the clock (any member of a list may have expired when the timer
fires; `Timers` has the clock), and the datagrams of a UDP association, which touch nothing
of this but the idle list's order (`UdpRelay` has them). A client's name is used again after deletion, as an address may be.

### TimeoutQueue and TimeoutList

`prev` and `next` are the pointers of the `DListNode` of every object and of the list's
`sentry`; `size` and `last_activity` are the fields of those names. `it` and `walk` are an
`each_timeouts` in progress: `Begin` sets the iterator, each `CallBack` is one overdue
member (the iterator is advanced first, then the callback removes the member), `End` the
rest of the function, whose result is `next_check`. `DetachNext`/`DetachPrev` and
`PushNext`/`PushPrev` are `detach` and `push_back`, one pointer map each. `rank` is a
history variable, the position in the list; nothing reads it but the properties and the
invariant. A callback that removed another member of the list it is called from would break
the iterator; the server's callbacks end the one client (or the client of the one remote)
they are given, and a client or a remote is once in a list.

`TimeoutQueue` says the same without a list: a set of members, when each was last touched,
and a walk that calls back the overdue ones, longest untouched first, and returns the time
until the next one is due, or the list's timeout if there is none.

### Timers

`timeouts[l]` are the members of list `l` with their `last_activity`, `conn[c]` what
decides membership: the state of the client and whether its channel (`cbuf`) and its
remote's (`rbuf`) hold bytes. `now` is `ev_now()`, `due` when the timer fires next; `walk`,
`todo` and `wait` are an `on_timer` in progress: the list being walked, those to come, what
the others returned. `since` is a history variable that records, independently of the
lists, the moments a timeout should be measured from.

| action | code |
|---|---|
| `Accept` | `on_connection` |
| `Handshake` | the handshake loop: it touches no list, whatever the client sends |
| `Connect`, `Associate` | `cmd_connect`, `cmd_udp` with their `update_..._timeout` calls |
| `RemoteRecv`, `RecvStream`, `ClientSend`, `RemoteSend` | the four callbacks of a stream |
| `Datagram` | the two UDP callbacks, when a datagram was sent on |
| `Close` | every end of a client that is not a timeout |
| `TimerFires`, `Expires`, `WalkEnds`, `LastWalkEnds` | `on_timer` and the three timeout callbacks |
| `Tick` | a new iteration of the event loop |

The three `each_timeouts` calls are arguments of `std::min`, so their order is open: each
order is a behaviour. Assumed of libev: `ev_now()` does not go back (it follows the system
clock, so an administrator could make it), does not change within an iteration, and a timer
is called at most `Lag` after it is due. A handshake reply that has to wait for its client
is left to `Server`, where it ends in a failed assertion. Two things `EndsInTime` says
exactly because the code does no more: a client's bytes count as pending since the last
write *or* flush, so a client that takes nothing is not timed out while its remote goes on
sending (the remote is paused once the buffer is full, and five seconds later the client is
ended); and bytes that came with CONNECT are not timed until the next write or flush.

### Relay

A channel has the name of its owner: `buf["client"]` is how many bytes wait in
`client.iochan`, which the remote's reader fills, `buf["remote"]` those of `remote.iochan`.
`reader[s]` and `writer[s]` say whether the watchers of side `s` are started, `unread[s]`
how much of what that side sends is still to be read, `sndq[s]` how full the kernel's send
buffer towards it is, `fin[s]` whether its socket was shut down for writing.

| action | code |
|---|---|
| `Connect` | `cmd_connect`: the reply is written while `client.iochan` still has the client's own reader as producer, then the producers are crossed and the rest of the input becomes `remote.iochan`'s buffer (`Early`) |
| `Recv` | `client_recv_cb` in STREAM, `remote_recv_cb`, with `write()` |
| `RecvEof` | `on_client_eof`, `on_remote_eof`, with `producer_done()` |
| `Send` | `client_send_cb`, `remote_send_cb`, with `on_write()` |
| `Fail` | any error or timeout, with `on_client_done`: "refused" before the session, "failed" in it |
| `PeerReads` | the peers, external |

`Waiting` is how much of earlier replies of the handshake waits in `client.iochan`.
`Paused` says that a side is left unread only while the channel it feeds is full, so that
there is a write that resumes it; the handover keeps this only if the replies fit
(`Fits`: `Waiting + Reply < MaxBuf`).

Bytes are counted here. That each channel does with them what `IOChannel` says is the
refinement `Channel(s)`: bytes are told apart by their number, the stream of a channel is
what it is given at the handover (`Given`: replies, or what came with CONNECT) and what its
producer sends later, and before the handover all it is given counts as buffered. `Connect`
then is a `Send` of `client.iochan` for the part of the reply the kernel takes, `Recv(s)`
is a `Read` of the other side's channel, `Send(s, n)` a `Send` of that of `s`, `RecvEof(s)`
the `Eof` of the other side's channel or the `Teardown` of both, `Fail` the `Teardown` of
both, and what is none of these leaves a channel alone. A shutdown that failed is, to the channel, a peer that has reset the
connection (`PeerGone`). What one channel does to the watchers of the other must be nothing,
which is where a handover with paused readers goes wrong, so the refinement is stated of
sessions with `Fits`; a writer that the handover forgets to start breaks it.

A second end of file ends the session with
whatever is still buffered; that is what `on_client_eof` and `on_remote_eof` do, so
`HalfClose` says only that both streams were read to their ends by then.

### Handshake

`stream` is all a client sends, as byte values, `nread` how much was read. `buf` and `start`
are the vector and the offset of `client.input`: `Push`, `Pop` and `Shrink` are
`BufQueue`'s, `At(i)` is its `operator[]`. `looping` says that the loop of `client_recv_cb`
runs; each action below `Read` is one iteration of it or its end. `out` holds the code in
each answer, `target` the port given to `cmd_connect`, `remote` what was swapped into the
remote's buffer. `msgs` and `ends` are history variables: the messages popped so far, and
where in the stream each ends.

| action | code |
|---|---|
| `Read` | a read of any length, up to the loop |
| `Empty`, `Wait`, `Reject` | the loop's end: on empty input (with `shrink`), on a message that is not complete, on one that is malformed or behind a UDP association |
| `Methods`, `Admit`, `Password` | INIT with `auth_begin`, AUTH with either handler's `auth_perform` |
| `CmdConnect`, `CmdUdp`, `Unsupported` | CMD, with the two outcomes of `cmd_connect` and `cmd_udp` |
| `Lose` | any failure of a read or an answer, a disconnection or a timeout |

`Begun`, `WellFormed` and `Enough` are the checks of a branch in their order: the fixed
part is there, it is well-formed, the rest is there. The properties do not use them; they
describe the protocol's messages as whole strings (`IsMethods`, `IsPassword`, `IsCommand` of
`Messages`).

`Dialogue` is the handshake without input, reads or loop: a position in the stream, what may
come there (`place`), the answers. An `Exchange` takes the next message and answers it as the
protocol and the handler say; a `Violation` closes a client for bytes that begin no message
or come behind an association; a `Loss` is everything else. The mapping forgets how much was
read and where it lies; only a message that is taken, an end and nothing else is a step of
the dialogue. The one state that has to be mapped is AUTH with the default handler, which
reads nothing there: it counts as CMD. What `Dialogue` does not promise is that a message is
answered as soon as it is there, which is `Prompt`.

`METHOD_REJECT` is chosen by neither handler; `Server` has it. A failed assertion on the
rest of the input behind a failed CONNECT is state "aborted".

Four things the properties say exactly because the code does no more. A command that is
neither CONNECT nor UDP ASSOCIATE leaves the loop, so a message behind it in the same read
waits for the next one (`Stranded`). A password, or a name to connect to, of length zero
waits for one byte more than it has, and so does a password of one byte behind an empty
user name (`EmptyField`; the last was missed by the runs until the proof asked for it, and
they have such a message now). Where `char` is signed the low byte of
a port above 127 is sign-extended over the high one: a CONNECT to port 443 goes to 65467.
And `PasswordServerHandler::auth_begin` answers "no authentication" to a client that does
not offer the password method, but then goes on to expect a password: `Framed` says that no
command is looked at before one.

### NetListen and UdpRelay

`open` is the process's descriptor table and `ready` the sockets in it that are bound, and
listen if they are streams; `fd`, `err` and `cands` are `_net_listen`'s variables, `at` is
where it is, one system call a step. `CloseFds` is `close`, on a number that is not open
without effect. An address is the sequence of its bytes, so its family is its length, 4 or
16, and `family` of a socket likewise. A socket of the IPv6 family sees IPv4 peers in the
mapped form (`View`) and sends to such addresses as to IPv4 ones (`Canonical`): that is the
kernel's part.

`state` and `step` are the client and whoever waits for `_net_listen`; `cfd`, `caddr`,
`peer`, `fam` and `from` are `client.fd`, `client.addr`, the two peers' descriptors and
families, and `client.udp_client_from`. `sent` holds every datagram this association sent,
and never shrinks: what is in it, or in the set `Traffic` of what others may send, can be
received at any later time, again, or never, which is loss, repetition and reordering.
`seen` (what was received) and `leaked` (descriptors whose owner forgot them) are history
variables.

| action | code |
|---|---|
| `Listen`, `GetAddrInfo`, `Socket`, `SocketFails`, `Bind`, `BindFails`, `GiveUp`, `StartListen`, `ListenFails`, `Return` | `_net_listen`, called by `tcp_listen` and `udp_listen` |
| `Start`, `Started` | `start_listen` |
| `Accept` | `net_accept`, with the handshake up to its command |
| `Associate`, `AssociateRemote`, `Create`, `CreateFails`, `Reply` | `cmd_udp` and its two calls of `create_udp_peer` |
| `Done` | `on_udp_peer_done` for both peers and the client's socket, in `on_client_done` |
| `ForeignSource`, `DropFromClient`, `ToRemote`, `Aborts` | `udp_client_recv_cb` |
| `DropFromRemote`, `ToClient` | `udp_remote_recv_cb` |

`Parses`, `ToAddr`, `Payload` and `Pack` are `parse_udp_packet` and `pack_udp_packet`; the
properties describe a packet by its bytes instead (`IsPacket`). A send may fail at any time
(`DropFromClient` and `DropFromRemote` are possible for every datagram). Left out, because
other modules have them: several clients, termination and the timers.

Six things the properties say exactly because the code does no more. Both directions leave
by the socket of `udp_remote`: a client that only takes answers from the address in the
reply's BND.ADDR, which is the other socket, sees none. A half-made association that is
asked for again loses its first socket, and a socket whose address cannot be read is lost
at once (`leaked`). `_net_listen` closes a descriptor whose last `bind` failed twice;
between the two nothing else runs, so the number is not somebody else's yet, which is
`Owns`. The address for replies is noted before the datagram is looked at, so a malformed
one moves it, to another port of the same host (`AsReceived`). A payload that is empty
aborts a plain build (`AbortsOnEmpty`). And the port in a header is sign-extended as
CONNECT's is (`Asked`). Besides, the sockets are bound to the first family that can be
bound, and `ip_eq` compares addresses of equal families only: a client whose connection
is of another family than its association's socket is never relayed, and a header with a
name in it is dropped (a TODO of the source).

## 3. The runs

A definition named `Slip...` is a wrong form of the definition after it, a mistake a
change could plausibly make. PROJECT.json pairs every property with one: with the slip in
place TLC finds the property violated.

| run | instance | shows |
|---|---|---|
| `IOChannel` | 6 distinct bytes, 1 of them early, `MaxBuf` 3, reads of up to 2, send buffer 3 | stream integrity, watcher discipline, bound, delivery, and `ImplementsPipe` |
| `Server` | 2 clients (symmetric), 2 messages of input, 5 sockets, assertions on | lists, sockets, authentication, timer and exit are consistent in every order |
| `ServerRelease` | 2 clients, 1 message, 4 sockets, assertions off, fairness | a second interrupt, or the end of the last client after a first, stops the process |
| `TimeoutList` | 4 objects, timeout 2, clock to 4 | pointers, order and walk; `ImplementsQueue` |
| `Timers` | 2 clients (symmetric), timeouts 1, 2, 3 (client, remote, idle), `Lag` 1, clock to 7 | everybody is ended in time and for cause, with one timer for three lists |
| `Relay` | buffer limit 3, reads of up to 2, send buffers 2, reply 2, 3 early bytes, 4 more from each side, fairness | half-closed sessions live, a side is paused only by a full channel and resumed, two full channels do not wait for each other, each direction is an `IOChannel` |
| `RelayHandover` | as `Relay`, with reply 1 behind 2 bytes that wait, and none early | violated: "resume possibly paused producer" |
| `Handshake` | 62 streams of up to 40 bytes: two greetings and three bad ones, five passwords, seven commands with nothing, a byte or another command behind; both handlers, signed `char`; real address sizes | the outcome does not depend on how reads cut the stream; `ImplementsDialogue` |
| `UdpRelay` | 8 descriptors, 2 of them others'; no, two or one address to bind; a client of either family; 13 datagrams from the client, a stranger and remotes, up to 3 received; assertions on, signed `char` | descriptors are owned whatever fails; datagrams go where they should with the right contents |
| `ServerClientsAsserts` | assertions on | violated: the assertions of `clients()` |
| `ServerStreamAssert` | assertions on | violated: `assert(client.state == ClientConn::STREAM)` |
| `ServerInputAssert` | assertions on | violated: `assert(client.input.empty())` |

Bounds. Six bytes against a limit of three and a read of two let the buffer fill, stop the
producer, drain in part, resume and fill again; all bytes differ, so a loss, repetition or
exchange is visible. Early data above the limit is covered by the proof. Two clients are
needed for one's end to be seen by the other's lists; two messages let bytes follow a
command. Five sockets let two sessions compete for descriptors and let a UDP association
fail at its second socket; four still do with one message. Interrupts are counted up to 2,
because the code distinguishes the first from the others only.

In `TimeoutList` four objects make a list with a first, a last and two inner members, and
the clock runs over two timeouts, so members of one list are overdue and not overdue. In
`Timers` the timeouts differ, so that each list can be the one that decides the next check
and the idle one outlasts two rounds of the others (the code has 5, 5 and 600 seconds; only
the order matters and the proof covers all values), and the clock runs over two of the
longest.

In `Relay` each side sends more than its channel's limit, so both fill, pause, drain and
resume at the same time, and the early bytes alone fill the remote's.

In `Handshake` every stream is cut in every way, so the bound is the streams only; they hold
each kind of message, one that is wrong in each place that is checked, and two commands in a
row. A handshake is far shorter than `k_read_buf_size`.

In `UdpRelay` eight descriptors are two of others', a listener, a client, both peers, one
that is leaked and one to spare; two candidates let the second be tried after the first was
closed. An answer takes two datagrams (the client's address must be known), and a third
moves the client, repeats one, or comes from what was sent (a client may have its datagrams
sent to `udp_remote` itself). The datagrams hold both address types, a name, a fragment, an
empty payload, a short one, a low port byte of 187, and one that looks like a packet from a
remote.

`CHECK_DEADLOCK FALSE`: a finished or torn down channel, a handshake whose client sends no
more, an association that has ended, and an exited process, stop, and so do the two clocks,
at their bound.

Fairness. `IOChannel`: a writable socket's write event is delivered again and again
(libev is level-triggered) and eventually takes a byte, and the peer goes on reading; a
peer that does not is ended by the five-second timeout, which is `Teardown`. `Server`: a
running callback goes on (it is straight-line code; weak fairness of its steps), and once
the loop is broken only finitely many pending events are delivered before `main` resumes
(strong fairness of `Exit`, since those events may briefly disable it). No fairness is
assumed of the network, of clients or of the timer. `Relay`: as `IOChannel`, for both
sides, and both peers send what they have and then end; weak fairness, because a started
watcher of a ready socket stays so until it is served. Timeouts are not relied on.

What the violation runs found:

1. `clients()` asserts that no list is longer than `client_timeouts`, but a STREAM client
   with nothing to send, and every UDP client, is in `idle_timeouts` only. One established
   session and a SIGINT, or two sessions of which one ends, abort a plain build. For the
   same reason a build without assertions takes "no member of `client_timeouts`" for "no
   clients": the first SIGINT ends the loop under established sessions ("terminate if no
   clients"), and `force_term`'s "kick all clients" leaves them. No run states this part,
   `AssertionsHold` only that with assertions on no session is left at the exit.
2. `client_send_cb` calls `update_client_timeout`, which asserts STREAM, in every state: a
   handshake reply that had to be buffered aborts a plain build, and takes the client out
   of `client_timeouts` in a release build.
3. `assert(client.input.empty())` after `cmd_connect` fails when `tcp_connect` fails at once
   and bytes follow the request.
4. A reply to CONNECT that fills `client.iochan` stops the client's reader as its producer;
   `cmd_connect` then makes the remote's reader the producer, and `on_write` resumes that
   one. Nothing reads the client any more until a timeout ends the session. `Paused` holds
   whenever the replies fit (`Fits`), as in the run `Relay`, where `Ends` says more
   than `Resumed`.

## 4. The proofs

TLAPS proves, for every value of the constants that satisfies `ChannelAssumption`,
`ServerAssumption`, `TimeoutListAssumption`, `TimersAssumption`, the assumption of `Relay`,
`HandshakeAssumption`, and `ListenAssumption` with that of `UdpRelay`:

* `IOChannelProofs`: `TypeCorrect`, `StreamIntegrity` (`Fifo`, `OutIsPrefix`,
  `FinMeansComplete`), `WatcherDiscipline` (`ConsumerIffBuffered`), `NoWakeupLost`
  (`ReaderDiscipline`, `EofNotStranded`), `BoundedBuffer`, and `Refinement`
  (`Spec => ImplementsPipe`).
* `ServerProofs`: `TypeCorrect` (`TypeOK`: `fds` is between 0 and the limit),
  `SocketsOwned` (`NoLeak`), `ListsHoldTheLiving`
  (`NoDeadMember`), `SessionsAreTimed` (`SessionsTimed`), `HandshakesAreTimed`
  (`HandshakesTimed`, with assertions on), `StreamsTimed` (`StreamTimedIffPending`),
  `AuthContexts` (`AuthEndsOnce`), `TimerRuns` (`TimerArmed`), `KeptAssertions`
  (`AssertionsHold`).
* `TimeoutListProofs`: `ListCorrect` (`ListOK`) and `Refinement`
  (`Spec => ImplementsQueue`).
* `TimersProofs`: `TypeCorrect`, `TimerDue` (`TimerInTime`), `Timely` (`EndsInTime`) and
  `ForCause` (`EndedForCause`).
* `RelayProofs`: `Types` (`TypeOK`, with the bound of both buffers), `HalfClosed`
  (`HalfClose`), `FlowControlled` (`FlowControl`: `Watchers` and `Paused`) and `ChannelsRefine`
  (`Fits => (Spec => ChannelsAreIOChannels)`).
* `UdpRelayProofs`: `TypeCorrect` (`TypeOK`), `DescriptorsOwned` (`Owns`), `RequestsKept`
  (`AsAsked`), `RepliesKept` (`AsReceived`) and `AbortsForEmptyOnly` (`AbortsOnEmpty`).
* `HandshakeProofs`: `TypeCorrect` (`TypeOK`), `FramedAlways` (`Framed`), `PromptAlways`
  (`Prompt`), `ClosedWithCause` (`ClosedForCause`), `PortAlwaysDecoded` (`PortDecoded`),
  `OnlyReading` (`OnlyCut`: the messages taken are the only ones the stream can be read as)
  and `Refinement` (`Spec => ImplementsDialogue`),
  for all streams of bytes, all users, and both kinds of `char`.

Each rests on an inductive invariant `IndInv` (theorem `Invariance`).
In `IOChannel` none of the invariants is inductive alone. `Fifo` needs that the producer
is not run after its end of file and `FinMeansComplete` that end of file comes after the
last byte; `Bounded` needs that a running producer means a buffer below the high-water
mark; and a channel that was shut down or failed but goes on must be drained. For the
refinement every step is shown to be a `Transfer`, a `Break` or a stutter of `Pipe`.
`Cat` is a name for `\o` that keeps it from the SMT solver: its algebra is proved once in
lemmas.

In `Server`, `Local(c)` is what holds of each client and `Global` of the process.
`AssertionsHold` is the one that needs them together: when `check_term_cb` breaks the loop,
`clients()` has not aborted and `client_timeouts` is empty, so all lists are; every live
client is in a list by its state (`Local`), so nobody is left; and since a termination
request comes with a closed listener, nobody joins while the last events are delivered.
`ClientStep` does the common work of the actions that change one client. `NoLeak` has an
inductive invariant of its own, `Counted`. The sockets that are owned are the listener and
four kinds per client, so `Owned` is a sum of cardinalities of sets of clients: `Recount`
says what one element more or less does to one of them, `OwnedStep` that a step of one
client changes `Owned` by what it changes of that client's own (`OwnedBy`), and `CountedStep`
goes through the actions. A client's own sockets have to be told apart by its state for that
(`UdpLocal`: both UDP peers are there exactly in UDP, a lone one only after a failure).

That a pointer structure is one ring and not several cannot be said by `next` and `prev`
alone. In `TimeoutList` the history variable `rank` says it: `Chain` states that the ranks
of the members are 1 to `size`, each taken once, and that `next` adds one, from the sentry
to the sentry. `DetachKeeps` and `PushKeeps` prove it of the two list operations, for any
pointer maps, and `touch` is one after the other. `FirstMember` then gives that the first
member has rank 1, so by the order of last activity nobody was touched before it, which is
what `Refinement` needs of a walk.

In `Timers`, `Local(c)` ties membership and last activity to the client's state and to
`since`; `Global` says of the timer that it is due within the shortest timeout and before
every deadline, and of a walk that has ended that nobody in its list is due before the time
it returned, which the members that later walks remove cannot falsify. `EndsInTime` follows
since the loop is at most `Lag` late.

In `Relay`, `HalfClose` needs that an end of file was noted only when its side's stream had
been read, and that a shutdown was preceded by one (so that nothing is read or written
behind it); the bound of a buffer needs that a running reader means a buffer within its
high-water mark. `on_write` of one side and `write` of the other start and stop the same
reader, so every action is shown to keep both sides' parts. For `ChannelsRefine`, `Image`
gives one channel's place in its stream under the mapping: `Picture` and `Redrawn` give it before and after a step, a lemma for each action of `IOChannel` (`ReadMaps`,
`SendMaps`, `EofMaps`, `EndMaps`, `PeerReadsMaps`, `StutterMaps`) says which change of the
image is that action, and a lemma for each action of `Relay` (`RecvMaps`, `RecvEofMaps`,
`FlushMaps`, `ConnectMaps`, `EndingMaps`, `PeerMaps`) that its change is one of these, for
the channel it works on and for the other (`LeftAlone`). It needs `Account`, that a buffer
holds no more than was read for it; `BytesCut`, `BytesJoin` and the like are the arithmetic
of numbered bytes.

In `UdpRelay` the invariant has a part about descriptors and one about datagrams. `Calls`
says who waits for `_net_listen` in which state of the client, `Socketed` that the socket of
a running call is nobody's yet, and that a number kept after a failure may be closed but is
never in use: with it `Owns` is kept by the second `close`. The lemmas `...Descriptors` show
it for the steps of `_net_listen`, of its callers, of the client's end, and that datagrams
change none of it. `Relaying` says that nothing is received before the association is made,
after which the client's address and the sockets' families do not change, so what a
datagram means does not change either (`Meaning`), and that the address for replies is the
source of one that was received. The lemmas on bytes carry the rest, for every sequence of
bytes: `Packed` (what `pack_udp_packet` writes is a packet with that address and payload),
`Parsed` (what `parse_udp_packet` accepts is a packet with the payload it returns, and a
port in `Asked` of the one it returns), `Viewed` and `Canonized` (a mapped address stands
for the same host). `ReceiveData` then reduces each of the six relaying actions to the one
datagram it receives. `Cut` and `Join` are names for `SubSeq` and `\o`, as `Cat` above, and
`MaxPort` and `Byte` are kept unexpanded, since the provers count in unary.

In `Handshake`, `Aligned` is the heart of it: the input holds, byte by byte, what was read
of the stream behind the end of the last message (`ends`), which `Push`, `Pop` and `Shrink`
keep although they move an offset against a vector that may or may not be cut. `Taken` says
that each message is the part of the stream between two ends and one of the protocol's:
`FirstBelongs` shows that the checks of a branch accept nothing else, `NotWhole` that they
accept everything else, with the exceptions of `EmptyField`, and `MalformedIs` that they
reject what no message begins with. `Settled` says why a loop that has ended did so, from
which `Prompt` follows by the last two. `Stage` and `Checked` count the messages and
answers of each state. `Verdict` shows that the name and password cut out of a message are
a user's exactly if the message is that user's, whatever bytes they hold (a length byte
could be taken for another); it rests on `WantedParts` and `NameParts`, which describe the
message byte by byte. For `Refinement`, `NextInStream` says that the head of the input is
what comes next in the stream, `TakesNext` that a message that is taken is the dialogue's
next, and one lemma for each action that its answer is the dialogue's. That reads do not
decide what the messages are is `OnlyReading`: where one was taken no other part of the whole
stream is a message. It needs, besides `Taken`, that a message ends within what was popped
(`Within`), and that no message of the protocol is the beginning of another (`OneReading`).
What the answers to commands are it does not say: `Dialogue` leaves it to the network whether
a CONNECT or an association succeeds.

Only model-checked: everything about liveness (`Delivered`, `Finished`, `Resumed`, `Ends`,
`SecondInterruptStops`, `DrainedExits`), which is out of this prover's reach. Every invariant
and every refinement that a run checks is proved, `ChannelsAreIOChannels` under `Fits`.

## 5. The plan

1. `Pipe`, `IOChannel`, `IOChannelProofs` (done).
2. `Server`, `ServerProofs` (done).
3. `Relay` and its proofs, with each of its directions an `IOChannel` (done).
4. `TimeoutQueue`, `TimeoutList`, `Timers` and their proofs (done).
5. `Messages`, `Dialogue`, `Handshake` and their proofs (done).
6. `NetListen`, `UdpRelay` and its proofs (done).

### Not modelled

Logging, error values and their text (`src/error.h`, `src/ctxlog/`), `Addr::str`,
argument parsing and start-up in `main`, and the vendored `src/stb_sprintf.h`: they hold no
state that anything above depends on. Name resolution is not implemented by the program
(domain addresses are a TODO in the source). `tcp_connect`, `tcp_shutdown`, `send` and
`recv` are single outcomes, success or failure, of the actions that call them. The kernel,
libev and the peers are modelled by what the code relies on, as each section says.
