-------------------------------- MODULE Relay --------------------------------
(***************************************************************************)
(* A STREAM session from its CONNECT on: client.iochan and remote.iochan,  *)
(* each fed by the other side's reader, the handover in cmd_connect() and  *)
(* both end-of-file handlers of server.cpp.  What a channel does to bytes  *)
(* is in IOChannel; here they are counted.  A channel has its owner's name *)
(* and its owner's socket as consumer; its producer is the other's reader. *)
(***************************************************************************)
EXTENDS Integers, Sequences

CONSTANTS
    MaxBuf,     \* k_write_buf_max_size
    ReadSize,   \* k_read_buf_size
    SockBuf,    \* room in a kernel send buffer
    Reply,      \* size of the reply to CONNECT
    Waiting,    \* how much of earlier replies waits in client.iochan
    Early,      \* how much of the client's stream came with CONNECT
    Sends       \* how many bytes each side sends after that, and then ends

Side == {"client", "remote"}

ASSUME RelayAssumption ==
    /\ MaxBuf \in Nat \ {0} /\ ReadSize \in Nat \ {0} /\ SockBuf \in Nat \ {0}
    /\ Reply \in Nat \ {0} /\ Early \in Nat
    /\ Waiting \in 0..(MaxBuf - 1)
    /\ Sends \in [Side -> Nat]

VARIABLES
    state,          \* "CMD", "STREAM", or how it ended: "eof", "failed" or,
                    \* before it was a session, "refused"
    buf,            \* bytes in each channel's buffer
    producer_eof,   \* of each channel
    reader, writer, \* is the watcher started, of each side
    unread,         \* bytes each side has sent or will send, not yet read
    sndq,           \* bytes in each kernel send buffer
    fin             \* was each side's socket shut down for writing

watchers == <<reader, writer>>
vars == <<state, buf, producer_eof, reader, writer, unread, sndq, fin>>

Other(s) == IF s = "client" THEN "remote" ELSE "client"
Room(s) == SockBuf - sndq[s]

(* The session ends: on_client_done() stops all four watchers.              *)
End(how) ==
    /\ state' = how
    /\ reader' = [s \in Side |-> FALSE] /\ writer' = [s \in Side |-> FALSE]
    /\ UNCHANGED <<buf, producer_eof, sndq, fin>>
-----------------------------------------------------------------------------
(* Each Slip... is a wrong form of the definition it precedes.              *)

(* Does a channel with b bytes buffered stop the reader that feeds it.      *)
SlipFull(b) == b > MaxBuf
Full(b) == b >= MaxBuf

(* IOChannel::write() of n bytes to the channel of s, of which the kernel   *)
(* takes k: the bytes of the buffer b, whether its writer and the reader    *)
(* that feeds it run then.                                                  *)
Takes(s, n) == IF buf[s] = 0 THEN {k \in 0..n : k <= Room(s)} ELSE {0}
Write(s, n, k) ==
    LET b == buf[s] + n - k IN
    /\ buf' = [buf EXCEPT ![s] = b]
    /\ sndq' = [sndq EXCEPT ![s] = @ + k]
    /\ writer' = [writer EXCEPT ![s] = @ \/ b > 0]
    /\ reader' = [reader EXCEPT ![Other(s)] = @ /\ ~Full(b)]

(* cmd_connect(): the reply goes to client.iochan, whose producer is still  *)
(* the client's own reader.  Then the remote's reader, just started, becomes*)
(* its producer, and the client's that of remote.iochan, whose buffer is    *)
(* what is left of the input.                                               *)
SlipConnect ==
    /\ state = "CMD" /\ state' = "STREAM"
    /\ \E k \in Takes("client", Reply) :
         LET b == buf["client"] + Reply - k IN
         /\ buf' = [client |-> b, remote |-> Early]
         /\ sndq' = [sndq EXCEPT !["client"] = @ + k]
         /\ reader' = [s \in Side |-> s = "remote" \/ ~Full(b)]
         /\ writer' = [s \in Side |-> s = "client" /\ b > 0]
    /\ UNCHANGED <<producer_eof, unread, fin>>
Connect ==
    /\ state = "CMD" /\ state' = "STREAM"
    /\ \E k \in Takes("client", Reply) :
         LET b == buf["client"] + Reply - k IN
         /\ buf' = [client |-> b, remote |-> Early]
         /\ sndq' = [sndq EXCEPT !["client"] = @ + k]
         /\ reader' = [s \in Side |-> s = "remote" \/ ~Full(b)]
         /\ writer' = [s \in Side |-> buf'[s] > 0]
    /\ UNCHANGED <<producer_eof, unread, fin>>

(* client_recv_cb and remote_recv_cb: n bytes from s go to the other side.  *)
Recv(s) ==
    /\ state = "STREAM" /\ reader[s]
    /\ \E n \in 1..ReadSize :
         /\ n <= unread[s]
         /\ unread' = [unread EXCEPT ![s] = @ - n]
         /\ \E k \in Takes(Other(s), n) : Write(Other(s), n, k)
    /\ UNCHANGED <<state, producer_eof, fin>>

(* tcp_shutdown() of the socket of s; it fails if its peer is not there.    *)
Shutdown(s) == fin' = [fin EXCEPT ![s] = TRUE]
PeerGone(s) == producer_eof[s] /\ buf[s] = 0 /\ ~fin[s]

(* on_client_eof() and on_remote_eof() for an end of file of s: the second  *)
(* of a session ends it; the first is passed on at once if nothing waits to *)
(* be sent before it, and a shutdown that fails is ignored.                 *)
SlipRecvEof(s) ==
    LET o == Other(s) IN
    /\ state = "STREAM" /\ reader[s] /\ unread[s] = 0
    /\ IF producer_eof[o]
       THEN End("eof")
       ELSE /\ producer_eof' = [producer_eof EXCEPT ![o] = TRUE]
            /\ (buf[o] = 0 /\ Shutdown(o)) \/ UNCHANGED fin
            /\ reader' = [reader EXCEPT ![s] = FALSE]
            /\ UNCHANGED <<state, buf, writer, sndq>>
    /\ UNCHANGED unread
SlipEndsEarly(s) ==
    LET o == Other(s) IN
    /\ state = "STREAM" /\ reader[s] /\ unread[s] = 0
    /\ IF buf[o] = 0
       THEN End("eof")
       ELSE /\ producer_eof' = [producer_eof EXCEPT ![o] = TRUE]
            /\ reader' = [reader EXCEPT ![s] = FALSE]
            /\ UNCHANGED <<state, buf, writer, sndq, fin>>
    /\ UNCHANGED unread
RecvEof(s) ==
    LET o == Other(s) IN
    /\ state = "STREAM" /\ reader[s] /\ unread[s] = 0
    /\ IF producer_eof[s]
       THEN End("eof")
       ELSE /\ producer_eof' = [producer_eof EXCEPT ![o] = TRUE]
            /\ (buf[o] = 0 /\ Shutdown(o)) \/ UNCHANGED fin
            /\ reader' = [reader EXCEPT ![s] = FALSE]
            /\ UNCHANGED <<state, buf, writer, sndq>>
    /\ UNCHANGED unread

(* client_send_cb and remote_send_cb: on_write() flushes n bytes of the     *)
(* channel of s, passes the end of file on once it is empty, and starts its *)
(* producer unless it is still full or has ended.                           *)
SlipSend(s, n) ==
    LET b == buf[s] - n IN
    /\ state = "STREAM" /\ writer[s] /\ Room(s) > 0 /\ n <= buf[s] /\ n <= Room(s)
    /\ buf' = [buf EXCEPT ![s] = b]
    /\ sndq' = [sndq EXCEPT ![s] = @ + n]
    /\ writer' = [writer EXCEPT ![s] = b > 0]
    /\ IF b = 0 /\ producer_eof[s] THEN Shutdown(s) ELSE UNCHANGED fin
    /\ reader' = [reader EXCEPT ![s] = @ \/ ~(producer_eof[s] \/ Full(b))]
    /\ UNCHANGED <<state, producer_eof, unread>>
Send(s, n) ==
    LET b == buf[s] - n IN
    /\ state = "STREAM" /\ writer[s] /\ Room(s) > 0 /\ n <= buf[s] /\ n <= Room(s)
    /\ buf' = [buf EXCEPT ![s] = b]
    /\ sndq' = [sndq EXCEPT ![s] = @ + n]
    /\ writer' = [writer EXCEPT ![s] = b > 0]
    /\ IF b = 0 /\ producer_eof[s] THEN Shutdown(s) ELSE UNCHANGED fin
    /\ reader' = [reader EXCEPT ![Other(s)] = @ \/ ~(producer_eof[s] \/ Full(b))]
    /\ UNCHANGED <<state, producer_eof, unread>>

(* A read, write or shutdown fails, or a timeout ends the client.           *)
Fail ==
    /\ \/ state = "CMD" /\ End("refused")
       \/ state = "STREAM" /\ End("failed")
    /\ UNCHANGED unread

(* The peer of s reads from its socket. *)
PeerReads(s) ==
    /\ ~PeerGone(s)
    /\ \E n \in 1..sndq[s] : sndq' = [sndq EXCEPT ![s] = @ - n]
    /\ UNCHANGED <<state, buf, producer_eof, watchers, unread, fin>>
-----------------------------------------------------------------------------
(* The loop of client_recv_cb has a CONNECT.  Its client's reader runs, so  *)
(* client.iochan is not full; if bytes wait in it the kernel was.           *)
Init ==
    /\ state = "CMD"
    /\ buf = [client |-> Waiting, remote |-> 0]
    /\ \E q \in 0..SockBuf : sndq = [client |-> q, remote |-> 0]
    /\ writer = [s \in Side |-> buf[s] > 0]
    /\ producer_eof = [s \in Side |-> FALSE] /\ fin = [s \in Side |-> FALSE]
    /\ reader = [s \in Side |-> s = "client"]
    /\ unread = Sends

Next ==
    \/ Connect \/ Fail
    \/ \E s \in Side :
         \/ Recv(s) \/ RecvEof(s) \/ PeerReads(s)
         \/ \E n \in 0..SockBuf : Send(s, n)

(* Watchers are level-triggered: a socket that goes on being readable or    *)
(* writable is served, and in the end takes a byte.  Both peers send all    *)
(* they have and go on reading.                                             *)
Fairness ==
    /\ WF_vars(Connect)
    /\ \A s \in Side :
         /\ WF_vars(Recv(s)) /\ WF_vars(RecvEof(s)) /\ WF_vars(PeerReads(s))
         /\ WF_vars(\E n \in 1..SockBuf : Send(s, n))

Spec == Init /\ [][Next]_vars
FairSpec == Spec /\ Fairness
-----------------------------------------------------------------------------
(* Types, with what bounds the memory of a session: the channel of the      *)
(* remote holds the bytes that came with CONNECT, or what back-pressure     *)
(* allows, and one read more; that of the client also the reply.            *)
Given(s) == IF s = "client" THEN Waiting + Reply ELSE Early
HighWater(s, b) == b < MaxBuf \/ b <= Given(s)
TypeOK ==
    /\ state \in {"CMD", "STREAM", "eof", "failed", "refused"}
    /\ buf \in [Side -> Nat]
    /\ \A s \in Side : buf[s] < ReadSize \/ HighWater(s, buf[s] - ReadSize)
    /\ producer_eof \in [Side -> BOOLEAN] /\ fin \in [Side -> BOOLEAN]
    /\ reader \in [Side -> BOOLEAN] /\ writer \in [Side -> BOOLEAN]
    /\ unread \in [Side -> Nat] /\ sndq \in [Side -> 0..SockBuf]

(* Half-closed sessions live: no end of file ends the session, or is passed *)
(* on, before all of that side's stream was read, and it is passed on only  *)
(* behind the last byte; a session ends by it when both sides have ended.   *)
HalfClose ==
    /\ \A s \in Side : fin[s] => unread[Other(s)] = 0 /\ buf[s] = 0
    /\ state = "eof" => \A s \in Side : unread[s] = 0

(* A writer runs exactly while its channel has bytes, and a reader whose end*)
(* of file was seen never again, whichever channel's on_write() runs: write()*)
(* and producer_done() assert it.                                           *)
Watchers ==
    state = "STREAM" => \A s \in Side :
      /\ writer[s] <=> buf[s] > 0
      /\ reader[s] => ~producer_eof[Other(s)]

(* A side that has not ended is left unread only while the channel it feeds *)
(* is full, so that there is a write to resume it.  The handover keeps this *)
(* only if the replies leave room in client.iochan.                         *)
Fits == Waiting + Reply < MaxBuf
Paused ==
    Fits /\ state = "STREAM" => \A s \in Side :
      ~reader[s] /\ ~producer_eof[Other(s)] => Full(buf[Other(s)])

(* Flow control: all four watchers are started when there is something for  *)
(* them to do, and only then.                                               *)
FlowControl == Watchers /\ Paused

(* "resume possibly paused producer if buffer is not full": a side that has *)
(* not ended is read again.                                                 *)
Resumed ==
    \A s \in Side :
      (state = "STREAM" /\ ~reader[s] /\ ~producer_eof[Other(s)])
        ~> (reader[s] \/ state # "STREAM")

(* Two sides that send all they have, end and read do not wait for each     *)
(* other for ever, however full both channels and both kernels are.         *)
Ends == <>(state \in {"eof", "failed", "refused"})

(* The inductive invariant: an end of file was preceded by the whole stream,*)
(* a shutdown by an end of file and the last byte; a reader runs only while *)
(* the channel it feeds is within its high-water mark.                      *)
IndInv ==
    /\ TypeOK /\ HalfClose /\ Watchers
    /\ \A s \in Side : producer_eof[s] => unread[Other(s)] = 0
    /\ \A s \in Side : fin[s] => producer_eof[s]
    /\ state = "STREAM" => \A s \in Side : reader[Other(s)] => HighWater(s, buf[s])
    /\ state = "CMD" => buf["client"] = Waiting /\ \A s \in Side : ~producer_eof[s]
    /\ Paused

(* The refinement: the channel of s is an IOChannel, whatever the other one *)
(* and the other's end of file do.  Its stream is the bytes that wait for s *)
(* at the handover and those its producer sends later, told apart by number;*)
(* before the handover all that is given to it counts as buffered.  Its     *)
(* steps are those of its two watchers and of its peer, and everything else *)
(* is a stutter but the end of the session.                                 *)
Bytes(m, n) == [i \in 1..n |-> m + i]      \* the n bytes after the first m
Begun == state \notin {"CMD", "refused"}
Total(s) == Given(s) + Sends[Other(s)]
WasRead(s) == Total(s) - unread[Other(s)]
Buffered(s) == IF Begun THEN buf[s] ELSE Given(s)
Passed(s) == WasRead(s) - Buffered(s)
ProducerOn(s) == state = "CMD" \/ reader[Other(s)]
ConsumerOn(s) == IF state = "CMD" THEN Given(s) > 0 ELSE writer[s]
Over == state \notin {"CMD", "STREAM"}
Channel(s) == INSTANCE IOChannel WITH
    Byte <- Nat, Input <- Bytes(0, Total(s)), Early <- Given(s),
    nread <- WasRead(s),
    buf <- Bytes(Passed(s), Buffered(s)), out <- Bytes(0, Passed(s)),
    producer_eof <- producer_eof[s],
    producerOn <- ProducerOn(s), consumerOn <- ConsumerOn(s),
    sndq <- sndq[s], fin <- fin[s], reset <- PeerGone(s), dead <- Over
ChannelsAreIOChannels ==
    /\ Channel("client")!Init /\ [][Channel("client")!Next]_(Channel("client")!vars)
    /\ Channel("remote")!Init /\ [][Channel("remote")!Next]_(Channel("remote")!vars)

(* What the mapping rests on: a buffer holds no more than was read for it.  *)
Account ==
    /\ \A s \in Side : unread[s] <= Sends[s] /\ Buffered(s) <= WasRead(s)
    /\ ~Begun => unread = Sends
=============================================================================
