------------------------------ MODULE IOChannel ------------------------------
(***************************************************************************)
(* One direction of a relayed TCP session: IOChannel of iochannel.h/.cpp.  *)
(*                                                                         *)
(* A producer (the reader watcher of one socket) calls write(); what the   *)
(* kernel does not take at once waits in buf, and the consumer (the writer *)
(* watcher of the other socket) flushes it from on_write().  A full buffer *)
(* stops the producer; producer_done() is the producer's end of file and   *)
(* becomes a shutdown(SHUT_WR) of the consumer's socket once buf is empty. *)
(*                                                                         *)
(* Input is the byte stream the producer's peer sends; Early counts its    *)
(* bytes that came with the CONNECT request and sit in buf from the start  *)
(* (buf.swap in ClientConn::cmd_connect).  BufQueue is a FIFO of bytes.    *)
(* The kernel side of the consumer's socket (out, sndq, fin, reset) is     *)
(* external: it accepts any part of a write that fits its send buffer, may *)
(* be interrupted before the first byte, and fails once the peer resets.   *)
(***************************************************************************)
EXTENDS Naturals, Sequences

CONSTANTS Byte, Input, Early, MaxBuf, ReadSize, SockBuf

ASSUME ChannelAssumption ==
    /\ Input \in Seq(Byte)
    /\ Early \in 0..Len(Input)
    /\ MaxBuf \in Nat \ {0}      \* k_write_buf_max_size
    /\ ReadSize \in Nat \ {0}    \* k_read_buf_size
    /\ SockBuf \in Nat \ {0}     \* room in the kernel's send buffer

VARIABLES
    buf,            \* bytes waiting for the consumer
    producer_eof,
    producerOn,     \* is the producer watcher started
    consumerOn,     \* is the consumer watcher started
    nread,          \* how much of Input the producer has read
    out,            \* every byte the kernel accepted from consumer->fd
    sndq,           \* how many of them the peer has not read yet
    fin,            \* shutdown(SHUT_WR) succeeded
    reset,          \* the consumer's peer reset the connection
    dead            \* the owner closed the session (on_client_done)

kernel == <<out, sndq, fin, reset>>
vars == <<buf, producer_eof, producerOn, consumerOn, nread, out, sndq, fin, reset, dead>>

Take(s, n) == SubSeq(s, 1, n)
Drop(s, n) == SubSeq(s, n + 1, Len(s))
Slice(s, m, n) == SubSeq(s, m + 1, m + n)     \* the n elements after the first m
-----------------------------------------------------------------------------
(* Each Slip... is a wrong form of the definition it precedes, of the kind a *)
(* careless change would leave; the runs that substitute it for the right   *)
(* one show which property notices.                                         *)

(* write() bypasses the buffer only when it is empty. *)
Bypass(n) == n <= SockBuf - sndq /\ (buf # <<>> => n = 0) /\ (buf = <<>> => ~reset)

(* When write() starts the consumer and stops the producer, and when        *)
(* on_write() resumes the producer, given the buffer b the call leaves.     *)
SlipConsumerAfterWrite(b) == consumerOn
ConsumerAfterWrite(b) == consumerOn \/ b # <<>>

SlipStopsProducer(b) == Len(b) > MaxBuf /\ ~producer_eof
StopsProducer(b) == Len(b) >= MaxBuf /\ ~producer_eof

SlipResumesOnEmpty(b) == ~producer_eof /\ b = <<>>
ResumesProducer(b) == ~producer_eof /\ Len(b) < MaxBuf

(* tcp_shutdown(consumer->fd, SHUT_WR): fails when the peer has reset.      *)
Shutdown == \/ ~reset /\ fin' = TRUE /\ reset' = reset
            \/ fin' = fin /\ reset' = TRUE

(* IOChannel::write(data) with n bytes accepted at once.                    *)
Write(data, n) ==
    LET rest == buf \o Drop(data, n) IN
    /\ Bypass(n)
    /\ buf' = rest
    /\ out' = out \o Take(data, n)
    /\ sndq' = sndq + n
    /\ consumerOn' = ConsumerAfterWrite(rest)
    /\ producerOn' = (producerOn /\ ~StopsProducer(rest))
    /\ UNCHANGED <<producer_eof, fin, reset>>

(* write() tries the kernel only on an empty buffer, so only then it fails. *)
WriteFails ==
    /\ buf = <<>>
    /\ reset' = TRUE
    /\ UNCHANGED <<buf, out, sndq, fin, producer_eof>>

(* The end of on_write(): an emptied buffer of a finished producer is shut  *)
(* down.                                                                    *)
SlipFinishFlush(b) == UNCHANGED <<fin, reset>>
FinishFlush(b) ==
    IF b = <<>> /\ producer_eof THEN ~reset /\ fin' = TRUE /\ reset' = reset
                                ELSE UNCHANGED <<fin, reset>>

(* flush(): the kernel takes the first n buffered bytes.                    *)
SlipFlush(n) ==
    /\ n <= Len(buf) /\ n <= SockBuf - sndq
    /\ buf' = <<>>
    /\ out' = out \o Take(buf, n)
    /\ sndq' = sndq + n
Flush(n) ==
    /\ n <= Len(buf) /\ n <= SockBuf - sndq
    /\ buf' = Drop(buf, n)
    /\ out' = out \o Take(buf, n)
    /\ sndq' = sndq + n

(* IOChannel::on_write(), on EV_WRITE of the consumer.                      *)
OnWrite(n) ==
    LET rest == Drop(buf, n) IN
    /\ consumerOn /\ ~reset /\ sndq < SockBuf
    /\ Flush(n)
    /\ consumerOn' = (consumerOn /\ rest # <<>>)
    /\ FinishFlush(rest)
    /\ producerOn' = (producerOn \/ ResumesProducer(rest))
    /\ UNCHANGED producer_eof

(* on_write() with an error from write() or shutdown() after n bytes.       *)
OnWriteFails(n) ==
    /\ consumerOn /\ (n = Len(buf) => producer_eof)
    /\ Flush(n)
    /\ reset' = TRUE
    /\ UNCHANGED <<fin, producer_eof>>

(* IOChannel::producer_done().                                              *)
SlipProducerDone ==
    /\ producer_eof' = TRUE
    /\ Shutdown
    /\ UNCHANGED <<buf, consumerOn, out, sndq>>
ProducerDone ==
    /\ producer_eof' = TRUE
    /\ IF buf = <<>> THEN Shutdown ELSE UNCHANGED <<fin, reset>>
    /\ UNCHANGED <<buf, consumerOn, out, sndq>>
-----------------------------------------------------------------------------
(* The owner of the channel: the callbacks of server.cpp in state STREAM.   *)

(* on_client_done() stops both watchers for good.                           *)
Close == dead' = TRUE /\ producerOn' = FALSE /\ consumerOn' = FALSE

(* client_recv_cb / remote_recv_cb: read the next n bytes and write them.   *)
SlipRead(n) ==
    LET data == Slice(Input, nread, n) IN
    /\ producerOn
    /\ n <= Len(Input) - nread
    /\ nread' = nread + ReadSize
    /\ \E k \in 0..n : Write(data, k) /\ UNCHANGED dead
Read(n) ==
    LET data == Slice(Input, nread, n) IN
    /\ producerOn
    /\ n <= Len(Input) - nread
    /\ nread' = nread + n
    /\ \/ \E k \in 0..n : Write(data, k) /\ UNCHANGED dead
       \/ WriteFails /\ Close

(* client_send_cb / remote_send_cb.                                         *)
Send(n) == OnWrite(n) /\ UNCHANGED <<nread, dead>>
SendFails(n) == OnWriteFails(n) /\ Close /\ UNCHANGED nread

(* on_client_eof / on_remote_eof while the other direction still runs.      *)
Eof ==
    /\ producerOn /\ nread = Len(Input)
    /\ ProducerDone
    /\ producerOn' = FALSE
    /\ UNCHANGED <<nread, dead>>

(* The session ends for a reason outside this channel: a timeout, an error  *)
(* or the end of file of the other direction.                               *)
Teardown ==
    /\ ~dead
    /\ Close
    /\ UNCHANGED <<buf, producer_eof, nread, out, sndq, fin, reset>>

(* The consumer's peer reads n bytes from its socket.                       *)
PeerReads(n) ==
    /\ ~reset /\ n <= sndq
    /\ sndq' = sndq - n
    /\ UNCHANGED <<buf, producer_eof, producerOn, consumerOn, nread, out, fin, reset, dead>>

Init ==
    /\ buf = Take(Input, Early)
    /\ nread = Early
    /\ producer_eof = FALSE
    /\ producerOn = TRUE
    /\ consumerOn = (Early > 0)
    /\ out = <<>> /\ fin = FALSE /\ reset = FALSE /\ dead = FALSE
    /\ sndq \in 0..SockBuf   \* earlier replies: their peer may not have read them

Next ==
    \/ \E n \in 1..ReadSize : Read(n)
    \/ \E n \in 0..SockBuf : Send(n) \/ SendFails(n)
    \/ \E n \in 1..SockBuf : PeerReads(n)
    \/ Eof
    \/ Teardown

(* libev's EV_WRITE is level-triggered and a writable socket takes at least *)
(* one byte unless it is interrupted, which does not go on for ever.  The   *)
(* peer keeps reading: nothing else bounds the time a byte spends queued.   *)
Fairness ==
    /\ WF_vars(\E n \in 1..SockBuf : Send(n))
    /\ WF_vars(\E n \in 1..SockBuf : PeerReads(n))

Spec == Init /\ [][Next]_vars
FairSpec == Spec /\ Fairness
-----------------------------------------------------------------------------
(* Types; in particular the kernel is never handed more than it accepts.   *)
TypeOK ==
    /\ buf \in Seq(Byte) /\ out \in Seq(Byte)
    /\ nread \in 0..Len(Input) /\ sndq \in 0..SockBuf
    /\ producer_eof \in BOOLEAN /\ producerOn \in BOOLEAN /\ consumerOn \in BOOLEAN
    /\ fin \in BOOLEAN /\ reset \in BOOLEAN /\ dead \in BOOLEAN

(* The channel is a FIFO: what the kernel took followed by what is buffered *)
(* is what was read, with nothing lost, repeated or reordered, however the  *)
(* bypassing write() and the flushes of on_write() alternate.               *)
Fifo == ~dead => out \o buf = Take(Input, nread)

(* Even a session that dies half-way has sent the peer a prefix of Input.   *)
OutIsPrefix == out = Take(Input, Len(out))

(* The peer sees an orderly end of stream only after the whole stream.      *)
FinMeansComplete == fin => producer_eof /\ out = Input

(* The writer watcher runs exactly while bytes wait: no wakeup is lost and  *)
(* no idle watcher spins on a writable socket.                              *)
ConsumerIffBuffered == ~dead => (consumerOn <=> buf # <<>>)

(* A producer that has not ended is stopped only while the buffer is full;  *)
(* on_write() that makes room resumes it.                                   *)
NoLostWakeup == ~dead /\ ~producer_eof /\ ~producerOn => Len(buf) >= MaxBuf

(* assert(!producer_eof) of write() and producer_done(): a reader whose end *)
(* of file was seen is never started again, on_write() included.            *)
NoReadAfterEof == producerOn => ~producer_eof

(* Both together: on_write() resumes whom it should and nobody else.        *)
ReaderDiscipline == NoLostWakeup /\ NoReadAfterEof

(* An ended and drained channel has been shut down, or its peer is gone.    *)
EofNotStranded == ~dead /\ producer_eof /\ buf = <<>> => fin \/ reset

(* Back-pressure bounds the buffer by one read beyond the high-water mark,  *)
(* or beyond the early data the channel started with.                       *)
HighWater == IF Early >= MaxBuf THEN Early ELSE MaxBuf - 1
Bounded == Len(buf) <= HighWater + ReadSize

(* The inductive invariant: the invariants above, and what they rest on.    *)
(* A session that is over has no watcher; end of file comes after the last  *)
(* byte; a shut down or failed channel that goes on is drained; the         *)
(* producer runs only below the high-water mark.                            *)
IndInv ==
    /\ TypeOK /\ Fifo /\ OutIsPrefix /\ FinMeansComplete /\ ConsumerIffBuffered
    /\ NoLostWakeup /\ NoReadAfterEof /\ EofNotStranded /\ Bounded
    /\ Len(out) <= nread
    /\ dead => ~producerOn /\ ~consumerOn
    /\ producer_eof => nread = Len(Input)
    /\ ~dead /\ (fin \/ reset) => producer_eof /\ buf = <<>>
    /\ producerOn => Len(buf) <= HighWater

(* Every byte that was read reaches the kernel unless the session ends.     *)
Delivered == \A k \in 1..Len(Input) : (nread >= k) ~> (Len(out) >= k \/ reset \/ dead)

(* A paused producer runs again, and an ended one is shut down.             *)
Resumed == (~producerOn /\ ~producer_eof) ~> (producerOn \/ reset \/ dead)
Finished == producer_eof ~> (fin \/ reset \/ dead)
=============================================================================
