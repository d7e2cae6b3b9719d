--------------------------- MODULE IOChannelProofs ---------------------------
(* Proofs about IOChannel for every stream, buffer limit and kernel queue.  *)
EXTENDS IOChannelPipe, SequenceTheorems, TLAPS

(* Associativity of concatenation, under a name: with \o itself in sight    *)
(* the SMT backend keeps building longer sequences.                         *)
Cat(s, t) == s \o t
LEMMA CatAssociative ==
    ASSUME NEW S, NEW s \in Seq(S), NEW t \in Seq(S), NEW u \in Seq(S)
    PROVE  Cat(Cat(s, t), u) = Cat(s, Cat(t, u))
BY ConcatAssociative DEF Cat

(* What Take and Drop return. *)
LEMMA TakeDrop ==
    ASSUME NEW S, NEW s \in Seq(S), NEW n \in 0..Len(s)
    PROVE  /\ Take(s, n) \in Seq(S) /\ Len(Take(s, n)) = n
           /\ Drop(s, n) \in Seq(S) /\ Len(Drop(s, n)) = Len(s) - n
           /\ Cat(Take(s, n), Drop(s, n)) = s
<1>1. Len(s) \in Nat /\ n \in Nat
  BY LenProperties
<1>2. \A i \in 1..Len(s) : s[i] \in S
  BY ElementOfSeq
<1>3. Take(s, n) \in Seq(S) /\ Len(Take(s, n)) = n
  <2>1. \A i \in 1..n : s[i] \in S
    BY <1>1, <1>2
  <2> QED BY <1>1, <2>1, SubSeqProperties DEF Take
<1>4. Drop(s, n) \in Seq(S) /\ Len(Drop(s, n)) = Len(s) - n
  <2>1. \A i \in n + 1 .. Len(s) : s[i] \in S
    BY <1>1, <1>2
  <2> QED BY <1>1, <2>1, SubSeqProperties DEF Drop
<1>5. Cat(Take(s, n), Drop(s, n)) = s
  <2>1. 1 \in 1 .. Len(s) + 1 /\ n \in 1 - 1 .. Len(s) /\ Len(s) \in n .. Len(s)
    BY <1>1
  <2>2. SubSeq(s, 1, n) \o SubSeq(s, n + 1, Len(s)) = SubSeq(s, 1, Len(s))
    BY <2>1, ConcatAdjacentSubSeq
  <2> QED BY <2>2, SubSeqFull DEF Take, Drop, Cat
<1> QED BY <1>3, <1>4, <1>5

(* The n elements after the first m. *)
LEMMA NextElements ==
    ASSUME NEW S, NEW s \in Seq(S), NEW m \in 0..Len(s), NEW n \in 0..(Len(s) - m)
    PROVE  /\ Slice(s, m, n) \in Seq(S) /\ Len(Slice(s, m, n)) = n
           /\ Cat(Take(s, m), Slice(s, m, n)) = Take(s, m + n)
<1>1. Len(s) \in Nat /\ n \in Nat /\ m \in Nat
  BY LenProperties
<1>2. \A i \in m + 1 .. m + n : s[i] \in S
  BY <1>1, ElementOfSeq
<1>3. SubSeq(s, m + 1, m + n) \in Seq(S) /\ Len(SubSeq(s, m + 1, m + n)) = n
  BY <1>1, <1>2, SubSeqProperties
<1>4. SubSeq(s, 1, m) \o SubSeq(s, m + 1, m + n) = SubSeq(s, 1, m + n)
  <2>1. 1 \in 1 .. Len(s) + 1 /\ m \in 1 - 1 .. Len(s) /\ m + n \in m .. Len(s)
    BY <1>1
  <2> QED BY <2>1, ConcatAdjacentSubSeq
<1> QED BY <1>3, <1>4 DEF Take, Cat, Slice

(* The first part of a prefix is a prefix. *)
LEMMA PrefixSplit ==
    ASSUME NEW S, NEW s \in Seq(S), NEW k \in 0..Len(s),
           NEW t \in Seq(S), NEW u \in Seq(S), Cat(t, u) = Take(s, k)
    PROVE  t = Take(s, Len(t)) /\ Len(t) \in 0..k /\ Len(t) + Len(u) = k
<1>1. Len(s) \in Nat /\ k \in Nat /\ Len(t) \in Nat /\ Len(u) \in Nat
  BY LenProperties
<1>2. Len(t) + Len(u) = k
  <2>1. Len(Cat(t, u)) = Len(t) + Len(u)
    BY ConcatProperties DEF Cat
  <2>2. Len(Take(s, k)) = k
    BY TakeDrop
  <2> QED BY <2>1, <2>2
<1>3. Take(s, Len(t)) \in Seq(S) /\ Len(Take(s, Len(t))) = Len(t)
  <2>1. Len(t) \in 0..Len(s)
    BY <1>1, <1>2
  <2> QED BY <2>1, TakeDrop
<1>4. ASSUME NEW i \in 1..Len(t) PROVE t[i] = Take(s, Len(t))[i]
  <2>1. Cat(t, u)[i] = t[i]
    BY <1>1, ConcatProperties DEF Cat
  <2>2. \A j \in 1..Len(s) : s[j] \in S
    BY ElementOfSeq
  <2>3. Take(s, k)[i] = s[i]
    <3>1. \A j \in 1..k : s[j] \in S
      BY <2>2, <1>1
    <3>2. \A j \in 1 .. k - 1 + 1 : SubSeq(s, 1, k)[j] = s[1 + j - 1]
      BY <3>1, <1>1, SubSeqProperties
    <3> QED BY <3>2, <1>1, <1>2 DEF Take
  <2>4. Take(s, Len(t))[i] = s[i]
    <3>1. \A j \in 1..Len(t) : s[j] \in S
      BY <2>2, <1>1, <1>2
    <3>2. \A j \in 1 .. Len(t) - 1 + 1 : SubSeq(s, 1, Len(t))[j] = s[1 + j - 1]
      BY <3>1, <1>1, SubSeqProperties
    <3> QED BY <3>2, <1>1 DEF Take
  <2> QED BY <2>1, <2>3, <2>4
<1>5. t = Take(s, Len(t))
  BY <1>3, <1>4, SeqEqual
<1> QED BY <1>1, <1>2, <1>5

(* Concatenation with the empty sequence, and lengths. *)
LEMMA CatEmpty ==
    ASSUME NEW S, NEW s \in Seq(S)
    PROVE  Cat(s, <<>>) = s /\ Cat(<<>>, s) = s
BY ConcatEmptySeq DEF Cat

(* Concatenation adds lengths. *)
LEMMA CatLen ==
    ASSUME NEW S, NEW s \in Seq(S), NEW t \in Seq(S)
    PROVE  Cat(s, t) \in Seq(S) /\ Len(Cat(s, t)) = Len(s) + Len(t)
BY ConcatProperties DEF Cat

(* A sequence is empty exactly when its length is 0. *)
LEMMA EmptyLen ==
    ASSUME NEW S, NEW s \in Seq(S)
    PROVE  Len(s) \in Nat /\ (s = <<>> <=> Len(s) = 0)
BY LenProperties, EmptySeq

(* write(): the k bytes of data that bypass an empty buffer and the rest    *)
(* that joins it leave the stream extended by data.                         *)
LEMMA WriteExtends ==
    ASSUME NEW S, NEW o \in Seq(S), NEW b \in Seq(S), NEW data \in Seq(S),
           NEW k, k \in 0..Len(data), b # <<>> => k = 0
    PROVE  Cat(Cat(o, Take(data, k)), Cat(b, Drop(data, k))) = Cat(Cat(o, b), data)
<1>1. /\ Take(data, k) \in Seq(S) /\ Len(Take(data, k)) = k
      /\ Drop(data, k) \in Seq(S) /\ Len(Drop(data, k)) = Len(data) - k
      /\ Cat(Take(data, k), Drop(data, k)) = data
  BY TakeDrop
<1>2. CASE b = <<>>
  <2>1. Cat(b, Drop(data, k)) = Drop(data, k) /\ Cat(o, b) = o
    BY <1>1, <1>2, CatEmpty
  <2> QED BY <1>1, <2>1, CatAssociative
<1>3. CASE b # <<>>
  <2>1. Take(data, k) = <<>>
    BY <1>1, <1>3, EmptyLen
  <2>2. Cat(o, Take(data, k)) = o /\ Cat(Take(data, k), Drop(data, k)) = Drop(data, k)
    BY <1>1, <2>1, CatEmpty
  <2>3. Cat(Cat(o, b), data) = Cat(o, Cat(b, data))
    BY CatAssociative
  <2> QED BY <1>1, <2>2, <2>3
<1> QED BY <1>2, <1>3

(* flush(): moving the front of the buffer to the kernel leaves the stream  *)
(* as it is.                                                                *)
LEMMA FlushKeeps ==
    ASSUME NEW S, NEW o \in Seq(S), NEW b \in Seq(S), NEW n, n \in 0..Len(b)
    PROVE  Cat(Cat(o, Take(b, n)), Drop(b, n)) = Cat(o, b)
<1>1. /\ Take(b, n) \in Seq(S) /\ Drop(b, n) \in Seq(S)
      /\ Cat(Take(b, n), Drop(b, n)) = b
  BY TakeDrop
<1> QED BY <1>1, CatAssociative
-----------------------------------------------------------------------------
USE ChannelAssumption

(* The mark above which the producer does not run. *)
LEMMA HighWaterNat == HighWater \in Nat /\ MaxBuf - 1 <= HighWater
<1>1. Len(Input) \in Nat
  BY LenProperties
<1> QED BY <1>1 DEF HighWater

(* The channel starts with the early bytes buffered and the consumer armed  *)
(* for them (cmd_connect).                                                  *)
LEMMA InitIndInv == Init => IndInv
<1> SUFFICES ASSUME Init PROVE IndInv
  OBVIOUS
<1>1. Len(Input) \in Nat /\ Early \in 0..Len(Input)
  BY LenProperties
<1>2. buf \in Seq(Byte) /\ Len(buf) = Early
  BY TakeDrop DEF Init
<1>3. Cat(out, buf) = Take(Input, nread) /\ out \in Seq(Byte) /\ Len(out) = 0
  BY <1>2, CatEmpty, EmptySeq DEF Init
<1>4. out = Take(Input, Len(out))
  <2>1. Take(Input, 0) \in Seq(Byte) /\ Len(Take(Input, 0)) = 0
    BY <1>1, TakeDrop
  <2> QED BY <1>3, <2>1, EmptyLen
<1>5. Early > 0 <=> buf # <<>>
  BY <1>1, <1>2, EmptyLen
<1>6. Early <= HighWater /\ HighWater \in Nat
  BY <1>1 DEF HighWater
<1>7. Fifo
  BY <1>3 DEF Fifo, Cat
<1>8. TypeOK
  <2>1. consumerOn \in BOOLEAN
    <3>1. CASE Early > 0
      BY <3>1 DEF Init
    <3>2. CASE ~(Early > 0)
      BY <3>2 DEF Init
    <3> QED BY <3>1, <3>2
  <2>2. nread \in 0..Len(Input) /\ sndq \in 0..SockBuf
    BY <1>1 DEF Init
  <2>3. /\ producer_eof \in BOOLEAN /\ producerOn \in BOOLEAN
        /\ fin \in BOOLEAN /\ reset \in BOOLEAN /\ dead \in BOOLEAN
    BY Zenon DEF Init
  <2> QED BY <1>2, <1>3, <2>1, <2>2, <2>3 DEF TypeOK
<1>9. OutIsPrefix
  BY <1>4 DEF OutIsPrefix
<1>10. FinMeansComplete /\ ConsumerIffBuffered /\ NoLostWakeup /\ NoReadAfterEof /\ EofNotStranded
  BY <1>5 DEF Init, FinMeansComplete, ConsumerIffBuffered, NoLostWakeup, NoReadAfterEof,
              EofNotStranded
<1>11. Len(buf) <= HighWater /\ Bounded /\ Len(out) <= nread
  BY <1>1, <1>2, <1>3, <1>6 DEF Init, Bounded
<1>12. ~dead /\ ~producer_eof /\ ~fin /\ ~reset
  BY DEF Init
<1> QED BY <1>7, <1>8, <1>9, <1>10, <1>11, <1>12 DEF IndInv

(* client_recv_cb / remote_recv_cb in state STREAM. *)
LEMMA ReadIndInv ==
    ASSUME IndInv, NEW n \in 1..ReadSize, Read(n)
    PROVE  IndInv'
<1> DEFINE data == Slice(Input, nread, n)
<1>1. /\ nread \in Nat /\ n \in Nat \ {0} /\ Len(Input) \in Nat /\ sndq \in 0..SockBuf
      /\ nread \in 0..Len(Input) /\ n \in 0..(Len(Input) - nread)
      /\ nread + n \in 0..Len(Input) /\ nread' = nread + n
  BY LenProperties DEF IndInv, TypeOK, Read
<1>2. /\ data \in Seq(Byte) /\ Len(data) = n
      /\ Cat(Take(Input, nread), data) = Take(Input, nread + n)
  BY <1>1, NextElements
<1>3. /\ producerOn /\ ~dead /\ ~producer_eof /\ ~fin /\ ~reset
      /\ buf \in Seq(Byte) /\ out \in Seq(Byte) /\ Len(buf) \in Nat /\ Len(out) \in Nat
      /\ Cat(out, buf) = Take(Input, nread)
      /\ Len(buf) <= HighWater
  BY LenProperties DEF IndInv, TypeOK, Fifo, Cat, NoReadAfterEof, FinMeansComplete, Read
<1>4. ASSUME NEW k \in 0..n, Write(data, k), UNCHANGED dead
      PROVE  IndInv'
  <2>1. /\ buf' = Cat(buf, Drop(data, k)) /\ out' = Cat(out, Take(data, k))
        /\ buf # <<>> => k = 0
        /\ k <= SockBuf - sndq /\ sndq' = sndq + k
        /\ (producerOn' <=> ~(Len(buf') >= MaxBuf))
        /\ (consumerOn' <=> consumerOn \/ buf' # <<>>)
    <3>1. producerOn' <=> ~StopsProducer(buf')
      BY <1>3, <1>4 DEF Write
    <3>2. consumerOn' <=> ConsumerAfterWrite(buf')
      BY <1>4 DEF Write, ConsumerAfterWrite
    <3> QED BY <1>3, <1>4, <3>1, <3>2 DEF Write, Bypass, Cat, StopsProducer, ConsumerAfterWrite
  <2>2. /\ buf' \in Seq(Byte) /\ out' \in Seq(Byte)
        /\ Cat(out', buf') = Take(Input, nread')
        /\ Len(buf') = Len(buf) + n - k
    <3>1. /\ out \in Seq(Byte) /\ buf \in Seq(Byte) /\ data \in Seq(Byte)
          /\ k \in 0..Len(data) /\ (buf # <<>> => k = 0)
      BY <1>2, <1>3, <2>1
    <3>2. Cat(Cat(out, Take(data, k)), Cat(buf, Drop(data, k))) = Cat(Cat(out, buf), data)
      BY ONLY <3>1, WriteExtends
    <3>3. /\ Take(data, k) \in Seq(Byte)
          /\ Drop(data, k) \in Seq(Byte) /\ Len(Drop(data, k)) = Len(data) - k
      BY ONLY <3>1, TakeDrop
    <3>4. Cat(out, Take(data, k)) \in Seq(Byte)
      BY <3>1, <3>3, CatLen
    <3>5. /\ Cat(buf, Drop(data, k)) \in Seq(Byte)
          /\ Len(Cat(buf, Drop(data, k))) = Len(buf) + Len(Drop(data, k))
      BY <3>1, <3>3, CatLen
    <3> QED BY <1>1, <1>2, <1>3, <2>1, <3>2, <3>3, <3>4, <3>5
  <2>3. out' = Take(Input, Len(out')) /\ Len(out') \in 0..nread'
    BY <1>1, <2>2, PrefixSplit
  <2>4. Len(buf') \in Nat /\ (buf' = <<>> <=> Len(buf') = 0)
        /\ (buf = <<>> <=> Len(buf) = 0)
    BY <1>3, <2>2, EmptyLen
  <2>5. TypeOK'
    BY <1>1, <1>4, <2>1, <2>2 DEF IndInv, TypeOK, Write, ConsumerAfterWrite, StopsProducer
  <2>6. ConsumerIffBuffered'
    <3>1. consumerOn => buf # <<>>
      BY <1>3 DEF IndInv, ConsumerIffBuffered
    <3>2. buf # <<>> => buf' # <<>>
      BY <1>1, <2>1, <2>2, <2>4
    <3> QED BY <2>1, <3>1, <3>2 DEF ConsumerIffBuffered
  <2>7. NoLostWakeup' /\ (producerOn' => Len(buf') <= HighWater)
    BY <2>1, <2>4, HighWaterNat DEF NoLostWakeup, HighWater
  <2>8. Bounded'
    BY <1>1, <1>3, <2>2, HighWaterNat DEF Bounded, HighWater
  <2>10. Fifo'
    BY <2>2 DEF Fifo, Cat
  <2>9. ~producer_eof' /\ ~fin' /\ ~reset' /\ ~dead'
    BY <1>3, <1>4 DEF Write
  <2> QED
    BY <2>2, <2>3, <2>5, <2>6, <2>7, <2>8, <2>9, <2>10
    DEF IndInv, OutIsPrefix, FinMeansComplete, NoReadAfterEof, EofNotStranded, HighWater
<1>5. ASSUME WriteFails, Close
      PROVE  IndInv'
  <2>1. TypeOK'
    BY <1>1, <1>5 DEF IndInv, TypeOK, WriteFails, Close
  <2>2. OutIsPrefix' /\ Len(out') <= nread' /\ Bounded'
    BY <1>1, <1>3, <1>5 DEF IndInv, OutIsPrefix, Bounded, HighWater, WriteFails
  <2> QED
    BY <1>3, <1>5, <2>1, <2>2
    DEF IndInv, Fifo, FinMeansComplete, ConsumerIffBuffered, NoLostWakeup, NoReadAfterEof,
        EofNotStranded, WriteFails, Close
<1> QED BY <1>4, <1>5 DEF Read

(* flush() as a step of the channel. *)
LEMMA FlushStep ==
    ASSUME TypeOK, NEW n \in 0..SockBuf, Flush(n)
    PROVE  /\ buf' \in Seq(Byte) /\ out' \in Seq(Byte) /\ Cat(out', buf') = Cat(out, buf)
           /\ n \in 0..Len(buf) /\ Len(buf) \in Nat /\ Len(buf') = Len(buf) - n
           /\ sndq' \in 0..SockBuf
<1>1. /\ out \in Seq(Byte) /\ buf \in Seq(Byte) /\ Len(buf) \in Nat /\ n \in 0..Len(buf)
  BY EmptyLen DEF TypeOK, Flush
<1>2. /\ Take(buf, n) \in Seq(Byte) /\ Drop(buf, n) \in Seq(Byte)
      /\ Len(Drop(buf, n)) = Len(buf) - n
  BY ONLY <1>1, TakeDrop
<1>3. Cat(Cat(out, Take(buf, n)), Drop(buf, n)) = Cat(out, buf)
  BY ONLY <1>1, FlushKeeps
<1>4. Cat(out, Take(buf, n)) \in Seq(Byte)
  BY <1>1, <1>2, CatLen
<1>5. buf' = Drop(buf, n) /\ out' = Cat(out, Take(buf, n))
  BY DEF Flush, Cat
<1>6. sndq' \in 0..SockBuf
  BY DEF Flush, TypeOK
<1> QED BY <1>1, <1>2, <1>3, <1>4, <1>5, <1>6

(* client_send_cb / remote_send_cb when on_write() succeeds. *)
LEMMA SendIndInv ==
    ASSUME IndInv, NEW n \in 0..SockBuf, Send(n)
    PROVE  IndInv'
<1>1. /\ TypeOK /\ consumerOn /\ ~dead /\ buf # <<>> /\ ~fin /\ ~reset
      /\ nread \in 0..Len(Input) /\ Len(Input) \in Nat
      /\ Cat(out, buf) = Take(Input, nread)
      /\ (producerOn => ~producer_eof /\ Len(buf) <= HighWater)
      /\ (producer_eof => nread = Len(Input))
      /\ Len(buf) <= HighWater + ReadSize
  BY EmptyLen
  DEF IndInv, TypeOK, Send, OnWrite, ConsumerIffBuffered, Fifo, Cat, NoReadAfterEof, Bounded,
      HighWater
<1>2. /\ buf' \in Seq(Byte) /\ out' \in Seq(Byte) /\ Cat(out', buf') = Take(Input, nread')
      /\ n \in 0..Len(buf) /\ Len(buf) \in Nat /\ Len(buf') = Len(buf) - n
      /\ sndq' \in 0..SockBuf
      /\ nread' = nread /\ dead' = dead /\ producer_eof' = producer_eof
  BY <1>1, FlushStep DEF Send, OnWrite
<1>3. out' = Take(Input, Len(out')) /\ Len(out') \in 0..nread'
  BY <1>1, <1>2, PrefixSplit
<1>4. buf' = Drop(buf, n)
  BY DEF Send, OnWrite, Flush
<1>5. consumerOn' <=> buf' # <<>>
  BY <1>1, <1>4 DEF Send, OnWrite
<1>6. producerOn' <=> producerOn \/ ResumesProducer(buf')
  BY <1>4 DEF Send, OnWrite, ResumesProducer
<1>7. reset' = FALSE /\ (fin' <=> buf' = <<>> /\ producer_eof)
  BY <1>1, <1>4 DEF Send, OnWrite, FinishFlush
<1>8. Len(buf') \in Nat /\ Len(buf') <= Len(buf)
  BY <1>2
<1>9. TypeOK'
  <2>1. /\ consumerOn' \in BOOLEAN /\ producerOn' \in BOOLEAN
    BY <1>1 DEF TypeOK, Send, OnWrite
  <2>2. fin' \in BOOLEAN
    BY <1>1, <1>4 DEF TypeOK, Send, OnWrite, FinishFlush
  <2> QED BY <1>1, <1>2, <1>7, <2>1, <2>2 DEF TypeOK
<1>10. Fifo' /\ OutIsPrefix' /\ Len(out') <= nread'
  BY <1>1, <1>2, <1>3 DEF Fifo, OutIsPrefix, Cat
<1>11. FinMeansComplete'
  <2> SUFFICES ASSUME fin' PROVE producer_eof' /\ out' = Input
    BY DEF FinMeansComplete
  <2>1. buf' = <<>> /\ producer_eof /\ nread = Len(Input)
    BY <1>1, <1>7
  <2>2. out' = Take(Input, Len(Input))
    BY <1>2, <2>1, CatEmpty
  <2> QED BY <1>2, <2>1, <2>2, SubSeqFull DEF Take
<1>12. ConsumerIffBuffered'
  BY <1>5 DEF ConsumerIffBuffered
<1>13. NoLostWakeup' /\ NoReadAfterEof'
  BY <1>1, <1>2, <1>6, <1>8 DEF NoLostWakeup, NoReadAfterEof, ResumesProducer
<1>14. EofNotStranded'
  BY <1>2, <1>7 DEF EofNotStranded
<1>15. Bounded'
  BY <1>1, <1>2, <1>8, HighWaterNat DEF Bounded, HighWater
<1>16. producerOn' => Len(buf') <= HighWater
  BY <1>1, <1>2, <1>6, <1>8, HighWaterNat DEF ResumesProducer
<1> QED
  BY <1>1, <1>2, <1>7, <1>9, <1>10, <1>11, <1>12, <1>13, <1>14, <1>15, <1>16 DEF IndInv, HighWater

(* client_send_cb / remote_send_cb when on_write() fails: the session ends. *)
LEMMA SendFailsIndInv ==
    ASSUME IndInv, NEW n \in 0..SockBuf, SendFails(n)
    PROVE  IndInv'
<1>1. /\ TypeOK /\ consumerOn /\ ~dead /\ buf # <<>> /\ ~fin
      /\ nread \in 0..Len(Input) /\ Len(Input) \in Nat
      /\ Cat(out, buf) = Take(Input, nread) /\ (producer_eof => nread = Len(Input))
      /\ Len(buf) <= HighWater + ReadSize
  BY EmptyLen
  DEF IndInv, TypeOK, SendFails, OnWriteFails, ConsumerIffBuffered, Fifo, Cat, Bounded, HighWater
<1>2. /\ buf' \in Seq(Byte) /\ out' \in Seq(Byte) /\ Cat(out', buf') = Take(Input, nread')
      /\ n \in 0..Len(buf) /\ Len(buf) \in Nat /\ Len(buf') = Len(buf) - n
      /\ sndq' \in 0..SockBuf /\ nread' = nread
  BY <1>1, FlushStep DEF SendFails, OnWriteFails
<1>3. out' = Take(Input, Len(out')) /\ Len(out') \in 0..nread'
  BY <1>1, <1>2, PrefixSplit
<1>4. /\ dead' = TRUE /\ producerOn' = FALSE /\ consumerOn' = FALSE /\ reset' = TRUE
      /\ fin' = fin /\ producer_eof' = producer_eof
  BY DEF SendFails, OnWriteFails, Close
<1>5. TypeOK'
  BY <1>1, <1>2, <1>4 DEF TypeOK
<1>6. OutIsPrefix' /\ Len(out') <= nread' /\ Bounded'
  BY <1>1, <1>2, <1>3, HighWaterNat DEF OutIsPrefix, Bounded, HighWater
<1> QED
  BY <1>1, <1>2, <1>4, <1>5, <1>6
  DEF IndInv, Fifo, FinMeansComplete, ConsumerIffBuffered, NoLostWakeup, NoReadAfterEof,
      EofNotStranded

(* on_client_eof / on_remote_eof: producer_done() and the reader stops.     *)
LEMMA EofIndInv ==
    ASSUME IndInv, Eof
    PROVE  IndInv'
<1>1. /\ producerOn /\ ~dead /\ ~producer_eof /\ ~fin /\ ~reset /\ nread = Len(Input)
      /\ out \in Seq(Byte) /\ Cat(out, buf) = Take(Input, nread)
  BY DEF IndInv, TypeOK, Eof, NoReadAfterEof, FinMeansComplete, Fifo, Cat
<1>2. /\ UNCHANGED <<buf, consumerOn, out, sndq, nread, dead>>
      /\ producer_eof' = TRUE /\ producerOn' = FALSE
  BY DEF Eof, ProducerDone
<1>3. /\ fin' \in BOOLEAN /\ reset' \in BOOLEAN
      /\ (fin' \/ reset' => buf = <<>>)
      /\ (buf = <<>> => fin' \/ reset')
  <2>1. fin = FALSE /\ reset = FALSE
    BY <1>1 DEF IndInv, TypeOK
  <2>2. CASE buf = <<>>
    BY <2>1, <2>2 DEF Eof, ProducerDone, Shutdown
  <2>3. CASE buf # <<>>
    BY <2>1, <2>3 DEF Eof, ProducerDone
  <2> QED BY <2>2, <2>3
<1>4. buf = <<>> => out = Input
  <2> SUFFICES ASSUME buf = <<>> PROVE out = Input
    OBVIOUS
  <2>1. Cat(out, buf) = out
    BY <1>1, CatEmpty
  <2> QED BY <1>1, <2>1, SubSeqFull DEF Take
<1>5. TypeOK'
  BY <1>2, <1>3 DEF IndInv, TypeOK
<1>6. Fifo' /\ OutIsPrefix' /\ Bounded' /\ ConsumerIffBuffered'
  BY <1>2 DEF IndInv, Fifo, OutIsPrefix, Bounded, ConsumerIffBuffered, HighWater
<1>7. FinMeansComplete' /\ EofNotStranded' /\ NoLostWakeup' /\ NoReadAfterEof'
  BY <1>2, <1>3, <1>4 DEF FinMeansComplete, EofNotStranded, NoLostWakeup, NoReadAfterEof
<1> QED BY <1>1, <1>2, <1>3, <1>5, <1>6, <1>7 DEF IndInv

(* The owner ends the session. *)
LEMMA TeardownIndInv ==
    ASSUME IndInv, Teardown
    PROVE  IndInv'
<1>1. /\ UNCHANGED <<buf, producer_eof, nread, out, sndq, fin, reset>>
      /\ dead' = TRUE /\ producerOn' = FALSE /\ consumerOn' = FALSE
  BY DEF Teardown, Close
<1> QED
  BY <1>1
  DEF IndInv, TypeOK, Fifo, OutIsPrefix, FinMeansComplete, ConsumerIffBuffered, NoLostWakeup,
      NoReadAfterEof, EofNotStranded, Bounded, HighWater

(* The consumer's peer drains its socket, or nothing happens. *)
LEMMA PeerReadsIndInv ==
    ASSUME IndInv, \/ \E n \in 1..SockBuf : PeerReads(n)
                   \/ UNCHANGED vars
    PROVE  IndInv'
<1>1. UNCHANGED <<buf, producer_eof, producerOn, consumerOn, nread, out, fin, reset, dead>>
  BY DEF PeerReads, vars
<1>2. sndq' \in 0..SockBuf
  BY DEF IndInv, TypeOK, PeerReads, vars
<1> QED
  BY <1>1, <1>2
  DEF IndInv, TypeOK, Fifo, OutIsPrefix, FinMeansComplete, ConsumerIffBuffered, NoLostWakeup,
      NoReadAfterEof, EofNotStranded, Bounded, HighWater
-----------------------------------------------------------------------------
(* The inductive invariant, for every stream, limit and interleaving. *)
THEOREM Invariance == Spec => []IndInv
<1>1. Init => IndInv
  BY InitIndInv
<1>2. IndInv /\ [Next]_vars => IndInv'
  <2> SUFFICES ASSUME IndInv, [Next]_vars PROVE IndInv'
    OBVIOUS
  <2>1. CASE \E n \in 1..ReadSize : Read(n)
    BY <2>1, ReadIndInv
  <2>2. CASE \E n \in 0..SockBuf : Send(n)
    BY <2>2, SendIndInv
  <2>3. CASE \E n \in 0..SockBuf : SendFails(n)
    BY <2>3, SendFailsIndInv
  <2>4. CASE \E n \in 1..SockBuf : PeerReads(n)
    BY <2>4, PeerReadsIndInv
  <2>5. CASE Eof
    BY <2>5, EofIndInv
  <2>6. CASE Teardown
    BY <2>6, TeardownIndInv
  <2>7. CASE UNCHANGED vars
    BY <2>7, PeerReadsIndInv
  <2> QED BY <2>1, <2>2, <2>3, <2>4, <2>5, <2>6, <2>7 DEF Next
<1> QED BY <1>1, <1>2, PTL DEF Spec

(* Type correctness; in particular the kernel accepts no more than its send *)
(* buffer holds (write, flush) and no more is read than was sent.           *)
THEOREM TypeCorrect == Spec => []TypeOK
<1>1. IndInv => TypeOK
  BY DEF IndInv
<1> QED BY <1>1, Invariance, PTL

(* Nothing lost, repeated or reordered; whatever reached the peer is a      *)
(* prefix of the stream, and an orderly end of stream comes after all of it *)
(* (write, on_write, flush and producer_done of iochannel.cpp).             *)
THEOREM StreamIntegrity == Spec => [](Fifo /\ OutIsPrefix /\ FinMeansComplete)
<1>1. IndInv => Fifo /\ OutIsPrefix /\ FinMeansComplete
  BY DEF IndInv
<1> QED BY <1>1, Invariance, PTL

(* The writer watcher runs exactly while bytes wait (write, on_write).      *)
THEOREM WatcherDiscipline == Spec => []ConsumerIffBuffered
<1>1. IndInv => ConsumerIffBuffered
  BY DEF IndInv
<1> QED BY <1>1, Invariance, PTL

(* The reader watcher runs while there is room, never after its end of file,*)
(* and an ended and drained channel is shut down (on_write, producer_done). *)
THEOREM NoWakeupLost == Spec => [](ReaderDiscipline /\ EofNotStranded)
<1>1. IndInv => ReaderDiscipline /\ EofNotStranded
  BY DEF IndInv, ReaderDiscipline
<1> QED BY <1>1, Invariance, PTL

(* Back-pressure: the buffer exceeds its limit by less than one read, or by *)
(* one read if it started above it (write, line 46, and cmd_connect).       *)
THEOREM BoundedBuffer == Spec => []Bounded
<1>1. IndInv => Bounded
  BY DEF IndInv
<1> QED BY <1>1, Invariance, PTL
-----------------------------------------------------------------------------
(* Of two prefixes of a sequence the shorter is a prefix of the longer.     *)
LEMMA TakesOrdered ==
    ASSUME NEW S, NEW s \in Seq(S), NEW n, n \in 0..Len(s), NEW m, m \in 0..n
    PROVE  P!IsPrefix(Take(s, m), Take(s, n))
<1>1. Len(s) \in Nat /\ m \in Nat /\ n \in Nat /\ m \in 0..Len(s) /\ n - m \in 0..(Len(s) - m)
  BY EmptyLen
<1>2. /\ Take(s, m) \in Seq(S) /\ Len(Take(s, m)) = m
  BY <1>1, TakeDrop
<1>3. /\ Take(s, n) \in Seq(S) /\ Len(Take(s, n)) = n
  BY <1>1, TakeDrop
<1>4. Slice(s, m, n - m) \in Seq(S) /\ Cat(Take(s, m), Slice(s, m, n - m)) = Take(s, m + (n - m))
  BY <1>1, NextElements
<1>5. Take(Take(s, n), n) = Take(s, n)
  BY <1>3, SubSeqFull DEF Take
<1>6. m + (n - m) = n
  BY <1>1
<1>7. Take(s, m) = Take(Take(s, n), m)
  <2>1. n \in 0..Len(Take(s, n))
    BY <1>1, <1>3
  <2>2. Cat(Take(s, m), Slice(s, m, n - m)) = Take(Take(s, n), n)
    BY <1>4, <1>5, <1>6
  <2> QED BY ONLY <1>2, <1>3, <1>4, <2>1, <2>2, PrefixSplit
<1>8. SubSeq(Take(s, m), 1, m) = Take(s, m)
  BY <1>2, SubSeqFull
<1>9. SubSeq(Take(s, n), 1, m) = Take(s, m)
  BY <1>7 DEF Take
<1> QED BY <1>1, <1>2, <1>3, <1>8, <1>9 DEF P!IsPrefix

(* A step that only moves bytes forward is a transfer of the pipe.          *)
LEMMA TransferStep ==
    ASSUME IndInv, IndInv', ~dead, ~reset, ~fin, nread <= nread', Len(out) <= Len(out'),
           producer_eof => producer_eof' /\ nread' = nread
    PROVE  P!Transfer
<1>1. /\ nread \in 0..Len(Input) /\ nread' \in 0..Len(Input) /\ Len(Input) \in Nat
      /\ Len(out) \in 0..Len(out') /\ Len(out') \in 0..nread'
      /\ out = Take(Input, Len(out)) /\ out' = Take(Input, Len(out'))
      /\ nread \in 0..nread' /\ Len(out') \in 0..Len(Input)
  BY EmptyLen DEF IndInv, TypeOK, OutIsPrefix
<1>2. P!IsPrefix(Take(Input, nread), Take(Input, nread'))
  BY <1>1, TakesOrdered
<1>3. P!IsPrefix(out, out')
  BY <1>1, TakesOrdered
<1>4. P!IsPrefix(out', Take(Input, nread'))
  BY <1>1, TakesOrdered
<1>5. fin' => producer_eof' /\ out' = Take(Input, nread')
  BY SubSeqFull DEF IndInv, FinMeansComplete, Take
<1> QED BY <1>2, <1>3, <1>4, <1>5 DEF P!Transfer

(* Every step of the channel is a step of the pipe or leaves it alone.      *)
LEMMA StepRefines ==
    ASSUME IndInv, IndInv', [Next]_vars
    PROVE  [P!PipeNext]_P!pipeVars
<1>1. ASSUME NEW n \in 1..ReadSize, Read(n) PROVE P!PipeNext
  <2>1. /\ ~dead /\ ~producer_eof /\ ~fin /\ ~reset /\ nread' = nread + n /\ nread \in Nat
        /\ n \in 0..(Len(Input) - nread) /\ nread \in 0..Len(Input) /\ out \in Seq(Byte)
    BY <1>1 DEF IndInv, TypeOK, NoReadAfterEof, FinMeansComplete, Read
  <2>2. Len(out) <= Len(out')
    <3>1. CASE WriteFails
      BY <2>1, <3>1, EmptyLen DEF WriteFails
    <3>2. ASSUME NEW k \in 0..n, Write(Slice(Input, nread, n), k) PROVE Len(out) <= Len(out')
      <4>1. Slice(Input, nread, n) \in Seq(Byte) /\ Len(Slice(Input, nread, n)) = n
        BY <2>1, NextElements
      <4>2. Take(Slice(Input, nread, n), k) \in Seq(Byte)
        BY <4>1, TakeDrop
      <4>3. out' = Cat(out, Take(Slice(Input, nread, n), k))
        BY <3>2 DEF Write, Cat
      <4>4. Len(out') = Len(out) + Len(Take(Slice(Input, nread, n), k))
        BY <2>1, <4>2, <4>3, CatLen
      <4>5. Len(out) \in Nat /\ Len(Take(Slice(Input, nread, n), k)) \in Nat
        BY <2>1, <4>2, EmptyLen
      <4> QED BY <4>4, <4>5
    <3> QED BY <1>1, <3>1, <3>2 DEF Read
  <2> QED BY <2>1, <2>2, TransferStep DEF P!PipeNext
<1>2. ASSUME NEW n \in 0..SockBuf, Send(n) \/ SendFails(n) PROVE P!PipeNext
  <2>1. /\ TypeOK /\ ~dead /\ buf # <<>> /\ ~fin /\ ~reset /\ Flush(n)
        /\ nread' = nread /\ producer_eof' = producer_eof
    BY <1>2 DEF IndInv, Send, SendFails, OnWrite, OnWriteFails, ConsumerIffBuffered
  <2>2. Len(out) <= Len(out')
    <3>1. /\ out \in Seq(Byte) /\ buf \in Seq(Byte) /\ n \in 0..Len(buf)
      BY <2>1, EmptyLen DEF TypeOK, Flush
    <3>2. Take(buf, n) \in Seq(Byte)
      BY ONLY <3>1, TakeDrop
    <3>3. out' = Cat(out, Take(buf, n))
      BY <2>1 DEF Flush, Cat
    <3>4. Len(out') = Len(out) + Len(Take(buf, n))
      BY <3>1, <3>2, <3>3, CatLen
    <3>5. Len(out) \in Nat /\ Len(Take(buf, n)) \in Nat
      BY <3>1, <3>2, EmptyLen
    <3> QED BY <3>4, <3>5
  <2>3. nread \in Nat
    BY <2>1 DEF TypeOK
  <2> QED BY <2>1, <2>2, <2>3, TransferStep DEF P!PipeNext
<1>3. CASE Eof
  <2>1. /\ ~dead /\ ~producer_eof /\ ~fin /\ ~reset /\ nread' = nread /\ out' = out
        /\ nread \in Nat /\ Len(out) \in Nat
    BY <1>3, EmptyLen
    DEF IndInv, TypeOK, NoReadAfterEof, FinMeansComplete, Eof, ProducerDone
  <2> QED BY <2>1, TransferStep DEF P!PipeNext
<1>4. CASE Teardown
  BY <1>4 DEF Teardown, Close, P!PipeNext, P!Break
<1>5. CASE (\E n \in 1..SockBuf : PeerReads(n)) \/ UNCHANGED vars
  BY <1>5 DEF PeerReads, vars, P!pipeVars
<1> QED BY <1>1, <1>2, <1>3, <1>4, <1>5 DEF Next

(* IOChannel implements the pipe. *)
THEOREM Refinement == Spec => ImplementsPipe
<1>1. Init => P!PipeInit
  BY DEF Init, P!PipeInit
<1>2. IndInv /\ IndInv' /\ [Next]_vars => [P!PipeNext]_P!pipeVars
  BY StepRefines
<1> QED BY <1>1, <1>2, Invariance, PTL DEF Spec, ImplementsPipe, P!PipeSpec
=============================================================================
