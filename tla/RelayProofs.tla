----------------------------- MODULE RelayProofs -----------------------------
(***************************************************************************)
(* Theorems about Relay, for any sizes of buffers, reads and streams.      *)
(***************************************************************************)
EXTENDS Relay, SequenceParts, TLAPS

LEMMA Sides ==
    /\ Side = {"client", "remote"}
    /\ \A s \in Side : Other(s) \in Side /\ Other(s) # s /\ Other(Other(s)) = s
    /\ \A s, t \in Side : t = s \/ t = Other(s)
  BY DEF Side, Other

(* What a channel may be given at CONNECT.                                  *)
LEMMA Gifts ==
    ASSUME RelayAssumption
    PROVE  /\ Waiting \in Nat /\ ~Full(Waiting) /\ ~Full(0)
           /\ Given("client") = Waiting + Reply /\ Given("remote") = Early
           /\ \A s \in Side : Given(s) \in Nat
  <1>1. /\ Waiting \in Nat /\ Reply \in Nat /\ Early \in Nat /\ MaxBuf \in Nat
        /\ ~Full(Waiting) /\ ~Full(0)
    BY DEF RelayAssumption, Full
  <1>2. Given("client") = Waiting + Reply /\ Given("remote") = Early
    BY DEF Given
  <1> QED BY <1>1, <1>2, Sides

(* A buffer that is not full is within any high-water mark, and so is one   *)
(* that is smaller than another that is.                                    *)
LEMMA Water ==
    ASSUME RelayAssumption, NEW s \in Side, NEW b \in Nat
    PROVE  /\ ~Full(b) => HighWater(s, b)
           /\ \A c \in Nat : c <= b /\ HighWater(s, b) => HighWater(s, c)
  <1>1. Given(s) \in Nat /\ MaxBuf \in Nat
    BY Gifts DEF RelayAssumption
  <1> QED BY <1>1 DEF HighWater, Full

(* The parts of the invariant that are about the buffer of one channel:     *)
(* what a step that leaves b bytes in it must show.                         *)
Level(s, b) == b \in Nat /\ (b < ReadSize \/ HighWater(s, b - ReadSize))

(* One read more than the high-water mark is within the bound.              *)
LEMMA Levels ==
    ASSUME RelayAssumption, NEW s \in Side, NEW b \in Nat, HighWater(s, b),
           NEW n \in 0..ReadSize
    PROVE  Level(s, b + n)
  <1>1. b + n \in Nat /\ ReadSize \in Nat
    BY DEF RelayAssumption
  <1>2. CASE b + n < ReadSize
    BY <1>1, <1>2 DEF Level
  <1>3. CASE b + n >= ReadSize
    <2>1. b + n - ReadSize \in Nat /\ b + n - ReadSize <= b
      BY <1>1, <1>3
    <2> QED BY <1>1, <2>1, Water DEF Level
  <1> QED BY <1>1, <1>2, <1>3

(* A smaller buffer is within the bound too. *)
LEMMA Sinks ==
    ASSUME RelayAssumption, NEW s \in Side, NEW b \in Nat, NEW c \in Nat, c <= b, Level(s, b)
    PROVE  Level(s, c)
  <1>1. ReadSize \in Nat
    BY DEF RelayAssumption
  <1>2. CASE c < ReadSize
    BY <1>2 DEF Level
  <1>3. CASE c >= ReadSize
    <2>1. c - ReadSize \in Nat /\ b - ReadSize \in Nat /\ c - ReadSize <= b - ReadSize
      BY <1>1, <1>3
    <2>2. HighWater(s, b - ReadSize)
      BY <1>1, <1>3 DEF Level
    <2> QED BY <2>1, <2>2, Water DEF Level
  <1> QED BY <1>1, <1>2, <1>3
-----------------------------------------------------------------------------
LEMMA InitKeeps == ASSUME RelayAssumption, Init PROVE IndInv
  <1>1. PICK q \in 0..SockBuf :
          /\ buf = [client |-> Waiting, remote |-> 0]
          /\ sndq = [client |-> q, remote |-> 0]
    BY DEF Init
  <1>2. /\ Waiting \in Nat /\ ~Full(Waiting) /\ ~Full(0)
        /\ MaxBuf \in Nat /\ SockBuf \in Nat /\ ReadSize \in Nat
    BY Gifts DEF RelayAssumption
  <1>3. buf \in [Side -> Nat] /\ sndq \in [Side -> 0..SockBuf]
    BY <1>1, <1>2, Sides
  <1>4. \A s \in Side : Level(s, buf[s])
    <2>1. \A s \in Side : ~Full(buf[s])
      BY <1>1, <1>2, Sides
    <2>2. ASSUME NEW s \in Side PROVE Level(s, buf[s])
      <3>1. buf[s] \in Nat /\ HighWater(s, buf[s]) /\ 0 \in 0..ReadSize /\ buf[s] + 0 = buf[s]
        BY <1>2, <1>3, <2>1, Water
      <3>2. Level(s, buf[s] + 0)
        BY ONLY RelayAssumption, <3>1, Levels, s \in Side
      <3> QED BY <3>1, <3>2
    <2> QED BY <2>2
  <1>5. /\ reader \in [Side -> BOOLEAN] /\ writer \in [Side -> BOOLEAN]
        /\ producer_eof \in [Side -> BOOLEAN] /\ fin \in [Side -> BOOLEAN]
        /\ \A s \in Side : producer_eof[s] = FALSE /\ fin[s] = FALSE
    <2>1. reader \in [Side -> BOOLEAN]
      BY Zenon DEF Init
    <2>4. \A s \in Side : (buf[s] > 0) \in BOOLEAN
      BY <1>3
    <2>5. writer \in [Side -> BOOLEAN]
      BY <2>4, Zenon DEF Init
    <2>2. producer_eof \in [Side -> BOOLEAN] /\ fin \in [Side -> BOOLEAN]
      BY Zenon DEF Init
    <2>3. \A s \in Side : producer_eof[s] = FALSE /\ fin[s] = FALSE
      BY Zenon DEF Init
    <2> QED BY <2>1, <2>2, <2>3, <2>5
  <1>6. TypeOK
    BY <1>3, <1>4, <1>5 DEF Init, TypeOK, Level, RelayAssumption
  <1> QED BY <1>1, <1>5, <1>6, Sides DEF Init, IndInv, HalfClose, Watchers, Paused

(* CONNECT: what was waiting in client.iochan is joined by the reply, and   *)
(* remote.iochan takes over the rest of the input.                          *)
LEMMA ConnectKeeps == ASSUME RelayAssumption, IndInv, Connect PROVE IndInv'
  <1>1. PICK k \in Takes("client", Reply) :
          /\ buf' = [client |-> buf["client"] + Reply - k, remote |-> Early]
          /\ sndq' = [sndq EXCEPT !["client"] = @ + k]
          /\ reader' = [s \in Side |-> s = "remote" \/ ~Full(buf["client"] + Reply - k)]
          /\ writer' = [s \in Side |-> buf'[s] > 0]
    BY Zenon DEF Connect
  <1> DEFINE w == buf["client"]
             b == w + Reply - k
  <1>2. /\ w = Waiting /\ w \in Nat /\ Reply \in Nat /\ Early \in Nat /\ MaxBuf \in Nat
    <2>1. w = Waiting
      BY Zenon DEF Connect, IndInv
    <2> QED BY <2>1, Gifts DEF RelayAssumption
  <1>3. \A s \in Side : ~producer_eof[s] /\ ~fin[s]
    <2>1. \A s \in Side : ~producer_eof[s]
      BY Zenon DEF Connect, IndInv
    <2>2. \A s \in Side : fin[s] => producer_eof[s]
      BY Zenon DEF IndInv
    <2> QED BY <2>1, <2>2, Zenon
  <1>4. k \in Nat /\ k <= Reply /\ sndq["client"] + k \in 0..SockBuf
    BY <1>2, Sides DEF Takes, Room, IndInv, TypeOK, RelayAssumption
  <1>5. b \in Nat /\ b <= w + Reply
    BY <1>2, <1>4
  <1>6. HighWater("client", b) /\ HighWater("remote", Early)
    BY <1>2, <1>5, Gifts DEF HighWater
  <1> HIDE DEF b
  <1>7. buf' \in [Side -> Nat] /\ \A s \in Side : HighWater(s, buf'[s]) /\ Level(s, buf'[s])
    <2>1. buf' = [client |-> b, remote |-> Early] /\ b \in Nat /\ Early \in Nat
      BY <1>1, <1>2, <1>5 DEF b
    <2>2. buf' \in [Side -> Nat] /\ \A s \in Side : HighWater(s, buf'[s])
      BY <1>6, <2>1, Sides
    <2>3. \A s \in Side : Level(s, buf'[s] + 0)
      BY <2>2, Levels DEF RelayAssumption
    <2> QED BY <2>2, <2>3
  <1>8. sndq' \in [Side -> 0..SockBuf]
    BY <1>1, <1>4, Sides DEF IndInv, TypeOK
  <1>9. reader' \in [Side -> BOOLEAN]
    BY <1>1, Zenon
  <1>10. writer' \in [Side -> BOOLEAN] /\ \A s \in Side : writer'[s] <=> buf'[s] > 0
    <2>1. \A s \in Side : (buf'[s] > 0) \in BOOLEAN
      BY <1>7
    <2>2. writer' \in [Side -> BOOLEAN]
      BY <1>1, <2>1, Zenon
    <2>3. \A s \in Side : writer'[s] <=> buf'[s] > 0
      BY <1>1, Zenon
    <2> QED BY <2>2, <2>3
  <1>11. state' = "STREAM" /\ UNCHANGED <<producer_eof, unread, fin>>
    BY DEF Connect
  <1>12. TypeOK'
    BY <1>7, <1>8, <1>9, <1>10, <1>11 DEF IndInv, TypeOK, Level
  <1>13. \A s \in Side : ~producer_eof'[s] /\ ~fin'[s]
    BY <1>3, <1>11, Zenon
  <1>14. HalfClose' /\ Watchers'
    BY <1>10, <1>11, <1>13, Sides DEF HalfClose, Watchers
  <1>15. Paused'
    <2> SUFFICES ASSUME Fits PROVE \A s \in Side : reader'[s]
      BY DEF Paused, Fits
    <2>1. ~Full(b)
      BY <1>2, <1>5 DEF Fits, Full
    <2> QED BY <1>1, <2>1 DEF b
  <1> QED BY <1>7, <1>11, <1>12, <1>13, <1>14, <1>15, Sides DEF IndInv

(* What a step may use of the invariant, each with what it is needed for. *)
LEMMA Parts ==
    ASSUME RelayAssumption, IndInv
    PROVE  /\ MaxBuf \in Nat /\ ReadSize \in Nat /\ SockBuf \in Nat
           /\ buf \in [Side -> Nat] /\ unread \in [Side -> Nat]
           /\ sndq \in [Side -> 0..SockBuf]
           /\ reader \in [Side -> BOOLEAN] /\ writer \in [Side -> BOOLEAN]
           /\ producer_eof \in [Side -> BOOLEAN] /\ fin \in [Side -> BOOLEAN]
           /\ \A s \in Side : Level(s, buf[s])
           /\ \A s \in Side : fin[s] => unread[Other(s)] = 0 /\ buf[s] = 0
           /\ \A s \in Side : producer_eof[s] => unread[Other(s)] = 0
           /\ \A s \in Side : fin[s] => producer_eof[s]
  <1>1. MaxBuf \in Nat /\ ReadSize \in Nat /\ SockBuf \in Nat
    BY DEF RelayAssumption
  <1>2. TypeOK /\ HalfClose
    BY DEF IndInv
  <1>3. \A s \in Side : Level(s, buf[s])
    BY <1>2 DEF TypeOK, Level
  <1>4. /\ \A s \in Side : producer_eof[s] => unread[Other(s)] = 0
        /\ \A s \in Side : fin[s] => producer_eof[s]
    BY Zenon DEF IndInv
  <1>5. \A s \in Side : fin[s] => unread[Other(s)] = 0 /\ buf[s] = 0
    BY <1>2, Zenon DEF HalfClose
  <1> QED BY <1>1, <1>2, <1>3, <1>4, <1>5, Zenon DEF TypeOK

LEMMA Streaming ==
    ASSUME IndInv, state = "STREAM", NEW s \in Side
    PROVE  /\ writer[s] <=> buf[s] > 0
           /\ reader[s] => ~producer_eof[Other(s)]
           /\ reader[Other(s)] => HighWater(s, buf[s])
           /\ Fits /\ ~reader[s] /\ ~producer_eof[Other(s)] => Full(buf[Other(s)])
  BY Zenon DEF IndInv, Watchers, Paused

(* A session that ended leaves nothing to show but its buffers and streams. *)
LEMMA EndKeeps ==
    ASSUME RelayAssumption, IndInv, NEW how \in {"eof", "failed", "refused"}, End(how), UNCHANGED unread,
           how = "eof" => \A s \in Side : unread[s] = 0
    PROVE  IndInv'
  <1>1. reader' \in [Side -> BOOLEAN] /\ writer' \in [Side -> BOOLEAN]
    BY Zenon DEF End
  <1>2. state' = how /\ UNCHANGED <<buf, producer_eof, sndq, fin, unread>>
    BY DEF End
  <1>3. TypeOK'
    <2>1. TypeOK
      BY DEF IndInv
    <2> QED BY <1>1, <1>2, <2>1 DEF TypeOK
  <1>4. HalfClose'
    BY <1>2, Parts, Zenon DEF HalfClose
  <1>5. Watchers'
    BY <1>2 DEF Watchers
  <1>6. /\ \A s \in Side : producer_eof'[s] => unread'[Other(s)] = 0
        /\ \A s \in Side : fin'[s] => producer_eof'[s]
    BY <1>2, Parts, Zenon
  <1>7. state' # "STREAM" /\ state' # "CMD"
    BY <1>2
  <1>8. Paused'
    BY <1>7 DEF Paused
  <1> QED BY <1>3, <1>4, <1>5, <1>6, <1>7, <1>8, Zenon DEF IndInv

(* Bytes read from s are for the other side; back-pressure has kept room.   *)
LEMMA RecvKeeps ==
    ASSUME RelayAssumption, IndInv, NEW s \in Side, Recv(s)
    PROVE  IndInv'
  <1> DEFINE o == Other(s)
  <1>0. PICK n \in 1..ReadSize :
          /\ n <= unread[s]
          /\ unread' = [unread EXCEPT ![s] = @ - n]
          /\ \E k \in Takes(o, n) : Write(o, n, k)
    BY Zenon DEF Recv
  <1>1. PICK k \in Takes(o, n) : Write(o, n, k)
    BY <1>0
  <1>2. /\ state = "STREAM" /\ reader[s] /\ state' = "STREAM"
        /\ UNCHANGED <<producer_eof, fin>>
    BY Zenon DEF Recv
  <1>3. o \in Side /\ o # s /\ Other(o) = s /\ \A t \in Side : t = s \/ t = o
    BY Sides
  <1> DEFINE b == buf[o] + n - k
  <1>4. /\ ~producer_eof[o] /\ ~fin[o] /\ HighWater(o, buf[o])
    BY <1>2, <1>3, Streaming, Parts, Zenon
  <1>5. /\ k \in 0..n /\ sndq[o] + k \in 0..SockBuf /\ (buf[o] > 0 => k = 0)
    BY <1>1, <1>3, Parts DEF Takes, Room
  <1>6. b \in Nat /\ n - k \in 0..ReadSize /\ b = buf[o] + (n - k) /\ (buf[o] > 0 => b > 0)
    BY <1>0, <1>1, <1>3, <1>5, Parts
  <1>7. Level(o, b)
    <2>1. buf[o] \in Nat
      BY <1>3, Parts
    <2>2. Level(o, buf[o] + (n - k))
      BY <1>3, <1>4, <1>6, <2>1, Levels
    <2> QED BY <1>6, <2>2
  <1>8. /\ buf' = [buf EXCEPT ![o] = b]
        /\ sndq' = [sndq EXCEPT ![o] = @ + k]
        /\ writer' = [writer EXCEPT ![o] = @ \/ b > 0]
        /\ reader' = [reader EXCEPT ![Other(o)] = @ /\ ~Full(b)]
    BY <1>1, Zenon DEF Write
  <1> HIDE DEF b, o
  <1>9. /\ buf' \in [Side -> Nat] /\ sndq' \in [Side -> 0..SockBuf] /\ unread' \in [Side -> Nat]
        /\ buf'[o] = b /\ buf'[s] = buf[s] /\ unread'[o] = unread[o]
    <2>1. buf' \in [Side -> Nat] /\ buf'[o] = b /\ buf'[s] = buf[s]
      BY <1>3, <1>6, <1>8, Parts
    <2>2. sndq' \in [Side -> 0..SockBuf]
      BY <1>3, <1>5, <1>8, Parts
    <2>3. unread' \in [Side -> Nat] /\ unread'[o] = unread[o]
      BY <1>0, <1>3, Parts
    <2> QED BY <2>1, <2>2, <2>3
  <1>10. /\ reader' \in [Side -> BOOLEAN] /\ reader'[o] = reader[o]
         /\ reader'[s] <=> ~Full(b)
    BY <1>2, <1>3, <1>8, Parts, Zenon
  <1>11. /\ writer' \in [Side -> BOOLEAN] /\ writer'[s] = writer[s]
         /\ writer'[o] <=> (writer[o] \/ b > 0)
    <2>1. (b > 0) \in BOOLEAN
      BY <1>6
    <2> QED BY <1>3, <1>8, <2>1, Parts, Zenon
  <1>12. TypeOK'
    <2>1. \A t \in Side : Level(t, buf'[t])
      BY <1>3, <1>7, <1>9, Parts, Zenon
    <2>2. producer_eof' \in [Side -> BOOLEAN] /\ fin' \in [Side -> BOOLEAN]
      BY <1>2, Parts, Zenon
    <2> QED BY <1>2, <1>9, <1>10, <1>11, <2>1, <2>2 DEF TypeOK, Level
  <1>13. HalfClose'
    <2>1. \A t \in Side : fin'[t] => unread'[Other(t)] = 0 /\ buf'[t] = 0
      BY <1>2, <1>3, <1>4, <1>9, Parts, Zenon DEF o
    <2> QED BY <1>2, <2>1 DEF HalfClose
  <1>14. Watchers'
    <2>1. writer'[s] <=> buf'[s] > 0
      BY <1>2, <1>9, <1>11, Streaming, Zenon
    <2>2. writer'[o] <=> buf'[o] > 0
      BY <1>2, <1>3, <1>6, <1>9, <1>11, Streaming, Zenon
    <2>3. \A t \in Side : reader'[t] => ~producer_eof'[Other(t)]
      <3>1. reader'[s] => ~producer_eof'[Other(s)]
        BY <1>2, <1>4, Zenon DEF o
      <3>2. reader'[o] => ~producer_eof'[Other(o)]
        BY <1>2, <1>3, <1>10, Streaming, Zenon
      <3> QED BY <1>3, <3>1, <3>2, Zenon
    <2> QED BY <1>3, <2>1, <2>2, <2>3, Zenon DEF Watchers
  <1>15. \A t \in Side : reader'[Other(t)] => HighWater(t, buf'[t])
    <2>1. reader'[s] => HighWater(o, buf'[o])
      BY <1>3, <1>6, <1>9, <1>10, Water
    <2>2. reader'[o] => HighWater(s, buf'[s])
      BY <1>2, <1>9, <1>10, Streaming, Zenon DEF o
    <2> QED BY <1>3, <2>1, <2>2, Zenon DEF o
  <1>16. /\ \A t \in Side : producer_eof'[t] => unread'[Other(t)] = 0
         /\ \A t \in Side : fin'[t] => producer_eof'[t]
    BY <1>2, <1>3, <1>4, <1>9, Parts, Zenon DEF o
  <1>17. state' = "STREAM" /\ state' # "CMD"
    BY <1>2
  <1>18. Paused'
    <2>1. ~reader'[s] => Full(buf'[o])
      BY <1>9, <1>10, Zenon
    <2>2. Fits /\ ~reader'[o] /\ ~producer_eof'[s] => Full(buf'[s])
      BY <1>2, <1>3, <1>9, <1>10, Streaming, Zenon
    <2> QED BY <1>3, <2>1, <2>2, Zenon DEF Paused, Fits, o
  <1> QED BY <1>12, <1>13, <1>14, <1>15, <1>16, <1>17, <1>18, Zenon DEF IndInv

(* An end of file of s is noted for the channel it feeds, or is the second. *)
LEMMA RecvEofKeeps ==
    ASSUME RelayAssumption, IndInv, NEW s \in Side, RecvEof(s)
    PROVE  IndInv'
  <1> DEFINE o == Other(s)
  <1>1. state = "STREAM" /\ reader[s] /\ unread[s] = 0 /\ UNCHANGED unread
    BY Zenon DEF RecvEof
  <1>2. o \in Side /\ o # s /\ Other(o) = s /\ \A t \in Side : t = s \/ t = o
    BY Sides
  <1>3. CASE producer_eof[s]
    <2>1. End("eof")
      BY <1>3, Zenon DEF RecvEof
    <2>2. \A t \in Side : unread[t] = 0
      BY <1>1, <1>2, <1>3, Parts, Zenon
    <2> QED BY <1>1, <2>1, <2>2, EndKeeps
  <1>4. CASE ~producer_eof[s]
    <2>1. /\ producer_eof' = [producer_eof EXCEPT ![o] = TRUE]
          /\ reader' = [reader EXCEPT ![s] = FALSE]
          /\ UNCHANGED <<state, buf, writer, sndq>>
          /\ (buf[o] = 0 /\ fin' = [fin EXCEPT ![o] = TRUE]) \/ UNCHANGED fin
      BY <1>4, Zenon DEF RecvEof, Shutdown
    <2> HIDE DEF o
    <2>2. /\ producer_eof' \in [Side -> BOOLEAN] /\ producer_eof'[o] /\ producer_eof'[s] = producer_eof[s]
          /\ reader' \in [Side -> BOOLEAN] /\ ~reader'[s] /\ reader'[o] = reader[o]
      BY <1>2, <2>1, Parts, Zenon
    <2>3. fin' \in [Side -> BOOLEAN] /\ fin'[s] = fin[s] /\ (fin'[o] => buf[o] = 0)
      <3>1. CASE buf[o] = 0 /\ fin' = [fin EXCEPT ![o] = TRUE]
        BY <1>2, <3>1, Parts, Zenon
      <3>2. CASE UNCHANGED fin
        <4>1. fin[o] => buf[o] = 0
          BY <1>2, Parts, Zenon
        <4> QED BY <3>2, <4>1, Parts, Zenon
      <3> QED BY <2>1, <3>1, <3>2
    <2>4. TypeOK'
      <3>1. TypeOK
        BY DEF IndInv
      <3> QED BY <1>1, <2>1, <2>2, <2>3, <3>1 DEF TypeOK
    <2>5. HalfClose'
      <3>1. fin'[s] => unread'[Other(s)] = 0 /\ buf'[s] = 0
        BY <1>1, <2>1, <2>3, Parts, Zenon
      <3>2. fin'[o] => unread'[Other(o)] = 0 /\ buf'[o] = 0
        BY <1>1, <1>2, <2>1, <2>3, Zenon
      <3>3. state' # "eof"
        BY <1>1, <2>1
      <3> QED BY <1>2, <3>1, <3>2, <3>3, Zenon DEF HalfClose
    <2>6. Watchers'
      <3>1. \A t \in Side : writer'[t] <=> buf'[t] > 0
        BY <1>1, <2>1, Streaming, Zenon
      <3>2. reader'[o] => ~producer_eof'[Other(o)]
        BY <1>2, <1>4, <2>2, Zenon
      <3> QED BY <1>2, <2>2, <3>1, <3>2, Zenon DEF Watchers
    <2>7. \A t \in Side : reader'[Other(t)] => HighWater(t, buf'[t])
      <3>1. reader'[Other(s)] => HighWater(s, buf'[s])
        BY <1>1, <2>1, <2>2, Streaming, Zenon DEF o
      <3> QED BY <1>2, <2>2, <3>1, Zenon
    <2>8. \A t \in Side : producer_eof'[t] => unread'[Other(t)] = 0
      BY <1>1, <1>2, <1>4, <2>2, Zenon
    <2>9. \A t \in Side : fin'[t] => producer_eof'[t]
      BY <1>2, <2>2, <2>3, Parts, Zenon
    <2>10. state' # "CMD"
      BY <1>1, <2>1
    <2>11. Paused'
      <3>1. Fits /\ ~reader'[o] /\ ~producer_eof'[s] => Full(buf'[s])
        BY <1>1, <1>2, <2>1, <2>2, Streaming, Zenon
      <3> QED BY <1>2, <2>2, <3>1, Zenon DEF Paused, Fits, o
    <2> QED BY <2>4, <2>5, <2>6, <2>7, <2>8, <2>9, <2>10, <2>11, Zenon DEF IndInv
  <1> QED BY <1>3, <1>4

(* A flush makes room, and only room lets the producer run again.           *)
LEMMA SendKeeps ==
    ASSUME RelayAssumption, IndInv, NEW s \in Side, NEW n \in 0..SockBuf, Send(s, n)
    PROVE  IndInv'
  <1> DEFINE o == Other(s)
             b == buf[s] - n
  <1>1. /\ state = "STREAM" /\ writer[s] /\ n <= buf[s] /\ n <= Room(s)
        /\ UNCHANGED <<state, producer_eof, unread>>
    BY Zenon DEF Send
  <1>2. /\ buf' = [buf EXCEPT ![s] = b]
        /\ sndq' = [sndq EXCEPT ![s] = @ + n]
        /\ writer' = [writer EXCEPT ![s] = b > 0]
        /\ IF b = 0 /\ producer_eof[s] THEN fin' = [fin EXCEPT ![s] = TRUE] ELSE UNCHANGED fin
        /\ reader' = [reader EXCEPT ![o] = @ \/ ~(producer_eof[s] \/ Full(b))]
    BY Zenon DEF Send, Shutdown
  <1>3. o \in Side /\ o # s /\ Other(o) = s /\ \A t \in Side : t = s \/ t = o
    BY Sides
  <1>4. b \in Nat /\ b <= buf[s] /\ sndq[s] + n \in 0..SockBuf
    BY <1>1, Parts DEF Room
  <1>5. Level(s, b)
    <2>1. Level(s, buf[s]) /\ buf[s] \in Nat
      BY Parts, Zenon
    <2> QED BY <1>4, <2>1, Sinks
  <1>6. \A c \in Nat : c <= buf[s] /\ HighWater(s, buf[s]) => HighWater(s, c)
    BY Water, Parts
  <1> HIDE DEF b, o
  <1>7. /\ buf' \in [Side -> Nat] /\ sndq' \in [Side -> 0..SockBuf]
        /\ buf'[s] = b /\ buf'[o] = buf[o]
    BY <1>2, <1>3, <1>4, Parts
  <1>8. /\ writer' \in [Side -> BOOLEAN] /\ writer'[o] = writer[o]
        /\ writer'[s] <=> b > 0
    <2>1. (b > 0) \in BOOLEAN
      BY <1>4
    <2> QED BY <1>2, <1>3, <2>1, Parts, Zenon
  <1>9. /\ reader' \in [Side -> BOOLEAN] /\ reader'[s] = reader[s]
        /\ reader'[o] <=> reader[o] \/ (~producer_eof[s] /\ ~Full(b))
    BY <1>2, <1>3, Parts, Zenon
  <1>10. /\ fin' \in [Side -> BOOLEAN] /\ fin'[o] = fin[o]
         /\ fin'[s] => producer_eof[s] /\ b = 0
    <2>1. fin[s] => producer_eof[s] /\ b = 0
      <3>1. fin[s] => producer_eof[s] /\ buf[s] = 0
        BY Parts, Zenon
      <3>2. buf[s] = 0 => b = 0
        BY <1>4
      <3> QED BY <3>1, <3>2
    <2>2. CASE b = 0 /\ producer_eof[s]
      BY <1>2, <1>3, <2>2, Parts, Zenon
    <2>3. CASE ~(b = 0 /\ producer_eof[s])
      BY <1>2, <1>3, <2>1, <2>3, Parts, Zenon
    <2> QED BY <2>2, <2>3
  <1>11. TypeOK'
    <2>1. \A t \in Side : Level(t, buf'[t])
      BY <1>3, <1>5, <1>7, Parts, Zenon
    <2>2. producer_eof' \in [Side -> BOOLEAN] /\ unread' \in [Side -> Nat] /\ state' = "STREAM"
      BY <1>1, Parts, Zenon
    <2> QED BY <1>7, <1>8, <1>9, <1>10, <2>1, <2>2 DEF TypeOK, Level
  <1>12. HalfClose'
    <2>1. fin'[s] => unread'[Other(s)] = 0 /\ buf'[s] = 0
      BY <1>1, <1>7, <1>10, Parts, Zenon
    <2>2. fin'[o] => unread'[Other(o)] = 0 /\ buf'[o] = 0
      BY <1>1, <1>3, <1>7, <1>10, Parts, Zenon
    <2>3. state' # "eof"
      BY <1>1
    <2> QED BY <1>3, <2>1, <2>2, <2>3, Zenon DEF HalfClose
  <1>13. Watchers'
    <2>1. writer'[s] <=> buf'[s] > 0
      BY <1>7, <1>8, Zenon
    <2>2. writer'[o] <=> buf'[o] > 0
      BY <1>1, <1>3, <1>7, <1>8, Streaming, Zenon
    <2>3. reader'[s] => ~producer_eof'[Other(s)]
      BY <1>1, <1>9, Streaming, Zenon
    <2>4. reader'[o] => ~producer_eof'[Other(o)]
      BY <1>1, <1>3, <1>9, Streaming, Zenon
    <2> QED BY <1>3, <2>1, <2>2, <2>3, <2>4, Zenon DEF Watchers
  <1>14. \A t \in Side : reader'[Other(t)] => HighWater(t, buf'[t])
    <2>1. reader'[o] => HighWater(s, buf'[s])
      <3>1. reader[o] => HighWater(s, b)
        <4>1. reader[o] => HighWater(s, buf[s])
          BY <1>1, Streaming, Zenon DEF o
        <4> QED BY <1>4, <1>6, <4>1
      <3>2. ~Full(b) => HighWater(s, b)
        BY <1>4, Water
      <3> QED BY <1>7, <1>9, <3>1, <3>2, Zenon
    <2>2. reader'[s] => HighWater(o, buf'[o])
      BY <1>1, <1>3, <1>7, <1>9, Streaming, Zenon
    <2> QED BY <1>3, <2>1, <2>2, Zenon DEF o
  <1>15. /\ \A t \in Side : producer_eof'[t] => unread'[Other(t)] = 0
         /\ \A t \in Side : fin'[t] => producer_eof'[t]
    BY <1>1, <1>3, <1>10, Parts, Zenon
  <1>16. state' # "CMD"
    BY <1>1
  <1>17. Paused'
    <2>1. ~reader'[o] /\ ~producer_eof'[s] => Full(buf'[s])
      BY <1>1, <1>7, <1>9, Zenon
    <2>2. Fits /\ ~reader'[s] /\ ~producer_eof'[o] => Full(buf'[o])
      BY <1>1, <1>3, <1>7, <1>9, Streaming, Zenon DEF o
    <2> QED BY <1>3, <2>1, <2>2, Zenon DEF Paused, Fits, o
  <1> QED BY <1>11, <1>12, <1>13, <1>14, <1>15, <1>16, <1>17, Zenon DEF IndInv

(* What the kernels hold is in the type invariant only. *)
LEMMA PeerReadsKeeps ==
    ASSUME RelayAssumption, IndInv, NEW s \in Side, PeerReads(s)
    PROVE  IndInv'
  <1>1. PICK n \in 1..sndq[s] : sndq' = [sndq EXCEPT ![s] = @ - n]
    BY Zenon DEF PeerReads
  <1>2. UNCHANGED <<state, buf, producer_eof, reader, writer, unread, fin>>
    BY DEF PeerReads, watchers
  <1>3. sndq' \in [Side -> 0..SockBuf]
    BY <1>1, Parts
  <1> QED BY <1>2, <1>3 DEF IndInv, TypeOK, HalfClose, Watchers, Paused
-----------------------------------------------------------------------------
(* The inductive invariant holds in every state: of every pair of sockets,  *)
(* whatever the sizes, however reads and writes are cut and interleaved.    *)
THEOREM Invariance == Spec => []IndInv
  <1>1. Init => IndInv
    BY RelayAssumption, InitKeeps
  <1>2. IndInv /\ [Next]_vars => IndInv'
    <2> SUFFICES ASSUME IndInv, [Next]_vars PROVE IndInv'
      OBVIOUS
    <2>1. CASE Connect
      BY <2>1, RelayAssumption, ConnectKeeps
    <2>2. CASE Fail
      <3>1. (End("refused") \/ End("failed")) /\ UNCHANGED unread
        BY <2>2, Zenon DEF Fail
      <3> QED BY <3>1, RelayAssumption, EndKeeps
    <2>3. ASSUME NEW s \in Side, Recv(s) PROVE IndInv'
      BY <2>3, RelayAssumption, RecvKeeps
    <2>4. ASSUME NEW s \in Side, RecvEof(s) PROVE IndInv'
      BY <2>4, RelayAssumption, RecvEofKeeps
    <2>5. ASSUME NEW s \in Side, PeerReads(s) PROVE IndInv'
      BY <2>5, RelayAssumption, PeerReadsKeeps
    <2>6. ASSUME NEW s \in Side, NEW n \in 0..SockBuf, Send(s, n) PROVE IndInv'
      BY <2>6, RelayAssumption, SendKeeps
    <2>7. CASE UNCHANGED vars
      BY <2>7 DEF vars, watchers, IndInv, TypeOK, HalfClose, Watchers, Paused
    <2> QED BY <2>1, <2>2, <2>3, <2>4, <2>5, <2>6, <2>7, Zenon DEF Next
  <1> QED BY <1>1, <1>2, PTL DEF Spec

(* The memory of a session is bounded: a channel holds what it was given at *)
(* CONNECT or less than k_write_buf_max_size, and one read more.            *)
THEOREM Types == Spec => []TypeOK
  <1>1. IndInv => TypeOK
    BY DEF IndInv
  <1> QED BY <1>1, Invariance, PTL

(* A half-closed session lives, and an end of file is passed on only behind *)
(* the last byte (on_client_eof, on_remote_eof, IOChannel::on_write).       *)
THEOREM HalfClosed == Spec => []HalfClose
  <1>1. IndInv => HalfClose
    BY DEF IndInv
  <1> QED BY <1>1, Invariance, PTL

(* Watchers agree with buffers and ends of file, as IOChannel asserts, and a*)
(* side that has not ended is left unread only while the channel it feeds is*)
(* full, so that on_write() will resume it, if the replies fit.             *)
THEOREM FlowControlled == Spec => []FlowControl
  <1>1. IndInv => FlowControl
    BY DEF IndInv, FlowControl
  <1> QED BY <1>1, Invariance, PTL

-----------------------------------------------------------------------------
(* Numbered bytes, as the refinement mapping uses them.                     *)

(* What n numbered bytes are.                                               *)
LEMMA BytesParts ==
    ASSUME NEW m \in Nat, NEW n \in Nat
    PROVE  /\ Bytes(m, n) \in Seq(Nat) /\ Len(Bytes(m, n)) = n
           /\ \A i \in 1..n : Bytes(m, n)[i] = m + i
           /\ Bytes(m, n) = <<>> <=> n = 0
  <1>1. Bytes(m, n) \in [1..n -> Nat]
    BY DEF Bytes
  <1>2. Bytes(m, n) \in Seq(Nat) /\ Len(Bytes(m, n)) = n
    BY <1>1
  <1>3. \A i \in 1..n : Bytes(m, n)[i] = m + i
    BY DEF Bytes
  <1>4. Bytes(m, n) = <<>> => n = 0
    BY <1>2, EmptySeq
  <1>5. n = 0 => Bytes(m, n) = <<>>
    <2>1. Bytes(m, n) # <<>> => Len(Bytes(m, n)) \in Nat \ {0}
      BY <1>2, EmptySeq
    <2> QED BY <1>2, <2>1
  <1> QED BY <1>2, <1>3, <1>4, <1>5

(* A sequence of n bytes numbered from m + 1 is those bytes.                *)
LEMMA AreBytes ==
    ASSUME NEW m \in Nat, NEW n \in Nat, NEW q \in Seq(Nat), Len(q) = n,
           \A i \in 1..n : q[i] = m + i
    PROVE  q = Bytes(m, n)
  <1>1. /\ Bytes(m, n) \in Seq(Nat) /\ Len(Bytes(m, n)) = n
        /\ \A i \in 1..n : Bytes(m, n)[i] = m + i
    BY BytesParts
  <1>2. \A i \in 1..Len(q) : q[i] = Bytes(m, n)[i]
    BY <1>1
  <1> QED BY <1>1, <1>2, SeqEqual

(* k of them behind the first j.                                            *)
LEMMA BytesCut ==
    ASSUME NEW m \in Nat, NEW n \in Nat, NEW j \in Nat, NEW k \in Nat, j + k <= n
    PROVE  Cut(Bytes(m, n), j, k) = Bytes(m + j, k)
  <1>1. /\ Bytes(m, n) \in Seq(Nat) /\ Len(Bytes(m, n)) = n
        /\ \A i \in 1..n : Bytes(m, n)[i] = m + i
    BY BytesParts
  <1>2. /\ Cut(Bytes(m, n), j, k) \in Seq(Nat) /\ Len(Cut(Bytes(m, n), j, k)) = k
        /\ \A i \in 1..k : Cut(Bytes(m, n), j, k)[i] = Bytes(m, n)[j + i]
    BY <1>1, CutParts
  <1>3. \A i \in 1..k : Bytes(m, n)[j + i] = (m + j) + i
    <2> TAKE i \in 1..k
    <2>1. j + i \in 1..n /\ m + (j + i) = (m + j) + i
      OBVIOUS
    <2> QED BY <1>1, <2>1
  <1>4. \A i \in 1..k : Cut(Bytes(m, n), j, k)[i] = (m + j) + i
    BY <1>2, <1>3, Zenon
  <1>5. m + j \in Nat
    OBVIOUS
  <1> QED BY <1>2, <1>4, <1>5, AreBytes

(* Those that follow each other are one run of bytes.                       *)
LEMMA BytesJoin ==
    ASSUME NEW m \in Nat, NEW j \in Nat, NEW k \in Nat
    PROVE  Join(Bytes(m, j), Bytes(m + j, k)) = Bytes(m, j + k)
  <1> DEFINE s == Bytes(m, j)
             t == Bytes(m + j, k)
             q == Join(s, t)
  <1>1. /\ s \in Seq(Nat) /\ Len(s) = j /\ t \in Seq(Nat) /\ Len(t) = k
        /\ \A i \in 1..j : s[i] = m + i
        /\ \A i \in 1..k : t[i] = (m + j) + i
    <2>1. m + j \in Nat
      OBVIOUS
    <2>2. s \in Seq(Nat) /\ Len(s) = j /\ \A i \in 1..j : s[i] = m + i
      BY BytesParts, Zenon
    <2>3. t \in Seq(Nat) /\ Len(t) = k /\ \A i \in 1..k : t[i] = (m + j) + i
      BY <2>1, BytesParts, Zenon
    <2> QED BY <2>2, <2>3
  <1> HIDE DEF s, t
  <1>2. /\ q \in Seq(Nat) /\ Len(q) = j + k
        /\ \A i \in 1..(j + k) : q[i] = IF i <= j THEN s[i] ELSE t[i - j]
    BY <1>1, ConcatProperties DEF Join
  <1> HIDE DEF q
  <1>3. \A i \in 1..(j + k) : q[i] = m + i
    <2> TAKE i \in 1..(j + k)
    <2>1. CASE i <= j
      BY <1>1, <1>2, <2>1
    <2>2. CASE ~(i <= j)
      <3>1. i - j \in 1..k /\ (m + j) + (i - j) = m + i
        BY <2>2
      <3> QED BY <1>1, <1>2, <2>2, <3>1
    <2> QED BY <2>1, <2>2
  <1>4. q = Bytes(m, j + k)
    BY <1>2, <1>3, AreBytes
  <1> QED BY <1>4 DEF q, s, t

(* A read of n bytes behind the m passed on and the b that wait: k of them  *)
(* are passed on at once, and only if none waited; the others wait too.     *)
LEMMA BytesWritten ==
    ASSUME NEW m \in Nat, NEW b \in Nat, NEW n \in Nat, NEW k \in 0..n, b > 0 => k = 0
    PROVE  /\ Join(Bytes(m, b), Cut(Bytes(m + b, n), k, n - k)) = Bytes(m + k, b + n - k)
           /\ Join(Bytes(0, m), Cut(Bytes(m + b, n), 0, k)) = Bytes(0, m + k)
  <1>1. /\ m + b \in Nat /\ n - k \in Nat /\ k \in Nat /\ 0 \in Nat
        /\ k + (n - k) <= n /\ 0 + k <= n /\ (m + b) + 0 = m + b /\ 0 + m = m
    OBVIOUS
  <1>2. /\ Cut(Bytes(m + b, n), k, n - k) = Bytes((m + b) + k, n - k)
        /\ Cut(Bytes(m + b, n), 0, k) = Bytes(m + b, k)
    <2>1. Cut(Bytes(m + b, n), k, n - k) = Bytes((m + b) + k, n - k)
      BY <1>1, BytesCut
    <2>2. Cut(Bytes(m + b, n), 0, k) = Bytes((m + b) + 0, k)
      BY <1>1, BytesCut
    <2> QED BY <1>1, <2>1, <2>2, Zenon
  <1>3. CASE b = 0
    <2>1. m + k \in Nat /\ (m + k) + 0 = m + k /\ 0 + (n - k) = n - k
      OBVIOUS
    <2>2. Join(Bytes(m + k, 0), Bytes((m + k) + 0, n - k)) = Bytes(m + k, 0 + (n - k))
      BY <1>1, <2>1, BytesJoin, Zenon
    <2>3. Bytes(m, 0) = <<>> /\ Bytes(m + k, 0) = <<>>
      BY <1>1, <2>1, BytesParts, Zenon
    <2>4. Join(Bytes(0, m), Bytes(0 + m, k)) = Bytes(0, m + k)
      BY <1>1, BytesJoin
    <2>5. m + b = m /\ (m + b) + k = m + k /\ b + n - k = n - k
      BY <1>3
    <2> QED BY <1>1, <1>2, <1>3, <2>1, <2>2, <2>3, <2>4, <2>5, Zenon
  <1>4. CASE b > 0
    <2>0. k = 0 /\ m + k = m /\ (m + b) + k = m + b /\ n - k = n /\ b + n - k = b + n
      BY <1>4
    <2>1. Join(Bytes(m, b), Bytes(m + b, n)) = Bytes(m, b + n)
      BY BytesJoin
    <2>2. Join(Bytes(0, m), Bytes(0 + m, 0)) = Bytes(0, m + 0)
      BY BytesJoin
    <2>3. Bytes(m, 0) = <<>> /\ Bytes(m + b, 0) = <<>>
      BY <1>1, BytesParts
    <2>4. m + 0 = m
      OBVIOUS
    <2> QED BY <1>1, <1>2, <2>0, <2>1, <2>2, <2>3, <2>4, Zenon
  <1> QED BY <1>3, <1>4

(* A flush of n of the b bytes that wait behind the m passed on. *)
LEMMA BytesFlushed ==
    ASSUME NEW m \in Nat, NEW b \in Nat, NEW n \in 0..b
    PROVE  /\ Cut(Bytes(m, b), n, b - n) = Bytes(m + n, b - n)
           /\ Join(Bytes(0, m), Cut(Bytes(m, b), 0, n)) = Bytes(0, m + n)
  <1>1. Cut(Bytes(m, b), n, b - n) = Bytes(m + n, b - n)
    BY BytesCut
  <1>2. Cut(Bytes(m, b), 0, n) = Bytes(m + 0, n)
    BY BytesCut
  <1>3. Join(Bytes(0, m), Bytes(0 + m, n)) = Bytes(0, m + n)
    BY BytesJoin
  <1>4. m + 0 = m /\ 0 + m = m
    OBVIOUS
  <1> QED BY <1>1, <1>2, <1>3, <1>4, Zenon
-----------------------------------------------------------------------------
(* The steps of one channel, by what they change of its image.              *)

(* What the image of s is made of: m bytes passed on and b that wait.       *)
Image(s, m, b) ==
    /\ m \in Nat /\ b \in Nat /\ Total(s) \in Nat /\ m + b <= Total(s)
    /\ WasRead(s) = m + b /\ Buffered(s) = b /\ Passed(s) = m

(* Nothing of the image of s changes. *)
Kept(s) ==
    /\ WasRead(s)' = WasRead(s) /\ Buffered(s)' = Buffered(s) /\ Passed(s)' = Passed(s)
    /\ producer_eof'[s] = producer_eof[s] /\ fin'[s] = fin[s] /\ sndq'[s] = sndq[s]
    /\ ProducerOn(s)' = ProducerOn(s) /\ ConsumerOn(s)' = ConsumerOn(s)
    /\ PeerGone(s)' = PeerGone(s) /\ Over' = Over

LEMMA StutterMaps ==
    ASSUME NEW s \in Side, Kept(s)
    PROVE  UNCHANGED Channel(s)!vars
  BY Zenon DEF Kept, Channel!vars

(* A read is IOChannel's Read. *)
LEMMA ReadMaps ==
    ASSUME NEW s \in Side, NEW n \in 1..ReadSize, NEW k \in 0..n, NEW m, NEW b,
           Image(s, m, b), Image(s, m + k, b + n - k)',
           ReadSize \in Nat, SockBuf \in Nat, sndq[s] \in Nat, MaxBuf \in Nat,
           ProducerOn(s), ~producer_eof[s], b > 0 => k = 0, k <= SockBuf - sndq[s],
           sndq'[s] = sndq[s] + k,
           ConsumerOn(s)' = (ConsumerOn(s) \/ b + n - k > 0),
           ProducerOn(s)' = ~Full(b + n - k),
           producer_eof'[s] = producer_eof[s], fin'[s] = fin[s], Over' = Over
    PROVE  Channel(s)!Read(n)
  <1> DEFINE all == Bytes(0, Total(s))
             data == Bytes(m + b, n)
             m1 == m + k
             b1 == b + n - k
  <1>1. /\ m \in Nat /\ b \in Nat /\ m1 \in Nat /\ b1 \in Nat /\ n \in Nat /\ n - k \in Nat
        /\ m1 + b1 = (m + b) + n /\ (m + b) + n <= Total(s) /\ Total(s) \in Nat
    BY DEF Image
  <1>2. /\ WasRead(s) = m + b /\ Buffered(s) = b /\ Passed(s) = m
        /\ WasRead(s)' = m1 + b1 /\ Buffered(s)' = b1 /\ Passed(s)' = m1
    BY DEF Image
  <1>3. /\ ConsumerOn(s)' = (ConsumerOn(s) \/ b1 > 0) /\ ProducerOn(s)' = ~Full(b1)
    OBVIOUS
  <1>4. /\ Join(Bytes(m, b), Cut(data, k, n - k)) = Bytes(m1, b1)
        /\ Join(Bytes(0, m), Cut(data, 0, k)) = Bytes(0, m1)
    <2>1. m \in Nat /\ b \in Nat /\ n \in Nat /\ k \in 0..n
      BY <1>1
    <2>2. b > 0 => k = 0
      OBVIOUS
    <2> QED BY ONLY <2>1, <2>2, BytesWritten, Zenon
  <1> HIDE DEF m1, b1
  <1>5. Channel(s)!Slice(all, m + b, n) = data /\ Len(all) = Total(s) /\ Len(data) = n
    <2>1. m + b \in Nat /\ 0 \in Nat /\ 0 + (m + b) = m + b
      BY <1>1
    <2>2. Cut(all, m + b, n) = Bytes(0 + (m + b), n)
      BY <1>1, <2>1, BytesCut
    <2>3. Len(all) = Total(s) /\ Len(data) = n
      BY <1>1, <2>1, BytesParts
    <2> QED BY <2>1, <2>2, <2>3, Zenon DEF Channel!Slice, Cut
  <1>6. /\ Bytes(m, b) = <<>> <=> b = 0
        /\ Bytes(m1, b1) = <<>> <=> b1 = 0
        /\ Len(Bytes(m1, b1)) = b1
    BY <1>1, BytesParts, Zenon
  <1> HIDE DEF all, data
  <1>7. Channel(s)!Drop(data, k) = Cut(data, k, n - k) /\ Channel(s)!Take(data, k) = Cut(data, 0, k)
    <2>1. k + (n - k) = n /\ 0 + 1 = 1 /\ 0 + k = k
      BY <1>1
    <2> QED BY <1>5, <2>1, Zenon DEF Channel!Drop, Channel!Take, Cut
  <1>8. ~PeerGone(s) /\ PeerGone(s)' = PeerGone(s)
    BY Zenon DEF PeerGone
  <1>9. Channel(s)!Bypass(k)
    BY <1>1, <1>2, <1>6, <1>8 DEF Channel!Bypass
  <1>10. Channel(s)!Write(data, k)
    <2>1. Bytes(m, b) \o Channel(s)!Drop(data, k) = Bytes(m1, b1)
      BY <1>4, <1>7, Zenon DEF Join
    <2>2. Bytes(0, m) \o Channel(s)!Take(data, k) = Bytes(0, m1)
      BY <1>4, <1>7, Zenon DEF Join
    <2>3. Bytes(m1, b1) # <<>> <=> b1 > 0
      BY <1>1, <1>6
    <2>4. b1 >= MaxBuf <=> Full(b1)
      BY DEF Full
    <2>5. ConsumerOn(s)' = (ConsumerOn(s) \/ Bytes(m1, b1) # <<>>)
      BY <1>3, <2>3, Zenon
    <2>6. ProducerOn(s)' = (ProducerOn(s) /\ ~(Len(Bytes(m1, b1)) >= MaxBuf /\ ~producer_eof[s]))
      BY <1>3, <1>6, <2>4, Zenon
    <2> QED BY <1>2, <1>8, <1>9, <2>1, <2>2, <2>5, <2>6, Zenon
            DEF Channel!Write, Channel!ConsumerAfterWrite, Channel!StopsProducer
  <1>11. n <= Len(all) - (m + b) /\ m1 + b1 = (m + b) + n
    BY <1>1, <1>5
  <1> QED BY <1>2, <1>5, <1>10, <1>11, Zenon DEF Channel!Read, all

(* A flush is IOChannel's Send, and so is what the kernel took of the reply *)
(* to CONNECT.                                                              *)
LEMMA SendMaps ==
    ASSUME NEW s \in Side, NEW n \in 0..SockBuf, NEW m, NEW b,
           Image(s, m, b), Image(s, m + n, b - n)', n <= b,
           SockBuf \in Nat, sndq[s] \in Nat, MaxBuf \in Nat,
           ConsumerOn(s), ~PeerGone(s), sndq[s] < SockBuf, n <= SockBuf - sndq[s],
           sndq'[s] = sndq[s] + n,
           ConsumerOn(s)' = (ConsumerOn(s) /\ b - n > 0),
           ProducerOn(s)' = (ProducerOn(s) \/ ~(producer_eof[s] \/ Full(b - n))),
           IF b - n = 0 /\ producer_eof[s] THEN fin'[s] = TRUE ELSE fin'[s] = fin[s],
           PeerGone(s)' = FALSE,
           producer_eof'[s] = producer_eof[s], Over' = Over
    PROVE  Channel(s)!Send(n)
  <1> DEFINE data == Bytes(m, b)
             m1 == m + n
             b1 == b - n
  <1>1. /\ m \in Nat /\ b \in Nat /\ m1 \in Nat /\ b1 \in Nat /\ n \in 0..b /\ n \in Nat
        /\ m1 + b1 = m + b
    BY DEF Image
  <1>2. /\ WasRead(s) = m + b /\ Buffered(s) = b /\ Passed(s) = m
        /\ WasRead(s)' = m1 + b1 /\ Buffered(s)' = b1 /\ Passed(s)' = m1
    BY DEF Image
  <1>3. /\ ConsumerOn(s)' = (ConsumerOn(s) /\ b1 > 0)
        /\ ProducerOn(s)' = (ProducerOn(s) \/ ~(producer_eof[s] \/ Full(b1)))
        /\ IF b1 = 0 /\ producer_eof[s] THEN fin'[s] = TRUE ELSE fin'[s] = fin[s]
    OBVIOUS
  <1>4. /\ Cut(data, n, b - n) = Bytes(m1, b1)
        /\ Join(Bytes(0, m), Cut(data, 0, n)) = Bytes(0, m1)
    BY ONLY <1>1, BytesFlushed, Zenon
  <1>5. n + (b - n) = b /\ 0 + 1 = 1 /\ 0 + n = n
    BY <1>1
  <1> HIDE DEF m1, b1
  <1>6. /\ Bytes(m1, b1) = <<>> <=> b1 = 0
        /\ Len(Bytes(m1, b1)) = b1 /\ Len(data) = b
    BY <1>1, BytesParts, Zenon
  <1> HIDE DEF data
  <1>7. Channel(s)!Drop(data, n) = Bytes(m1, b1) /\ Channel(s)!Take(data, n) = Cut(data, 0, n)
    BY <1>4, <1>5, <1>6, Zenon DEF Channel!Drop, Channel!Take, Cut
  <1>8. Channel(s)!Flush(n)
    <2>1. Bytes(0, m) \o Channel(s)!Take(data, n) = Bytes(0, m1)
      BY <1>4, <1>7, Zenon DEF Join
    <2>2. n <= Len(data)
      BY <1>6
    <2> QED BY <1>2, <1>7, <2>1, <2>2, Zenon DEF Channel!Flush, data
  <1>9. Channel(s)!FinishFlush(Bytes(m1, b1))
    <2>0. PeerGone(s)' = PeerGone(s)
      BY Zenon DEF PeerGone
    <2>1. CASE b1 = 0 /\ producer_eof[s]
      BY <1>3, <1>6, <2>0, <2>1, Zenon DEF Channel!FinishFlush
    <2>2. CASE ~(b1 = 0 /\ producer_eof[s])
      BY <1>3, <1>6, <2>0, <2>2, Zenon DEF Channel!FinishFlush
    <2> QED BY <2>1, <2>2
  <1>10. ConsumerOn(s)' = (ConsumerOn(s) /\ Bytes(m1, b1) # <<>>)
    <2>1. Bytes(m1, b1) # <<>> <=> b1 > 0
      BY <1>1, <1>6
    <2> QED BY <1>3, <2>1, Zenon
  <1>11. ProducerOn(s)' = (ProducerOn(s) \/ Channel(s)!ResumesProducer(Bytes(m1, b1)))
    <2>1. Len(Bytes(m1, b1)) < MaxBuf <=> ~Full(b1)
      BY <1>1, <1>6 DEF Full
    <2> QED BY <1>3, <2>1, Zenon DEF Channel!ResumesProducer
  <1>12. Channel(s)!OnWrite(n)
    BY <1>2, <1>7, <1>8, <1>9, <1>10, <1>11, Zenon DEF Channel!OnWrite, data
  <1> QED BY <1>1, <1>2, <1>12, Zenon DEF Channel!Send

(* The first end of file of the side that feeds s is IOChannel's Eof. *)
LEMMA EofMaps ==
    ASSUME NEW s \in Side, NEW m, NEW b,
           Image(s, m, b), Image(s, m, b)', m + b = Total(s),
           ProducerOn(s), ProducerOn(s)' = FALSE,
           ~producer_eof[s], producer_eof'[s] = TRUE, ~fin[s],
           fin'[s] = fin[s] \/ (b = 0 /\ fin'[s] = TRUE), buf'[s] = b,
           ConsumerOn(s)' = ConsumerOn(s), sndq'[s] = sndq[s], Over' = Over
    PROVE  Channel(s)!Eof
  <1>1. /\ WasRead(s) = m + b /\ Buffered(s) = b /\ Passed(s) = m
        /\ WasRead(s)' = m + b /\ Buffered(s)' = b /\ Passed(s)' = m
        /\ m \in Nat /\ b \in Nat /\ Total(s) \in Nat
    BY DEF Image
  <1>2. Len(Bytes(0, Total(s))) = Total(s) /\ (Bytes(m, b) = <<>> <=> b = 0)
    <2>1. 0 \in Nat
      OBVIOUS
    <2> QED BY <1>1, <2>1, BytesParts, Zenon
  <1>3. ~PeerGone(s) /\ (PeerGone(s)' <=> b = 0 /\ ~fin'[s])
    BY Zenon DEF PeerGone
  <1>4. CASE b = 0 /\ fin'[s] = TRUE
    <2>1. PeerGone(s)' = PeerGone(s)
      BY <1>3, <1>4, Zenon DEF PeerGone
    <2> QED BY <1>1, <1>2, <1>3, <1>4, <2>1, Zenon
            DEF Channel!Eof, Channel!ProducerDone, Channel!Shutdown
  <1>5. CASE fin'[s] = fin[s] /\ b = 0
    <2>1. PeerGone(s)' = TRUE
      BY <1>3, <1>5, Zenon DEF PeerGone
    <2> QED BY <1>1, <1>2, <1>3, <1>5, <2>1, Zenon
            DEF Channel!Eof, Channel!ProducerDone, Channel!Shutdown
  <1>6. CASE fin'[s] = fin[s] /\ b # 0
    <2>1. PeerGone(s)' = PeerGone(s)
      BY <1>3, <1>6, Zenon DEF PeerGone
    <2> QED BY <1>1, <1>2, <1>3, <1>6, <2>1, Zenon
            DEF Channel!Eof, Channel!ProducerDone
  <1> QED BY <1>4, <1>5, <1>6, Zenon

(* Whatever ends the session is IOChannel's Teardown. *)
LEMMA EndMaps ==
    ASSUME NEW s \in Side, NEW m, NEW b, Image(s, m, b), Image(s, m, b)', ~Over, Over',
           producer_eof'[s] = producer_eof[s], fin'[s] = fin[s], sndq'[s] = sndq[s],
           PeerGone(s)' = PeerGone(s), ProducerOn(s)' = FALSE, ConsumerOn(s)' = FALSE
    PROVE  Channel(s)!Teardown
  <1>1. Over' = TRUE
    BY Zenon DEF Over
  <1> QED BY <1>1, Zenon DEF Image, Channel!Teardown, Channel!Close

(* What the peer of s reads it reads from IOChannel's socket. *)
LEMMA PeerReadsMaps ==
    ASSUME NEW s \in Side, NEW n \in 1..SockBuf, ~PeerGone(s), n <= sndq[s],
           sndq'[s] = sndq[s] - n, UNCHANGED <<state, buf, producer_eof, reader, writer, unread, fin>>
    PROVE  Channel(s)!PeerReads(n)
  <1>1. /\ Passed(s)' = Passed(s) /\ Buffered(s)' = Buffered(s) /\ WasRead(s)' = WasRead(s)
        /\ ProducerOn(s)' = ProducerOn(s) /\ ConsumerOn(s)' = ConsumerOn(s)
        /\ PeerGone(s)' = PeerGone(s) /\ Over' = Over
    BY Zenon DEF Passed, Buffered, WasRead, ProducerOn, ConsumerOn, PeerGone, Over, Begun
  <1> QED BY <1>1, Zenon DEF Channel!PeerReads

-----------------------------------------------------------------------------
(* The steps of a session, by what they are for each of its channels.       *)
ChannelStep(s) == [Channel(s)!Next]_(Channel(s)!vars)

(* What is sent altogether for s.                                           *)
LEMMA Totals ==
    ASSUME RelayAssumption, NEW s \in Side
    PROVE  /\ Given(s) \in Nat /\ Sends[Other(s)] \in Nat /\ Total(s) \in Nat
           /\ Given(s) <= Total(s) /\ Total(s) = Given(s) + Sends[Other(s)]
  BY Gifts, Sides DEF RelayAssumption, Total

(* The parameters of each channel are as IOChannel assumes.                 *)
LEMMA ChannelParameters ==
    ASSUME NEW s \in Side
    PROVE  /\ Bytes(0, Total(s)) \in Seq(Nat) /\ Given(s) \in 0..Len(Bytes(0, Total(s)))
           /\ MaxBuf \in Nat \ {0} /\ ReadSize \in Nat \ {0} /\ SockBuf \in Nat \ {0}
  <1>1. Total(s) \in Nat /\ Given(s) \in Nat /\ Given(s) <= Total(s) /\ 0 \in Nat
    BY RelayAssumption, Totals
  <1>2. Bytes(0, Total(s)) \in Seq(Nat) /\ Len(Bytes(0, Total(s))) = Total(s)
    BY <1>1, BytesParts, Zenon
  <1> QED BY <1>1, <1>2, RelayAssumption DEF RelayAssumption

LEMMA Picture ==
    ASSUME RelayAssumption, IndInv, Account, NEW s \in Side
    PROVE  \E m, b \in Nat : /\ Image(s, m, b) /\ b = Buffered(s)
                             /\ unread[Other(s)] = Total(s) - (m + b)
  <1>1. /\ unread[Other(s)] \in Nat /\ unread[Other(s)] <= Sends[Other(s)]
        /\ Buffered(s) <= WasRead(s)
    BY Sides, Parts, Zenon DEF Account
  <1>2. Buffered(s) \in Nat
    BY Totals, Parts DEF Buffered
  <1>3. WasRead(s) = Total(s) - unread[Other(s)] /\ Passed(s) = WasRead(s) - Buffered(s)
    BY DEF WasRead, Passed
  <1> DEFINE m == Passed(s)
             b == Buffered(s)
  <1>4. /\ m \in Nat /\ b \in Nat /\ m + b = WasRead(s) /\ m + b <= Total(s) /\ Total(s) \in Nat
        /\ unread[Other(s)] = Total(s) - (m + b)
    BY <1>1, <1>2, <1>3, Totals
  <1>5. Image(s, m, b)
    BY <1>4 DEF Image
  <1> QED BY <1>4, <1>5, Zenon

LEMMA Redrawn ==
    ASSUME RelayAssumption, NEW s \in Side, NEW m \in Nat, NEW b \in Nat, m + b <= Total(s),
           unread'[Other(s)] = Total(s) - (m + b), Buffered(s)' = b
    PROVE  Image(s, m, b)'
  <1>1. Total(s) \in Nat
    BY Totals
  <1>2. WasRead(s)' = Total(s) - unread'[Other(s)] /\ Passed(s)' = WasRead(s)' - Buffered(s)'
    BY DEF WasRead, Passed, Total, Given
  <1>3. WasRead(s)' = m + b /\ Passed(s)' = m
    BY <1>1, <1>2
  <1>4. Total(s)' = Total(s)
    BY DEF Total, Given
  <1> QED BY <1>1, <1>3, <1>4, Zenon DEF Image

(* The accounts of the next state from its images.                          *)
LEMMA Accounted ==
    ASSUME RelayAssumption, \A s \in Side : \E m, b \in Nat : Image(s, m, b)',
           \A s \in Side : unread'[s] <= Sends[s], ~Begun' => unread' = Sends
    PROVE  Account'
  <1>1. ASSUME NEW s \in Side PROVE Buffered(s)' <= WasRead(s)'
    <2>1. PICK m \in Nat, b \in Nat : Image(s, m, b)'
      OBVIOUS
    <2>2. WasRead(s)' = m + b /\ Buffered(s)' = b
      BY <2>1 DEF Image
    <2> QED BY <2>2
  <1> QED BY <1>1, Zenon DEF Account

(* A step of a running session that leaves the channel of s alone.          *)
LEMMA LeftAlone ==
    ASSUME NEW s \in Side, NEW m, NEW b, Image(s, m, b), Image(s, m, b)',
           state = "STREAM", state' = "STREAM",
           buf'[s] = buf[s], sndq'[s] = sndq[s],
           producer_eof'[s] = producer_eof[s], fin'[s] = fin[s],
           reader'[Other(s)] = reader[Other(s)], writer'[s] = writer[s]
    PROVE  ChannelStep(s)
  <1>1. WasRead(s)' = WasRead(s) /\ Buffered(s)' = Buffered(s) /\ Passed(s)' = Passed(s)
    BY Zenon DEF Image
  <1>2. state # "CMD" /\ state' # "CMD" /\ Over = FALSE /\ Over' = FALSE
    BY DEF Over
  <1>3. /\ ProducerOn(s)' = ProducerOn(s) /\ ConsumerOn(s)' = ConsumerOn(s)
        /\ PeerGone(s)' = PeerGone(s)
    BY <1>2, Zenon DEF ProducerOn, ConsumerOn, PeerGone
  <1>4. Kept(s)
    BY <1>1, <1>2, <1>3, Zenon DEF Kept
  <1> QED BY <1>4, StutterMaps, Zenon DEF ChannelStep

(* A read of s is a Read of the channel it feeds.                           *)
LEMMA RecvMaps ==
    ASSUME RelayAssumption, IndInv, Account, NEW s \in Side, Recv(s)
    PROVE  Account' /\ \A t \in Side : ChannelStep(t)
  <1> DEFINE o == Other(s)
  <1>0. PICK n \in 1..ReadSize :
          /\ n <= unread[s]
          /\ unread' = [unread EXCEPT ![s] = @ - n]
          /\ \E k \in Takes(o, n) : Write(o, n, k)
    BY Zenon DEF Recv
  <1>1. PICK k \in Takes(o, n) : Write(o, n, k)
    BY <1>0
  <1>2. /\ state = "STREAM" /\ reader[s] /\ state' = state
        /\ producer_eof' = producer_eof /\ fin' = fin
    BY Zenon DEF Recv
  <1>3. o \in Side /\ o # s /\ Other(o) = s /\ \A t \in Side : t = s \/ t = o
    BY Sides
  <1>4. Begun /\ Begun' /\ ~Over /\ Over' = Over /\ state' = "STREAM" /\ state # "CMD"
    BY <1>2 DEF Begun, Over
  <1>5. PICK m \in Nat, b \in Nat : /\ Image(o, m, b) /\ b = Buffered(o)
                                    /\ unread[Other(o)] = Total(o) - (m + b)
    BY <1>3, Picture, Zenon
  <1>6. PICK m2 \in Nat, b2 \in Nat : /\ Image(s, m2, b2) /\ b2 = Buffered(s)
                                      /\ unread[Other(s)] = Total(s) - (m2 + b2)
    BY Picture, Zenon
  <1>7. b = buf[o] /\ b2 = buf[s]
    BY <1>4, <1>5, <1>6, Zenon DEF Buffered
  <1>8. /\ k \in 0..n /\ k <= SockBuf - sndq[o] /\ (b > 0 => k = 0)
    BY <1>1, <1>3, <1>7, Parts DEF Takes, Room
  <1>9. /\ buf' = [buf EXCEPT ![o] = b + n - k]
        /\ sndq' = [sndq EXCEPT ![o] = @ + k]
        /\ writer' = [writer EXCEPT ![o] = @ \/ b + n - k > 0]
        /\ reader' = [reader EXCEPT ![s] = @ /\ ~Full(b + n - k)]
    BY <1>1, <1>3, <1>7, Zenon DEF Write
  <1> HIDE DEF o
  <1>10. /\ buf'[o] = b + n - k /\ buf'[s] = buf[s]
         /\ sndq'[o] = sndq[o] + k /\ sndq'[s] = sndq[s]
         /\ writer'[o] = (writer[o] \/ b + n - k > 0) /\ writer'[s] = writer[s]
         /\ reader'[s] = (reader[s] /\ ~Full(b + n - k)) /\ reader'[o] = reader[o]
         /\ unread'[s] = unread[s] - n /\ unread'[o] = unread[o]
    BY <1>0, <1>3, <1>9, Parts, Zenon
  <1>11. Buffered(o)' = b + n - k /\ Buffered(s)' = b2
    BY <1>4, <1>7, <1>10, Zenon DEF Buffered
  <1>12. Image(o, m + k, b + n - k)' /\ Image(s, m2, b2)'
    <2>1. /\ m + k \in Nat /\ b + n - k \in Nat /\ (m + k) + (b + n - k) <= Total(o)
          /\ unread'[s] = Total(o) - ((m + k) + (b + n - k))
      <3>1. /\ Total(o) \in Nat /\ unread[s] = Total(o) - (m + b) /\ n <= unread[s]
            /\ unread'[s] = unread[s] - n
        BY <1>0, <1>3, <1>5, <1>10, Totals
      <3>2. n \in Nat
        BY Parts
      <3> QED BY ONLY <1>8, <3>1, <3>2, m \in Nat, b \in Nat
    <2>2. m2 + b2 <= Total(s) /\ unread'[o] = Total(s) - (m2 + b2)
      BY <1>6, <1>10, Zenon DEF Image, o
    <2>3. Image(o, m + k, b + n - k)'
      BY <1>3, <1>11, <2>1, Redrawn, Zenon
    <2>4. Image(s, m2, b2)'
      BY <1>11, <2>2, Redrawn, Zenon DEF o
    <2> QED BY <2>3, <2>4
  <1>13. Channel(o)!Read(n)
    <2>1. ~producer_eof[o]
      BY <1>2, Streaming, Zenon DEF o
    <2>2. /\ ProducerOn(o) /\ ProducerOn(o)' = ~Full(b + n - k)
      BY <1>2, <1>3, <1>4, <1>10, Zenon DEF ProducerOn
    <2>3. ConsumerOn(o)' = (ConsumerOn(o) \/ b + n - k > 0)
      BY <1>4, <1>10, Zenon DEF ConsumerOn
    <2>4. ReadSize \in Nat /\ SockBuf \in Nat /\ MaxBuf \in Nat /\ sndq[o] \in Nat
      BY <1>3, Parts
    <2>5. producer_eof'[o] = producer_eof[o] /\ fin'[o] = fin[o]
      BY <1>2, Zenon
    <2>6. o \in Side /\ Over' = Over /\ sndq'[o] = sndq[o] + k
      BY <1>3, <1>4, <1>10, Zenon
    <2>7. Image(o, m, b) /\ Image(o, m + k, b + n - k)'
      BY <1>5, <1>12, Zenon
    <2> QED BY <1>8, <2>1, <2>2, <2>3, <2>4, <2>5, <2>6, <2>7, ReadMaps, ZenonT(60)
  <1>14. ChannelStep(o)
    BY <1>13, Zenon DEF ChannelStep, Channel!Next
  <1>15. ChannelStep(s)
    BY <1>2, <1>4, <1>6, <1>10, <1>12, LeftAlone, Zenon DEF o
  <1>16. Account'
    <2>1. \A t \in Side : \E x, y \in Nat : Image(t, x, y)'
      <3>1. m + k \in Nat /\ b + n - k \in Nat
        BY <1>8, Parts
      <3> QED BY <1>3, <1>12, <3>1, Zenon
    <2>2. \A t \in Side : unread'[t] <= Sends[t]
      <3>1. \A t \in Side : unread[t] \in Nat /\ unread[t] <= Sends[t] /\ Sends[t] \in Nat
        BY Parts DEF Account, RelayAssumption
      <3> QED BY <1>3, <1>10, <3>1, Parts
    <2> QED BY <1>4, <2>1, <2>2, Accounted
  <1> QED BY <1>3, <1>14, <1>15, <1>16, Zenon

(* Images of a step that reads nothing and moves nothing.                   *)
LEMMA SamePicture ==
    ASSUME RelayAssumption, IndInv, Account, NEW s \in Side,
           unread' = unread, Buffered(s)' = Buffered(s)
    PROVE  \E m, b \in Nat : /\ Image(s, m, b) /\ Image(s, m, b)' /\ b = Buffered(s)
                             /\ unread[Other(s)] = Total(s) - (m + b)
  <1>1. PICK m \in Nat, b \in Nat : /\ Image(s, m, b) /\ b = Buffered(s)
                                    /\ unread[Other(s)] = Total(s) - (m + b)
    BY Picture, Zenon
  <1>2. m + b <= Total(s)
    BY <1>1, Zenon DEF Image
  <1>3. Image(s, m, b)'
    BY <1>1, <1>2, Redrawn, Zenon
  <1> QED BY <1>1, <1>3, Zenon

(* The end of a session is a Teardown of both of its channels.              *)
LEMMA EndingMaps ==
    ASSUME RelayAssumption, IndInv, Account, NEW how \in {"eof", "failed", "refused"}, End(how),
           unread' = unread, how = "refused" <=> state = "CMD", state \in {"CMD", "STREAM"}
    PROVE  Account' /\ \A t \in Side : ChannelStep(t)
  <1>1. /\ state' = how /\ buf' = buf /\ producer_eof' = producer_eof
        /\ sndq' = sndq /\ fin' = fin
        /\ reader' = [t \in Side |-> FALSE] /\ writer' = [t \in Side |-> FALSE]
    BY Zenon DEF End
  <1>2. Over' /\ ~Over /\ (Begun' <=> Begun) /\ state' # "CMD"
    BY <1>1 DEF Over, Begun
  <1>3. \A t \in Side : Buffered(t)' = Buffered(t)
    BY <1>1, <1>2, Zenon DEF Buffered
  <1>4. ASSUME NEW t \in Side PROVE ChannelStep(t) /\ \E x, y \in Nat : Image(t, x, y)'
    <2>1. PICK m \in Nat, b \in Nat : Image(t, m, b) /\ Image(t, m, b)'
      BY <1>3, SamePicture, Zenon
    <2>2. /\ producer_eof'[t] = producer_eof[t] /\ fin'[t] = fin[t] /\ sndq'[t] = sndq[t]
          /\ PeerGone(t)' = PeerGone(t)
      BY <1>1, Zenon DEF PeerGone
    <2>3. ProducerOn(t)' = FALSE /\ ConsumerOn(t)' = FALSE
      <3>1. Other(t) \in Side
        BY Sides
      <3> QED BY <1>1, <1>2, <3>1, Zenon DEF ProducerOn, ConsumerOn
    <2>4. Channel(t)!Teardown
      BY <1>2, <2>1, <2>2, <2>3, EndMaps, Zenon
    <2> QED BY <2>1, <2>4, Zenon DEF ChannelStep, Channel!Next
  <1>5. (\A t \in Side : unread'[t] <= Sends[t]) /\ (~Begun' => unread' = Sends)
    BY <1>2, Zenon DEF Account
  <1>6. Account'
    BY <1>4, <1>5, Accounted, Zenon
  <1> QED BY <1>4, <1>6, Zenon

(* An end of file of s is an Eof of the channel it feeds, or the second.    *)
LEMMA RecvEofMaps ==
    ASSUME RelayAssumption, IndInv, Account, NEW s \in Side, RecvEof(s)
    PROVE  Account' /\ \A t \in Side : ChannelStep(t)
  <1> DEFINE o == Other(s)
  <1>1. state = "STREAM" /\ reader[s] /\ unread[s] = 0 /\ unread' = unread
    BY Zenon DEF RecvEof
  <1>2. o \in Side /\ o # s /\ Other(o) = s /\ \A t \in Side : t = s \/ t = o
    BY Sides
  <1>3. CASE producer_eof[s]
    <2>1. End("eof")
      BY <1>3, Zenon DEF RecvEof
    <2>2. "eof" \in {"eof", "failed", "refused"} /\ ~("eof" = "refused")
          /\ ~(state = "CMD") /\ state \in {"CMD", "STREAM"}
      BY <1>1
    <2> QED BY <1>1, <2>1, <2>2, EndingMaps, Zenon
  <1>4. CASE ~producer_eof[s]
    <2>1. /\ producer_eof' = [producer_eof EXCEPT ![o] = TRUE]
          /\ reader' = [reader EXCEPT ![s] = FALSE]
          /\ state' = state /\ buf' = buf /\ writer' = writer /\ sndq' = sndq
          /\ (buf[o] = 0 /\ fin' = [fin EXCEPT ![o] = TRUE]) \/ fin' = fin
      BY <1>4, Zenon DEF RecvEof, Shutdown
    <2> HIDE DEF o
    <2>2. /\ producer_eof'[o] = TRUE /\ producer_eof'[s] = producer_eof[s]
          /\ reader'[s] = FALSE /\ reader'[o] = reader[o]
      BY <1>2, <2>1, Parts, Zenon
    <2>3. fin'[s] = fin[s] /\ (fin'[o] = fin[o] \/ (buf[o] = 0 /\ fin'[o] = TRUE))
      BY <1>2, <2>1, Parts, Zenon
    <2>4. Begun /\ Begun' /\ Over' = Over /\ state' = "STREAM" /\ state # "CMD" /\ state' # "CMD"
      BY <1>1, <2>1 DEF Begun, Over
    <2>5. \A t \in Side : Buffered(t)' = Buffered(t)
      BY <2>1, <2>4, Zenon DEF Buffered
    <2>6. PICK m \in Nat, b \in Nat : /\ Image(o, m, b) /\ Image(o, m, b)' /\ b = Buffered(o)
                                      /\ unread[Other(o)] = Total(o) - (m + b)
      BY <1>1, <1>2, <2>5, SamePicture, Zenon
    <2>7. PICK m2 \in Nat, b2 \in Nat : Image(s, m2, b2) /\ Image(s, m2, b2)'
      BY <1>1, <2>5, SamePicture, Zenon
    <2>8. m + b = Total(o)
      <3>1. Total(o) \in Nat /\ 0 = Total(o) - (m + b)
        BY <1>1, <1>2, <2>6, Totals
      <3> QED BY <3>1
    <2>9. Channel(o)!Eof
      <3>1. ~producer_eof[o] /\ ~fin[o]
        <4>1. ~producer_eof[o]
          BY <1>1, Streaming, Zenon DEF o
        <4> QED BY <1>2, <4>1, Parts, Zenon
      <3>2. ProducerOn(o) /\ ProducerOn(o)' = FALSE /\ ConsumerOn(o)' = ConsumerOn(o)
        BY <1>1, <1>2, <2>1, <2>2, <2>4, Zenon DEF ProducerOn, ConsumerOn
      <3>3. sndq'[o] = sndq[o] /\ buf'[o] = b
        BY <2>1, <2>4, <2>6, Zenon DEF Buffered
      <3>4. fin'[o] = fin[o] \/ (b = 0 /\ fin'[o] = TRUE)
        BY <2>1, <2>3, <3>3, Zenon
      <3> QED BY <1>2, <2>2, <2>4, <2>6, <2>8, <3>1, <3>2, <3>3, <3>4, EofMaps, Zenon
    <2>10. ChannelStep(o)
      BY <2>9, Zenon DEF ChannelStep, Channel!Next
    <2>11. ChannelStep(s)
      <3>1. buf'[s] = buf[s] /\ sndq'[s] = sndq[s] /\ writer'[s] = writer[s]
            /\ reader'[Other(s)] = reader[Other(s)]
        BY <2>1, <2>2, Zenon DEF o
      <3> QED BY <1>1, <2>2, <2>3, <2>4, <2>7, <3>1, LeftAlone, Zenon
    <2>12. Account'
      <3>1. \A t \in Side : \E x, y \in Nat : Image(t, x, y)'
        BY <1>2, <2>6, <2>7, Zenon
      <3>2. \A t \in Side : unread'[t] <= Sends[t]
        BY <1>1, Zenon DEF Account
      <3> QED BY <2>4, <3>1, <3>2, Accounted, Zenon
    <2> QED BY <1>2, <2>10, <2>11, <2>12, Zenon
  <1> QED BY <1>3, <1>4, Zenon

(* A flush of the channel of s is its Send.                                 *)
LEMMA FlushMaps ==
    ASSUME RelayAssumption, IndInv, Account, NEW s \in Side, NEW n \in 0..SockBuf, Send(s, n)
    PROVE  Account' /\ \A t \in Side : ChannelStep(t)
  <1> DEFINE o == Other(s)
  <1>1. /\ state = "STREAM" /\ writer[s] /\ Room(s) > 0 /\ n <= buf[s] /\ n <= Room(s)
        /\ state' = state /\ producer_eof' = producer_eof /\ unread' = unread
    BY Zenon DEF Send
  <1>2. o \in Side /\ o # s /\ Other(o) = s /\ \A t \in Side : t = s \/ t = o
    BY Sides
  <1>3. Begun /\ Begun' /\ Over' = Over /\ state' = "STREAM" /\ state # "CMD" /\ state' # "CMD"
    BY <1>1 DEF Begun, Over
  <1>4. PICK m \in Nat, b \in Nat : /\ Image(s, m, b) /\ b = Buffered(s)
                                    /\ unread[Other(s)] = Total(s) - (m + b)
    BY Picture, Zenon
  <1>5. PICK m2 \in Nat, b2 \in Nat : /\ Image(o, m2, b2) /\ b2 = Buffered(o)
                                      /\ unread[Other(o)] = Total(o) - (m2 + b2)
    BY <1>2, Picture, Zenon
  <1>6. b = buf[s] /\ b2 = buf[o]
    BY <1>3, <1>4, <1>5, Zenon DEF Buffered
  <1>7. /\ buf' = [buf EXCEPT ![s] = b - n]
        /\ sndq' = [sndq EXCEPT ![s] = @ + n]
        /\ writer' = [writer EXCEPT ![s] = b - n > 0]
        /\ IF b - n = 0 /\ producer_eof[s] THEN fin' = [fin EXCEPT ![s] = TRUE] ELSE fin' = fin
        /\ reader' = [reader EXCEPT ![o] = @ \/ ~(producer_eof[s] \/ Full(b - n))]
    BY <1>6, Zenon DEF Send, Shutdown
  <1> HIDE DEF o
  <1>8. /\ buf'[s] = b - n /\ buf'[o] = buf[o]
        /\ sndq'[s] = sndq[s] + n /\ sndq'[o] = sndq[o]
        /\ writer'[s] = (b - n > 0) /\ writer'[o] = writer[o]
        /\ reader'[o] = (reader[o] \/ ~(producer_eof[s] \/ Full(b - n))) /\ reader'[s] = reader[s]
    BY <1>2, <1>7, Parts, Zenon
  <1>9. /\ fin'[o] = fin[o]
        /\ IF b - n = 0 /\ producer_eof[s] THEN fin'[s] = TRUE ELSE fin'[s] = fin[s]
    <2>1. CASE b - n = 0 /\ producer_eof[s]
      BY <1>2, <1>7, <2>1, Parts, Zenon
    <2>2. CASE ~(b - n = 0 /\ producer_eof[s])
      BY <1>7, <2>2, Zenon
    <2> QED BY <2>1, <2>2, Zenon
  <1>10. Buffered(s)' = b - n /\ Buffered(o)' = b2
    BY <1>3, <1>6, <1>8, Zenon DEF Buffered
  <1>11. /\ n \in Nat /\ n <= b /\ b - n \in Nat /\ m + n \in Nat /\ (m + n) + (b - n) = m + b
         /\ sndq[s] < SockBuf /\ n <= SockBuf - sndq[s]
    BY <1>1, <1>6, Parts DEF Room
  <1>12. Image(s, m + n, b - n)' /\ Image(o, m2, b2)'
    <2>1. m + b <= Total(s) /\ m2 + b2 <= Total(o)
      BY <1>4, <1>5, Zenon DEF Image
    <2>2. Image(s, m + n, b - n)'
      BY <1>1, <1>4, <1>10, <1>11, <2>1, Redrawn, Zenon
    <2>3. Image(o, m2, b2)'
      BY <1>1, <1>2, <1>5, <1>10, <2>1, Redrawn, Zenon
    <2> QED BY <2>2, <2>3
  <1>13. Channel(s)!Send(n)
    <2>1. ConsumerOn(s) /\ ConsumerOn(s)' = (ConsumerOn(s) /\ b - n > 0)
      <3>1. (b - n > 0) \in BOOLEAN
        BY <1>11
      <3> QED BY <1>1, <1>3, <1>8, <3>1, Zenon DEF ConsumerOn
    <2>2. ProducerOn(s)' = (ProducerOn(s) \/ ~(producer_eof[s] \/ Full(b - n)))
      BY <1>2, <1>3, <1>8, Parts, Zenon DEF ProducerOn, o
    <2>3. ~PeerGone(s)
      <3>1. buf[s] > 0
        BY <1>1, Streaming
      <3>2. buf[s] # 0
        BY <3>1, Parts
      <3> QED BY <3>2, Zenon DEF PeerGone
    <2>4. PeerGone(s)' = FALSE
      <3>1. CASE b - n = 0 /\ producer_eof[s]
        BY <1>9, <3>1, Zenon DEF PeerGone
      <3>2. CASE ~(b - n = 0 /\ producer_eof[s])
        BY <1>1, <1>8, <3>2, Zenon DEF PeerGone
      <3> QED BY <3>1, <3>2, Zenon
    <2>5. SockBuf \in Nat /\ sndq[s] \in Nat /\ MaxBuf \in Nat
      BY Parts
    <2>6. producer_eof'[s] = producer_eof[s] /\ sndq'[s] = sndq[s] + n
      BY <1>1, <1>8, Zenon
    <2> QED BY <1>3, <1>4, <1>9, <1>11, <1>12, <2>1, <2>2, <2>3, <2>4, <2>5, <2>6, SendMaps, ZenonT(60)
  <1>14. ChannelStep(s)
    BY <1>13, Zenon DEF ChannelStep, Channel!Next
  <1>15. ChannelStep(o)
    <2>1. reader'[Other(o)] = reader[Other(o)] /\ producer_eof'[o] = producer_eof[o]
      BY <1>1, <1>2, <1>8, Zenon
    <2> QED BY <1>1, <1>2, <1>3, <1>5, <1>8, <1>9, <1>12, <2>1, LeftAlone, Zenon
  <1>16. Account'
    <2>1. \A t \in Side : \E x, y \in Nat : Image(t, x, y)'
      BY <1>2, <1>11, <1>12, Zenon
    <2>2. \A t \in Side : unread'[t] <= Sends[t]
      BY <1>1, Zenon DEF Account
    <2> QED BY <1>3, <2>1, <2>2, Accounted, Zenon
  <1> QED BY <1>2, <1>14, <1>15, <1>16, Zenon

(* A read by the peer of s is one from its channel.                         *)
LEMMA PeerMaps ==
    ASSUME RelayAssumption, IndInv, Account, NEW s \in Side, PeerReads(s)
    PROVE  Account' /\ \A t \in Side : ChannelStep(t)
  <1> DEFINE o == Other(s)
  <1>1. ~PeerGone(s) /\ UNCHANGED <<state, buf, producer_eof, reader, writer, unread, fin>>
    BY DEF PeerReads, watchers
  <1>2. PICK n \in 1..sndq[s] : sndq' = [sndq EXCEPT ![s] = @ - n]
    BY Zenon DEF PeerReads
  <1>3. o \in Side /\ o # s /\ Other(o) = s /\ \A t \in Side : t = s \/ t = o
    BY Sides
  <1>4. n \in 1..SockBuf /\ n <= sndq[s] /\ sndq'[s] = sndq[s] - n /\ sndq'[o] = sndq[o]
    BY <1>2, <1>3, Parts
  <1>5. Channel(s)!PeerReads(n)
    BY <1>1, <1>4, PeerReadsMaps, Zenon
  <1>6. ChannelStep(s)
    BY <1>4, <1>5, Zenon DEF ChannelStep, Channel!Next
  <1>7. Kept(o)
    BY <1>1, <1>4, Zenon DEF Kept, Passed, Buffered, WasRead, ProducerOn, ConsumerOn, PeerGone,
                             Over, Begun
  <1>8. ChannelStep(o)
    BY <1>3, <1>7, StutterMaps, Zenon DEF ChannelStep
  <1>9. Account'
    BY <1>1, Zenon DEF Account, Buffered, WasRead, Begun
  <1> QED BY <1>3, <1>6, <1>8, <1>9, Zenon

(* CONNECT: the reply reaches the kernel as a Send of client.iochan, if at  *)
(* all; remote.iochan only goes on, and its producer too if the replies fit.*)
LEMMA ConnectMaps ==
    ASSUME RelayAssumption, IndInv, Account, Fits, Connect
    PROVE  Account' /\ \A t \in Side : ChannelStep(t)
  <1> DEFINE cl == "client"
             re == "remote"
  <1>1. PICK k \in Takes(cl, Reply) :
          /\ buf' = [client |-> buf[cl] + Reply - k, remote |-> Early]
          /\ sndq' = [sndq EXCEPT ![cl] = @ + k]
          /\ reader' = [s \in Side |-> s = re \/ ~Full(buf[cl] + Reply - k)]
          /\ writer' = [s \in Side |-> buf'[s] > 0]
    BY Zenon DEF Connect
  <1>2. /\ state = "CMD" /\ state' = "STREAM" /\ unread' = unread /\ fin' = fin
        /\ producer_eof' = producer_eof
    BY Zenon DEF Connect
  <1>3. /\ cl \in Side /\ re \in Side /\ Other(cl) = re /\ Other(re) = cl /\ cl # re
        /\ \A t \in Side : t = cl \/ t = re
    BY DEF Side, Other
  <1>4. ~Begun /\ Begun' /\ Over = FALSE /\ Over' = FALSE /\ state' # "CMD"
    BY <1>2 DEF Begun, Over
  <1>5. (\A s \in Side : ~producer_eof[s]) /\ unread = Sends /\ buf[cl] = Waiting
    BY <1>2, <1>4, Zenon DEF IndInv, Account
  <1>6. \A s \in Side : ~PeerGone(s) /\ PeerGone(s)' = FALSE /\ PeerGone(s)' = PeerGone(s)
    BY <1>2, <1>5, Zenon DEF PeerGone
  <1>7. PICK m \in Nat, b \in Nat : /\ Image(cl, m, b) /\ b = Buffered(cl)
                                    /\ unread[Other(cl)] = Total(cl) - (m + b)
    BY <1>3, Picture, Zenon
  <1>8. PICK m2 \in Nat, b2 \in Nat : /\ Image(re, m2, b2) /\ b2 = Buffered(re)
                                      /\ unread[Other(re)] = Total(re) - (m2 + b2)
    BY <1>3, Picture, Zenon
  <1>9. /\ b = Waiting + Reply /\ b2 = Early
        /\ Waiting \in Nat /\ Reply \in Nat \ {0} /\ Early \in Nat /\ b > 0 /\ b < MaxBuf
        /\ MaxBuf \in Nat /\ SockBuf \in Nat /\ sndq[cl] \in 0..SockBuf
    <2>1. b = Given(cl) /\ b2 = Given(re)
      BY <1>4, <1>7, <1>8, Zenon DEF Buffered
    <2>2. Given(cl) = Waiting + Reply /\ Given(re) = Early /\ Waiting \in Nat
      BY Gifts
    <2>3. Reply \in Nat \ {0} /\ Early \in Nat /\ MaxBuf \in Nat
      BY DEF RelayAssumption
    <2>4. SockBuf \in Nat /\ sndq[cl] \in 0..SockBuf
      BY <1>3, Parts
    <2> QED BY <2>1, <2>2, <2>3, <2>4 DEF Fits
  <1>10. /\ k \in 0..b /\ k <= SockBuf - sndq[cl] /\ k \in 0..SockBuf
         /\ b - k \in Nat /\ buf[cl] + Reply - k = b - k
    BY <1>1, <1>5, <1>9 DEF Takes, Room
  <1> HIDE DEF cl, re
  <1>11. buf'[cl] = b - k /\ buf'[re] = Early
    BY <1>1, <1>10 DEF cl, re
  <1>12. /\ sndq'[cl] = sndq[cl] + k /\ sndq'[re] = sndq[re]
         /\ writer'[cl] = (b - k > 0) /\ writer'[re] = (Early > 0)
    BY <1>1, <1>3, <1>11, Parts, Zenon
  <1>13. reader'[re] = TRUE /\ reader'[cl] = TRUE
    <2>1. ~Full(b - k)
      BY <1>9, <1>10 DEF Full
    <2> QED BY <1>1, <1>3, <1>10, <2>1, Zenon
  <1>14. Buffered(cl)' = b - k /\ Buffered(re)' = b2
    BY <1>4, <1>9, <1>11, Zenon DEF Buffered
  <1>15. m + b <= Total(cl) /\ m2 + b2 <= Total(re)
    BY <1>7, <1>8, Zenon DEF Image
  <1>16. /\ m + k \in Nat /\ (m + k) + (b - k) = m + b
    BY <1>10
  <1>17. Image(cl, m + k, b - k)' /\ Image(re, m2, b2)'
    <2>1. Image(cl, m + k, b - k)'
      BY <1>2, <1>3, <1>7, <1>10, <1>14, <1>15, <1>16, Redrawn, Zenon
    <2>2. Image(re, m2, b2)'
      BY <1>2, <1>3, <1>8, <1>14, <1>15, Redrawn, Zenon
    <2> QED BY <2>1, <2>2
  <1>18. \A s \in Side : ProducerOn(s) = TRUE /\ ProducerOn(s)' = TRUE
    BY <1>2, <1>3, <1>4, <1>13, Zenon DEF ProducerOn
  <1>19. /\ ConsumerOn(cl) /\ ConsumerOn(cl)' = (b - k > 0)
         /\ ConsumerOn(re)' = ConsumerOn(re)
    <2>1. Given(cl) = b /\ Given(re) = Early
      BY <1>3, <1>9, Gifts DEF cl, re
    <2> QED BY <1>2, <1>4, <1>9, <1>12, <2>1, Zenon DEF ConsumerOn
  <1>20. ChannelStep(re)
    <2>1. WasRead(re)' = WasRead(re) /\ Buffered(re)' = Buffered(re) /\ Passed(re)' = Passed(re)
      BY <1>8, <1>17, Zenon DEF Image
    <2>2. Kept(re)
      BY <1>2, <1>3, <1>4, <1>6, <1>12, <1>18, <1>19, <2>1, Zenon DEF Kept
    <2> QED BY <1>3, <2>2, StutterMaps, Zenon DEF ChannelStep
  <1>21. ChannelStep(cl)
    <2>1. CASE k = 0
      <3>1. m + k = m /\ b - k = b /\ b > 0 /\ sndq[cl] + k = sndq[cl]
        BY <1>9, <2>1
      <3>2. WasRead(cl)' = WasRead(cl) /\ Buffered(cl)' = Buffered(cl) /\ Passed(cl)' = Passed(cl)
        BY <1>7, <1>17, <3>1, Zenon DEF Image
      <3>3. ConsumerOn(cl)' = ConsumerOn(cl)
        <4>1. Given(cl) > 0
          BY <1>3, <1>9, Gifts DEF cl
        <4>2. ConsumerOn(cl) = (b > 0)
          <5>1. Given(cl) = b
            BY <1>9, Gifts DEF cl
          <5> QED BY <1>2, <5>1, Zenon DEF ConsumerOn
        <4> QED BY <1>19, <3>1, <4>2, Zenon
      <3>4. Kept(cl)
        BY <1>2, <1>3, <1>4, <1>6, <1>12, <1>18, <3>1, <3>2, <3>3, Zenon DEF Kept
      <3> QED BY <1>3, <3>4, StutterMaps, Zenon DEF ChannelStep
    <2>2. CASE k # 0
      <3>1. sndq[cl] < SockBuf /\ sndq[cl] \in Nat /\ k <= b
        BY <1>9, <1>10, <2>2
      <3>2. ConsumerOn(cl)' = (ConsumerOn(cl) /\ b - k > 0)
        <4>1. (b - k > 0) \in BOOLEAN
          BY <1>10
        <4> QED BY <1>19, <4>1, Zenon
      <3>3. ProducerOn(cl)' = (ProducerOn(cl) \/ ~(producer_eof[cl] \/ Full(b - k)))
        BY <1>3, <1>18, Zenon
      <3>4. IF b - k = 0 /\ producer_eof[cl] THEN fin'[cl] = TRUE ELSE fin'[cl] = fin[cl]
        BY <1>2, <1>3, <1>5, Zenon
      <3>5. /\ cl \in Side /\ Over' = Over /\ producer_eof'[cl] = producer_eof[cl]
            /\ ~PeerGone(cl) /\ PeerGone(cl)' = FALSE /\ SockBuf \in Nat /\ MaxBuf \in Nat
        BY <1>2, <1>3, <1>4, <1>6, <1>9, Zenon
      <3>6. Channel(cl)!Send(k)
        BY <1>7, <1>10, <1>12, <1>17, <1>19, <3>1, <3>2, <3>3, <3>4, <3>5, SendMaps, ZenonT(60)
      <3> QED BY <1>10, <3>6, Zenon DEF ChannelStep, Channel!Next
    <2> QED BY <2>1, <2>2, Zenon
  <1>22. Account'
    <2>1. \A t \in Side : \E x, y \in Nat : Image(t, x, y)'
      BY <1>3, <1>10, <1>16, <1>17, Zenon
    <2>2. \A t \in Side : unread'[t] <= Sends[t]
      BY <1>2, Zenon DEF Account
    <2> QED BY <1>4, <2>1, <2>2, Accounted, Zenon
  <1> QED BY <1>3, <1>20, <1>21, <1>22, Zenon

(* Before its CONNECT a session is the initial state of both channels.      *)
LEMMA InitMaps ==
    ASSUME RelayAssumption, Init
    PROVE  Account /\ \A s \in Side : Channel(s)!Init
  <1>1. /\ state = "CMD" /\ unread = Sends /\ ~Begun /\ Over = FALSE
        /\ \A s \in Side : producer_eof[s] = FALSE /\ fin[s] = FALSE
    <2>1. state = "CMD" /\ unread = Sends
      BY Zenon DEF Init
    <2>2. ~Begun /\ Over = FALSE
      BY <2>1 DEF Begun, Over
    <2>3. \A s \in Side : producer_eof[s] = FALSE /\ fin[s] = FALSE
      BY Zenon DEF Init
    <2> QED BY <2>1, <2>2, <2>3, Zenon
  <1>2. ASSUME NEW s \in Side
        PROVE  /\ WasRead(s) = Given(s) /\ Buffered(s) = Given(s) /\ Passed(s) = 0
               /\ unread[s] <= Sends[s]
    <2>1. Buffered(s) = Given(s)
      BY <1>1, Zenon DEF Buffered
    <2>2. Given(s) \in Nat /\ Sends[Other(s)] \in Nat /\ Total(s) = Given(s) + Sends[Other(s)]
      BY Totals
    <2>3. WasRead(s) = Given(s)
      BY <1>1, <2>2 DEF WasRead
    <2>4. Passed(s) = 0
      BY <2>1, <2>2, <2>3 DEF Passed
    <2>5. unread[s] <= Sends[s]
      BY <1>1 DEF RelayAssumption
    <2> QED BY <2>1, <2>3, <2>4, <2>5
  <1>3. Account
    <2>1. \A s \in Side : Buffered(s) <= WasRead(s)
      BY <1>2, Gifts
    <2> QED BY <1>1, <1>2, <2>1, Zenon DEF Account
  <1>4. ASSUME NEW s \in Side PROVE Channel(s)!Init
    <2>1. Given(s) \in Nat /\ Total(s) \in Nat /\ 0 + Given(s) <= Total(s) /\ 0 \in Nat
      BY Totals
    <2>2. Cut(Bytes(0, Total(s)), 0, Given(s)) = Bytes(0 + 0, Given(s))
      BY <2>1, BytesCut
    <2>3. Channel(s)!Take(Bytes(0, Total(s)), Given(s)) = Bytes(0, Given(s))
      <3>1. 0 + 0 = 0 /\ 0 + 1 = 1 /\ 0 + Given(s) = Given(s)
        BY <2>1
      <3> QED BY <2>2, <3>1, Zenon DEF Channel!Take, Cut
    <2>4. Bytes(0, 0) = <<>>
      BY BytesParts
    <2>5. sndq[s] \in 0..SockBuf
      BY InitKeeps, Parts, Zenon
    <2>6. ProducerOn(s) = TRUE /\ ConsumerOn(s) = (Given(s) > 0) /\ PeerGone(s) = FALSE
      BY <1>1, Zenon DEF ProducerOn, ConsumerOn, PeerGone
    <2> QED BY <1>1, <1>2, <2>3, <2>4, <2>5, <2>6, Zenon DEF Channel!Init
  <1> QED BY <1>3, <1>4, Zenon

(* Every step of a session is one of each channel, or leaves it alone.      *)
LEMMA NextMaps ==
    ASSUME RelayAssumption, Fits, IndInv, Account, [Next]_vars
    PROVE  Account' /\ \A t \in Side : ChannelStep(t)
  <1>1. CASE Connect
    BY <1>1, ConnectMaps
  <1>2. CASE Fail
    <2>1. CASE state = "CMD"
      <3>1. End("refused") /\ unread' = unread
        BY <1>2, <2>1 DEF Fail
      <3> QED BY <2>1, <3>1, EndingMaps
    <2>2. CASE state = "STREAM"
      <3>1. End("failed") /\ unread' = unread
        BY <1>2, <2>2 DEF Fail
      <3>2. state # "CMD"
        BY <2>2
      <3> QED BY <2>2, <3>1, <3>2, EndingMaps
    <2> QED BY <1>2, <2>1, <2>2, Zenon DEF Fail
  <1>3. ASSUME NEW s \in Side, Recv(s) PROVE Account' /\ \A t \in Side : ChannelStep(t)
    BY <1>3, RecvMaps, Zenon
  <1>4. ASSUME NEW s \in Side, RecvEof(s) PROVE Account' /\ \A t \in Side : ChannelStep(t)
    BY <1>4, RecvEofMaps, Zenon
  <1>5. ASSUME NEW s \in Side, PeerReads(s) PROVE Account' /\ \A t \in Side : ChannelStep(t)
    BY <1>5, PeerMaps, Zenon
  <1>6. ASSUME NEW s \in Side, NEW n \in 0..SockBuf, Send(s, n)
        PROVE  Account' /\ \A t \in Side : ChannelStep(t)
    BY <1>6, FlushMaps, Zenon
  <1>7. CASE UNCHANGED vars
    <2>1. UNCHANGED <<state, buf, producer_eof, reader, writer, unread, sndq, fin>>
      BY <1>7 DEF vars, watchers
    <2>2. \A t \in Side : Kept(t)
      BY <2>1, Zenon DEF Kept, Passed, Buffered, WasRead, ProducerOn, ConsumerOn, PeerGone, Over, Begun
    <2>3. \A t \in Side : ChannelStep(t)
      BY <2>2, StutterMaps, Zenon DEF ChannelStep
    <2>4. Account'
      BY <2>1, Zenon DEF Account, Buffered, WasRead, Begun
    <2> QED BY <2>3, <2>4
  <1> QED BY <1>1, <1>2, <1>3, <1>4, <1>5, <1>6, <1>7, Zenon DEF Next

(* Both directions of a session are IOChannels, whatever the other does and *)
(* however the session ends, if the replies fit client.iochan at CONNECT    *)
(* (cmd_connect, client_recv_cb, remote_recv_cb, client_send_cb,            *)
(* remote_send_cb, on_client_eof, on_remote_eof, on_client_done).           *)
THEOREM ChannelsRefine == Fits => (Spec => ChannelsAreIOChannels)
  <1> SUFFICES ASSUME Fits PROVE Spec => ChannelsAreIOChannels
    OBVIOUS
  <1>0. "client" \in Side /\ "remote" \in Side
    BY DEF Side
  <1>1. Init => Account /\ Channel("client")!Init /\ Channel("remote")!Init
    BY <1>0, RelayAssumption, InitMaps, Zenon
  <1>2. IndInv /\ Account /\ [Next]_vars
        => /\ Account'
           /\ [Channel("client")!Next]_(Channel("client")!vars)
           /\ [Channel("remote")!Next]_(Channel("remote")!vars)
    BY <1>0, RelayAssumption, NextMaps, Zenon DEF ChannelStep
  <1> QED BY <1>1, <1>2, Invariance, PTL DEF Spec, ChannelsAreIOChannels
=============================================================================
